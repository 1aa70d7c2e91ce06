------------------------------ MODULE Release ------------------------------
(***************************************************************************)
(* Release pipelines and push notifications over one event log: a run that *)
(* waits for a human, and how the human hears of it.                       *)
(***************************************************************************)
EXTENDS Pipelines, PushNotify

vars == <<logVars, pipelineVars, pushVars>>

Init == LogInit /\ PipelineInit /\ PushInit

Next ==
  \/ PipelineNext /\ UNCHANGED pushVars
  \/ PushNext /\ UNCHANGED pipelineVars

Spec == Init /\ [][Next]_vars

TypeOK == LogTypeOK /\ PipelineTypeOK /\ PushTypeOK
=============================================================================
