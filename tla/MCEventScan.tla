---------------------------- MODULE MCEventScan ----------------------------
(***************************************************************************)
(* Instances of EventScan for TLC.                                         *)
(***************************************************************************)
EXTENDS EventScan
=============================================================================
