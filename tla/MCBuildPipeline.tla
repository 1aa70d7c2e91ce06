--------------------------- MODULE MCBuildPipeline ---------------------------
(* A plan for TLC: a T0 node, a gated node behind it and a plain node behind that. *)
EXTENDS BuildPipeline, TLC

CONSTANTS r, s, d

ChainPlan == <<s, r, d>>
ChainDeps == [n \in Nodes |-> CASE n = s -> {} [] n = r -> {s} [] n = d -> {r}]
=============================================================================
