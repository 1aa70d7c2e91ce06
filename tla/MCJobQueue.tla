---------------------------- MODULE MCJobQueue -----------------------------
(***************************************************************************)
(* Instances of JobQueue for TLC.                                          *)
(***************************************************************************)
EXTENDS JobQueue, TLC

CONSTANTS d1, d2, j1, j2, w1, w2

\* Every drainer has a name of its own.
OwnNames == d1 :> w1 @@ d2 :> w2

OnePriority == {0}
=============================================================================
