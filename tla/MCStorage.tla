----------------------------- MODULE MCStorage -----------------------------
(* Two versions of one file that share their first chunk.  Tasks are alike, and
   so are backends; only safety is checked. *)
EXTENDS Storage, TLC

CONSTANTS b1, b2, c, d, f1

TwoVersions == b1 :> <<c>> @@ b2 :> <<c, d>>
AtFirst == f1 :> b1
Alike == Permutations(Tasks) \union Permutations(Backends)
=============================================================================
