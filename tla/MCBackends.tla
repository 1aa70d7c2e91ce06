----------------------------- MODULE MCBackends -----------------------------
(* Two stores: one of any kind, sealed or not, and a plain bucket or local one.  The local
   store holds the chunk of the blob, and its manifest, or not, or cut short. *)
EXTENDS Backends, TLC

CONSTANTS s1, s2

Init == /\ BackendsInit
        /\ kind[s2] \in {"bucket", "local-fs"} /\ ~sealing[s2]
        /\ files[Local][2] = Plain(2)
Spec == Init /\ [][BackendsNext]_backendVars

Symmetry == Permutations(Askers)
=============================================================================
