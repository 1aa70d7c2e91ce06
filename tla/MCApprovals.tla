---------------------------- MODULE MCApprovals ----------------------------
(* Small instances of Approvals: a typed-confirm build gate, a draft and a
   storage switch, each with the type its creator gives it. *)
EXTENDS Approvals, TLC

CONSTANTS gate, draft, storage

MCTypeOf == [e \in Entities |-> CASE e = gate -> "pending_approval"
                                  [] e = draft -> "draft"
                                  [] e = storage -> "storage_backend"]
=============================================================================
