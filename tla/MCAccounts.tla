----------------------------- MODULE MCAccounts -----------------------------
(* Two parts of lifeos-api that share no table, so a behaviour is about one of
   them: the accounts, with one legacy owner of a workspace and one other user, or
   the connected accounts, with two items at the provider.  Handlers are alike,
   and so are Nango's connection ids; only safety is checked. *)
EXTENDS Accounts, Sources, TLC

VARIABLE focus

Alike == Permutations(Handlers) \union Permutations(Handles)

MCInit ==
  \/ focus = "accounts" /\ Init /\ SourcesInit
     /\ provider = "kite" /\ remote = Items
  \/ focus = "sources" /\ SourcesInit /\ Init
     /\ members = [u \in Users |-> "none"] /\ account = [u \in Users |->
           IF u \in Legacy THEN "complete" ELSE "none"]

MCNext ==
  \/ focus = "accounts" /\ Next /\ UNCHANGED <<focus, sourceVars>>
  \/ focus = "sources" /\ SourcesNext /\ UNCHANGED <<focus, vars>>

MCSpec == MCInit /\ [][MCNext]_<<focus, vars, sourceVars>>
=============================================================================
