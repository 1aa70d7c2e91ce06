------------------------------ MODULE JobLease ------------------------------
(***************************************************************************)
(* What the job queue promises, with no clock, table or process: a job     *)
(* waits, is leased to one owner, and is resolved by that owner or taken   *)
(* back.  A lease is granted at most MaxTries times, only the owner's      *)
(* outcome counts, and a resolved job is never leased again.               *)
(***************************************************************************)
EXTENDS Integers

CONSTANTS Tasks, Owners, NoOwner, MaxTries

VARIABLES
  phase,   \* "new", "waiting", "leased", "done", "failed" or "purged"
  owner,   \* who holds the lease of a leased task
  tries    \* leases granted so far

leaseVars == <<phase, owner, tries>>

Init ==
  /\ phase = [t \in Tasks |-> "new"]
  /\ owner = [t \in Tasks |-> NoOwner]
  /\ tries = [t \in Tasks |-> 0]

Submit(t) ==
  /\ phase[t] = "new"
  /\ phase' = [phase EXCEPT ![t] = "waiting"]
  /\ UNCHANGED <<owner, tries>>

Grant(t, o) ==
  /\ phase[t] = "waiting"
  /\ tries[t] < MaxTries
  /\ phase' = [phase EXCEPT ![t] = "leased"]
  /\ owner' = [owner EXCEPT ![t] = o]
  /\ tries' = [tries EXCEPT ![t] = @ + 1]

Resolve(t, o, outcome) ==
  /\ phase[t] = "leased"
  /\ owner[t] = o
  /\ phase' = [phase EXCEPT ![t] = outcome]
  /\ owner' = [owner EXCEPT ![t] = NoOwner]
  /\ UNCHANGED tries

\* Several leases may expire at once; the last one a task may have is fatal.
Revoke(S) ==
  /\ \A t \in S : phase[t] = "leased"
  /\ phase' = [t \in Tasks |->
                 IF t \in S THEN IF tries[t] < MaxTries THEN "waiting" ELSE "failed"
                            ELSE phase[t]]
  /\ owner' = [t \in Tasks |-> IF t \in S THEN NoOwner ELSE owner[t]]
  /\ UNCHANGED tries

Purge(S) ==
  /\ \A t \in S : phase[t] \in {"done", "failed"}
  /\ phase' = [t \in Tasks |-> IF t \in S THEN "purged" ELSE phase[t]]
  /\ UNCHANGED <<owner, tries>>

Next ==
  \/ \E t \in Tasks : Submit(t)
  \/ \E t \in Tasks, o \in Owners : Grant(t, o)
  \/ \E t \in Tasks, o \in Owners, outcome \in {"done", "failed"} :
       Resolve(t, o, outcome)
  \/ \E S \in SUBSET Tasks : Revoke(S) \/ Purge(S)

Spec == Init /\ [][Next]_leaseVars
=============================================================================
