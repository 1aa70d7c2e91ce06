------------------------------ MODULE Accounts ------------------------------
(***************************************************************************)
(* Accounts of lifeos-api: registration (register.rs), sessions and their  *)
(* refresh tokens (login.rs), and the members and invites of one workspace *)
(* (membership.rs, auth.rs).  A handler is a sequence of statements with   *)
(* those of other requests in between.                                     *)
(*                                                                         *)
(* Legacy users joined the workspace before it had member rows: they are   *)
(* in `memberships`, and theirs are the tokens that name this workspace.   *)
(* A user without a member row has the role "none".                        *)
(***************************************************************************)
EXTENDS Naturals, Sequences, FiniteSets

CONSTANTS
  Handlers,              \* requests that may be in progress together
  Users, Legacy, Null,
  MaxRequests, MaxCrashes   \* bounds: requests, handlers that die

ASSUME AccountsAssumption ==
  /\ Legacy \subseteq Users /\ Legacy # {} /\ Null \notin Users
  /\ {MaxRequests, MaxCrashes} \subseteq Nat

Roles == {"owner", "editor", "viewer", "agent"}

VARIABLES
  account,     \* "none", "user": the row alone, "complete": with its membership
  sessions,    \* refresh tokens: the one each was rotated from, and its state
  members,     \* role of each user in workspace_members
  invites,     \* role and state of each invite
  lapsed,      \* how many sessions and invites have passed their expires_at
  pc, req, requests, crashes,
  loggedOut,   \* history: sessions a logout revoked
  joins,       \* history: users who joined by each invite
  removed,     \* history: users whom remove_member removed
  met,         \* history: two requests that could take away an owner overlapped
  died         \* history: where handlers died

tables == <<account, sessions, members, invites, lapsed>>
histVars == <<loggedOut, joins, removed, met, died>>
vars == <<tables, pc, req, requests, crashes, histVars>>

NoRequest == [u |-> Null, n |-> 0, role |-> "none", todo |-> {}]

\* Before or after the first invite; every account but a legacy one may be new.
Init ==
  /\ account \in {a \in [Users -> {"none", "complete"}] : \A u \in Legacy : a[u] = "complete"}
  /\ members \in {[u \in Users |-> IF u \in S THEN "owner" ELSE "none"] : S \in {{}, Legacy}}
  /\ sessions = <<>> /\ invites = <<>> /\ lapsed = [s |-> 0, i |-> 0]
  /\ pc = [h \in Handlers |-> "idle"] /\ req = [h \in Handlers |-> NoRequest]
  /\ requests = 0 /\ crashes = 0
  /\ loggedOut = {} /\ joins = <<>> /\ removed = {} /\ met = FALSE /\ died = {}

Go(h, next) == pc' = [pc EXCEPT ![h] = next]
Ends(h) == Go(h, "idle") /\ req' = [req EXCEPT ![h] = NoRequest]
Begin(h, next, r) ==
  /\ pc[h] = "idle" /\ requests < MaxRequests
  /\ requests' = requests + 1
  /\ Go(h, next)
  /\ req' = [req EXCEPT ![h] = r]
  /\ UNCHANGED crashes
Goes == UNCHANGED <<requests, crashes>>
-----------------------------------------------------------------------------
(* Sessions. *)

NewSession(parent) == sessions' = Append(sessions, [parent |-> parent, revoked |-> FALSE])

\* login: the user and the primary workspace are read; without one it is an error.
BeginLogin(h, u) ==
  /\ account[u] = "complete"
  /\ Begin(h, "session", [NoRequest EXCEPT !.u = u])
  /\ UNCHANGED <<tables, histVars>>

Valid(s) == ~sessions[s].revoked /\ s > lapsed.s

\* refresh: the session is looked up, then revoked if it still is not.
BeginRefresh(h, s) ==
  /\ Valid(s)
  /\ Begin(h, "rotate", [NoRequest EXCEPT !.n = s])
  /\ UNCHANGED <<tables, histVars>>

RotateAlways(h) ==   \* mutant: the UPDATE has no revoked_at IS NULL
  /\ pc[h] = "rotate"
  /\ sessions' = [sessions EXCEPT ![req[h].n].revoked = TRUE]
  /\ Go(h, "session")
  /\ Goes /\ UNCHANGED <<account, members, invites, lapsed, req, histVars>>

Rotate(h) ==
  /\ pc[h] = "rotate"
  /\ IF sessions[req[h].n].revoked
       THEN Ends(h) /\ UNCHANGED sessions
       ELSE /\ sessions' = [sessions EXCEPT ![req[h].n].revoked = TRUE]
            /\ Go(h, "session") /\ UNCHANGED req
  /\ Goes /\ UNCHANGED <<account, members, invites, lapsed, histVars>>

\* create_session, the last statement of login, refresh and register.
CreateSession(h) ==
  /\ pc[h] = "session"
  /\ NewSession(req[h].n)
  /\ Ends(h)
  /\ Goes /\ UNCHANGED <<account, members, invites, lapsed, histVars>>

\* logout is one statement.
Logout(s) ==
  /\ requests < MaxRequests /\ requests' = requests + 1
  /\ loggedOut' = IF sessions[s].revoked THEN loggedOut ELSE loggedOut \union {s}
  /\ sessions' = [sessions EXCEPT ![s].revoked = TRUE]
  /\ UNCHANGED <<account, members, invites, lapsed, pc, req, crashes, joins, removed, met, died>>
-----------------------------------------------------------------------------
(* Registration.  The workspace row it inserts first is reached through the
   membership only. *)

BeginRegister(h, u) ==
  /\ account[u] = "none"               \* email_exists
  /\ Begin(h, "insert_user", [NoRequest EXCEPT !.u = u])
  /\ UNCHANGED <<tables, histVars>>

\* users.email is UNIQUE: the second of two racing requests fails here.
InsertUser(h) ==
  /\ pc[h] = "insert_user"
  /\ IF account[req[h].u] = "none"
       THEN /\ account' = [account EXCEPT ![req[h].u] = "user"]
            /\ Go(h, "insert_membership") /\ UNCHANGED req
       ELSE Ends(h) /\ UNCHANGED account
  /\ Goes /\ UNCHANGED <<sessions, members, invites, lapsed, histVars>>

InsertMembership(h) ==
  /\ pc[h] = "insert_membership"
  /\ account' = [account EXCEPT ![req[h].u] = "complete"]
  /\ Go(h, "session")
  /\ Goes /\ UNCHANGED <<sessions, members, invites, lapsed, req, histVars>>
-----------------------------------------------------------------------------
(* Members.  The caller of an owner's action is a legacy user's token, or
   nobody's: local-first mode takes the workspace from a header. *)

Members == {u \in Users : members[u] # "none"}
Owners == {u \in Users : members[u] = "owner"}

\* resolve_role and require_owner.
OwnerCalls == \E c \in Legacy \union {Null} : Members = {} \/ c \in Owners

LosesOwner(g) == pc[g] \in {"count", "write_member"} /\ req[g].role # "owner"

\* set_role, and remove_member, which is to the role "none".
BeginSetRole(h, u, role) ==
  /\ OwnerCalls
  /\ Begin(h, "read_member", [NoRequest EXCEPT !.u = u, !.role = role])
  /\ UNCHANGED <<tables, histVars>>

ReadMember(h) ==
  /\ pc[h] = "read_member"
  /\ LET loses == req[h].u \in Owners /\ req[h].role # "owner" IN
     IF req[h].u \notin Members
       THEN Ends(h) /\ UNCHANGED met
       ELSE /\ Go(h, IF loses THEN "count" ELSE "write_member")
            /\ met' = (met \/ (req[h].role # "owner" /\ \E g \in Handlers \ {h} : LosesOwner(g)))
            /\ UNCHANGED req
  /\ Goes /\ UNCHANGED <<tables, loggedOut, joins, removed, died>>

CountOwnersLate(h) ==   \* mutant: off by one
  /\ pc[h] = "count"
  /\ IF Cardinality(Owners) < 1 THEN Ends(h) ELSE Go(h, "write_member") /\ UNCHANGED req
  /\ Goes /\ UNCHANGED <<tables, histVars>>

\* The last-owner guard.
CountOwners(h) ==
  /\ pc[h] = "count"
  /\ IF Cardinality(Owners) <= 1 THEN Ends(h) ELSE Go(h, "write_member") /\ UNCHANGED req
  /\ Goes /\ UNCHANGED <<tables, histVars>>

\* An UPDATE of a row that is gone changes nothing.
WriteMember(h) ==
  /\ pc[h] = "write_member"
  /\ LET u == req[h].u IN
     /\ members' = IF u \in Members THEN [members EXCEPT ![u] = req[h].role] ELSE members
     /\ removed' = IF req[h].role = "none" THEN removed \union {u} ELSE removed
  /\ Ends(h)
  /\ Goes /\ UNCHANGED <<account, sessions, invites, lapsed, loggedOut, joins, met, died>>
-----------------------------------------------------------------------------
(* Invites. *)

BeginInvite(h, role) ==
  /\ OwnerCalls
  /\ Begin(h, "materialize", [NoRequest EXCEPT !.role = role, !.todo = Legacy])
  /\ UNCHANGED <<tables, histVars>>

MaterializeNone(h) ==   \* mutant: no legacy owner is made a member
  /\ pc[h] = "materialize"
  /\ Go(h, "insert_invite")
  /\ Goes /\ UNCHANGED <<tables, req, histVars>>

\* materialize_legacy_owners: one INSERT per row of memberships, in any order.
Materialize(h) ==
  /\ pc[h] = "materialize"
  /\ \E u \in req[h].todo :
       /\ members' = IF u \in Members THEN members ELSE [members EXCEPT ![u] = "owner"]
       /\ req' = [req EXCEPT ![h].todo = @ \ {u}]
       /\ Go(h, IF req[h].todo = {u} THEN "insert_invite" ELSE "materialize")
  /\ Goes /\ UNCHANGED <<account, sessions, invites, lapsed, histVars>>

InsertInvite(h) ==
  /\ pc[h] = "insert_invite"
  /\ invites' = Append(invites, [role |-> req[h].role, state |-> "pending"])
  /\ joins' = Append(joins, {})
  /\ Ends(h)
  /\ Goes /\ UNCHANGED <<account, sessions, members, lapsed, loggedOut, removed, met, died>>

\* accept_invite by anyone with an account: a check, the CAS, the member row.
BeginAccept(h, u, i) ==
  /\ account[u] = "complete"
  /\ invites[i].state = "pending" /\ i > lapsed.i
  /\ Begin(h, "accept", [NoRequest EXCEPT !.u = u, !.n = i, !.role = invites[i].role])
  /\ UNCHANGED <<tables, histVars>>

AcceptAlways(h) ==   \* mutant: the UPDATE has no accepted_at IS NULL
  /\ pc[h] = "accept"
  /\ invites' = [invites EXCEPT ![req[h].n].state = IF @ = "revoked" THEN @ ELSE "accepted"]
  /\ IF invites[req[h].n].state = "revoked" THEN Ends(h) ELSE Go(h, "join") /\ UNCHANGED req
  /\ Goes /\ UNCHANGED <<account, sessions, members, lapsed, histVars>>

Accept(h) ==
  /\ pc[h] = "accept"
  /\ IF invites[req[h].n].state = "pending"
       THEN /\ invites' = [invites EXCEPT ![req[h].n].state = "accepted"]
            /\ Go(h, "join") /\ UNCHANGED req
       ELSE Ends(h) /\ UNCHANGED invites
  /\ Goes /\ UNCHANGED <<account, sessions, members, lapsed, histVars>>

Join(h) ==
  /\ pc[h] = "join"
  /\ LET u == req[h].u IN
     /\ members' = IF u \in Members THEN members ELSE [members EXCEPT ![u] = req[h].role]
     /\ joins' = [joins EXCEPT ![req[h].n] = @ \union {u}]
  /\ Ends(h)
  /\ Goes /\ UNCHANGED <<account, sessions, invites, lapsed, loggedOut, removed, met, died>>

BeginRevoke(h, i) ==
  /\ OwnerCalls
  /\ Begin(h, "revoke", [NoRequest EXCEPT !.n = i])
  /\ UNCHANGED <<tables, histVars>>

\* The row is deleted, accepted or not.
Revoke(h) ==
  /\ pc[h] = "revoke"
  /\ invites' = [invites EXCEPT ![req[h].n].state = "revoked"]
  /\ Ends(h)
  /\ Goes /\ UNCHANGED <<account, sessions, members, lapsed, histVars>>
-----------------------------------------------------------------------------
\* Invites run out after a week, refresh tokens after a month.
Lapse ==
  /\ \/ lapsed' = [lapsed EXCEPT !.i = Len(invites)]
     \/ lapsed' = [s |-> Len(sessions), i |-> Len(invites)]
  /\ lapsed' # lapsed
  /\ UNCHANGED <<account, sessions, members, invites, pc, req, requests, crashes, histVars>>

Crash(h) ==
  /\ pc[h] # "idle" /\ crashes < MaxCrashes
  /\ crashes' = crashes + 1
  /\ died' = died \union {<<pc[h], req[h].u, req[h].n>>}
  /\ Ends(h)
  /\ UNCHANGED <<tables, requests, loggedOut, joins, removed, met>>

Step(h) ==
  \/ Rotate(h) \/ CreateSession(h) \/ InsertUser(h) \/ InsertMembership(h)
  \/ ReadMember(h) \/ CountOwners(h) \/ WriteMember(h)
  \/ Materialize(h) \/ InsertInvite(h) \/ Accept(h) \/ Join(h) \/ Revoke(h)

Next ==
  \/ Lapse
  \/ \E s \in DOMAIN sessions : Logout(s)
  \/ \E h \in Handlers :
       \/ Step(h) \/ Crash(h)
       \/ \E u \in Users : BeginLogin(h, u) \/ BeginRegister(h, u)
       \/ \E s \in DOMAIN sessions : BeginRefresh(h, s)
       \/ \E u \in Users, role \in Roles \union {"none"} : BeginSetRole(h, u, role)
       \/ \E role \in Roles : BeginInvite(h, role)
       \/ \E u \in Users, i \in DOMAIN invites : BeginAccept(h, u, i)
       \/ \E i \in DOMAIN invites : BeginRevoke(h, i)

Spec == Init /\ [][Next]_vars
-----------------------------------------------------------------------------
Session == [parent : Nat, revoked : BOOLEAN]
Invite == [role : Roles, state : {"pending", "accepted", "revoked"}]
Request == [u : Users \union {Null}, n : Nat, role : Roles \union {"none"}, todo : SUBSET Legacy]
Pcs == {"idle", "session", "rotate", "insert_user", "insert_membership", "read_member", "count",
        "write_member", "materialize", "insert_invite", "accept", "join", "revoke"}

\* The variables have the values the code can give them.
TypeOK ==
  /\ account \in [Users -> {"none", "user", "complete"}]
  /\ sessions \in Seq(Session)
  /\ members \in [Users -> Roles \union {"none"}]
  /\ invites \in Seq(Invite)
  /\ lapsed \in [s : Nat, i : Nat]
  /\ pc \in [Handlers -> Pcs] /\ req \in [Handlers -> Request]
  /\ joins \in Seq(SUBSET Users) /\ removed \subseteq Users /\ met \in BOOLEAN

\* login.rs, finding 17: a refresh token has one successor however often it is
\* replayed at once, only after it is revoked, and none if a logout revoked it.
OneSuccessor ==
  \A s, t \in DOMAIN sessions :
    LET p == sessions[t].parent IN
    p # 0 => /\ p = sessions[s].parent => s = t
             /\ sessions[p].revoked /\ p \notin loggedOut

\* membership.rs: an invite lets one user in, and one that was accepted has, unless
\* its handler is at it or died before the member row.
InviteSpentOnce ==
  \A i \in DOMAIN invites :
    LET joining == {h \in Handlers : pc[h] = "join" /\ req[h].n = i} IN
    /\ Cardinality(joins[i]) + Cardinality(joining) <= 1
    /\ invites[i].state = "pending" => joins[i] = {} /\ joining = {}
    /\ invites[i].state = "accepted" =>
         joins[i] # {} \/ joining # {} \/ \E d \in died : d[1] = "join" /\ d[3] = i

\* A secret a person holds is spent once: a refresh token on one successor, an invite
\* on one member (login.rs:102, membership.rs:379).
SpentOnce == OneSuccessor /\ InviteSpentOnce

\* "never the last owner": a workspace with members has an owner, unless two
\* requests that take owners away overlapped.
OwnerRemains == met \/ Members = {} \/ Owners # {}

\* materialize_legacy_owners: nobody joins before those who had the workspace are
\* members, so they lose access only by being removed.
LegacyKeepAccess ==
  invites # <<>> => Legacy \subseteq Members \union removed

\* Nobody is locked out of a workspace but by being removed: an owner remains and
\* legacy users stay (membership.rs:96, 166).
AccessHolds == OwnerRemains /\ LegacyKeepAccess

\* membership.rs:5: "remove a member (owner only, never the last owner)".
NeverWithoutOwner == Members = {} \/ Owners # {}
=============================================================================
