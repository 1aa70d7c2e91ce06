------------------------------ MODULE ApiProofs ------------------------------
(***************************************************************************)
(* Theorems about two parts of the API: accounts, for any number of        *)
(* requests in progress, users, sessions and invites; and the backends     *)
(* behind blobs, for any stores of any kinds, objects and requests.        *)
(***************************************************************************)
EXTENDS Accounts, Backends, SequenceTheorems, FiniteSetTheorems, TLAPS

-----------------------------------------------------------------------------
\* Writing the state of an element, or of one past the end, keeps a sequence.
LEMMA SetField ==
  ASSUME NEW S, NEW s \in Seq(S), NEW i, NEW e, i \in DOMAIN s => e \in S
  PROVE  /\ [s EXCEPT ![i] = e] \in Seq(S)
         /\ DOMAIN [s EXCEPT ![i] = e] = DOMAIN s
<1>1. CASE i \in DOMAIN s
  BY <1>1, ExceptSeq, LenProperties
<1>2. CASE i \notin DOMAIN s
  <2>1. [s EXCEPT ![i] = e] = s
    BY <1>2
  <2> QED BY <2>1
<1> QED BY <1>1, <1>2

\* What a sequence holds, over its domain.
LEMMA Elements ==
  ASSUME NEW S, NEW s \in Seq(S)
  PROVE  /\ Len(s) \in Nat /\ DOMAIN s = 1..Len(s)
         /\ \A i \in DOMAIN s : s[i] \in S /\ i \in Nat \ {0}
<1>1. Len(s) \in Nat /\ DOMAIN s = 1..Len(s)
  BY LenProperties
<1>2. \A i \in 1..Len(s) : s[i] \in S
  BY ElementOfSeq
<1> QED BY <1>1, <1>2

LEMMA Rows ==
  ASSUME TypeOK
  PROVE  /\ Len(sessions) \in Nat /\ DOMAIN sessions = 1..Len(sessions)
         /\ Len(invites) \in Nat /\ DOMAIN invites = 1..Len(invites)
         /\ \A s \in DOMAIN sessions : sessions[s] \in Session /\ s \in Nat \ {0}
         /\ \A i \in DOMAIN invites : invites[i] \in Invite /\ i \in Nat \ {0}
         /\ \A i \in DOMAIN joins : joins[i] \in SUBSET Users
BY Elements DEF TypeOK

LEMMA BeginType ==
  ASSUME TypeOK, NEW h \in Handlers, NEW next \in Pcs, NEW r \in Request, Begin(h, next, r)
  PROVE  pc' \in [Handlers -> Pcs] /\ req' \in [Handlers -> Request]
BY DEF TypeOK, Begin, Go

LEMMA NoRequestType == NoRequest \in Request
BY DEF NoRequest, Request

LEMMA EndsType ==
  ASSUME TypeOK, NEW h \in Handlers, Ends(h)
  PROVE  pc' \in [Handlers -> Pcs] /\ req' \in [Handlers -> Request]
BY NoRequestType DEF TypeOK, Ends, Go, Pcs

\* What a request carries when a statement needs it.
RequestedOf(h) ==
  /\ pc[h] \in {"insert_user", "insert_membership", "read_member", "count", "write_member",
               "accept", "join"} => req[h].u \in Users
  /\ pc[h] \in {"materialize", "insert_invite", "accept", "join"} => req[h].role \in Roles
  /\ pc[h] \in {"insert_user", "insert_membership"} => req[h].n = 0
  /\ pc[h] = "rotate" => req[h].n \in DOMAIN sessions
  /\ pc[h] \in {"accept", "join", "revoke"} => req[h].n \in DOMAIN invites
Requested == DOMAIN joins = DOMAIN invites /\ \A h \in Handlers : RequestedOf(h)

LEMMA TypeStep == TypeOK /\ Requested /\ [Next]_vars => TypeOK'
<1> SUFFICES ASSUME TypeOK, Requested, [Next]_vars PROVE TypeOK'
  OBVIOUS
<1> USE DEF TypeOK
<1>1. CASE Lapse
  BY <1>1, Rows DEF Lapse, histVars
<1>2. ASSUME NEW s \in DOMAIN sessions, Logout(s) PROVE TypeOK'
  <2>1. [sessions[s] EXCEPT !.revoked = TRUE] \in Session
    BY Rows DEF Session
  <2>2. sessions' \in Seq(Session)
    BY <1>2, <2>1, SetField DEF Logout
  <2> QED BY <1>2, <2>2 DEF Logout
<1>3. ASSUME NEW h \in Handlers, NEW u \in Users, BeginLogin(h, u) PROVE TypeOK'
  <2>1. [NoRequest EXCEPT !.u = u] \in Request /\ "session" \in Pcs
    BY DEF NoRequest, Request, Pcs
  <2> QED BY <1>3, <2>1, BeginType DEF BeginLogin, tables, histVars
<1>4. ASSUME NEW h \in Handlers, NEW u \in Users, BeginRegister(h, u) PROVE TypeOK'
  <2>1. [NoRequest EXCEPT !.u = u] \in Request /\ "insert_user" \in Pcs
    BY DEF NoRequest, Request, Pcs
  <2> QED BY <1>4, <2>1, BeginType DEF BeginRegister, tables, histVars
<1>5. ASSUME NEW h \in Handlers, NEW s \in DOMAIN sessions, BeginRefresh(h, s) PROVE TypeOK'
  <2>1. s \in Nat
    BY Rows
  <2>2. [NoRequest EXCEPT !.n = s] \in Request /\ "rotate" \in Pcs
    BY <2>1 DEF NoRequest, Request, Pcs
  <2> QED BY <1>5, <2>2, BeginType DEF BeginRefresh, tables, histVars
<1>6. ASSUME NEW h \in Handlers, NEW u \in Users, NEW role \in Roles \union {"none"},
             BeginSetRole(h, u, role)
      PROVE TypeOK'
  <2>1. [NoRequest EXCEPT !.u = u, !.role = role] \in Request /\ "read_member" \in Pcs
    BY DEF NoRequest, Request, Pcs
  <2> QED BY <1>6, <2>1, BeginType DEF BeginSetRole, tables, histVars
<1>7. ASSUME NEW h \in Handlers, NEW role \in Roles, BeginInvite(h, role) PROVE TypeOK'
  <2>1. [NoRequest EXCEPT !.role = role, !.todo = Legacy] \in Request /\ "materialize" \in Pcs
    BY DEF NoRequest, Request, Pcs
  <2> QED BY <1>7, <2>1, BeginType DEF BeginInvite, tables, histVars
<1>8. ASSUME NEW h \in Handlers, NEW u \in Users, NEW i \in DOMAIN invites, BeginAccept(h, u, i)
      PROVE TypeOK'
  <2>1. i \in Nat /\ invites[i].role \in Roles
    BY Rows DEF Invite
  <2>2. [NoRequest EXCEPT !.u = u, !.n = i, !.role = invites[i].role] \in Request /\ "accept" \in Pcs
    BY <2>1 DEF NoRequest, Request, Pcs
  <2> QED BY <1>8, <2>2, BeginType DEF BeginAccept, tables, histVars
<1>9. ASSUME NEW h \in Handlers, NEW i \in DOMAIN invites, BeginRevoke(h, i) PROVE TypeOK'
  <2>1. i \in Nat
    BY Rows
  <2>2. [NoRequest EXCEPT !.n = i] \in Request /\ "revoke" \in Pcs
    BY <2>1 DEF NoRequest, Request, Pcs
  <2> QED BY <1>9, <2>2, BeginType DEF BeginRevoke, tables, histVars
<1>10. ASSUME NEW h \in Handlers, Crash(h) PROVE TypeOK'
  BY <1>10, EndsType DEF Crash, tables
<1>11. ASSUME NEW h \in Handlers, Step(h) PROVE TypeOK'
  <2>1. /\ req[h] \in Request
        /\ \A i \in DOMAIN sessions : sessions[i] \in Session
        /\ \A i \in DOMAIN invites : invites[i] \in Invite
        /\ \A i \in DOMAIN joins : joins[i] \in SUBSET Users
    BY Rows
  <2>2. CASE Rotate(h)
    <3>1. req[h].n \in DOMAIN sessions => [sessions[req[h].n] EXCEPT !.revoked = TRUE] \in Session
      BY <2>1 DEF Session
    <3>2. CASE sessions[req[h].n].revoked
      <4>1. Ends(h) /\ sessions' = sessions
        BY <2>2, <3>2 DEF Rotate
      <4> QED BY <2>2, <4>1, EndsType DEF Rotate, histVars
    <3>3. CASE ~sessions[req[h].n].revoked
      <4>1. sessions' = [sessions EXCEPT ![req[h].n] = [sessions[req[h].n] EXCEPT !.revoked = TRUE]]
        BY <2>2, <3>3 DEF Rotate
      <4>2. sessions' \in Seq(Session)
        BY <3>1, <4>1, SetField
      <4>3. pc' \in [Handlers -> Pcs] /\ req' = req
        BY <2>2, <3>3 DEF Rotate, Go, Pcs
      <4> QED BY <2>2, <4>2, <4>3 DEF Rotate, histVars
    <3> QED BY <3>2, <3>3
  <2>3. CASE CreateSession(h)
    <3>1. [parent |-> req[h].n, revoked |-> FALSE] \in Session
      BY <2>1 DEF Session, Request
    <3>2. sessions' \in Seq(Session)
      BY <2>3, <3>1, AppendProperties DEF CreateSession, NewSession
    <3> QED BY <2>3, <3>2, EndsType DEF CreateSession, histVars
  <2>4. CASE InsertUser(h)
    <3>1. pc' \in [Handlers -> Pcs] /\ req' \in [Handlers -> Request]
      BY <2>4, EndsType DEF InsertUser, Go, Pcs
    <3> QED BY <2>4, <3>1 DEF InsertUser, histVars
  <2>5. CASE InsertMembership(h)
    BY <2>5 DEF InsertMembership, Go, Pcs, histVars
  <2>6. CASE ReadMember(h)
    <3>1. pc' \in [Handlers -> Pcs] /\ req' \in [Handlers -> Request]
      BY <2>6, EndsType DEF ReadMember, Go, Pcs
    <3> QED BY <2>6, <3>1 DEF ReadMember, tables
  <2>7. CASE CountOwners(h)
    <3>1. pc' \in [Handlers -> Pcs] /\ req' \in [Handlers -> Request]
      BY <2>7, EndsType DEF CountOwners, Go, Pcs
    <3> QED BY <2>7, <3>1 DEF CountOwners, tables, histVars
  <2>8. CASE WriteMember(h)
    <3>0. req[h].u \in Users /\ req[h].role \in Roles \union {"none"}
      BY <2>1, <2>8 DEF WriteMember, Requested, RequestedOf, Request
    <3>1. members' \in [Users -> Roles \union {"none"}]
      BY <2>8, <3>0 DEF WriteMember
    <3>2. removed' \subseteq Users
      BY <2>8, <3>0 DEF WriteMember
    <3> QED BY <2>8, <3>1, <3>2, EndsType DEF WriteMember
  <2>9. CASE Materialize(h)
    <3>1. members' \in [Users -> Roles \union {"none"}]
      BY <2>9 DEF Materialize, Roles
    <3>2. PICK u \in req[h].todo : req' = [req EXCEPT ![h].todo = req[h].todo \ {u}]
      BY <2>9 DEF Materialize
    <3>3. [req[h] EXCEPT !.todo = req[h].todo \ {u}] \in Request
      BY <2>1 DEF Request
    <3>4. req' \in [Handlers -> Request]
      BY <3>2, <3>3
    <3>5. pc' \in [Handlers -> Pcs]
      BY <2>9 DEF Materialize, Go, Pcs
    <3> QED BY <2>9, <3>1, <3>4, <3>5 DEF Materialize, histVars
  <2>10. CASE InsertInvite(h)
    <3>0. [role |-> req[h].role, state |-> "pending"] \in Invite
      BY <2>10 DEF InsertInvite, Requested, RequestedOf, Invite
    <3>1. invites' \in Seq(Invite)
      BY <2>10, <3>0, AppendProperties DEF InsertInvite
    <3>2. joins' \in Seq(SUBSET Users)
      BY <2>10, AppendProperties DEF InsertInvite
    <3> QED BY <2>10, <3>1, <3>2, EndsType DEF InsertInvite
  <2>11. CASE Accept(h)
    <3>1. req[h].n \in DOMAIN invites => [invites[req[h].n] EXCEPT !.state = "accepted"] \in Invite
      BY <2>1 DEF Invite
    <3>a. \/ invites' = invites
          \/ invites' = [invites EXCEPT ![req[h].n] = [invites[req[h].n] EXCEPT !.state = "accepted"]]
      BY <2>11 DEF Accept
    <3>b. [invites EXCEPT ![req[h].n] = [invites[req[h].n] EXCEPT !.state = "accepted"]] \in Seq(Invite)
      BY <3>1, SetField
    <3>2. invites' \in Seq(Invite)
      BY <3>a, <3>b
    <3>3. pc' \in [Handlers -> Pcs] /\ req' \in [Handlers -> Request]
      BY <2>11, EndsType DEF Accept, Go, Pcs
    <3> QED BY <2>11, <3>2, <3>3 DEF Accept, histVars
  <2>12. CASE Join(h)
    <3>1. members' \in [Users -> Roles \union {"none"}]
      BY <2>12 DEF Join, Requested, RequestedOf
    <3>2. joins' \in Seq(SUBSET Users)
      <4>1. joins' = [joins EXCEPT ![req[h].n] = joins[req[h].n] \union {req[h].u}]
        BY <2>12 DEF Join
      <4>2. req[h].u \in Users /\ req[h].n \in DOMAIN joins
        BY <2>12 DEF Join, Requested, RequestedOf
      <4> QED BY <2>1, <4>1, <4>2, SetField
    <3> QED BY <2>12, <3>1, <3>2, EndsType DEF Join
  <2>13. CASE Revoke(h)
    <3>1. req[h].n \in DOMAIN invites => [invites[req[h].n] EXCEPT !.state = "revoked"] \in Invite
      BY <2>1 DEF Invite
    <3>2. invites' \in Seq(Invite)
      BY <2>13, <3>1, SetField DEF Revoke
    <3> QED BY <2>13, <3>2, EndsType DEF Revoke, histVars
  <2> QED
    BY <1>11, <2>2, <2>3, <2>4, <2>5, <2>6, <2>7, <2>8, <2>9, <2>10, <2>11, <2>12, <2>13 DEF Step
<1> QED
  BY <1>1, <1>2, <1>3, <1>4, <1>5, <1>6, <1>7, <1>8, <1>9, <1>10, <1>11
  DEF Next, vars, tables, histVars
\* Sessions, invites and their histories only grow.
LEMMA Growth ==
  ASSUME TypeOK, Requested, [Next]_vars
  PROVE  /\ DOMAIN sessions \subseteq DOMAIN sessions' /\ DOMAIN invites \subseteq DOMAIN invites'
         /\ DOMAIN joins' = DOMAIN invites'
<1> USE DEF TypeOK
<1>1. ASSUME NEW s \in DOMAIN sessions, Logout(s)
      PROVE  DOMAIN sessions' = DOMAIN sessions /\ invites' = invites /\ joins' = joins
  BY <1>1 DEF Logout
<1>2. ASSUME NEW h \in Handlers, Rotate(h)
      PROVE  DOMAIN sessions' = DOMAIN sessions /\ invites' = invites /\ joins' = joins
  BY <1>2 DEF Rotate, histVars
<1>3. ASSUME NEW h \in Handlers, CreateSession(h)
      PROVE  DOMAIN sessions \subseteq DOMAIN sessions' /\ invites' = invites /\ joins' = joins
  <2>1. [parent |-> req[h].n, revoked |-> FALSE] \in Session
    BY DEF Session, Request
  <2>2. sessions' = Append(sessions, [parent |-> req[h].n, revoked |-> FALSE])
    BY <1>3 DEF CreateSession, NewSession
  <2>3. DOMAIN sessions' = 1..(Len(sessions) + 1)
    BY <2>1, <2>2, AppendProperties, LenProperties
  <2> QED BY <1>3, <2>3, Rows DEF CreateSession, histVars
<1>4. ASSUME NEW h \in Handlers, InsertInvite(h)
      PROVE  sessions' = sessions /\ DOMAIN invites \subseteq DOMAIN invites' /\ DOMAIN joins' = DOMAIN invites'
  <2>0. [role |-> req[h].role, state |-> "pending"] \in Invite
    BY <1>4 DEF InsertInvite, Requested, RequestedOf, Invite
  <2>1. DOMAIN invites' = 1..(Len(invites) + 1)
    BY <1>4, <2>0, AppendProperties, LenProperties DEF InsertInvite
  <2>2. DOMAIN joins' = 1..(Len(joins) + 1)
    BY <1>4, AppendProperties, LenProperties DEF InsertInvite
  <2>3. Len(joins) = Len(invites)
    BY LenProperties DEF Requested
  <2> QED BY <1>4, <2>1, <2>2, <2>3, Rows DEF InsertInvite
<1>5. ASSUME NEW h \in Handlers, Accept(h) \/ Revoke(h) \/ Join(h)
      PROVE  sessions' = sessions /\ DOMAIN invites' = DOMAIN invites /\ DOMAIN joins' = DOMAIN joins
  BY <1>5 DEF Accept, Revoke, Join, histVars
<1>6. CASE /\ \A s \in DOMAIN sessions : ~Logout(s)
           /\ \A h \in Handlers : ~(\/ Rotate(h) \/ CreateSession(h) \/ InsertInvite(h)
                                     \/ Accept(h) \/ Revoke(h) \/ Join(h))
  <2>1. UNCHANGED <<sessions, invites, joins>>
    BY <1>6 DEF Next, Step, vars, tables, histVars, Lapse, Crash, BeginLogin, BeginRegister, BeginRefresh,
         BeginSetRole, BeginInvite, BeginAccept, BeginRevoke, InsertUser, InsertMembership,
         ReadMember, CountOwners, WriteMember, Materialize
  <2> QED BY <2>1 DEF Requested
<1> QED BY <1>1, <1>2, <1>3, <1>4, <1>5, <1>6 DEF Requested

LEMMA RequestedStep == TypeOK /\ Requested /\ [Next]_vars => Requested'
<1> SUFFICES ASSUME TypeOK, Requested, [Next]_vars PROVE Requested'
  OBVIOUS
<1> USE DEF TypeOK
<1>1. DOMAIN sessions \subseteq DOMAIN sessions' /\ DOMAIN invites \subseteq DOMAIN invites'
      /\ DOMAIN joins' = DOMAIN invites'
  BY Growth
<1>2. ASSUME NEW g \in Handlers PROVE RequestedOf(g)'
  <2> DEFINE Same == pc'[g] = pc[g] /\ req'[g] = req[g]
  <2>0. RequestedOf(g)
    BY DEF Requested
  <2>1. CASE Same
    BY <1>1, <2>0, <2>1 DEF RequestedOf
  <2>2. ASSUME NEW h \in Handlers, Crash(h) PROVE RequestedOf(g)'
    BY <1>1, <2>0, <2>2 DEF Crash, Ends, Go, NoRequest, RequestedOf
  <2>3. ASSUME NEW h \in Handlers, NEW u \in Users, BeginLogin(h, u) \/ BeginRegister(h, u)
        PROVE  RequestedOf(g)'
    BY <1>1, <2>0, <2>3 DEF BeginLogin, BeginRegister, Begin, Go, NoRequest, RequestedOf
  <2>4. ASSUME NEW h \in Handlers, NEW s \in DOMAIN sessions, BeginRefresh(h, s)
        PROVE  RequestedOf(g)'
    BY <1>1, <2>0, <2>4 DEF BeginRefresh, Begin, Go, NoRequest, RequestedOf
  <2>5. ASSUME NEW h \in Handlers, NEW u \in Users, NEW role, BeginSetRole(h, u, role)
        PROVE  RequestedOf(g)'
    BY <1>1, <2>0, <2>5 DEF BeginSetRole, Begin, Go, NoRequest, RequestedOf
  <2>6. ASSUME NEW h \in Handlers, NEW role \in Roles, BeginInvite(h, role) PROVE RequestedOf(g)'
    BY <1>1, <2>0, <2>6 DEF BeginInvite, Begin, Go, NoRequest, RequestedOf
  <2>7. ASSUME NEW h \in Handlers, NEW u \in Users, NEW i \in DOMAIN invites, BeginAccept(h, u, i)
        PROVE  RequestedOf(g)'
    <3>1. invites[i].role \in Roles
      BY Rows DEF Invite
    <3> QED BY <1>1, <2>0, <2>7, <3>1 DEF BeginAccept, Begin, Go, NoRequest, RequestedOf
  <2>8. ASSUME NEW h \in Handlers, NEW i \in DOMAIN invites, BeginRevoke(h, i) PROVE RequestedOf(g)'
    BY <1>1, <2>0, <2>8 DEF BeginRevoke, Begin, Go, NoRequest, RequestedOf
  <2>9. ASSUME NEW h \in Handlers, Step(h) PROVE RequestedOf(g)'
    <3>1. CASE Rotate(h) \/ CreateSession(h) \/ InsertUser(h) \/ InsertMembership(h)
      BY <1>1, <2>0, <3>1
      DEF Rotate, CreateSession, InsertUser, InsertMembership, Ends, Go, NoRequest, RequestedOf
    <3>2. CASE ReadMember(h) \/ CountOwners(h) \/ WriteMember(h)
      BY <1>1, <2>0, <3>2 DEF ReadMember, CountOwners, WriteMember, Ends, Go, NoRequest, RequestedOf
    <3>3. CASE Materialize(h)
      BY <1>1, <2>0, <3>3 DEF Materialize, Go, Request, RequestedOf
    <3>4. CASE InsertInvite(h) \/ Accept(h) \/ Join(h) \/ Revoke(h)
      BY <1>1, <2>0, <3>4 DEF InsertInvite, Accept, Join, Revoke, Ends, Go, NoRequest, RequestedOf
    <3> QED BY <2>9, <3>1, <3>2, <3>3, <3>4 DEF Step
  <2>10. CASE Lapse \/ (\E s \in DOMAIN sessions : Logout(s)) \/ UNCHANGED vars
    BY <2>1, <2>10 DEF Lapse, Logout, vars
  <2> QED BY <2>2, <2>3, <2>4, <2>5, <2>6, <2>7, <2>8, <2>9, <2>10 DEF Next
<1> QED BY <1>1, <1>2 DEF Requested

\* Every reachable state is well typed.
THEOREM TypeCorrect == Spec => [](TypeOK /\ Requested)
<1>1. Init => TypeOK /\ Requested
  <2> SUFFICES ASSUME Init PROVE TypeOK /\ Requested
    OBVIOUS
  <2>1. /\ sessions \in Seq(Session) /\ invites \in Seq(Invite) /\ joins \in Seq(SUBSET Users)
    BY EmptySeq DEF Init
  <2>2. members \in [Users -> Roles \union {"none"}]
    BY DEF Init, Roles
  <2>3. Requested
    BY DEF Init, Requested, RequestedOf
  <2> QED BY <2>1, <2>2, <2>3, NoRequestType DEF Init, TypeOK, Pcs
<1>2. TypeOK /\ Requested /\ [Next]_vars => (TypeOK /\ Requested)'
  BY TypeStep, RequestedStep
<1> QED BY <1>1, <1>2, PTL DEF Spec
-----------------------------------------------------------------------------
(* What the beginning of a request does to the handlers. *)

Begins(h) ==
  \/ \E u \in Users : BeginLogin(h, u) \/ BeginRegister(h, u)
  \/ \E s \in DOMAIN sessions : BeginRefresh(h, s)
  \/ \E u \in Users, role \in Roles \union {"none"} : BeginSetRole(h, u, role)
  \/ \E role \in Roles : BeginInvite(h, role)
  \/ \E u \in Users, i \in DOMAIN invites : BeginAccept(h, u, i)
  \/ \E i \in DOMAIN invites : BeginRevoke(h, i)

LEMMA BeginMoves ==
  ASSUME TypeOK, NEW h \in Handlers, NEW g \in Handlers, Begins(h)
  PROVE  \/ pc'[g] = pc[g] /\ req'[g] = req[g]
         \/ /\ pc[g] = "idle"
            /\ \/ pc'[g] = "session" /\ req'[g].n = 0
               \/ pc'[g] \in {"insert_user", "rotate", "read_member", "accept", "revoke"}
               \/ pc'[g] = "materialize" /\ req'[g].todo = Legacy
<1> USE DEF TypeOK
<1>1. ASSUME NEW next, NEW r, Begin(h, next, r)
      PROVE  (g = h /\ pc[g] = "idle" /\ pc'[g] = next /\ req'[g] = r) \/ (pc'[g] = pc[g] /\ req'[g] = req[g])
  BY <1>1 DEF Begin, Go
<1>2. ASSUME NEW u \in Users, BeginLogin(h, u)
      PROVE  (pc'[g] = pc[g] /\ req'[g] = req[g]) \/ (pc[g] = "idle" /\ pc'[g] = "session" /\ req'[g].n = 0)
  BY <1>1, <1>2 DEF BeginLogin, NoRequest
<1>3. ASSUME NEW u \in Users, BeginRegister(h, u)
      PROVE  (pc'[g] = pc[g] /\ req'[g] = req[g]) \/ (pc[g] = "idle" /\ pc'[g] = "insert_user")
  BY <1>1, <1>3 DEF BeginRegister
<1>4. ASSUME NEW s \in DOMAIN sessions, BeginRefresh(h, s)
      PROVE  (pc'[g] = pc[g] /\ req'[g] = req[g]) \/ (pc[g] = "idle" /\ pc'[g] = "rotate")
  BY <1>1, <1>4 DEF BeginRefresh
<1>5. ASSUME NEW u \in Users, NEW role, BeginSetRole(h, u, role)
      PROVE  (pc'[g] = pc[g] /\ req'[g] = req[g]) \/ (pc[g] = "idle" /\ pc'[g] = "read_member")
  BY <1>1, <1>5 DEF BeginSetRole
<1>6. ASSUME NEW role \in Roles, BeginInvite(h, role)
      PROVE  (pc'[g] = pc[g] /\ req'[g] = req[g]) \/ (pc[g] = "idle" /\ pc'[g] = "materialize" /\ req'[g].todo = Legacy)
  BY <1>1, <1>6 DEF BeginInvite, NoRequest
<1>7. ASSUME NEW u \in Users, NEW i \in DOMAIN invites, BeginAccept(h, u, i)
      PROVE  (pc'[g] = pc[g] /\ req'[g] = req[g]) \/ (pc[g] = "idle" /\ pc'[g] = "accept")
  BY <1>1, <1>7 DEF BeginAccept
<1>8. ASSUME NEW i \in DOMAIN invites, BeginRevoke(h, i)
      PROVE  (pc'[g] = pc[g] /\ req'[g] = req[g]) \/ (pc[g] = "idle" /\ pc'[g] = "revoke")
  BY <1>1, <1>8 DEF BeginRevoke
<1> QED BY <1>2, <1>3, <1>4, <1>5, <1>6, <1>7, <1>8 DEF Begins

\* What any step does to a handler.
LEMMA Moves ==
  ASSUME TypeOK, [Next]_vars, NEW g \in Handlers
  PROVE  \/ pc'[g] = pc[g] /\ req'[g] = req[g]
         \/ pc'[g] = "idle" /\ (pc[g] = "join" => Join(g) \/ Crash(g))
         \/ /\ pc[g] = "idle"
            /\ \/ pc'[g] = "session" /\ req'[g].n = 0
               \/ pc'[g] \in {"insert_user", "rotate", "read_member", "accept", "revoke"}
               \/ pc'[g] = "materialize" /\ req'[g].todo = Legacy
         \/ /\ req'[g] = req[g]
            /\ \/ Rotate(g) /\ pc'[g] = "session"
               \/ pc[g] = "insert_user" /\ pc'[g] = "insert_membership"
               \/ pc[g] = "insert_membership" /\ pc'[g] = "session"
               \/ ReadMember(g) /\ pc'[g] \in {"count", "write_member"}
               \/ CountOwners(g) /\ pc'[g] = "write_member"
               \/ Accept(g) /\ pc'[g] = "join"
         \/ Materialize(g)
<1> USE DEF TypeOK
<1>1. CASE \E h \in Handlers : Begins(h)
  BY <1>1, BeginMoves
<1>2. ASSUME NEW h \in Handlers, Crash(h)
      PROVE  (pc'[g] = pc[g] /\ req'[g] = req[g]) \/ (pc'[g] = "idle" /\ g = h)
  BY <1>2 DEF Crash, Ends, Go
<1>3. CASE Lapse \/ (\E s \in DOMAIN sessions : Logout(s)) \/ UNCHANGED vars
  BY <1>3 DEF Lapse, Logout, vars
<1>4. ASSUME NEW h \in Handlers, Step(h), h # g
      PROVE  pc'[g] = pc[g] /\ req'[g] = req[g]
  <2>1. CASE Rotate(h) \/ CreateSession(h) \/ InsertUser(h) \/ InsertMembership(h)
    BY <1>4, <2>1 DEF Rotate, CreateSession, InsertUser, InsertMembership, Ends, Go
  <2>2. CASE ReadMember(h) \/ CountOwners(h) \/ WriteMember(h)
    BY <1>4, <2>2 DEF ReadMember, CountOwners, WriteMember, Ends, Go
  <2>3. CASE Materialize(h)
    BY <1>4, <2>3 DEF Materialize, Go
  <2>4. CASE InsertInvite(h) \/ Accept(h) \/ Join(h) \/ Revoke(h)
    BY <1>4, <2>4 DEF InsertInvite, Accept, Join, Revoke, Ends, Go
  <2> QED BY <1>4, <2>1, <2>2, <2>3, <2>4 DEF Step
<1>5. ASSUME Step(g), ~Materialize(g), pc'[g] # "idle"
      PROVE  /\ req'[g] = req[g]
             /\ \/ Rotate(g) /\ pc'[g] = "session"
                \/ pc[g] = "insert_user" /\ pc'[g] = "insert_membership"
                \/ pc[g] = "insert_membership" /\ pc'[g] = "session"
                \/ ReadMember(g) /\ pc'[g] \in {"count", "write_member"}
                \/ CountOwners(g) /\ pc'[g] = "write_member"
                \/ Accept(g) /\ pc'[g] = "join"
  <2>1. CASE Rotate(g)
    BY <1>5, <2>1 DEF Rotate, Ends, Go
  <2>2. CASE CreateSession(g) \/ WriteMember(g) \/ InsertInvite(g) \/ Join(g) \/ Revoke(g)
    BY <1>5, <2>2 DEF CreateSession, WriteMember, InsertInvite, Join, Revoke, Ends, Go
  <2>3. CASE InsertUser(g)
    BY <1>5, <2>3 DEF InsertUser, Ends, Go
  <2>4. CASE InsertMembership(g)
    BY <1>5, <2>4 DEF InsertMembership, Go
  <2>5. CASE ReadMember(g)
    BY <1>5, <2>5 DEF ReadMember, Ends, Go
  <2>6. CASE CountOwners(g)
    BY <1>5, <2>6 DEF CountOwners, Ends, Go
  <2>7. CASE Accept(g)
    BY <1>5, <2>7 DEF Accept, Ends, Go
  <2> QED BY <1>5, <2>1, <2>2, <2>3, <2>4, <2>5, <2>6, <2>7 DEF Step
<1>6. [Next]_vars => \/ \E h \in Handlers : Begins(h) \/ Crash(h) \/ Step(h)
                     \/ Lapse \/ (\E s \in DOMAIN sessions : Logout(s)) \/ UNCHANGED vars
  BY DEF Next, Begins
<1>7. Step(g) /\ pc[g] = "join" => Join(g)
  BY DEF Step, Rotate, CreateSession, InsertUser, InsertMembership, ReadMember, CountOwners,
         WriteMember, Materialize, InsertInvite, Accept, Revoke
<1> QED BY <1>1, <1>2, <1>3, <1>4, <1>5, <1>6, <1>7
-----------------------------------------------------------------------------
(* One successor for a refresh token: a handler about to insert one holds a
   token that is revoked, by itself, and that no other handler and no session
   descends from. *)

ChildOf(t, n) == t \in DOMAIN sessions /\ sessions[t].parent = n
SessionOf(h) ==
  pc[h] = "session" /\ req[h].n # 0 =>
    /\ req[h].n \in DOMAIN sessions /\ sessions[req[h].n].revoked /\ req[h].n \notin loggedOut
    /\ \A t \in DOMAIN sessions : sessions[t].parent # req[h].n
    /\ \A g \in Handlers \ {h} : pc[g] = "session" => req[g].n # req[h].n
SessionInv ==
  /\ \A h \in Handlers : SessionOf(h)
  /\ \A t \in DOMAIN sessions : sessions[t].parent \in DOMAIN sessions \union {0}
  /\ \A s \in loggedOut : s \in DOMAIN sessions /\ sessions[s].revoked
  /\ OneSuccessor

LEMMA SessionStep ==
  ASSUME TypeOK, Requested, SessionInv, [Next]_vars
  PROVE  SessionInv'
<1> USE DEF TypeOK
<1>0. 0 \notin DOMAIN sessions /\ \A t \in DOMAIN sessions : sessions[t].parent \in Nat
  BY Rows DEF Session
<1>1. ASSUME NEW s \in DOMAIN sessions, Logout(s) PROVE SessionInv'
  <2>1. /\ DOMAIN sessions' = DOMAIN sessions /\ pc' = pc /\ req' = req
        /\ \A t \in DOMAIN sessions : /\ sessions'[t].parent = sessions[t].parent
                                      /\ sessions'[t].revoked <=> (t = s \/ sessions[t].revoked)
        /\ loggedOut' = IF sessions[s].revoked THEN loggedOut ELSE loggedOut \union {s}
    BY <1>1, Rows DEF Logout, Session
  <2>2. \A h \in Handlers : SessionOf(h)'
    BY <2>1 DEF SessionInv, SessionOf
  <2>3. OneSuccessor'
    <3> SUFFICES ASSUME NEW r \in DOMAIN sessions, NEW t \in DOMAIN sessions,
                        sessions[t].parent # 0
                 PROVE  /\ sessions[t].parent = sessions[r].parent => r = t
                        /\ sessions'[sessions[t].parent].revoked
                        /\ sessions[t].parent \notin loggedOut'
      BY <2>1 DEF OneSuccessor
    <3>1. /\ sessions[t].parent = sessions[r].parent => r = t
          /\ sessions[sessions[t].parent].revoked /\ sessions[t].parent \notin loggedOut
          /\ sessions[t].parent \in DOMAIN sessions
      BY DEF SessionInv, OneSuccessor
    <3> QED BY <2>1, <3>1
  <2> QED BY <2>1, <2>2, <2>3 DEF SessionInv
<1>2. ASSUME NEW h \in Handlers, Rotate(h) PROVE SessionInv'
  <2>0. pc[h] = "rotate" /\ req[h].n \in DOMAIN sessions /\ loggedOut' = loggedOut
    BY <1>2 DEF Rotate, Requested, RequestedOf, histVars
  <2>1. CASE sessions[req[h].n].revoked
    <3>1. sessions' = sessions /\ Ends(h)
      BY <1>2, <2>1 DEF Rotate
    <3>2. \A g \in Handlers : SessionOf(g)'
      BY <2>0, <3>1 DEF SessionInv, SessionOf, Ends, Go
    <3> QED BY <2>0, <3>1, <3>2 DEF SessionInv, OneSuccessor
  <2>2. CASE ~sessions[req[h].n].revoked
    <3> DEFINE n == req[h].n
    <3>1. /\ DOMAIN sessions' = DOMAIN sessions /\ req' = req /\ pc' = [pc EXCEPT ![h] = "session"]
          /\ \A t \in DOMAIN sessions : /\ sessions'[t].parent = sessions[t].parent
                                        /\ sessions'[t].revoked <=> (t = n \/ sessions[t].revoked)
      <4>1. /\ sessions' = [sessions EXCEPT ![n] = [sessions[n] EXCEPT !.revoked = TRUE]]
            /\ req' = req /\ pc' = [pc EXCEPT ![h] = "session"]
        BY <1>2, <2>2 DEF Rotate, Go
      <4>2. sessions[n] \in Session
        BY <2>0, Rows
      <4> QED BY <2>0, <4>1, <4>2 DEF Session
    <3>2. n \notin loggedOut /\ \A t \in DOMAIN sessions : sessions[t].parent # n
      BY <1>0, <2>0, <2>2 DEF SessionInv, OneSuccessor
    <3>3. \A g \in Handlers \ {h} : pc[g] = "session" => req[g].n # n
      BY <1>0, <2>0, <2>2 DEF SessionInv, SessionOf
    <3>4. \A g \in Handlers : SessionOf(g)'
      BY <2>0, <3>1, <3>2, <3>3 DEF SessionInv, SessionOf
    <3>5. OneSuccessor'
      <4> SUFFICES ASSUME NEW r \in DOMAIN sessions, NEW t \in DOMAIN sessions,
                          sessions[t].parent # 0
                   PROVE  /\ sessions[t].parent = sessions[r].parent => r = t
                          /\ sessions'[sessions[t].parent].revoked
                          /\ sessions[t].parent \notin loggedOut'
        BY <3>1 DEF OneSuccessor
      <4>1. /\ sessions[t].parent = sessions[r].parent => r = t
            /\ sessions[sessions[t].parent].revoked /\ sessions[t].parent \notin loggedOut
            /\ sessions[t].parent \in DOMAIN sessions
        BY DEF SessionInv, OneSuccessor
      <4> QED BY <2>0, <3>1, <4>1
    <3> QED BY <2>0, <3>1, <3>4, <3>5 DEF SessionInv
  <2> QED BY <2>1, <2>2
<1>3. ASSUME NEW h \in Handlers, CreateSession(h) PROVE SessionInv'
  <2> DEFINE n == req[h].n
             m == Len(sessions) + 1
  <2>0. [parent |-> n, revoked |-> FALSE] \in Session
    BY DEF Session, Request
  <2>1. sessions' = Append(sessions, [parent |-> n, revoked |-> FALSE])
    BY <1>3 DEF CreateSession, NewSession
  <2>2. /\ DOMAIN sessions' = DOMAIN sessions \union {m} /\ m \notin DOMAIN sessions
        /\ \A t \in DOMAIN sessions : sessions'[t] = sessions[t]
        /\ sessions'[m].parent = n
    <3>1. /\ Len(sessions') = m /\ sessions' \in Seq(Session)
          /\ \A i \in 1..Len(sessions) : sessions'[i] = sessions[i]
          /\ sessions'[m] = [parent |-> n, revoked |-> FALSE]
      BY <2>0, <2>1, AppendProperties
    <3>2. DOMAIN sessions' = 1..m
      BY <3>1, LenProperties
    <3>3. Len(sessions) \in Nat /\ DOMAIN sessions = 1..Len(sessions)
      BY Rows
    <3> QED BY <3>1, <3>2, <3>3
  <2>3. /\ pc[h] = "session" /\ pc' = [pc EXCEPT ![h] = "idle"]
        /\ \A g \in Handlers \ {h} : req'[g] = req[g]
        /\ loggedOut' = loggedOut
    BY <1>3 DEF CreateSession, Ends, Go, histVars
  <2>4. \A g \in Handlers : SessionOf(g)'
    BY <2>2, <2>3 DEF SessionInv, SessionOf
  <2>5. \A t \in DOMAIN sessions' : sessions'[t].parent \in DOMAIN sessions' \union {0}
    BY <2>2, <2>3 DEF SessionInv, SessionOf
  <2>6. OneSuccessor'
    <3> SUFFICES ASSUME NEW s \in DOMAIN sessions', NEW t \in DOMAIN sessions',
                        sessions'[t].parent # 0
                 PROVE  /\ sessions'[t].parent = sessions'[s].parent => s = t
                        /\ sessions'[sessions'[t].parent].revoked
                        /\ sessions'[t].parent \notin loggedOut'
      BY DEF OneSuccessor
    <3>1. CASE n = 0
      BY <2>2, <2>3, <3>1 DEF SessionInv, OneSuccessor
    <3>2. CASE n # 0
      <4>1. n \in DOMAIN sessions /\ sessions[n].revoked /\ n \notin loggedOut
            /\ \A u \in DOMAIN sessions : sessions[u].parent # n
        BY <2>3, <3>2 DEF SessionInv, SessionOf
      <4> QED BY <2>2, <2>3, <4>1 DEF SessionInv, OneSuccessor
    <3> QED BY <3>1, <3>2
  <2> QED BY <2>2, <2>3, <2>4, <2>5, <2>6 DEF SessionInv
<1>4. CASE /\ \A s \in DOMAIN sessions : ~Logout(s)
           /\ \A h \in Handlers : ~Rotate(h) /\ ~CreateSession(h)
  <2>1. sessions' = sessions /\ loggedOut' = loggedOut
    BY <1>4 DEF Next, Step, vars, tables, histVars, Lapse, Crash, BeginLogin, BeginRegister, BeginRefresh,
         BeginSetRole, BeginInvite, BeginAccept, BeginRevoke, InsertUser, InsertMembership,
         ReadMember, CountOwners, WriteMember, Materialize, InsertInvite, Accept, Join, Revoke
  <2>2. ASSUME NEW g \in Handlers, pc'[g] = "session"
        PROVE  req'[g].n = 0 \/ (pc[g] = "session" /\ req'[g] = req[g])
    <3>1. \/ req'[g].n = 0
          \/ pc[g] = "session" /\ req'[g] = req[g]
          \/ pc[g] = "insert_membership" /\ req'[g] = req[g]
      BY <1>4, <2>2, Moves DEF Materialize, Go
    <3> QED BY <3>1 DEF Requested, RequestedOf
  <2>3. \A h \in Handlers : SessionOf(h)'
    BY <2>1, <2>2 DEF SessionInv, SessionOf
  <2> QED BY <2>1, <2>3 DEF SessionInv, OneSuccessor
<1> QED BY <1>1, <1>2, <1>3, <1>4

\* A refresh token has one successor, and none if a logout revoked it.
THEOREM TokensRotateOnce == Spec => []OneSuccessor
<1>1. Init => SessionInv
  BY DEF Init, SessionInv, SessionOf, OneSuccessor
<1>2. SessionInv => OneSuccessor
  BY DEF SessionInv
<1> QED BY <1>1, <1>2, SessionStep, TypeCorrect, PTL DEF Spec
-----------------------------------------------------------------------------
(* Who had the workspace keeps it: an invite request that has run through a
   part of the legacy users has made members of that part. *)

LegacyInv ==
  /\ \A h \in Handlers :
       /\ pc[h] = "materialize" => Legacy \ req[h].todo \subseteq Members \union removed
       /\ pc[h] = "insert_invite" => Legacy \subseteq Members \union removed
  /\ LegacyKeepAccess

LEMMA LegacyStep ==
  ASSUME TypeOK, Requested, LegacyInv, [Next]_vars
  PROVE  LegacyInv'
<1> USE DEF TypeOK
<1>1. Members \union removed \subseteq (Members \union removed)'
  <2>1. CASE \E h \in Handlers : WriteMember(h)
    BY <2>1 DEF WriteMember, Members
  <2>2. CASE \E h \in Handlers : Materialize(h)
    BY <2>2 DEF Materialize, Members, histVars
  <2>3. CASE \E h \in Handlers : Join(h)
    BY <2>3 DEF Join, Members, Requested, RequestedOf, Roles
  <2>4. CASE \A h \in Handlers : ~WriteMember(h) /\ ~Materialize(h) /\ ~Join(h)
    <3>1. members' = members /\ removed' = removed
      BY <2>4 DEF Next, Step, vars, tables, histVars, Lapse, Logout, Crash, BeginLogin, BeginRegister,
           BeginRefresh, BeginSetRole, BeginInvite, BeginAccept, BeginRevoke, Rotate, CreateSession,
           InsertUser, InsertMembership, ReadMember, CountOwners, InsertInvite, Accept, Revoke
    <3> QED BY <3>1 DEF Members
  <2> QED BY <2>1, <2>2, <2>3, <2>4
<1>2. ASSUME NEW g \in Handlers
      PROVE  /\ pc'[g] = "materialize" => Legacy \ req'[g].todo \subseteq (Members \union removed)'
             /\ pc'[g] = "insert_invite" => Legacy \subseteq (Members \union removed)'
  <2>1. CASE \E h \in Handlers : Materialize(h)
    <3>1. PICK h \in Handlers : Materialize(h)
      BY <2>1
    <3>2. PICK u \in req[h].todo :
            /\ members' = IF u \in Members THEN members ELSE [members EXCEPT ![u] = "owner"]
            /\ req' = [req EXCEPT ![h].todo = req[h].todo \ {u}]
            /\ Go(h, IF req[h].todo = {u} THEN "insert_invite" ELSE "materialize")
      BY <3>1 DEF Materialize
    <3>3. u \in Users
      BY AccountsAssumption DEF Request
    <3>4. u \in Members'
      BY <3>2, <3>3 DEF Members
    <3>5. pc[h] = "materialize" /\ req'[h].todo = req[h].todo \ {u}
      BY <3>1, <3>2 DEF Materialize, Request
    <3>6. CASE g = h
      BY <1>1, <3>2, <3>4, <3>5, <3>6 DEF LegacyInv, Go
    <3>7. CASE g # h
      BY <1>1, <3>2, <3>7 DEF LegacyInv, Go
    <3> QED BY <3>6, <3>7
  <2>2. CASE \A h \in Handlers : ~Materialize(h)
    <3>1. \/ pc'[g] \notin {"materialize", "insert_invite"}
          \/ pc'[g] = pc[g] /\ req'[g] = req[g]
          \/ pc'[g] = "materialize" /\ req'[g].todo = Legacy
      BY <2>2, Moves
    <3> QED BY <1>1, <3>1 DEF LegacyInv
  <2> QED BY <2>1, <2>2
<1>3. LegacyKeepAccess'
  <2>1. CASE \E h \in Handlers : InsertInvite(h)
    BY <1>1, <2>1 DEF InsertInvite, LegacyInv, LegacyKeepAccess
  <2>2. CASE invites # <<>>
    BY <1>1, <2>2 DEF LegacyInv, LegacyKeepAccess
  <2>3. CASE invites = <<>> /\ \A h \in Handlers : ~InsertInvite(h)
    <3>1. \A h \in Handlers : ~Accept(h) /\ ~Revoke(h)
      BY <2>3 DEF Accept, Revoke, Requested, RequestedOf
    <3>2. invites' = invites
      BY <2>3, <3>1 DEF Next, Step, vars, tables, histVars, Lapse, Logout, Crash, BeginLogin, BeginRegister,
           BeginRefresh, BeginSetRole, BeginInvite, BeginAccept, BeginRevoke, Rotate, CreateSession,
           InsertUser, InsertMembership, ReadMember, CountOwners, WriteMember, Materialize, Join
    <3> QED BY <2>3, <3>2 DEF LegacyKeepAccess
  <2> QED BY <2>1, <2>2, <2>3
<1> QED BY <1>2, <1>3 DEF LegacyInv

\* Nobody is invited before those who had the workspace are members of it.
THEOREM LegacyAccessKept == Spec => []LegacyKeepAccess
<1>1. Init => LegacyInv
  BY DEF Init, LegacyInv, LegacyKeepAccess
<1>2. LegacyInv => LegacyKeepAccess
  BY DEF LegacyInv
<1> QED BY <1>1, <1>2, LegacyStep, TypeCorrect, PTL DEF Spec
-----------------------------------------------------------------------------
(* An invite: who joins by it, and who is about to. *)

Joining(h, i) == pc[h] = "join" /\ req[h].n = i
InviteOf(i) ==
  /\ \A u, v \in joins[i] : u = v
  /\ \A g, h \in Handlers : Joining(g, i) /\ Joining(h, i) => g = h
  /\ joins[i] # {} => \A h \in Handlers : ~Joining(h, i)
  /\ invites[i].state = "pending" => joins[i] = {} /\ \A h \in Handlers : ~Joining(h, i)
  /\ invites[i].state = "accepted" =>
       \/ joins[i] # {}
       \/ \E h \in Handlers : Joining(h, i)
       \/ \E d \in died : d[1] = "join" /\ d[3] = i
InviteInv == \A i \in DOMAIN invites : InviteOf(i)

\* A step that leaves an invite and those who join by it alone.
LEMMA InviteSame ==
  ASSUME NEW i, InviteOf(i), invites'[i] = invites[i], joins'[i] = joins[i], died \subseteq died',
         \A g \in Handlers : Joining(g, i)' <=> Joining(g, i)
  PROVE  InviteOf(i)'
BY DEF InviteOf

LEMMA InviteStep ==
  ASSUME TypeOK, Requested, InviteInv, [Next]_vars
  PROVE  InviteInv'
<1> USE DEF TypeOK
<1>1. ASSUME NEW h \in Handlers, InsertInvite(h) PROVE InviteInv'
  <2> DEFINE m == Len(invites) + 1
  <2>0. [role |-> req[h].role, state |-> "pending"] \in Invite
    BY <1>1 DEF InsertInvite, Requested, RequestedOf, Invite
  <2>1. Len(joins) = Len(invites)
    BY LenProperties DEF Requested
  <2>2. /\ Len(invites') = m /\ invites' \in Seq(Invite)
        /\ \A i \in 1..Len(invites) : invites'[i] = invites[i]
        /\ invites'[m] = [role |-> req[h].role, state |-> "pending"]
    BY <1>1, <2>0, AppendProperties DEF InsertInvite
  <2>3. /\ \A i \in 1..Len(invites) : joins'[i] = joins[i]
        /\ joins'[m] = {}
    BY <1>1, <2>1, AppendProperties DEF InsertInvite
  <2>4. DOMAIN invites' = 1..m
    BY <2>2, LenProperties
  <2>5. Len(invites) \in Nat /\ DOMAIN invites = 1..Len(invites)
    BY Rows
  <2>6. /\ \A g \in Handlers, i \in Nat : Joining(g, i)' <=> Joining(g, i)
        /\ died' = died
    BY <1>1 DEF InsertInvite, Ends, Go, Joining
  <2>7. \A g \in Handlers : ~Joining(g, m)
    BY <2>5 DEF Joining, Requested, RequestedOf
  <2>8. ASSUME NEW i \in DOMAIN invites PROVE InviteOf(i)'
    <3>0. InviteOf(i)
      BY DEF InviteInv
    <3>1. InviteOf(i) /\ i \in Nat /\ i \in 1..Len(invites)
      BY <2>5, <3>0
    <3>2. invites'[i] = invites[i] /\ joins'[i] = joins[i] /\ died \subseteq died'
      BY <2>2, <2>3, <2>6, <3>1
    <3>3. \A g \in Handlers : Joining(g, i)' <=> Joining(g, i)
      BY <2>6, <3>1
    <3> QED BY <3>1, <3>2, <3>3, InviteSame
  <2>9. ASSUME NEW i, i = m PROVE InviteOf(i)'
    <3>1. joins'[i] = {} /\ invites'[i].state = "pending" /\ i \in Nat
      BY <2>2, <2>3, <2>5, <2>9
    <3>2. \A g \in Handlers : ~Joining(g, i)'
      BY <2>6, <2>7, <2>9, <3>1
    <3> QED BY <3>1, <3>2 DEF InviteOf
  <2> QED BY <2>4, <2>5, <2>8, <2>9 DEF InviteInv
<1>2. ASSUME NEW h \in Handlers, Accept(h) PROVE InviteInv'
  <2> DEFINE n == req[h].n
  <2>0. n \in DOMAIN invites /\ pc[h] = "accept" /\ joins' = joins /\ died' = died
    BY <1>2 DEF Accept, Requested, RequestedOf, histVars
  <2>1. CASE invites[n].state = "pending"
    <3>1. /\ invites' = [invites EXCEPT ![n] = [invites[n] EXCEPT !.state = "accepted"]]
          /\ req' = req /\ pc' = [pc EXCEPT ![h] = "join"]
      BY <1>2, <2>1 DEF Accept, Go
    <3>2. invites[n] \in Invite
      BY <2>0, Rows
    <3>3. /\ DOMAIN invites' = DOMAIN invites
          /\ invites'[n].state = "accepted"
          /\ \A i \in DOMAIN invites \ {n} : invites'[i] = invites[i]
      BY <2>0, <3>1, <3>2 DEF Invite
    <3>4. \A g \in Handlers, i \in DOMAIN invites : Joining(g, i)' <=> Joining(g, i) \/ (g = h /\ i = n)
      BY <2>0, <3>1 DEF Joining
    <3>5. ASSUME NEW i \in DOMAIN invites PROVE InviteOf(i)'
      <4>1. InviteOf(i) /\ InviteOf(n)
        BY <2>0 DEF InviteInv
      <4>2. CASE i = n
        <5>1. /\ joins'[i] = {} /\ invites'[i].state = "accepted"
              /\ \A g \in Handlers : Joining(g, i)' <=> g = h
          BY <2>0, <2>1, <3>3, <3>4, <4>1, <4>2 DEF InviteOf
        <5> QED BY <5>1 DEF InviteOf
      <4>3. CASE i # n
        BY <2>0, <3>3, <3>4, <4>1, <4>3, InviteSame
      <4> QED BY <4>2, <4>3
    <3> QED BY <3>3, <3>5 DEF InviteInv
  <2>2. CASE invites[n].state # "pending"
    <3>1. invites' = invites /\ Ends(h)
      BY <1>2, <2>2 DEF Accept
    <3>2. \A g \in Handlers, i \in DOMAIN invites : Joining(g, i)' <=> Joining(g, i)
      BY <2>0, <3>1 DEF Joining, Ends, Go
    <3> QED BY <2>0, <3>1, <3>2, InviteSame DEF InviteInv
  <2> QED BY <2>1, <2>2
<1>3. ASSUME NEW h \in Handlers, Join(h) PROVE InviteInv'
  <2> DEFINE n == req[h].n
  <2>0. n \in DOMAIN invites /\ n \in DOMAIN joins /\ pc[h] = "join" /\ invites' = invites /\ died' = died
    BY <1>3 DEF Join, Requested, RequestedOf
  <2>1. joins' = [joins EXCEPT ![n] = joins[n] \union {req[h].u}]
    BY <1>3 DEF Join
  <2>2. \A g \in Handlers, i \in DOMAIN invites : Joining(g, i)' <=> Joining(g, i) /\ g # h
    BY <1>3, <2>0 DEF Join, Joining, Ends, Go
  <2>3. Joining(h, n)
    BY <2>0 DEF Joining
  <2>a. InviteOf(n)
    BY <2>0 DEF InviteInv
  <2>b. joins[n] = {} /\ invites[n].state # "pending" /\ \A g \in Handlers : Joining(g, n) => g = h
    BY <2>3, <2>a DEF InviteOf
  <2>4. joins'[n] = {req[h].u} /\ \A i \in DOMAIN invites \ {n} : joins'[i] = joins[i]
    BY <2>0, <2>1, <2>b
  <2>5. \A i \in DOMAIN invites \ {n} : ~Joining(h, i)
    BY DEF Joining
  <2>6. ASSUME NEW i \in DOMAIN invites, i = n PROVE InviteOf(i)'
    <3>1. /\ joins'[i] = {req[h].u} /\ invites'[i].state # "pending"
          /\ \A g \in Handlers : ~Joining(g, i)'
      BY <2>0, <2>2, <2>4, <2>6, <2>b
    <3> QED BY <3>1 DEF InviteOf
  <2>7. ASSUME NEW i \in DOMAIN invites \ {n} PROVE InviteOf(i)'
    BY <2>0, <2>2, <2>4, <2>5, InviteSame DEF InviteInv
  <2> QED BY <2>0, <2>6, <2>7 DEF InviteInv
<1>4. ASSUME NEW h \in Handlers, Revoke(h) PROVE InviteInv'
  <2> DEFINE n == req[h].n
  <2>0. n \in DOMAIN invites /\ pc[h] = "revoke" /\ joins' = joins /\ died' = died
    BY <1>4 DEF Revoke, Requested, RequestedOf, histVars
  <2>1. invites' = [invites EXCEPT ![n] = [invites[n] EXCEPT !.state = "revoked"]]
    BY <1>4 DEF Revoke
  <2>2. invites[n] \in Invite
    BY <2>0, Rows
  <2>3. /\ DOMAIN invites' = DOMAIN invites
        /\ invites'[n].state = "revoked"
        /\ \A i \in DOMAIN invites \ {n} : invites'[i] = invites[i]
    BY <2>0, <2>1, <2>2 DEF Invite
  <2>4. \A g \in Handlers, i \in DOMAIN invites : Joining(g, i)' <=> Joining(g, i)
    BY <1>4, <2>0 DEF Revoke, Joining, Ends, Go
  <2>5. ASSUME NEW i \in DOMAIN invites, i # n PROVE InviteOf(i)'
    BY <2>0, <2>3, <2>4, <2>5, InviteSame DEF InviteInv
  <2>6. ASSUME NEW i \in DOMAIN invites, i = n PROVE InviteOf(i)'
    <3>1. InviteOf(i) /\ invites'[i].state = "revoked"
      BY <2>3, <2>6 DEF InviteInv
    <3> QED BY <2>0, <2>4, <3>1 DEF InviteOf
  <2> QED BY <2>3, <2>5, <2>6 DEF InviteInv
<1>5. ASSUME NEW h \in Handlers, Crash(h) PROVE InviteInv'
  <2>1. /\ invites' = invites /\ joins' = joins
        /\ died' = died \union {<<pc[h], req[h].u, req[h].n>>}
    BY <1>5 DEF Crash, tables
  <2>2. \A g \in Handlers, i \in DOMAIN invites : Joining(g, i)' <=> Joining(g, i) /\ g # h
    BY <1>5 DEF Crash, Joining, Ends, Go
  <2>3. \A i \in DOMAIN invites : Joining(h, i) => \E d \in died' : d[1] = "join" /\ d[3] = i
    <3> DEFINE d == <<pc[h], req[h].u, req[h].n>>
    <3>1. d \in died' /\ d[1] = pc[h] /\ d[3] = req[h].n
      BY <2>1
    <3> QED BY <3>1 DEF Joining
  <2>4. ASSUME NEW i \in DOMAIN invites PROVE InviteOf(i)'
    <3>1. InviteOf(i)
      BY DEF InviteInv
    <3>2. CASE Joining(h, i)
      <4>1. /\ \A g \in Handlers : ~Joining(g, i)'
            /\ joins[i] = {} /\ invites[i].state # "pending"
        BY <2>2, <3>1, <3>2 DEF InviteOf
      <4> QED BY <2>1, <2>3, <3>2, <4>1 DEF InviteOf
    <3>3. CASE ~Joining(h, i)
      <4>1. \A g \in Handlers : Joining(g, i)' <=> Joining(g, i)
        BY <2>2, <3>3
      <4> QED BY <2>1, <3>1, <4>1, InviteSame
    <3> QED BY <3>2, <3>3
  <2> QED BY <2>1, <2>4 DEF InviteInv
<1>6. CASE \A h \in Handlers : ~(InsertInvite(h) \/ Accept(h) \/ Join(h) \/ Revoke(h) \/ Crash(h))
  <2>1. invites' = invites /\ joins' = joins /\ died' = died
    BY <1>6 DEF Next, Step, vars, tables, histVars, Lapse, Logout, BeginLogin, BeginRegister, BeginRefresh,
         BeginSetRole, BeginInvite, BeginAccept, BeginRevoke, Rotate, CreateSession, InsertUser,
         InsertMembership, ReadMember, CountOwners, WriteMember, Materialize
  <2>2. ASSUME NEW g \in Handlers PROVE \A i \in DOMAIN invites : Joining(g, i)' <=> Joining(g, i)
    <3>1. \/ pc'[g] = pc[g] /\ req'[g] = req[g]
          \/ pc'[g] # "join" /\ pc[g] # "join"
      BY <1>6, Moves DEF Materialize, Go, Rotate, ReadMember, CountOwners
    <3> QED BY <3>1 DEF Joining
  <2> QED BY <2>1, <2>2, InviteSame DEF InviteInv
<1> QED BY <1>1, <1>2, <1>3, <1>4, <1>5, <1>6

\* An invite lets one user in, and one that was accepted has.
THEOREM InvitesSpentOnce == Spec => []InviteSpentOnce
<1>1. Init => InviteInv
  BY DEF Init, InviteInv
<1>2. InviteInv => InviteSpentOnce
  <2> SUFFICES ASSUME InviteInv, NEW i \in DOMAIN invites
               PROVE  LET joining == {h \in Handlers : pc[h] = "join" /\ req[h].n = i} IN
                      /\ Cardinality(joins[i]) + Cardinality(joining) <= 1
                      /\ invites[i].state = "pending" => joins[i] = {} /\ joining = {}
                      /\ invites[i].state = "accepted" =>
                           joins[i] # {} \/ joining # {} \/ \E d \in died : d[1] = "join" /\ d[3] = i
    BY DEF InviteSpentOnce
  <2> DEFINE joining == {h \in Handlers : pc[h] = "join" /\ req[h].n = i}
  <2>1. InviteOf(i)
    BY DEF InviteInv
  <2>2. joins[i] = {} \/ \E u : joins[i] = {u}
    BY <2>1 DEF InviteOf
  <2>3. joining = {} \/ \E h : joining = {h}
    <3>1. \A g, h \in joining : g = h
      BY <2>1 DEF InviteOf, Joining
    <3> QED BY <3>1
  <2>4. joins[i] = {} \/ joining = {}
    BY <2>1 DEF InviteOf, Joining
  <2>5. Cardinality({}) = 0 /\ \A x : Cardinality({x}) = 1
    BY FS_EmptySet, FS_Singleton
  <2>6. Cardinality(joins[i]) + Cardinality(joining) <= 1
    <3>1. Cardinality(joins[i]) = 0 \/ Cardinality(joins[i]) = 1
      BY <2>2, <2>5
    <3>2. Cardinality(joining) = 0 \/ Cardinality(joining) = 1
      BY <2>3, <2>5
    <3>3. Cardinality(joins[i]) = 0 \/ Cardinality(joining) = 0
      BY <2>4, <2>5
    <3> HIDE DEF joining
    <3> QED BY <3>1, <3>2, <3>3
  <2>7. invites[i].state = "pending" => joins[i] = {} /\ joining = {}
    BY <2>1 DEF InviteOf, Joining
  <2>8. invites[i].state = "accepted" =>
          joins[i] # {} \/ joining # {} \/ \E d \in died : d[1] = "join" /\ d[3] = i
    BY <2>1 DEF InviteOf, Joining
  <2> QED BY <2>6, <2>7, <2>8
<1> QED BY <1>1, <1>2, InviteStep, TypeCorrect, PTL DEF Spec
-----------------------------------------------------------------------------
(* An owner remains: while no two requests that take owners away have met, one
   handler at most may take one away, and past its count there is another. *)

OwnerInv ==
  ~met =>
    /\ Members # {} \/ removed # {} => Owners # {}
    /\ \A g, h \in Handlers : LosesOwner(g) /\ LosesOwner(h) => g = h
    /\ \A h \in Handlers : LosesOwner(h) /\ pc[h] = "write_member" => \E o \in Owners : o # req[h].u

LEMMA AnotherOwner ==
  ASSUME IsFiniteSet(Users), ~(Cardinality(Owners) <= 1), NEW u
  PROVE  \E o \in Owners : o # u
<1>1. CASE Owners = {}
  BY <1>1, FS_EmptySet
<1>2. CASE Owners = {u}
  BY <1>2, FS_Singleton
<1> QED BY <1>1, <1>2

LEMMA OwnerStep ==
  ASSUME IsFiniteSet(Users), TypeOK, Requested, LegacyInv, OwnerInv, [Next]_vars
  PROVE  OwnerInv'
<1> USE DEF TypeOK
<1> SUFFICES ASSUME ~met' PROVE OwnerInv'
  BY DEF OwnerInv
<1>0. ~met
  <2>1. CASE \E h \in Handlers : ReadMember(h)
    BY <2>1 DEF ReadMember
  <2>2. CASE \A h \in Handlers : ~ReadMember(h)
    <3>1. met' = met
      BY <2>2 DEF Next, Step, vars, tables, histVars, Lapse, Logout, Crash, BeginLogin, BeginRegister,
           BeginRefresh, BeginSetRole, BeginInvite, BeginAccept, BeginRevoke, Rotate, CreateSession,
           InsertUser, InsertMembership, WriteMember, CountOwners, InsertInvite, Accept, Revoke,
           Materialize, Join
    <3> QED BY <3>1
  <2> QED BY <2>1, <2>2
<1>1. ASSUME NEW h \in Handlers, ReadMember(h) PROVE OwnerInv'
  <2>1. members' = members /\ removed' = removed /\ pc[h] = "read_member"
    BY <1>1 DEF ReadMember, tables
  <2>2. CASE req[h].u \notin Members
    <3>1. \A g \in Handlers : LosesOwner(g)' => LosesOwner(g) /\ pc'[g] = pc[g] /\ req'[g] = req[g]
      BY <1>1, <2>1, <2>2 DEF ReadMember, LosesOwner, Ends, Go
    <3>2. Members' = Members /\ Owners' = Owners
      BY <2>1 DEF Members, Owners
    <3> QED BY <1>0, <2>1, <3>1, <3>2, Zenon DEF OwnerInv
  <2>3. CASE req[h].u \in Members
    <3>1. /\ req' = req
          /\ pc' = [pc EXCEPT ![h] = IF req[h].u \in Owners /\ req[h].role # "owner"
                                     THEN "count" ELSE "write_member"]
          /\ met' = (met \/ (req[h].role # "owner" /\ \E g \in Handlers \ {h} : LosesOwner(g)))
      BY <1>1, <2>3 DEF ReadMember, Go
    <3>2. \A g \in Handlers \ {h} : LosesOwner(g)' <=> LosesOwner(g)
      BY <3>1 DEF LosesOwner
    <3>3. \A g, k \in Handlers : LosesOwner(g)' /\ LosesOwner(k)' => g = k
      BY <1>0, <3>1, <3>2 DEF OwnerInv, LosesOwner
    <3>4. \A g \in Handlers \ {h} : LosesOwner(g)' /\ pc'[g] = "write_member" => \E o \in Owners' : o # req'[g].u
      BY <1>0, <2>1, <3>1, <3>2 DEF OwnerInv, Owners
    <3>5. LosesOwner(h)' /\ pc'[h] = "write_member" => \E o \in Owners' : o # req'[h].u
      BY <1>0, <2>1, <2>3, <3>1 DEF OwnerInv, Owners, LosesOwner
    <3>6. (Members # {} \/ removed # {} => Owners # {})'
      BY <1>0, <2>1 DEF OwnerInv, Owners, Members
    <3> QED BY <3>3, <3>4, <3>5, <3>6 DEF OwnerInv
  <2> QED BY <2>2, <2>3
<1>2. ASSUME NEW h \in Handlers, CountOwners(h) PROVE OwnerInv'
  <2>1. members' = members /\ removed' = removed /\ pc[h] = "count"
    BY <1>2 DEF CountOwners, tables, histVars
  <2>2. CASE Cardinality(Owners) <= 1
    <3>1. \A g \in Handlers : LosesOwner(g)' => LosesOwner(g) /\ pc'[g] = pc[g] /\ req'[g] = req[g]
      BY <1>2, <2>1, <2>2 DEF CountOwners, LosesOwner, Ends, Go
    <3>2. Members' = Members /\ Owners' = Owners
      BY <2>1 DEF Members, Owners
    <3> QED BY <1>0, <2>1, <3>1, <3>2, Zenon DEF OwnerInv
  <2>3. CASE ~(Cardinality(Owners) <= 1)
    <3>1. req' = req /\ pc' = [pc EXCEPT ![h] = "write_member"]
      BY <1>2, <2>3 DEF CountOwners, Go
    <3>2. \A g \in Handlers : LosesOwner(g)' <=> LosesOwner(g)
      BY <2>1, <3>1 DEF LosesOwner
    <3>3. \E o \in Owners : o # req[h].u
      BY <2>3, AnotherOwner
    <3> QED BY <1>0, <2>1, <3>1, <3>2, <3>3 DEF OwnerInv, Owners, Members
  <2> QED BY <2>2, <2>3
<1>3. ASSUME NEW h \in Handlers, WriteMember(h) PROVE OwnerInv'
  <2> DEFINE u == req[h].u
  <2>1. /\ pc[h] = "write_member" /\ u \in Users
        /\ members' = IF u \in Members THEN [members EXCEPT ![u] = req[h].role] ELSE members
        /\ removed' = IF req[h].role = "none" THEN removed \union {u} ELSE removed
    BY <1>3 DEF WriteMember, Requested, RequestedOf
  <2>2. \A g \in Handlers : LosesOwner(g)' => LosesOwner(g) /\ g # h /\ pc'[g] = pc[g] /\ req'[g] = req[g]
    BY <1>3 DEF WriteMember, LosesOwner, Ends, Go
  <2>3. CASE req[h].role = "owner"
    <3>1. Owners \subseteq Owners' /\ removed' = removed /\ Members' = Members
      BY <2>1, <2>3 DEF Owners, Members
    <3> QED BY <1>0, <2>2, <3>1 DEF OwnerInv
  <2>4. CASE req[h].role # "owner"
    <3>1. LosesOwner(h)
      BY <2>1, <2>4 DEF LosesOwner
    <3>2. \A g \in Handlers : ~LosesOwner(g)'
      BY <1>0, <2>2, <3>1 DEF OwnerInv
    <3>3. PICK o \in Owners : o # u
      BY <1>0, <2>1, <3>1 DEF OwnerInv
    <3>4. o \in Owners'
      BY <2>1, <3>3 DEF Owners
    <3> QED BY <3>2, <3>4 DEF OwnerInv
  <2> QED BY <2>3, <2>4
<1>4. ASSUME NEW h \in Handlers, Materialize(h) \/ Join(h) PROVE OwnerInv'
  <2>1. Owners \subseteq Owners' /\ removed' = removed
    BY <1>4 DEF Materialize, Join, Owners, Members, histVars
  <2>2. Members' # {} => Owners' # {}
    <3>1. CASE Materialize(h)
      <4>1. PICK w \in req[h].todo :
              members' = IF w \in Members THEN members ELSE [members EXCEPT ![w] = "owner"]
        BY <3>1 DEF Materialize
      <4>2. w \in Users
        BY AccountsAssumption DEF Request
      <4>3. CASE w \in Members
        BY <1>0, <2>1, <4>3 DEF OwnerInv
      <4>4. CASE w \notin Members
        BY <4>1, <4>2, <4>4 DEF Owners
      <4> QED BY <4>3, <4>4
    <3>2. CASE Join(h)
      <4>1. invites # <<>>
        BY <3>2, Rows, EmptySeq DEF Join, Requested, RequestedOf
      <4>2. Members # {} \/ removed # {}
        BY <4>1, AccountsAssumption DEF LegacyInv, LegacyKeepAccess
      <4> QED BY <1>0, <2>1, <4>2 DEF OwnerInv
    <3> QED BY <1>4, <3>1, <3>2
  <2>3. \A g \in Handlers : LosesOwner(g)' => LosesOwner(g) /\ pc'[g] = pc[g] /\ req'[g] = req[g]
    <3>1. CASE Materialize(h)
      BY <3>1 DEF Materialize, LosesOwner, Go
    <3>2. CASE Join(h)
      BY <3>2 DEF Join, LosesOwner, Ends, Go
    <3> QED BY <1>4, <3>1, <3>2
  <2> QED BY <1>0, <2>1, <2>2, <2>3 DEF OwnerInv
<1>5. CASE \A h \in Handlers : ~(ReadMember(h) \/ CountOwners(h) \/ WriteMember(h) \/ Materialize(h) \/ Join(h))
  <2>1. members' = members /\ removed' = removed
    BY <1>5 DEF Next, Step, vars, tables, histVars, Lapse, Logout, Crash, BeginLogin, BeginRegister,
         BeginRefresh, BeginSetRole, BeginInvite, BeginAccept, BeginRevoke, Rotate, CreateSession,
         InsertUser, InsertMembership, InsertInvite, Accept, Revoke
  <2>2. \A g \in Handlers : LosesOwner(g)' => LosesOwner(g) /\ pc'[g] = pc[g] /\ req'[g] = req[g]
    BY <1>5, Moves DEF LosesOwner
  <2> QED BY <1>0, <2>1, <2>2 DEF OwnerInv, Owners, Members
<1> QED BY <1>1, <1>2, <1>3, <1>4, <1>5

\* A workspace with members has an owner unless two demotions or removals overlapped.
THEOREM AnOwnerRemains == ASSUME IsFiniteSet(Users) PROVE Spec => []OwnerRemains
<1>1. Init => OwnerInv
  BY DEF Init, OwnerInv, LosesOwner, Owners, Members
<1>2. OwnerInv => OwnerRemains
  BY DEF OwnerInv, OwnerRemains
<1>3. Init => LegacyInv
  BY DEF Init, LegacyInv, LegacyKeepAccess
<1> QED BY <1>1, <1>2, <1>3, LegacyStep, OwnerStep, TypeCorrect, PTL DEF Spec
-----------------------------------------------------------------------------
\* A refresh token is spent on one successor and an invite on one member.
THEOREM SecretsSpentOnce == Spec => []SpentOnce
<1>1. OneSuccessor /\ InviteSpentOnce => SpentOnce
  BY DEF SpentOnce
<1> QED BY <1>1, TokensRotateOnce, InvitesSpentOnce, PTL

\* Unless two demotions or removals overlapped, an owner remains, and those who had
\* the workspace before memberships keep it until they are removed.
THEOREM AccessIsKept == ASSUME IsFiniteSet(Users) PROVE Spec => []AccessHolds
<1>1. Init => OwnerInv
  BY DEF Init, OwnerInv, LosesOwner, Owners, Members
<1>2. OwnerInv /\ LegacyKeepAccess => AccessHolds
  BY DEF OwnerInv, OwnerRemains, AccessHolds
<1>3. Init => LegacyInv
  BY DEF Init, LegacyInv, LegacyKeepAccess
<1>4. LegacyInv => LegacyKeepAccess
  BY DEF LegacyInv
<1> QED BY <1>1, <1>2, <1>3, <1>4, LegacyStep, OwnerStep, TypeCorrect, PTL DEF Spec

-----------------------------------------------------------------------------
(* Backends: what is put can be read, and what is read is true. *)
Everywhere == Stores \cup {Local}
AnyContent == [of : {0} \cup Objects, key : Nat]
AskPcs == {"idle", "connect", "select_key", "store_key", "reread_key", "has", "get", "put",
           "create", "upload", "remember"}
AskTypes == [op : {"idle", "tier", "migrate", "read"}, pc : AskPcs,
             todo : Seq([store : Everywhere, seal : BOOLEAN]),
             built : Seq([store : Everywhere, key : Nat]),
             o : Objects, at : Nat, bytes : AnyContent, new : Nat,
             due : SUBSET (Everywhere \X Objects)]

BackendsTypeOK ==
  /\ kind \in [Stores -> Kinds] /\ sealing \in [Stores -> BOOLEAN] /\ linked \subseteq Stores
  /\ files \in [Everywhere -> [Locators -> AnyContent]]
  /\ index \in [Stores -> [Objects -> {0} \cup Locators]]
  /\ key \in Nat /\ minted \in Nat /\ ask \in [Askers -> AskTypes]
  /\ acked \in [Stores -> SUBSET Objects] /\ altered \subseteq Stores

\* A configuration a request has read is right unless its store was altered since, and so
\* is what it was made into.
ToMake == {e \in [store : Everywhere, seal : BOOLEAN] :
             e.store \notin altered => (e.seal <=> e.store # Local /\ sealing[e.store])}
Connected == {e \in [store : Everywhere, key : Nat] :
                /\ e.key \in {0, key}
                /\ e.store \notin altered => (e.key # 0 <=> e.store # Local /\ sealing[e.store])}
Connecting == {"connect", "select_key", "store_key", "reread_key"}
Putting == {"put", "create", "upload", "remember"}
InProvider == {"upload", "remember"}

\* What a request knows at each place.
RequestInv(a) ==
  /\ a.todo \in Seq(ToMake) /\ a.built \in Seq(Connected)
  /\ a.pc = "idle" <=> a.op = "idle"
  /\ a.op = "tier" => a.o = 1
  /\ a.pc \in Connecting =>
       /\ a.todo # <<>>
       /\ a.op = "migrate" => a.built # <<>> \/ Tail(a.todo) # <<>>
       /\ a.op # "read" => (IF a.built = <<>> THEN Head(a.todo) ELSE a.built[1]).store \in Stores
  /\ a.pc \in Connecting \ {"connect"} => Head(a.todo).seal
  /\ a.pc = "store_key" => a.new # 0
  /\ a.pc = "reread_key" => key # 0
  /\ a.pc \in {"has", "get"} \cup Putting =>
       /\ a.at \in DOMAIN a.built
       /\ a.op = "migrate" => 2 \in DOMAIN a.built
       /\ a.op # "read" => a.built[1].store \in Stores
  /\ a.pc = "has" => a.op = "migrate"
  /\ a.pc = "get" => a.op # "tier"
  /\ a.pc \in Putting => a.op # "read" /\ a.bytes = Plain(a.o)
  /\ a.pc = "create" => kind[a.built[1].store] = "drive"
  /\ a.pc \in InProvider =>
       /\ kind[a.built[1].store] \in {"path", "drive"}
       /\ kind[a.built[1].store] = "drive" => a.new \in Locators

\* The bytes of an object as s keeps them.
Holds(s, o, b) == /\ b = [of |-> o, key |-> IF sealing[s] THEN key ELSE 0]
                  /\ sealing[s] => key # 0
Provider(a) == a.built[1].store
Place(a) == IF kind[Provider(a)] = "drive" THEN a.new ELSE a.o

\* A request at a provider has a file that no index row names yet, and before it records
\* it, the object's bytes are there.
PlaceInv(a) ==
  a.pc \in InProvider /\ Provider(a) \notin altered =>
    /\ kind[Provider(a)] = "drive" =>
         files[Provider(a)][a.new] # Nothing /\ \A o \in Objects : index[Provider(a)][o] # a.new
    /\ a.pc = "remember" => Holds(Provider(a), a.o, files[Provider(a)][Place(a)])

OnDrive(a, s) == a.pc \in InProvider /\ Provider(a) = s /\ kind[s] = "drive"
\* No two uploads have the same new file.
PlacesApart ==
  \A s \in Stores \ altered : \A c, d \in Askers :
    c # d /\ OnDrive(ask[c], s) /\ OnDrive(ask[d], s) => ask[c].new # ask[d].new

\* What is acknowledged is there, and the index names it.
StoreInv(s) ==
  /\ kind[s] = "bucket" => \A o \in acked[s] : Holds(s, o, files[s][o])
  /\ kind[s] \in {"path", "drive"} => \A o \in Objects :
       /\ index[s][o] # 0 => Holds(s, o, files[s][index[s][o]])
       /\ o \in acked[s] => index[s][o] # 0
  /\ kind[s] = "path" => \A o \in Objects : index[s][o] \in {0, o}

\* The local store holds no other bytes than those some local-fs store opens.
LocalInv ==
  (\A r \in altered : kind[r] # "local-fs") =>
    /\ \A o \in Objects :
         \/ files[Local][o] \in {Nothing, Junk, Plain(o)}
         \/ /\ key # 0 /\ files[Local][o] = [of |-> o, key |-> key]
            /\ \E r \in Stores : kind[r] = "local-fs" /\ sealing[r]
    /\ \A s \in Stores : kind[s] = "local-fs" => \A o \in acked[s] : files[Local][o] # Nothing

BackendsInv ==
  /\ BackendsTypeOK
  /\ \A c \in Askers : RequestInv(ask[c]) /\ PlaceInv(ask[c])
  /\ PlacesApart
  /\ \A s \in Stores \ altered : StoreInv(s)
  /\ LocalInv

\* The requests' configurations, keys and settings move one way only.
Later ==
  /\ kind' = kind /\ altered \subseteq altered' /\ altered' \subseteq Stores
  /\ sealing' \in [Stores -> BOOLEAN]
  /\ \A s \in Stores \ altered' : sealing'[s] = sealing[s]
  /\ key' \in Nat /\ (key # 0 => key' = key)

LEMMA ObjectFacts ==
  /\ 1 \in Objects /\ 0 \notin Objects /\ Objects \subseteq Locators /\ Objects \subseteq Nat
  /\ Cardinality(Objects) \in Nat /\ MaxFiles \in Nat /\ MaxAsks \in Nat
  /\ \A o \in Objects : o # Cardinality(Objects) => o + 1 \in Objects
<1>1. /\ Objects = 1..Cardinality(Objects) /\ Cardinality(Objects) \in Nat
      /\ Cardinality(Objects) <= MaxFiles /\ MaxFiles \in Nat /\ MaxAsks \in Nat
      /\ Cardinality(Objects) # 0
  BY BackendsAssumption, FS_CardinalityType, FS_EmptySet
<1>2. \A o : o \in Objects <=> o \in 1..Cardinality(Objects)
  BY <1>1
<1>3. 1 \in Objects /\ 0 \notin Objects /\ \A o \in Objects : o \in Nat /\ 1 <= o /\ o <= Cardinality(Objects)
  BY <1>1, <1>2
<1>4. \A o \in Objects : o # Cardinality(Objects) => o + 1 \in Objects
  BY <1>1, <1>2
<1>5. Objects \subseteq Locators
  BY <1>1, <1>3 DEF Locators
<1> QED BY <1>1, <1>3, <1>4, <1>5

LEMMA ContentFacts ==
  /\ Nothing \in AnyContent /\ Junk \in AnyContent
  /\ \A o \in Objects : Plain(o) \in AnyContent /\ Plain(o) # Nothing
  /\ \A b \in AnyContent : b.of # 0 => b # Nothing
BY ObjectFacts DEF Nothing, Junk, Plain, AnyContent

\* A sequence of what may be made, or was, stays one.
LEMMA ListsStay ==
  ASSUME BackendsTypeOK, Later
  PROVE  /\ \A q \in Seq(ToMake) : q \in Seq(ToMake')
         /\ \A q \in Seq(Connected) : q \in Seq(Connected')
<1>1. ToMake \subseteq ToMake'
  BY DEF BackendsTypeOK, Later, ToMake, Everywhere
<1>2. Connected \subseteq Connected'
  BY DEF BackendsTypeOK, Later, Connected, Everywhere
<1> QED BY <1>1, <1>2, SeqMonotonic

LEMMA RequestStays ==
  ASSUME BackendsTypeOK, Later, NEW a \in AskTypes, RequestInv(a)
  PROVE  RequestInv(a)'
<1>1. a.todo \in Seq(ToMake') /\ a.built \in Seq(Connected')
  BY ListsStay DEF RequestInv
<1>2. kind' = kind /\ (key # 0 => key' # 0)
  BY DEF Later
<1> QED BY <1>1, <1>2 DEF RequestInv

LEMMA HoldsStays ==
  ASSUME BackendsTypeOK, Later, NEW s \in Stores \ altered'
  PROVE  \A o \in Objects, b \in AnyContent : Holds(s, o, b) => Holds(s, o, b)'
BY DEF BackendsTypeOK, Later, Holds

\* What a request has at a provider, when nothing is written at that one.
LEMMA PlaceStays ==
  ASSUME BackendsTypeOK, Later, NEW a \in AskTypes, RequestInv(a), PlaceInv(a),
         a.pc \in InProvider /\ Provider(a) \notin altered' =>
           files'[Provider(a)] = files[Provider(a)] /\ index'[Provider(a)] = index[Provider(a)]
  PROVE  PlaceInv(a)'
<1> SUFFICES ASSUME a.pc \in InProvider, Provider(a) \notin altered' PROVE PlaceInv(a)'
  BY DEF PlaceInv, Provider
<1> DEFINE s == Provider(a)
<1>1. /\ s \in Stores \ altered' /\ Provider(a) \notin altered /\ kind' = kind
      /\ files'[s] = files[s] /\ index'[s] = index[s]
  BY DEF Later, RequestInv, Provider, InProvider, Putting
<1>2. Place(a)' = Place(a) /\ Place(a) \in Locators /\ a.o \in Objects
  BY <1>1, ObjectFacts DEF Place, RequestInv, AskTypes, Provider, InProvider
<1>3. files[s][Place(a)] \in AnyContent
  BY <1>1, <1>2 DEF BackendsTypeOK, Everywhere
<1>4. a.pc = "remember" => Holds(s, a.o, files[s][Place(a)])
  BY <1>1 DEF PlaceInv
<1>5. PICK v \in AnyContent : v = files[s][Place(a)]
  BY <1>3
<1>6. a.pc = "remember" => Holds(s, a.o, v)
  BY <1>4, <1>5 DEF Holds
<1>7. a.pc = "remember" => Holds(s, a.o, v)'
  BY <1>1, <1>2, <1>6, HoldsStays
<1>8. a.pc = "remember" => Holds(s, a.o, files[s][Place(a)])'
  BY <1>1, <1>2, <1>5, <1>7 DEF Holds, Provider
<1>9. kind[s] = "drive" => files[s][a.new] # Nothing /\ \A o \in Objects : index[s][o] # a.new
  BY <1>1 DEF PlaceInv
<1> QED BY <1>1, <1>8, <1>9 DEF PlaceInv, Provider

LEMMA StoreStays ==
  ASSUME BackendsTypeOK, Later, NEW s \in Stores \ altered', StoreInv(s),
         files'[s] = files[s], index'[s] = index[s], acked'[s] = acked[s]
  PROVE  StoreInv(s)'
<1>1. \A o \in Objects, b \in AnyContent : Holds(s, o, b) => Holds(s, o, b)'
  BY HoldsStays
<1>2. \A l \in Locators : files[s][l] \in AnyContent
  BY DEF BackendsTypeOK, Everywhere
<1>3. /\ acked[s] \subseteq Objects /\ Objects \subseteq Locators /\ kind' = kind
      /\ \A o \in Objects : index[s][o] \in {0} \cup Locators
  BY ObjectFacts DEF BackendsTypeOK, Later
<1>4. \A o \in Objects, l \in Locators : Holds(s, o, files[s][l]) => Holds(s, o, files[s][l])'
  <2> TAKE o \in Objects, l \in Locators
  <2>1. PICK v \in AnyContent : v = files[s][l]
    BY <1>2
  <2> QED BY <1>1, <2>1 DEF Holds
<1> QED BY <1>3, <1>4 DEF StoreInv

LEMMA LocalStays ==
  ASSUME BackendsTypeOK, Later, LocalInv, files'[Local] = files[Local], acked' = acked
  PROVE  LocalInv'
<1> SUFFICES ASSUME \A r \in altered' : kind'[r] # "local-fs" PROVE LocalInv'
  BY DEF LocalInv
<1>1. \A r \in altered : kind[r] # "local-fs"
  BY DEF Later
<1>2. \A r \in Stores : kind[r] = "local-fs" /\ sealing[r] => kind'[r] = "local-fs" /\ sealing'[r]
  BY DEF Later
<1> QED BY <1>1, <1>2 DEF LocalInv, Later

LEMMA AskMoves ==
  ASSUME ask \in [Askers -> AskTypes], NEW c \in Askers, NEW b \in AskTypes,
         ask' = [ask EXCEPT ![c] = b]
  PROVE  /\ ask' \in [Askers -> AskTypes] /\ ask'[c] = b
         /\ \A d \in Askers : d # c => ask'[d] = ask[d]
OBVIOUS

\* One request moves; the others have at their providers what they had.
LEMMA RequestsStay ==
  ASSUME BackendsInv, Later, NEW c \in Askers, NEW b \in AskTypes, ask' = [ask EXCEPT ![c] = b],
         RequestInv(b)', PlaceInv(b)',
         \A d \in Askers, a \in AskTypes : d # c /\ a = ask[d] => PlaceInv(a)'
  PROVE  /\ ask' \in [Askers -> AskTypes]
         /\ \A d \in Askers : (RequestInv(ask[d]) /\ PlaceInv(ask[d]))'
<1>1. BackendsTypeOK /\ ask \in [Askers -> AskTypes]
  BY DEF BackendsInv, BackendsTypeOK
<1>2. /\ ask' \in [Askers -> AskTypes] /\ ask'[c] = b
      /\ \A d \in Askers : d # c => ask'[d] = ask[d]
  BY <1>1, AskMoves
<1>3. ASSUME NEW d \in Askers PROVE (RequestInv(ask[d]) /\ PlaceInv(ask[d]))'
  <2>1. PICK a \in AskTypes : a = ask'[d]
    BY <1>2
  <2>2. RequestInv(a)' /\ PlaceInv(a)'
    <3>1. CASE d = c
      BY <1>2, <2>1, <3>1
    <3>2. CASE d # c
      <4>1. a = ask[d]
        BY <1>2, <2>1, <3>2
      <4>2. RequestInv(a)
        BY <4>1 DEF BackendsInv
      <4> QED BY <1>1, <3>2, <4>1, <4>2, RequestStays
    <3> QED BY <3>1, <3>2
  <2> QED BY <2>1, <2>2
<1> QED BY <1>2, <1>3

\* The moving request has no other's new file.
LEMMA ApartStays ==
  ASSUME BackendsInv, Later, NEW c \in Askers, NEW b \in AskTypes, ask' = [ask EXCEPT ![c] = b],
         \A s \in Stores \ altered, d \in Askers :
           d # c /\ OnDrive(b, s) /\ OnDrive(ask[d], s) => ask[d].new # b.new
  PROVE  PlacesApart'
<1>1. /\ ask'[c] = b /\ \A d \in Askers : d # c => ask'[d] = ask[d]
  BY AskMoves DEF BackendsInv, BackendsTypeOK
<1>2. kind' = kind /\ \A s \in Stores \ altered' : s \in Stores \ altered
  BY DEF Later
<1> SUFFICES ASSUME NEW s \in Stores \ altered', NEW d \in Askers, NEW e \in Askers, d # e,
                    OnDrive(ask[d], s)', OnDrive(ask[e], s)'
             PROVE  ask'[d].new # ask'[e].new
  BY DEF PlacesApart
<1>3. \A f \in Askers : OnDrive(ask[f], s)' => (f # c => OnDrive(ask[f], s)) /\ (f = c => OnDrive(b, s))
  BY <1>1, <1>2 DEF OnDrive, Provider
<1>4. CASE d = c
  BY <1>1, <1>2, <1>3, <1>4
<1>5. CASE e = c
  BY <1>1, <1>2, <1>3, <1>5
<1>6. CASE d # c /\ e # c
  BY <1>1, <1>2, <1>3, <1>6 DEF BackendsInv, PlacesApart
<1> QED BY <1>4, <1>5, <1>6

\* A request moves on its own and touches no store.
LEMMA QuietStep ==
  ASSUME BackendsInv, Later, NEW c \in Askers, NEW b \in AskTypes, ask' = [ask EXCEPT ![c] = b],
         RequestInv(b)', b.pc \in InProvider => b.pc = "upload" /\ kind'[Provider(b)] # "drive",
         UNCHANGED <<files, index, acked>>, minted' \in Nat, linked' \subseteq Stores
  PROVE  BackendsInv'
<1>1. BackendsTypeOK /\ ask \in [Askers -> AskTypes]
  BY DEF BackendsInv, BackendsTypeOK
<1>2. PlaceInv(b)'
  BY DEF PlaceInv, Provider
<1>3. ASSUME NEW d \in Askers, NEW a \in AskTypes, d # c, a = ask[d] PROVE PlaceInv(a)'
  BY <1>1, <1>3, PlaceStays DEF BackendsInv
<1>4. /\ ask' \in [Askers -> AskTypes]
      /\ \A d \in Askers : (RequestInv(ask[d]) /\ PlaceInv(ask[d]))'
  BY <1>2, <1>3, RequestsStay
<1>5. PlacesApart'
  <2>1. \A s \in Stores : ~OnDrive(b, s)
    BY DEF OnDrive, Provider, Later
  <2> QED BY <2>1, ApartStays
<1>6. \A s \in Stores \ altered' : StoreInv(s)'
  BY <1>1, StoreStays DEF BackendsInv, Later
<1>7. LocalInv'
  BY <1>1, LocalStays DEF BackendsInv
<1>8. BackendsTypeOK'
  BY <1>1, <1>4 DEF BackendsTypeOK, Later
<1> QED BY <1>4, <1>5, <1>6, <1>7, <1>8 DEF BackendsInv

LEMMA SameIsLater ==
  ASSUME BackendsTypeOK, UNCHANGED <<kind, sealing, altered, key>>
  PROVE  Later
BY DEF BackendsTypeOK, Later

LEMMA IdleIsFine == IdleAsk \in AskTypes /\ RequestInv(IdleAsk)' /\ IdleAsk.pc = "idle"
<1>1. /\ IdleAsk = [op |-> "idle", pc |-> "idle", todo |-> <<>>, built |-> <<>>, o |-> 1, at |-> 1,
                    bytes |-> Nothing, new |-> 0, due |-> {}]
  BY DEF IdleAsk, NewAsk
<1>2. IdleAsk \in AskTypes
  BY <1>1, ObjectFacts, ContentFacts DEF AskTypes, AskPcs
<1>3. <<>> \in Seq(ToMake') /\ <<>> \in Seq(Connected')
  BY EmptySeq
<1> QED BY <1>1, <1>2, <1>3 DEF RequestInv, Connecting, Putting, InProvider

LEMMA ConfigFacts ==
  ASSUME BackendsTypeOK, NEW q \in Seq(Everywhere)
  PROVE  /\ Configs(q) \in Seq(ToMake) /\ Len(Configs(q)) = Len(q)
         /\ \A i \in DOMAIN q : Configs(q)[i].store = q[i]
<1>1. \A s \in Everywhere : Config(s) \in ToMake /\ Config(s).store = s
  BY DEF BackendsTypeOK, Config, ToMake, Everywhere
<1>2. DOMAIN q = 1..Len(q) /\ Len(q) \in Nat /\ \A i \in DOMAIN q : q[i] \in Everywhere
  BY LenProperties, ElementOfSeq
<1>3. Configs(q) \in [1..Len(q) -> ToMake]
  BY <1>1, <1>2 DEF Configs
<1>4. Configs(q) \in Seq(ToMake)
  BY <1>2, <1>3, IsASeq
<1>5. Len(Configs(q)) = Len(q)
  BY <1>2, <1>3, <1>4, LenProperties
<1> QED BY <1>1, <1>2, <1>4, <1>5 DEF Configs

LEMMA OrderFacts == \A q \in Orders : q \in Seq(Stores) /\ q # <<>> /\ Head(q) \in Stores
<1> SUFFICES ASSUME NEW q \in Orders PROVE q \in Seq(Stores) /\ q # <<>> /\ Head(q) \in Stores
  OBVIOUS
<1>1. q \in [1..Cardinality(Stores) -> Stores]
  BY DEF Orders, SetToSeqs
<1>2. Cardinality(Stores) \in Nat /\ Cardinality(Stores) # 0
  BY BackendsAssumption, FS_CardinalityType, FS_EmptySet
<1>3. q \in Seq(Stores)
  BY <1>1, <1>2, IsASeq
<1>4. Len(q) = Cardinality(Stores)
  BY <1>1, <1>2, <1>3, LenProperties
<1>5. q # <<>>
  BY <1>2, <1>4, EmptySeq
<1> QED BY <1>3, <1>5, HeadTailProperties

LEMMA BeginAskStep ==
  ASSUME BackendsInv, NEW c \in Askers, NEW op \in {"tier", "migrate", "read"},
         NEW q \in Seq(Everywhere), BeginAsk(c, op, q), q # <<>>,
         op # "read" => q[1] \in Stores, op = "migrate" => Len(q) >= 2
  PROVE  BackendsInv'
<1>1. BackendsTypeOK
  BY DEF BackendsInv
<1>2. PICK t \in Seq(ToMake) : t = Configs(q)
  BY <1>1, ConfigFacts
<1>3. Len(t) = Len(q) /\ (1 \in DOMAIN q => t[1].store = q[1])
  BY <1>1, <1>2, ConfigFacts
<1>4. Len(q) \in Nat /\ Len(q) # 0 /\ DOMAIN q = 1..Len(q)
  BY LenProperties, EmptySeq
<1>5. Len(t) \in Nat /\ t # <<>> /\ t[1].store = q[1] /\ Head(t) = t[1] /\ (Len(t) >= 2 => Tail(t) # <<>>)
  <2>1. Len(t) \in Nat /\ Len(t) # 0 /\ 1 \in DOMAIN q
    BY <1>3, <1>4
  <2>2. t # <<>>
    BY <2>1, EmptySeq
  <2>3. Head(t) = t[1] /\ Tail(t) \in Seq(ToMake) /\ Len(Tail(t)) = Len(t) - 1
    BY <2>2, HeadTailProperties
  <2>4. Len(<<>>) = 0
    OBVIOUS
  <2>5. Len(t) >= 2 => Len(Tail(t)) # Len(<<>>)
    BY <2>1, <2>3, <2>4
  <2> QED BY <1>3, <2>1, <2>2, <2>3, <2>5
<1>14. PICK due \in SUBSET (Everywhere \X Objects) : due = IF op = "tier" THEN {} ELSE Readable
  BY DEF Readable, Everywhere
<1> DEFINE b == NewAsk(op, "connect", t, due)
<1>6. b = [op |-> op, pc |-> "connect", todo |-> t, built |-> <<>>, o |-> 1, at |-> 1,
           bytes |-> Nothing, new |-> 0, due |-> due]
  BY DEF NewAsk
<1> HIDE DEF b
<1>7. Later /\ ToMake' = ToMake
  BY <1>1, SameIsLater DEF BeginAsk, ToMake
<1>8. t \in Seq([store : Everywhere, seal : BOOLEAN])
  <2>1. ToMake \subseteq [store : Everywhere, seal : BOOLEAN]
    BY DEF ToMake
  <2> QED BY <2>1, SeqMonotonic
<1>9. b \in AskTypes
  BY <1>6, <1>8, <1>14, ObjectFacts, ContentFacts, EmptySeq DEF AskTypes, AskPcs
<1>10. RequestInv(b)'
  BY <1>2, <1>3, <1>5, <1>6, <1>7, EmptySeq DEF RequestInv, Connecting, Putting, InProvider
<1>11. ask' = [ask EXCEPT ![c] = b] /\ UNCHANGED <<files, index, acked, minted, linked>>
  BY <1>2, <1>14 DEF BeginAsk, Be, b
<1>12. b.pc \notin InProvider
  BY <1>6 DEF InProvider
<1>13. minted' \in Nat /\ linked' \subseteq Stores
  BY <1>1, <1>11 DEF BackendsInv, BackendsTypeOK
<1> QED BY <1>7, <1>9, <1>10, <1>11, <1>12, <1>13, QuietStep

LEMMA BeginSteps ==
  ASSUME BackendsInv, NEW c \in Askers, TierOut(c) \/ Migrate(c) \/ ReadBlob(c)
  PROVE  BackendsInv'
<1>1. \A q \in Orders : q \in Seq(Everywhere)
  BY OrderFacts, SeqMonotonic DEF Everywhere
<1>2. CASE TierOut(c)
  <2>1. PICK q \in Orders : BeginAsk(c, "tier", <<Head(q)>>)
    BY <1>2 DEF TierOut
  <2>2. <<Head(q)>> \in Seq(Everywhere) /\ <<Head(q)>> # <<>> /\ <<Head(q)>>[1] \in Stores
    BY OrderFacts DEF Everywhere
  <2> QED BY <2>1, <2>2, BeginAskStep
<1>3. CASE Migrate(c)
  <2>1. PICK q \in Orders, s \in Stores : BeginAsk(c, "migrate", <<s, Local>> \o q)
    BY <1>3 DEF Migrate
  <2> DEFINE p == <<s, Local>>
  <2>2. p \in Seq(Everywhere) /\ Len(p) = 2 /\ p[1] = s
    BY DEF Everywhere
  <2>3. q \in Seq(Everywhere) /\ Len(q) \in Nat
    BY <1>1, LenProperties
  <2>4. p \o q \in Seq(Everywhere) /\ Len(p \o q) = 2 + Len(q) /\ (p \o q)[1] = s
    BY <2>2, <2>3, ConcatProperties
  <2>5. p \o q # <<>>
    BY <2>3, <2>4, EmptySeq
  <2>6. BeginAsk(c, "migrate", p \o q)
    BY <2>1
  <2>7. Len(p \o q) >= 2 /\ (p \o q)[1] \in Stores
    BY <2>3, <2>4
  <2> HIDE DEF p
  <2> QED BY <2>4, <2>5, <2>6, <2>7, BeginAskStep
<1>4. CASE ReadBlob(c)
  <2>1. PICK q \in Orders : BeginAsk(c, "read", <<Local>> \o q)
    BY <1>4 DEF ReadBlob
  <2> DEFINE p == <<Local>>
  <2>2. p \in Seq(Everywhere) /\ Len(p) = 1
    BY DEF Everywhere
  <2>3. q \in Seq(Everywhere) /\ Len(q) \in Nat
    BY <1>1, LenProperties
  <2>4. p \o q \in Seq(Everywhere) /\ Len(p \o q) = 1 + Len(q)
    BY <2>2, <2>3, ConcatProperties
  <2>5. p \o q # <<>>
    BY <2>3, <2>4, EmptySeq
  <2>6. BeginAsk(c, "read", p \o q)
    BY <2>1
  <2> HIDE DEF p
  <2> QED BY <2>4, <2>5, <2>6, BeginAskStep
<1> QED BY <1>2, <1>3, <1>4

\* Built, of a request as a value.
BuiltOf(a, k) ==
  LET more == Tail(a.todo) # <<>> IN
  [a EXCEPT !.todo = Tail(a.todo),
            !.built = Append(a.built, [store |-> Head(a.todo).store, key |-> k]),
            !.pc = IF more THEN "connect" ELSE First(a.op),
            !.at = IF a.op = "migrate" THEN 2 ELSE 1,
            !.bytes = IF a.op = "tier" THEN Plain(1) ELSE Nothing]

LEMMA ConnectionMade ==
  ASSUME NEW a \in AskTypes, RequestInv(a)', a.pc \in Connecting,
         NEW k \in Nat, [store |-> Head(a.todo).store, key |-> k] \in Connected'
  PROVE  /\ BuiltOf(a, k) \in AskTypes /\ RequestInv(BuiltOf(a, k))'
         /\ BuiltOf(a, k).pc \notin InProvider
<1> DEFINE e == [store |-> Head(a.todo).store, key |-> k]
           t == Tail(a.todo)
           q == Append(a.built, e)
           b == BuiltOf(a, k)
<1>1. /\ a.todo \in Seq(ToMake') /\ a.built \in Seq(Connected') /\ a.todo # <<>>
      /\ a.op \in {"tier", "migrate", "read"} /\ e \in Connected'
      /\ a.op = "migrate" => a.built # <<>> \/ t # <<>>
      /\ a.op # "read" => (IF a.built = <<>> THEN Head(a.todo) ELSE a.built[1]).store \in Stores
      /\ a.op = "tier" => a.o = 1
  BY DEF RequestInv, Connecting, AskTypes
<1>2. /\ a.todo \in Seq([store : Everywhere, seal : BOOLEAN])
      /\ a.built \in Seq([store : Everywhere, key : Nat]) /\ e \in [store : Everywhere, key : Nat]
  BY <1>1 DEF AskTypes, Connected
<1>3. t \in Seq(ToMake') /\ t \in Seq([store : Everywhere, seal : BOOLEAN])
  BY <1>1, <1>2, HeadTailProperties
<1>4. q \in Seq(Connected') /\ q \in Seq([store : Everywhere, key : Nat])
  BY <1>1, <1>2, AppendProperties
<1>5. /\ Len(a.built) \in Nat /\ Len(q) = Len(a.built) + 1 /\ q[Len(a.built) + 1] = e
      /\ \A i \in 1..Len(a.built) : q[i] = a.built[i]
  BY <1>1, LenProperties, AppendProperties
<1>6. DOMAIN q = 1..(Len(a.built) + 1) /\ (a.built = <<>> <=> Len(a.built) = 0)
  BY <1>1, <1>4, <1>5, LenProperties, EmptySeq
<1>7. 1 \in DOMAIN q /\ (a.op = "migrate" /\ t = <<>> => 2 \in DOMAIN q) /\ q # <<>>
  <2>1. 1 \in DOMAIN q /\ (a.op = "migrate" /\ t = <<>> => 2 \in DOMAIN q)
    BY <1>1, <1>5, <1>6
  <2>2. Len(<<>>) = 0
    OBVIOUS
  <2>3. Len(q) # Len(<<>>)
    BY <1>5, <2>2
  <2> QED BY <2>1, <2>3
<1>8. a.op # "read" => q[1].store \in Stores
  BY <1>1, <1>5, <1>6
<1> HIDE DEF e, t, q
<1>9. b = [a EXCEPT !.todo = t, !.built = q, !.pc = IF t # <<>> THEN "connect" ELSE First(a.op),
                    !.at = IF a.op = "migrate" THEN 2 ELSE 1,
                    !.bytes = IF a.op = "tier" THEN Plain(1) ELSE Nothing]
  BY DEF BuiltOf, t, q, e
<1>10. First(a.op) \in {"put", "has", "get"} /\ First("tier") = "put" /\ First("migrate") = "has"
       /\ First("read") = "get"
  BY <1>1 DEF First
<1> HIDE DEF b
<1>11. b \in AskTypes
  BY <1>1, <1>3, <1>4, <1>9, <1>10, ObjectFacts, ContentFacts DEF AskTypes, AskPcs
<1>12. /\ b.todo = t /\ b.built = q /\ b.op = a.op /\ b.o = a.o
       /\ b.pc = IF t # <<>> THEN "connect" ELSE First(a.op)
       /\ b.at = (IF a.op = "migrate" THEN 2 ELSE 1)
       /\ b.bytes = (IF a.op = "tier" THEN Plain(1) ELSE Nothing)
  BY <1>9 DEF AskTypes
<1>13. RequestInv(b)'
  <2>1. CASE t # <<>>
    BY <1>1, <1>3, <1>4, <1>7, <1>8, <1>12, <2>1 DEF RequestInv, Connecting, Putting, InProvider
  <2>2. CASE t = <<>>
    BY <1>1, <1>3, <1>4, <1>7, <1>8, <1>10, <1>12, <2>2
    DEF RequestInv, Connecting, Putting, InProvider
  <2> QED BY <2>1, <2>2
<1> QED BY <1>10, <1>11, <1>12, <1>13 DEF b, InProvider

\* The head of what a request has still to connect.
LEMMA HeadFacts ==
  ASSUME BackendsTypeOK, NEW a \in AskTypes, RequestInv(a), a.pc \in Connecting
  PROVE  /\ Head(a.todo) \in ToMake /\ Head(a.todo).store \in Everywhere
         /\ a.op # "idle" /\ a.todo # <<>>
<1>1. a.todo \in Seq(ToMake) /\ a.todo # <<>>
  BY DEF RequestInv
<1>2. Head(a.todo) \in ToMake
  BY <1>1, HeadTailProperties
<1> QED BY <1>1, <1>2 DEF ToMake, RequestInv, Connecting

LEMMA BackendFromConfigStep ==
  ASSUME BackendsInv, NEW c \in Askers, BackendFromConfig(c)
  PROVE  BackendsInv'
<1>1. BackendsTypeOK
  BY DEF BackendsInv
<1>2. PICK a \in AskTypes : a = ask[c]
  BY <1>1 DEF BackendsTypeOK
<1>3. RequestInv(a) /\ a.pc = "connect"
  BY <1>2 DEF BackendsInv, BackendFromConfig
<1>4. Later /\ ToMake' = ToMake /\ Connected' = Connected
  BY <1>1, SameIsLater DEF BackendFromConfig, Outside, ToMake, Connected
<1>5. RequestInv(a)' /\ a.pc \in Connecting
  BY <1>1, <1>3, <1>4, RequestStays DEF Connecting
<1>6. Head(a.todo) \in ToMake /\ a.op # "idle" /\ a.todo # <<>>
  BY <1>1, <1>3, <1>5, HeadFacts
<1>7. /\ UNCHANGED <<files, index, acked, minted, linked>>
  BY DEF BackendFromConfig, Outside
<1>8. minted' \in Nat /\ linked' \subseteq Stores
  BY <1>1, <1>7 DEF BackendsInv, BackendsTypeOK
<1>9. CASE ask' = [ask EXCEPT ![c] = IdleAsk]
  BY <1>4, <1>7, <1>8, <1>9, IdleIsFine, QuietStep DEF InProvider
<1>10. CASE Head(a.todo).seal /\ ask' = [ask EXCEPT ![c] = [a EXCEPT !.pc = "select_key"]]
  <2> DEFINE b == [a EXCEPT !.pc = "select_key"]
  <2>1. b \in AskTypes /\ b.pc = "select_key" /\ b.todo = a.todo /\ b.built = a.built
        /\ b.op = a.op /\ b.o = a.o
    BY DEF AskTypes, AskPcs
  <2>2. RequestInv(b)'
    BY <1>3, <1>5, <1>10, <2>1 DEF RequestInv, Connecting, Putting, InProvider
  <2>3. b.pc \notin InProvider
    BY <2>1 DEF InProvider
  <2> QED BY <1>4, <1>7, <1>8, <1>10, <2>1, <2>2, <2>3, QuietStep
<1>11. CASE ~Head(a.todo).seal /\ ask' = [ask EXCEPT ![c] = BuiltOf(a, 0)]
  <2>1. [store |-> Head(a.todo).store, key |-> 0] \in Connected'
    BY <1>4, <1>6, <1>11 DEF ToMake, Connected
  <2>2. BuiltOf(a, 0) \in AskTypes /\ RequestInv(BuiltOf(a, 0))' /\ BuiltOf(a, 0).pc \notin InProvider
    BY <1>5, <2>1, ConnectionMade
  <2> QED BY <1>4, <1>7, <1>8, <1>11, <2>2, QuietStep
<1>12. Built(c, 0) = BuiltOf(a, 0)
  BY <1>2 DEF Built, BuiltOf
<1>13. \/ ask' = [ask EXCEPT ![c] = IdleAsk]
       \/ Head(a.todo).seal /\ ask' = [ask EXCEPT ![c] = [a EXCEPT !.pc = "select_key"]]
       \/ ~Head(a.todo).seal /\ ask' = [ask EXCEPT ![c] = Built(c, 0)]
  BY <1>2 DEF BackendFromConfig, Be
<1> QED BY <1>9, <1>10, <1>11, <1>12, <1>13

LEMMA SelectKeyStep ==
  ASSUME BackendsInv, NEW c \in Askers, SelectKey(c)
  PROVE  BackendsInv'
<1>1. BackendsTypeOK
  BY DEF BackendsInv
<1>2. PICK a \in AskTypes : a = ask[c]
  BY <1>1 DEF BackendsTypeOK
<1>3. RequestInv(a) /\ a.pc = "select_key"
  BY <1>2 DEF BackendsInv, SelectKey
<1>4. Later /\ ToMake' = ToMake /\ Connected' = Connected
  BY <1>1, SameIsLater DEF SelectKey, Outside, ToMake, Connected
<1>5. RequestInv(a)' /\ a.pc \in Connecting
  BY <1>1, <1>3, <1>4, RequestStays DEF Connecting
<1>6. Head(a.todo) \in ToMake /\ Head(a.todo).seal
  BY <1>1, <1>3, <1>5, HeadFacts DEF RequestInv, Connecting
<1>7. /\ UNCHANGED <<files, index, acked, linked, key>>
  BY DEF SelectKey, Outside
<1>8. key \in Nat /\ minted + 1 \in Nat /\ minted + 1 # 0 /\ minted \in Nat
  BY <1>1 DEF BackendsTypeOK
<1>9. minted' \in Nat /\ linked' \subseteq Stores
  BY <1>1, <1>7, <1>8 DEF BackendsInv, BackendsTypeOK, SelectKey
<1>10. CASE key # 0
  <2>1. [store |-> Head(a.todo).store, key |-> key] \in Connected
    BY <1>6, <1>8, <1>10 DEF ToMake, Connected
  <2>2. PICK k \in Nat : k = key
    BY <1>8
  <2>3. BuiltOf(a, k) \in AskTypes /\ RequestInv(BuiltOf(a, k))' /\ BuiltOf(a, k).pc \notin InProvider
    BY <1>4, <1>5, <2>1, <2>2, ConnectionMade
  <2>4. ask' = [ask EXCEPT ![c] = BuiltOf(a, k)]
    BY <1>2, <1>10, <2>2 DEF SelectKey, Be, Built, BuiltOf
  <2> QED BY <1>4, <1>7, <1>9, <2>3, <2>4, QuietStep
<1>11. CASE key = 0
  <2>1. PICK n \in Nat : n = minted + 1
    BY <1>8
  <2> DEFINE b == [a EXCEPT !.pc = "store_key", !.new = n]
  <2>2. b \in AskTypes /\ b.pc = "store_key" /\ b.todo = a.todo /\ b.built = a.built
        /\ b.op = a.op /\ b.o = a.o /\ b.new = n /\ n # 0
    BY <1>8, <2>1 DEF AskTypes, AskPcs
  <2>3. RequestInv(b)'
    BY <1>3, <1>5, <1>6, <2>2 DEF RequestInv, Connecting, Putting, InProvider
  <2>4. b.pc \notin InProvider
    BY <2>2 DEF InProvider
  <2>5. ask' = [ask EXCEPT ![c] = b]
    BY <1>2, <1>11, <2>1 DEF SelectKey, Be
  <2> QED BY <1>4, <1>7, <1>9, <2>2, <2>3, <2>4, <2>5, QuietStep
<1> QED BY <1>10, <1>11

LEMMA StoreKeyStep ==
  ASSUME BackendsInv, NEW c \in Askers, StoreKey(c)
  PROVE  BackendsInv'
<1>1. BackendsTypeOK
  BY DEF BackendsInv
<1>2. PICK a \in AskTypes : a = ask[c]
  BY <1>1 DEF BackendsTypeOK
<1>3. RequestInv(a) /\ a.pc = "store_key"
  BY <1>2 DEF BackendsInv, StoreKey
<1>4. a.new \in Nat /\ a.new # 0 /\ key \in Nat /\ Head(a.todo).seal
  BY <1>1, <1>3 DEF BackendsTypeOK, RequestInv, AskTypes, Connecting
<1>5. /\ UNCHANGED <<kind, sealing, altered, files, index, acked, minted, linked>>
      /\ key' = IF key = 0 THEN a.new ELSE key
  BY <1>2 DEF StoreKey, Outside
<1>6. Later
  BY <1>1, <1>4, <1>5 DEF Later, BackendsTypeOK
<1>7. RequestInv(a)' /\ a.pc \in Connecting
  BY <1>1, <1>3, <1>6, RequestStays DEF Connecting
<1>8. minted' \in Nat /\ linked' \subseteq Stores
  BY <1>1, <1>5 DEF BackendsInv, BackendsTypeOK
<1>9. CASE key = 0
  <2>1. Head(a.todo) \in ToMake
    BY <1>1, <1>3, <1>7, HeadFacts
  <2>2. key' = a.new
    BY <1>5, <1>9
  <2>3. [store |-> Head(a.todo).store, key |-> a.new] \in Connected'
    BY <1>4, <1>5, <2>1, <2>2 DEF ToMake, Connected
  <2>4. BuiltOf(a, a.new) \in AskTypes /\ RequestInv(BuiltOf(a, a.new))'
        /\ BuiltOf(a, a.new).pc \notin InProvider
    BY <1>4, <1>7, <2>3, ConnectionMade
  <2>5. ask' = [ask EXCEPT ![c] = BuiltOf(a, a.new)]
    BY <1>2, <1>9 DEF StoreKey, Be, Built, BuiltOf
  <2> QED BY <1>5, <1>6, <1>8, <2>4, <2>5, QuietStep
<1>10. CASE key # 0
  <2> DEFINE b == [a EXCEPT !.pc = "reread_key"]
  <2>1. b \in AskTypes /\ b.pc = "reread_key" /\ b.todo = a.todo /\ b.built = a.built
        /\ b.op = a.op /\ b.o = a.o
    BY DEF AskTypes, AskPcs
  <2>2. key' # 0
    BY <1>5, <1>10
  <2>3. RequestInv(b)'
    BY <1>3, <1>4, <1>7, <2>1, <2>2 DEF RequestInv, Connecting, Putting, InProvider
  <2>4. b.pc \notin InProvider
    BY <2>1 DEF InProvider
  <2>5. ask' = [ask EXCEPT ![c] = b]
    BY <1>2, <1>10 DEF StoreKey, Be
  <2> QED BY <1>5, <1>6, <1>8, <2>1, <2>3, <2>4, <2>5, QuietStep
<1> QED BY <1>9, <1>10

LEMMA RereadKeyStep ==
  ASSUME BackendsInv, NEW c \in Askers, RereadKey(c)
  PROVE  BackendsInv'
<1>1. BackendsTypeOK
  BY DEF BackendsInv
<1>2. PICK a \in AskTypes : a = ask[c]
  BY <1>1 DEF BackendsTypeOK
<1>3. RequestInv(a) /\ a.pc = "reread_key"
  BY <1>2 DEF BackendsInv, RereadKey
<1>4. Later /\ Connected' = Connected
  BY <1>1, SameIsLater DEF RereadKey, Outside, Connected
<1>5. RequestInv(a)' /\ a.pc \in Connecting
  BY <1>1, <1>3, <1>4, RequestStays DEF Connecting
<1>6. Head(a.todo) \in ToMake /\ Head(a.todo).seal /\ key # 0
  BY <1>1, <1>3, <1>5, HeadFacts DEF RequestInv, Connecting
<1>7. UNCHANGED <<files, index, acked, linked, minted>>
  BY DEF RereadKey, Outside
<1>8. minted' \in Nat /\ linked' \subseteq Stores
  BY <1>1, <1>7 DEF BackendsInv, BackendsTypeOK
<1>9. PICK k \in Nat : k = key
  BY <1>1 DEF BackendsTypeOK
<1>10. [store |-> Head(a.todo).store, key |-> k] \in Connected'
  BY <1>4, <1>6, <1>9 DEF ToMake, Connected
<1>11. BuiltOf(a, k) \in AskTypes /\ RequestInv(BuiltOf(a, k))' /\ BuiltOf(a, k).pc \notin InProvider
  BY <1>5, <1>10, ConnectionMade
<1>12. ask' = [ask EXCEPT ![c] = BuiltOf(a, k)]
  BY <1>2, <1>9 DEF RereadKey, Be, Built, BuiltOf
<1> QED BY <1>4, <1>7, <1>8, <1>11, <1>12, QuietStep

LEMMA OnwardIsFine ==
  ASSUME NEW a \in AskTypes, RequestInv(a)', a.pc \in {"has", "get"} \cup Putting
  PROVE  Onward(a) \in AskTypes /\ RequestInv(Onward(a))' /\ Onward(a).pc \notin InProvider
<1>1. CASE a.op = "tier" \/ a.o = Cardinality(Objects)
  BY <1>1, IdleIsFine DEF Onward, InProvider
<1>2. CASE ~(a.op = "tier" \/ a.o = Cardinality(Objects))
  <2>1. a.op \in {"migrate", "read"} /\ a.o \in Objects
    BY <1>2 DEF RequestInv, Putting, AskTypes
  <2>2. PICK n \in Objects : n = a.o + 1
    BY <1>2, <2>1, ObjectFacts
  <2> DEFINE b == [a EXCEPT !.o = n, !.pc = First(a.op), !.at = IF a.op = "migrate" THEN 2 ELSE 1]
  <2>3. First("migrate") = "has" /\ First("read") = "get"
    BY DEF First
  <2>4. /\ b \in AskTypes /\ b.pc = First(a.op) /\ b.op = a.op /\ b.todo = a.todo
        /\ b.built = a.built /\ b.at = (IF a.op = "migrate" THEN 2 ELSE 1)
    BY <2>1, <2>3 DEF AskTypes, AskPcs
  <2>5. 1 \in DOMAIN a.built
    <3>1. a.built \in Seq([store : Everywhere, key : Nat]) /\ a.at \in DOMAIN a.built
      BY DEF RequestInv, AskTypes
    <3>2. a.at \in 1..Len(a.built) /\ Len(a.built) \in Nat /\ DOMAIN a.built = 1..Len(a.built)
      BY <3>1, LenProperties
    <3> QED BY <3>2
  <2>6. RequestInv(b)'
    BY <2>1, <2>3, <2>4, <2>5 DEF RequestInv, Connecting, Putting, InProvider
  <2>7. Onward(a) = b
    BY <1>2, <2>2 DEF Onward
  <2>8. b.pc \notin InProvider
    BY <2>1, <2>3, <2>4 DEF InProvider
  <2> QED BY <2>4, <2>6, <2>7, <2>8
<1> QED BY <1>1, <1>2

LEMMA HasObjectStep ==
  ASSUME BackendsInv, NEW c \in Askers, HasObject(c)
  PROVE  BackendsInv'
<1>1. BackendsTypeOK
  BY DEF BackendsInv
<1>2. PICK a \in AskTypes : a = ask[c]
  BY <1>1 DEF BackendsTypeOK
<1>3. RequestInv(a) /\ a.pc = "has"
  BY <1>2 DEF BackendsInv, HasObject
<1>4. Later
  BY <1>1, SameIsLater DEF HasObject, Outside
<1>5. RequestInv(a)'
  BY <1>1, <1>3, <1>4, RequestStays
<1>6. UNCHANGED <<files, index, acked, linked, minted>>
  BY DEF HasObject, Outside
<1>7. minted' \in Nat /\ linked' \subseteq Stores
  BY <1>1, <1>6 DEF BackendsInv, BackendsTypeOK
<1>8. CASE ask' = [ask EXCEPT ![c] = Onward(a)]
  BY <1>3, <1>4, <1>5, <1>6, <1>7, <1>8, OnwardIsFine, QuietStep
<1>9. CASE ask' = [ask EXCEPT ![c] = [a EXCEPT !.pc = "get"]]
  <2> DEFINE b == [a EXCEPT !.pc = "get"]
  <2>1. /\ b \in AskTypes /\ b.pc = "get" /\ b.todo = a.todo /\ b.built = a.built
        /\ b.op = a.op /\ b.o = a.o /\ b.at = a.at
    BY DEF AskTypes, AskPcs
  <2>2. RequestInv(b)'
    BY <1>3, <1>5, <2>1 DEF RequestInv, Connecting, Putting, InProvider
  <2>3. b.pc \notin InProvider
    BY <2>1 DEF InProvider
  <2> QED BY <1>4, <1>6, <1>7, <1>9, <2>1, <2>2, <2>3, QuietStep
<1> QED BY <1>2, <1>8, <1>9 DEF HasObject, Be

\* What a backend answers is the object or is not taken.
LEMMA VerifiedIsTrue ==
  ASSUME BackendsTypeOK, NEW s \in Everywhere, NEW o \in Objects, NEW k \in Nat,
         VerifyBytes(Decrypt(FetchUnverified(s, o), k), o)
  PROVE  Decrypt(FetchUnverified(s, o), k) = Plain(o)
<1>1. Located(s, o) \in {0} \cup Locators /\ Root(s) \in Everywhere
  BY ObjectFacts DEF Located, Root, Everywhere, Proxied, BackendsTypeOK
<1>2. FetchUnverified(s, o) \in AnyContent
  BY <1>1, ContentFacts DEF FetchUnverified, BackendsTypeOK
<1>3. PICK v \in AnyContent : v = FetchUnverified(s, o)
  BY <1>2
<1>4. Decrypt(v, k) \in {Junk, Nothing, [v EXCEPT !.key = 0]}
  BY DEF Decrypt
<1>5. Decrypt(v, k).of = o /\ o # 0
  BY <1>3, ObjectFacts DEF VerifyBytes
<1>6. Decrypt(v, k) = [v EXCEPT !.key = 0]
  BY <1>4, <1>5 DEF Junk, Nothing
<1> QED BY <1>3, <1>5, <1>6 DEF AnyContent, Plain

LEMMA NextBackendStep ==
  ASSUME BackendsInv, Later, NEW c \in Askers, NEW a \in AskTypes, RequestInv(a)', a.pc = "get",
         a.at \in DOMAIN a.built, NextBackend(c, a),
         UNCHANGED <<files, index, acked>>, minted' \in Nat, linked' \subseteq Stores
  PROVE  BackendsInv'
<1>1. CASE a.at < Len(a.built)
  <2>1. /\ Len(a.built) \in Nat /\ DOMAIN a.built = 1..Len(a.built) /\ a.at \in Nat
    BY LenProperties DEF AskTypes
  <2>2. PICK n \in Nat : n = a.at + 1
    BY <2>1
  <2> DEFINE b == [a EXCEPT !.at = n]
  <2>3. n \in DOMAIN a.built
    BY <1>1, <2>1, <2>2
  <2>4. /\ b \in AskTypes /\ b.pc = a.pc /\ b.todo = a.todo /\ b.built = a.built
        /\ b.op = a.op /\ b.o = a.o /\ b.at = n
    BY DEF AskTypes
  <2>5. RequestInv(b)'
    BY <2>3, <2>4 DEF RequestInv, Connecting, Putting, InProvider
  <2>6. ask' = [ask EXCEPT ![c] = b] /\ b.pc \notin InProvider
    BY <1>1, <2>2, <2>4 DEF NextBackend, Be, InProvider
  <2> HIDE DEF b
  <2> QED BY <2>4, <2>5, <2>6, QuietStep
<1>2. CASE ~(a.at < Len(a.built)) /\ a.op = "migrate"
  <2>1. ask' = [ask EXCEPT ![c] = Onward(a)]
    BY <1>2 DEF NextBackend, GiveUp, Be
  <2>2. Onward(a) \in AskTypes /\ RequestInv(Onward(a))' /\ Onward(a).pc \notin InProvider
    BY OnwardIsFine
  <2> QED BY <2>1, <2>2, QuietStep
<1>3. CASE ~(a.at < Len(a.built)) /\ a.op # "migrate"
  <2>1. ask' = [ask EXCEPT ![c] = IdleAsk]
    BY <1>3 DEF NextBackend, GiveUp, Be
  <2> QED BY <2>1, IdleIsFine, QuietStep DEF InProvider
<1> QED BY <1>1, <1>2, <1>3

LEMMA GetObjectStep ==
  ASSUME BackendsInv, NEW c \in Askers, GetObject(c)
  PROVE  BackendsInv'
<1>1. BackendsTypeOK
  BY DEF BackendsInv
<1>2. PICK a \in AskTypes : a = ask[c]
  BY <1>1 DEF BackendsTypeOK
<1>3. RequestInv(a) /\ a.pc = "get"
  BY <1>2 DEF BackendsInv, GetObject
<1>4. Later
  BY <1>1, SameIsLater DEF GetObject
<1>5. RequestInv(a)'
  BY <1>1, <1>3, <1>4, RequestStays
<1>6. UNCHANGED <<files, index, acked, linked, minted>>
  BY DEF GetObject
<1>7. minted' \in Nat /\ linked' \subseteq Stores
  BY <1>1, <1>6 DEF BackendsTypeOK
<1>8. a.built \in Seq([store : Everywhere, key : Nat]) /\ a.at \in DOMAIN a.built /\ a.o \in Objects
      /\ a.op # "tier" /\ a.op # "idle"
  BY <1>3 DEF RequestInv, AskTypes, Putting
<1>9. PICK e \in [store : Everywhere, key : Nat] : e = a.built[a.at]
  BY <1>8, LenProperties, ElementOfSeq
<1>10. PICK f : f = Decrypt(FetchUnverified(e.store, a.o), e.key)
  OBVIOUS
<1>11. VerifyBytes(f, a.o) => f = Plain(a.o)
  BY <1>1, <1>8, <1>10, VerifiedIsTrue
<1> DEFINE put == [a EXCEPT !.pc = "put", !.bytes = f]
           failed == [a EXCEPT !.due = a.due \ {<<e.store, a.o>>}]
<1>12. CASE VerifyBytes(f, a.o) /\ Be(c, Found(a, f))
  <2>1. f = Plain(a.o) /\ f \in AnyContent
    BY <1>8, <1>11, <1>12, ContentFacts
  <2>2. CASE a.op = "migrate"
    <3>1. /\ put \in AskTypes /\ put.pc = "put" /\ put.todo = a.todo /\ put.built = a.built
          /\ put.op = a.op /\ put.o = a.o /\ put.at = a.at /\ put.bytes = f
      BY <2>1 DEF AskTypes, AskPcs
    <3>2. RequestInv(put)'
      BY <1>3, <1>5, <2>1, <2>2, <3>1 DEF RequestInv, Connecting, Putting, InProvider
    <3>3. put.pc \notin InProvider /\ ask' = [ask EXCEPT ![c] = put]
      BY <1>12, <2>2, <3>1 DEF InProvider, Be, Found
    <3> HIDE DEF put
    <3> QED BY <1>4, <1>6, <1>7, <3>1, <3>2, <3>3, QuietStep
  <2>3. CASE a.op # "migrate"
    <3>1. ask' = [ask EXCEPT ![c] = Onward(a)]
      BY <1>12, <2>3 DEF Be, Found
    <3> QED BY <1>3, <1>4, <1>5, <1>6, <1>7, <3>1, OnwardIsFine, QuietStep
  <2> QED BY <2>2, <2>3
<1>13. CASE NextBackend(c, a)
  BY <1>3, <1>4, <1>5, <1>6, <1>7, <1>8, <1>13, NextBackendStep
<1>14. CASE NextBackend(c, failed)
  <2>1. /\ failed \in AskTypes /\ failed.pc = a.pc /\ failed.todo = a.todo /\ failed.built = a.built
        /\ failed.op = a.op /\ failed.o = a.o /\ failed.at = a.at
    BY DEF AskTypes
  <2>2. RequestInv(failed)'
    BY <1>3, <1>5, <2>1 DEF RequestInv, Connecting, Putting, InProvider
  <2> HIDE DEF failed
  <2> QED BY <1>3, <1>4, <1>6, <1>7, <1>8, <1>14, <2>1, <2>2, NextBackendStep
<1> QED BY <1>2, <1>9, <1>10, <1>12, <1>13, <1>14 DEF GetObject

LEMMA AbandonStep ==
  ASSUME BackendsInv, NEW c \in Askers, Abandon(c)
  PROVE  BackendsInv'
<1>1. BackendsTypeOK
  BY DEF BackendsInv
<1>2. Later
  BY <1>1, SameIsLater DEF Abandon
<1>3. UNCHANGED <<files, index, acked, linked, minted>> /\ ask' = [ask EXCEPT ![c] = IdleAsk]
  BY DEF Abandon, Be
<1>4. minted' \in Nat /\ linked' \subseteq Stores
  BY <1>1, <1>3 DEF BackendsInv, BackendsTypeOK
<1> QED BY <1>2, <1>3, <1>4, IdleIsFine, QuietStep DEF InProvider

\* The providers change, and the settings; no request moves.
LEMMA OutsideStep ==
  ASSUME BackendsInv, Later, UNCHANGED <<ask, index, acked, minted>>,
         linked' \subseteq Stores, files' \in [Everywhere -> [Locators -> AnyContent]],
         \A s \in Everywhere \ altered' : files'[s] = files[s]
  PROVE  BackendsInv'
<1>1. BackendsTypeOK /\ ask \in [Askers -> AskTypes]
  BY DEF BackendsInv, BackendsTypeOK
<1>2. ASSUME NEW d \in Askers PROVE (RequestInv(ask[d]) /\ PlaceInv(ask[d]))'
  <2>1. PICK a \in AskTypes : a = ask[d]
    BY <1>1
  <2>2. RequestInv(a) /\ PlaceInv(a)
    BY <2>1 DEF BackendsInv
  <2>3. a.pc \in InProvider /\ Provider(a) \notin altered' => Provider(a) \in Everywhere \ altered'
    BY <2>2 DEF RequestInv, InProvider, Putting, Provider, Everywhere
  <2>4. RequestInv(a)' /\ PlaceInv(a)'
    BY <1>1, <2>2, <2>3, RequestStays, PlaceStays
  <2> QED BY <2>1, <2>4
<1>3. PlacesApart'
  <2>1. kind' = kind /\ \A s \in Stores \ altered' : s \in Stores \ altered
    BY DEF Later
  <2> QED BY <2>1 DEF BackendsInv, PlacesApart, OnDrive, Provider
<1>4. \A s \in Stores \ altered' : StoreInv(s)'
  BY <1>1, StoreStays DEF BackendsInv, Later, Everywhere
<1>5. Local \notin altered'
  BY BackendsAssumption DEF Later
<1>6. LocalInv'
  BY <1>1, <1>5, LocalStays DEF BackendsInv, Everywhere
<1>7. BackendsTypeOK'
  BY <1>1 DEF BackendsInv, BackendsTypeOK, Later
<1> QED BY <1>2, <1>3, <1>4, <1>6, <1>7 DEF BackendsInv

LEMMA WriteFacts ==
  ASSUME BackendsTypeOK, NEW s \in Everywhere, NEW l \in Locators, NEW b \in AnyContent, Write(s, l, b)
  PROVE  /\ files' \in [Everywhere -> [Locators -> AnyContent]]
         /\ files'[s][l] = b /\ \A m \in Locators : m # l => files'[s][m] = files[s][m]
         /\ \A r \in Everywhere : r # s => files'[r] = files[r]
<1>1. PICK g \in [Locators -> AnyContent] : g = files[s]
  BY DEF BackendsTypeOK
<1>2. PICK h \in [Locators -> AnyContent] : h = [g EXCEPT ![l] = b]
  OBVIOUS
<1>3. files' = [files EXCEPT ![s] = h]
  BY <1>1, <1>2 DEF Write
<1> QED BY <1>1, <1>2, <1>3 DEF BackendsTypeOK

LEMMA OutsideSteps ==
  ASSUME BackendsInv, NEW s \in Stores, Unlink(s) \/ SwitchEncryption(s) \/ Tamper(s)
  PROVE  BackendsInv'
<1>1. BackendsTypeOK
  BY DEF BackendsInv
<1>2. CASE Unlink(s)
  <2>1. Later
    BY <1>1, <1>2, SameIsLater DEF Unlink
  <2> QED BY <1>1, <1>2, <2>1, OutsideStep DEF Unlink, BackendsTypeOK
<1>3. CASE SwitchEncryption(s)
  <2>1. Later
    BY <1>1, <1>3 DEF SwitchEncryption, Later, BackendsTypeOK
  <2> QED BY <1>1, <1>3, <2>1, OutsideStep DEF SwitchEncryption, BackendsTypeOK
<1>4. CASE Tamper(s)
  <2>1. Later
    BY <1>1, <1>4 DEF Tamper, Later, BackendsTypeOK
  <2>2. PICK l \in Locators, b \in {Junk, Nothing} : Write(s, l, b)
    BY <1>4 DEF Tamper
  <2>3. b \in AnyContent /\ s \in Everywhere
    BY ContentFacts DEF Everywhere
  <2>4. /\ files' \in [Everywhere -> [Locators -> AnyContent]]
        /\ \A r \in Everywhere : r # s => files'[r] = files[r]
    BY <1>1, <2>2, <2>3, WriteFacts
  <2>5. s \in altered' /\ UNCHANGED <<ask, index, acked, minted>> /\ linked' \subseteq Stores
    BY <1>1, <1>4 DEF Tamper, BackendsTypeOK
  <2> QED BY <2>1, <2>4, <2>5, OutsideStep
<1> QED BY <1>2, <1>3, <1>4

\* What a request that puts something knows.
LEMMA PutFacts ==
  ASSUME BackendsTypeOK, NEW a \in AskTypes, RequestInv(a), a.pc \in Putting
  PROVE  /\ Provider(a) \in Stores /\ Provider(a) # Local /\ a.o \in Objects
         /\ \E b \in AnyContent : /\ b = [a.bytes EXCEPT !.key = a.built[1].key]
                                  /\ b # Nothing /\ b.of = a.o
                                  /\ Provider(a) \notin altered => Holds(Provider(a), a.o, b)
<1>1. a.built \in Seq(Connected) /\ a.at \in DOMAIN a.built /\ a.bytes = Plain(a.o)
      /\ a.o \in Objects /\ a.op # "read" /\ a.built[1].store \in Stores
  BY DEF RequestInv, Putting, AskTypes
<1>2. 1 \in 1..Len(a.built)
  <2>1. a.at \in 1..Len(a.built) /\ Len(a.built) \in Nat
    BY <1>1, LenProperties
  <2> QED BY <2>1
<1>3. a.built[1] \in Connected
  BY <1>1, <1>2, ElementOfSeq
<1>4. PICK k \in Nat : k = a.built[1].key
  BY <1>3 DEF Connected
<1>5. PICK b \in AnyContent : b = [of |-> a.o, key |-> k]
  BY <1>1 DEF AnyContent
<1>6. b = [a.bytes EXCEPT !.key = a.built[1].key]
  BY <1>1, <1>4, <1>5 DEF Plain
<1>7. b.of = a.o /\ b # Nothing
  BY <1>1, <1>5, ObjectFacts DEF Nothing
<1>8. Provider(a) # Local
  BY <1>1, BackendsAssumption DEF Provider
<1>9. ASSUME Provider(a) \notin altered PROVE Holds(Provider(a), a.o, b)
  <2>1. k \in {0, key} /\ (k # 0 <=> sealing[Provider(a)])
    BY <1>1, <1>3, <1>4, <1>8, <1>9 DEF Connected, Provider
  <2> QED BY <1>5, <2>1 DEF Holds
<1> QED BY <1>1, <1>6, <1>7, <1>8, <1>9 DEF Provider

\* A put is acknowledged for its store alone.
LEMMA AckedFacts ==
  ASSUME BackendsTypeOK, NEW c \in Askers, NEW a \in AskTypes, a = ask[c], Provider(a) \in Stores,
         acked' = Acked(c)
  PROVE  /\ acked' \in [Stores -> SUBSET Objects]
         /\ acked'[Provider(a)] = acked[Provider(a)] \cup {a.o}
         /\ \A s \in Stores : s # Provider(a) => acked'[s] = acked[s]
<1>1. a.o \in Objects /\ Provider(a) # Local
  BY BackendsAssumption DEF AskTypes
<1>2. acked' = [acked EXCEPT ![Provider(a)] = acked[Provider(a)] \cup {a.o}]
  BY <1>1 DEF Acked, Target, Provider
<1> QED BY <1>1, <1>2 DEF BackendsTypeOK

LEMMA PutDirectStep ==
  ASSUME BackendsInv, NEW c \in Askers, PutDirect(c)
  PROVE  BackendsInv'
<1>1. BackendsTypeOK
  BY DEF BackendsInv
<1>2. PICK a \in AskTypes : a = ask[c]
  BY <1>1 DEF BackendsTypeOK
<1>3. RequestInv(a) /\ a.pc = "put"
  BY <1>2 DEF BackendsInv, PutDirect
<1>4. Later
  BY <1>1, SameIsLater DEF PutDirect, Outside
<1>5. RequestInv(a)'
  BY <1>1, <1>3, <1>4, RequestStays
<1>6. UNCHANGED <<kind, sealing, altered, index, key, linked, minted>>
  BY DEF PutDirect, Outside
<1> DEFINE s == Provider(a)
           b == Onward(a)
<1>7. b \in AskTypes /\ RequestInv(b)' /\ b.pc \notin InProvider
  BY <1>3, <1>5, OnwardIsFine DEF Putting
<1>8. s \in Stores /\ s # Local /\ a.o \in Objects
  BY <1>1, <1>3, PutFacts DEF Putting
<1>9. PICK v \in AnyContent : /\ v = [a.bytes EXCEPT !.key = a.built[1].key]
                              /\ v # Nothing /\ v.of = a.o
                              /\ s \notin altered => Holds(s, a.o, v)
  BY <1>1, <1>3, PutFacts DEF Putting
<1>10. kind[s] \in {"local-fs", "bucket"} /\ a.o \in Locators
  BY <1>1, <1>2, <1>8, ObjectFacts DEF PutDirect, Target, Provider, Proxied, BackendsTypeOK, Kinds
<1>11. /\ acked' \in [Stores -> SUBSET Objects] /\ acked'[s] = acked[s] \cup {a.o}
       /\ \A r \in Stores : r # s => acked'[r] = acked[r]
  BY <1>1, <1>2, <1>8, AckedFacts DEF PutDirect
<1>12. ask' = [ask EXCEPT ![c] = b]
  BY <1>2 DEF PutDirect, Be
<1> DEFINE root == IF kind[s] = "local-fs" THEN Local ELSE s
<1>13. root \in Everywhere /\ root = Root(s)
  BY <1>8 DEF Root, Everywhere
<1>14. \/ kind[s] = "local-fs" /\ files[Local][a.o] # Nothing /\ files' = files
       \/ Write(root, a.o, v)
  BY <1>2, <1>9, <1>13 DEF PutDirect, Target, Provider, Has, Proxied, Seal, Root
<1> HIDE DEF b
<1>15. /\ files' \in [Everywhere -> [Locators -> AnyContent]]
       /\ \A r \in Everywhere : r # root => files'[r] = files[r]
       /\ \A m \in Locators : m # a.o => files'[root][m] = files[root][m]
       /\ \/ kind[s] = "local-fs" /\ files[Local][a.o] # Nothing /\ files'[Local][a.o] = files[Local][a.o]
          \/ files'[root][a.o] = v
  <2>1. CASE kind[s] = "local-fs" /\ files[Local][a.o] # Nothing /\ files' = files
    BY <1>1, <2>1 DEF BackendsTypeOK
  <2>2. CASE Write(root, a.o, v)
    BY <1>1, <1>10, <1>13, <2>2, WriteFacts
  <2> QED BY <1>14, <2>1, <2>2
<1>16. PlaceInv(b)'
  BY <1>7 DEF PlaceInv
<1>17. ASSUME NEW d \in Askers, NEW e \in AskTypes, d # c, e = ask[d] PROVE PlaceInv(e)'
  <2>1. RequestInv(e) /\ PlaceInv(e)
    BY <1>17 DEF BackendsInv
  <2>2. e.pc \in InProvider => kind[Provider(e)] \in {"path", "drive"} /\ Provider(e) \in Stores
    BY <2>1 DEF RequestInv, InProvider, Putting, Provider
  <2>3. e.pc \in InProvider => Provider(e) # root /\ Provider(e) \in Everywhere
    BY <1>10, <2>2, BackendsAssumption DEF Everywhere
  <2>4. e.pc \in InProvider => files'[Provider(e)] = files[Provider(e)]
    BY <1>15, <2>3
  <2> QED BY <1>1, <1>4, <1>6, <2>1, <2>4, PlaceStays
<1>18. /\ ask' \in [Askers -> AskTypes]
       /\ \A d \in Askers : (RequestInv(ask[d]) /\ PlaceInv(ask[d]))'
  BY <1>4, <1>7, <1>12, <1>16, <1>17, RequestsStay
<1>19. PlacesApart'
  BY <1>4, <1>7, <1>12, ApartStays DEF OnDrive
<1>20. ASSUME NEW r \in Stores \ altered' PROVE StoreInv(r)'
  <2>1. r \in Stores \ altered /\ StoreInv(r) /\ r # Local
    BY <1>6, BackendsAssumption DEF BackendsInv
  <2>2. CASE r # s
    <3>1. files'[r] = files[r] /\ acked'[r] = acked[r]
      BY <1>11, <1>15, <2>1, <2>2 DEF Everywhere
    <3> QED BY <1>1, <1>4, <1>6, <2>1, <3>1, StoreStays
  <2>3. CASE r = s /\ kind[s] = "local-fs"
    BY <1>6, <2>3 DEF StoreInv
  <2>4. CASE r = s /\ kind[s] = "bucket"
    <3>1. Holds(s, a.o, v)' /\ files'[s][a.o] = v
      BY <1>6, <1>9, <1>15, <2>1, <2>4 DEF Holds
    <3>2. \A o \in acked[s] : Holds(s, o, files[s][o]) /\ o \in Locators
      BY <1>1, <2>1, <2>4, ObjectFacts DEF StoreInv, BackendsTypeOK
    <3>3. ASSUME NEW o \in acked'[s] PROVE Holds(s, o, files[s][o])'
      <4>1. CASE o = a.o
        BY <3>1, <4>1 DEF Holds
      <4>2. CASE o # a.o
        <5>1. o \in acked[s] /\ files'[s][o] = files[s][o]
          BY <1>11, <1>15, <2>4, <3>2, <3>3, <4>2
        <5> QED BY <1>6, <3>2, <5>1 DEF Holds
      <4> QED BY <4>1, <4>2
    <3> QED BY <1>6, <2>4, <3>3 DEF StoreInv
  <2> QED BY <1>10, <2>2, <2>3, <2>4
<1>21. LocalInv'
  <2> SUFFICES ASSUME \A r \in altered : kind[r] # "local-fs" PROVE LocalInv'
    BY <1>6 DEF LocalInv
  <2>1. LocalInv /\ Local \in Everywhere /\ Objects \subseteq Locators
    BY ObjectFacts DEF BackendsInv, Everywhere
  <2>2. CASE kind[s] = "local-fs"
    <3>1. s \notin altered /\ Holds(s, a.o, v)
      BY <1>9, <2>2
    <3>2. \/ v = Plain(a.o)
          \/ key # 0 /\ v = [of |-> a.o, key |-> key] /\ kind[s] = "local-fs" /\ sealing[s]
      BY <2>2, <3>1 DEF Holds, Plain
    <3>3. \A o \in Objects : o # a.o => files'[Local][o] = files[Local][o]
      BY <1>15, <2>1, <2>2
    <3>4. /\ files'[Local][a.o] = files[Local][a.o] \/ files'[Local][a.o] = v
          /\ files'[Local][a.o] # Nothing
      BY <1>9, <1>15, <2>2
    <3>5. ASSUME NEW o \in Objects
          PROVE  \/ files'[Local][o] \in {Nothing, Junk, Plain(o)}
                 \/ /\ key # 0 /\ files'[Local][o] = [of |-> o, key |-> key]
                    /\ \E r \in Stores : kind[r] = "local-fs" /\ sealing[r]
      <4>1. CASE files'[Local][o] = files[Local][o]
        BY <2>1, <4>1 DEF LocalInv
      <4>2. CASE o = a.o /\ files'[Local][o] = v
        BY <1>8, <3>2, <4>2
      <4> QED BY <3>3, <3>4, <4>1, <4>2
    <3>6. ASSUME NEW r \in Stores, kind[r] = "local-fs", NEW o \in acked'[r]
          PROVE  files'[Local][o] # Nothing
      <4>1. o = a.o \/ (o \in acked[r] /\ o \in Objects)
        BY <1>1, <1>11, <3>6 DEF BackendsTypeOK
      <4> QED BY <2>1, <3>3, <3>4, <3>6, <4>1 DEF LocalInv
    <3> QED BY <1>6, <3>5, <3>6 DEF LocalInv
  <2>3. CASE kind[s] = "bucket"
    <3>1. files'[Local] = files[Local]
      BY <1>8, <1>15, <2>1, <2>3
    <3>2. \A r \in Stores : kind[r] = "local-fs" => acked'[r] = acked[r]
      BY <1>11, <2>3
    <3> QED BY <1>6, <2>1, <3>1, <3>2 DEF LocalInv
  <2> QED BY <1>10, <2>2, <2>3
<1>22. BackendsTypeOK'
  BY <1>1, <1>6, <1>11, <1>15, <1>18 DEF BackendsInv, BackendsTypeOK
<1> QED BY <1>18, <1>19, <1>20, <1>21, <1>22 DEF BackendsInv

\* A step that changes files, index rows and acknowledgements at s alone.
OnlyAt(s) ==
  /\ UNCHANGED <<kind, sealing, altered, key, linked, minted>>
  /\ files' \in [Everywhere -> [Locators -> AnyContent]]
  /\ index' \in [Stores -> [Objects -> {0} \cup Locators]] /\ acked' \in [Stores -> SUBSET Objects]
  /\ \A r \in Everywhere : r # s => files'[r] = files[r]
  /\ \A r \in Stores : r # s => index'[r] = index[r] /\ acked'[r] = acked[r]

\* The other requests at s have there what they had.
OthersKeep(c, s) ==
  \A d \in Askers, e \in AskTypes :
    d # c /\ e = ask[d] /\ e.pc \in InProvider /\ Provider(e) = s /\ s \notin altered => PlaceInv(e)'

\* A request moves and changes what it has at one provider, nothing elsewhere.
LEMMA ProviderStep ==
  ASSUME BackendsInv, NEW s \in Stores, kind[s] \in {"path", "drive"}, OnlyAt(s),
         NEW c \in Askers, NEW b \in AskTypes, ask' = [ask EXCEPT ![c] = b], OthersKeep(c, s),
         RequestInv(b)', PlaceInv(b)', PlacesApart', s \in altered \/ StoreInv(s)'
  PROVE  BackendsInv'
<1>1. BackendsTypeOK
  BY DEF BackendsInv
<1>2. Later
  BY <1>1, SameIsLater DEF OnlyAt
<1>3. ASSUME NEW d \in Askers, NEW e \in AskTypes, d # c, e = ask[d] PROVE PlaceInv(e)'
  <2>1. RequestInv(e) /\ PlaceInv(e)
    BY <1>3 DEF BackendsInv
  <2>2. e.pc \in InProvider => Provider(e) \in Stores
    BY <2>1 DEF RequestInv, InProvider, Putting, Provider
  <2>3. CASE e.pc \in InProvider /\ Provider(e) = s /\ s \notin altered
    BY <1>3, <2>3 DEF OthersKeep
  <2>4. CASE e.pc \in InProvider /\ Provider(e) = s /\ s \in altered
    BY <2>4 DEF PlaceInv, Provider, OnlyAt
  <2>5. CASE e.pc \notin InProvider
    BY <2>5 DEF PlaceInv
  <2>6. CASE e.pc \in InProvider /\ Provider(e) # s
    BY <1>1, <1>2, <2>1, <2>2, <2>6, PlaceStays DEF Everywhere, OnlyAt
  <2> QED BY <2>3, <2>4, <2>5, <2>6
<1>4. /\ ask' \in [Askers -> AskTypes]
      /\ \A d \in Askers : (RequestInv(ask[d]) /\ PlaceInv(ask[d]))'
  BY <1>2, <1>3, RequestsStay
<1>5. ASSUME NEW r \in Stores \ altered' PROVE StoreInv(r)'
  <2>1. CASE r = s
    BY <2>1 DEF OnlyAt
  <2>2. CASE r # s
    BY <1>1, <1>2, <2>2, StoreStays DEF BackendsInv, Everywhere, OnlyAt
  <2> QED BY <2>1, <2>2
<1>6. LocalInv'
  <2>1. s # Local /\ files'[Local] = files[Local]
    BY BackendsAssumption DEF Everywhere, OnlyAt
  <2>2. \A r \in Stores : kind[r] = "local-fs" => acked'[r] = acked[r]
    BY DEF OnlyAt
  <2>3. LocalInv
    BY DEF BackendsInv
  <2> QED BY <2>1, <2>2, <2>3 DEF LocalInv, OnlyAt
<1>7. BackendsTypeOK'
  BY <1>1, <1>4 DEF BackendsInv, BackendsTypeOK, OnlyAt
<1> QED BY <1>4, <1>5, <1>6, <1>7 DEF BackendsInv

LEMMA IndexedLocatorStep ==
  ASSUME BackendsInv, NEW c \in Askers, IndexedLocator(c)
  PROVE  BackendsInv'
<1>1. BackendsTypeOK
  BY DEF BackendsInv
<1>2. PICK a \in AskTypes : a = ask[c]
  BY <1>1 DEF BackendsTypeOK
<1>3. RequestInv(a) /\ a.pc = "put"
  BY <1>2 DEF BackendsInv, IndexedLocator
<1>4. Later
  BY <1>1, SameIsLater DEF IndexedLocator, Outside
<1>5. RequestInv(a)'
  BY <1>1, <1>3, <1>4, RequestStays
<1>6. UNCHANGED <<kind, sealing, altered, files, index, key, linked, minted>>
  BY DEF IndexedLocator, Outside
<1>7. PICK s \in Stores : s = Provider(a) /\ s # Local /\ a.o \in Objects
  BY <1>1, <1>3, PutFacts DEF Putting
<1>8. kind[s] \in {"path", "drive"}
  BY <1>2, <1>7 DEF IndexedLocator, Target, Provider, Proxied
<1>9. CASE index[s][a.o] # 0 /\ acked' = Acked(c) /\ ask' = [ask EXCEPT ![c] = Onward(a)]
  <2>1. PICK b \in AskTypes : b = Onward(a) /\ RequestInv(b)' /\ b.pc \notin InProvider
    BY <1>3, <1>5, OnwardIsFine DEF Putting
  <2>2. /\ acked' \in [Stores -> SUBSET Objects] /\ acked'[s] = acked[s] \cup {a.o}
        /\ \A r \in Stores : r # s => acked'[r] = acked[r]
    BY <1>1, <1>2, <1>7, <1>9, AckedFacts
  <2>3. PlaceInv(b)' /\ PlacesApart'
    BY <1>4, <1>9, <2>1, ApartStays DEF PlaceInv, OnDrive
  <2>4. ASSUME s \notin altered PROVE StoreInv(s)'
    <3>1. StoreInv(s)
      BY <1>7, <2>4 DEF BackendsInv
    <3> QED BY <1>6, <1>8, <1>9, <2>2, <3>1 DEF StoreInv, Holds
  <2>5. ASSUME NEW d \in Askers, NEW e \in AskTypes, d # c, e = ask[d] PROVE PlaceInv(e)'
    BY <1>1, <1>4, <1>6, <2>5, PlaceStays DEF BackendsInv
  <2>6. /\ files' \in [Everywhere -> [Locators -> AnyContent]]
        /\ index' \in [Stores -> [Objects -> {0} \cup Locators]]
    BY <1>1, <1>6 DEF BackendsTypeOK
  <2>7. ask' = [ask EXCEPT ![c] = b]
    BY <1>9, <2>1
  <2>8. OnlyAt(s) /\ OthersKeep(c, s)
    BY <1>6, <1>7, <2>2, <2>5, <2>6 DEF OnlyAt, OthersKeep
  <2> QED BY <1>8, <2>1, <2>3, <2>4, <2>7, <2>8, ProviderStep
<1>10. CASE acked' = acked /\ ask' = [ask EXCEPT ![c] = [a EXCEPT !.pc =
                                                  IF kind[s] = "drive" THEN "create" ELSE "upload"]]
  <2>1. PICK p \in {"create", "upload"} : p = IF kind[s] = "drive" THEN "create" ELSE "upload"
    OBVIOUS
  <2>2. PICK b \in AskTypes :
         /\ b = [a EXCEPT !.pc = p] /\ b.pc = p /\ b.todo = a.todo /\ b.built = a.built
        /\ b.op = a.op /\ b.o = a.o /\ b.at = a.at /\ b.bytes = a.bytes /\ b.new = a.new
    <3> DEFINE f == [a EXCEPT !.pc = p]
    <3>1. f \in AskTypes
      BY DEF AskTypes, AskPcs
    <3> HIDE DEF f
    <3>2. PICK b \in AskTypes : b = f
      BY <3>1
    <3> QED BY <3>2 DEF f, AskTypes
  <2>3. kind'[s] \in {"path", "drive"} /\ (p = "create" <=> kind'[s] = "drive")
    BY <1>6, <1>8, <2>1
  <2>4. RequestInv(b)'
    BY <1>3, <1>5, <1>7, <2>2, <2>3 DEF RequestInv, Connecting, Putting, InProvider, Provider
  <2>5. b.pc \in InProvider => b.pc = "upload" /\ kind'[Provider(b)] # "drive"
    BY <1>7, <2>1, <2>2, <2>3 DEF Provider, InProvider
  <2>6. minted' \in Nat /\ linked' \subseteq Stores
    BY <1>1, <1>6 DEF BackendsInv, BackendsTypeOK
  <2>7. ask' = [ask EXCEPT ![c] = b]
    BY <1>10, <2>1, <2>2
  <2> QED BY <1>4, <1>6, <1>10, <2>2, <2>4, <2>5, <2>6, <2>7, QuietStep
<1> QED BY <1>2, <1>7, <1>9, <1>10 DEF IndexedLocator, Be, Target, Provider

LEMMA CreateFileStep ==
  ASSUME BackendsInv, NEW c \in Askers, CreateFile(c)
  PROVE  BackendsInv'
<1>1. BackendsTypeOK
  BY DEF BackendsInv
<1>2. PICK a \in AskTypes : a = ask[c]
  BY <1>1 DEF BackendsTypeOK
<1>3. RequestInv(a) /\ a.pc = "create"
  BY <1>2 DEF BackendsInv, CreateFile
<1>4. Later
  BY <1>1, SameIsLater DEF CreateFile, Outside
<1>5. RequestInv(a)'
  BY <1>1, <1>3, <1>4, RequestStays
<1>6. UNCHANGED <<kind, sealing, altered, index, key, linked, minted, acked>>
  BY DEF CreateFile, Outside
<1>7. PICK s \in Stores : s = Provider(a) /\ s # Local /\ a.o \in Objects /\ kind[s] = "drive"
  BY <1>1, <1>3, PutFacts DEF Putting, RequestInv, Provider
<1>8. PICK l \in Locators \ Taken(s) :
        /\ Write(s, l, Junk)
        /\ ask' = [ask EXCEPT ![c] = [a EXCEPT !.pc = "upload", !.new = l]]
  BY <1>2, <1>7 DEF CreateFile, Be, Target, Provider
<1>9. l \in Locators /\ files[s][l] = Nothing /\ l \notin Objects /\ l # 0 /\ l \in Nat
  BY <1>8 DEF Taken, Locators
<1>10. /\ files' \in [Everywhere -> [Locators -> AnyContent]] /\ files'[s][l] = Junk
       /\ \A m \in Locators : m # l => files'[s][m] = files[s][m]
       /\ \A r \in Everywhere : r # s => files'[r] = files[r]
  BY <1>1, <1>7, <1>8, <1>9, ContentFacts, WriteFacts DEF Everywhere
<1>11. Junk # Nothing
  BY ObjectFacts DEF Junk, Nothing
<1>12. PICK b \in AskTypes :
       /\ b = [a EXCEPT !.pc = "upload", !.new = l] /\ b.pc = "upload" /\ b.todo = a.todo /\ b.built = a.built /\ b.new = l
       /\ b.op = a.op /\ b.o = a.o /\ b.at = a.at /\ b.bytes = a.bytes
  <2> DEFINE f == [a EXCEPT !.pc = "upload", !.new = l]
  <2>1. f \in AskTypes
    BY <1>9 DEF AskTypes, AskPcs
  <2> HIDE DEF f
  <2>2. PICK b \in AskTypes : b = f
    BY <2>1
  <2> QED BY <2>2 DEF f, AskTypes
<1>13. ask' = [ask EXCEPT ![c] = b]
  BY <1>8, <1>12
<1>14. RequestInv(b)'
  BY <1>3, <1>5, <1>6, <1>7, <1>9, <1>12 DEF RequestInv, Connecting, Putting, InProvider, Provider
<1>15. ASSUME s \notin altered
       PROVE  /\ StoreInv(s) /\ \A o \in Objects : index[s][o] # l
              /\ \A o \in Objects : index[s][o] # 0 => index[s][o] \in Locators
  <2>1. StoreInv(s) /\ \A o \in Objects : index[s][o] \in {0} \cup Locators
    BY <1>1, <1>7, <1>15 DEF BackendsInv, BackendsTypeOK
  <2>2. ASSUME NEW o \in Objects, index[s][o] = l PROVE FALSE
    <3>1. Holds(s, o, Nothing)
      BY <1>7, <1>9, <2>1, <2>2 DEF StoreInv
    <3> QED BY <3>1, ObjectFacts DEF Holds, Nothing
  <2> QED BY <2>1, <2>2
<1>16. Provider(b) = s
  BY <1>7, <1>12 DEF Provider
<1>17. PlaceInv(b)'
  BY <1>6, <1>7, <1>10, <1>11, <1>12, <1>15, <1>16 DEF PlaceInv, Provider
<1>18. ASSUME NEW d \in Askers, NEW e \in AskTypes, d # c, e = ask[d], e.pc \in InProvider,
              Provider(e) = s, s \notin altered
       PROVE  e.new # l /\ e.new \in Locators /\ files'[s][e.new] = files[s][e.new] /\ PlaceInv(e)
  <2>1. RequestInv(e) /\ PlaceInv(e)
    BY <1>18 DEF BackendsInv
  <2>2. e.new \in Locators /\ files[s][e.new] # Nothing
    BY <1>7, <1>18, <2>1 DEF RequestInv, PlaceInv, Provider
  <2> QED BY <1>9, <1>10, <2>1, <2>2
<1>19. ASSUME NEW d \in Askers, NEW e \in AskTypes, d # c, e = ask[d], e.pc \in InProvider,
              Provider(e) = s, s \notin altered
       PROVE  PlaceInv(e)'
  <2>1. e.new # l /\ e.new \in Locators /\ files'[s][e.new] = files[s][e.new] /\ PlaceInv(e)
    BY <1>18, <1>19
  <2> QED BY <1>6, <1>7, <1>19, <2>1 DEF PlaceInv, Provider, Place, Holds
<1>20. PlacesApart'
  <2>1. \A r \in Stores \ altered, d \in Askers :
          d # c /\ OnDrive(b, r) /\ OnDrive(ask[d], r) => ask[d].new # b.new
    <3> SUFFICES ASSUME NEW r \in Stores \ altered, NEW d \in Askers, d # c, OnDrive(b, r), OnDrive(ask[d], r)
                 PROVE  ask[d].new # b.new
      OBVIOUS
    <3>1. r = s /\ s \notin altered
      BY <1>16 DEF OnDrive
    <3>2. PICK e \in AskTypes : e = ask[d]
      BY <1>1 DEF BackendsTypeOK
    <3> QED BY <1>12, <1>18, <3>1, <3>2 DEF OnDrive
  <2> QED BY <1>4, <1>12, <1>13, <2>1, ApartStays
<1>21. ASSUME s \notin altered PROVE StoreInv(s)'
  BY <1>6, <1>7, <1>10, <1>15, <1>21 DEF StoreInv, Holds
<1>22. index' \in [Stores -> [Objects -> {0} \cup Locators]] /\ acked' \in [Stores -> SUBSET Objects]
  BY <1>1, <1>6 DEF BackendsTypeOK
<1>23. OnlyAt(s) /\ OthersKeep(c, s) /\ kind[s] \in {"path", "drive"}
  BY <1>6, <1>7, <1>10, <1>19, <1>22 DEF OnlyAt, OthersKeep
<1> QED BY <1>12, <1>13, <1>14, <1>17, <1>20, <1>21, <1>23, ProviderStep

LEMMA UploadingStep ==
  ASSUME BackendsInv, NEW c \in Askers, Uploading(c)
  PROVE  BackendsInv'
<1>1. BackendsTypeOK
  BY DEF BackendsInv
<1>2. PICK a \in AskTypes : a = ask[c]
  BY <1>1 DEF BackendsTypeOK
<1>3. RequestInv(a) /\ PlaceInv(a) /\ a.pc = "upload"
  BY <1>2 DEF BackendsInv, Uploading
<1>4. Later
  BY <1>1, SameIsLater DEF Uploading, Outside
<1>5. RequestInv(a)'
  BY <1>1, <1>3, <1>4, RequestStays
<1>6. UNCHANGED <<kind, sealing, altered, index, key, linked, minted, acked>>
  BY DEF Uploading, Outside
<1>7. PICK s \in Stores : s = Provider(a) /\ s # Local /\ a.o \in Objects /\ kind[s] \in {"path", "drive"}
  BY <1>1, <1>3, PutFacts DEF Putting, RequestInv, Provider, InProvider
<1>8. PICK v \in AnyContent : /\ v = [a.bytes EXCEPT !.key = a.built[1].key]
                              /\ v # Nothing /\ v.of = a.o
                              /\ s \notin altered => Holds(s, a.o, v)
  BY <1>1, <1>3, <1>7, PutFacts DEF Putting
<1>9. PICK l \in Locators : l = Place(a) /\ (kind[s] = "drive" => l = a.new) /\ (kind[s] = "path" => l = a.o)
  BY <1>3, <1>7, ObjectFacts DEF Place, RequestInv, InProvider, Provider
<1>10. Write(s, l, v) /\ ask' = [ask EXCEPT ![c] = [a EXCEPT !.pc = "remember"]]
  BY <1>2, <1>7, <1>8, <1>9 DEF Uploading, Be, Seal, Target, Locator, Place, Provider
<1>11. /\ files' \in [Everywhere -> [Locators -> AnyContent]] /\ files'[s][l] = v
       /\ \A m \in Locators : m # l => files'[s][m] = files[s][m]
       /\ \A r \in Everywhere : r # s => files'[r] = files[r]
  <2>1. s \in Everywhere /\ Write(s, l, v)
    BY <1>10 DEF Everywhere
  <2> QED BY <1>1, <2>1, WriteFacts
<1>12. PICK b \in AskTypes :
       /\ b = [a EXCEPT !.pc = "remember"] /\ b.pc = "remember" /\ b.todo = a.todo /\ b.built = a.built
       /\ b.op = a.op /\ b.o = a.o /\ b.at = a.at /\ b.bytes = a.bytes /\ b.new = a.new
  <2> DEFINE f == [a EXCEPT !.pc = "remember"]
  <2>1. f \in AskTypes
    BY DEF AskTypes, AskPcs
  <2> HIDE DEF f
  <2>2. PICK b \in AskTypes : b = f
    BY <2>1
  <2> QED BY <2>2 DEF f, AskTypes
<1>13. ask' = [ask EXCEPT ![c] = b]
  BY <1>10, <1>12
<1>14. RequestInv(b)'
  BY <1>3, <1>5, <1>12 DEF RequestInv, Connecting, Putting, InProvider
<1>15. Provider(b) = s /\ Place(b)' = l /\ Provider(b)' = s
  BY <1>6, <1>7, <1>9, <1>12 DEF Provider, Place
<1>16. ASSUME s \notin altered
       PROVE  Holds(s, a.o, v)' /\ (kind[s] = "drive" => \A o \in Objects : index[s][o] # l)
  BY <1>3, <1>6, <1>7, <1>8, <1>9, <1>16 DEF PlaceInv, Holds, InProvider
<1>17. PlaceInv(b)'
  <2> SUFFICES ASSUME s \notin altered PROVE PlaceInv(b)'
    BY <1>6, <1>15 DEF PlaceInv
  <2>1. kind'[s] = "drive" => files'[s][b.new] # Nothing /\ \A o \in Objects : index'[s][o] # b.new
    BY <1>6, <1>8, <1>9, <1>11, <1>12, <1>16
  <2>2. Holds(s, b.o, files[s][l])'
    BY <1>6, <1>11, <1>12, <1>15, <1>16 DEF Holds
  <2> QED BY <1>15, <2>1, <2>2 DEF PlaceInv, Holds
<1>18. PlacesApart'
  <2>1. \A r \in Stores \ altered, d \in Askers :
          d # c /\ OnDrive(b, r) /\ OnDrive(ask[d], r) => ask[d].new # b.new
    <3> SUFFICES ASSUME NEW r \in Stores \ altered, NEW d \in Askers, d # c, OnDrive(b, r), OnDrive(ask[d], r)
                 PROVE  ask[d].new # b.new
      OBVIOUS
    <3>1. OnDrive(ask[c], r)
      BY <1>2, <1>3, <1>7, <1>15 DEF OnDrive, InProvider
    <3> QED BY <1>2, <1>12, <3>1 DEF BackendsInv, PlacesApart
  <2> QED BY <1>4, <1>12, <1>13, <2>1, ApartStays
<1>19. ASSUME NEW d \in Askers, NEW e \in AskTypes, d # c, e = ask[d], e.pc \in InProvider,
              Provider(e) = s, s \notin altered
       PROVE  PlaceInv(e)'
  <2>1. RequestInv(e) /\ PlaceInv(e)
    BY <1>19 DEF BackendsInv
  <2>2. CASE kind[s] = "drive"
    <3>1. OnDrive(ask[c], s) /\ OnDrive(ask[d], s)
      BY <1>2, <1>3, <1>7, <1>19, <2>2 DEF OnDrive, InProvider
    <3>2. e.new # l /\ e.new \in Locators
      BY <1>2, <1>7, <1>9, <1>19, <2>1, <2>2, <3>1 DEF BackendsInv, PlacesApart, RequestInv, Provider
    <3> QED BY <1>6, <1>11, <1>19, <2>1, <2>2, <3>2 DEF PlaceInv, Provider, Place, Holds
  <2>3. CASE kind[s] = "path"
    <3>1. e.o \in Objects /\ e.o \in Locators
      BY ObjectFacts DEF AskTypes
    <3>2. e.o = l => Holds(s, e.o, files[s][e.o])'
      BY <1>6, <1>8, <1>9, <1>11, <1>19, <2>3 DEF Holds
    <3>3. e.o # l /\ e.pc = "remember" => Holds(s, e.o, files[s][e.o])'
      BY <1>6, <1>11, <1>19, <2>1, <2>3, <3>1 DEF PlaceInv, Provider, Place, Holds
    <3>4. Place(e)' = e.o /\ Provider(e)' = s /\ kind'[s] = "path"
      BY <1>6, <1>19, <2>3 DEF Place, Provider
    <3> QED BY <3>2, <3>3, <3>4 DEF PlaceInv, Holds
  <2> QED BY <1>7, <2>2, <2>3
<1>20. ASSUME s \notin altered PROVE StoreInv(s)'
  <2>1. StoreInv(s) /\ \A o \in Objects : index[s][o] \in {0} \cup Locators
    BY <1>1, <1>7, <1>20 DEF BackendsInv, BackendsTypeOK
  <2>2. ASSUME NEW o \in Objects, index[s][o] # 0 PROVE Holds(s, o, files[s][index[s][o]])'
    <3>1. Holds(s, o, files[s][index[s][o]]) /\ index[s][o] \in Locators
      BY <1>7, <2>1, <2>2 DEF StoreInv
    <3>2. CASE index[s][o] # l
      BY <1>6, <1>11, <3>1, <3>2 DEF Holds
    <3>3. CASE index[s][o] = l
      <4>1. kind[s] = "path" /\ index[s][o] = o /\ o = a.o
        BY <1>7, <1>9, <1>16, <1>20, <2>1, <2>2, <3>3 DEF StoreInv
      <4> QED BY <1>6, <1>11, <1>16, <1>20, <3>3, <4>1 DEF Holds
    <3> QED BY <3>2, <3>3
  <2> QED BY <1>6, <1>7, <2>1, <2>2 DEF StoreInv
<1>21. index' \in [Stores -> [Objects -> {0} \cup Locators]] /\ acked' \in [Stores -> SUBSET Objects]
  BY <1>1, <1>6 DEF BackendsTypeOK
<1>22. OnlyAt(s) /\ OthersKeep(c, s)
  BY <1>6, <1>7, <1>11, <1>19, <1>21 DEF OnlyAt, OthersKeep
<1> QED BY <1>7, <1>12, <1>13, <1>14, <1>17, <1>18, <1>20, <1>22, ProviderStep

LEMMA RecordLocationStep ==
  ASSUME BackendsInv, NEW c \in Askers, RecordLocation(c)
  PROVE  BackendsInv'
<1>1. BackendsTypeOK
  BY DEF BackendsInv
<1>2. PICK a \in AskTypes : a = ask[c]
  BY <1>1 DEF BackendsTypeOK
<1>3. RequestInv(a) /\ PlaceInv(a) /\ a.pc = "remember"
  BY <1>2 DEF BackendsInv, RecordLocation
<1>4. Later
  BY <1>1, SameIsLater DEF RecordLocation, Outside
<1>5. RequestInv(a)'
  BY <1>1, <1>3, <1>4, RequestStays
<1>6. UNCHANGED <<kind, sealing, altered, files, key, linked, minted>>
  BY DEF RecordLocation, Outside
<1>7. PICK s \in Stores : s = Provider(a) /\ s # Local /\ a.o \in Objects /\ kind[s] \in {"path", "drive"}
  BY <1>1, <1>3, PutFacts DEF Putting, RequestInv, Provider, InProvider
<1>8. PICK l \in Locators : l = Place(a) /\ (kind[s] = "drive" => l = a.new) /\ (kind[s] = "path" => l = a.o)
  BY <1>3, <1>7, ObjectFacts DEF Place, RequestInv, InProvider, Provider
<1>9. l # 0
  BY <1>8 DEF Locators
<1>10. PICK b \in AskTypes : b = Onward(a) /\ RequestInv(b)' /\ b.pc \notin InProvider
  BY <1>3, <1>5, OnwardIsFine DEF Putting
<1>11. /\ acked' \in [Stores -> SUBSET Objects] /\ acked'[s] = acked[s] \cup {a.o}
       /\ \A r \in Stores : r # s => acked'[r] = acked[r]
  BY <1>1, <1>2, <1>7, AckedFacts DEF RecordLocation
<1>12. ask' = [ask EXCEPT ![c] = b]
  BY <1>2, <1>10 DEF RecordLocation, Be
<1>13. /\ index' \in [Stores -> [Objects -> {0} \cup Locators]] /\ index'[s][a.o] = l
       /\ \A o \in Objects : o # a.o => index'[s][o] = index[s][o]
       /\ \A r \in Stores : r # s => index'[r] = index[r]
  <2>1. PICK g \in [Objects -> {0} \cup Locators] : g = index[s]
    BY <1>1, <1>7 DEF BackendsTypeOK
  <2>2. PICK h \in [Objects -> {0} \cup Locators] : h = [g EXCEPT ![a.o] = l]
    BY <1>8
  <2>3. index' = [index EXCEPT ![s] = h]
    BY <1>2, <1>7, <1>8, <2>1, <2>2 DEF RecordLocation, Target, Locator, Place, Provider
  <2> QED BY <1>1, <1>7, <2>1, <2>2, <2>3 DEF BackendsTypeOK
<1>14. PlaceInv(b)' /\ PlacesApart'
  BY <1>4, <1>10, <1>12, ApartStays DEF PlaceInv, OnDrive
<1>15. ASSUME NEW d \in Askers, NEW e \in AskTypes, d # c, e = ask[d], e.pc \in InProvider,
              Provider(e) = s, s \notin altered
       PROVE  PlaceInv(e)'
  <2>1. RequestInv(e) /\ PlaceInv(e)
    BY <1>15 DEF BackendsInv
  <2>2. CASE kind[s] = "drive"
    <3>1. OnDrive(ask[c], s) /\ OnDrive(ask[d], s)
      BY <1>2, <1>3, <1>7, <1>15, <2>2 DEF OnDrive, InProvider
    <3>2. e.new # l
      BY <1>2, <1>7, <1>8, <1>15, <2>2, <3>1 DEF BackendsInv, PlacesApart
    <3>3. \A o \in Objects : index'[s][o] # e.new
      BY <1>13, <1>15, <2>1, <2>2, <3>2 DEF PlaceInv
    <3> QED BY <1>6, <1>15, <2>1, <2>2, <3>3 DEF PlaceInv, Provider, Place, Holds
  <2>3. CASE kind[s] = "path"
    BY <1>6, <1>15, <2>1, <2>3 DEF PlaceInv, Provider, Place, Holds
  <2> QED BY <1>7, <2>2, <2>3
<1>16. ASSUME s \notin altered PROVE StoreInv(s)'
  <2>1. StoreInv(s) /\ Holds(s, a.o, files[s][l])
    BY <1>3, <1>7, <1>8, <1>16 DEF BackendsInv, PlaceInv, InProvider
  <2>2. ASSUME NEW o \in Objects, index'[s][o] # 0 PROVE Holds(s, o, files[s][index[s][o]])'
    <3>1. CASE o = a.o
      BY <1>6, <1>13, <2>1, <3>1 DEF Holds
    <3>2. CASE o # a.o
      BY <1>6, <1>7, <1>13, <2>1, <2>2, <3>2 DEF StoreInv, Holds
    <3> QED BY <3>1, <3>2
  <2>3. ASSUME NEW o \in Objects, o \in acked'[s] PROVE index'[s][o] # 0
    BY <1>7, <1>9, <1>11, <1>13, <2>1, <2>3 DEF StoreInv
  <2>4. ASSUME NEW o \in Objects, kind[s] = "path" PROVE index'[s][o] \in {0, o}
    BY <1>8, <1>13, <2>1, <2>4 DEF StoreInv
  <2> QED BY <1>6, <1>7, <2>2, <2>3, <2>4 DEF StoreInv
<1>17. files' \in [Everywhere -> [Locators -> AnyContent]] /\ \A r \in Everywhere : files'[r] = files[r]
  BY <1>1, <1>6 DEF BackendsTypeOK
<1>18. OnlyAt(s) /\ OthersKeep(c, s)
  BY <1>6, <1>7, <1>11, <1>13, <1>15, <1>17 DEF OnlyAt, OthersKeep
<1> QED BY <1>7, <1>10, <1>12, <1>14, <1>16, <1>18, ProviderStep

LEMMA BackendsStart == BackendsInit => BackendsInv
<1> SUFFICES ASSUME BackendsInit PROVE BackendsInv
  OBVIOUS
<1>1. PICK held \in [Objects -> {"none", "good", "junk"}] :
        files = [s \in Stores \cup {Local} |-> [l \in Locators |->
                  IF s = Local /\ l \in Objects
                    THEN CASE held[l] = "good" -> Plain(l)
                           [] held[l] = "junk" -> Junk
                           [] OTHER -> Nothing
                    ELSE Nothing]]
  BY DEF BackendsInit
<1> DEFINE Kept(l) == CASE held[l] = "good" -> Plain(l) [] held[l] = "junk" -> Junk [] OTHER -> Nothing
<1>2. \A l \in Objects : Kept(l) \in {Nothing, Junk, Plain(l)} /\ Kept(l) \in AnyContent
  <2> TAKE l \in Objects
  <2>1. CASE held[l] = "good"
    BY <2>1, ContentFacts
  <2>2. CASE held[l] = "junk"
    BY <2>2, ContentFacts
  <2>3. CASE held[l] # "good" /\ held[l] # "junk"
    BY <2>3, ContentFacts
  <2> QED BY <2>1, <2>2, <2>3
<1>3. files = [s \in Everywhere |-> [l \in Locators |->
                 IF s = Local /\ l \in Objects THEN Kept(l) ELSE Nothing]]
  BY <1>1 DEF Everywhere
<1> HIDE DEF Kept
<1>4. files \in [Everywhere -> [Locators -> AnyContent]]
  BY <1>2, <1>3, ContentFacts
<1>5. \A o \in Objects : files[Local][o] \in {Nothing, Junk, Plain(o)}
  BY <1>2, <1>3, ObjectFacts DEF Everywhere
<1>6. /\ kind \in [Stores -> Kinds] /\ sealing \in [Stores -> BOOLEAN] /\ linked = Stores
      /\ index = [s \in Stores |-> [o \in Objects |-> 0]] /\ key = 0 /\ minted = 0
      /\ ask = [c \in Askers |-> IdleAsk] /\ acked = [s \in Stores |-> {}] /\ altered = {}
  BY DEF BackendsInit
<1>7. BackendsTypeOK
  BY <1>4, <1>6, IdleIsFine DEF BackendsTypeOK
<1>8. RequestInv(IdleAsk)
  <2>1. /\ IdleAsk = [op |-> "idle", pc |-> "idle", todo |-> <<>>, built |-> <<>>, o |-> 1, at |-> 1,
                      bytes |-> Nothing, new |-> 0, due |-> {}]
    BY DEF IdleAsk, NewAsk
  <2>2. <<>> \in Seq(ToMake) /\ <<>> \in Seq(Connected)
    BY EmptySeq
  <2> QED BY <2>1, <2>2 DEF RequestInv, Connecting, Putting, InProvider
<1>9. \A c \in Askers : RequestInv(ask[c]) /\ PlaceInv(ask[c]) /\ ask[c].pc \notin InProvider
  BY <1>6, <1>8, IdleIsFine DEF PlaceInv, InProvider
<1>10. PlacesApart
  BY <1>9 DEF PlacesApart, OnDrive
<1>11. \A s \in Stores \ altered : StoreInv(s)
  BY <1>6 DEF StoreInv
<1>12. LocalInv
  BY <1>5, <1>6 DEF LocalInv
<1> QED BY <1>7, <1>9, <1>10, <1>11, <1>12 DEF BackendsInv

LEMMA BackendsStays == BackendsInv /\ [BackendsNext]_backendVars => BackendsInv'
<1> SUFFICES ASSUME BackendsInv, [BackendsNext]_backendVars PROVE BackendsInv'
  OBVIOUS
<1>1. CASE UNCHANGED backendVars
  <2>1. BackendsTypeOK /\ Later
    BY <1>1, SameIsLater DEF BackendsInv, backendVars
  <2> QED BY <1>1, <2>1, OutsideStep DEF backendVars, BackendsTypeOK, Everywhere
<1>2. CASE \E s \in Stores : Unlink(s) \/ SwitchEncryption(s) \/ Tamper(s)
  BY <1>2, OutsideSteps
<1>3. ASSUME NEW c \in Askers, BackendsStep(c) PROVE BackendsInv'
  BY <1>3, BeginSteps, BackendFromConfigStep, SelectKeyStep, StoreKeyStep, RereadKeyStep,
     HasObjectStep, GetObjectStep, PutDirectStep, IndexedLocatorStep, CreateFileStep,
     UploadingStep, RecordLocationStep, AbandonStep DEF BackendsStep
<1> QED BY <1>1, <1>2, <1>3 DEF BackendsNext

\* Whoever holds the bytes of an object yields them.
LEMMA HeldIsYielded ==
  ASSUME BackendsTypeOK, NEW s \in Everywhere, NEW o \in Objects,
         Located(s, o) # 0, FetchUnverified(s, o) = [of |-> o, key |-> IF s # Local /\ sealing[s] THEN key ELSE 0]
  PROVE  Yields(s, o)
<1>1. PICK k \in Nat : k = IF s # Local /\ sealing[s] THEN key ELSE 0
  BY DEF BackendsTypeOK
<1>2. PICK b : b = FetchUnverified(s, o)
  OBVIOUS
<1>3. b = [of |-> o, key |-> k]
  BY <1>1, <1>2
<1>4. Decrypt(b, k) = [b EXCEPT !.key = 0]
  BY <1>3 DEF Decrypt
<1>5. Decrypt(b, k) # Nothing /\ Decrypt(b, k).of = o
  BY <1>3, <1>4, ObjectFacts DEF Nothing
<1> QED BY <1>1, <1>2, <1>5 DEF Yields

LEMMA InvIsReadable == BackendsInv => StoredIsReadable
<1> SUFFICES ASSUME BackendsInv, NEW s \in Stores, \A r \in altered : Root(r) # Root(s),
                    NEW o \in acked[s]
             PROVE  \/ \E r \in Everywhere : Yields(r, o)
                    \/ kind[s] = "local-fs" /\ files[Local][o] = Junk
  BY DEF StoredIsReadable, Everywhere
<1>1. BackendsTypeOK /\ o \in Objects /\ s # Local /\ s \in Everywhere /\ Local \in Everywhere
  BY BackendsAssumption DEF BackendsInv, BackendsTypeOK, Everywhere
<1>2. s \notin altered /\ altered \subseteq Stores /\ Local \notin altered
  BY <1>1, BackendsAssumption DEF BackendsTypeOK
<1>3. StoreInv(s)
  BY <1>2 DEF BackendsInv
<1>4. CASE kind[s] = "local-fs"
  <2>1. \A r \in altered : kind[r] # "local-fs"
    BY <1>4 DEF Root
  <2>2. files[Local][o] # Nothing
    BY <1>4, <2>1 DEF BackendsInv, LocalInv
  <2>3. \/ files[Local][o] \in {Junk, Plain(o)}
        \/ /\ key # 0 /\ files[Local][o] = [of |-> o, key |-> key]
           /\ \E r \in Stores : kind[r] = "local-fs" /\ sealing[r]
    BY <1>1, <2>1, <2>2 DEF BackendsInv, LocalInv
  <2>4. CASE files[Local][o] = Plain(o)
    <3>1. Located(Local, o) = o /\ FetchUnverified(Local, o) = files[Local][o] /\ o # 0
      BY <1>1, BackendsAssumption, ObjectFacts DEF Located, FetchUnverified, Root, Proxied
    <3> QED BY <1>1, <2>4, <3>1, HeldIsYielded DEF Plain
  <2>5. ASSUME NEW r \in Stores, kind[r] = "local-fs", sealing[r], key # 0,
               files[Local][o] = [of |-> o, key |-> key]
        PROVE  Yields(r, o)
    <3>1. Located(r, o) = o /\ FetchUnverified(r, o) = files[Local][o] /\ o # 0 /\ r # Local
      BY <1>1, <2>5, BackendsAssumption, ObjectFacts DEF Located, FetchUnverified, Root, Proxied
    <3> QED BY <1>1, <2>5, <3>1, HeldIsYielded DEF Everywhere
  <2> QED BY <1>1, <1>4, <2>3, <2>4, <2>5 DEF Everywhere
<1>5. CASE kind[s] = "bucket"
  <2>1. Located(s, o) = o /\ FetchUnverified(s, o) = files[s][o] /\ o # 0
    BY <1>1, <1>5, ObjectFacts DEF Located, FetchUnverified, Root, Proxied
  <2>2. Holds(s, o, files[s][o])
    BY <1>3, <1>5 DEF StoreInv
  <2> QED BY <1>1, <2>1, <2>2, HeldIsYielded DEF Holds
<1>6. CASE kind[s] \in {"path", "drive"}
  <2>1. index[s][o] # 0 /\ Holds(s, o, files[s][index[s][o]])
    BY <1>1, <1>3, <1>6 DEF StoreInv
  <2>2. Located(s, o) = index[s][o] /\ FetchUnverified(s, o) = files[s][index[s][o]]
    BY <1>1, <1>6, <2>1 DEF Located, FetchUnverified, Root, Proxied
  <2> QED BY <1>1, <2>1, <2>2, HeldIsYielded DEF Holds
<1> QED BY <1>1, <1>4, <1>5, <1>6 DEF BackendsTypeOK, Kinds

(***************************************************************************)
(* An object whose put was acknowledged can be read afterwards, for any    *)
(* stores of any kinds, objects and requests, however requests race for    *)
(* the first key or stop between two statements.                           *)
(***************************************************************************)
THEOREM AcknowledgedIsReadable == BackendsInit /\ [][BackendsNext]_backendVars => []StoredIsReadable
<1>1. BackendsInit => BackendsInv
  BY BackendsStart
<1>2. BackendsInv /\ [BackendsNext]_backendVars => BackendsInv'
  BY BackendsStays
<1>3. BackendsInv => StoredIsReadable
  BY InvIsReadable
<1> QED BY <1>1, <1>2, <1>3, PTL
=============================================================================
