-------------------------- MODULE ProposalsProofs --------------------------
(***************************************************************************)
(* Theorems about Proposals and about Database, for any handlers, targets, *)
(* proposals, servers, requests and rows, checked by TLAPS.                *)
(***************************************************************************)
EXTENDS Proposals, Database, SequenceTheorems, TLAPS

(* The boot of lifeos-api and its search index. *)

\* A boot that is past a statement has what the statement makes.
BootInv(s) ==
  /\ boot[s] \in {"seed", "insert_ws", "user", "insert_user", "insert_member", "wipe", "fill",
                  "bind", "serving"} => column
  /\ boot[s] \in {"user", "insert_user", "insert_member", "wipe", "fill", "bind", "serving"} =>
       "workspace" \in seeded
  /\ boot[s] \in {"insert_member", "wipe", "fill", "bind", "serving"} => "user" \in seeded

\* Who seeded the user seeds the membership, or died before it.
MemberInv ==
  "user" \in seeded =>
    "membership" \in seeded \/ halfSeeded \/ \E s \in Servers : boot[s] = "insert_member"

\* Search is current, but where a writer or a boot has still to say so; a request has a
\* row from its write of it to its end.
IndexInv ==
  /\ \A w \in Writers : write[w].pc = "none" <=> Written(w) = 0
  /\ \A r \in Rows :
       idx[r] = main[r] \/ unbuilt \/ r \in behind \/ \E w \in Writers : Written(w) = r

DatabaseInv ==
  /\ DatabaseTypeOK
  /\ \A s \in Servers : BootInv(s)
  /\ MemberInv /\ IndexInv

LEMMA DatabaseInitInv == DatabaseInit => DatabaseInv
<1> SUFFICES ASSUME DatabaseInit PROVE DatabaseInv
  OBVIOUS
<1>1. DatabaseTypeOK
  <2>1. 0 \in 0..MaxWrites /\ 0 \in 0..MaxKills /\ 0 \in 0..MaxSlips
    BY DatabaseAssumption
  <2>2. main \in [Rows -> 0..MaxWrites] /\ idx \in [Rows -> 0..MaxWrites]
    BY <2>1 DEF DatabaseInit
  <2>3. boot \in [Servers -> Phases]
    BY DEF DatabaseInit, Phases
  <2>4. write \in [Writers -> [pc : {"none", "event", "index"}, row : Rows \cup {0},
                              version : 0..MaxWrites]]
    BY <2>1 DEF DatabaseInit, NoWrite
  <2>5. column \in BOOLEAN /\ seeded \subseteq {"workspace", "user", "membership"}
    BY DEF DatabaseInit
  <2> QED BY <2>1, <2>2, <2>3, <2>4, <2>5 DEF DatabaseInit, DatabaseTypeOK
<1>2. (\A s \in Servers : BootInv(s)) /\ MemberInv /\ IndexInv
  BY DEF DatabaseInit, BootInv, MemberInv, IndexInv, Written, NoWrite
<1> QED BY <1>1, <1>2 DEF DatabaseInv

\* A boot statement moves its process only; seeded rows and columns stay.
LEMMA BootMoves ==
  ASSUME DatabaseInv, NEW s \in Servers, NEW to \in Phases, boot' = [boot EXCEPT ![s] = to],
         column => column', seeded \subseteq seeded', DatabaseTypeOK', IndexInv',
         BootInv(s)', MemberInv'
  PROVE  DatabaseInv'
<1>1. \A q \in Servers \ {s} : boot'[q] = boot[q]
  BY DEF DatabaseInv, DatabaseTypeOK
<1>2. \A q \in Servers \ {s} : BootInv(q)'
  BY <1>1 DEF DatabaseInv, BootInv
<1> QED BY <1>2 DEF DatabaseInv

\* A boot statement that leaves the rows and the index alone.
LEMMA SchemaMoves ==
  ASSUME DatabaseInv, NEW s \in Servers, NEW to \in Phases, boot' = [boot EXCEPT ![s] = to],
         UNCHANGED <<main, idx, write, bootHistory, kills, slips>>,
         column' \in BOOLEAN, column => column',
         seeded \subseteq seeded', seeded' \subseteq {"workspace", "user", "membership"},
         BootInv(s)', MemberInv'
  PROVE  DatabaseInv'
<1>1. DatabaseTypeOK'
  BY DEF DatabaseInv, DatabaseTypeOK, bootHistory
<1>2. IndexInv'
  BY DEF DatabaseInv, IndexInv, Written, bootHistory
<1> QED BY <1>1, <1>2, BootMoves

LEMMA BootStepInv ==
  ASSUME DatabaseInv, NEW s \in Servers, BootStep(s)
  PROVE  DatabaseInv'
<1> DEFINE Same == UNCHANGED <<main, idx, write, bootHistory, kills, slips>>
<1>a. /\ boot \in [Servers -> Phases] /\ boot[s] \in Phases
      /\ column \in BOOLEAN /\ seeded \subseteq {"workspace", "user", "membership"}
      /\ BootInv(s) /\ MemberInv
  BY DEF DatabaseInv, DatabaseTypeOK
<1>1. CASE OpenDatabase(s)
  <2>1. /\ boot' = [boot EXCEPT ![s] = "columns"] /\ boot[s] = "down"
        /\ UNCHANGED <<column, seeded>> /\ Same
    BY <1>1 DEF OpenDatabase, Advance, dataVars
  <2>2. BootInv(s)' /\ MemberInv'
    BY <1>a, <2>1 DEF BootInv, MemberInv, bootHistory
  <2> QED BY <1>a, <2>1, <2>2, SchemaMoves DEF Phases
<1>2. CASE LookForColumn(s)
  <2>1. PICK to \in {"seed", "alter"} :
          boot' = [boot EXCEPT ![s] = to] /\ (to = "seed" => column)
    BY <1>2 DEF LookForColumn, Advance
  <2>2. boot[s] = "columns" /\ UNCHANGED <<column, seeded>> /\ Same
    BY <1>2 DEF LookForColumn, Advance, dataVars
  <2>3. BootInv(s)' /\ MemberInv'
    BY <1>a, <2>1, <2>2 DEF BootInv, MemberInv, bootHistory
  <2> QED BY <1>a, <2>1, <2>2, <2>3, SchemaMoves DEF Phases
<1>3. CASE AddColumn(s)
  <2>1. PICK to \in {"down", "seed"} : boot' = [boot EXCEPT ![s] = to]
    BY <1>3 DEF AddColumn, Advance
  <2>2. boot[s] = "alter" /\ column' = TRUE /\ UNCHANGED seeded /\ Same
    BY <1>3 DEF AddColumn, Advance
  <2>3. BootInv(s)' /\ MemberInv'
    BY <1>a, <2>1, <2>2 DEF BootInv, MemberInv, bootHistory
  <2> QED BY <1>a, <2>1, <2>2, <2>3, SchemaMoves DEF Phases
<1>4. CASE LookForWorkspace(s)
  <2>1. PICK to \in {"user", "insert_ws"} :
          boot' = [boot EXCEPT ![s] = to] /\ (to = "user" => "workspace" \in seeded)
    BY <1>4 DEF LookForWorkspace, Advance
  <2>2. boot[s] = "seed" /\ UNCHANGED <<column, seeded>> /\ Same
    BY <1>4 DEF LookForWorkspace, Advance, dataVars
  <2>3. BootInv(s)' /\ MemberInv'
    BY <1>a, <2>1, <2>2 DEF BootInv, MemberInv, bootHistory
  <2> QED BY <1>a, <2>1, <2>2, <2>3, SchemaMoves DEF Phases
<1>5. CASE InsertWorkspace(s)
  <2>1. PICK to \in {"down", "user"} : boot' = [boot EXCEPT ![s] = to]
    BY <1>5 DEF InsertWorkspace, InsertSeed, Advance
  <2>2. boot[s] = "insert_ws" /\ UNCHANGED column /\ seeded' = seeded \cup {"workspace"} /\ Same
    BY <1>5 DEF InsertWorkspace, InsertSeed, Advance
  <2>3. BootInv(s)' /\ MemberInv'
    BY <1>a, <2>1, <2>2 DEF BootInv, MemberInv, bootHistory
  <2> QED BY <1>a, <2>1, <2>2, <2>3, SchemaMoves DEF Phases
<1>6. CASE LookForUser(s)
  <2>1. PICK to \in {"wipe", "insert_user"} :
          boot' = [boot EXCEPT ![s] = to] /\ (to = "wipe" => "user" \in seeded)
    BY <1>6 DEF LookForUser, Advance
  <2>2. boot[s] = "user" /\ UNCHANGED <<column, seeded>> /\ Same
    BY <1>6 DEF LookForUser, Advance, dataVars
  <2>3. BootInv(s)' /\ MemberInv'
    BY <1>a, <2>1, <2>2 DEF BootInv, MemberInv, bootHistory
  <2> QED BY <1>a, <2>1, <2>2, <2>3, SchemaMoves DEF Phases
<1>7. CASE InsertUser(s)
  <2>1. PICK to \in {"down", "insert_member"} :
          boot' = [boot EXCEPT ![s] = to] /\ (to = "down" <=> "user" \in seeded)
    BY <1>7 DEF InsertUser, InsertSeed, Advance
  <2>2. boot[s] = "insert_user" /\ UNCHANGED column /\ seeded' = seeded \cup {"user"} /\ Same
    BY <1>7 DEF InsertUser, InsertSeed, Advance
  <2>3. BootInv(s)'
    BY <1>a, <2>1, <2>2 DEF BootInv
  <2>4. MemberInv'
    BY <1>a, <2>1, <2>2 DEF MemberInv, bootHistory
  <2> QED BY <1>a, <2>1, <2>2, <2>3, <2>4, SchemaMoves DEF Phases
<1>8. CASE InsertMembership(s)
  <2>1. PICK to \in {"down", "wipe"} : boot' = [boot EXCEPT ![s] = to]
    BY <1>8 DEF InsertMembership, InsertSeed, Advance
  <2>2. /\ boot[s] = "insert_member" /\ UNCHANGED column
        /\ seeded' = seeded \cup {"membership"} /\ Same
    BY <1>8 DEF InsertMembership, InsertSeed, Advance
  <2>3. BootInv(s)' /\ MemberInv'
    BY <1>a, <2>1, <2>2 DEF BootInv, MemberInv, bootHistory
  <2> QED BY <1>a, <2>1, <2>2, <2>3, SchemaMoves DEF Phases
<1>9. CASE WipeIndex(s)
  <2>1. /\ boot' = [boot EXCEPT ![s] = "fill"] /\ boot[s] = "wipe"
        /\ idx' = [r \in Rows |-> 0] /\ unbuilt' = TRUE
        /\ UNCHANGED <<column, seeded, main, write, behind, halfSeeded, kills, slips>>
    BY <1>9 DEF WipeIndex, Advance
  <2>2. BootInv(s)' /\ MemberInv' /\ IndexInv'
    BY <1>a, <2>1 DEF DatabaseInv, BootInv, MemberInv, IndexInv, Written
  <2>3. 0 \in 0..MaxWrites /\ DatabaseTypeOK
    BY DatabaseAssumption DEF DatabaseInv
  <2>4. DatabaseTypeOK'
    BY <2>1, <2>3 DEF DatabaseTypeOK, Phases
  <2> QED BY <1>a, <2>1, <2>2, <2>4, BootMoves DEF Phases
<1>10. CASE FillIndex(s)
  <2>1. /\ boot' = [boot EXCEPT ![s] = "bind"] /\ boot[s] = "fill"
        /\ (idx' = main /\ unbuilt' = FALSE /\ behind' = {}) \/ UNCHANGED <<idx, unbuilt, behind>>
        /\ UNCHANGED <<column, seeded, main, write, halfSeeded, kills, slips>>
    BY <1>10 DEF FillIndex, Advance
  <2>2. BootInv(s)' /\ MemberInv'
    BY <1>a, <2>1 DEF BootInv, MemberInv
  <2>3. IndexInv'
    BY <2>1 DEF DatabaseInv, IndexInv, Written
  <2>4. DatabaseTypeOK'
    BY <2>1 DEF DatabaseInv, DatabaseTypeOK, Phases
  <2> QED BY <1>a, <2>1, <2>2, <2>3, <2>4, BootMoves DEF Phases
<1>11. CASE Bind(s)
  <2>1. PICK to \in {"serving", "down"} : boot' = [boot EXCEPT ![s] = to]
    BY <1>11 DEF Bind, Advance
  <2>2. boot[s] = "bind" /\ UNCHANGED <<column, seeded>> /\ Same
    BY <1>11 DEF Bind, Advance, dataVars
  <2>3. BootInv(s)' /\ MemberInv'
    BY <1>a, <2>1, <2>2 DEF BootInv, MemberInv, bootHistory
  <2> QED BY <1>a, <2>1, <2>2, <2>3, SchemaMoves DEF Phases
<1> QED BY <1>1, <1>2, <1>3, <1>4, <1>5, <1>6, <1>7, <1>8, <1>9, <1>10, <1>11 DEF BootStep

\* A process that dies leaves the user without a membership only as `halfSeeded` says, and
\* takes the requests it serves along, whose rows stay behind.
LEMMA KillInv ==
  ASSUME DatabaseInv, NEW s \in Servers, Kill(s)
  PROVE  DatabaseInv'
<1>1. /\ boot' = [boot EXCEPT ![s] = "down"] /\ kills < MaxKills /\ kills' = kills + 1
      /\ (halfSeeded' <=> halfSeeded \/ boot[s] = "insert_member") /\ halfSeeded' \in BOOLEAN
      /\ UNCHANGED <<column, seeded, main, idx, unbuilt, slips>>
  BY DEF Kill, dataVars, DatabaseInv, DatabaseTypeOK
<1>2. DatabaseTypeOK /\ BootInv(s) /\ MemberInv /\ IndexInv
  BY DEF DatabaseInv
<1>3. \/ UNCHANGED <<write, behind>>
      \/ /\ write' = [w \in Writers |-> NoWrite]
         /\ behind' = behind \cup ({write[w].row : w \in Writers} \ {0})
  BY DEF Kill
<1>4. BootInv(s)' /\ MemberInv'
  BY <1>1, <1>2 DEF BootInv, MemberInv, DatabaseTypeOK
<1>5. IndexInv'
  <2>1. CASE UNCHANGED <<write, behind>>
    BY <1>1, <1>2, <2>1 DEF IndexInv, Written
  <2>2. CASE write' = [w \in Writers |-> NoWrite]
             /\ behind' = behind \cup ({write[w].row : w \in Writers} \ {0})
    <3> SUFFICES ASSUME NEW r \in Rows, idx[r] # main[r], ~unbuilt, r \notin behind PROVE r \in behind'
      BY <1>1, <2>2 DEF IndexInv, Written, NoWrite
    <3>1. PICK w \in Writers : write[w].row = r
      BY <1>2 DEF IndexInv, Written
    <3> QED BY <3>1, <2>2, DatabaseAssumption
  <2> QED BY <1>3, <2>1, <2>2
<1>6. DatabaseTypeOK'
  <2>1. kills' \in 0..MaxKills
    BY <1>1, <1>2, DatabaseAssumption DEF DatabaseTypeOK
  <2>2. /\ write' \in [Writers -> [pc : {"none", "event", "index"}, row : Rows \cup {0},
                                   version : 0..MaxWrites]]
        /\ behind' \subseteq Rows
    <3>1. NoWrite \in [pc : {"none", "event", "index"}, row : Rows \cup {0}, version : 0..MaxWrites]
      BY DatabaseAssumption DEF NoWrite
    <3>2. \A w \in Writers : write[w].row \in Rows \cup {0}
      BY <1>2 DEF DatabaseTypeOK
    <3> QED BY <1>2, <1>3, <3>1, <3>2 DEF DatabaseTypeOK
  <2> QED BY <1>1, <1>2, <2>1, <2>2 DEF DatabaseTypeOK, Phases
<1> QED BY <1>1, <1>4, <1>5, <1>6, BootMoves DEF Phases

\* A request that ends, or goes on, leaves every other's row as it is.
LEMMA WriteInvs ==
  ASSUME DatabaseInv, NEW w \in Writers,
         (\E r \in Rows : WriteRow(w, r)) \/ EmitRow(w) \/ IndexEntity(w)
  PROVE  DatabaseInv'
<1> DEFINE WriteSet == [pc : {"none", "event", "index"}, row : Rows \cup {0}, version : 0..MaxWrites]
<1>1. DatabaseTypeOK /\ IndexInv /\ write \in [Writers -> WriteSet] /\ write[w] \in WriteSet
  BY DEF DatabaseInv, DatabaseTypeOK
<1>2. NoWrite \in WriteSet /\ 0 \in 0..MaxWrites
  BY DatabaseAssumption DEF NoWrite
<1>3. UNCHANGED <<column, seeded, boot, unbuilt, halfSeeded, kills>>
  BY DEF WriteRow, EmitRow, IndexEntity, dataVars, bootHistory
<1>4. (\A s \in Servers : BootInv(s)') /\ MemberInv'
  BY <1>3 DEF DatabaseInv, BootInv, MemberInv
<1>5. ASSUME slips < MaxSlips, slips' = slips + 1 PROVE slips' \in 0..MaxSlips
  BY <1>1, <1>5, DatabaseAssumption DEF DatabaseTypeOK
<1>6. CASE \E r \in Rows : WriteRow(w, r)
  <2>1. PICK r \in Rows : WriteRow(w, r)
    BY <1>6
  <2>2. /\ write[w].pc = "none" /\ main[r] < MaxWrites /\ main' = [main EXCEPT ![r] = main[r] + 1]
        /\ write' = [write EXCEPT ![w] = [pc |-> "event", row |-> r, version |-> main'[r]]]
        /\ UNCHANGED <<idx, behind, slips>>
    BY <2>1 DEF WriteRow, NewVersion, bootHistory
  <2>3. main' \in [Rows -> 0..MaxWrites] /\ main'[r] \in 0..MaxWrites
    BY <1>1, <2>2, DatabaseAssumption DEF DatabaseTypeOK
  <2>4. write' \in [Writers -> WriteSet]
    BY <1>1, <2>2, <2>3
  <2>5. DatabaseTypeOK'
    BY <1>1, <1>3, <2>2, <2>3, <2>4 DEF DatabaseTypeOK
  <2>6. /\ write'[w].row = r /\ write'[w].pc = "event"
        /\ \A v \in Writers \ {w} : write'[v] = write[v]
        /\ \A q \in Rows \ {r} : main'[q] = main[q]
    BY <1>1, <2>2 DEF DatabaseTypeOK
  <2>7. Written(w) = 0 /\ 0 \notin Rows
    BY <1>1, <2>2, DatabaseAssumption DEF IndexInv
  <2>8. IndexInv'
    BY <1>1, <1>3, <2>2, <2>6, <2>7 DEF IndexInv, Written
  <2> QED BY <1>4, <2>5, <2>8 DEF DatabaseInv
<1>7. CASE EmitRow(w) \/ IndexEntity(w)
  <2>1. Written(w) \in Rows
    BY <1>1, <1>7 DEF EmitRow, IndexEntity, IndexInv, Written
  <2>2. /\ UNCHANGED main
        /\ \/ /\ write' = [write EXCEPT ![w] = [write[w] EXCEPT !.pc = "index"]]
              /\ write[w].pc # "none" /\ UNCHANGED <<idx, behind, slips>>
           \/ /\ Finish(w) /\ behind' = behind \cup {Written(w)}
              /\ slips' \in 0..MaxSlips /\ UNCHANGED idx
           \/ /\ Finish(w) /\ behind' = behind \ {Written(w)}
              /\ idx' = [idx EXCEPT ![Written(w)] = main[Written(w)]] /\ UNCHANGED slips
    <3>1. CASE EmitRow(w)
      BY <1>5, <3>1 DEF EmitRow, dataVars
    <3>2. CASE IndexEntity(w)
      BY <1>5, <3>2 DEF IndexEntity, dataVars
    <3> QED BY <1>7, <3>1, <3>2
  <2>3. CASE /\ write' = [write EXCEPT ![w] = [write[w] EXCEPT !.pc = "index"]]
             /\ write[w].pc # "none" /\ UNCHANGED <<idx, behind, slips>>
    <3>1. /\ write' \in [Writers -> WriteSet] /\ write'[w].row = write[w].row /\ write'[w].pc = "index"
          /\ \A v \in Writers \ {w} : write'[v] = write[v]
      BY <1>1, <2>3
    <3>2. \A v \in Writers : write'[v].row = write[v].row
      BY <3>1
    <3>3. IndexInv'
      BY <1>1, <1>3, <2>2, <2>3, <3>1, <3>2 DEF IndexInv, Written
    <3>4. DatabaseTypeOK'
      BY <1>1, <1>3, <2>2, <2>3, <3>1 DEF DatabaseTypeOK
    <3> QED BY <1>4, <3>3, <3>4 DEF DatabaseInv
  <2>4. CASE /\ Finish(w)
             /\ \/ behind' = behind \cup {Written(w)} /\ slips' \in 0..MaxSlips /\ UNCHANGED idx
                \/ /\ behind' = behind \ {Written(w)}
                   /\ idx' = [idx EXCEPT ![Written(w)] = main[Written(w)]] /\ UNCHANGED slips
    <3>1. /\ write' \in [Writers -> WriteSet] /\ write'[w].row = 0 /\ write'[w].pc = "none"
          /\ \A v \in Writers \ {w} : write'[v] = write[v]
      BY <1>1, <1>2, <2>4 DEF Finish, NoWrite
    <3>2. PICK x \in Rows : x = Written(w)
      BY <2>1
    <3>3. \A q \in Rows \ {x} : idx'[q] = idx[q] /\ (q \in behind => q \in behind') /\ q # Written(w)
      BY <1>1, <2>4, <3>2 DEF DatabaseTypeOK
    <3>4. x \in behind' \/ idx'[x] = main[x]
      BY <1>1, <2>4, <3>2 DEF DatabaseTypeOK
    <3>5. \A q \in Rows : idx'[q] = main[q] \/ unbuilt \/ q \in behind' \/ \E v \in Writers : write'[v].row = q
      BY <1>1, <3>1, <3>3, <3>4 DEF IndexInv, Written
    <3>6. IndexInv'
      BY <1>1, <1>3, <2>2, <3>1, <3>5 DEF IndexInv, Written
    <3>7. /\ idx' \in [Rows -> 0..MaxWrites] /\ behind' \subseteq Rows /\ slips' \in 0..MaxSlips
      BY <1>1, <2>4, <3>2 DEF DatabaseTypeOK
    <3>8. DatabaseTypeOK'
      BY <1>1, <1>3, <2>2, <3>1, <3>7 DEF DatabaseTypeOK
    <3> QED BY <1>4, <3>6, <3>8 DEF DatabaseInv
  <2> QED BY <2>2, <2>3, <2>4
<1> QED BY <1>6, <1>7

LEMMA UnindexedInv ==
  ASSUME DatabaseInv, NEW r \in Rows, WriteUnindexed(r)
  PROVE  DatabaseInv'
<1>1. DatabaseTypeOK /\ IndexInv
  BY DEF DatabaseInv
<1>2. /\ main[r] < MaxWrites /\ main' = [main EXCEPT ![r] = main[r] + 1]
      /\ behind' = behind \cup {r}
      /\ UNCHANGED <<column, seeded, idx, boot, write, unbuilt, halfSeeded, kills, slips>>
  BY DEF WriteUnindexed, NewVersion
<1>3. main' \in [Rows -> 0..MaxWrites]
  BY <1>1, <1>2, DatabaseAssumption DEF DatabaseTypeOK
<1>4. DatabaseTypeOK'
  BY <1>1, <1>2, <1>3 DEF DatabaseTypeOK
<1>5. \A q \in Rows \ {r} : main'[q] = main[q]
  BY <1>1, <1>2 DEF DatabaseTypeOK
<1>6. IndexInv'
  BY <1>1, <1>2, <1>5 DEF IndexInv, Written
<1>7. (\A s \in Servers : BootInv(s)') /\ MemberInv'
  BY <1>2 DEF DatabaseInv, BootInv, MemberInv
<1> QED BY <1>4, <1>6, <1>7 DEF DatabaseInv

\* What any server answers from is migrated, seeded and searchable, however many processes
\* boot, fail or die on the two files, and in whatever order requests write and index their
\* rows (db.rs:122-211).
THEOREM ServedWhole == DatabaseSpec => []ServedIsWhole
<1>1. DatabaseInv /\ [DatabaseNext]_databaseVars => DatabaseInv'
  <2> SUFFICES ASSUME DatabaseInv, [DatabaseNext]_databaseVars PROVE DatabaseInv'
    OBVIOUS
  <2>1. CASE UNCHANGED databaseVars
    BY <2>1 DEF databaseVars, dataVars, bootHistory, DatabaseInv, DatabaseTypeOK, BootInv, MemberInv,
                IndexInv, Written
  <2>2. CASE \E s \in Servers : BootStep(s) \/ Kill(s)
    BY <2>2, BootStepInv, KillInv
  <2>3. CASE \E w \in Writers : (\E r \in Rows : WriteRow(w, r)) \/ EmitRow(w) \/ IndexEntity(w)
    BY <2>3, WriteInvs
  <2>4. CASE \E r \in Rows : WriteUnindexed(r)
    BY <2>4, UnindexedInv
  <2> QED BY <2>1, <2>2, <2>3, <2>4 DEF DatabaseNext
<1>2. DatabaseInv => ServedIsWhole
  BY DEF DatabaseInv, ServedIsWhole, Serving, BootInv, MemberInv, IndexInv
<1> QED BY DatabaseInitInv, <1>1, <1>2, PTL DEF DatabaseSpec
-----------------------------------------------------------------------------
(* Proposals: what a handler in progress knows, which later events keep. *)

\* The first n versions of v were read from the targets, whose logs only grow.
ReadFrom(v, n) == Len(v) = n /\ \A j \in 1..n : v[j] <= Version(Targets[j])
Merging == {"flag", "cause", "apply", "apply_emit", "persist_merged"}

\* A target the merge h has still to look at has moved past the proposal's base.
AheadOf(h) == \E j \in req[h].i..Len(Targets) : Version(Targets[j]) > req[h].copy.vers[j]

HandlerInv(h) ==
  /\ pc[h] = "idle" => req[h] = NoRequest
  /\ pc[h] \in {"emit_put", "write_back"} =>
       req[h].p = Null /\ req[h].t \in Entities /\ req[h].i = 1 /\ Len(req[h].plan) = 1
  /\ pc[h] \notin {"idle", "emit_put", "write_back"} => req[h].p \in Props
  /\ req[h].copy # NoProposal =>
       req[h].copy.status = "open" /\ ReadFrom(req[h].copy.vers, Len(Targets))
  /\ pc[h] \in {"snap_row", "snap_log"} =>
       /\ Creating(h) => ReadFrom(req[h].vers, req[h].i - 1)
       /\ ~Creating(h) => Len(req[h].plan) = req[h].i - 1
       /\ ~Creating(h) /\ req[h].stale => req[h].drift \/ AheadOf(h)
  /\ pc[h] = "insert" => Creating(h) /\ ReadFrom(req[h].vers, Len(Targets))
  /\ pc[h] \in Merging => ~Creating(h) /\ Len(req[h].plan) = Len(Targets)
  /\ pc[h] \in Merging \ {"flag"} => ~req[h].stale
  /\ pc[h] = "persist_rejected" => ~Creating(h)
  /\ pc[h] = "cause" => req[h].i = 1
  /\ pc[h] \in {"apply", "apply_emit"} => \A j \in 1..(req[h].i - 1) : Targets[j] \in Applied(req[h].p)
  /\ pc[h] = "persist_merged" => Applied(req[h].p) = Entities

\* The base versions of a proposal were read from its targets.
BaseInv(p) ==
  props[p].status # "none" => ReadFrom(props[p].vers, Len(Targets))

WholeInv(p) == Applying(p) \/ p \in torn \/ Applied(p) \in {{}, Entities}

\* Where writers of an entity have not met there is one at most, and it knows how the row
\* and the log differ.
RowInv(t) ==
  t \notin clash =>
    /\ \A g, h \in Handlers : Writes(g, t) /\ Writes(h, t) => g = h
    /\ \A h \in Handlers : Writes(h, t) =>
         IF pc[h] = "write_back" THEN req[h].plan[1] = Replayed(t)
         ELSE rows[t].attrs = req[h].plan[req[h].i]
    /\ (\A h \in Handlers : ~Writes(h, t)) => rows[t].attrs = Replayed(t)

\* The status a handler that holds a proposal alone finds it in.
HeldStatus(h) ==
  IF pc[h] = "insert" \/ (pc[h] \in {"snap_row", "snap_log"} /\ Creating(h)) THEN "none"
  ELSE IF pc[h] = "emit_merged" THEN "merged"
  ELSE IF pc[h] = "emit_rejected" THEN "rejected" ELSE "open"

DecisionInv(p) ==
  p \notin overlap =>
    /\ \A g, h \in Holding(p) : g = h
    /\ \A h \in Holding(p) : props[p].status = HeldStatus(h)
    /\ props[p].status = "none" => Applied(p) = {} /\ said[p] = {}
    /\ props[p].status = "open" =>
         /\ "merged" \notin said[p] /\ "rejected" \notin said[p]
         /\ Applied(p) # {} => p \in torn \/ Applying(p)
    /\ props[p].status = "merged" => Applied(p) = Entities /\ "rejected" \notin said[p]
    /\ props[p].status = "rejected" => "merged" \notin said[p] /\ (p \notin torn => Applied(p) = {})

ProposalsInv ==
  /\ TypeOK
  /\ \A h \in Handlers : HandlerInv(h)
  /\ \A p \in Props : BaseInv(p) /\ WholeInv(p) /\ DecisionInv(p)
  /\ \A t \in Entities : RowInv(t)
-----------------------------------------------------------------------------
LEMMA TargetFacts ==
  /\ Len(Targets) \in Nat \ {0} /\ DOMAIN Targets = 1..Len(Targets) /\ 1 \in DOMAIN Targets
  /\ \A i \in DOMAIN Targets : Targets[i] \in Entities
  /\ \A t \in Entities : \E i \in DOMAIN Targets : Targets[i] = t
<1>1. Targets \in Seq(ToSet(Targets)) /\ Targets # <<>>
  BY ProposalsAssumption
<1> QED BY <1>1, EmptySeq DEF Entities, ToSet

LEMMA LogFacts ==
  ASSUME TypeOK, NEW t \in Entities
  PROVE  /\ log[t] \in Seq(Events) /\ Len(log[t]) \in Nat \ {0} /\ Version(t) \in Nat
         /\ Replayed(t) \in SUBSET Marks
<1>1. log[t] \in Seq(Events) /\ log[t] # <<>>
  BY DEF TypeOK
<1>2. Len(log[t]) \in Nat \ {0} /\ log[t][Len(log[t])] \in Events
  BY <1>1, EmptySeq
<1> QED BY <1>1, <1>2 DEF Version, Replayed, Last, Events

\* An event of a merge puts its target among those the proposal is applied to.
LEMMA AppendEvent ==
  ASSUME TypeOK, NEW t \in Entities, NEW e \in Events,
         log' = [log EXCEPT ![t] = Append(log[t], e)]
  PROVE  /\ log' \in [Entities -> Seq(Events)] /\ \A u \in Entities : log'[u] # <<>>
         /\ \A u \in Entities \ {t} : log'[u] = log[u]
         /\ Len(log'[t]) = Len(log[t]) + 1 /\ Replayed(t)' = e.attrs
         /\ \A p \in Props : Applied(p)' = IF e.by = p THEN Applied(p) \union {t} ELSE Applied(p)
<1>1. log \in [Entities -> Seq(Events)] /\ log[t] \in Seq(Events) /\ Len(log[t]) \in Nat
  BY LogFacts DEF TypeOK
<1>2. /\ log' \in [Entities -> Seq(Events)] /\ log'[t] = Append(log[t], e)
      /\ \A u \in Entities \ {t} : log'[u] = log[u]
  BY <1>1
<1>3. /\ Len(log'[t]) = Len(log[t]) + 1 /\ log'[t][Len(log'[t])] = e /\ log'[t] # <<>>
      /\ \A i \in 1..Len(log[t]) : log'[t][i] = log[t][i]
  BY <1>1, <1>2
<1>4. \A u \in Entities : log'[u] # <<>>
  BY <1>2, <1>3 DEF TypeOK
<1>5. Replayed(t)' = e.attrs
  BY <1>3 DEF Replayed, Last
<1>6. ASSUME NEW p \in Props
      PROVE  Applied(p)' = IF e.by = p THEN Applied(p) \union {t} ELSE Applied(p)
  <2>1. DOMAIN log[t] = 1..Len(log[t]) /\ DOMAIN log'[t] = 1..(Len(log[t]) + 1)
    BY <1>1, <1>2, <1>3
  <2>2. (\E i \in DOMAIN log'[t] : log'[t][i].by = p) <=> (e.by = p \/ \E i \in DOMAIN log[t] : log[t][i].by = p)
    BY <1>1, <1>3, <2>1
  <2>3. \A u \in Entities : u \in Applied(p)' <=> u \in Applied(p) \/ (u = t /\ e.by = p)
    BY <1>2, <2>2 DEF Applied
  <2> QED BY <2>3 DEF Applied
<1> QED BY <1>2, <1>3, <1>4, <1>5, <1>6

LogGrows ==
  /\ \A t \in Entities : Len(log'[t]) \in Nat /\ Len(log[t]) <= Len(log'[t])
  /\ \A p \in Props : Applied(p) \subseteq Applied(p)'

\* Only h moves.
Moves(h) == \A g \in Handlers \ {h} : pc'[g] = pc[g] /\ req'[g] = req[g]

LEMMA SameLog ==
  ASSUME TypeOK, log' = log
  PROVE  LogGrows /\ \A p \in Props : Applied(p)' = Applied(p)
BY LogFacts DEF LogGrows, Applied

\* What was read from the logs stays behind them.
LEMMA ReadStays ==
  ASSUME TypeOK, LogGrows, NEW v \in Seq(Nat), NEW n \in 0..Len(Targets), ReadFrom(v, n)
  PROVE  /\ Len(v) = n
         /\ \A j \in 1..n : v[j] <= Len(log'[Targets[j]])
<1>1. \A j \in 1..n : /\ Targets[j] \in Entities /\ v[j] \in Nat
                      /\ v[j] <= Len(log[Targets[j]]) /\ Len(log[Targets[j]]) \in Nat
  BY TargetFacts, LogFacts DEF ReadFrom, Version
<1> QED BY <1>1 DEF ReadFrom, LogGrows

LEMMA HandlerStays ==
  ASSUME TypeOK, LogGrows, NEW g \in Handlers, HandlerInv(g), pc'[g] = pc[g], req'[g] = req[g]
  PROVE  HandlerInv(g)'
<1>1. /\ req[g].copy \in Copies /\ req[g].copy.vers \in Seq(Nat) /\ req[g].vers \in Seq(Nat)
      /\ req[g].i \in DOMAIN Targets
  BY DEF TypeOK, Requests, Copies
<1>2. req[g].i - 1 \in 0..Len(Targets) /\ Len(Targets) \in 0..Len(Targets)
  BY <1>1, TargetFacts
<1>3. \A v \in Seq(Nat) : \A n \in 0..Len(Targets) : ReadFrom(v, n) => ReadFrom(v, n)'
  BY ReadStays DEF ReadFrom, Version
<1>4. Creating(g)' <=> Creating(g)
  BY DEF Creating
<1>5. req[g].copy # NoProposal /\ AheadOf(g) => AheadOf(g)'
  <2> SUFFICES ASSUME req[g].copy # NoProposal, AheadOf(g) PROVE AheadOf(g)'
    OBVIOUS
  <2>1. PICK j \in req[g].i..Len(Targets) : Version(Targets[j]) > req[g].copy.vers[j]
    BY DEF AheadOf
  <2>2. j \in 1..Len(Targets)
    BY <1>1, TargetFacts
  <2>a. Len(req[g].copy.vers) = Len(Targets)
    BY DEF HandlerInv, ReadFrom
  <2>3. req[g].copy.vers[j] \in Nat
    BY <1>1, <2>2, <2>a
  <2>4. Version(Targets[j])' > req[g].copy.vers[j]
    BY <2>1, <2>2, <2>3, TargetFacts, LogFacts DEF LogGrows, Version
  <2> QED BY <2>2, <2>4 DEF AheadOf
<1>6. \A p \in Props : Applied(p) \subseteq Applied(p)' /\ Applied(p)' \subseteq Entities
  BY DEF LogGrows, Applied
<1>7. req[g].copy # NoProposal => req[g].copy.status = "open" /\ ReadFrom(req[g].copy.vers, Len(Targets))'
  BY <1>1, <1>2, <1>3 DEF HandlerInv
<1>8. pc[g] \in {"snap_row", "snap_log"} =>
        /\ Creating(g) => ReadFrom(req[g].vers, req[g].i - 1)'
        /\ ~Creating(g) => Len(req[g].plan) = req[g].i - 1
        /\ ~Creating(g) /\ req[g].stale => req[g].drift \/ AheadOf(g)'
  BY <1>1, <1>2, <1>3, <1>5 DEF HandlerInv, Creating
<1>9. pc[g] = "insert" => Creating(g) /\ ReadFrom(req[g].vers, Len(Targets))'
  BY <1>1, <1>2, <1>3 DEF HandlerInv
<1>a. pc[g] \in {"apply", "apply_emit", "persist_merged"} => req[g].p \in Props
  BY DEF HandlerInv
<1>10. pc[g] \in {"apply", "apply_emit"} => \A j \in 1..(req[g].i - 1) : Targets[j] \in Applied(req[g].p)'
  BY <1>6, <1>a DEF HandlerInv
<1>11. pc[g] = "persist_merged" => Applied(req[g].p)' = Entities
  <2> SUFFICES ASSUME pc[g] = "persist_merged" PROVE Applied(req[g].p)' = Entities
    OBVIOUS
  <2>1. PICK p \in Props : p = req[g].p
    BY <1>a
  <2>2. Applied(p) = Entities
    BY <2>1 DEF HandlerInv
  <2>3. Applied(p)' = Entities
    BY <1>6, <2>2
  <2> QED BY <2>1, <2>3 DEF Applied
<1> QED BY <1>4, <1>7, <1>8, <1>9, <1>10, <1>11 DEF HandlerInv, ReadFrom

LEMMA BaseStays ==
  ASSUME TypeOK, LogGrows, NEW p \in Props, BaseInv(p), props'[p] = props[p]
  PROVE  BaseInv(p)'
<1>1. props[p].vers \in Seq(Nat) /\ Len(Targets) \in 0..Len(Targets)
  BY TargetFacts DEF TypeOK, Copies
<1>2. props[p].status # "none" => ReadFrom(props[p].vers, Len(Targets))'
  BY <1>1, ReadStays DEF BaseInv, ReadFrom, Version
<1> QED BY <1>2 DEF BaseInv, ReadFrom

\* A proposal h does not hold is held and applied by the same handlers after its step.
LEMMA HoldersStay ==
  ASSUME NEW h \in Handlers, Moves(h), NEW p \in Props, req[h].p # p, req'[h].p # p
  PROVE  /\ Holding(p)' = Holding(p) /\ h \notin Holding(p) /\ (Applying(p)' <=> Applying(p))
         /\ \A g \in Holding(p) : pc'[g] = pc[g] /\ req'[g] = req[g]
<1>1. Holding(p)' = Holding(p) /\ h \notin Holding(p)
  BY DEF Holding, Moves
<1>2. \A g \in Holding(p) : g \in Handlers /\ pc'[g] = pc[g] /\ req'[g] = req[g]
  BY <1>1 DEF Moves, Holding
<1> QED BY <1>1, <1>2 DEF Applying

LEMMA OtherProposal ==
  ASSUME NEW h \in Handlers, Moves(h), NEW p \in Props, req[h].p # p, req'[h].p # p,
         props'[p] = props[p], said'[p] = said[p], Applied(p)' = Applied(p),
         p \in overlap' <=> p \in overlap, p \in torn' <=> p \in torn,
         WholeInv(p), DecisionInv(p)
  PROVE  WholeInv(p)' /\ DecisionInv(p)'
<1>1. WholeInv(p)'
  BY HoldersStay DEF WholeInv
<1>2. \A g \in Holding(p) : HeldStatus(g)' = HeldStatus(g)
  BY HoldersStay DEF HeldStatus, Creating
<1>3. DecisionInv(p)'
  BY <1>2, HoldersStay DEF DecisionInv
<1> QED BY <1>1, <1>3

\* The rows, when no write of an entity starts or ends.
LEMMA OtherRow ==
  ASSUME NEW h \in Handlers, Moves(h), NEW t \in Entities, ~Writes(h, t), ~Writes(h, t)',
         rows'[t] = rows[t], log'[t] = log[t], t \in clash => t \in clash', RowInv(t)
  PROVE  RowInv(t)'
<1>1. \A g \in Handlers : Writes(g, t)' <=> Writes(g, t)
  BY DEF Moves, Writes, Target
<1>2. \A g \in Handlers : Writes(g, t) => pc'[g] = pc[g] /\ req'[g] = req[g]
  BY DEF Moves
<1>3. Replayed(t)' = Replayed(t)
  BY DEF Replayed
<1> QED BY <1>1, <1>2, <1>3 DEF RowInv

WritePcs == {"emit_put", "write_back", "apply_emit"}
ApplyPcs == {"apply", "apply_emit", "persist_merged"}

\* A step of h within its request p that writes neither rows nor log.
LEMMA LocalStep ==
  ASSUME ProposalsInv, NEW h \in Handlers, Moves(h), UNCHANGED <<rows, log>>, clash \subseteq clash',
         pc[h] \notin WritePcs, pc'[h] \notin WritePcs, TypeOK', HandlerInv(h)',
         NEW p \in Props, req[h].p \in {p, Null}, req'[h].p \in {p, Null},
         \A q \in Props \ {p} : /\ props'[q] = props[q] /\ said'[q] = said[q]
                               /\ (q \in overlap' <=> q \in overlap) /\ (q \in torn' <=> q \in torn),
         p \in torn => p \in torn',
         pc[h] \in ApplyPcs => (pc'[h] \in ApplyPcs /\ req'[h].p = p) \/ Applied(p) = Entities \/ p \in torn',
         BaseInv(p)', DecisionInv(p)'
  PROVE  ProposalsInv'
<1>1. TypeOK /\ LogGrows /\ \A q \in Props : Applied(q)' = Applied(q)
  BY SameLog DEF ProposalsInv
<1>2. \A g \in Handlers : HandlerInv(g)'
  BY <1>1, HandlerStays DEF ProposalsInv, Moves
<1>3. \A q \in Props \ {p} : BaseInv(q)' /\ WholeInv(q)' /\ DecisionInv(q)'
  <2> SUFFICES ASSUME NEW q \in Props, q # p PROVE BaseInv(q)' /\ WholeInv(q)' /\ DecisionInv(q)'
    OBVIOUS
  <2>1. req[h].p # q /\ req'[h].p # q
    BY ProposalsAssumption
  <2>2. /\ props'[q] = props[q] /\ said'[q] = said[q] /\ Applied(q)' = Applied(q)
        /\ (q \in overlap' <=> q \in overlap) /\ (q \in torn' <=> q \in torn)
    BY <1>1
  <2>3. BaseInv(q) /\ WholeInv(q) /\ DecisionInv(q)
    BY DEF ProposalsInv
  <2> QED BY <1>1, <2>1, <2>2, <2>3, BaseStays, OtherProposal
<1>4. WholeInv(p)'
  <2>1. Applied(p)' = Applied(p) /\ WholeInv(p)
    BY <1>1 DEF ProposalsInv
  <2>2. \A g \in Handlers \ {h} : g \in Holding(p) /\ pc[g] \in ApplyPcs => g \in Holding(p)' /\ pc'[g] \in ApplyPcs
    BY DEF Moves, Holding
  <2>3. h \in Holding(p) /\ pc[h] \in ApplyPcs =>
          (h \in Holding(p)' /\ pc'[h] \in ApplyPcs) \/ Applied(p) = Entities \/ p \in torn'
    BY DEF Holding
  <2>4. Applying(p) => Applying(p)' \/ Applied(p) = Entities \/ p \in torn'
    BY <2>2, <2>3 DEF Applying, ApplyPcs, Holding
  <2> QED BY <2>1, <2>4 DEF WholeInv
<1>5. ASSUME NEW t \in Entities PROVE RowInv(t)'
  <2>1. ~Writes(h, t) /\ ~Writes(h, t)'
    BY DEF Writes, WritePcs
  <2>2. RowInv(t) /\ rows'[t] = rows[t] /\ log'[t] = log[t]
    BY DEF ProposalsInv
  <2> QED BY <2>1, <2>2, OtherRow
<1> QED BY <1>2, <1>3, <1>4, <1>5 DEF ProposalsInv

\* What holds of a proposal that h alone holds.
LEMMA HeldAlone ==
  ASSUME ProposalsInv, NEW h \in Handlers, NEW p \in Props, req[h].p = p, p \notin overlap
  PROVE  /\ DecisionInv(p) /\ Holding(p) = {h} /\ props[p].status = HeldStatus(h)
         /\ (Applying(p) <=> pc[h] \in ApplyPcs)
         /\ \A g \in Handlers \ {h} : req[g].p # p
<1>1. DecisionInv(p) /\ h \in Holding(p)
  BY DEF ProposalsInv, Holding
<1>2. Holding(p) = {h}
  BY <1>1 DEF DecisionInv
<1> QED BY <1>1, <1>2 DEF DecisionInv, Applying, ApplyPcs, Holding

LEMMA MoveFacts ==
  ASSUME TypeOK, NEW h \in Handlers, NEW r \in Requests, NEW next \in Statements,
         Go(h, next), req' = [req EXCEPT ![h] = r]
  PROVE  /\ Moves(h) /\ pc'[h] = next /\ req'[h] = r
         /\ pc' \in [Handlers -> Statements] /\ req' \in [Handlers -> Requests]
BY DEF TypeOK, Go, Moves

LEMMA GoFacts ==
  ASSUME TypeOK, NEW h \in Handlers, NEW next \in Statements, Go(h, next), req' = req
  PROVE  /\ Moves(h) /\ pc'[h] = next /\ req'[h] = req[h]
         /\ pc' \in [Handlers -> Statements] /\ req' \in [Handlers -> Requests]
BY DEF TypeOK, Go, Moves

LEMMA RequestFacts ==
  ASSUME TypeOK, NEW h \in Handlers
  PROVE  /\ req[h] \in Requests /\ pc[h] \in Statements /\ req[h].copy \in Copies
         /\ req[h].i \in 1..Len(Targets) /\ Target(h) \in Entities
         /\ req[h].vers \in Seq(Nat) /\ req[h].ats \in Seq(Nat) /\ req[h].at \in 0..MaxTime
         /\ req[h].plan \in Seq(SUBSET Marks)
         /\ NextTarget(h) \in 1..Len(Targets)
         /\ NextTarget(h) = 1 \/ (req[h].i < Len(Targets) /\ NextTarget(h) = req[h].i + 1)
         /\ req[h].i < Len(Targets) => NextTarget(h) = req[h].i + 1
<1>1. req[h] \in Requests /\ pc[h] \in Statements
  BY DEF TypeOK
<1>2. /\ req[h].copy \in Copies /\ req[h].i \in DOMAIN Targets
      /\ req[h].vers \in Seq(Nat) /\ req[h].ats \in Seq(Nat) /\ req[h].at \in 0..MaxTime
      /\ req[h].plan \in Seq(SUBSET Marks)
  BY <1>1 DEF Requests
<1> QED BY <1>1, <1>2, TargetFacts DEF Target, NextTarget

\* A step between the reads of a request leaves its proposal's decision as it was.
LEMMA LocalRead ==
  ASSUME ProposalsInv, NEW h \in Handlers, Moves(h), TypeOK', HandlerInv(h)',
         UNCHANGED <<dbVars, histVars>>,
         pc[h] \notin WritePcs, pc[h] \notin ApplyPcs, pc'[h] \notin WritePcs,
         req[h].p \in Props, req'[h].p = req[h].p, HeldStatus(h)' = HeldStatus(h)
  PROVE  ProposalsInv'
<1>1. PICK p \in Props : p = req[h].p
  OBVIOUS
<1>2. UNCHANGED <<rows, log, props, said, overlap, torn, clash>>
  BY DEF dbVars, histVars
<1>3. TypeOK /\ LogGrows /\ Applied(p)' = Applied(p) /\ BaseInv(p)
  BY <1>2, SameLog DEF ProposalsInv
<1>4. BaseInv(p)'
  BY <1>2, <1>3, BaseStays
<1>5. DecisionInv(p)'
  <2> SUFFICES ASSUME p \notin overlap PROVE DecisionInv(p)'
    BY <1>2 DEF DecisionInv
  <2>1. /\ DecisionInv(p) /\ Holding(p) = {h} /\ props[p].status = HeldStatus(h)
        /\ ~Applying(p) /\ \A g \in Handlers \ {h} : req[g].p # p
    BY <1>1, HeldAlone
  <2>2. Holding(p)' = {h}
    BY <1>1, <2>1 DEF Holding, Moves
  <2> QED BY <1>2, <1>3, <2>1, <2>2 DEF DecisionInv
<1>6. /\ \A q \in Props \ {p} : /\ props'[q] = props[q] /\ said'[q] = said[q]
                              /\ (q \in overlap' <=> q \in overlap) /\ (q \in torn' <=> q \in torn)
      /\ p \in torn => p \in torn'
      /\ req[h].p \in {p, Null} /\ req'[h].p \in {p, Null} /\ clash \subseteq clash'
      /\ UNCHANGED <<rows, log>>
  BY <1>1, <1>2
<1> QED BY <1>4, <1>5, <1>6, LocalStep

LEMMA SnapRowInv ==
  ASSUME ProposalsInv, NEW h \in Handlers, SnapRow(h)
  PROVE  ProposalsInv'
<1>1. /\ TypeOK /\ HandlerInv(h) /\ pc[h] = "snap_row" /\ Go(h, "snap_log")
      /\ UNCHANGED <<dbVars, now, requests, crashes, histVars>>
  BY DEF SnapRow, ProposalsInv
<1>2. rows[Target(h)].at \in 0..MaxTime
  BY <1>1, RequestFacts DEF TypeOK
<1>3. PICK r \in Requests : req' = [req EXCEPT ![h] = r] /\ r = [req[h] EXCEPT !.at = rows[Target(h)].at]
  BY <1>1, <1>2, RequestFacts DEF SnapRow, Requests
<1>4. /\ r.p = req[h].p /\ r.copy = req[h].copy /\ r.i = req[h].i /\ r.vers = req[h].vers
      /\ r.plan = req[h].plan /\ r.drift = req[h].drift /\ r.stale = req[h].stale
  BY <1>1, <1>3, RequestFacts DEF Requests
<1>5. /\ Moves(h) /\ pc'[h] = "snap_log" /\ req'[h] = r
      /\ pc' \in [Handlers -> Statements] /\ req' \in [Handlers -> Requests]
  BY <1>1, <1>3, MoveFacts DEF Statements
<1>6. TypeOK'
  BY <1>1, <1>5 DEF TypeOK, dbVars, histVars
<1>7. HandlerInv(h)'
  <2>1. log' = log
    BY <1>1 DEF dbVars
  <2>2. (Creating(h)' <=> Creating(h)) /\ (AheadOf(h)' <=> AheadOf(h))
    BY <1>4, <1>5, <2>1 DEF Creating, AheadOf, Version
  <2> QED BY <1>1, <1>4, <1>5, <2>1, <2>2 DEF HandlerInv, ReadFrom, Version, Merging
<1>8. HeldStatus(h)' = HeldStatus(h)
  BY <1>1, <1>4, <1>5 DEF HeldStatus, Creating
<1> QED BY <1>1, <1>4, <1>5, <1>6, <1>7, <1>8, LocalRead DEF HandlerInv, WritePcs, ApplyPcs

LEMMA SnapBaseInv ==
  ASSUME ProposalsInv, NEW h \in Handlers, SnapBase(h)
  PROVE  ProposalsInv'
<1>1. /\ TypeOK /\ HandlerInv(h) /\ pc[h] = "snap_log" /\ Creating(h)
      /\ UNCHANGED <<dbVars, now, requests, crashes, histVars>>
  BY DEF SnapBase, ProposalsInv
<1>2. PICK next \in {"snap_row", "insert"} :
        Go(h, next) /\ (next = "insert" <=> req[h].i = Len(Targets))
  BY DEF SnapBase, AfterLast
<1>3. /\ Version(Target(h)) \in Nat /\ Len(req[h].vers) = req[h].i - 1 /\ req[h].at \in Nat
      /\ \A j \in 1..(req[h].i - 1) : req[h].vers[j] <= Version(Targets[j])
  BY <1>1, RequestFacts, LogFacts, ProposalsAssumption DEF HandlerInv, ReadFrom
<1>4. PICK v \in Seq(Nat), a \in Seq(Nat) :
        v = Append(req[h].vers, Version(Target(h))) /\ a = Append(req[h].ats, req[h].at)
  <2>1. \A w \in Seq(Nat) : \A n \in Nat : Append(w, n) \in Seq(Nat)
    OBVIOUS
  <2>2. req[h].vers \in Seq(Nat) /\ req[h].ats \in Seq(Nat)
    BY <1>1, RequestFacts
  <2> QED BY <1>3, <2>1, <2>2
<1>5. ReadFrom(v, req[h].i)
  <2>1. req[h].vers \in Seq(Nat) /\ req[h].i \in 1..Len(Targets)
    BY <1>1, RequestFacts
  <2>2. /\ Len(v) = req[h].i /\ v[req[h].i] = Version(Target(h))
        /\ \A j \in 1..(req[h].i - 1) : v[j] = req[h].vers[j]
    BY <1>3, <1>4, <2>1, TargetFacts
  <2>3. \A j \in 1..req[h].i : j = req[h].i \/ j \in 1..(req[h].i - 1)
    BY <2>1, TargetFacts
  <2>4. v[req[h].i] <= Version(Targets[req[h].i])
    BY <1>3, <2>2 DEF Target
  <2>5. \A j \in 1..req[h].i : v[j] <= Version(Targets[j])
    BY <1>3, <2>2, <2>3, <2>4
  <2> QED BY <2>2, <2>5 DEF ReadFrom
<1>6. NextTarget(h) \in DOMAIN Targets
  BY <1>1, RequestFacts, TargetFacts
<1>7. PICK r \in Requests : /\ req' = [req EXCEPT ![h] = r]
                           /\ r = [req[h] EXCEPT !.vers = v, !.ats = a, !.i = NextTarget(h)]
  BY <1>1, <1>4, <1>6, RequestFacts DEF SnapBase, Requests
<1>8. /\ r.p = req[h].p /\ r.copy = req[h].copy /\ r.i = NextTarget(h) /\ r.vers = v
      /\ r.plan = req[h].plan /\ r.drift = req[h].drift /\ r.stale = req[h].stale
  BY <1>1, <1>7, RequestFacts DEF Requests
<1>9. /\ Moves(h) /\ pc'[h] = next /\ req'[h] = r
      /\ pc' \in [Handlers -> Statements] /\ req' \in [Handlers -> Requests]
  BY <1>1, <1>2, <1>7, MoveFacts DEF Statements
<1>10. TypeOK'
  BY <1>1, <1>9 DEF TypeOK, dbVars, histVars
<1>11. log' = log /\ Creating(h)'
  BY <1>1, <1>8, <1>9 DEF dbVars, Creating
<1>12. next = "insert" => ReadFrom(v, Len(Targets))
  BY <1>2, <1>5
<1>13. next = "snap_row" => ReadFrom(v, NextTarget(h) - 1)
  <2>1. next = "snap_row" => NextTarget(h) = req[h].i + 1
    BY <1>1, <1>2, RequestFacts DEF NextTarget
  <2>2. next = "snap_row" => NextTarget(h) - 1 = req[h].i
    BY <1>1, <2>1, RequestFacts, TargetFacts
  <2> QED BY <1>5, <2>2
<1>14. HandlerInv(h)'
  BY <1>1, <1>8, <1>9, <1>11, <1>12, <1>13 DEF HandlerInv, ReadFrom, Version, Merging, Creating
<1>15. HeldStatus(h)' = HeldStatus(h)
  BY <1>1, <1>9, <1>11 DEF HeldStatus
<1> QED BY <1>1, <1>8, <1>9, <1>10, <1>14, <1>15, LocalRead DEF HandlerInv, WritePcs, ApplyPcs

\* A target that moved before the merge began is seen as drift when its turn comes.
LEMMA CheckTargetInv ==
  ASSUME ProposalsInv, NEW h \in Handlers, CheckTarget(h)
  PROVE  ProposalsInv'
<1>1. /\ TypeOK /\ HandlerInv(h) /\ pc[h] = "snap_log" /\ ~Creating(h)
      /\ UNCHANGED <<dbVars, now, requests, crashes, histVars>>
  BY DEF CheckTarget, ProposalsInv
<1>2. PICK drift \in BOOLEAN : drift <=> (req[h].drift \/ Drifted(h))
  OBVIOUS
<1>3. PICK next \in {"snap_row", "flag", "cause"} :
        /\ Go(h, next) /\ (next # "snap_row" <=> req[h].i = Len(Targets))
        /\ (next = "cause" => ~drift)
  BY <1>2 DEF CheckTarget, AfterLast
<1>4. Replayed(Target(h)) \union {req[h].p} \in SUBSET Marks
  BY <1>1, RequestFacts, LogFacts DEF HandlerInv, Marks
<1>5. PICK plan \in Seq(SUBSET Marks) : plan = Append(req[h].plan, Replayed(Target(h)) \union {req[h].p})
  <2>1. \A w \in Seq(SUBSET Marks) : \A e \in SUBSET Marks : Append(w, e) \in Seq(SUBSET Marks)
    OBVIOUS
  <2>2. req[h].plan \in Seq(SUBSET Marks)
    BY <1>1, RequestFacts
  <2> QED BY <1>4, <2>1, <2>2
<1>6. Len(req[h].plan) = req[h].i - 1 /\ Len(plan) = req[h].i
  BY <1>1, <1>4, <1>5, RequestFacts DEF HandlerInv
<1>7. NextTarget(h) \in DOMAIN Targets
  BY <1>1, RequestFacts, TargetFacts
<1>8. req' = [req EXCEPT ![h] = [req[h] EXCEPT !.plan = plan, !.drift = drift, !.i = NextTarget(h)]]
  <2>1. req[h].drift \in BOOLEAN /\ Drifted(h) \in BOOLEAN
    BY <1>1, RequestFacts DEF Requests, Drifted
  <2>2. drift = (req[h].drift \/ Drifted(h))
    BY <1>2, <2>1
  <2> QED BY <1>5, <2>2 DEF CheckTarget
<1>9. PICK r \in Requests : /\ req' = [req EXCEPT ![h] = r]
                           /\ r = [req[h] EXCEPT !.plan = plan, !.drift = drift, !.i = NextTarget(h)]
  BY <1>1, <1>7, <1>8, RequestFacts DEF Requests
<1>10. /\ r.p = req[h].p /\ r.copy = req[h].copy /\ r.i = NextTarget(h) /\ r.vers = req[h].vers
       /\ r.plan = plan /\ r.drift = drift /\ r.stale = req[h].stale
  BY <1>1, <1>9, RequestFacts DEF Requests
<1>11. /\ Moves(h) /\ pc'[h] = next /\ req'[h] = r
       /\ pc' \in [Handlers -> Statements] /\ req' \in [Handlers -> Requests]
  BY <1>1, <1>3, <1>9, MoveFacts DEF Statements
<1>12. TypeOK'
  BY <1>1, <1>11 DEF TypeOK, dbVars, histVars
<1>13. log' = log /\ ~Creating(h)'
  BY <1>1, <1>10, <1>11 DEF dbVars, Creating
<1>14. Len(req[h].copy.vers) = Len(Targets)
  BY <1>1 DEF HandlerInv, Creating, ReadFrom
<1>15. req[h].stale => drift \/ \E j \in (req[h].i + 1)..Len(Targets) : Version(Targets[j]) > req[h].copy.vers[j]
  <2> SUFFICES ASSUME req[h].stale, ~drift
               PROVE  \E j \in (req[h].i + 1)..Len(Targets) : Version(Targets[j]) > req[h].copy.vers[j]
    OBVIOUS
  <2>1. PICK j \in req[h].i..Len(Targets) : Version(Targets[j]) > req[h].copy.vers[j]
    BY <1>1, <1>2 DEF HandlerInv, AheadOf
  <2>2. j \in 1..Len(Targets) /\ req[h].copy.vers \in Seq(Nat)
    BY <1>1, RequestFacts, TargetFacts DEF Copies
  <2>3. req[h].copy.vers[j] \in Nat /\ Version(Targets[j]) \in Nat
    <3>1. req[h].copy.vers[j] \in Nat
      BY <1>14, <2>2
    <3> QED BY <1>1, <2>2, <3>1, TargetFacts, LogFacts
  <2>4. j # req[h].i
    BY <1>2, <2>1, <2>3 DEF Drifted, Target
  <2> QED BY <1>1, <2>1, <2>2, <2>4, RequestFacts
<1>16. next = "snap_row" => NextTarget(h) = req[h].i + 1
  BY <1>1, <1>3, RequestFacts
<1>17. next # "snap_row" => req[h].i = Len(Targets) /\ NextTarget(h) = 1 /\ (req[h].stale => drift)
  BY <1>1, <1>3, <1>15, TargetFacts DEF NextTarget
<1>18. /\ next = "snap_row" => Len(plan) = NextTarget(h) - 1
       /\ next = "snap_row" /\ r.stale => r.drift \/ AheadOf(h)'
       /\ next # "snap_row" => Len(plan) = Len(Targets)
       /\ next = "cause" => ~r.stale /\ r.i = 1
  <2>1. next = "snap_row" => (r.stale => r.drift \/ AheadOf(h)')
    BY <1>10, <1>11, <1>13, <1>15, <1>16 DEF AheadOf, Version
  <2> QED BY <1>1, <1>3, <1>6, <1>10, <1>16, <1>17, <2>1, RequestFacts
<1>19. HandlerInv(h)'
  BY <1>1, <1>3, <1>10, <1>11, <1>13, <1>18 DEF HandlerInv, ReadFrom, Version, Merging, Creating
<1>20. HeldStatus(h)' = HeldStatus(h)
  BY <1>1, <1>11, <1>13 DEF HeldStatus
<1> QED BY <1>1, <1>10, <1>11, <1>12, <1>19, <1>20, LocalRead DEF HandlerInv, WritePcs, ApplyPcs

LEMMA ReadCauseInv ==
  ASSUME ProposalsInv, NEW h \in Handlers, ReadCause(h)
  PROVE  ProposalsInv'
<1>1. /\ TypeOK /\ HandlerInv(h) /\ pc[h] = "cause" /\ Go(h, "apply")
      /\ UNCHANGED <<dbVars, now, requests, crashes, histVars>>
  BY DEF ReadCause, ProposalsInv
<1>2. now \in 0..MaxTime /\ ("created" \in said[req[h].p]) \in BOOLEAN
  BY <1>1 DEF TypeOK
<1>3. PICK r \in Requests : /\ req' = [req EXCEPT ![h] = r]
                           /\ r = [req[h] EXCEPT !.cause = "created" \in said[req[h].p], !.at = now]
  BY <1>1, <1>2, RequestFacts DEF ReadCause, Requests
<1>4. /\ r.p = req[h].p /\ r.copy = req[h].copy /\ r.i = req[h].i /\ r.vers = req[h].vers
      /\ r.plan = req[h].plan /\ r.drift = req[h].drift /\ r.stale = req[h].stale
  BY <1>1, <1>3, RequestFacts DEF Requests
<1>5. /\ Moves(h) /\ pc'[h] = "apply" /\ req'[h] = r
      /\ pc' \in [Handlers -> Statements] /\ req' \in [Handlers -> Requests]
  BY <1>1, <1>3, MoveFacts DEF Statements
<1>6. TypeOK'
  BY <1>1, <1>5 DEF TypeOK, dbVars, histVars
<1>7. HandlerInv(h)'
  <2>1. log' = log /\ (Creating(h)' <=> Creating(h))
    BY <1>1, <1>4, <1>5 DEF dbVars, Creating
  <2>2. \A j \in 1..(r.i - 1) : FALSE
    BY <1>1, <1>4 DEF HandlerInv
  <2> QED BY <1>1, <1>4, <1>5, <2>1, <2>2 DEF HandlerInv, ReadFrom, Version, Merging
<1>8. HeldStatus(h)' = HeldStatus(h)
  BY <1>1, <1>5 DEF HeldStatus
<1> QED BY <1>1, <1>4, <1>5, <1>6, <1>7, <1>8, LocalRead DEF HandlerInv, WritePcs, ApplyPcs

LEMMA CopyFacts ==
  /\ NoProposal \in Copies /\ NoRequest \in Requests /\ NoRequest.p = Null /\ NoRequest.copy = NoProposal
  /\ NoRequest.i = 1
  /\ \A p \in Props \union {Null}, t \in Entities \union {Null}, c \in Copies, plan \in Seq(SUBSET Marks),
       stale \in BOOLEAN : Request(p, t, c, plan, stale) \in Requests
<1>1. <<>> \in Seq(Nat) /\ <<>> \in Seq(SUBSET Marks) /\ 1 \in DOMAIN Targets /\ 0 \in 0..MaxTime
  BY TargetFacts, ProposalsAssumption
<1>2. NoProposal \in Copies
  BY <1>1 DEF NoProposal, Copies
<1>3. \A p \in Props \union {Null}, t \in Entities \union {Null}, c \in Copies, plan \in Seq(SUBSET Marks),
        stale \in BOOLEAN : Request(p, t, c, plan, stale) \in Requests
  BY <1>1 DEF Request, Requests
<1>4. NoRequest \in Requests
  BY <1>1, <1>2, <1>3 DEF NoRequest
<1> QED BY <1>2, <1>3, <1>4 DEF NoRequest, Request

LEMMA EndFacts ==
  ASSUME TypeOK, NEW h \in Handlers, Ends(h)
  PROVE  /\ Moves(h) /\ pc'[h] = "idle" /\ req'[h] = NoRequest
         /\ pc' \in [Handlers -> Statements] /\ req' \in [Handlers -> Requests]
         /\ HandlerInv(h)'
<1>1. /\ Moves(h) /\ pc'[h] = "idle" /\ req'[h] = NoRequest
      /\ pc' \in [Handlers -> Statements] /\ req' \in [Handlers -> Requests]
  BY MoveFacts, CopyFacts DEF Ends, Statements
<1>2. HandlerInv(h)'
  BY <1>1, CopyFacts DEF HandlerInv, Merging
<1> QED BY <1>1, <1>2

LEMMA InsertProposalInv ==
  ASSUME ProposalsInv, NEW h \in Handlers, InsertProposal(h)
  PROVE  ProposalsInv'
<1>1. /\ TypeOK /\ HandlerInv(h) /\ pc[h] = "insert" /\ Go(h, "emit_created")
      /\ UNCHANGED <<rows, log, said, now, req, requests, crashes, histVars>>
  BY DEF InsertProposal, ProposalsInv
<1>2. PICK p \in Props : p = req[h].p
  BY <1>1 DEF HandlerInv
<1>3. PICK new \in Copies : /\ props' = [props EXCEPT ![p] = new]
                           /\ new.status = "open" /\ new.vers = req[h].vers
  <2>1. [status |-> "open", rebase |-> FALSE, vers |-> req[h].vers, ats |-> req[h].ats] \in Copies
    BY <1>1, RequestFacts DEF Copies
  <2> QED BY <1>2, <2>1 DEF InsertProposal
<1>4. /\ Moves(h) /\ pc'[h] = "emit_created" /\ req'[h] = req[h]
      /\ pc' \in [Handlers -> Statements] /\ req' \in [Handlers -> Requests]
  BY <1>1, GoFacts DEF Statements
<1>5. props'[p] = new /\ (\A q \in Props \ {p} : props'[q] = props[q]) /\ props' \in [Props -> Copies]
  BY <1>1, <1>3 DEF TypeOK
<1>6. TypeOK'
  BY <1>1, <1>4, <1>5 DEF TypeOK, histVars
<1>7. HandlerInv(h)'
  <2>1. log' = log /\ (Creating(h)' <=> Creating(h)) /\ Creating(h)
    BY <1>1, <1>4 DEF Creating, HandlerInv
  <2> QED BY <1>1, <1>4, <2>1 DEF HandlerInv, ReadFrom, Version, Merging, Creating
<1>8. BaseInv(p)'
  BY <1>1, <1>2, <1>3, <1>5 DEF BaseInv, HandlerInv, ReadFrom, Version
<1>9. DecisionInv(p)'
  <2> SUFFICES ASSUME p \notin overlap PROVE DecisionInv(p)'
    BY <1>1 DEF DecisionInv, histVars
  <2>1. /\ DecisionInv(p) /\ Holding(p) = {h} /\ props[p].status = HeldStatus(h)
        /\ \A g \in Handlers \ {h} : req[g].p # p
    BY <1>2, HeldAlone
  <2>2. props[p].status = "none" /\ Applied(p) = {} /\ said[p] = {}
    BY <1>1, <2>1 DEF HeldStatus, DecisionInv
  <2>3. Holding(p)' = {h} /\ HeldStatus(h)' = "open" /\ Applied(p)' = {} /\ said'[p] = {}
    BY <1>1, <1>2, <1>4, <2>1, <2>2, SameLog DEF Holding, HeldStatus
  <2> QED BY <1>3, <1>5, <2>3 DEF DecisionInv
<1>10. /\ \A q \in Props \ {p} : /\ props'[q] = props[q] /\ said'[q] = said[q]
                               /\ (q \in overlap' <=> q \in overlap) /\ (q \in torn' <=> q \in torn)
       /\ p \in torn => p \in torn'
       /\ req[h].p \in {p, Null} /\ req'[h].p \in {p, Null} /\ clash \subseteq clash'
       /\ UNCHANGED <<rows, log>>
  BY <1>1, <1>2, <1>4, <1>5 DEF histVars
<1> QED BY <1>1, <1>4, <1>6, <1>7, <1>8, <1>9, <1>10, LocalStep DEF WritePcs, ApplyPcs

\* A handler that ends with an event about its proposal.
LEMMA SaysInv ==
  ASSUME ProposalsInv, NEW h \in Handlers, Ends(h), NEW what \in {"created", "merged", "rejected", "needs_rebase"},
         Says(h, what), UNCHANGED <<rows, log, props, now, requests, crashes, histVars>>,
         /\ what = "created" => pc[h] = "emit_created"
         /\ what = "merged" => pc[h] = "emit_merged"
         /\ what = "rejected" => pc[h] = "emit_rejected"
         /\ what = "needs_rebase" => pc[h] = "emit_flag"
  PROVE  ProposalsInv'
<1>1. TypeOK /\ HandlerInv(h) /\ pc[h] \in {"emit_created", "emit_merged", "emit_rejected", "emit_flag"}
  BY DEF ProposalsInv
<1>2. PICK p \in Props : p = req[h].p
  BY <1>1 DEF HandlerInv
<1>3. /\ Moves(h) /\ pc'[h] = "idle" /\ req'[h] = NoRequest /\ req'[h].p = Null /\ HandlerInv(h)'
      /\ pc' \in [Handlers -> Statements] /\ req' \in [Handlers -> Requests]
  BY <1>1, EndFacts, CopyFacts
<1>4. /\ said'[p] = said[p] \union {what} /\ \A q \in Props \ {p} : said'[q] = said[q]
      /\ said' \in [Props -> SUBSET {"created", "merged", "rejected", "needs_rebase"}]
  BY <1>1, <1>2 DEF Says, TypeOK
<1>5. TypeOK'
  BY <1>1, <1>3, <1>4 DEF TypeOK, histVars
<1>6. BaseInv(p)'
  <2>1. LogGrows /\ BaseInv(p)
    BY <1>1, SameLog DEF ProposalsInv
  <2> QED BY <1>1, <2>1, BaseStays
<1>7. DecisionInv(p)'
  <2> SUFFICES ASSUME p \notin overlap PROVE DecisionInv(p)'
    BY DEF DecisionInv, histVars
  <2>1. /\ DecisionInv(p) /\ Holding(p) = {h} /\ props[p].status = HeldStatus(h)
        /\ ~Applying(p) /\ \A g \in Handlers \ {h} : req[g].p # p
    BY <1>1, <1>2, HeldAlone DEF ApplyPcs
  <2>2. Holding(p)' = {} /\ Applied(p)' = Applied(p)
    BY <1>1, <1>3, <2>1, SameLog, ProposalsAssumption DEF Holding, Moves
  <2>3. props[p].status # "none"
        /\ (what = "merged" <=> props[p].status = "merged") /\ (what = "rejected" <=> props[p].status = "rejected")
    BY <1>1, <2>1 DEF HeldStatus
  <2> QED BY <1>4, <2>1, <2>2, <2>3 DEF DecisionInv, histVars
<1>8. /\ \A q \in Props \ {p} : /\ props'[q] = props[q] /\ said'[q] = said[q]
                              /\ (q \in overlap' <=> q \in overlap) /\ (q \in torn' <=> q \in torn)
      /\ p \in torn => p \in torn'
      /\ req[h].p \in {p, Null} /\ req'[h].p \in {p, Null} /\ clash \subseteq clash'
      /\ UNCHANGED <<rows, log>>
  BY <1>2, <1>3, <1>4 DEF histVars
<1> QED BY <1>1, <1>3, <1>5, <1>6, <1>7, <1>8, LocalStep DEF WritePcs, ApplyPcs

\* A handler writes back the copy of an open proposal it has read, with a flag or a decision:
\* merged once all targets have the patch, rejected with none of them.
LEMMA PersistInv ==
  ASSUME ProposalsInv, NEW h \in Handlers, NEW status \in {"open", "merged", "rejected"},
         NEW rebase \in BOOLEAN, NEW next \in {"emit_flag", "emit_merged", "emit_rejected"},
         Persist(h, status, rebase), Go(h, next),
         UNCHANGED <<rows, log, said, now, req, requests, crashes, histVars>>,
         \/ pc[h] = "flag" /\ status = "open" /\ next = "emit_flag"
         \/ pc[h] = "persist_merged" /\ status = "merged" /\ next = "emit_merged"
         \/ pc[h] = "persist_rejected" /\ status = "rejected" /\ next = "emit_rejected"
  PROVE  ProposalsInv'
<1>1. /\ TypeOK /\ HandlerInv(h) /\ pc[h] \in {"flag", "persist_merged", "persist_rejected"}
      /\ ~Creating(h)
  BY DEF ProposalsInv, HandlerInv, Merging
<1>2. PICK p \in Props : p = req[h].p
  BY <1>1 DEF HandlerInv
<1>3. PICK new \in Copies : /\ props' = [props EXCEPT ![p] = new]
                           /\ new.status = status /\ new.vers = req[h].copy.vers
  <2>1. \A c \in Copies : LET n == [c EXCEPT !.status = status, !.rebase = rebase]
                           IN  n \in Copies /\ n.status = status /\ n.vers = c.vers
    BY DEF Copies
  <2>2. req[h].copy \in Copies
    BY <1>1, RequestFacts
  <2> QED BY <1>2, <2>1, <2>2 DEF Persist
<1>4. /\ Moves(h) /\ pc'[h] = next /\ req'[h] = req[h]
      /\ pc' \in [Handlers -> Statements] /\ req' \in [Handlers -> Requests]
  BY <1>1, GoFacts DEF Statements
<1>5. props'[p] = new /\ (\A q \in Props \ {p} : props'[q] = props[q]) /\ props' \in [Props -> Copies]
  BY <1>1, <1>3 DEF TypeOK
<1>6. TypeOK'
  BY <1>1, <1>4, <1>5 DEF TypeOK, histVars
<1>7. HandlerInv(h)'
  <2>1. log' = log /\ (Creating(h)' <=> Creating(h))
    BY <1>1, <1>4 DEF Creating
  <2> QED BY <1>1, <1>4, <2>1 DEF HandlerInv, ReadFrom, Version, Merging, Creating
<1>8. BaseInv(p)'
  BY <1>1, <1>3, <1>5 DEF BaseInv, HandlerInv, Creating, ReadFrom, Version
<1>9. pc[h] = "persist_merged" => Applied(p) = Entities
  BY <1>1, <1>2 DEF HandlerInv
<1>10. DecisionInv(p)'
  <2> SUFFICES ASSUME p \notin overlap PROVE DecisionInv(p)'
    BY <1>1 DEF DecisionInv, histVars
  <2>1. /\ DecisionInv(p) /\ Holding(p) = {h} /\ props[p].status = HeldStatus(h)
        /\ (Applying(p) <=> pc[h] \in ApplyPcs) /\ \A g \in Handlers \ {h} : req[g].p # p
    BY <1>2, HeldAlone
  <2>2. props[p].status = "open" /\ "merged" \notin said[p] /\ "rejected" \notin said[p]
        /\ (Applied(p) # {} => p \in torn \/ Applying(p))
    BY <1>1, <2>1 DEF HeldStatus, DecisionInv
  <2>3. Holding(p)' = {h} /\ HeldStatus(h)' = status /\ Applied(p)' = Applied(p)
    BY <1>1, <1>2, <1>4, <2>1, SameLog DEF Holding, HeldStatus
  <2>4. status = "merged" => Applied(p) = Entities
    BY <1>9
  <2>5. status # "merged" => (Applied(p) # {} => p \in torn)
    BY <2>1, <2>2 DEF ApplyPcs
  <2> QED BY <1>3, <1>5, <2>2, <2>3, <2>4, <2>5 DEF DecisionInv, histVars
<1>11. /\ \A q \in Props \ {p} : /\ props'[q] = props[q] /\ said'[q] = said[q]
                               /\ (q \in overlap' <=> q \in overlap) /\ (q \in torn' <=> q \in torn)
       /\ p \in torn => p \in torn'
       /\ req[h].p \in {p, Null} /\ req'[h].p \in {p, Null} /\ clash \subseteq clash'
       /\ UNCHANGED <<rows, log>>
  BY <1>1, <1>2, <1>4, <1>5 DEF histVars
<1>12. pc[h] \notin WritePcs /\ pc'[h] \notin WritePcs /\ (pc[h] \in ApplyPcs => Applied(p) = Entities)
  BY <1>1, <1>4, <1>9 DEF WritePcs, ApplyPcs
<1> QED BY <1>4, <1>6, <1>7, <1>8, <1>10, <1>11, <1>12, LocalStep

LEMMA DecideInv ==
  ASSUME ProposalsInv, NEW h \in Handlers,
         InsertProposal(h) \/ EmitCreated(h) \/ FlagRebase(h) \/ PersistDecision(h) \/ EmitDecision(h)
  PROVE  ProposalsInv'
<1>1. CASE InsertProposal(h)
  BY <1>1, InsertProposalInv
<1>2. CASE EmitCreated(h)
  BY <1>2, SaysInv DEF EmitCreated
<1>3. CASE FlagRebase(h)
  <2>1. HandlerInv(h) /\ pc[h] = "flag" /\ req[h].copy.status = "open"
    BY <1>3 DEF FlagRebase, ProposalsInv, HandlerInv, Merging, Creating
  <2> QED BY <1>3, <2>1, PersistInv DEF FlagRebase
<1>4. CASE PersistDecision(h)
  <2>1. CASE pc[h] = "persist_merged" /\ Persist(h, "merged", FALSE) /\ Go(h, "emit_merged")
    BY <1>4, <2>1, PersistInv DEF PersistDecision
  <2>2. CASE pc[h] = "persist_rejected" /\ Persist(h, "rejected", req[h].copy.rebase) /\ Go(h, "emit_rejected")
    <3>1. req[h].copy.rebase \in BOOLEAN
      BY RequestFacts DEF ProposalsInv, Copies
    <3> QED BY <1>4, <2>2, <3>1, PersistInv DEF PersistDecision
  <2> QED BY <1>4, <2>1, <2>2 DEF PersistDecision
<1>5. CASE EmitDecision(h)
  BY <1>5, SaysInv DEF EmitDecision
<1> QED BY <1>1, <1>2, <1>3, <1>4, <1>5

LEMMA BeginFacts ==
  ASSUME ProposalsInv, NEW h \in Handlers, NEW r \in Requests, NEW next \in Statements, Begin(h, next, r)
  PROVE  /\ Moves(h) /\ pc'[h] = next /\ req'[h] = r /\ pc[h] = "idle" /\ req[h].p = Null
         /\ pc' \in [Handlers -> Statements] /\ req' \in [Handlers -> Requests]
         /\ requests' \in 0..MaxRequests /\ requests' = requests + 1 /\ requests + 1 \in Marks
         /\ UNCHANGED <<now, crashes, torn>>
<1>1. TypeOK /\ HandlerInv(h) /\ pc[h] = "idle" /\ requests < MaxRequests
  BY DEF Begin, ProposalsInv
<1>2. requests + 1 \in 0..MaxRequests /\ requests + 1 \in Marks
  BY <1>1, ProposalsAssumption DEF TypeOK, Marks
<1> QED BY <1>1, <1>2, MoveFacts, CopyFacts DEF Begin, HandlerInv

\* A request that takes up a proposal: to create it, when nobody knows its id yet, or to decide
\* it, with a copy read while it is open.
LEMMA TakesUp ==
  ASSUME ProposalsInv, NEW h \in Handlers, NEW p \in Props, NEW r \in Requests,
         NEW next \in {"snap_row", "persist_rejected"}, Begin(h, next, r), r.p = p,
         UNCHANGED <<dbVars, clash>>, HandlerInv(h)',
         \/ /\ props[p].status = "none" /\ Holding(p) = {} /\ r.copy = NoProposal
            /\ next = "snap_row" /\ overlap' = overlap
         \/ LoadsOpen(h, p) /\ r.copy # NoProposal
  PROVE  ProposalsInv'
<1>1. /\ Moves(h) /\ pc'[h] = next /\ req'[h] = r /\ pc[h] = "idle" /\ req[h].p = Null
      /\ pc' \in [Handlers -> Statements] /\ req' \in [Handlers -> Requests]
      /\ requests' \in 0..MaxRequests /\ UNCHANGED <<now, crashes, torn>>
  BY BeginFacts DEF Statements
<1>2. TypeOK /\ BaseInv(p) /\ UNCHANGED <<rows, log, props, said, clash>>
  BY DEF ProposalsInv, dbVars
<1>3. overlap \subseteq overlap' /\ overlap' \subseteq overlap \union {p}
  BY DEF LoadsOpen
<1>4. TypeOK'
  BY <1>1, <1>2, <1>3 DEF TypeOK
<1>5. LogGrows /\ Applied(p)' = Applied(p) /\ BaseInv(p)'
  BY <1>2, SameLog, BaseStays
<1>6. h \notin Holding(p)
  BY <1>1, ProposalsAssumption DEF Holding
<1>7. DecisionInv(p)'
  <2> SUFFICES ASSUME p \notin overlap' PROVE DecisionInv(p)'
    BY DEF DecisionInv
  <2>1. DecisionInv(p) /\ p \notin overlap /\ Holding(p) = {}
    BY <1>3, <1>6 DEF ProposalsInv, LoadsOpen
  <2>2. Holding(p)' = {h} /\ ~Applying(p)
    BY <1>1, <2>1 DEF Holding, Moves, Applying
  <2>3. HeldStatus(h)' = props[p].status
    BY <1>1 DEF HeldStatus, Creating, LoadsOpen
  <2> QED BY <1>1, <1>2, <1>5, <2>1, <2>2, <2>3 DEF DecisionInv
<1>8. /\ \A q \in Props \ {p} : /\ props'[q] = props[q] /\ said'[q] = said[q]
                              /\ (q \in overlap' <=> q \in overlap) /\ (q \in torn' <=> q \in torn)
      /\ p \in torn => p \in torn'
      /\ req[h].p \in {p, Null} /\ req'[h].p \in {p, Null} /\ clash \subseteq clash'
      /\ UNCHANGED <<rows, log>>
  BY <1>1, <1>2, <1>3
<1>9. pc[h] \notin WritePcs /\ pc'[h] \notin WritePcs /\ pc[h] \notin ApplyPcs
  BY <1>1 DEF WritePcs, ApplyPcs
<1> QED BY <1>1, <1>4, <1>5, <1>7, <1>8, <1>9, LocalStep

LEMMA BeginsInv ==
  ASSUME ProposalsInv, NEW h \in Handlers, NEW p \in Props,
         BeginCreate(h, p) \/ BeginMerge(h, p) \/ BeginReject(h, p)
  PROVE  ProposalsInv'
<1>0. TypeOK /\ BaseInv(p) /\ props[p] \in Copies /\ <<>> \in Seq(SUBSET Marks) /\ Len(<<>>) = 0
  BY DEF ProposalsInv, TypeOK
<1>a. props[p].status = "open" => props[p] # NoProposal
  BY DEF NoProposal
<1>1. CASE BeginCreate(h, p)
  <2>1. PICK r \in Requests : /\ r = Request(p, Null, NoProposal, <<>>, FALSE) /\ Begin(h, "snap_row", r)
                             /\ r.p = p /\ r.copy = NoProposal /\ r.i = 1 /\ r.vers = <<>>
    <3>1. PICK r \in Requests : /\ r = Request(p, Null, NoProposal, <<>>, FALSE)
                               /\ r.p = p /\ r.copy = NoProposal /\ r.i = 1 /\ r.vers = <<>>
      <4>1. PICK r : r = Request(p, Null, NoProposal, <<>>, FALSE)
        OBVIOUS
      <4>2. r \in Requests
        BY <1>0, <4>1, CopyFacts
      <4> QED BY <4>1, <4>2 DEF Request
    <3> QED BY <1>1, <3>1 DEF BeginCreate
  <2>2. pc'[h] = "snap_row" /\ req'[h] = r
    BY <2>1, BeginFacts DEF Statements
  <2>3. HandlerInv(h)'
    <3>1. Len(r.vers) = 0 /\ r.i - 1 = 0
      <4>1. r.vers = <<>> /\ r.i = 1
        BY <2>1
      <4> QED BY <1>0, <4>1
    <3>2. ReadFrom(r.vers, r.i - 1)'
      BY <2>2, <3>1 DEF ReadFrom
    <3> QED BY <2>1, <2>2, <3>2 DEF HandlerInv, Merging, Creating
  <2>4. /\ props[p].status = "none" /\ Holding(p) = {} /\ overlap' = overlap
        /\ UNCHANGED <<dbVars, clash>>
    BY <1>1 DEF BeginCreate, NoProposal
  <2> QED BY <2>1, <2>3, <2>4, TakesUp
<1>2. CASE BeginMerge(h, p)
  <2>1. PICK stale \in BOOLEAN : stale <=> \E i \in DOMAIN Targets : Version(Targets[i]) # props[p].vers[i]
    OBVIOUS
  <2>2. PICK r \in Requests : /\ r = Request(p, Null, props[p], <<>>, stale) /\ Begin(h, "snap_row", r)
                             /\ r.p = p /\ r.copy = props[p] /\ r.i = 1 /\ r.plan = <<>>
                             /\ r.stale = stale
    <3>1. stale = \E i \in DOMAIN Targets : Version(Targets[i]) # props[p].vers[i]
      BY <2>1
    <3>2. PICK r \in Requests : /\ r = Request(p, Null, props[p], <<>>, stale)
                               /\ r.p = p /\ r.copy = props[p] /\ r.i = 1 /\ r.plan = <<>> /\ r.stale = stale
      <4>1. PICK r : r = Request(p, Null, props[p], <<>>, stale)
        OBVIOUS
      <4>2. r \in Requests
        BY <1>0, <4>1, CopyFacts
      <4> QED BY <4>1, <4>2 DEF Request
    <3> QED BY <1>2, <3>1, <3>2 DEF BeginMerge
  <2>3. pc'[h] = "snap_row" /\ req'[h] = r
    BY <2>2, BeginFacts DEF Statements
  <2>4. /\ LoadsOpen(h, p) /\ props[p].status = "open" /\ r.copy # NoProposal /\ log' = log
        /\ UNCHANGED <<dbVars, clash>>
    BY <1>2, <1>a, <2>2 DEF BeginMerge, LoadsOpen, dbVars
  <2>5. ReadFrom(props[p].vers, Len(Targets)) /\ props[p].vers \in Seq(Nat)
    BY <1>0, <2>4 DEF BaseInv, Copies
  <2>6. r.stale => \E j \in 1..Len(Targets) : Version(Targets[j]) > props[p].vers[j]
    <3> SUFFICES ASSUME r.stale PROVE \E j \in 1..Len(Targets) : Version(Targets[j]) > props[p].vers[j]
      OBVIOUS
    <3>1. PICK j \in 1..Len(Targets) : Version(Targets[j]) # props[p].vers[j]
      BY <2>1, <2>2, TargetFacts
    <3>2. Version(Targets[j]) \in Nat
      BY <1>0, TargetFacts, LogFacts
    <3>3. props[p].vers[j] \in Nat /\ props[p].vers[j] <= Version(Targets[j])
      BY <2>5 DEF ReadFrom
    <3> QED BY <3>1, <3>2, <3>3
  <2>7. HandlerInv(h)'
    BY <1>0, <2>2, <2>3, <2>4, <2>5, <2>6 DEF HandlerInv, ReadFrom, Merging, Creating, AheadOf, Version
  <2> QED BY <2>2, <2>4, <2>7, TakesUp
<1>3. CASE BeginReject(h, p)
  <2>1. /\ LoadsOpen(h, p) /\ props[p].status = "open" /\ props[p] # NoProposal /\ log' = log
        /\ UNCHANGED <<dbVars, clash>>
    BY <1>3, <1>a DEF BeginReject, LoadsOpen, dbVars
  <2>2. PICK r \in Requests : /\ r = Request(p, Null, props[p], <<>>, FALSE)
                             /\ Begin(h, "persist_rejected", r) /\ r.p = p /\ r.copy = props[p]
    <3>1. PICK r \in Requests : r = Request(p, Null, props[p], <<>>, FALSE) /\ r.p = p /\ r.copy = props[p]
      <4>1. PICK r : r = Request(p, Null, props[p], <<>>, FALSE)
        OBVIOUS
      <4>2. r \in Requests
        BY <1>0, <4>1, CopyFacts
      <4> QED BY <4>1, <4>2 DEF Request
    <3> QED BY <1>3, <3>1 DEF BeginReject
  <2>3. pc'[h] = "persist_rejected" /\ req'[h] = r
    BY <2>2, BeginFacts DEF Statements
  <2>4. HandlerInv(h)'
    BY <1>0, <2>1, <2>2, <2>3 DEF HandlerInv, BaseInv, ReadFrom, Merging, Creating, Version
  <2> QED BY <2>1, <2>2, <2>4, TakesUp
<1> QED BY <1>1, <1>2, <1>3

\* A step of h within its request, about p or about no proposal.
LEMMA RequestStep ==
  ASSUME ProposalsInv, NEW h \in Handlers, Moves(h), LogGrows, TypeOK', HandlerInv(h)',
         NEW p, req[h].p \in {p, Null}, req'[h].p \in {p, Null},
         \A q \in Props \ {p} : /\ props'[q] = props[q] /\ said'[q] = said[q] /\ Applied(q)' = Applied(q)
                               /\ (q \in overlap' <=> q \in overlap) /\ (q \in torn' <=> q \in torn),
         p \in Props => BaseInv(p)' /\ WholeInv(p)' /\ DecisionInv(p)',
         \A t \in Entities : RowInv(t)'
  PROVE  ProposalsInv'
<1>1. TypeOK
  BY DEF ProposalsInv
<1>2. \A g \in Handlers : HandlerInv(g)'
  BY <1>1, HandlerStays DEF ProposalsInv, Moves
<1>3. \A q \in Props \ {p} : BaseInv(q)' /\ WholeInv(q)' /\ DecisionInv(q)'
  <2> SUFFICES ASSUME NEW q \in Props, q # p PROVE BaseInv(q)' /\ WholeInv(q)' /\ DecisionInv(q)'
    OBVIOUS
  <2>1. req[h].p # q /\ req'[h].p # q
    BY ProposalsAssumption
  <2>2. BaseInv(q) /\ WholeInv(q) /\ DecisionInv(q)
    BY DEF ProposalsInv
  <2> QED BY <1>1, <2>1, <2>2, BaseStays, OtherProposal
<1> QED BY <1>2, <1>3 DEF ProposalsInv

\* A write of t begins: it is the only one, or a clash.
LEMMA RowBegins ==
  ASSUME NEW h \in Handlers, Moves(h), NEW t \in Entities, RowInv(t), ~Writes(h, t), Writes(h, t)',
         StartsWriting(h, t), log'[t] = log[t],
         pc'[h] = "write_back" => req'[h].plan[1] = Replayed(t),
         pc'[h] # "write_back" => rows'[t].attrs = req'[h].plan[req'[h].i]
  PROVE  RowInv(t)'
<1> SUFFICES ASSUME t \notin clash' PROVE RowInv(t)'
  BY DEF RowInv
<1>1. t \notin clash /\ \A g \in Handlers \ {h} : ~Writes(g, t)
  BY DEF StartsWriting
<1>2. \A g \in Handlers \ {h} : ~Writes(g, t)'
  BY <1>1 DEF Writes, Target, Moves
<1>3. Replayed(t)' = Replayed(t)
  BY DEF Replayed
<1> QED BY <1>2, <1>3 DEF RowInv

\* A write of t ends, with the row as the log says, if it was alone.
LEMMA RowEnds ==
  ASSUME NEW h \in Handlers, Moves(h), NEW t \in Entities, RowInv(t), Writes(h, t), ~Writes(h, t)',
         t \in clash => t \in clash',
         t \notin clash => rows'[t].attrs = Replayed(t)'
  PROVE  RowInv(t)'
<1> SUFFICES ASSUME t \notin clash, t \notin clash' PROVE RowInv(t)'
  BY DEF RowInv
<1>1. \A g \in Handlers \ {h} : ~Writes(g, t)
  BY DEF RowInv
<1>2. \A g \in Handlers : ~Writes(g, t)'
  BY <1>1 DEF Writes, Target, Moves
<1> QED BY <1>2 DEF RowInv

\* PUT of an entity and its reconcile begin with a read or a write of its row.
LEMMA WriterBegins ==
  ASSUME ProposalsInv, NEW h \in Handlers, NEW t \in Entities, PutUpdate(h, t) \/ ReconcileReplay(h, t)
  PROVE  ProposalsInv'
<1>1. TypeOK /\ RowInv(t) /\ Replayed(t) \in SUBSET Marks /\ NoProposal \in Copies
  BY LogFacts, CopyFacts DEF ProposalsInv
<1>2. PICK next \in {"emit_put", "write_back"}, attrs \in {{requests + 1}, Replayed(t)} :
        /\ Begin(h, next, Request(Null, t, NoProposal, <<attrs>>, FALSE)) /\ StartsWriting(h, t)
        /\ UNCHANGED <<log, props, said, overlap>>
        /\ next = "write_back" => attrs = Replayed(t) /\ rows' = rows
        /\ next = "emit_put" => /\ attrs = {requests + 1}
                              /\ rows' = [rows EXCEPT ![t] = [attrs |-> {requests + 1}, at |-> now]]
  BY DEF PutUpdate, ReconcileReplay, dbVars
<1>3. attrs \in SUBSET Marks
  <2>1. requests < MaxRequests
    BY <1>2 DEF Begin
  <2>2. requests + 1 \in Marks
    BY <1>1, <2>1, ProposalsAssumption DEF TypeOK, Marks
  <2> QED BY <1>1, <1>2, <2>2
<1>4. PICK r : r = Request(Null, t, NoProposal, <<attrs>>, FALSE)
  OBVIOUS
<1>5. r \in Requests
  <2>1. <<attrs>> \in Seq(SUBSET Marks)
    BY <1>3
  <2> QED BY <1>1, <1>4, <2>1, CopyFacts
<1>6. /\ r.p = Null /\ r.t = t /\ r.copy = NoProposal /\ r.i = 1 /\ r.plan = <<attrs>>
      /\ r.plan[1] = attrs /\ Len(r.plan) = 1
  BY <1>4 DEF Request
<1>7. /\ Moves(h) /\ pc'[h] = next /\ req'[h] = r /\ pc[h] = "idle" /\ req[h].p = Null
      /\ pc' \in [Handlers -> Statements] /\ req' \in [Handlers -> Requests]
      /\ requests' \in 0..MaxRequests /\ UNCHANGED <<now, crashes, torn>>
  <2>1. Begin(h, next, r) /\ next \in Statements
    BY <1>2, <1>4 DEF Statements
  <2> QED BY <1>5, <2>1, BeginFacts
<1>8. /\ rows' \in [Entities -> [attrs : SUBSET Marks, at : 0..MaxTime]]
      /\ \A u \in Entities \ {t} : rows'[u] = rows[u]
      /\ next = "emit_put" => rows'[t].attrs = attrs
  <2>1. now \in 0..MaxTime /\ rows \in [Entities -> [attrs : SUBSET Marks, at : 0..MaxTime]]
    BY <1>1 DEF TypeOK
  <2>2. CASE next = "write_back"
    BY <1>2, <2>1, <2>2
  <2>3. CASE next = "emit_put"
    <3>1. [attrs |-> attrs, at |-> now] \in [attrs : SUBSET Marks, at : 0..MaxTime]
      BY <1>3, <2>1
    <3>2. rows' = [rows EXCEPT ![t] = [attrs |-> attrs, at |-> now]]
      BY <1>2, <2>3
    <3> QED BY <2>1, <3>1, <3>2
  <2> QED BY <2>2, <2>3
<1>9. clash \subseteq clash' /\ clash' \subseteq clash \union {t}
  BY <1>2 DEF StartsWriting
<1>10. TypeOK'
  BY <1>1, <1>2, <1>7, <1>8, <1>9 DEF TypeOK
<1>11. LogGrows /\ \A q \in Props : Applied(q)' = Applied(q)
  BY <1>1, <1>2, SameLog
<1>12. HandlerInv(h)'
  BY <1>6, <1>7 DEF HandlerInv, Merging
<1>13. \A u \in Entities : ~Writes(h, u) /\ (Writes(h, u)' <=> u = t)
  BY <1>6, <1>7 DEF Writes
<1>14. RowInv(t)'
  BY <1>1, <1>2, <1>6, <1>7, <1>8, <1>13, RowBegins
<1>15. ASSUME NEW u \in Entities \ {t} PROVE RowInv(u)'
  <2>1. RowInv(u) /\ ~Writes(h, u) /\ ~Writes(h, u)' /\ rows'[u] = rows[u] /\ log'[u] = log[u]
    BY <1>2, <1>8, <1>13 DEF ProposalsInv
  <2> QED BY <1>7, <1>9, <2>1, OtherRow
<1>16. \A q \in Props \ {Null} : /\ props'[q] = props[q] /\ said'[q] = said[q] /\ Applied(q)' = Applied(q)
                               /\ (q \in overlap' <=> q \in overlap) /\ (q \in torn' <=> q \in torn)
  BY <1>2, <1>7, <1>11
<1> QED BY <1>6, <1>7, <1>10, <1>11, <1>12, <1>14, <1>15, <1>16, RequestStep, ProposalsAssumption

\* They end with the event of what was put, or with the row of what was replayed.
LEMMA WriterEnds ==
  ASSUME ProposalsInv, NEW h \in Handlers, PutEmit(h) \/ ReconcileWrite(h)
  PROVE  ProposalsInv'
<1>1. /\ TypeOK /\ HandlerInv(h) /\ pc[h] \in {"emit_put", "write_back"} /\ Ends(h)
      /\ UNCHANGED <<props, said, now, requests, crashes, histVars>>
  BY DEF PutEmit, ReconcileWrite, ProposalsInv
<1>2. PICK t \in Entities : t = req[h].t
  BY <1>1 DEF HandlerInv
<1>3. req[h].p = Null /\ req[h].i = 1 /\ req[h].plan[1] \in SUBSET Marks
  <2>1. Len(req[h].plan) = 1 /\ req[h].plan \in Seq(SUBSET Marks)
    BY <1>1, RequestFacts DEF HandlerInv
  <2>2. req[h].plan[1] \in SUBSET Marks
    BY <2>1
  <2> QED BY <1>1, <2>2 DEF HandlerInv
<1>4. /\ Moves(h) /\ pc'[h] = "idle" /\ req'[h] = NoRequest /\ req'[h].p = Null /\ HandlerInv(h)'
      /\ pc' \in [Handlers -> Statements] /\ req' \in [Handlers -> Requests]
  BY <1>1, EndFacts, CopyFacts
<1>5. \A u \in Entities : (Writes(h, u) <=> u = t) /\ ~Writes(h, u)'
  BY <1>1, <1>2, <1>4 DEF Writes
<1>6. RowInv(t) /\ (t \notin clash =>
        IF pc[h] = "write_back" THEN req[h].plan[1] = Replayed(t) ELSE rows[t].attrs = req[h].plan[1])
  BY <1>3, <1>5 DEF ProposalsInv, RowInv
<1>7. /\ LogGrows /\ \A q \in Props : Applied(q)' = Applied(q)
      /\ \A u \in Entities \ {t} : rows'[u] = rows[u] /\ log'[u] = log[u]
      /\ t \notin clash => rows'[t].attrs = Replayed(t)'
      /\ TypeOK'
  <2>1. CASE PutEmit(h)
    <3>1. pc[h] = "emit_put" /\ rows' = rows
      BY <2>1 DEF PutEmit
    <3>2. PICK e \in Events : /\ log' = [log EXCEPT ![t] = Append(log[t], e)]
                             /\ e.attrs = req[h].plan[1] /\ e.by = Null
      <4>1. Event(req[h].plan[1], Null, 0, FALSE) \in Events
        BY <1>3 DEF Event, Events
      <4> QED BY <1>2, <2>1, <4>1 DEF PutEmit, Event
    <3>3. /\ log' \in [Entities -> Seq(Events)] /\ \A u \in Entities : log'[u] # <<>>
          /\ \A u \in Entities \ {t} : log'[u] = log[u]
          /\ Len(log'[t]) = Len(log[t]) + 1 /\ Replayed(t)' = e.attrs
          /\ \A q \in Props : Applied(q)' = IF e.by = q THEN Applied(q) \union {t} ELSE Applied(q)
      BY <1>1, <3>2, AppendEvent
    <3>4. \A q \in Props : Applied(q)' = Applied(q)
      BY <3>2, <3>3, ProposalsAssumption
    <3>5. LogGrows
      BY <1>1, <3>3, <3>4, LogFacts DEF LogGrows
    <3>6. TypeOK'
      BY <1>1, <1>4, <3>1, <3>3 DEF TypeOK, histVars
    <3> QED BY <1>6, <3>1, <3>2, <3>3, <3>4, <3>5, <3>6
  <2>2. CASE ReconcileWrite(h)
    <3>1. /\ pc[h] = "write_back" /\ log' = log
          /\ rows' = [rows EXCEPT ![t] = [attrs |-> req[h].plan[1], at |-> now]]
      BY <1>2, <2>2 DEF ReconcileWrite
    <3>2. /\ rows' \in [Entities -> [attrs : SUBSET Marks, at : 0..MaxTime]]
          /\ rows'[t].attrs = req[h].plan[1] /\ \A u \in Entities \ {t} : rows'[u] = rows[u]
      BY <1>1, <1>3, <3>1 DEF TypeOK
    <3>3. Replayed(t)' = Replayed(t) /\ LogGrows /\ \A q \in Props : Applied(q)' = Applied(q)
      BY <1>1, <3>1, SameLog DEF Replayed
    <3>4. TypeOK'
      BY <1>1, <1>4, <3>1, <3>2 DEF TypeOK, histVars
    <3> QED BY <1>6, <3>1, <3>2, <3>3, <3>4
  <2> QED BY <2>1, <2>2
<1>8. RowInv(t)'
  <2>1. Writes(h, t) /\ ~Writes(h, t)' /\ (t \in clash => t \in clash')
    BY <1>1, <1>5 DEF histVars
  <2> QED BY <1>4, <1>6, <1>7, <2>1, RowEnds
<1>9. ASSUME NEW u \in Entities \ {t} PROVE RowInv(u)'
  <2>1. RowInv(u) /\ ~Writes(h, u) /\ ~Writes(h, u)' /\ rows'[u] = rows[u] /\ log'[u] = log[u]
        /\ (u \in clash => u \in clash')
    BY <1>1, <1>5, <1>7 DEF ProposalsInv, histVars
  <2> QED BY <1>4, <2>1, OtherRow
<1>10. \A q \in Props \ {Null} : /\ props'[q] = props[q] /\ said'[q] = said[q] /\ Applied(q)' = Applied(q)
                               /\ (q \in overlap' <=> q \in overlap) /\ (q \in torn' <=> q \in torn)
  BY <1>1, <1>7 DEF histVars
<1> QED BY <1>3, <1>4, <1>7, <1>8, <1>9, <1>10, RequestStep, ProposalsAssumption

\* A merge at work: what it has applied it is still at, or has done.
LEMMA ApplyStep ==
  ASSUME ProposalsInv, NEW h \in Handlers, Moves(h), LogGrows, TypeOK', HandlerInv(h)',
         pc[h] \in {"apply", "apply_emit"}, pc'[h] \in ApplyPcs,
         NEW p \in Props, req[h].p = p, req'[h].p = p,
         UNCHANGED <<props, said, overlap, torn>>,
         \A q \in Props \ {p} : Applied(q)' = Applied(q),
         \A t \in Entities : RowInv(t)'
  PROVE  ProposalsInv'
<1>1. TypeOK /\ BaseInv(p)
  BY DEF ProposalsInv
<1>2. BaseInv(p)'
  BY <1>1, BaseStays
<1>3. h \in Holding(p)' /\ Applying(p)'
  BY DEF Applying, Holding, ApplyPcs
<1>4. WholeInv(p)'
  BY <1>3 DEF WholeInv
<1>5. DecisionInv(p)'
  <2> SUFFICES ASSUME p \notin overlap PROVE DecisionInv(p)'
    BY DEF DecisionInv
  <2>1. /\ DecisionInv(p) /\ Holding(p) = {h} /\ props[p].status = HeldStatus(h)
        /\ \A g \in Handlers \ {h} : req[g].p # p
    BY HeldAlone
  <2>2. props[p].status = "open" /\ HeldStatus(h)' = "open"
    BY <2>1 DEF HeldStatus, ApplyPcs
  <2>3. Holding(p)' = {h}
    BY <2>1 DEF Holding, Moves
  <2> QED BY <1>3, <2>1, <2>2, <2>3 DEF DecisionInv
<1>6. \A q \in Props \ {p} : /\ props'[q] = props[q] /\ said'[q] = said[q] /\ Applied(q)' = Applied(q)
                          /\ (q \in overlap' <=> q \in overlap) /\ (q \in torn' <=> q \in torn)
  OBVIOUS
<1> QED BY <1>2, <1>4, <1>5, <1>6, RequestStep

LEMMA PlanFacts ==
  ASSUME TypeOK, NEW h \in Handlers, HandlerInv(h), pc[h] \in Merging
  PROVE  /\ req[h].p \in Props /\ Len(req[h].plan) = Len(Targets) /\ req[h].plan[req[h].i] \in SUBSET Marks
         /\ req[h].copy.vers[req[h].i] \in Nat
<1>1. /\ req[h].p \in Props /\ Len(req[h].plan) = Len(Targets) /\ req[h].copy # NoProposal
      /\ Len(req[h].copy.vers) = Len(Targets)
  BY DEF HandlerInv, Merging, Creating, ReadFrom
<1>2. /\ req[h].plan \in Seq(SUBSET Marks) /\ req[h].copy.vers \in Seq(Nat) /\ req[h].i \in 1..Len(Targets)
  BY RequestFacts DEF Copies
<1>3. req[h].plan[req[h].i] \in SUBSET Marks
  <2>1. \A w \in Seq(SUBSET Marks) : \A k \in 1..Len(w) : w[k] \in SUBSET Marks
    OBVIOUS
  <2> QED BY <1>1, <1>2, <2>1
<1>4. req[h].copy.vers[req[h].i] \in Nat
  <2>1. \A w \in Seq(Nat) : \A k \in 1..Len(w) : w[k] \in Nat
    OBVIOUS
  <2> QED BY <1>1, <1>2, <2>1
<1> QED BY <1>1, <1>3, <1>4

LEMMA ApplyRowInv ==
  ASSUME ProposalsInv, NEW h \in Handlers, ApplyRow(h)
  PROVE  ProposalsInv'
<1>1. /\ TypeOK /\ HandlerInv(h) /\ pc[h] = "apply" /\ Go(h, "apply_emit") /\ StartsWriting(h, Target(h))
      /\ UNCHANGED <<log, props, said, now, req, requests, crashes, overlap, torn>>
  BY DEF ApplyRow, ProposalsInv
<1>2. PICK t \in Entities, p \in Props : t = Target(h) /\ p = req[h].p
  BY <1>1, RequestFacts, PlanFacts DEF Merging
<1>3. /\ Moves(h) /\ pc'[h] = "apply_emit" /\ req'[h] = req[h]
      /\ pc' \in [Handlers -> Statements] /\ req' \in [Handlers -> Requests]
  BY <1>1, GoFacts DEF Statements
<1>4. req[h].plan[req[h].i] \in SUBSET Marks /\ req[h].at \in 0..MaxTime
  BY <1>1, RequestFacts, PlanFacts DEF Merging
<1>5. rows' = [rows EXCEPT ![t] = [attrs |-> req[h].plan[req[h].i], at |-> req[h].at]]
  BY <1>2 DEF ApplyRow
<1>6. /\ rows' \in [Entities -> [attrs : SUBSET Marks, at : 0..MaxTime]]
      /\ rows'[t].attrs = req[h].plan[req[h].i] /\ \A u \in Entities \ {t} : rows'[u] = rows[u]
  BY <1>1, <1>4, <1>5 DEF TypeOK
<1>7. clash \subseteq clash' /\ clash' \subseteq clash \union {t}
  BY <1>1, <1>2 DEF StartsWriting
<1>8. TypeOK'
  BY <1>1, <1>3, <1>6, <1>7 DEF TypeOK
<1>9. LogGrows /\ \A q \in Props : Applied(q)' = Applied(q)
  BY <1>1, SameLog
<1>10. HandlerInv(h)'
  <2>1. (Creating(h)' <=> Creating(h)) /\ Applied(req[h].p)' = Applied(req[h].p)
    BY <1>1, <1>3 DEF Creating, Applied
  <2> QED BY <1>1, <1>3, <2>1 DEF HandlerInv, ReadFrom, Version, Merging
<1>11. \A u \in Entities : ~Writes(h, u) /\ (Writes(h, u)' <=> u = t)
  BY <1>1, <1>2, <1>3 DEF Writes, Target
<1>12. RowInv(t)'
  <2>1. RowInv(t) /\ ~Writes(h, t) /\ Writes(h, t)' /\ StartsWriting(h, t) /\ log'[t] = log[t]
    BY <1>1, <1>2, <1>11 DEF ProposalsInv
  <2> QED BY <1>3, <1>6, <2>1, RowBegins
<1>13. ASSUME NEW u \in Entities \ {t} PROVE RowInv(u)'
  <2>1. RowInv(u) /\ ~Writes(h, u) /\ ~Writes(h, u)' /\ rows'[u] = rows[u] /\ log'[u] = log[u]
    BY <1>1, <1>6, <1>11 DEF ProposalsInv
  <2> QED BY <1>3, <1>7, <2>1, OtherRow
<1> QED BY <1>1, <1>2, <1>3, <1>8, <1>9, <1>10, <1>12, <1>13, ApplyStep DEF ApplyPcs

LEMMA ApplyEmitInv ==
  ASSUME ProposalsInv, NEW h \in Handlers, ApplyEmit(h)
  PROVE  ProposalsInv'
<1>1. /\ TypeOK /\ HandlerInv(h) /\ pc[h] = "apply_emit"
      /\ req' = [req EXCEPT ![h] = [req[h] EXCEPT !.i = NextTarget(h)]]
      /\ UNCHANGED <<rows, props, said, now, requests, crashes, histVars>>
  BY DEF ApplyEmit, ProposalsInv
<1>2. PICK t \in Entities, p \in Props : t = Target(h) /\ p = req[h].p
  BY <1>1, RequestFacts, PlanFacts DEF Merging
<1>3. PICK next \in {"apply", "persist_merged"} :
        Go(h, next) /\ (next = "persist_merged" <=> req[h].i = Len(Targets))
  BY DEF ApplyEmit, AfterLast
<1>4. PICK e \in Events : /\ log' = [log EXCEPT ![t] = Append(log[t], e)]
                         /\ e.attrs = req[h].plan[req[h].i] /\ e.by = p
  <2>1. /\ req[h].plan[req[h].i] \in SUBSET Marks /\ req[h].copy.vers[req[h].i] \in Nat
        /\ req[h].cause \in BOOLEAN
    BY <1>1, RequestFacts, PlanFacts DEF Merging, Requests
  <2>2. Event(req[h].plan[req[h].i], p, req[h].copy.vers[req[h].i], req[h].cause) \in Events
    BY <2>1 DEF Event, Events
  <2> QED BY <1>2, <2>2 DEF ApplyEmit, Event
<1>5. /\ log' \in [Entities -> Seq(Events)] /\ \A u \in Entities : log'[u] # <<>>
      /\ \A u \in Entities \ {t} : log'[u] = log[u]
      /\ Len(log'[t]) = Len(log[t]) + 1 /\ Replayed(t)' = e.attrs
      /\ \A q \in Props : Applied(q)' = IF e.by = q THEN Applied(q) \union {t} ELSE Applied(q)
  BY <1>1, <1>4, AppendEvent
<1>6. /\ Applied(p)' = Applied(p) \union {t} /\ \A q \in Props \ {p} : Applied(q)' = Applied(q)
  BY <1>4, <1>5
<1>7. LogGrows
  <2>1. \A u \in Entities : Len(log'[u]) \in Nat /\ Len(log[u]) <= Len(log'[u])
    <3> SUFFICES ASSUME NEW u \in Entities PROVE Len(log'[u]) \in Nat /\ Len(log[u]) <= Len(log'[u])
      OBVIOUS
    <3>1. Len(log[u]) \in Nat
      BY <1>1, LogFacts
    <3> QED BY <1>5, <3>1
  <2>2. \A q \in Props : Applied(q) \subseteq Applied(q)'
    BY <1>6
  <2> QED BY <2>1, <2>2 DEF LogGrows
<1>8. NextTarget(h) \in DOMAIN Targets
  BY <1>1, RequestFacts, TargetFacts
<1>9. PICK r \in Requests : /\ req' = [req EXCEPT ![h] = r] /\ r = [req[h] EXCEPT !.i = NextTarget(h)]
  BY <1>1, <1>8, RequestFacts DEF Requests
<1>10. /\ r.p = p /\ r.copy = req[h].copy /\ r.i = NextTarget(h) /\ r.vers = req[h].vers
       /\ r.plan = req[h].plan /\ r.drift = req[h].drift /\ r.stale = req[h].stale
  BY <1>1, <1>2, <1>9, RequestFacts DEF Requests
<1>11. /\ Moves(h) /\ pc'[h] = next /\ req'[h] = r
       /\ pc' \in [Handlers -> Statements] /\ req' \in [Handlers -> Requests]
  BY <1>1, <1>3, <1>9, MoveFacts DEF Statements
<1>12. TypeOK'
  BY <1>1, <1>5, <1>11 DEF TypeOK, histVars
<1>13. \A j \in 1..req[h].i : Targets[j] \in Applied(p)'
  <2>1. \A j \in 1..(req[h].i - 1) : Targets[j] \in Applied(p)
    BY <1>1, <1>2 DEF HandlerInv
  <2>2. \A j \in 1..req[h].i : j = req[h].i \/ j \in 1..(req[h].i - 1)
    BY <1>1, RequestFacts, TargetFacts
  <2> QED BY <1>2, <1>6, <2>1, <2>2 DEF Target
<1>14. next = "persist_merged" => Applied(p)' = Entities
  <2>1. next = "persist_merged" => \A u \in Entities : u \in Applied(p)'
    BY <1>3, <1>13, TargetFacts
  <2>2. Applied(p)' \subseteq Entities
    BY DEF Applied
  <2> QED BY <2>1, <2>2
<1>15. next = "apply" => \A j \in 1..(r.i - 1) : Targets[j] \in Applied(p)'
  <2>1. next = "apply" => r.i = req[h].i + 1
    BY <1>1, <1>3, <1>10, RequestFacts DEF NextTarget
  <2>2. next = "apply" => r.i - 1 = req[h].i
    BY <1>1, <2>1, RequestFacts, TargetFacts
  <2> QED BY <1>13, <2>2
<1>16. HandlerInv(h)'
  <2>1. (Creating(h)' <=> Creating(h)) /\ Applied(req[h].p)' = Applied(p)'
    BY <1>10, <1>11 DEF Creating, Applied
  <2>2. PICK c : c = req[h].copy
    OBVIOUS
  <2>3. c # NoProposal => c.status = "open" /\ ReadFrom(c.vers, Len(Targets))'
    <3>1. c.vers \in Seq(Nat) /\ Len(Targets) \in 0..Len(Targets)
      BY <1>1, <2>2, RequestFacts, TargetFacts DEF Copies
    <3>2. c # NoProposal => c.status = "open" /\ ReadFrom(c.vers, Len(Targets))
      BY <1>1, <2>2 DEF HandlerInv
    <3>3. \A v \in Seq(Nat) : \A n \in 0..Len(Targets) : ReadFrom(v, n) => ReadFrom(v, n)'
      BY <1>1, <1>7, ReadStays DEF ReadFrom, Version
    <3> QED BY <3>1, <3>2, <3>3
  <2> QED BY <1>1, <1>10, <1>11, <1>14, <1>15, <2>1, <2>2, <2>3 DEF HandlerInv, ReadFrom, Merging
<1>17. \A u \in Entities : (Writes(h, u) <=> u = t) /\ ~Writes(h, u)'
  BY <1>1, <1>2, <1>11 DEF Writes
<1>18. RowInv(t)'
  <2>1. Writes(h, t) /\ ~Writes(h, t)' /\ RowInv(t) /\ (t \in clash => t \in clash')
    BY <1>1, <1>17 DEF ProposalsInv, histVars
  <2>2. t \notin clash => rows'[t].attrs = Replayed(t)'
    BY <1>1, <1>4, <1>5, <2>1 DEF RowInv
  <2> QED BY <1>11, <2>1, <2>2, RowEnds
<1>19. ASSUME NEW u \in Entities \ {t} PROVE RowInv(u)'
  <2>1. RowInv(u) /\ ~Writes(h, u) /\ ~Writes(h, u)' /\ rows'[u] = rows[u] /\ log'[u] = log[u]
        /\ (u \in clash => u \in clash')
    BY <1>1, <1>5, <1>17 DEF ProposalsInv, histVars
  <2> QED BY <1>11, <2>1, OtherRow
<1> QED BY <1>1, <1>2, <1>6, <1>7, <1>10, <1>11, <1>12, <1>16, <1>18, <1>19, ApplyStep DEF ApplyPcs, histVars

\* A handler that dies leaves its mark in the histories, of a merge or of a write.
LEMMA CrashInv ==
  ASSUME ProposalsInv, NEW h \in Handlers, Crash(h)
  PROVE  ProposalsInv'
<1>1. /\ TypeOK /\ HandlerInv(h) /\ Ends(h) /\ crashes < MaxCrashes /\ crashes' = crashes + 1
      /\ clash' = clash \union {t \in Entities : Writes(h, t)}
      /\ torn' = IF pc[h] \in ApplyPcs THEN torn \union {req[h].p} ELSE torn
      /\ UNCHANGED <<rows, log, props, said, now, requests, overlap>>
  BY DEF Crash, ProposalsInv, dbVars, ApplyPcs
<1>2. /\ Moves(h) /\ pc'[h] = "idle" /\ req'[h].p = Null /\ HandlerInv(h)'
      /\ pc' \in [Handlers -> Statements] /\ req' \in [Handlers -> Requests]
  BY <1>1, EndFacts, CopyFacts
<1>3. PICK p \in Props \union {Null} : p = req[h].p
  BY <1>1, RequestFacts DEF Requests
<1>4. pc[h] \in ApplyPcs => p \in Props
  BY <1>1, <1>3 DEF HandlerInv, ApplyPcs
<1>5. torn \subseteq torn' /\ torn' \subseteq torn \union {p} /\ torn' \subseteq Props
      /\ (pc[h] \in ApplyPcs => p \in torn')
  BY <1>1, <1>3, <1>4 DEF TypeOK
<1>6. TypeOK'
  <2>1. crashes' \in 0..MaxCrashes
    BY <1>1, ProposalsAssumption DEF TypeOK
  <2> QED BY <1>1, <1>2, <1>5, <2>1 DEF TypeOK
<1>7. LogGrows /\ \A q \in Props : Applied(q)' = Applied(q)
  BY <1>1, SameLog
<1>8. ASSUME NEW t \in Entities PROVE RowInv(t)'
  <2>1. CASE Writes(h, t)
    BY <1>1, <2>1 DEF RowInv
  <2>2. CASE ~Writes(h, t)
    <3>1. ~Writes(h, t)' /\ RowInv(t) /\ rows'[t] = rows[t] /\ log'[t] = log[t] /\ (t \in clash => t \in clash')
      BY <1>1, <1>2 DEF Writes, ProposalsInv
    <3> QED BY <1>2, <2>2, <3>1, OtherRow
  <2> QED BY <2>1, <2>2
<1>9. ASSUME p \in Props PROVE BaseInv(p)' /\ WholeInv(p)' /\ DecisionInv(p)'
  <2>1. BaseInv(p) /\ WholeInv(p) /\ DecisionInv(p) /\ Applied(p)' = Applied(p)
    BY <1>7, <1>9 DEF ProposalsInv
  <2>2. BaseInv(p)'
    BY <1>1, <1>7, <1>9, <2>1, BaseStays
  <2>3. WholeInv(p)'
    <3>1. ASSUME NEW g \in Handlers \ {h}, g \in Holding(p), pc[g] \in ApplyPcs PROVE Applying(p)'
      BY <1>2, <3>1 DEF Moves, Holding, Applying, ApplyPcs
    <3>2. Applying(p) => Applying(p)' \/ p \in torn'
      BY <1>5, <3>1 DEF Applying, Holding, ApplyPcs
    <3> QED BY <1>5, <2>1, <3>2 DEF WholeInv
  <2>4. DecisionInv(p)'
    <3> SUFFICES ASSUME p \notin overlap PROVE DecisionInv(p)'
      BY <1>1 DEF DecisionInv
    <3>1. /\ Holding(p) = {h} /\ (Applying(p) <=> pc[h] \in ApplyPcs)
          /\ \A g \in Handlers \ {h} : req[g].p # p
      BY <1>3, <1>9, HeldAlone
    <3>2. Holding(p)' = {}
      BY <1>2, <1>9, <3>1, ProposalsAssumption DEF Holding, Moves
    <3> QED BY <1>1, <1>5, <2>1, <3>1, <3>2 DEF DecisionInv
  <2> QED BY <2>2, <2>3, <2>4
<1>10. \A q \in Props \ {p} : /\ props'[q] = props[q] /\ said'[q] = said[q] /\ Applied(q)' = Applied(q)
                           /\ (q \in overlap' <=> q \in overlap) /\ (q \in torn' <=> q \in torn)
  BY <1>1, <1>5, <1>7
<1>11. req[h].p \in {p, Null} /\ req'[h].p \in {p, Null}
  BY <1>2, <1>3
<1> QED BY <1>2, <1>6, <1>7, <1>8, <1>9, <1>10, <1>11, RequestStep

LEMMA ProposalsStutter ==
  ASSUME ProposalsInv, UNCHANGED <<dbVars, pc, req, requests, crashes, histVars>>, now' \in 0..MaxTime
  PROVE  ProposalsInv'
<1>1. UNCHANGED <<rows, log, props, said, pc, req, requests, crashes, overlap, torn, clash>>
  BY DEF dbVars, histVars
<1>2. TypeOK'
  BY <1>1 DEF ProposalsInv, TypeOK
<1>3. LogGrows
  BY <1>1, SameLog DEF ProposalsInv
<1>4. \A h \in Handlers : HandlerInv(h)'
  BY <1>1, <1>3, HandlerStays DEF ProposalsInv
<1>5. \A p \in Props : BaseInv(p)'
  BY <1>1, <1>3, BaseStays DEF ProposalsInv
<1>6. \A p \in Props : WholeInv(p)' /\ DecisionInv(p)'
  BY <1>1 DEF ProposalsInv, WholeInv, DecisionInv, Applying, Applied, Holding, HeldStatus, Creating
<1>7. \A t \in Entities : RowInv(t)'
  BY <1>1 DEF ProposalsInv, RowInv, Writes, Target, Replayed
<1> QED BY <1>2, <1>4, <1>5, <1>6, <1>7 DEF ProposalsInv

LEMMA ProposalsInitInv == Init => ProposalsInv
<1> SUFFICES ASSUME Init PROVE ProposalsInv
  OBVIOUS
<1>1. 0 \in Marks /\ 0 \in 0..MaxTime /\ 0 \in 0..MaxRequests /\ 0 \in 0..MaxCrashes
  BY ProposalsAssumption DEF Marks
<1>2. PICK e \in Events : e.attrs = {0} /\ e.by = Null /\ \A t \in Entities : log[t] = <<e>>
  <2>1. [attrs |-> {0}, by |-> Null, base |-> 0, cause |-> FALSE] \in Events
    BY <1>1 DEF Events
  <2> QED BY <2>1 DEF Init
<1>3. \A t \in Entities : log[t] = <<e>> /\ log[t] \in Seq(Events) /\ log[t] # <<>> /\ Replayed(t) = {0}
  <2>1. <<e>> \in Seq(Events) /\ <<e>> # <<>> /\ Len(<<e>>) = 1 /\ <<e>>[1] = e
    OBVIOUS
  <2>2. \A t \in Entities : Replayed(t) = {0}
    BY <1>2, <2>1 DEF Replayed, Last
  <2>3. ASSUME NEW t \in Entities PROVE log[t] = <<e>> /\ log[t] \in Seq(Events) /\ log[t] # <<>>
    BY <1>2, <2>1
  <2> QED BY <2>2, <2>3
<1>4. \A h \in Handlers : pc[h] = "idle" /\ req[h] = NoRequest
  BY DEF Init
<1>5. TypeOK
  <2>1. rows \in [Entities -> [attrs : SUBSET Marks, at : 0..MaxTime]]
    BY <1>1 DEF Init
  <2>2. log \in [Entities -> Seq(Events)] /\ \A t \in Entities : log[t] # <<>>
    BY <1>3 DEF Init
  <2>3. props \in [Props -> Copies] /\ req \in [Handlers -> Requests] /\ pc \in [Handlers -> Statements]
    BY CopyFacts DEF Init, Statements
  <2>4. said \in [Props -> SUBSET {"created", "merged", "rejected", "needs_rebase"}]
    BY DEF Init
  <2> QED BY <1>1, <2>1, <2>2, <2>3, <2>4 DEF Init, TypeOK
<1>6. \A h \in Handlers : HandlerInv(h)
  BY <1>4, CopyFacts DEF HandlerInv, Merging
<1>7. \A p \in Props : Applied(p) = {} /\ Holding(p) = {} /\ props[p].status = "none" /\ said[p] = {}
  <2> SUFFICES ASSUME NEW p \in Props
               PROVE  Applied(p) = {} /\ Holding(p) = {} /\ props[p].status = "none" /\ said[p] = {}
    OBVIOUS
  <2>1. \A t \in Entities : \A i \in DOMAIN log[t] : log[t][i].by # p
    BY <1>2, <1>3, ProposalsAssumption
  <2>2. Applied(p) = {}
    BY <2>1 DEF Applied
  <2>3. Holding(p) = {}
    BY <1>4, CopyFacts, ProposalsAssumption DEF Holding
  <2> QED BY <2>2, <2>3 DEF Init, NoProposal
<1>8. \A p \in Props : BaseInv(p) /\ WholeInv(p) /\ DecisionInv(p)
  BY <1>7 DEF BaseInv, WholeInv, DecisionInv
<1>9. \A t \in Entities : RowInv(t)
  <2>1. \A t \in Entities : \A h \in Handlers : ~Writes(h, t)
    BY <1>4 DEF Writes
  <2>2. \A t \in Entities : rows[t].attrs = Replayed(t)
    BY <1>3 DEF Init
  <2> QED BY <2>1, <2>2 DEF RowInv
<1> QED BY <1>5, <1>6, <1>8, <1>9 DEF ProposalsInv

LEMMA ProposalsNextInv == ProposalsInv /\ [Next]_vars => ProposalsInv'
<1> SUFFICES ASSUME ProposalsInv, [Next]_vars PROVE ProposalsInv'
  OBVIOUS
<1>1. CASE Tick
  <2>1. now' \in 0..MaxTime
    BY <1>1, ProposalsAssumption DEF Tick, ProposalsInv, TypeOK
  <2> QED BY <1>1, <2>1, ProposalsStutter DEF Tick
<1>2. ASSUME NEW h \in Handlers, Step(h) PROVE ProposalsInv'
  BY <1>2, WriterEnds, SnapRowInv, SnapBaseInv, CheckTargetInv, ReadCauseInv, DecideInv, ApplyRowInv,
     ApplyEmitInv DEF Step
<1>3. ASSUME NEW h \in Handlers, Crash(h) PROVE ProposalsInv'
  BY <1>3, CrashInv
<1>4. ASSUME NEW h \in Handlers, NEW t \in Entities, PutUpdate(h, t) \/ ReconcileReplay(h, t) PROVE ProposalsInv'
  BY <1>4, WriterBegins
<1>5. ASSUME NEW h \in Handlers, NEW p \in Props, BeginCreate(h, p) \/ BeginMerge(h, p) \/ BeginReject(h, p)
      PROVE ProposalsInv'
  BY <1>5, BeginsInv
<1>6. CASE UNCHANGED vars
  <2>1. now' \in 0..MaxTime
    BY <1>6 DEF vars, ProposalsInv, TypeOK
  <2> QED BY <1>6, <2>1, ProposalsStutter DEF vars
<1> QED BY <1>1, <1>2, <1>3, <1>4, <1>5, <1>6 DEF Next

LEMMA ProposalsInvariant == Spec => []ProposalsInv
BY ProposalsInitInv, ProposalsNextInv, PTL DEF Spec

\* Every variable of the handlers keeps its type, the plan of a merge among them.
THEOREM TypeCorrect == Spec => []TypeOK
<1>1. ProposalsInv => TypeOK
  BY DEF ProposalsInv
<1> QED BY <1>1, ProposalsInvariant, PTL

\* A merge is on all of its targets or on none, unless it died half way, and never goes over an
\* update that was logged before it began, however many requests interleave with it
\* (proposal.rs:451-569).
THEOREM MergesWhole == Spec => []MergesAreWhole
<1>1. ProposalsInv => MergesAreWhole
  BY DEF ProposalsInv, MergesAreWhole, AllOrNothing, DriftIsSeen, WholeInv, HandlerInv, Merging
<1> QED BY <1>1, ProposalsInvariant, PTL

\* Of a proposal that no two handlers held open copies of, a merge is on all targets and final,
\* and a rejection final and on none (proposal.rs:440-588).
THEOREM DecisionsHold == Spec => []DecisionHolds
<1>1. ProposalsInv => DecisionHolds
  <2> SUFFICES ASSUME ProposalsInv, NEW p \in Props \ overlap
               PROVE  /\ ~({"merged", "rejected"} \subseteq said[p])
                      /\ props[p].status = "merged" => Applied(p) = Entities
                      /\ props[p].status = "rejected" /\ p \notin torn => Applied(p) = {}
    BY DEF DecisionHolds
  <2>1. DecisionInv(p) /\ props[p].status \in {"none", "open", "merged", "rejected"}
    BY DEF ProposalsInv, TypeOK, Copies
  <2> QED BY <2>1 DEF DecisionInv
<1> QED BY <1>1, ProposalsInvariant, PTL

\* Where no two writers of an entity met and none died, its row is what its log replays to
\* (reconcile.rs:29-80).
THEOREM RowsFollowLog == Spec => []RowFollowsLog
<1>1. ProposalsInv => RowFollowsLog
  BY DEF ProposalsInv, RowFollowsLog, RowInv
<1> QED BY <1>1, ProposalsInvariant, PTL
=============================================================================
