----------------------------- MODULE EngineProofs -----------------------------
(***************************************************************************)
(* Theorems about what the drainer runs, checked by TLAPS: EventScan, for  *)
(* any writers and scanners and any number of ids, BuildPipeline, for any  *)
(* plan, gated nodes, builders, deaths and lost writes, and Memory, for    *)
(* any handlers and any log.  Its lemmas on sets in a line are also in     *)
(* ApprovalProofs, which the names of the two modules keep apart.          *)
(***************************************************************************)
EXTENDS EventScan, BuildPipeline, Memory, SequencesExt, FiniteSetTheorems, FunctionTheorems,
        SequenceTheorems, WellFoundedInduction, TLAPS

\* Every matching event up to c that reached the table in time has its job, but
\* for those in the set S.
FiredUpTo(c, S) ==
  \A i \in (events \ late) \ S : kind[i] = "match" /\ i <= c => fired[i] > 0

\* An id is used before it is an event, and no two writers have one in common.
IdsInv ==
  /\ \A i \in events : kind[i] # "unused"
  /\ \A w \in Writers : minted[w] # 0 => kind[minted[w]] # "unused"

\* What a scan has behind it is done, up to the rows it still holds: the cursor it
\* read, the last row it finished, and the gaps of its batch.
ScanInv(s) ==
  /\ pc[s] # "select" => from[s] = 0
  /\ pc[s] \notin {"rows", "audit"} => upTo[s] = 0 /\ batch[s] = {}
  /\ batch[s] \subseteq events
  /\ FiredUpTo(from[s], {})
  /\ FiredUpTo(upTo[s], {})
  /\ \A k \in batch[s] : FiredUpTo(k, batch[s])
  /\ pc[s] = "audit" =>
       \A i \in batch[s] : (\A k \in batch[s] : i <= k) => fired[i] > 0

IInv ==
  /\ TypeOK
  /\ IdsInv
  /\ FiredUpTo(cursor, {})
  /\ \A s \in Scanners : ScanInv(s)
-----------------------------------------------------------------------------
(* The rows of one batch. *)

\* A SELECT leaves no gap: whatever is above the cursor and below a row it took,
\* it took as well.
LEMMA SelectHasNoGaps ==
  ASSUME TypeOK, NEW c \in Ids \cup {0}, NEW k \in Select(c), NEW i \in events, c < i, i <= k
  PROVE  i \in Select(c)
<1> DEFINE upTo_(n) == {m \in Above(c) : m <= n}
<1>1. IsFiniteSet(Above(c)) /\ Above(c) \subseteq Ids /\ i \in Above(c) /\ k \in Above(c)
  <2>1. IsFiniteSet(Ids)
    BY FS_Interval, MaxIdAssumption DEF Ids
  <2>2. Above(c) \subseteq Ids
    BY DEF Above, TypeOK
  <2> QED BY <2>1, <2>2, FS_Subset DEF Above, Select
<1>2. upTo_(i) \subseteq upTo_(k) /\ IsFiniteSet(upTo_(k))
  <2>1. upTo_(i) \subseteq upTo_(k)
    BY <1>1, MaxIdAssumption DEF Ids
  <2> QED BY <2>1, <1>1, FS_Subset
<1>3. Cardinality(upTo_(i)) <= Cardinality(upTo_(k))
  BY <1>2, FS_Subset
<1>4. Cardinality(upTo_(i)) \in Nat /\ Cardinality(upTo_(k)) \in Nat
  BY <1>2, FS_Subset, FS_CardinalityType
<1> QED BY <1>1, <1>3, <1>4, BatchLimitAssumption DEF Select

LEMMA SelectAbove == \A c : Select(c) \subseteq events /\ \A i \in Select(c) : i > c
BY DEF Select, Above
-----------------------------------------------------------------------------
(* The invariant, action by action. *)

LEMMA InitIInv == Init => IInv
BY MaxIdAssumption, MaxAbortsAssumption DEF Init, IInv, TypeOK, IdsInv, ScanInv, FiredUpTo, Ids

\* Writers: a used id is no event before its INSERT, and one that lands in time
\* lands ahead of every cursor and scan.
LEMMA MintInv ==
  ASSUME IInv, NEW w \in Writers, MintId(w)
  PROVE  IInv'
<1>1. PICK i \in Ids, k \in {"match", "other"} :
        /\ kind[i] = "unused" /\ i > lastId[w]
        /\ kind' = [kind EXCEPT ![i] = k]
        /\ minted' = [minted EXCEPT ![w] = i]
        /\ lastId' = [lastId EXCEPT ![w] = i]
  BY DEF MintId
<1>2. i \notin events /\ (\A n \in events : kind'[n] = kind[n])
  BY <1>1 DEF IInv, IdsInv, TypeOK
<1>3. UNCHANGED <<events, late, cursor, pc, from, batch, upTo, fired, audited, aborts>>
  BY DEF MintId, scanVars
<1>4. TypeOK'
  BY <1>1, <1>3 DEF IInv, TypeOK
<1>5. IdsInv'
  BY <1>1, <1>2, <1>3 DEF IInv, IdsInv, TypeOK
<1>6. \A c, S : FiredUpTo(c, S) => FiredUpTo(c, S)'
  BY <1>2, <1>3 DEF FiredUpTo
<1>7. FiredUpTo(cursor, {})'
  BY <1>3, <1>6 DEF IInv, FiredUpTo
<1>8. \A s \in Scanners : ScanInv(s)'
  BY <1>2, <1>3 DEF IInv, ScanInv, FiredUpTo
<1> QED BY <1>4, <1>5, <1>7, <1>8 DEF IInv

LEMMA InsertInv ==
  ASSUME IInv, NEW w \in Writers, InsertEvent(w)
  PROVE  IInv'
<1> DEFINE i == minted[w]
<1>1. /\ i \in Ids /\ kind[i] # "unused"
      /\ events' = events \cup {i}
      /\ late' = IF Passed(i) THEN late \cup {i} ELSE late
      /\ minted' = [minted EXCEPT ![w] = 0]
      /\ UNCHANGED <<kind, lastId, cursor, pc, from, batch, upTo, fired, audited, aborts>>
  BY DEF InsertEvent, IInv, IdsInv, TypeOK, scanVars
<1>2. TypeOK'
  <2>1. late' \subseteq events'
    BY <1>1 DEF IInv, TypeOK
  <2> QED BY <1>1, <2>1 DEF IInv, TypeOK
<1>3. IdsInv'
  BY <1>1 DEF IInv, IdsInv, TypeOK
<1>4. ASSUME NEW c, NEW S, FiredUpTo(c, S), i <= c => Passed(i)
      PROVE  FiredUpTo(c, S)'
  BY <1>1, <1>4 DEF FiredUpTo
<1>5. FiredUpTo(cursor, {})'
  BY <1>1, <1>4 DEF IInv, Passed
<1>6. ASSUME NEW s \in Scanners
      PROVE  ScanInv(s)'
  <2>1. FiredUpTo(from[s], {})' /\ FiredUpTo(upTo[s], {})'
    BY <1>1, <1>4 DEF IInv, ScanInv, Passed
  <2>2. \A k \in batch[s] : FiredUpTo(k, batch[s])'
    BY <1>1, <1>4 DEF IInv, ScanInv, Passed
  <2> QED BY <1>1, <2>1, <2>2 DEF IInv, ScanInv
<1> QED BY <1>2, <1>3, <1>5, <1>6 DEF IInv

\* A step of one scanner that moves neither the log nor what was fired leaves the
\* others alone.
LEMMA OthersKeep ==
  ASSUME IInv, NEW s \in Scanners, UNCHANGED <<events, late, kind, fired>>,
         NEW r \in Scanners, r # s,
         pc'[r] = pc[r], from'[r] = from[r], upTo'[r] = upTo[r], batch'[r] = batch[r]
  PROVE  ScanInv(r)'
BY DEF IInv, ScanInv, FiredUpTo

LEMMA GetCursorInv ==
  ASSUME IInv, NEW s \in Scanners, GetCursor(s)
  PROVE  IInv'
<1>1. /\ UNCHANGED <<kind, events, minted, lastId, late, cursor, batch, upTo, fired, audited, aborts>>
      /\ pc[s] = "idle"
      /\ from' = [from EXCEPT ![s] = cursor] /\ pc' = [pc EXCEPT ![s] = "select"]
  BY DEF GetCursor, eventVars
<1>2. TypeOK'
  BY <1>1 DEF IInv, TypeOK
<1>3. IdsInv' /\ FiredUpTo(cursor, {})'
  BY <1>1 DEF IInv, IdsInv, FiredUpTo
<1>4. pc'[s] = "select" /\ from'[s] = cursor
  BY <1>1 DEF IInv, TypeOK
<1>5. ScanInv(s)'
  BY <1>1, <1>4 DEF IInv, ScanInv, FiredUpTo
<1>6. \A r \in Scanners \ {s} : ScanInv(r)'
  BY <1>1, OthersKeep DEF IInv, TypeOK
<1> QED BY <1>2, <1>3, <1>5, <1>6 DEF IInv

LEMMA SelectBatchInv ==
  ASSUME IInv, NEW s \in Scanners, SelectBatch(s)
  PROVE  IInv'
<1> DEFINE rows == Select(from[s])
<1>1. /\ UNCHANGED <<kind, events, minted, lastId, late, cursor, upTo, fired, audited, aborts>>
      /\ pc[s] = "select"
      /\ from' = [from EXCEPT ![s] = 0] /\ pc' = [pc EXCEPT ![s] = "rows"]
      /\ batch' = [batch EXCEPT ![s] = rows]
  BY DEF SelectBatch, eventVars
<1>2. rows \subseteq events
  BY SelectAbove
<1>3. TypeOK'
  BY <1>1, <1>2 DEF IInv, TypeOK
<1>4. IdsInv' /\ FiredUpTo(cursor, {})'
  BY <1>1 DEF IInv, IdsInv, FiredUpTo
<1>5. pc'[s] = "rows" /\ from'[s] = 0 /\ batch'[s] = rows /\ upTo'[s] = 0
  BY <1>1 DEF IInv, TypeOK, ScanInv
<1>6. ASSUME NEW k \in rows
      PROVE  FiredUpTo(k, rows)
  <2>1. SUFFICES ASSUME NEW i \in (events \ late) \ rows, kind[i] = "match", i <= k
                 PROVE  fired[i] > 0
    BY DEF FiredUpTo
  <2>2. ~ (from[s] < i)
    BY <1>6, <2>1, SelectHasNoGaps DEF IInv, TypeOK
  <2>3. i <= from[s]
    <3>1. i \in Nat /\ from[s] \in Nat
      BY <2>1, MaxIdAssumption DEF IInv, TypeOK, Ids
    <3> QED BY <2>2, <3>1
  <2> QED BY <2>1, <2>3 DEF IInv, ScanInv, FiredUpTo
<1>7. ScanInv(s)'
  <2>1. FiredUpTo(0, {})'
    BY MaxIdAssumption, <1>1 DEF FiredUpTo, IInv, TypeOK, Ids
  <2>2. \A k \in batch'[s] : FiredUpTo(k, batch[s])'
    BY <1>1, <1>5, <1>6 DEF FiredUpTo
  <2> QED BY <1>1, <1>2, <1>5, <2>1, <2>2 DEF ScanInv
<1>8. \A r \in Scanners \ {s} : ScanInv(r)'
  BY <1>1, OthersKeep DEF IInv, TypeOK
<1> QED BY <1>3, <1>4, <1>7, <1>8 DEF IInv

\* The next row may be left behind once it needs no job or has one.
LEMMA RowDoneInv ==
  ASSUME IInv, NEW s \in Scanners, NEW i \in Ids, NextRow(s, i), RowDone(s, i),
         pc[s] \in {"rows", "audit"}, kind[i] = "other" \/ fired[i] > 0,
         UNCHANGED <<cursor, from, fired, kind, events, late>>, pc'[s] = "rows"
  PROVE  ScanInv(s)'
<1>1. /\ upTo'[s] = i /\ batch'[s] = batch[s] \ {i} /\ from'[s] = 0
      /\ i \in batch[s] /\ i \in events /\ \A k \in batch[s] : i <= k
  BY DEF IInv, TypeOK, NextRow, RowDone, ScanInv
<1>2. FiredUpTo(i, {})'
  <2>1. SUFFICES ASSUME NEW n \in events \ late, kind[n] = "match", n <= i
                 PROVE  fired[n] > 0
    BY DEF FiredUpTo
  <2>2. CASE n \in batch[s]
    <3>1. n = i
      BY <1>1, <2>1, <2>2, MaxIdAssumption DEF Ids, IInv, TypeOK
    <3> QED BY <3>1, <2>1
  <2>3. CASE n \notin batch[s]
    BY <1>1, <2>1, <2>3 DEF IInv, ScanInv, FiredUpTo
  <2> QED BY <2>2, <2>3
<1>3. ASSUME NEW k \in batch[s]
      PROVE  FiredUpTo(k, batch[s] \ {i})
  <2>1. SUFFICES ASSUME NEW n \in (events \ late) \ (batch[s] \ {i}), kind[n] = "match", n <= k
                 PROVE  fired[n] > 0
    BY DEF FiredUpTo
  <2>2. CASE n = i
    BY <2>1, <2>2
  <2>3. CASE n # i
    BY <1>3, <2>1, <2>3 DEF IInv, ScanInv, FiredUpTo
  <2> QED BY <2>2, <2>3
<1>4. FiredUpTo(0, {})'
  BY MaxIdAssumption DEF FiredUpTo, IInv, TypeOK, Ids
<1>5. \A k \in batch'[s] : FiredUpTo(k, batch[s])'
  BY <1>1, <1>3 DEF FiredUpTo
<1> QED BY <1>1, <1>2, <1>4, <1>5 DEF ScanInv, IInv

LEMMA PassRowInv ==
  ASSUME IInv, NEW s \in Scanners, NEW i \in Ids, PassRow(s, i)
  PROVE  IInv'
<1>1. /\ UNCHANGED <<kind, events, minted, lastId, late, cursor, pc, from, fired, audited, aborts>>
      /\ pc[s] = "rows" /\ kind[i] = "other" /\ NextRow(s, i) /\ RowDone(s, i)
  BY DEF PassRow, eventVars
<1>2. TypeOK'
  BY <1>1 DEF IInv, TypeOK, RowDone
<1>3. IdsInv' /\ FiredUpTo(cursor, {})'
  BY <1>1 DEF IInv, IdsInv, FiredUpTo
<1>4. ScanInv(s)'
  BY <1>1, RowDoneInv
<1>5. \A r \in Scanners \ {s} : ScanInv(r)'
  BY <1>1, OthersKeep DEF IInv, TypeOK, RowDone
<1> QED BY <1>2, <1>3, <1>4, <1>5 DEF IInv

LEMMA FireJobInv ==
  ASSUME IInv, NEW s \in Scanners, NEW i \in Ids, FireJob(s, i)
  PROVE  IInv'
<1>1. /\ UNCHANGED <<kind, events, minted, lastId, late, cursor, from, batch, upTo, audited, aborts>>
      /\ pc[s] = "rows" /\ NextRow(s, i)
      /\ fired' = [fired EXCEPT ![i] = fired[i] + 1] /\ pc' = [pc EXCEPT ![s] = "audit"]
  BY DEF FireJob, eventVars
<1>2. \A n \in Ids : fired'[n] \in Nat /\ fired'[n] >= fired[n]
  BY <1>1 DEF IInv, TypeOK
<1>3. fired'[i] > 0
  BY <1>1 DEF IInv, TypeOK
<1>4. TypeOK'
  BY <1>1 DEF IInv, TypeOK
<1>5. ASSUME NEW c, NEW S, FiredUpTo(c, S)
      PROVE  FiredUpTo(c, S)'
  BY <1>1, <1>2, <1>5 DEF FiredUpTo, IInv, TypeOK
<1>6. IdsInv' /\ FiredUpTo(cursor, {})'
  BY <1>1, <1>5 DEF IInv, IdsInv
<1>7. ASSUME NEW r \in Scanners
      PROVE  ScanInv(r)'
  <2>1. FiredUpTo(from[r], {})' /\ FiredUpTo(upTo[r], {})'
        /\ \A k \in batch[r] : FiredUpTo(k, batch[r])'
    BY <1>1, <1>5 DEF IInv, ScanInv
  <2>2. pc'[r] = "audit" =>
          \A n \in batch[r] : (\A k \in batch[r] : n <= k) => fired'[n] > 0
    <3>1. CASE r = s
      BY <1>1, <1>3, <3>1, MaxIdAssumption DEF NextRow, IInv, TypeOK, Ids
    <3>2. CASE r # s
      BY <1>1, <1>2, <3>2 DEF IInv, TypeOK, ScanInv
    <3> QED BY <3>1, <3>2
  <2> QED BY <1>1, <2>1, <2>2 DEF IInv, TypeOK, ScanInv
<1> QED BY <1>4, <1>6, <1>7 DEF IInv

LEMMA EmitFiredInv ==
  ASSUME IInv, NEW s \in Scanners, NEW i \in Ids, EmitFired(s, i)
  PROVE  IInv'
<1>1. /\ UNCHANGED <<kind, events, minted, lastId, late, cursor, from, fired, aborts>>
      /\ pc[s] = "audit" /\ NextRow(s, i) /\ RowDone(s, i)
      /\ audited' = [audited EXCEPT ![i] = audited[i] + 1] /\ pc' = [pc EXCEPT ![s] = "rows"]
  BY DEF EmitFired, eventVars
<1>2. TypeOK'
  BY <1>1 DEF IInv, TypeOK, RowDone
<1>3. IdsInv' /\ FiredUpTo(cursor, {})'
  BY <1>1 DEF IInv, IdsInv, FiredUpTo
<1>4. fired[i] > 0 /\ pc'[s] = "rows"
  BY <1>1 DEF IInv, TypeOK, ScanInv, NextRow
<1>5. ScanInv(s)'
  BY <1>1, <1>4, RowDoneInv
<1>6. \A r \in Scanners \ {s} : ScanInv(r)'
  BY <1>1, OthersKeep DEF IInv, TypeOK, RowDone
<1> QED BY <1>2, <1>3, <1>5, <1>6 DEF IInv

\* The cursor takes what this scan has behind it, even if it is behind another's.
LEMMA SetCursorInv ==
  ASSUME IInv, NEW s \in Scanners, SetCursor(s)
  PROVE  IInv'
<1>1. /\ UNCHANGED <<kind, events, minted, lastId, late, from, batch, fired, audited, aborts>>
      /\ pc[s] = "rows" /\ batch[s] = {}
      /\ cursor' = IF upTo[s] # 0 THEN upTo[s] ELSE cursor
      /\ upTo' = [upTo EXCEPT ![s] = 0] /\ pc' = [pc EXCEPT ![s] = "idle"]
  BY DEF SetCursor, eventVars
<1>2. TypeOK'
  BY <1>1 DEF IInv, TypeOK
<1>3. IdsInv' /\ FiredUpTo(cursor, {})'
  BY <1>1 DEF IInv, IdsInv, FiredUpTo, ScanInv
<1>4. ScanInv(s)'
  <2>1. FiredUpTo(0, {})'
    BY <1>1, MaxIdAssumption DEF FiredUpTo, IInv, TypeOK, Ids
  <2>2. pc'[s] = "idle" /\ upTo'[s] = 0 /\ batch'[s] = {} /\ from'[s] = 0
    BY <1>1 DEF IInv, TypeOK, ScanInv
  <2> QED BY <2>1, <2>2 DEF ScanInv
<1>5. \A r \in Scanners \ {s} : ScanInv(r)'
  BY <1>1, OthersKeep DEF IInv, TypeOK
<1> QED BY <1>2, <1>3, <1>4, <1>5 DEF IInv

LEMMA AbortInv ==
  ASSUME IInv, NEW s \in Scanners, Abort(s)
  PROVE  IInv'
<1>1. /\ UNCHANGED <<kind, events, minted, lastId, late, cursor, fired, audited>>
      /\ pc' = [pc EXCEPT ![s] = "idle"] /\ from' = [from EXCEPT ![s] = 0]
      /\ batch' = [batch EXCEPT ![s] = {}] /\ upTo' = [upTo EXCEPT ![s] = 0]
      /\ aborts < MaxAborts /\ aborts' = aborts + 1
  BY DEF Abort, eventVars
<1>2. TypeOK'
  BY <1>1, MaxAbortsAssumption DEF IInv, TypeOK
<1>3. IdsInv' /\ FiredUpTo(cursor, {})'
  BY <1>1 DEF IInv, IdsInv, FiredUpTo
<1>4. ScanInv(s)'
  <2>1. FiredUpTo(0, {})'
    BY <1>1, MaxIdAssumption DEF FiredUpTo, IInv, TypeOK, Ids
  <2>2. pc'[s] = "idle" /\ upTo'[s] = 0 /\ batch'[s] = {} /\ from'[s] = 0
    BY <1>1 DEF IInv, TypeOK
  <2> QED BY <2>1, <2>2 DEF ScanInv
<1>5. \A r \in Scanners \ {s} : ScanInv(r)'
  BY <1>1, OthersKeep DEF IInv, TypeOK
<1> QED BY <1>2, <1>3, <1>4, <1>5 DEF IInv

LEMMA NextIInv == IInv /\ [Next]_vars => IInv'
<1> SUFFICES ASSUME IInv, [Next]_vars
             PROVE  IInv'
  OBVIOUS
<1>1. ASSUME NEW w \in Writers, MintId(w) \/ InsertEvent(w)
      PROVE  IInv'
  BY <1>1, MintInv, InsertInv
<1>2. ASSUME NEW s \in Scanners, GetCursor(s) \/ SelectBatch(s) \/ SetCursor(s) \/ Abort(s)
      PROVE  IInv'
  BY <1>2, GetCursorInv, SelectBatchInv, SetCursorInv, AbortInv
<1>3. ASSUME NEW s \in Scanners, NEW i \in Ids, PassRow(s, i) \/ FireJob(s, i) \/ EmitFired(s, i)
      PROVE  IInv'
  BY <1>3, PassRowInv, FireJobInv, EmitFiredInv
<1>4. CASE UNCHANGED vars
  BY <1>4 DEF vars, IInv, TypeOK, IdsInv, ScanInv, FiredUpTo
<1> QED BY <1>1, <1>2, <1>3, <1>4 DEF Next, Scan
-----------------------------------------------------------------------------
\* The events, the ids that are under way and what each scan holds keep their
\* types, whoever dies where (lib.rs:174-251).
THEOREM TypeCorrect == Spec => []TypeOK
<1>1. IInv => TypeOK
  BY DEF IInv
<1> QED BY InitIInv, NextIInv, <1>1, PTL DEF Spec

\* At-least-once for any number of drainers, ids and aborted scans, whatever the
\* order in which overlapping scans move the one cursor, back or forth: no
\* matching event in the table in time is behind it without its job
\* (lib.rs:174-251).
THEOREM PassedEventsFired == Spec => []PassedImpliesFired
<1>1. IInv => PassedImpliesFired
  BY DEF IInv, FiredUpTo, PassedImpliesFired
<1> QED BY InitIInv, NextIInv, <1>1, PTL DEF Spec
-----------------------------------------------------------------------------
(* BuildPipeline: what makes its two claims inductive. *)

RowStatuses == {"absent", "pending", "building", "completed", "failed", "skipped",
                "awaiting_approval"}
Stages == {"idle", "plan", "next", "build", "agent", "valid", "committed", "final"}
Steps == 1..Len(Plan) + 1
Records == [Nodes -> RowStatuses]
GateRows == [node : Gated, status : {"awaiting_approval", "approved", "rejected"}]

RowTypes ==
  /\ run \in Records /\ runStatus \in TypeOfRun
  /\ request \in {"queued", "building", "installed", "failed"}
  /\ told \in {"", "installed", "failed"}

GitTypes == main \in Seq(Nodes) /\ trees \subseteq Nodes /\ base \in [Nodes -> 0..Len(main)]

ProcTypes ==
  /\ job \in [Builders -> 0..Fresh] /\ stage \in [Builders -> Stages]
  /\ at \in [Builders -> Steps]
  /\ states \in [Builders -> Records] /\ seed \in [Builders -> Records]

CountTypes == deaths \in 0..MaxDeaths /\ lost \in 0..MaxLost

\* A job exists only for an approved gate, and a builder holds only such a job.
GatesInv ==
  /\ gates \in Seq(GateRows)
  /\ phase \in [Gates -> {"new", "waiting", "leased", "done", "failed"}]
  /\ \A g \in Gates : phase[g] # "new" => g <= Len(gates) /\ gates[g].status = "approved"

\* What a walk counts as completed, for itself or from the row it began with, is
\* on main, and so is the node it is about to record.
BuilderInv(b) ==
  /\ job[b] \in Gates => phase[job[b]] # "new"
  /\ stage[b] \in {"build", "agent", "valid", "committed"} => at[b] \in Positions
  /\ stage[b] = "committed" => Node(b) \in Committed
  /\ \A n \in Nodes : states[b][n] = "completed" \/ seed[b][n] = "completed" => n \in Committed

BuildIInv ==
  /\ RowTypes /\ GitTypes /\ ProcTypes /\ CountTypes
  /\ GatesInv
  /\ \A b \in Builders : BuilderInv(b)
  /\ GatedNeedsApproval
  /\ HonestRow

\* The builder's variables after a step that sets them to these values.
Moved(b, j, s, p, k, d) ==
  /\ job' = [job EXCEPT ![b] = j] /\ stage' = [stage EXCEPT ![b] = s]
  /\ at' = [at EXCEPT ![b] = p]
  /\ states' = [states EXCEPT ![b] = k] /\ seed' = [seed EXCEPT ![b] = d]

\* Main only grows and a job, once it exists, stays.
Onward ==
  /\ Committed \subseteq Committed'
  /\ \A g \in Gates : phase[g] # "new" => phase'[g] # "new"
-----------------------------------------------------------------------------
(* How the parts are kept by the steps that leave them alone or move one builder. *)

LEMMA PlanFacts ==
  /\ Len(Plan) \in Nat /\ \A i \in Positions : Plan[i] \in Nodes /\ i \in Steps /\ i + 1 \in Steps
  /\ 1 \in Steps /\ MaxGates \in Nat /\ Gated \subseteq Nodes
  /\ MaxDeaths \in Nat /\ MaxLost \in Nat
  /\ Gates \subseteq 0..Fresh /\ Idle \in 0..Fresh /\ Fresh \in 0..Fresh
  /\ Fresh \notin Gates /\ Idle \notin Gates
  /\ Blank \in Records /\ \A n \in Nodes : Blank[n] = "absent"
  BY PlanAssumption DEF Positions, Steps, Gates, Fresh, Idle, Blank, Records, RowStatuses

\* Whoever moves, the other builders' walks stay sound.
LEMMA MovedInv ==
  ASSUME ProcTypes, \A c \in Builders : BuilderInv(c), Onward,
         NEW b \in Builders, NEW j \in 0..Fresh, NEW s \in Stages, NEW p \in Steps,
         NEW k \in Records, NEW d \in Records, Moved(b, j, s, p, k, d),
         j \in Gates => phase'[j] # "new",
         s \in {"build", "agent", "valid", "committed"} => p \in Positions,
         s = "committed" => Plan[p] \in Committed',
         \A n \in Nodes : k[n] = "completed" \/ d[n] = "completed" => n \in Committed'
  PROVE  ProcTypes' /\ \A c \in Builders : BuilderInv(c)'
<1>1. ProcTypes'
  BY DEF ProcTypes, Moved
<1>2. ASSUME NEW c \in Builders PROVE BuilderInv(c)'
  <2>1. CASE c = b
    BY <2>1 DEF ProcTypes, Moved, BuilderInv, Node
  <2>2. CASE c # b
    <3>1. /\ job'[c] = job[c] /\ stage'[c] = stage[c] /\ at'[c] = at[c]
          /\ states'[c] = states[c] /\ seed'[c] = seed[c]
      BY <2>2 DEF ProcTypes, Moved
    <3> QED BY <3>1 DEF BuilderInv, Onward, Node
  <2> QED BY <2>1, <2>2
<1> QED BY <1>1, <1>2

LEMMA StillInv ==
  ASSUME ProcTypes, \A c \in Builders : BuilderInv(c), Onward, UNCHANGED procVars
  PROVE  ProcTypes' /\ \A c \in Builders : BuilderInv(c)'
  BY DEF ProcTypes, BuilderInv, Onward, procVars, Node

LEMMA OnwardKept ==
  ASSUME UNCHANGED main, UNCHANGED phase
  PROVE  Onward /\ Committed' = Committed
  BY DEF Onward, Committed

LEMMA GatesKept ==
  ASSUME GatesInv, UNCHANGED <<gates, phase>>
  PROVE  GatesInv'
  BY DEF GatesInv

LEMMA ApprovalsKept ==
  ASSUME GatedNeedsApproval, UNCHANGED <<gates, main>>
  PROVE  GatedNeedsApproval'
  BY DEF GatedNeedsApproval, Committed

\* A worktree comes or goes; main stays.
LEMMA RemoveTreeTypes ==
  ASSUME GitTypes, NEW n \in Nodes, RemoveTree(n) \/ UNCHANGED <<trees, base>>, UNCHANGED main
  PROVE  GitTypes'
<1>1. 0 \in 0..Len(main)
  BY DEF GitTypes
<1> QED BY <1>1 DEF GitTypes, RemoveTree

LEMMA RowKept ==
  ASSUME HonestRow, RowTypes, UNCHANGED <<rowVars, requestVars>>, Committed \subseteq Committed',
         \A g \in Gates : phase'[g] = "done" => phase[g] = "done" \/ Nodes \subseteq Committed
  PROVE  HonestRow' /\ RowTypes'
  BY DEF HonestRow, RowTypes, rowVars, requestVars

LEMMA PatchKeeps ==
  ASSUME RowTypes, CountTypes, HonestRow, NEW k \in Records,
         NEW st \in {"running", "completed", "partial"}, PatchRun(k, st),
         Committed' = Committed, UNCHANGED <<requestVars, deaths, phase>>,
         \A n \in Nodes : k[n] = "completed" => n \in Committed,
         st = "completed" => Nodes \subseteq Committed
  PROVE  RowTypes' /\ CountTypes' /\ HonestRow'
<1>1. CountTypes'
  BY PlanFacts DEF CountTypes, PatchRun
<1>2. (run' = run /\ runStatus' = runStatus) \/ (run' = k /\ runStatus' = st)
  BY DEF PatchRun, rowVars
<1>3. RowTypes'
  BY <1>2 DEF RowTypes, TypeOfRun, requestVars
<1>4. HonestRow'
  BY <1>2 DEF HonestRow, requestVars
<1> QED BY <1>1, <1>3, <1>4

\* Where the walk stands and what it knows, as values of the right types.
LEMMA BuilderFacts ==
  ASSUME BuildIInv, NEW b \in Builders
  PROVE  /\ job[b] \in 0..Fresh /\ stage[b] \in Stages /\ at[b] \in Steps
         /\ states[b] \in Records /\ seed[b] \in Records
         /\ \A n \in Nodes : states[b][n] = "completed" \/ seed[b][n] = "completed" => n \in Committed
         /\ stage[b] \in {"build", "agent", "valid", "committed"} =>
              at[b] \in Positions /\ Node(b) \in Nodes
         /\ Walking(b) => at[b] \in Positions /\ Node(b) \in Nodes
  BY PlanFacts DEF BuildIInv, ProcTypes, BuilderInv, Node, Walking

\* Record is a move to the next node with one more record.
LEMMA RecordMoves ==
  ASSUME ProcTypes, NEW b \in Builders, NEW st \in RowStatuses, at[b] \in Positions,
         Record(b, st)
  PROVE  /\ [states[b] EXCEPT ![Node(b)] = st] \in Records /\ at[b] + 1 \in Steps
         /\ Moved(b, job[b], "next", at[b] + 1, [states[b] EXCEPT ![Node(b)] = st], seed[b])
<1>1. states[b] \in Records /\ at[b] + 1 \in Steps /\ Node(b) \in Nodes
  BY PlanFacts DEF ProcTypes, Node
<1>2. [states[b] EXCEPT ![Node(b)] = st] \in Records
  BY <1>1 DEF Records
<1>3. job' = [job EXCEPT ![b] = job[b]] /\ seed' = [seed EXCEPT ![b] = seed[b]]
  BY DEF Record, ProcTypes
<1> QED BY <1>1, <1>2, <1>3 DEF Record, Moved

\* A recorded step that leaves main alone, or has just put its node there.
LEMMA RecordInv ==
  ASSUME BuildIInv, NEW b \in Builders, NEW st \in RowStatuses, at[b] \in Positions,
         Record(b, st), Onward, st = "completed" => Node(b) \in Committed'
  PROVE  ProcTypes' /\ \A c \in Builders : BuilderInv(c)'
<1> DEFINE k == [states[b] EXCEPT ![Node(b)] = st]
<1>1. k \in Records /\ at[b] + 1 \in Steps /\ Moved(b, job[b], "next", at[b] + 1, k, seed[b])
  BY RecordMoves DEF BuildIInv
<1>2. /\ job[b] \in 0..Fresh /\ seed[b] \in Records /\ states[b] \in Records
      /\ "next" \in Stages
      /\ \A n \in Nodes : states[b][n] = "completed" \/ seed[b][n] = "completed" => n \in Committed
  BY BuilderFacts DEF Stages
<1>3. job[b] \in Gates => phase'[job[b]] # "new"
  BY DEF BuildIInv, BuilderInv, Onward
<1>4. \A n \in Nodes : k[n] = "completed" \/ seed[b][n] = "completed" => n \in Committed'
  BY <1>2 DEF Onward, Records
<1> HIDE DEF k
<1> QED BY <1>1, <1>2, <1>3, <1>4, MovedInv DEF BuildIInv

\* A step of one builder through its node, with the gates, the row and the jobs as they are.
LEMMA WalkStep ==
  ASSUME BuildIInv, NEW b \in Builders, NEW st \in RowStatuses, at[b] \in Positions,
         Record(b, st), st = "completed" => Node(b) \in Committed,
         RemoveTree(Node(b)) \/ UNCHANGED <<trees, base>>,
         UNCHANGED <<rowVars, gates, leaseVars, main, requestVars, deaths, lost>>
  PROVE  BuildIInv'
<1>1. Onward /\ Committed' = Committed
  BY OnwardKept DEF leaseVars
<1>2. ProcTypes' /\ \A c \in Builders : BuilderInv(c)'
  BY <1>1, RecordInv
<1>3. Node(b) \in Nodes
  BY PlanFacts DEF Node
<1>4. GitTypes'
  BY <1>3, RemoveTreeTypes DEF BuildIInv
<1>5. GatesInv' /\ GatedNeedsApproval' /\ CountTypes'
  BY GatesKept, ApprovalsKept DEF BuildIInv, leaseVars, CountTypes
<1>6. HonestRow' /\ RowTypes'
  BY <1>1, RowKept DEF BuildIInv, leaseVars
<1> QED BY <1>2, <1>4, <1>5, <1>6 DEF BuildIInv

\* A step that changes at most one builder and the row's and the requester's state.
LEMMA QuietStep ==
  ASSUME BuildIInv, NEW b \in Builders, NEW j \in 0..Fresh, NEW s \in Stages, NEW p \in Steps,
         NEW k \in Records, NEW d \in Records, Moved(b, j, s, p, k, d),
         j \in Gates => phase[j] # "new",
         s \in {"build", "agent", "valid"} => p \in Positions, s # "committed",
         \A n \in Nodes : k[n] = "completed" \/ d[n] = "completed" => n \in Committed,
         UNCHANGED <<gates, phase, main>>
  PROVE  /\ ProcTypes' /\ \A c \in Builders : BuilderInv(c)'
         /\ GatesInv' /\ GatedNeedsApproval'
<1>1. Onward /\ Committed' = Committed
  BY OnwardKept
<1>2. ProcTypes' /\ \A c \in Builders : BuilderInv(c)'
  BY <1>1, MovedInv DEF BuildIInv
<1> QED BY <1>2, GatesKept, ApprovalsKept DEF BuildIInv
-----------------------------------------------------------------------------
(* A walk begins. *)

LEMMA StartRunInv ==
  ASSUME BuildIInv, NEW b \in Builders, StartRun(b)
  PROVE  BuildIInv'
<1>1. Committed' = Committed /\ Onward /\ UNCHANGED <<gates, phase, main, trees, base>>
  BY OnwardKept DEF StartRun, leaseVars, gitVars
<1>2. CountTypes' /\ RowTypes' /\ GitTypes' /\ HonestRow'
  <2>1. request' = "building" /\ UNCHANGED <<rowVars, told, deaths>>
        /\ (lost' = lost \/ (lost < MaxLost /\ lost' = lost + 1))
    BY DEF StartRun
  <2>2. CountTypes' /\ GitTypes'
    BY <1>1, <2>1, PlanFacts DEF BuildIInv, CountTypes, GitTypes
  <2>3. RowTypes'
    BY <2>1 DEF BuildIInv, RowTypes, rowVars
  <2>4. HonestRow'
    BY <1>1, <2>1 DEF BuildIInv, HonestRow, rowVars
  <2> QED BY <2>2, <2>3, <2>4
<1>3. ProcTypes' /\ (\A c \in Builders : BuilderInv(c)') /\ GatesInv' /\ GatedNeedsApproval'
  <2>1. CASE Begin(b, Fresh, Blank, "plan")
    <3>1. Moved(b, Fresh, "plan", 1, Blank, Blank)
      BY <2>1 DEF Begin, Moved
    <3>2. "plan" \in Stages
      BY DEF Stages
    <3> QED BY <1>1, <3>1, <3>2, PlanFacts, QuietStep
  <2>2. CASE UNCHANGED procVars
    BY <1>1, <2>2, StillInv, GatesKept, ApprovalsKept DEF BuildIInv
  <2> QED BY <2>1, <2>2 DEF StartRun
<1> QED BY <1>2, <1>3 DEF BuildIInv

LEMMA PlanRunInv ==
  ASSUME BuildIInv, NEW b \in Builders, NEW valid \in BOOLEAN, PlanRun(b, valid)
  PROVE  BuildIInv'
<1> DEFINE s == IF valid THEN "next" ELSE "final"
<1>1. Committed' = Committed /\ UNCHANGED <<gates, phase, main, trees, base, request, told, deaths>>
  BY OnwardKept DEF PlanRun, leaseVars, gitVars, requestVars
<1>2. Moved(b, job[b], s, at[b], states[b], seed[b]) /\ s \in Stages
  BY DEF PlanRun, Moved, BuildIInv, ProcTypes, Stages
<1>3. ProcTypes' /\ (\A c \in Builders : BuilderInv(c)') /\ GatesInv' /\ GatedNeedsApproval'
  <2>1. job[b] \in Gates => phase[job[b]] # "new"
    BY DEF BuildIInv, BuilderInv
  <2>2. s \notin {"build", "agent", "valid", "committed"}
    OBVIOUS
  <2> HIDE DEF s
  <2> QED BY <1>1, <1>2, <2>1, <2>2, BuilderFacts, QuietStep
<1>4. CountTypes' /\ GitTypes'
  BY <1>1, PlanFacts DEF BuildIInv, PlanRun, CountTypes, GitTypes
<1>5. (run' = run /\ runStatus' = runStatus)
      \/ (run' = [n \in Nodes |-> "pending"] /\ runStatus' = "running")
  BY DEF PlanRun, rowVars
<1>6. RowTypes'
  BY <1>1, <1>5 DEF BuildIInv, RowTypes, Records, RowStatuses, TypeOfRun
<1>7. HonestRow'
  BY <1>1, <1>5 DEF BuildIInv, HonestRow
<1> QED BY <1>3, <1>4, <1>6, <1>7 DEF BuildIInv

\* A resume seeds itself from the row, which is honest.
LEMMA StartResumeInv ==
  ASSUME BuildIInv, NEW b \in Builders, NEW g \in Gates, StartResume(b, g)
  PROVE  BuildIInv'
<1>1. /\ phase[g] = "waiting" /\ phase' = [phase EXCEPT ![g] = "leased"]
      /\ Moved(b, g, "next", 1, Blank, run)
      /\ UNCHANGED <<rowVars, gates, gitVars, requestVars, deaths, lost>>
  BY DEF StartResume, Lease!Grant, Begin, Moved
<1>2. phase \in [Gates -> {"new", "waiting", "leased", "done", "failed"}]
  BY DEF BuildIInv, GatesInv
<1>3. Onward /\ Committed' = Committed
  BY <1>1, <1>2 DEF Onward, Committed, gitVars
<1>4. ProcTypes' /\ \A c \in Builders : BuilderInv(c)'
  <2>1. /\ g \in 0..Fresh /\ "next" \in Stages /\ 1 \in Steps /\ Blank \in Records
        /\ run \in Records /\ phase'[g] # "new"
        /\ \A n \in Nodes : Blank[n] = "completed" \/ run[n] = "completed" => n \in Committed'
    BY <1>1, <1>2, <1>3, PlanFacts DEF BuildIInv, RowTypes, HonestRow, Stages
  <2> QED BY <1>1, <1>3, <2>1, MovedInv DEF BuildIInv
<1>5. GatesInv'
  BY <1>1, <1>2 DEF BuildIInv, GatesInv
<1>6. GitTypes' /\ CountTypes' /\ GatedNeedsApproval'
  BY <1>1, <1>3 DEF BuildIInv, GitTypes, CountTypes, GatedNeedsApproval, gitVars
<1>7. HonestRow' /\ RowTypes'
  BY <1>1, <1>2, <1>3, RowKept DEF BuildIInv
<1> QED BY <1>4, <1>5, <1>6, <1>7 DEF BuildIInv
-----------------------------------------------------------------------------
(* A walk goes through its nodes. *)

LEMMA KeepOrSkipInv ==
  ASSUME BuildIInv, NEW b \in Builders, KeepOrSkip(b)
  PROVE  BuildIInv'
<1> DEFINE st == IF Kept(b) THEN "completed" ELSE "skipped"
<1>1. st \in RowStatuses /\ Record(b, st) /\ at[b] \in Positions /\ Node(b) \in Nodes
  BY BuilderFacts DEF KeepOrSkip, RowStatuses
<1>2. st = "completed" => Node(b) \in Committed
  BY <1>1, BuilderFacts DEF Kept
<1>3. UNCHANGED <<trees, base>>
      /\ UNCHANGED <<rowVars, gates, leaseVars, main, requestVars, deaths, lost>>
  BY DEF KeepOrSkip, gitVars
<1> HIDE DEF st
<1> QED BY <1>1, <1>2, <1>3, WalkStep

LEMMA EnterNodeInv ==
  ASSUME BuildIInv, NEW b \in Builders, EnterNode(b)
  PROVE  BuildIInv'
<1> DEFINE k == [states[b] EXCEPT ![Node(b)] = "building"]
<1>1. /\ at[b] \in Positions /\ Node(b) \in Nodes /\ states[b] \in Records
      /\ job[b] \in 0..Fresh /\ at[b] \in Steps /\ seed[b] \in Records /\ "build" \in Stages
      /\ \A n \in Nodes : states[b][n] = "completed" \/ seed[b][n] = "completed" => n \in Committed
  BY BuilderFacts DEF EnterNode, Stages
<1>2. k \in Records
  BY <1>1 DEF Records, RowStatuses
<1>3. \A n \in Nodes : k[n] = "completed" \/ seed[b][n] = "completed" => n \in Committed
  BY <1>1 DEF Records
<1>4. /\ Moved(b, job[b], "build", at[b], k, seed[b]) /\ states'[b] = k
      /\ UNCHANGED <<gates, phase, main, trees, base, requestVars, deaths>>
  BY DEF EnterNode, Moved, BuildIInv, ProcTypes, leaseVars, gitVars
<1>5. PatchRun(k, "running")
  BY <1>4 DEF EnterNode, PatchRun
<1> HIDE DEF k
<1>6. ProcTypes' /\ (\A c \in Builders : BuilderInv(c)') /\ GatesInv' /\ GatedNeedsApproval'
  <2>1. job[b] \in Gates => phase[job[b]] # "new"
    BY DEF BuildIInv, BuilderInv
  <2> QED BY <1>1, <1>2, <1>3, <1>4, <2>1, QuietStep
<1>7. RowTypes' /\ CountTypes' /\ HonestRow'
  <2>1. Committed' = Committed
    BY <1>4 DEF Committed
  <2> QED BY <1>2, <1>3, <1>4, <1>5, <2>1, PatchKeeps DEF BuildIInv
<1>8. GitTypes'
  BY <1>4 DEF BuildIInv, GitTypes
<1> QED BY <1>6, <1>7, <1>8 DEF BuildIInv

\* A step of one builder within its node.
LEMMA StageStep ==
  ASSUME BuildIInv, NEW b \in Builders, NEW s \in {"agent", "valid", "idle", "final"},
         at[b] \in Positions, NEW j \in {job[b], Idle},
         stage' = [stage EXCEPT ![b] = s], job' = [job EXCEPT ![b] = j],
         GitTypes', CountTypes',
         UNCHANGED <<at, states, seed, rowVars, gates, leaseVars, main, requestVars>>
  PROVE  BuildIInv'
<1>1. Moved(b, j, s, at[b], states[b], seed[b])
  BY DEF Moved, BuildIInv, ProcTypes
<1>2. Committed' = Committed /\ UNCHANGED phase
  BY DEF Committed, leaseVars
<1>3. ProcTypes' /\ (\A c \in Builders : BuilderInv(c)') /\ GatesInv' /\ GatedNeedsApproval'
  <2>1. s \in Stages /\ s # "committed" /\ j \in 0..Fresh
    BY BuilderFacts, PlanFacts DEF Stages
  <2>2. j \in Gates => phase[j] # "new"
    BY PlanFacts DEF BuildIInv, BuilderInv
  <2> QED BY <1>1, <1>2, <2>1, <2>2, BuilderFacts, QuietStep
<1>4. HonestRow' /\ RowTypes'
  BY <1>2, RowKept DEF BuildIInv
<1> QED BY <1>3, <1>4 DEF BuildIInv

LEMMA CreateWorktreeInv ==
  ASSUME BuildIInv, NEW b \in Builders, CreateWorktree(b)
  PROVE  BuildIInv'
<1> DEFINE n == Node(b)
<1>1. n \in Nodes /\ at[b] \in Positions
  BY BuilderFacts DEF CreateWorktree
<1>2. CASE n \in trees
  BY <1>1, <1>2, WalkStep DEF CreateWorktree, RowStatuses
<1>3. CASE n \notin trees
  <2>1. GitTypes'
    <3>1. trees' = trees \cup {n} /\ base' = [base EXCEPT ![n] = Len(main)] /\ main' = main
      BY <1>3 DEF CreateWorktree
    <3>2. Len(main) \in 0..Len(main)
      BY DEF BuildIInv, GitTypes
    <3> QED BY <1>1, <3>1, <3>2 DEF BuildIInv, GitTypes
  <2>2. CountTypes' /\ job' = [job EXCEPT ![b] = job[b]] /\ stage' = [stage EXCEPT ![b] = "agent"]
        /\ UNCHANGED <<at, states, seed, rowVars, gates, leaseVars, main, requestVars>>
    BY <1>3 DEF CreateWorktree, BuildIInv, CountTypes, ProcTypes
  <2> QED BY <1>1, <2>1, <2>2, StageStep
<1> QED BY <1>2, <1>3

LEMMA AgentAndValidateInv ==
  ASSUME BuildIInv, NEW b \in Builders, NEW valid \in BOOLEAN, AgentAndValidate(b, valid)
  PROVE  BuildIInv'
<1>1. at[b] \in Positions
  BY BuilderFacts DEF AgentAndValidate
<1>2. CASE valid
  <2>1. CountTypes' /\ GitTypes' /\ job' = [job EXCEPT ![b] = job[b]]
        /\ stage' = [stage EXCEPT ![b] = "valid"]
        /\ UNCHANGED <<at, states, seed, rowVars, gates, leaseVars, main, requestVars>>
    BY <1>2 DEF AgentAndValidate, BuildIInv, CountTypes, GitTypes, ProcTypes
  <2> QED BY <1>1, <2>1, StageStep
<1>3. CASE ~ valid
  BY <1>1, <1>3, WalkStep DEF AgentAndValidate, RowStatuses
<1> QED BY <1>2, <1>3

\* A gate is added at the end, so what was approved before stays so.
LEMMA GateInv ==
  ASSUME BuildIInv, NEW b \in Builders, Gate(b)
  PROVE  BuildIInv'
<1>1. /\ at[b] \in Positions /\ Node(b) \in Nodes /\ Node(b) \in Gated
      /\ Record(b, "awaiting_approval") /\ RemoveTree(Node(b))
      /\ UNCHANGED <<rowVars, leaseVars, main, requestVars, deaths>>
  BY BuilderFacts DEF Gate, MustGate
<1>2. Onward /\ Committed' = Committed
  BY <1>1, OnwardKept DEF leaseVars
<1>3. ProcTypes' /\ \A c \in Builders : BuilderInv(c)'
  BY <1>1, <1>2, RecordInv DEF RowStatuses
<1>4. GitTypes'
  BY <1>1, RemoveTreeTypes DEF BuildIInv
<1>5. CountTypes'
  BY <1>1, PlanFacts DEF BuildIInv, CountTypes, Gate
<1>6. HonestRow' /\ RowTypes'
  BY <1>1, <1>2, RowKept DEF BuildIInv, leaseVars
<1>7. /\ gates' \in Seq(GateRows) /\ Len(gates) <= Len(gates')
      /\ \A g \in 1..Len(gates) : gates'[g] = gates[g]
  <2>1. CASE gates' = gates
    BY <2>1 DEF BuildIInv, GatesInv
  <2>2. CASE gates' = Append(gates, [node |-> Node(b), status |-> "awaiting_approval"])
    <3>1. [node |-> Node(b), status |-> "awaiting_approval"] \in GateRows
      BY <1>1 DEF GateRows
    <3> QED BY <2>2, <3>1 DEF BuildIInv, GatesInv
  <2> QED BY <2>1, <2>2 DEF Gate
<1>8. Len(gates) \in Nat /\ Len(gates') \in Nat
  BY <1>7 DEF BuildIInv, GatesInv
<1>9. GatesInv'
  BY <1>1, <1>7, <1>8 DEF BuildIInv, GatesInv, leaseVars, Gates
<1>10. GatedNeedsApproval'
  BY <1>2, <1>7, <1>8 DEF BuildIInv, GatedNeedsApproval
<1> QED BY <1>3, <1>4, <1>5, <1>6, <1>9, <1>10 DEF BuildIInv

LEMMA CommittedGrows ==
  ASSUME main \in Seq(Nodes), NEW n \in Nodes, main' = Append(main, n)
  PROVE  Committed' = Committed \cup {n}
<1>1. /\ Len(main') = Len(main) + 1 /\ Len(main) \in Nat /\ main'[Len(main) + 1] = n
      /\ \A i \in 1..Len(main) : main'[i] = main[i]
  OBVIOUS
<1> QED BY <1>1 DEF Committed

\* A gated node gets here only in a resume of its own gate, whose job only its
\* approval could have made.
LEMMA CommitInv ==
  ASSUME BuildIInv, NEW b \in Builders, Commit(b)
  PROVE  BuildIInv'
<1> DEFINE n == Node(b)
<1>1. /\ n \in Nodes /\ at[b] \in Positions /\ main' = Append(main, n)
      /\ stage' = [stage EXCEPT ![b] = "committed"] /\ ~ MustGate(b)
      /\ UNCHANGED <<rowVars, gates, leaseVars, trees, base, requestVars, job, at, states, seed,
                     deaths, lost>>
  BY BuilderFacts DEF Commit
<1>2. Committed' = Committed \cup {n}
  BY <1>1, CommittedGrows DEF BuildIInv, GitTypes
<1>3. Onward
  BY <1>1, <1>2 DEF Onward, leaseVars
<1>4. ProcTypes' /\ \A c \in Builders : BuilderInv(c)'
  <2>1. Moved(b, job[b], "committed", at[b], states[b], seed[b]) /\ "committed" \in Stages
    BY <1>1 DEF Moved, BuildIInv, ProcTypes, Stages
  <2>2. Plan[at[b]] \in Committed'
    BY <1>2 DEF Node
  <2>3. job[b] \in Gates => phase'[job[b]] # "new"
    BY <1>3 DEF BuildIInv, BuilderInv, Onward
  <2>4. \A m \in Nodes : states[b][m] = "completed" \/ seed[b][m] = "completed" => m \in Committed'
    BY <1>2, BuilderFacts
  <2> QED BY <1>1, <1>3, <2>1, <2>2, <2>3, <2>4, BuilderFacts, MovedInv DEF BuildIInv
<1>5. GitTypes'
  <2>1. main' \in Seq(Nodes) /\ Len(main) \in Nat /\ Len(main') = Len(main) + 1
    BY <1>1 DEF BuildIInv, GitTypes
  <2>2. 0..Len(main) \subseteq 0..Len(main')
    BY <2>1
  <2> QED BY <1>1, <2>1, <2>2 DEF BuildIInv, GitTypes
<1>6. GatesInv' /\ CountTypes'
  BY <1>1, GatesKept DEF BuildIInv, leaseVars, CountTypes
<1>7. HonestRow' /\ RowTypes'
  BY <1>1, <1>2, RowKept DEF BuildIInv, leaseVars
<1>8. n \in Gated => \E g \in 1..Len(gates) : gates[g] = [node |-> n, status |-> "approved"]
  <2> SUFFICES ASSUME n \in Gated
               PROVE  \E g \in 1..Len(gates) : gates[g] = [node |-> n, status |-> "approved"]
    OBVIOUS
  <2>1. job[b] \in Gates /\ gates[job[b]].node = n
    BY <1>1 DEF MustGate, approvedNodeIds
  <2>2. job[b] <= Len(gates) /\ gates[job[b]].status = "approved"
    BY <2>1 DEF BuildIInv, BuilderInv, GatesInv
  <2>3. job[b] \in 1..Len(gates) /\ gates[job[b]] \in GateRows
    BY <2>1, <2>2, PlanFacts DEF BuildIInv, GatesInv, Gates
  <2>4. gates[job[b]] = [node |-> n, status |-> "approved"]
    BY <2>1, <2>2, <2>3 DEF GateRows
  <2> QED BY <2>3, <2>4
<1>9. GatedNeedsApproval'
  BY <1>1, <1>2, <1>8 DEF BuildIInv, GatedNeedsApproval
<1> QED BY <1>4, <1>5, <1>6, <1>7, <1>9 DEF BuildIInv

LEMMA CommitThrowsInv ==
  ASSUME BuildIInv, NEW b \in Builders, CommitThrows(b)
  PROVE  BuildIInv'
<1>1. at[b] \in Positions
  BY BuilderFacts DEF CommitThrows
<1> QED BY <1>1, WalkStep DEF CommitThrows, RowStatuses

LEMMA LandInv ==
  ASSUME BuildIInv, NEW b \in Builders, Land(b)
  PROVE  BuildIInv'
<1>1. at[b] \in Positions
  BY BuilderFacts DEF Land
<1>2. Node(b) \in Committed
  BY DEF Land, BuildIInv, BuilderInv
<1> QED BY <1>1, <1>2, WalkStep DEF Land, RowStatuses
-----------------------------------------------------------------------------
(* A walk ends, and what happens between walks. *)

\* A job is done only with the outcome of a walk that found every node completed.
LEMMA ReportInv ==
  ASSUME BuildIInv, NEW b \in Builders, NEW outcome \in {"done", "failed"}, Report(b, outcome),
         UNCHANGED <<gates, main>>
  PROVE  /\ ProcTypes' /\ \A c \in Builders : BuilderInv(c)'
         /\ GatesInv' /\ GatedNeedsApproval'
         /\ \A g \in Gates : phase'[g] = "done" => phase[g] = "done" \/ outcome = "done"
<1>1. phase \in [Gates -> {"new", "waiting", "leased", "done", "failed"}]
  BY DEF BuildIInv, GatesInv
<1>2. \/ phase' = phase
      \/ job[b] \in Gates /\ phase[job[b]] = "leased" /\ phase' = [phase EXCEPT ![job[b]] = outcome]
  BY DEF Report, leaseVars, Lease!Resolve
<1>3. Onward /\ Committed' = Committed
  BY <1>1, <1>2 DEF Onward, Committed
<1>4. ProcTypes' /\ \A c \in Builders : BuilderInv(c)'
  <2>1. Moved(b, Idle, "idle", at[b], states[b], seed[b]) /\ "idle" \in Stages
    BY DEF Report, Moved, BuildIInv, ProcTypes, Stages
  <2> QED BY <1>3, <2>1, BuilderFacts, PlanFacts, MovedInv DEF BuildIInv
<1>5. GatesInv'
  <2>1. phase' \in [Gates -> {"new", "waiting", "leased", "done", "failed"}]
    BY <1>1, <1>2
  <2>2. \A g \in Gates : phase'[g] # "new" => phase[g] # "new"
    BY <1>1, <1>2
  <2> QED BY <2>1, <2>2 DEF BuildIInv, GatesInv
<1>6. GatedNeedsApproval'
  BY ApprovalsKept DEF BuildIInv
<1>7. \A g \in Gates : phase'[g] = "done" => phase[g] = "done" \/ outcome = "done"
  BY <1>1, <1>2
<1> QED BY <1>4, <1>5, <1>6, <1>7

LEMMA NoRunInv ==
  ASSUME BuildIInv, NEW b \in Builders, NoRun(b)
  PROVE  BuildIInv'
<1>1. /\ Report(b, "failed")
      /\ UNCHANGED <<rowVars, gates, main, trees, base, requestVars, deaths, lost>>
  BY DEF NoRun, gitVars
<1>2. GitTypes' /\ CountTypes'
  BY <1>1 DEF BuildIInv, GitTypes, CountTypes
<1>3. HonestRow' /\ RowTypes'
  <2>1. Committed' = Committed
    BY <1>1 DEF Committed
  <2> QED BY <1>1, <2>1, ReportInv, RowKept DEF BuildIInv
<1> QED BY <1>1, <1>2, <1>3, ReportInv DEF BuildIInv

LEMMA SuccessIsCommitted ==
  ASSUME BuildIInv, NEW b \in Builders, Success(b)
  PROVE  Nodes \subseteq Committed
  BY BuilderFacts DEF Success

LEMMA FinalizeRunInv ==
  ASSUME BuildIInv, NEW b \in Builders, FinalizeRun(b)
  PROVE  BuildIInv'
<1> DEFINE st == IF Success(b) THEN "completed" ELSE "partial"
<1>1. /\ PatchRun(states[b], st)
      /\ UNCHANGED <<gates, phase, main, trees, base, requestVars, deaths>>
  BY DEF FinalizeRun, leaseVars, gitVars
<1>2. Moved(b, job[b], "final", at[b], states[b], seed[b]) /\ "final" \in Stages
  BY DEF FinalizeRun, Moved, BuildIInv, ProcTypes, Stages
<1>3. st = "completed" => Nodes \subseteq Committed
  BY SuccessIsCommitted
<1>4. st \in {"running", "completed", "partial"}
  OBVIOUS
<1> HIDE DEF st
<1>5. ProcTypes' /\ (\A c \in Builders : BuilderInv(c)') /\ GatesInv' /\ GatedNeedsApproval'
  <2>1. job[b] \in Gates => phase[job[b]] # "new"
    BY DEF BuildIInv, BuilderInv
  <2> QED BY <1>1, <1>2, <2>1, BuilderFacts, QuietStep
<1>6. RowTypes' /\ CountTypes' /\ HonestRow'
  <2>1. Committed' = Committed
    BY <1>1 DEF Committed
  <2> QED BY <1>1, <1>3, <1>4, <2>1, BuilderFacts, PatchKeeps DEF BuildIInv
<1>7. GitTypes'
  BY <1>1 DEF BuildIInv, GitTypes
<1> QED BY <1>5, <1>6, <1>7 DEF BuildIInv

\* The row's status, the answer and the job's outcome come from the same records.
LEMMA ExitInv ==
  ASSUME BuildIInv, NEW b \in Builders, Exit(b)
  PROVE  BuildIInv'
<1> DEFINE outcome == IF Success(b) THEN "done" ELSE "failed"
           answer == IF Success(b) THEN "installed" ELSE "failed"
<1>1. /\ Report(b, outcome) /\ Answer(b, answer)
      /\ UNCHANGED <<rowVars, gates, main, trees, base, deaths>>
  BY DEF Exit, gitVars
<1>2. /\ outcome \in {"done", "failed"} /\ answer \in {"installed", "failed"}
      /\ outcome = "done" \/ answer = "installed" => Nodes \subseteq Committed
  BY SuccessIsCommitted
<1> HIDE DEF outcome, answer
<1>3. Committed' = Committed
  BY <1>1 DEF Committed
<1>4. /\ request' \in {request, answer} /\ told' \in {told, answer}
      /\ lost' = lost \/ (lost < MaxLost /\ lost' = lost + 1)
  BY <1>1 DEF Answer, requestVars
<1>5. GitTypes' /\ CountTypes'
  BY <1>1, <1>4, PlanFacts DEF BuildIInv, GitTypes, CountTypes
<1>6. RowTypes'
  BY <1>1, <1>2, <1>4 DEF BuildIInv, RowTypes, rowVars
<1>7. HonestRow'
  <2>1. \A g \in Gates : phase'[g] = "done" => phase[g] = "done" \/ outcome = "done"
    BY <1>1, <1>2, ReportInv
  <2>2. "installed" \in {request', told'} => "installed" \in {request, told} \/ answer = "installed"
    BY <1>4
  <2> QED BY <1>1, <1>2, <1>3, <2>1, <2>2 DEF BuildIInv, HonestRow, rowVars
<1> QED BY <1>1, <1>2, <1>5, <1>6, <1>7, ReportInv DEF BuildIInv

LEMMA DieInv ==
  ASSUME BuildIInv, NEW b \in Builders, Die(b)
  PROVE  BuildIInv'
<1>1. /\ deaths < MaxDeaths /\ deaths' = deaths + 1
      /\ UNCHANGED <<rowVars, gates, leaseVars, phase, main, trees, base, requestVars, lost>>
  BY DEF Die, leaseVars, gitVars
<1>2. Moved(b, Idle, "idle", at[b], states[b], seed[b]) /\ "idle" \in Stages
  BY DEF Die, Moved, BuildIInv, ProcTypes, Stages
<1>3. ProcTypes' /\ (\A c \in Builders : BuilderInv(c)') /\ GatesInv' /\ GatedNeedsApproval'
  BY <1>1, <1>2, BuilderFacts, PlanFacts, QuietStep
<1>4. GitTypes' /\ CountTypes'
  BY <1>1, PlanFacts DEF BuildIInv, GitTypes, CountTypes
<1>5. HonestRow' /\ RowTypes'
  <2>1. Committed' = Committed
    BY <1>1 DEF Committed
  <2> QED BY <1>1, <2>1, RowKept DEF BuildIInv
<1> QED BY <1>3, <1>4, <1>5 DEF BuildIInv

\* A resolved gate is never resolved again, so an approval is never taken back.
LEMMA ResolveInv ==
  ASSUME BuildIInv, NEW g \in Gates, NEW to \in {"approved", "rejected"}, Resolve(g, to)
  PROVE  BuildIInv'
<1>1. /\ g <= Len(gates) /\ gates[g].status = "awaiting_approval"
      /\ gates' = [gates EXCEPT ![g] = [gates[g] EXCEPT !.status = to]]
      /\ UNCHANGED <<rowVars, main, trees, base, requestVars, procVars, deaths, lost>>
      /\ \/ to = "approved" /\ phase[g] = "new" /\ phase' = [phase EXCEPT ![g] = "waiting"]
         \/ phase' = phase
  BY DEF Resolve, gitVars, leaseVars, Lease!Submit
<1>2. /\ phase \in [Gates -> {"new", "waiting", "leased", "done", "failed"}]
      /\ gates \in Seq(GateRows) /\ Len(gates) \in Nat
  BY DEF BuildIInv, GatesInv
<1>3. Onward /\ Committed' = Committed
  BY <1>1, <1>2 DEF Onward, Committed
<1>4. ProcTypes' /\ \A c \in Builders : BuilderInv(c)'
  BY <1>1, <1>3, StillInv DEF BuildIInv
<1>5. GitTypes' /\ CountTypes'
  BY <1>1 DEF BuildIInv, GitTypes, CountTypes
<1>6. g \in 1..Len(gates) /\ gates[g] \in GateRows
  BY <1>1, <1>2, PlanFacts DEF Gates
<1>7. [gates[g] EXCEPT !.status = to] \in GateRows /\ [gates[g] EXCEPT !.status = to].status = to
  BY <1>6 DEF GateRows
<1>8. /\ gates' \in Seq(GateRows) /\ Len(gates') = Len(gates)
      /\ gates'[g].status = to
      /\ \A i \in 1..Len(gates) : i # g => gates'[i] = gates[i]
  BY <1>1, <1>2, <1>6, <1>7
<1>9. GatesInv'
  <2>1. phase' \in [Gates -> {"new", "waiting", "leased", "done", "failed"}]
    BY <1>1, <1>2
  <2>2. \A i \in Gates : phase'[i] # "new" => i <= Len(gates') /\ gates'[i].status = "approved"
    <3> TAKE i \in Gates
    <3>1. CASE i = g
      BY <3>1, <1>1, <1>8 DEF BuildIInv, GatesInv
    <3>2. CASE i # g
      <4>1. phase'[i] = phase[i]
        BY <3>2, <1>1, <1>2
      <4> QED BY <3>2, <4>1, <1>2, <1>8, PlanFacts DEF BuildIInv, GatesInv, Gates
    <3> QED BY <3>1, <3>2
  <2> QED BY <1>8, <2>1, <2>2 DEF GatesInv
<1>10. GatedNeedsApproval'
  <2>1. \A i \in 1..Len(gates) : gates[i].status = "approved" => gates'[i] = gates[i]
    BY <1>1, <1>8
  <2>2. \A n \in Committed \cap Gated : \E i \in 1..Len(gates) :
          gates[i] = [node |-> n, status |-> "approved"] /\ gates[i].status = "approved"
    BY DEF BuildIInv, GatedNeedsApproval
  <2> QED BY <1>3, <1>8, <2>1, <2>2 DEF GatedNeedsApproval
<1>11. HonestRow' /\ RowTypes'
  BY <1>1, <1>2, <1>3, RowKept DEF BuildIInv
<1> QED BY <1>4, <1>5, <1>9, <1>10, <1>11 DEF BuildIInv

LEMMA ReapInv ==
  ASSUME BuildIInv, NEW b \in Builders, NEW S \in SUBSET Gates, Reap(b, S)
  PROVE  BuildIInv'
<1>1. /\ \A g \in S : phase[g] = "leased"
      /\ phase' = [g \in Gates |-> IF g \in S THEN IF tries[g] < MaxAttempts THEN "waiting"
                                                                          ELSE "failed"
                                              ELSE phase[g]]
      /\ UNCHANGED <<rowVars, gates, main, trees, base, requestVars, procVars, deaths, lost>>
  BY DEF Reap, Lease!Revoke, gitVars
<1>2. phase \in [Gates -> {"new", "waiting", "leased", "done", "failed"}]
  BY DEF BuildIInv, GatesInv
<1>3. /\ phase' \in [Gates -> {"new", "waiting", "leased", "done", "failed"}]
      /\ \A g \in Gates : (phase'[g] # "new") = (phase[g] # "new")
      /\ \A g \in Gates : phase'[g] = "done" => phase[g] = "done"
  BY <1>1, <1>2
<1>4. Onward /\ Committed' = Committed
  BY <1>1, <1>3 DEF Onward, Committed
<1>5. ProcTypes' /\ \A c \in Builders : BuilderInv(c)'
  BY <1>1, <1>4, StillInv DEF BuildIInv
<1>6. GitTypes' /\ CountTypes' /\ GatesInv' /\ GatedNeedsApproval'
  BY <1>1, <1>3, ApprovalsKept DEF BuildIInv, GitTypes, CountTypes, GatesInv
<1>7. HonestRow' /\ RowTypes'
  BY <1>1, <1>3, <1>4, RowKept DEF BuildIInv
<1> QED BY <1>5, <1>6, <1>7 DEF BuildIInv
-----------------------------------------------------------------------------
LEMMA BuildInitIInv == BuildInit => BuildIInv
<1> SUFFICES ASSUME BuildInit PROVE BuildIInv
  OBVIOUS
<1>1. /\ main = <<>> /\ gates = <<>> /\ Committed = {} /\ Len(main) = 0 /\ Len(gates) = 0
      /\ phase = [g \in Gates |-> "new"]
  <2>1. main = <<>> /\ gates = <<>> /\ phase = [g \in Gates |-> "new"]
    BY DEF BuildInit, Lease!Init
  <2> QED BY <2>1 DEF Committed
<1>2. RowTypes /\ GitTypes /\ CountTypes
  <2>1. RowTypes
    BY PlanFacts DEF BuildInit, RowTypes, TypeOfRun
  <2>2. trees = {} /\ base = [n \in Nodes |-> 0] /\ deaths = 0 /\ lost = 0
    BY DEF BuildInit
  <2>3. GitTypes
    BY <1>1, <2>2 DEF GitTypes
  <2>4. CountTypes
    BY <2>2, PlanFacts DEF CountTypes
  <2> QED BY <2>1, <2>3, <2>4
<1>3. ProcTypes
  BY PlanFacts DEF BuildInit, ProcTypes, Stages
<1>4. GatesInv
  BY <1>1 DEF GatesInv
<1>5. \A b \in Builders : BuilderInv(b)
  BY PlanFacts DEF BuildInit, BuilderInv
<1>6. GatedNeedsApproval /\ HonestRow
  BY <1>1, PlanFacts DEF BuildInit, GatedNeedsApproval, HonestRow
<1> QED BY <1>2, <1>3, <1>4, <1>5, <1>6 DEF BuildIInv

LEMMA BuildNextIInv == BuildIInv /\ [BuildNext]_buildVars => BuildIInv'
<1> SUFFICES ASSUME BuildIInv, [BuildNext]_buildVars PROVE BuildIInv'
  OBVIOUS
<1>1. ASSUME NEW b \in Builders, StartRun(b) \/ Walk(b) \/ Die(b) PROVE BuildIInv'
  BY <1>1, StartRunInv, DieInv, PlanRunInv, NoRunInv, KeepOrSkipInv, EnterNodeInv,
     CreateWorktreeInv, AgentAndValidateInv, GateInv, CommitInv, CommitThrowsInv, LandInv,
     FinalizeRunInv, ExitInv DEF Walk
<1>2. ASSUME NEW b \in Builders, NEW g \in Gates, StartResume(b, g) PROVE BuildIInv'
  BY <1>2, StartResumeInv
<1>3. ASSUME NEW b \in Builders, NEW S \in SUBSET Gates, Reap(b, S) PROVE BuildIInv'
  BY <1>3, ReapInv
<1>4. ASSUME NEW g \in Gates, NEW to \in {"approved", "rejected"}, Resolve(g, to) PROVE BuildIInv'
  BY <1>4, ResolveInv
<1>5. CASE UNCHANGED buildVars
  <2>1. /\ UNCHANGED <<rowVars, gates, leaseVars, phase, main, trees, base, requestVars, procVars,
                       deaths, lost>>
    BY <1>5 DEF buildVars, leaseVars, gitVars
  <2>2. Onward /\ Committed' = Committed
    BY <2>1, OnwardKept
  <2>3. HonestRow' /\ RowTypes'
    BY <2>1, <2>2, RowKept DEF BuildIInv
  <2> QED BY <2>1, <2>2, <2>3, StillInv, GatesKept, ApprovalsKept
          DEF BuildIInv, GitTypes, CountTypes
<1> QED BY <1>1, <1>2, <1>3, <1>4, <1>5 DEF BuildNext
-----------------------------------------------------------------------------
\* The row, the gates, main and every builder keep their types through halts,
\* resumes, deaths and lost writes (pipeline.js, resume.js, gate.js).
THEOREM BuildTypeCorrect == BuildSpec => []BuildTypeOK
<1>1. BuildIInv => BuildTypeOK
  <2> SUFFICES ASSUME BuildIInv PROVE BuildTypeOK
    OBVIOUS
  <2>1. \A g \in 1..Len(gates) : gates[g] \in GateRows
    BY DEF BuildIInv, GatesInv
  <2> QED BY <2>1 DEF BuildIInv, BuildTypeOK, RowTypes, GitTypes, ProcTypes, CountTypes,
                      Records, RowStatuses, Stages, Steps, GateRows
<1> QED BY BuildInitIInv, BuildNextIInv, <1>1, PTL DEF BuildSpec

\* For any plan, any number of builders and gates, and any deaths, retries and lost
\* writes, main holds a gated node only after a human approved a gate of that very
\* node (gate.js:1-5).
THEOREM GatedCommitsApproved == BuildSpec => []GatedNeedsApproval
<1>1. BuildIInv => GatedNeedsApproval
  BY DEF BuildIInv
<1> QED BY BuildInitIInv, BuildNextIInv, <1>1, PTL DEF BuildSpec

\* Whatever seeds a walk, whoever overwrites the row and whichever write is lost, a
\* node the row, the job or the requester's answer counts as built is on main
\* (pipeline.js:7-10, resume.js).
THEOREM RowIsHonest == BuildSpec => []HonestRow
<1>1. BuildIInv => HonestRow
  BY DEF BuildIInv
<1> QED BY BuildInitIInv, BuildNextIInv, <1>1, PTL DEF BuildSpec
-----------------------------------------------------------------------------
(* Finite sets in a line, and the list of one in its order. *)

\* above says for each element of C which others come before it, and puts them in a line.
Lined(C, above) ==
  /\ above \in [C -> SUBSET C]
  /\ \A m \in C : m \notin above[m]
  /\ \A m, n \in C : m = n \/ m \in above[n] \/ n \in above[m]
  /\ \A m, n \in C : n \in above[m] => above[n] \subseteq above[m]

LEMMA Lines ==
  ASSUME NEW C, IsFiniteSet(C), NEW above, Lined(C, above)
  PROVE  /\ \A m \in C : Cardinality(above[m]) \in 0..(Cardinality(C) - 1)
         /\ \A m, n \in C : n \in above[m] <=> Cardinality(above[n]) < Cardinality(above[m])
         /\ \A i \in 0..(Cardinality(C) - 1) : \E m \in C : Cardinality(above[m]) = i
<1> DEFINE c == Cardinality(C)
           f == [m \in C |-> Cardinality(above[m])]
<1>1. c \in Nat
  BY FS_CardinalityType
<1>2. \A m \in C : /\ above[m] \subseteq C /\ IsFiniteSet(above[m]) /\ Cardinality(above[m]) \in Nat
                   /\ Cardinality(above[m]) < c
  <2> SUFFICES ASSUME NEW m \in C
               PROVE  above[m] \subseteq C /\ IsFiniteSet(above[m]) /\ Cardinality(above[m]) \in Nat
                      /\ Cardinality(above[m]) < c
    OBVIOUS
  <2>1. above[m] \subseteq C /\ m \notin above[m]
    BY DEF Lined
  <2>2. IsFiniteSet(above[m]) /\ Cardinality(above[m]) <= c /\ Cardinality(above[m]) \in Nat
    BY <2>1, FS_Subset, FS_CardinalityType
  <2>3. Cardinality(above[m]) # c
    <3>1. c = Cardinality(above[m]) => C = above[m]
      BY <2>1, FS_Subset
    <3> QED
      BY <2>1, <3>1
  <2> QED
    BY <1>1, <2>1, <2>2, <2>3
<1>3. \A m, n \in C : n \in above[m] => Cardinality(above[n]) < Cardinality(above[m])
  <2> SUFFICES ASSUME NEW m \in C, NEW n \in C, n \in above[m]
               PROVE  Cardinality(above[n]) < Cardinality(above[m])
    OBVIOUS
  <2>1. above[n] \subseteq above[m] /\ n \notin above[n]
    BY DEF Lined
  <2>2. Cardinality(above[n]) <= Cardinality(above[m])
    BY <1>2, <2>1, FS_Subset
  <2>3. Cardinality(above[n]) # Cardinality(above[m])
    <3>1. Cardinality(above[m]) = Cardinality(above[n]) => above[m] = above[n]
      BY <1>2, <2>1, FS_Subset
    <3> QED
      BY <2>1, <3>1
  <2> QED
    BY <1>2, <2>2, <2>3
<1>4. \A m, n \in C : Cardinality(above[n]) < Cardinality(above[m]) => n \in above[m]
  <2> SUFFICES ASSUME NEW m \in C, NEW n \in C, Cardinality(above[n]) < Cardinality(above[m]), n \notin above[m]
               PROVE  FALSE
    OBVIOUS
  <2>1. m # n
    BY <1>2
  <2>2. m \in above[n]
    BY <2>1 DEF Lined
  <2>3. Cardinality(above[m]) < Cardinality(above[n])
    BY <1>3, <2>2
  <2> QED
    BY <1>2, <2>3
<1>5. IsFiniteSet(0..(c - 1)) /\ Cardinality(0..(c - 1)) = c
  <2>1. c - 1 \in Int
    BY <1>1
  <2> QED
    BY <1>1, <2>1, FS_Interval
<1>6. f \in Injection(C, 0..(c - 1))
  <2>1. f \in [C -> 0..(c - 1)]
    BY <1>1, <1>2
  <2>2. \A a, b \in DOMAIN f : f[a] = f[b] => a = b
    <3> SUFFICES ASSUME NEW a \in C, NEW b \in C, f[a] = f[b], a # b PROVE FALSE
      OBVIOUS
    <3>1. Cardinality(above[a]) = Cardinality(above[b])
      OBVIOUS
    <3>2. a \in above[b] \/ b \in above[a]
      BY DEF Lined
    <3> QED
      BY <1>2, <1>3, <3>1, <3>2
  <2> QED
    BY <2>1, <2>2 DEF Injection, IsInjective
<1>7. f \in Surjection(C, 0..(c - 1))
  BY <1>5, <1>6, FS_Injection
<1>8. \A i \in 0..(c - 1) : \E m \in C : Cardinality(above[m]) = i
  BY <1>7 DEF Surjection
<1> QED
  BY <1>1, <1>2, <1>3, <1>4, <1>8

LEMMA LineBegins ==
  ASSUME NEW C, IsFiniteSet(C), C # {}, NEW above, Lined(C, above)
  PROVE  \E m \in C : above[m] = {}
<1>1. Cardinality(C) \in Nat /\ Cardinality(C) # 0
  BY FS_CardinalityType, FS_EmptySet
<1>2. 0 \in 0..(Cardinality(C) - 1)
  BY <1>1
<1>3. PICK m \in C : Cardinality(above[m]) = 0
  BY <1>2, Lines
<1>4. IsFiniteSet(above[m])
  BY FS_Subset DEF Lined
<1> QED
  BY <1>3, <1>4, FS_EmptySet

LEMMA LineFull ==
  ASSUME NEW C, IsFiniteSet(C), NEW above, Lined(C, above)
  PROVE  \A n \in 1..Cardinality(C) : \E m \in C : Cardinality(above[m]) = n - 1
<1> SUFFICES ASSUME NEW n \in 1..Cardinality(C) PROVE \E m \in C : Cardinality(above[m]) = n - 1
  OBVIOUS
<1>1. n - 1 \in 0..(Cardinality(C) - 1)
  BY FS_CardinalityType
<1> QED
  BY <1>1, Lines

LEMMA LinedUp ==
  ASSUME NEW C, IsFiniteSet(C), NEW above, Lined(C, above), NEW p \in [1..Cardinality(C) -> C],
         \A n \in 1..Cardinality(C) : Cardinality(above[p[n]]) = n - 1
  PROVE  /\ p \in Seq(C) /\ Len(p) = Cardinality(C)
         /\ Range(p) = C
<1> DEFINE c == Cardinality(C)
<1>1. c \in Nat
  BY FS_CardinalityType
<1>2. \A n \in 1..c : p[n] \in C /\ Cardinality(above[p[n]]) = n - 1
  OBVIOUS
<1>4. p \in Seq(C) /\ Len(p) = c
  BY <1>1
<1>5. \A m \in C : \E n \in 1..c : p[n] = m
  <2> SUFFICES ASSUME NEW m \in C PROVE \E n \in 1..c : p[n] = m
    OBVIOUS
  <2>1. Cardinality(above[m]) \in 0..(c - 1)
    BY Lines
  <2> DEFINE n == Cardinality(above[m]) + 1
  <2>2. n \in 1..c /\ n - 1 = Cardinality(above[m])
    BY <1>1, <2>1
  <2>3. p[n] \in C /\ Cardinality(above[p[n]]) = Cardinality(above[m])
    BY <1>2, <2>2
  <2>4. p[n] = m
    <3>1. \A k, l \in C : k = l \/ k \in above[l] \/ l \in above[k]
      BY DEF Lined
    <3>2. Cardinality(above[m]) \in Int
      BY <2>1
    <3>3. ~(m \in above[p[n]]) /\ ~(p[n] \in above[m])
      BY <2>3, <3>2, Lines
    <3> QED
      BY <2>3, <3>1, <3>3
  <2> QED
    BY <2>2, <2>4
<1>6. DOMAIN p = 1..c
  OBVIOUS
<1>7. Range(p) = C
  BY <1>2, <1>5, <1>6 DEF Range
<1> QED
  BY <1>4, <1>7

LEMMA LeastOf ==
  ASSUME NEW S, S \subseteq Nat, S # {}
  PROVE  \E n \in S : \A m \in S : n <= m
<1> DEFINE R == {p \in Nat \X Nat : p[1] < p[2]}
<1>1. IsWellFoundedOn(R, Nat)
  BY NatLessThanWellFounded DEF OpToRel
<1>2. \E x \in S : \A y \in S : ~ (<<y, x>> \in R)
  <2> HIDE DEF R
  <2> QED BY <1>1, WFMin
<1>3. PICK n \in S : \A m \in S : ~ (<<m, n>> \in R)
  BY <1>2
<1>4. \A m \in S : n <= m
  <2> SUFFICES ASSUME NEW m \in S, ~(n <= m) PROVE FALSE
    OBVIOUS
  <2>1. n \in Nat /\ m \in Nat /\ m < n
    OBVIOUS
  <2>2. <<m, n>> \in R
    BY <2>1
  <2> QED
    BY <1>3, <2>2
<1> QED
  BY <1>4

LEMMA MinIsIn ==
  ASSUME NEW S, S \subseteq Nat, S # {}
  PROVE  Min(S) \in S /\ \A n \in S : Min(S) <= n
<1>1. \E x \in S : \A y \in S : x =< y
  BY LeastOf
<1> QED
  BY <1>1 DEF Min
-----------------------------------------------------------------------------
(* The memory of one workspace.  BaseInv says what each handler has at its   *)
(* place.  CycleInv: every domain event the consolidation cursor has passed  *)
(* is in a summary, written or still to be emitted, and in one only unless   *)
(* cycles overlapped.  ReadInv: the nodes have what the log says up to where *)
(* the projection is, and the batch holds the log from there on.             *)
Doings ==
  Projecting \union {"idle", "wipe", "reset", "read_consolidated", "scan", "emit", "write_consolidated",
                     "find_cold", "put", "stub", "promote", "restore", "ledger"}
Kinds == {"none", "recall", "sleep", "rebuild", "tier", "fold"}
Types == {"domain", "summary", "day", "supersede", "ledger"}
Events == [ts : Nat, type : Types, about : SUBSET Nat]
Keys == Nat \X Nat
Locals ==
  [kind : Kinds, now : Nat, at : Keys, batch : Seq(Nat), outs : Seq(Events), upto : Keys,
   bundle : SUBSET Nat, left : SUBSET Nat]
NodeRows == [by : Nat, tiered : SUBSET Nat]
Zero == <<0, 0>>

\* A key of an event that was written, or the one before all.
Reached(k) == k \in Keys /\ k[1] <= now /\ k[2] <= Len(log)
Projects(h) == doing[h] \in Projecting
\* A cycle that has scanned and has not moved its cursor.
Cycle(h) == local[h].upto # Zero

MemoryTyped ==
  /\ log \in Seq(Events) /\ now \in Nat
  /\ nodes \in [DOMAIN nodes -> NodeRows] /\ DOMAIN nodes \subseteq DOMAIN log
  /\ Reached(projected) /\ Reached(consolidated)
  /\ doing \in [MemoryHandlers -> Doings] /\ local \in [MemoryHandlers -> Locals]
  /\ disturbed \in BOOLEAN /\ again \in BOOLEAN /\ half \in BOOLEAN

LogHolds ==
  \A i \in DOMAIN log :
    /\ log[i].ts <= now
    /\ \A j \in log[i].about : j \in DOMAIN log /\ (log[i].type = "supersede" => Before(Key(j), Key(i)))

\* What a handler has, at each place p of its work.
LocalFits(p, r) ==
  /\ r.now <= now /\ Reached(r.at) /\ Reached(r.upto)
  /\ r.batch \in Seq(DOMAIN log)
  /\ p = "apply" <=> r.batch # <<>>
  /\ p = "emit" <=> r.outs # <<>>
  /\ p \in {"read_consolidated", "scan", "emit", "write_consolidated"} => r.kind = "sleep"
  /\ p \in {"emit", "write_consolidated"} => r.upto # Zero
  /\ r.upto # Zero => r.kind = "sleep" /\ p \in {"emit", "find_cold", "put", "stub", "write_consolidated"}
  /\ p \in {"find_cold", "put", "stub"} => r.kind \in {"sleep", "tier"} /\ (r.kind = "sleep" => r.upto # Zero)
  /\ \A n \in DOMAIN r.outs :
       LET o == r.outs[n] IN
       /\ o.type \in {"summary", "day", "supersede"} /\ o.ts = r.now
       /\ \A j \in o.about : j \in DOMAIN log /\ (o.type = "supersede" => log[j].ts <= o.ts)
  /\ p \in {"put", "stub"} => r.left # {} /\ r.left \subseteq r.bundle
  /\ p = "stub" => r.bundle \in blobs

StubsHold == \A i \in DOMAIN nodes : nodes[i].tiered # {} => nodes[i].tiered \in blobs /\ i \in nodes[i].tiered

BaseInv == MemoryTyped /\ LogHolds /\ (\A h \in MemoryHandlers : LocalFits(doing[h], local[h])) /\ StubsHold

\* What a step of a handler does to it, and what no step takes away.
Move(h, p, q) == doing' = [doing EXCEPT ![h] = p] /\ local' = [local EXCEPT ![h] = q]
LogGrows ==
  /\ log' \in Seq(Events) /\ now' \in Nat /\ now <= now' /\ Len(log) <= Len(log')
  /\ \A i \in DOMAIN log : i \in DOMAIN log' /\ log'[i] = log[i]
  /\ blobs \subseteq blobs'

Summarizes(o, i) == o.type = "summary" /\ i \in o.about
\* The domain events up to k are in a summary, written or still to be emitted.
Covered(k, outs) ==
  \A i \in Domain : ~Before(k, Key(i)) => Summaries(i) # {} \/ \E n \in DOMAIN outs : Summarizes(outs[n], i)
\* And in one, and those beyond in none.
Once(k, outs) ==
  \A i \in Domain :
    /\ Before(k, Key(i)) => Summaries(i) = {} /\ \A n \in DOMAIN outs : ~Summarizes(outs[n], i)
    /\ \A s, r \in Summaries(i) : s = r
    /\ \A n, m \in DOMAIN outs : Summarizes(outs[n], i) /\ Summarizes(outs[m], i) => n = m
    /\ Summaries(i) # {} => \A n \in DOMAIN outs : ~Summarizes(outs[n], i)

CycleInv ==
  /\ Covered(consolidated, <<>>)
  /\ \A h \in MemoryHandlers :
       /\ doing[h] = "scan" => Covered(local[h].at, <<>>)
       /\ Cycle(h) => Covered(local[h].upto, local[h].outs)
  /\ again \/
       /\ \A h, g \in MemoryHandlers : local[h].kind = "sleep" /\ local[g].kind = "sleep" => h = g
       /\ \A h \in MemoryHandlers : doing[h] = "scan" => local[h].at = consolidated
       /\ \A h \in MemoryHandlers : Cycle(h) => Once(local[h].upto, local[h].outs)
       /\ (\E h \in MemoryHandlers : Cycle(h)) \/ Once(consolidated, <<>>)

\* s is the first event that supersedes j.
Supersedes(s, j) == log[s].type = "supersede" /\ j \in log[s].about
IsFirst(s, j) ==
  /\ s \in DOMAIN log /\ Supersedes(s, j)
  /\ \A r \in DOMAIN log : Supersedes(r, j) => r = s \/ Before(Key(s), Key(r))
\* The nodes have what the log says up to k, and nothing wrong beyond.
Sound(k) ==
  /\ \A j \in DOMAIN log : log[j].type \in NodeTypes /\ ~Before(k, Key(j)) => j \in DOMAIN nodes
  /\ \A j \in DOMAIN nodes :
       /\ log[j].type \in NodeTypes
       /\ nodes[j].by = 0 \/ IsFirst(nodes[j].by, j)
       /\ \A s \in DOMAIN log : IsFirst(s, j) /\ ~Before(k, Key(s)) => nodes[j].by = s
\* And nothing beyond.
Tight(k) ==
  \A j \in DOMAIN nodes : ~Before(k, Key(j)) /\ (nodes[j].by # 0 => ~Before(k, Key(nodes[j].by)))

\* A batch is what the log has from where the handler is, k, to the last of the batch.
Batched(k, b) ==
  /\ \A n \in DOMAIN b : Before(k, Key(b[n]))
  /\ \A n, m \in DOMAIN b : n < m => Before(Key(b[n]), Key(b[m]))
  /\ b # <<>> => \A i \in DOMAIN log : Before(k, Key(i)) /\ ~Before(Key(Last(b)), Key(i)) => i \in Range(b)

\* Places at which the read model is changed.
Folding == Projecting \union {"wipe", "reset"}
\* How far the nodes are, with a handler that projects.
Reach(h) == IF doing[h] = "read_projected" THEN projected ELSE local[h].at
\* What a handler at place p of its projection has folded.
Folded(k, p) == ~Before(k, projected) /\ Sound(k) /\ (Tight(k) \/ (half /\ p # "write_projected"))
ReadInv ==
  disturbed \/
    /\ \A h, g \in MemoryHandlers : Projects(h) /\ h # g => doing[g] \notin Folding
    /\ \A h \in MemoryHandlers : doing[h] = "reset" => DOMAIN nodes = {}
    /\ \A h \in MemoryHandlers : Projects(h) => Folded(Reach(h), doing[h]) /\ Batched(local[h].at, local[h].batch)
    /\ \/ \E h \in MemoryHandlers : Projects(h) \/ doing[h] = "reset"
       \/ Sound(projected) /\ (half \/ Tight(projected))

LEMMA LogType ==
  ASSUME log \in Seq(Events)
  PROVE  /\ Len(log) \in Nat /\ DOMAIN log = 1..Len(log) /\ DOMAIN log \subseteq Nat
         /\ \A i \in DOMAIN log : log[i] \in Events /\ log[i].ts \in Nat /\ Key(i) \in Keys
<1>1. Len(log) \in Nat /\ DOMAIN log = 1..Len(log)
  OBVIOUS
<1>2. \A i \in DOMAIN log : log[i] \in Events
  BY <1>1, ElementOfSeq
<1>3. \A i \in DOMAIN log : log[i].ts \in Nat /\ i \in Nat
  BY <1>1, <1>2 DEF Events
<1> QED
  BY <1>1, <1>2, <1>3 DEF Key, Keys

LEMMA BeforeIsOrder ==
  /\ \A k \in Keys : ~Before(k, k)
  /\ \A k, l \in Keys : k = l \/ Before(k, l) \/ Before(l, k)
  /\ \A k, l \in Keys : Before(k, l) => ~Before(l, k)
  /\ \A k, l, m \in Keys : Before(k, l) /\ Before(l, m) => Before(k, m)
  /\ \A k, l, m \in Keys : ~Before(l, k) /\ Before(l, m) => Before(k, m)
  /\ \A k, l, m \in Keys : Before(k, l) /\ ~Before(m, l) => Before(k, m)
BY DEF Before, Keys

\* The events in the order of their keys.
LEMMA KeysInOrder ==
  ASSUME log \in Seq(Events)
  PROVE  /\ \A i \in DOMAIN log : ~Before(Key(i), Key(i))
         /\ \A i, j \in DOMAIN log : i = j \/ Before(Key(i), Key(j)) \/ Before(Key(j), Key(i))
         /\ \A i, j, k \in DOMAIN log : Before(Key(i), Key(j)) /\ Before(Key(j), Key(k)) => Before(Key(i), Key(k))
<1>1. \A i, j \in DOMAIN log : Key(i) = Key(j) => i = j
  BY DEF Key
<1> QED
  BY <1>1, LogType, BeforeIsOrder

LEMMA KeysLined ==
  ASSUME log \in Seq(Events), NEW S, S \subseteq DOMAIN log, NEW above,
         above = [i \in S |-> {j \in S : Before(Key(j), Key(i))}]
  PROVE  IsFiniteSet(S) /\ Lined(S, above)
<1>1. IsFiniteSet(S)
  <2>1. IsFiniteSet(1..Len(log))
    BY LogType, FS_Interval
  <2> QED
    BY <2>1, LogType, FS_Subset
<1>2. above \in [S -> SUBSET S]
  OBVIOUS
<1>3. \A m, n \in S : n \in above[m] <=> Before(Key(n), Key(m))
  OBVIOUS
<1>4. \A m, n \in S : n \in above[m] => above[n] \subseteq above[m]
  <2> SUFFICES ASSUME NEW m \in S, NEW n \in S, n \in above[m], NEW x \in above[n] PROVE x \in above[m]
    OBVIOUS
  <2>1. x \in S /\ Before(Key(x), Key(n)) /\ Before(Key(n), Key(m))
    BY <1>2, <1>3
  <2>2. Before(Key(x), Key(m))
    BY <2>1, KeysInOrder
  <2> QED
    BY <1>3, <2>1, <2>2
<1>5. /\ \A m \in S : m \notin above[m]
      /\ \A m, n \in S : m = n \/ m \in above[n] \/ n \in above[m]
  BY <1>3, KeysInOrder
<1> QED
  BY <1>1, <1>2, <1>4, <1>5 DEF Lined

LEMMA InOrderIs ==
  ASSUME log \in Seq(Events), NEW S, S \subseteq DOMAIN log, NEW p, p = InOrder(S)
  PROVE  /\ p \in Seq(S) /\ p \in Seq(DOMAIN log) /\ Range(p) = S /\ (p = <<>> <=> S = {})
         /\ Len(p) \in Nat /\ DOMAIN p = 1..Len(p) /\ \A n \in DOMAIN p : p[n] \in S
         /\ \A i \in S : \E n \in DOMAIN p : p[n] = i
         /\ \A n, m \in DOMAIN p : n < m => Before(Key(p[n]), Key(p[m]))
         /\ \A n, m \in DOMAIN p : p[n] = p[m] => n = m
<1>1. PICK above : above = [i \in S |-> {j \in S : Before(Key(j), Key(i))}]
  OBVIOUS
<1>2. IsFiniteSet(S) /\ Lined(S, above)
  BY <1>1, KeysLined
<1>3. PICK c \in Nat : c = Cardinality(S)
  BY <1>2, FS_CardinalityType
<1>4. p = [n \in 1..c |-> CHOOSE i \in S : Cardinality({j \in S : Before(Key(j), Key(i))}) = n - 1]
  BY <1>3 DEF InOrder
<1>5. \A n \in 1..c : p[n] \in S /\ Cardinality(above[p[n]]) = n - 1
  <2> SUFFICES ASSUME NEW n \in 1..c PROVE p[n] \in S /\ Cardinality(above[p[n]]) = n - 1
    OBVIOUS
  <2>1. \E i \in S : Cardinality(above[i]) = n - 1
    BY <1>2, <1>3, LineFull
  <2>2. \A i \in S : above[i] = {j \in S : Before(Key(j), Key(i))}
    BY <1>1
  <2>3. \E i \in S : Cardinality({j \in S : Before(Key(j), Key(i))}) = n - 1
    BY <2>1, <2>2
  <2>4. p[n] = CHOOSE i \in S : Cardinality({j \in S : Before(Key(j), Key(i))}) = n - 1
    BY <1>4
  <2>5. p[n] \in S /\ Cardinality({j \in S : Before(Key(j), Key(p[n]))}) = n - 1
    BY <2>3, <2>4, Zenon
  <2> QED
    BY <2>2, <2>5
<1>6. p \in [1..c -> S]
  BY <1>4, <1>5
<1>7. p \in Seq(S) /\ Len(p) = c /\ Range(p) = S
  BY <1>2, <1>3, <1>5, <1>6, LinedUp
<1>8. DOMAIN p = 1..c
  BY <1>6
<1>9. \A n, m \in 1..c : n < m => Before(Key(p[n]), Key(p[m]))
  <2> SUFFICES ASSUME NEW n \in 1..c, NEW m \in 1..c, n < m PROVE Before(Key(p[n]), Key(p[m]))
    OBVIOUS
  <2>1. Cardinality(above[p[n]]) < Cardinality(above[p[m]])
    BY <1>5
  <2>2. p[n] \in above[p[m]]
    BY <1>2, <1>5, <2>1, Lines
  <2> QED
    BY <1>1, <1>5, <2>2
<1>10. \A n, m \in 1..c : p[n] = p[m] => n = m
  BY <1>5
<1>11. \A i \in S : \E n \in 1..c : p[n] = i
  BY <1>7, <1>8 DEF Range
<1>12. p = <<>> <=> S = {}
  <2>1. S # {} => c # 0
    BY <1>11
  <2>2. S = {} => c = 0
    BY <1>3, FS_EmptySet
  <2> QED
    BY <1>7, <2>1, <2>2
<1>13. p \in Seq(DOMAIN log)
  <2>1. \A T, U : T \subseteq U => Seq(T) \subseteq Seq(U)
    OBVIOUS
  <2> QED
    BY <1>7, <2>1
<1> QED
  BY <1>5, <1>7, <1>8, <1>9, <1>10, <1>11, <1>12, <1>13

\* There is a first of any events.
LEMMA FirstOf ==
  ASSUME log \in Seq(Events), NEW S, S \subseteq DOMAIN log, S # {}
  PROVE  \E s \in S : \A r \in S : r = s \/ Before(Key(s), Key(r))
<1>1. PICK above : above = [i \in S |-> {j \in S : Before(Key(j), Key(i))}]
  OBVIOUS
<1>2. PICK s \in S : above[s] = {}
  BY <1>1, KeysLined, LineBegins
<1>3. \A r \in S : ~Before(Key(r), Key(s))
  BY <1>1, <1>2
<1> QED
  BY <1>3, KeysInOrder

LEMMA FitsStill ==
  ASSUME MemoryTyped, LogGrows, NEW p \in Doings, NEW q \in Locals, LocalFits(p, q)
  PROVE  LocalFits(p, q)'
<1>1. now \in Nat /\ now' \in Nat /\ now <= now' /\ Len(log) \in Nat /\ Len(log') \in Nat /\ Len(log) <= Len(log')
      /\ DOMAIN log \subseteq DOMAIN log'
  BY LogType DEF LogGrows, MemoryTyped
<1>2. q.now \in Nat /\ q.at \in Keys /\ q.upto \in Keys
  BY DEF Locals
<1>3. q.now <= now' /\ Reached(q.at)' /\ Reached(q.upto)'
  BY <1>1, <1>2 DEF LocalFits, Reached, Keys
<1>4. q.batch \in Seq(DOMAIN log')
  <2>1. \A S, T : S \subseteq T => Seq(S) \subseteq Seq(T)
    OBVIOUS
  <2> QED
    BY <1>1, <2>1 DEF LocalFits
<1>5. \A j \in DOMAIN log : j \in DOMAIN log' /\ log'[j] = log[j]
  BY DEF LogGrows
<1>6. p = "stub" => q.bundle \in blobs'
  BY DEF LocalFits, LogGrows
<1>7. \A n \in DOMAIN q.outs :
         LET o == q.outs[n] IN
         /\ o.type \in {"summary", "day", "supersede"} /\ o.ts = q.now
         /\ \A j \in o.about : j \in DOMAIN log' /\ (o.type = "supersede" => log'[j].ts <= o.ts)
  BY <1>5 DEF LocalFits
<1> QED
  BY <1>3, <1>4, <1>6, <1>7 DEF LocalFits

\* The handlers after a step of one of them.
LEMMA HandlersFit ==
  ASSUME BaseInv, LogGrows, NEW h \in MemoryHandlers, NEW p \in Doings, NEW q \in Locals,
         Move(h, p, q), LocalFits(p, q)'
  PROVE  /\ doing' \in [MemoryHandlers -> Doings] /\ local' \in [MemoryHandlers -> Locals]
         /\ \A g \in MemoryHandlers : LocalFits(doing[g], local[g])'
<1>1. doing \in [MemoryHandlers -> Doings] /\ local \in [MemoryHandlers -> Locals] /\ MemoryTyped
  BY DEF BaseInv, MemoryTyped
<1>2. \A g \in MemoryHandlers : /\ doing'[g] = IF g = h THEN p ELSE doing[g]
                                /\ local'[g] = IF g = h THEN q ELSE local[g]
  BY <1>1 DEF Move
<1>3. ASSUME NEW g \in MemoryHandlers PROVE LocalFits(doing[g], local[g])'
  <2>1. CASE g = h
    <3>1. doing'[g] = p /\ local'[g] = q
      BY <1>2, <2>1
    <3> QED
      BY <3>1 DEF LocalFits
  <2>2. CASE g # h
    <3>1. doing'[g] = doing[g] /\ local'[g] = local[g]
      BY <1>2, <2>2
    <3>2. \A o \in Doings, r \in Locals : LocalFits(o, r) => LocalFits(o, r)'
      BY <1>1, FitsStill
    <3>3. LocalFits(doing[g], local[g])
      BY DEF BaseInv
    <3>4. PICK o \in Doings, r \in Locals : o = doing[g] /\ r = local[g]
      BY <1>1
    <3>5. LocalFits(o, r)'
      BY <3>2, <3>3, <3>4
    <3> QED
      BY <3>1, <3>4, <3>5 DEF LocalFits
  <2> QED
    BY <2>1, <2>2
<1> QED
  BY <1>1, <1>3 DEF Move

LEMMA GrowsQuietly ==
  ASSUME BaseInv, UNCHANGED <<log, now>>, blobs \subseteq blobs'
  PROVE  LogGrows
BY DEF BaseInv, MemoryTyped, LogGrows

Flags == disturbed \in BOOLEAN /\ again \in BOOLEAN /\ half \in BOOLEAN

\* A step that writes no table.
LEMMA BaseQuiet ==
  ASSUME BaseInv, UNCHANGED <<tables, now>>, Flags', NEW h \in MemoryHandlers, NEW p \in Doings, NEW q \in Locals,
         Move(h, p, q), LocalFits(p, q)
  PROVE  BaseInv'
<1>1. UNCHANGED <<log, nodes, projected, consolidated, blobs, now>>
  BY DEF tables
<1>2. LocalFits(p, q)'
  BY <1>1 DEF LocalFits, Reached
<1>3. LogGrows
  BY <1>1, GrowsQuietly
<1>4. /\ doing' \in [MemoryHandlers -> Doings] /\ local' \in [MemoryHandlers -> Locals]
      /\ \A g \in MemoryHandlers : LocalFits(doing[g], local[g])'
  BY <1>2, <1>3, HandlersFit
<1>5. MemoryTyped'
  BY <1>1, <1>4 DEF BaseInv, MemoryTyped, Reached, Flags
<1>6. LogHolds' /\ StubsHold'
  BY <1>1 DEF BaseInv, LogHolds, StubsHold, Key
<1> QED
  BY <1>4, <1>5, <1>6 DEF BaseInv

\* What a handler has at its place.
LEMMA LocalIs ==
  ASSUME BaseInv, NEW h \in MemoryHandlers
  PROVE  /\ local[h] \in Locals /\ doing[h] \in Doings /\ LocalFits(doing[h], local[h])
         /\ log \in Seq(Events) /\ MemoryTyped /\ Flags
BY DEF BaseInv, MemoryTyped, Flags

Entered(k, t) ==
  [kind |-> k, now |-> t, at |-> Zero, batch |-> <<>>, outs |-> <<>>, upto |-> Zero, bundle |-> {}, left |-> {}]

LEMMA FreshFits ==
  ASSUME BaseInv, NEW p \in Doings, NEW k \in Kinds, NEW t \in Nat, t <= now, NEW q,
         q = Entered(k, t),
         p \notin {"apply", "emit", "scan", "write_consolidated", "put", "stub"},
         p = "read_consolidated" => k = "sleep", p = "find_cold" => k = "tier"
  PROVE  /\ q \in Locals /\ LocalFits(p, q)
         /\ q.upto = Zero /\ q.outs = <<>> /\ q.kind = k /\ q.batch = <<>> /\ q.at = Zero /\ q.now = t
<1>1. PICK none : none = <<>>
  OBVIOUS
<1>2. \A S : none \in Seq(S)
  BY <1>1
<1>3. Zero \in Keys /\ Reached(Zero)
  <2>1. now \in Nat /\ Len(log) \in Nat
    BY LogType DEF BaseInv, MemoryTyped
  <2> QED
    BY <2>1 DEF Reached, Zero, Keys
<1>4. /\ q.upto = Zero /\ q.outs = none /\ q.kind = k /\ q.batch = none /\ q.at = Zero /\ q.now = t
      /\ q.bundle = {} /\ q.left = {}
  BY <1>1 DEF Entered
<1>5. q \in Locals
  BY <1>1, <1>2, <1>3 DEF Locals, Entered
<1>6. DOMAIN none = {}
  BY <1>1
<1>7. LocalFits(p, q)
  BY <1>1, <1>2, <1>3, <1>4, <1>6 DEF LocalFits
<1> QED
  BY <1>1, <1>4, <1>5, <1>7

LEMMA IdleFits ==
  ASSUME BaseInv, NEW p \in Doings, NEW k \in Kinds, NEW t \in Nat, t <= now, NEW q,
         q = [NoCall EXCEPT !.kind = k, !.now = t],
         p \notin {"apply", "emit", "scan", "write_consolidated", "put", "stub"},
         p = "read_consolidated" => k = "sleep", p = "find_cold" => k = "tier"
  PROVE  /\ q \in Locals /\ LocalFits(p, q)
         /\ q.upto = Zero /\ q.outs = <<>> /\ q.kind = k /\ q.batch = <<>> /\ q.at = Zero /\ q.now = t
<1>1. q = Entered(k, t)
  BY DEF NoCall, Zero, Entered
<1>2. BaseInv /\ t <= now /\ p \notin {"apply", "emit", "scan", "write_consolidated", "put", "stub"}
      /\ (p = "read_consolidated" => k = "sleep") /\ (p = "find_cold" => k = "tier")
  OBVIOUS
<1>3. PICK r : r = Entered(k, t)
  OBVIOUS
<1>4. /\ r \in Locals /\ LocalFits(p, r)
      /\ r.upto = Zero /\ r.outs = <<>> /\ r.kind = k /\ r.batch = <<>> /\ r.at = Zero /\ r.now = t
  BY ONLY BaseInv, p \in Doings, k \in Kinds, t \in Nat, <1>2, <1>3, FreshFits
<1> QED
  BY <1>1, <1>3, <1>4

LEMMA RestFits ==
  ASSUME BaseInv
  PROVE  /\ NoCall \in Locals /\ LocalFits("idle", NoCall)
         /\ NoCall.upto = Zero /\ NoCall.outs = <<>> /\ NoCall.kind = "none"
<1>1. NoCall = Entered("none", 0)
  BY DEF NoCall, Zero, Entered
<1>2. PICK p \in Doings : p = "idle"
  BY DEF Doings
<1>3. PICK k \in Kinds : k = "none"
  BY DEF Kinds
<1>4. 0 \in Nat /\ 0 <= now
  BY DEF BaseInv, MemoryTyped
<1>5. /\ p \notin {"apply", "emit", "scan", "write_consolidated", "put", "stub"}
      /\ p = "read_consolidated" => k = "sleep"
      /\ p = "find_cold" => k = "tier"
  BY <1>2
<1>6. PICK q : q = NoCall
  OBVIOUS
<1>7. q = Entered(k, 0)
  BY <1>1, <1>3, <1>6
<1>8. /\ q \in Locals /\ LocalFits(p, q)
      /\ q.upto = Zero /\ q.outs = <<>> /\ q.kind = k
  BY <1>4, <1>5, <1>7, FreshFits
<1> QED
  BY <1>2, <1>3, <1>6, <1>8

\* A move that neither begins nor ends the consolidation of anything.
Plain(h, p, q) ==
  /\ q.upto = local[h].upto /\ q.outs = local[h].outs
  /\ q.kind = "sleep" => local[h].kind = "sleep"
  /\ p = "scan" => doing[h] = "scan" /\ q.at = local[h].at

LEMMA Rest ==
  ASSUME NEW S, NEW s \in Seq(S), s # <<>>
  PROVE  /\ Head(s) \in S /\ Tail(s) \in Seq(S) /\ Len(s) \in Nat /\ Len(s) >= 1 /\ Head(s) = s[1]
         /\ Len(Tail(s)) = Len(s) - 1 /\ (Tail(s) = <<>> <=> Len(s) = 1)
         /\ \A n \in 1..(Len(s) - 1) : Tail(s)[n] = s[n + 1] /\ n + 1 \in 1..Len(s)
<1>1. /\ Head(s) \in S /\ Tail(s) \in Seq(S) /\ Len(Tail(s)) = Len(s) - 1
      /\ \A n \in 1..Len(Tail(s)) : Tail(s)[n] = s[n + 1]
  BY HeadTailProperties
<1>2. Len(s) \in Nat /\ Len(s) >= 1 /\ Head(s) = s[1]
  OBVIOUS
<1>3. PICK b \in Seq(S) : b = Tail(s)
  BY <1>1
<1>4. b = <<>> <=> Len(b) = 0
  OBVIOUS
<1> QED
  BY <1>1, <1>2, <1>3, <1>4

LEMMA ReadProjectedIs ==
  ASSUME BaseInv, NEW h \in MemoryHandlers, ReadProjected(h)
  PROVE  \E q \in Locals : /\ Move(h, "fetch", q) /\ LocalFits("fetch", q) /\ Plain(h, "fetch", q)
                           /\ q.at = projected /\ q.batch = <<>>
<1>1. PICK r \in Locals : r = local[h] /\ LocalFits("read_projected", r)
  BY LocalIs DEF ReadProjected
<1>2. PICK q : q = [r EXCEPT !.at = projected]
  OBVIOUS
<1>3. projected \in Keys /\ Reached(projected)
  BY DEF BaseInv, MemoryTyped, Reached
<1>4. q \in Locals /\ q.at = projected /\ q.batch = r.batch /\ q.now = r.now /\ q.outs = r.outs /\ q.upto = r.upto
      /\ q.kind = r.kind /\ q.left = r.left /\ q.bundle = r.bundle
  BY <1>2, <1>3 DEF Locals
<1>5. LocalFits("fetch", q) /\ r.batch = <<>>
  BY <1>1, <1>3, <1>4 DEF LocalFits
<1>6. Move(h, "fetch", q)
  BY <1>1, <1>2 DEF ReadProjected, Go, Move
<1> QED
  BY <1>1, <1>4, <1>5, <1>6 DEF Plain

LEMMA FetchIs ==
  ASSUME BaseInv, NEW h \in MemoryHandlers, Fetch(h)
  PROVE  \E p \in {"apply", "write_projected"}, q \in Locals :
           /\ Move(h, p, q) /\ LocalFits(p, q) /\ Plain(h, p, q)
           /\ q.at = local[h].at /\ q.batch = After(local[h].at)
           /\ p = "write_projected" <=> Past(local[h].at) = {}
<1>1. PICK r \in Locals : r = local[h] /\ LocalFits("fetch", r)
  BY LocalIs DEF Fetch
<1>2. PICK b : b = After(r.at)
  OBVIOUS
<1>3. PICK q : q = [r EXCEPT !.batch = b]
  OBVIOUS
<1>4. PICK p \in {"apply", "write_projected"} : p = IF b = <<>> THEN "write_projected" ELSE "apply"
  OBVIOUS
<1>5. b \in Seq(DOMAIN log) /\ (b = <<>> <=> Past(r.at) = {})
  <2>1. log \in Seq(Events) /\ Past(r.at) \subseteq DOMAIN log
    BY LocalIs DEF Past
  <2> QED
    BY <1>2, <2>1, InOrderIs DEF After
<1>6. b \in Seq(Nat)
  <2>1. \A S, T : S \subseteq T => Seq(S) \subseteq Seq(T)
    OBVIOUS
  <2> QED
    BY <1>5, <2>1, LogType, LocalIs
<1>7. q \in Locals /\ q.at = r.at /\ q.batch = b /\ q.now = r.now /\ q.outs = r.outs /\ q.upto = r.upto
      /\ q.kind = r.kind /\ q.left = r.left /\ q.bundle = r.bundle
  BY <1>3, <1>6 DEF Locals
<1>8. LocalFits(p, q)
  BY <1>1, <1>4, <1>5, <1>7 DEF LocalFits
<1>9. Move(h, p, q)
  BY <1>1, <1>2, <1>3, <1>4 DEF Fetch, Go, Move
<1> QED
  BY <1>1, <1>2, <1>4, <1>5, <1>7, <1>8, <1>9 DEF Plain

LEMMA ApplyIs ==
  ASSUME BaseInv, NEW h \in MemoryHandlers, Apply(h)
  PROVE  \E p \in {"apply", "fetch"}, q \in Locals, i \in DOMAIN log :
           /\ local[h].batch # <<>> /\ i = Head(local[h].batch) /\ nodes' = Applied(nodes, i)
           /\ Move(h, p, q) /\ LocalFits(p, q) /\ Plain(h, p, q)
           /\ q.at = Key(i) /\ q.batch = Tail(local[h].batch)
<1>1. PICK r \in Locals : r = local[h] /\ LocalFits("apply", r)
  BY LocalIs DEF Apply
<1>2. r.batch \in Seq(DOMAIN log) /\ r.batch # <<>> /\ log \in Seq(Events)
  BY <1>1, LocalIs DEF LocalFits
<1>3. PICK i \in DOMAIN log : i = Head(r.batch)
  BY <1>2
<1>4. PICK b : b = Tail(r.batch)
  OBVIOUS
<1>5. PICK q : q = [r EXCEPT !.at = Key(i), !.batch = b]
  OBVIOUS
<1>6. PICK p \in {"apply", "fetch"} : p = IF Len(r.batch) = 1 THEN "fetch" ELSE "apply"
  OBVIOUS
<1>7. b \in Seq(DOMAIN log) /\ (b = <<>> <=> Len(r.batch) = 1)
  <2>1. r.batch \in Seq(DOMAIN log) /\ r.batch # <<>>
    BY <1>2
  <2> QED
    BY <1>4, <2>1, Rest
<1>8. b \in Seq(Nat)
  <2>1. \A S, T : S \subseteq T => Seq(S) \subseteq Seq(T)
    OBVIOUS
  <2> QED
    BY <1>7, <2>1, LogType, LocalIs
<1>9. Key(i) \in Keys /\ Reached(Key(i))
  <2>1. Key(i) \in Keys /\ i \in 1..Len(log) /\ Len(log) \in Nat
    BY <1>2, LogType
  <2>2. log[i].ts <= now
    BY DEF BaseInv, LogHolds
  <2> QED
    BY <2>1, <2>2 DEF Key, Reached
<1>10. q \in Locals /\ q.at = Key(i) /\ q.batch = b /\ q.now = r.now /\ q.outs = r.outs /\ q.upto = r.upto
      /\ q.kind = r.kind /\ q.left = r.left /\ q.bundle = r.bundle
  BY <1>5, <1>8, <1>9 DEF Locals
<1>11. LocalFits(p, q)
  BY <1>1, <1>6, <1>7, <1>9, <1>10 DEF LocalFits
<1>12. Move(h, p, q) /\ nodes' = Applied(nodes, i)
  <2>1. local' = [local EXCEPT ![h] = [local[h] EXCEPT !.at = Key(i), !.batch = Tail(local[h].batch)]]
    <3>1. local \in [MemoryHandlers -> Locals]
      BY DEF BaseInv, MemoryTyped
    <3> QED
      BY <1>1, <1>3, <3>1 DEF Apply
  <2> QED
    BY <1>1, <1>3, <1>4, <1>5, <1>6, <2>1 DEF Apply, Go, Move
<1> QED
  BY <1>1, <1>2, <1>3, <1>4, <1>10, <1>11, <1>12 DEF Plain

LEMMA WriteProjectedIs ==
  ASSUME BaseInv, NEW h \in MemoryHandlers, WriteProjected(h)
  PROVE  \E p \in {"promote", "read_consolidated", "idle"}, q \in Locals :
           Move(h, p, q) /\ LocalFits(p, q) /\ Plain(h, p, q)
<1>1. PICK r \in Locals : r = local[h] /\ LocalFits("write_projected", r)
  BY LocalIs DEF WriteProjected
<1>2. r.kind \in Kinds /\ r.now \in Nat /\ r.now <= now /\ r.upto = Zero /\ r.outs = <<>>
  BY <1>1 DEF LocalFits, Locals
<1>3. PICK q : q = [NoCall EXCEPT !.kind = r.kind, !.now = r.now]
  OBVIOUS
<1>4. CASE r.kind \in {"recall", "sleep"}
  <2>1. PICK p \in Doings : p = IF r.kind = "recall" THEN "promote" ELSE "read_consolidated"
    BY DEF Doings
  <2>2. /\ p \notin {"apply", "emit", "scan", "write_consolidated", "put", "stub"}
        /\ p = "read_consolidated" => r.kind = "sleep"
        /\ p = "find_cold" => r.kind = "tier"
    BY <1>4, <2>1
  <2>3. PICK k \in Kinds, t \in Nat : k = r.kind /\ t = r.now
    BY <1>2
  <2>4. BaseInv /\ t <= now /\ q = Entered(k, t) /\ p \notin {"apply", "emit", "scan", "write_consolidated", "put", "stub"}
        /\ (p = "read_consolidated" => k = "sleep") /\ (p = "find_cold" => k = "tier")
    BY <1>2, <1>3, <2>2, <2>3 DEF NoCall, Zero, Entered
  <2>5. q \in Locals /\ LocalFits(p, q) /\ q.upto = Zero /\ q.outs = <<>> /\ q.kind = k
    BY ONLY p \in Doings, k \in Kinds, t \in Nat, <2>4, FreshFits
  <2>6. Move(h, p, q)
    BY <1>1, <1>3, <1>4, <2>1 DEF WriteProjected, Continues, Go, Move
  <2> QED
    BY <1>1, <1>2, <1>4, <2>1, <2>3, <2>5, <2>6 DEF Plain
<1>5. CASE r.kind \notin {"recall", "sleep"}
  <2>1. Move(h, "idle", NoCall)
    BY <1>1, <1>5 DEF WriteProjected, Ends, Go, Move
  <2> QED
    BY <1>1, <1>2, <2>1, RestFits DEF Plain
<1> QED
  BY <1>4, <1>5

\* A handler that ends.
LEMMA EndsIs ==
  ASSUME BaseInv, NEW h \in MemoryHandlers, Ends(h)
  PROVE  /\ Move(h, "idle", NoCall) /\ NoCall \in Locals /\ LocalFits("idle", NoCall)
         /\ local[h].upto = Zero => Plain(h, "idle", NoCall)
<1>1. Move(h, "idle", NoCall)
  BY DEF Ends, Go, Move
<1>2. local[h].upto = Zero => local[h].outs = <<>>
  BY LocalIs DEF LocalFits
<1> QED
  BY <1>1, <1>2, RestFits DEF Plain

\* A handler that goes on with what it has.
LEMMA GoesOn ==
  ASSUME BaseInv, NEW h \in MemoryHandlers, NEW p \in Doings, Go(h, p), local' = local, p # "scan",
         LocalFits(p, local[h])
  PROVE  \E q \in Locals : q = local[h] /\ Move(h, p, q) /\ LocalFits(p, q) /\ Plain(h, p, q)
<1>1. local[h] \in Locals /\ local \in [MemoryHandlers -> Locals]
  BY LocalIs DEF MemoryTyped
<1>2. local' = [local EXCEPT ![h] = local[h]]
  BY <1>1
<1> QED
  BY <1>1, <1>2 DEF Go, Move, Plain

LEMMA ReachedStill ==
  ASSUME MemoryTyped, LogGrows, NEW k \in Keys, Reached(k)
  PROVE  Reached(k)'
<1>1. now \in Nat /\ now' \in Nat /\ now <= now' /\ Len(log) \in Nat /\ Len(log') \in Nat /\ Len(log) <= Len(log')
  BY LogType DEF LogGrows, MemoryTyped
<1> QED
  BY <1>1 DEF Reached, Keys

NodesTyped == nodes \in [DOMAIN nodes -> NodeRows] /\ DOMAIN nodes \subseteq DOMAIN log

\* A step of a handler, whatever it writes.
LEMMA BaseMoves ==
  ASSUME BaseInv, LogGrows, NEW h \in MemoryHandlers, NEW p \in Doings, NEW q \in Locals,
         Move(h, p, q), LocalFits(p, q)', Flags', LogHolds', StubsHold', NodesTyped',
         Reached(projected)', Reached(consolidated)'
  PROVE  BaseInv'
<1>1. /\ doing' \in [MemoryHandlers -> Doings] /\ local' \in [MemoryHandlers -> Locals]
      /\ \A g \in MemoryHandlers : LocalFits(doing[g], local[g])'
  BY HandlersFit
<1>2. MemoryTyped'
  BY <1>1 DEF MemoryTyped, LogGrows, NodesTyped, Flags
<1> QED
  BY <1>1, <1>2 DEF BaseInv

\* A step that leaves the log and the clock.
LEMMA BaseWrites ==
  ASSUME BaseInv, UNCHANGED <<log, now>>, blobs \subseteq blobs',
         NEW h \in MemoryHandlers, NEW p \in Doings, NEW q \in Locals,
         Move(h, p, q), LocalFits(p, q)', Flags', StubsHold', NodesTyped', Reached(projected'), Reached(consolidated')
  PROVE  BaseInv'
<1>1. LogGrows
  BY GrowsQuietly
<1>2. LogHolds'
  BY DEF BaseInv, LogHolds, Key
<1>3. Reached(projected)' /\ Reached(consolidated)'
  BY DEF Reached
<1> QED
  BY <1>1, <1>2, <1>3, BaseMoves

LEMMA BaseHolds ==
  ASSUME BaseInv
  PROVE  StubsHold /\ NodesTyped /\ LogHolds /\ Reached(projected) /\ Reached(consolidated) /\ Flags
         /\ projected \in Keys /\ consolidated \in Keys
BY DEF BaseInv, MemoryTyped, NodesTyped, Flags, Reached

\* Stubs that some step leaves, while it deletes no bundle.
LEMMA StubsStay ==
  ASSUME BaseInv, blobs \subseteq blobs',
         \A j \in DOMAIN nodes' : nodes'[j].tiered = {} \/ (j \in DOMAIN nodes /\ nodes'[j].tiered = nodes[j].tiered)
                                  \/ (nodes'[j].tiered \in blobs' /\ j \in nodes'[j].tiered)
  PROVE  StubsHold'
BY DEF BaseInv, StubsHold

LEMMA AppliedTyped ==
  ASSUME BaseInv, NEW i \in DOMAIN log, NEW f, f = Applied(nodes, i)
  PROVE  /\ f \in [DOMAIN f -> NodeRows] /\ DOMAIN nodes \subseteq DOMAIN f /\ DOMAIN f \subseteq DOMAIN log
         /\ \A j \in DOMAIN f : f[j].tiered = {} \/ (j \in DOMAIN nodes /\ f[j].tiered = nodes[j].tiered)
         /\ \A j \in DOMAIN f : j \notin DOMAIN nodes => j = i
         /\ log[i].type \in NodeTypes => i \in DOMAIN f /\ f[i].by = 0 /\ \A j \in DOMAIN nodes : j # i => f[j] = nodes[j]
         /\ log[i].type \notin NodeTypes => DOMAIN f = DOMAIN nodes
         /\ log[i].type = "supersede" =>
              \A j \in DOMAIN nodes : f[j].by = IF j \in log[i].about /\ nodes[j].by = 0 THEN i ELSE nodes[j].by
         /\ log[i].type = "ledger" => f = nodes
         /\ i \in DOMAIN f => log[i].type \in NodeTypes \/ i \in DOMAIN nodes
<1>1. nodes \in [DOMAIN nodes -> NodeRows] /\ DOMAIN nodes \subseteq DOMAIN log /\ i \in Nat /\ log[i].type \in Types
  BY LogType, LocalIs DEF BaseInv, MemoryTyped, Events
<1>2. \A j \in DOMAIN nodes : nodes[j] \in NodeRows /\ nodes[j].by \in Nat /\ nodes[j].tiered \in SUBSET Nat
  BY <1>1 DEF NodeRows
<1>3. CASE log[i].type \in NodeTypes
  <2>1. f = [j \in DOMAIN nodes \union {i} |-> IF j = i THEN NoNode ELSE nodes[j]]
    <3>1. f = Set(nodes, i, NoNode)
      BY <1>3, Zenon DEF Applied, NodeTypes
    <3> QED
      BY <3>1 DEF Set
  <2>2. NoNode \in NodeRows /\ NoNode.by = 0 /\ NoNode.tiered = {}
    BY DEF NoNode, NodeRows
  <2>3. log[i].type # "supersede" /\ log[i].type # "ledger"
    BY <1>3 DEF NodeTypes
  <2> QED
    BY <1>1, <1>2, <1>3, <2>1, <2>2, <2>3
<1>4. CASE log[i].type = "supersede"
  <2>1. f = [j \in DOMAIN nodes |-> IF j \in log[i].about /\ nodes[j].by = 0 THEN [nodes[j] EXCEPT !.by = i] ELSE nodes[j]]
    BY <1>4 DEF Applied, NodeTypes
  <2>2. DOMAIN f = DOMAIN nodes
    BY <2>1
  <2>3. \A j \in DOMAIN nodes : /\ [nodes[j] EXCEPT !.by = i] \in NodeRows /\ [nodes[j] EXCEPT !.by = i].by = i
                                /\ [nodes[j] EXCEPT !.by = i].tiered = nodes[j].tiered
    BY <1>1, <1>2 DEF NodeRows
  <2>4. \A j \in DOMAIN nodes : /\ f[j] \in NodeRows /\ f[j].tiered = nodes[j].tiered
                                /\ f[j].by = IF j \in log[i].about /\ nodes[j].by = 0 THEN i ELSE nodes[j].by
    BY <1>2, <2>1, <2>3
  <2>5. f \in [DOMAIN f -> NodeRows]
    BY <2>1, <2>2, <2>4
  <2>6. log[i].type \notin NodeTypes /\ log[i].type # "ledger"
    BY <1>4 DEF NodeTypes
  <2> QED
    BY <1>1, <2>2, <2>4, <2>5, <2>6
<1>5. CASE log[i].type \notin NodeTypes /\ log[i].type # "supersede"
  <2>1. f = nodes
    BY <1>5 DEF Applied
  <2> QED
    BY <1>1, <1>5, <2>1
<1> QED
  BY <1>3, <1>4, <1>5

LEMMA ReadProjectedBase ==
  ASSUME BaseInv, NEW h \in MemoryHandlers, ReadProjected(h)
  PROVE  BaseInv'
<1>1. PICK q \in Locals : Move(h, "fetch", q) /\ LocalFits("fetch", q)
  BY ReadProjectedIs
<1>2. UNCHANGED <<tables, now>> /\ Flags'
  BY LocalIs DEF ReadProjected, Goes, Flags
<1>3. "fetch" \in Doings
  BY DEF Doings, Projecting
<1> QED
  BY <1>1, <1>2, <1>3, BaseQuiet

LEMMA FetchBase ==
  ASSUME BaseInv, NEW h \in MemoryHandlers, Fetch(h)
  PROVE  BaseInv'
<1>1. PICK p \in {"apply", "write_projected"}, q \in Locals : Move(h, p, q) /\ LocalFits(p, q)
  BY FetchIs
<1>2. UNCHANGED <<tables, now>> /\ Flags'
  BY LocalIs DEF Fetch, Goes, Flags
<1>3. p \in Doings
  BY <1>1 DEF Doings, Projecting
<1> QED
  BY <1>1, <1>2, <1>3, BaseQuiet

LEMMA ApplyBase ==
  ASSUME BaseInv, NEW h \in MemoryHandlers, Apply(h)
  PROVE  BaseInv'
<1>1. PICK p \in {"apply", "fetch"}, q \in Locals, i \in DOMAIN log :
         Move(h, p, q) /\ LocalFits(p, q) /\ nodes' = Applied(nodes, i)
  BY ApplyIs
<1>2. UNCHANGED <<log, projected, consolidated, blobs, now>> /\ Flags'
  BY LocalIs DEF Apply, Goes, Flags
<1>3. p \in Doings
  BY <1>1 DEF Doings, Projecting
<1>4. /\ nodes' \in [DOMAIN nodes' -> NodeRows] /\ DOMAIN nodes' \subseteq DOMAIN log
      /\ \A j \in DOMAIN nodes' : nodes'[j].tiered = {} \/ (j \in DOMAIN nodes /\ nodes'[j].tiered = nodes[j].tiered)
  BY <1>1, AppliedTyped
<1>5. NodesTyped' /\ StubsHold'
  BY <1>2, <1>4, StubsStay DEF NodesTyped
<1>6. LocalFits(p, q)'
  BY <1>1, <1>2 DEF LocalFits, Reached
<1> QED
  BY <1>1, <1>2, <1>3, <1>5, <1>6, BaseHolds, BaseWrites

LEMMA WriteProjectedBase ==
  ASSUME BaseInv, NEW h \in MemoryHandlers, WriteProjected(h)
  PROVE  BaseInv'
<1>1. PICK p \in {"promote", "read_consolidated", "idle"}, q \in Locals : Move(h, p, q) /\ LocalFits(p, q)
  BY WriteProjectedIs
<1>2. UNCHANGED <<log, nodes, consolidated, blobs, now>> /\ Flags' /\ projected' = local[h].at
  BY LocalIs DEF WriteProjected, Goes, Flags
<1>3. p \in Doings
  BY <1>1 DEF Doings
<1>4. Reached(projected')
  BY <1>2, LocalIs DEF LocalFits
<1>5. NodesTyped' /\ StubsHold'
  BY <1>2, BaseHolds DEF NodesTyped, StubsHold
<1>6. LocalFits(p, q)'
  BY <1>1, <1>2 DEF LocalFits, Reached
<1> QED
  BY <1>1, <1>2, <1>3, <1>4, <1>5, <1>6, BaseHolds, BaseWrites

\* A handler that forgets its locals.
LEMMA ContinuesIs ==
  ASSUME BaseInv, NEW h \in MemoryHandlers, NEW p \in {"ledger", "promote"}, Continues(h, p), local[h].upto = Zero
  PROVE  \E q \in Locals : Move(h, p, q) /\ LocalFits(p, q) /\ Plain(h, p, q)
<1>1. PICK r \in Locals : r = local[h] /\ LocalFits(doing[h], r)
  BY LocalIs
<1>2. PICK k \in Kinds, t \in Nat : k = r.kind /\ t = r.now /\ t <= now
  BY <1>1 DEF LocalFits, Locals
<1>3. PICK q : q = Entered(k, t)
  OBVIOUS
<1>4. p \in Doings /\ p \notin {"apply", "emit", "scan", "write_consolidated", "put", "stub"}
      /\ (p = "read_consolidated" => k = "sleep") /\ (p = "find_cold" => k = "tier")
  BY DEF Doings
<1>5. q \in Locals /\ LocalFits(p, q) /\ q.upto = Zero /\ q.outs = <<>> /\ q.kind = k
  BY <1>2, <1>3, <1>4, FreshFits
<1>6. q = [NoCall EXCEPT !.kind = r.kind, !.now = r.now]
  <2>1. Entered(r.kind, r.now) = [NoCall EXCEPT !.kind = r.kind, !.now = r.now]
    <3>1. PICK c : c = [NoCall EXCEPT !.kind = r.kind, !.now = r.now]
      OBVIOUS
    <3>2. c = Entered(r.kind, r.now)
      BY <3>1 DEF NoCall, Zero, Entered
    <3> QED
      BY <3>1, <3>2
  <2>2. Entered(k, t) = Entered(r.kind, r.now)
    BY <1>2
  <2> QED
    BY <1>3, <2>1, <2>2
<1>7. Move(h, p, q)
  BY <1>1, <1>6 DEF Continues, Go, Move
<1>8. r.outs = <<>>
  BY <1>1 DEF LocalFits
<1> QED
  BY <1>1, <1>2, <1>4, <1>5, <1>7, <1>8 DEF Plain

LEMMA AfterTierIs ==
  ASSUME BaseInv, NEW h \in MemoryHandlers, doing[h] \in {"find_cold", "stub"}, AfterTier(h)
  PROVE  \E p \in {"write_consolidated", "idle"}, q \in Locals : Move(h, p, q) /\ LocalFits(p, q) /\ Plain(h, p, q)
<1>1. PICK r \in Locals : r = local[h] /\ LocalFits(doing[h], r)
  BY LocalIs
<1>2. CASE r.kind = "sleep"
  <2>1. PICK q : q = [r EXCEPT !.bundle = {}, !.left = {}]
    OBVIOUS
  <2>2. q \in Locals /\ q.at = r.at /\ q.batch = r.batch /\ q.now = r.now /\ q.outs = r.outs /\ q.upto = r.upto
        /\ q.kind = r.kind
    BY <2>1 DEF Locals
  <2>3. r.upto # Zero
    BY <1>1, <1>2 DEF LocalFits
  <2>4. LocalFits("write_consolidated", q)
    BY <1>1, <1>2, <2>2, <2>3 DEF LocalFits
  <2>5. local \in [MemoryHandlers -> Locals]
    BY DEF BaseInv, MemoryTyped
  <2>6. local' = [local EXCEPT ![h] = q] /\ Go(h, "write_consolidated")
    BY <1>1, <1>2, <2>1, <2>5 DEF AfterTier
  <2> QED
    BY <1>1, <2>2, <2>4, <2>6 DEF Go, Move, Plain
<1>3. CASE r.kind # "sleep"
  <2>1. Ends(h) /\ local[h].upto = Zero
    BY <1>1, <1>3 DEF AfterTier, LocalFits
  <2> QED
    BY <2>1, EndsIs
<1> QED
  BY <1>2, <1>3

LEMMA WipeIs ==
  ASSUME BaseInv, NEW h \in MemoryHandlers, Wipe(h)
  PROVE  \E q \in Locals : Move(h, "reset", q) /\ LocalFits("reset", q) /\ Plain(h, "reset", q)
<1>1. LocalFits("wipe", local[h]) /\ Go(h, "reset") /\ local' = local
  BY LocalIs DEF Wipe
<1>2. LocalFits("reset", local[h])
  BY <1>1 DEF LocalFits
<1>3. "reset" \in Doings /\ "reset" # "scan"
  BY DEF Doings
<1> QED
  BY <1>1, <1>2, <1>3, GoesOn

LEMMA ResetProjectedIs ==
  ASSUME BaseInv, NEW h \in MemoryHandlers, ResetProjected(h)
  PROVE  \E q \in Locals : Move(h, "read_projected", q) /\ LocalFits("read_projected", q) /\ Plain(h, "read_projected", q)
<1>1. LocalFits("reset", local[h]) /\ Go(h, "read_projected") /\ local' = local
  BY LocalIs DEF ResetProjected, Project
<1>2. LocalFits("read_projected", local[h])
  BY <1>1 DEF LocalFits
<1>3. "read_projected" \in Doings /\ "read_projected" # "scan"
  BY DEF Doings, Projecting
<1> QED
  BY <1>1, <1>2, <1>3, GoesOn

LEMMA ReadConsolidatedIs ==
  ASSUME BaseInv, NEW h \in MemoryHandlers, ReadConsolidated(h)
  PROVE  \E q \in Locals : /\ Move(h, "scan", q) /\ LocalFits("scan", q)
                           /\ q.at = consolidated /\ q.upto = Zero /\ q.kind = "sleep" /\ local[h].kind = "sleep"
                           /\ local[h].upto = Zero
<1>1. PICK r \in Locals : r = local[h] /\ LocalFits("read_consolidated", r)
  BY LocalIs DEF ReadConsolidated
<1>2. PICK q : q = [r EXCEPT !.at = consolidated]
  OBVIOUS
<1>3. q \in Locals /\ q.at = consolidated /\ q.batch = r.batch /\ q.now = r.now /\ q.outs = r.outs /\ q.upto = r.upto
      /\ q.kind = r.kind /\ q.left = r.left /\ q.bundle = r.bundle
  BY <1>2, BaseHolds DEF Locals
<1>4. LocalFits("scan", q) /\ r.upto = Zero /\ r.kind = "sleep"
  BY <1>1, <1>3, BaseHolds DEF LocalFits
<1>5. local \in [MemoryHandlers -> Locals]
  BY DEF BaseInv, MemoryTyped
<1>6. local' = [local EXCEPT ![h] = q] /\ Go(h, "scan")
  BY <1>1, <1>2, <1>5 DEF ReadConsolidated
<1> QED
  BY <1>1, <1>3, <1>4, <1>6 DEF Go, Move

LEMMA EmitOutputIs ==
  ASSUME BaseInv, NEW h \in MemoryHandlers, EmitOutput(h)
  PROVE  \E p \in {"emit", "find_cold"}, q \in Locals, e \in Events :
           /\ local[h].outs \in Seq(Events) /\ local[h].outs # <<>> /\ e = Head(local[h].outs)
           /\ log' = Append(log, e) /\ Move(h, p, q) /\ LocalFits(p, q)
           /\ q.outs = Tail(local[h].outs) /\ q.upto = local[h].upto /\ q.kind = "sleep" /\ local[h].kind = "sleep"
           /\ q.upto # Zero
           /\ e.ts = local[h].now /\ e.ts <= now /\ e.type \in {"summary", "day", "supersede"}
           /\ \A j \in e.about : j \in DOMAIN log /\ (e.type = "supersede" => log[j].ts <= e.ts)
<1>1. PICK r \in Locals : r = local[h] /\ LocalFits("emit", r)
  BY LocalIs DEF EmitOutput
<1>2. r.outs \in Seq(Events) /\ r.outs # <<>>
  BY <1>1 DEF LocalFits, Locals
<1>3. PICK e \in Events, b \in Seq(Events) : e = Head(r.outs) /\ b = Tail(r.outs)
  BY <1>2, Rest
<1>4. Len(r.outs) \in Nat /\ Len(r.outs) >= 1 /\ e = r.outs[1] /\ (b = <<>> <=> Len(r.outs) = 1) /\ Len(b) = Len(r.outs) - 1
      /\ \A n \in 1..(Len(r.outs) - 1) : b[n] = r.outs[n + 1] /\ n + 1 \in 1..Len(r.outs)
  BY <1>2, <1>3, Rest
<1>5. PICK q : q = [r EXCEPT !.outs = b]
  OBVIOUS
<1>6. PICK p \in {"emit", "find_cold"} : p = IF Len(r.outs) = 1 THEN "find_cold" ELSE "emit"
  OBVIOUS
<1>7. q \in Locals /\ q.at = r.at /\ q.batch = r.batch /\ q.now = r.now /\ q.outs = b /\ q.upto = r.upto
      /\ q.kind = r.kind /\ q.left = r.left /\ q.bundle = r.bundle
  BY <1>3, <1>5 DEF Locals
<1>8. \A n \in DOMAIN r.outs :
         LET o == r.outs[n] IN
         /\ o.type \in {"summary", "day", "supersede"} /\ o.ts = r.now
         /\ \A j \in o.about : j \in DOMAIN log /\ (o.type = "supersede" => log[j].ts <= o.ts)
  BY <1>1 DEF LocalFits
<1>9. \A n \in DOMAIN b :
         LET o == b[n] IN
         /\ o.type \in {"summary", "day", "supersede"} /\ o.ts = r.now
         /\ \A j \in o.about : j \in DOMAIN log /\ (o.type = "supersede" => log[j].ts <= o.ts)
  <2> SUFFICES ASSUME NEW n \in DOMAIN b
               PROVE  LET o == b[n] IN
                      /\ o.type \in {"summary", "day", "supersede"} /\ o.ts = r.now
                      /\ \A j \in o.about : j \in DOMAIN log /\ (o.type = "supersede" => log[j].ts <= o.ts)
    OBVIOUS
  <2>1. n \in 1..(Len(r.outs) - 1)
    BY <1>3, <1>4
  <2>2. PICK m \in DOMAIN r.outs : b[n] = r.outs[m]
    BY <1>2, <1>4, <2>1
  <2> QED
    BY <1>8, <2>2
<1>10. LocalFits(p, q) /\ r.upto # Zero /\ r.kind = "sleep" /\ r.now <= now
  <2>1. /\ r.now <= now /\ Reached(r.at) /\ Reached(r.upto) /\ r.batch \in Seq(DOMAIN log) /\ r.batch = <<>>
        /\ r.kind = "sleep" /\ r.upto # Zero
    BY <1>1 DEF LocalFits
  <2>2. p = "emit" <=> b # <<>>
    BY <1>4, <1>6
  <2> QED
    BY <1>6, <1>7, <1>9, <2>1, <2>2 DEF LocalFits
<1>11. 1 \in DOMAIN r.outs
  BY <1>2, <1>4
<1>12. e.ts = r.now /\ e.type \in {"summary", "day", "supersede"}
       /\ \A j \in e.about : j \in DOMAIN log /\ (e.type = "supersede" => log[j].ts <= e.ts)
  BY <1>4, <1>8, <1>11
<1>13. local \in [MemoryHandlers -> Locals]
  BY DEF BaseInv, MemoryTyped
<1>14. local' = [local EXCEPT ![h] = q] /\ Go(h, p) /\ log' = Append(log, e)
  BY <1>1, <1>3, <1>5, <1>6, <1>13 DEF EmitOutput
<1> QED
  BY <1>1, <1>2, <1>3, <1>7, <1>10, <1>12, <1>14 DEF Go, Move

LEMMA WriteConsolidatedIs ==
  ASSUME BaseInv, NEW h \in MemoryHandlers, WriteConsolidated(h)
  PROVE  /\ \E q \in Locals : /\ Move(h, "read_projected", q) /\ LocalFits("read_projected", q)
                              /\ q.upto = Zero /\ q.outs = <<>> /\ q.kind = "fold" /\ q.batch = <<>>
         /\ local[h].kind = "sleep" /\ local[h].upto # Zero /\ local[h].outs = <<>>
         /\ Reached(local[h].upto) /\ local[h].upto \in Keys
<1>1. PICK r \in Locals : r = local[h] /\ LocalFits("write_consolidated", r)
  BY LocalIs DEF WriteConsolidated
<1>2. r.kind = "sleep" /\ r.upto # Zero /\ r.outs = <<>> /\ Reached(r.upto) /\ r.upto \in Keys
  BY <1>1 DEF LocalFits, Locals
<1>3. PICK k \in Kinds, p \in Doings, t \in Nat : k = "fold" /\ p = "read_projected" /\ t = 0 /\ t <= now
  BY DEF Kinds, Doings, Projecting, BaseInv, MemoryTyped
<1>4. PICK q : q = Entered(k, t)
  OBVIOUS
<1>5. p \notin {"apply", "emit", "scan", "write_consolidated", "put", "stub"}
      /\ (p = "read_consolidated" => k = "sleep") /\ (p = "find_cold" => k = "tier")
  BY <1>3
<1>6. q \in Locals /\ LocalFits(p, q) /\ q.upto = Zero /\ q.outs = <<>> /\ q.kind = k /\ q.batch = <<>>
  BY <1>3, <1>4, <1>5, FreshFits
<1>7. q = [NoCall EXCEPT !.kind = "fold"]
  <2>1. Entered("fold", 0) = [NoCall EXCEPT !.kind = "fold"]
    <3>1. PICK c : c = [NoCall EXCEPT !.kind = "fold"]
      OBVIOUS
    <3>2. c = Entered("fold", 0)
      BY <3>1 DEF NoCall, Zero, Entered
    <3> QED
      BY <3>1, <3>2
  <2>2. Entered(k, t) = Entered("fold", 0)
    BY <1>3
  <2> QED
    BY <1>4, <2>1, <2>2
<1>8. Move(h, p, q)
  BY <1>3, <1>7 DEF WriteConsolidated, Project, Go, Move
<1> QED
  BY <1>1, <1>2, <1>3, <1>6, <1>8

LEMMA FindColdIs ==
  ASSUME BaseInv, NEW h \in MemoryHandlers, FindCold(h)
  PROVE  \E p \in {"put", "write_consolidated", "idle"}, q \in Locals : Move(h, p, q) /\ LocalFits(p, q) /\ Plain(h, p, q)
<1>1. PICK r \in Locals : r = local[h] /\ LocalFits("find_cold", r)
  BY LocalIs DEF FindCold
<1>2. PICK cold : cold = Cold(r.now)
  OBVIOUS
<1>3. CASE cold = {}
  <2>1. AfterTier(h) /\ doing[h] \in {"find_cold", "stub"}
    BY <1>1, <1>2, <1>3 DEF FindCold
  <2> QED
    BY <2>1, AfterTierIs
<1>4. CASE cold # {}
  <2>1. cold \in SUBSET Nat
    BY <1>2, LogType, LocalIs DEF Cold, Domain
  <2>2. PICK q : q = [r EXCEPT !.bundle = cold, !.left = cold]
    OBVIOUS
  <2>3. q \in Locals /\ q.at = r.at /\ q.batch = r.batch /\ q.now = r.now /\ q.outs = r.outs /\ q.upto = r.upto
        /\ q.kind = r.kind /\ q.left = cold /\ q.bundle = cold
    BY <2>1, <2>2 DEF Locals
  <2>4. LocalFits("put", q)
    BY <1>1, <1>4, <2>3 DEF LocalFits
  <2>5. local \in [MemoryHandlers -> Locals]
    BY DEF BaseInv, MemoryTyped
  <2>6. local' = [local EXCEPT ![h] = q] /\ Go(h, "put")
    BY <1>1, <1>2, <1>4, <2>2, <2>5 DEF FindCold
  <2> QED
    BY <1>1, <2>3, <2>4, <2>6 DEF Go, Move, Plain
<1> QED
  BY <1>3, <1>4

LEMMA PutBundleIs ==
  ASSUME BaseInv, NEW h \in MemoryHandlers, PutBundle(h)
  PROVE  \E q \in Locals : Move(h, "stub", q) /\ LocalFits("stub", q)' /\ Plain(h, "stub", q)
<1>1. PICK r \in Locals : r = local[h] /\ LocalFits("put", r)
  BY LocalIs DEF PutBundle
<1>2. blobs' = blobs \union {r.bundle} /\ Go(h, "stub") /\ local' = local /\ UNCHANGED <<log, now>>
  BY <1>1 DEF PutBundle, Goes
<1>3. LocalFits("stub", r)'
  BY <1>1, <1>2 DEF LocalFits, Reached
<1>4. local \in [MemoryHandlers -> Locals]
  BY DEF BaseInv, MemoryTyped
<1>5. local' = [local EXCEPT ![h] = r]
  BY <1>1, <1>2, <1>4
<1> QED
  BY <1>1, <1>2, <1>3, <1>5 DEF Go, Move, Plain

LEMMA StubIs ==
  ASSUME BaseInv, NEW h \in MemoryHandlers, Stub(h)
  PROVE  \E p \in {"stub", "write_consolidated", "idle"}, q \in Locals : Move(h, p, q) /\ LocalFits(p, q) /\ Plain(h, p, q)
<1>1. PICK r \in Locals : r = local[h] /\ LocalFits("stub", r)
  BY LocalIs DEF Stub
<1>2. PICK i : i = Min(r.left)
  OBVIOUS
<1>3. CASE r.left = {i}
  <2>1. AfterTier(h) /\ doing[h] \in {"find_cold", "stub"}
    BY <1>1, <1>2, <1>3 DEF Stub
  <2> QED
    BY <2>1, AfterTierIs
<1>4. CASE r.left # {i}
  <2>1. r.left \in SUBSET Nat /\ r.left # {} /\ r.left \subseteq r.bundle
    BY <1>1 DEF LocalFits, Locals
  <2>2. PICK rest : rest = r.left \ {i}
    OBVIOUS
  <2>3. rest \in SUBSET Nat /\ rest # {} /\ rest \subseteq r.bundle
    BY <1>4, <2>1, <2>2
  <2>4. PICK q : q = [r EXCEPT !.left = rest]
    OBVIOUS
  <2>5. q \in Locals /\ q.at = r.at /\ q.batch = r.batch /\ q.now = r.now /\ q.outs = r.outs /\ q.upto = r.upto
        /\ q.kind = r.kind /\ q.left = rest /\ q.bundle = r.bundle
    BY <2>3, <2>4 DEF Locals
  <2>6. LocalFits("stub", q)
    BY <1>1, <2>3, <2>5 DEF LocalFits
  <2>7. local \in [MemoryHandlers -> Locals] /\ doing \in [MemoryHandlers -> Doings]
    BY DEF BaseInv, MemoryTyped
  <2>8. local' = [local EXCEPT ![h] = q] /\ doing' = [doing EXCEPT ![h] = "stub"]
    BY <1>1, <1>2, <1>4, <2>2, <2>4, <2>7 DEF Stub
  <2> QED
    BY <1>1, <2>5, <2>6, <2>8 DEF Move, Plain
<1> QED
  BY <1>3, <1>4

LEMMA ReadTieredIs ==
  ASSUME BaseInv, NEW h \in MemoryHandlers, ReadTiered(h)
  PROVE  \E p \in {"ledger", "restore"}, q \in Locals : Move(h, p, q) /\ LocalFits(p, q) /\ Plain(h, p, q)
<1>1. PICK r \in Locals : r = local[h] /\ LocalFits("promote", r)
  BY LocalIs DEF ReadTiered
<1>2. CASE Go(h, "ledger") /\ local' = local
  <2>1. LocalFits("ledger", local[h])
    BY <1>1 DEF LocalFits
  <2>2. "ledger" \in Doings /\ "ledger" # "scan"
    BY DEF Doings
  <2> QED
    BY <1>2, <2>1, <2>2, GoesOn
<1>3. ASSUME NEW i \in DOMAIN nodes,
             local' = [local EXCEPT ![h].bundle = nodes[i].tiered, ![h].left = {i}], Go(h, "restore")
      PROVE  \E p \in {"ledger", "restore"}, q \in Locals : Move(h, p, q) /\ LocalFits(p, q) /\ Plain(h, p, q)
  <2>1. i \in Nat /\ nodes[i].tiered \in SUBSET Nat
    BY LogType DEF BaseInv, MemoryTyped, NodeRows
  <2>2. PICK q : q = [r EXCEPT !.bundle = nodes[i].tiered, !.left = {i}]
    OBVIOUS
  <2>3. q \in Locals /\ q.at = r.at /\ q.batch = r.batch /\ q.now = r.now /\ q.outs = r.outs /\ q.upto = r.upto
        /\ q.kind = r.kind
    BY <2>1, <2>2 DEF Locals
  <2>4. LocalFits("restore", q)
    BY <1>1, <2>3 DEF LocalFits
  <2>5. local \in [MemoryHandlers -> Locals]
    BY DEF BaseInv, MemoryTyped
  <2>6. local' = [local EXCEPT ![h] = q]
    BY <1>1, <1>3, <2>2, <2>5
  <2> QED
    BY <1>1, <1>3, <2>3, <2>4, <2>6 DEF Go, Move, Plain
<1> QED
  BY <1>2, <1>3 DEF ReadTiered

LEMMA RestoreIs ==
  ASSUME BaseInv, NEW h \in MemoryHandlers, Restore(h)
  PROVE  \E q \in Locals : Move(h, "ledger", q) /\ LocalFits("ledger", q) /\ Plain(h, "ledger", q)
<1>1. Continues(h, "ledger") /\ local[h].upto = Zero
  BY LocalIs DEF Restore, LocalFits
<1>2. PICK p \in {"ledger", "promote"} : p = "ledger"
  OBVIOUS
<1> QED
  BY <1>1, <1>2, ContinuesIs

\* One more event.
LEMMA Appended ==
  ASSUME BaseInv, NEW e \in Events, NEW last, last = Len(log) + 1,
         log' = Append(log, e), now' = now, blobs \subseteq blobs', e.ts <= now,
         \A j \in e.about : j \in DOMAIN log /\ (e.type = "supersede" => log[j].ts <= e.ts)
  PROVE  /\ LogGrows /\ LogHolds'
         /\ Len(log') = last /\ DOMAIN log' = DOMAIN log \union {last} /\ last \in DOMAIN log'
         /\ last \notin DOMAIN log /\ last \in Nat
         /\ log'[last] = e /\ Key(last)' = <<e.ts, last>>
         /\ \A i \in DOMAIN log : i \in DOMAIN log' /\ log'[i] = log[i] /\ Key(i)' = Key(i) /\ i < last
<1>1. log \in Seq(Events) /\ now \in Nat
  BY LocalIs DEF BaseInv, MemoryTyped
<1>2. log' \in Seq(Events) /\ Len(log') = last
  BY <1>1
<1>3. Len(log) \in Nat /\ DOMAIN log = 1..Len(log) /\ DOMAIN log' = 1..last /\ last \in Nat
  BY <1>1, <1>2
<1>4. log'[last] = e /\ \A i \in DOMAIN log : log'[i] = log[i]
  BY <1>1, <1>3
<1>5. \A i \in DOMAIN log : i \in DOMAIN log' /\ log'[i] = log[i] /\ Key(i)' = Key(i) /\ i < last
  BY <1>3, <1>4 DEF Key
<1>6. Key(last)' = <<e.ts, last>>
  BY <1>4 DEF Key
<1>7. DOMAIN log' = DOMAIN log \union {last} /\ last \notin DOMAIN log
  BY <1>3
<1>8. LogGrows
  BY <1>1, <1>2, <1>3, <1>5 DEF LogGrows
<1>9. LogHolds'
  <2> SUFFICES ASSUME NEW i \in DOMAIN log'
               PROVE  /\ log'[i].ts <= now
                      /\ \A j \in log'[i].about :
                           j \in DOMAIN log' /\ (log'[i].type = "supersede" => Before(Key(j)', Key(i)'))
    BY DEF LogHolds, Before
  <2>1. CASE i \in DOMAIN log
    <3>1. log'[i] = log[i] /\ Key(i)' = Key(i)
      BY <1>5, <2>1
    <3>2. log[i].ts <= now
          /\ \A j \in log[i].about : j \in DOMAIN log /\ (log[i].type = "supersede" => Before(Key(j), Key(i)))
      BY <2>1 DEF BaseInv, LogHolds
    <3> QED
      BY <1>5, <3>1, <3>2
  <2>2. CASE i = last
    <3>1. \A j \in e.about : Key(j)' = <<log[j].ts, j>> /\ j < last /\ j \in DOMAIN log' /\ log[j].ts \in Nat
      BY <1>1, <1>5, LogType DEF Key
    <3>2. e.ts \in Nat /\ log'[i] = e /\ Key(i)' = <<e.ts, last>>
      BY <1>4, <1>6, <2>2 DEF Events
    <3>3. ASSUME NEW j \in e.about, e.type = "supersede" PROVE Before(Key(j)', Key(i)')
      <4>1. log[j].ts <= e.ts
        BY <3>3
      <4> QED
        BY <1>3, <3>1, <3>2, <4>1 DEF Before
    <3> QED
      BY <3>1, <3>2, <3>3
  <2> QED
    BY <1>7, <2>1, <2>2
<1> QED
  BY <1>2, <1>3, <1>4, <1>5, <1>6, <1>7, <1>8, <1>9

\* Nodes that a step leaves stay sound.
LEMMA NodesStay ==
  ASSUME BaseInv, LogGrows, nodes' = nodes
  PROVE  NodesTyped' /\ StubsHold' /\ (UNCHANGED projected => Reached(projected)')
         /\ (UNCHANGED consolidated => Reached(consolidated)')
<1>1. NodesTyped'
  BY DEF BaseInv, MemoryTyped, NodesTyped, LogGrows
<1>2. StubsHold'
  BY DEF BaseInv, StubsHold, LogGrows
<1>3. \A k \in Keys : Reached(k) => Reached(k)'
  BY ReachedStill DEF BaseInv
<1>4. Reached(projected) /\ Reached(consolidated) /\ projected \in Keys /\ consolidated \in Keys
  BY BaseHolds
<1>5. PICK k \in Keys, l \in Keys : k = projected /\ l = consolidated
  BY <1>4
<1>6. Reached(k)' /\ Reached(l)'
  BY <1>3, <1>4, <1>5
<1>7. (UNCHANGED projected => Reached(projected)') /\ (UNCHANGED consolidated => Reached(consolidated)')
  BY <1>5, <1>6 DEF Reached
<1> QED
  BY <1>1, <1>2, <1>7

LEMMA ReadConsolidatedBase ==
  ASSUME BaseInv, NEW h \in MemoryHandlers, ReadConsolidated(h)
  PROVE  BaseInv'
<1>1. PICK q \in Locals : Move(h, "scan", q) /\ LocalFits("scan", q)
  BY ReadConsolidatedIs
<1>2. UNCHANGED <<tables, now>> /\ Flags'
  BY LocalIs DEF ReadConsolidated, Goes, Flags
<1>3. "scan" \in Doings
  BY <1>1 DEF Doings
<1> QED
  BY <1>1, <1>2, <1>3, BaseQuiet

LEMMA FindColdBase ==
  ASSUME BaseInv, NEW h \in MemoryHandlers, FindCold(h)
  PROVE  BaseInv'
<1>1. PICK p \in {"put", "write_consolidated", "idle"}, q \in Locals : Move(h, p, q) /\ LocalFits(p, q)
  BY FindColdIs
<1>2. UNCHANGED <<tables, now>> /\ Flags'
  BY LocalIs DEF FindCold, Goes, Flags
<1>3. p \in Doings
  BY <1>1 DEF Doings
<1> QED
  BY <1>1, <1>2, <1>3, BaseQuiet

LEMMA ReadTieredBase ==
  ASSUME BaseInv, NEW h \in MemoryHandlers, ReadTiered(h)
  PROVE  BaseInv'
<1>1. PICK p \in {"ledger", "restore"}, q \in Locals : Move(h, p, q) /\ LocalFits(p, q)
  BY ReadTieredIs
<1>2. UNCHANGED <<tables, now>> /\ Flags'
  BY LocalIs DEF ReadTiered, Goes, Flags
<1>3. p \in Doings
  BY <1>1 DEF Doings
<1> QED
  BY <1>1, <1>2, <1>3, BaseQuiet

LEMMA WipeBase ==
  ASSUME BaseInv, NEW h \in MemoryHandlers, Wipe(h)
  PROVE  BaseInv'
<1>1. PICK q \in Locals : Move(h, "reset", q) /\ LocalFits("reset", q)
  BY WipeIs
<1>2. UNCHANGED <<log, projected, consolidated, blobs, now>> /\ Flags' /\ nodes' = <<>>
  BY LocalIs DEF Wipe, Goes, Flags
<1>3. "reset" \in Doings
  BY DEF Doings
<1>4. NodesTyped' /\ StubsHold'
  BY <1>2, StubsStay DEF NodesTyped
<1>5. LocalFits("reset", q)'
  BY <1>1, <1>2 DEF LocalFits, Reached
<1> QED
  BY <1>1, <1>2, <1>3, <1>4, <1>5, BaseHolds, BaseWrites

LEMMA ResetProjectedBase ==
  ASSUME BaseInv, NEW h \in MemoryHandlers, ResetProjected(h)
  PROVE  BaseInv'
<1>1. PICK q \in Locals : Move(h, "read_projected", q) /\ LocalFits("read_projected", q)
  BY ResetProjectedIs
<1>2. UNCHANGED <<log, nodes, consolidated, blobs, now>> /\ Flags' /\ projected' = Zero
  BY LocalIs DEF ResetProjected, Project, Goes, Flags, Zero
<1>3. "read_projected" \in Doings
  BY DEF Doings, Projecting
<1>4. Reached(projected')
  <2>1. now \in Nat /\ Len(log) \in Nat
    BY LogType DEF BaseInv, MemoryTyped
  <2> QED
    BY <1>2, <2>1 DEF Reached, Zero, Keys
<1>5. NodesTyped' /\ StubsHold'
  BY <1>2, BaseHolds DEF NodesTyped, StubsHold
<1>6. LocalFits("read_projected", q)'
  BY <1>1, <1>2 DEF LocalFits, Reached
<1> QED
  BY <1>1, <1>2, <1>3, <1>4, <1>5, <1>6, BaseHolds, BaseWrites

LEMMA WriteConsolidatedBase ==
  ASSUME BaseInv, NEW h \in MemoryHandlers, WriteConsolidated(h)
  PROVE  BaseInv'
<1>1. PICK q \in Locals : Move(h, "read_projected", q) /\ LocalFits("read_projected", q)
  BY WriteConsolidatedIs
<1>2. UNCHANGED <<log, nodes, projected, blobs, now>> /\ Flags' /\ consolidated' = local[h].upto
  BY LocalIs DEF WriteConsolidated, Project, Goes, Flags
<1>3. "read_projected" \in Doings
  BY DEF Doings, Projecting
<1>4. Reached(consolidated')
  BY <1>2, WriteConsolidatedIs
<1>5. NodesTyped' /\ StubsHold'
  BY <1>2, BaseHolds DEF NodesTyped, StubsHold
<1>6. LocalFits("read_projected", q)'
  BY <1>1, <1>2 DEF LocalFits, Reached
<1> QED
  BY <1>1, <1>2, <1>3, <1>4, <1>5, <1>6, BaseHolds, BaseWrites

LEMMA PutBundleBase ==
  ASSUME BaseInv, NEW h \in MemoryHandlers, PutBundle(h)
  PROVE  BaseInv'
<1>1. PICK q \in Locals : Move(h, "stub", q) /\ LocalFits("stub", q)'
  BY PutBundleIs
<1>2. UNCHANGED <<log, nodes, projected, consolidated, now>> /\ Flags' /\ blobs \subseteq blobs'
  BY LocalIs DEF PutBundle, Goes, Flags
<1>3. "stub" \in Doings
  BY DEF Doings
<1>4. NodesTyped' /\ StubsHold'
  BY <1>2, BaseHolds, StubsStay DEF NodesTyped
<1> QED
  BY <1>1, <1>2, <1>3, <1>4, BaseHolds, BaseWrites

\* A step that tiers nodes or brings them back leaves which there are, and who superseded them.
SameNodes == DOMAIN nodes' = DOMAIN nodes /\ \A j \in DOMAIN nodes : nodes'[j].by = nodes[j].by

LEMMA StubNodes ==
  ASSUME BaseInv, NEW h \in MemoryHandlers, Stub(h)
  PROVE  SameNodes /\ NodesTyped' /\ StubsHold'
<1>1. PICK r \in Locals : r = local[h] /\ LocalFits("stub", r)
  BY LocalIs DEF Stub
<1>2. r.bundle \in SUBSET Nat /\ r.bundle \in blobs /\ r.left \subseteq Nat /\ r.left # {} /\ r.left \subseteq r.bundle
  BY <1>1 DEF LocalFits, Locals
<1>3. PICK i : i = Min(r.left)
  OBVIOUS
<1>4. i \in r.bundle
  BY <1>2, <1>3, MinIsIn
<1>5. nodes' = (IF i \in DOMAIN nodes THEN [nodes EXCEPT ![i].tiered = r.bundle] ELSE nodes) /\ UNCHANGED <<log, blobs>>
  BY <1>1, <1>3 DEF Stub
<1>6. nodes \in [DOMAIN nodes -> NodeRows] /\ DOMAIN nodes \subseteq DOMAIN log
  BY DEF BaseInv, MemoryTyped
<1>7. DOMAIN nodes' = DOMAIN nodes
  BY <1>5, <1>6
<1>8. ASSUME NEW j \in DOMAIN nodes
      PROVE  /\ nodes'[j] \in NodeRows /\ nodes'[j].by = nodes[j].by
             /\ nodes'[j].tiered = nodes[j].tiered \/ (nodes'[j].tiered = r.bundle /\ j \in r.bundle)
  <2>1. nodes[j] \in NodeRows
    BY <1>6
  <2>2. CASE j = i
    <3>1. nodes'[j] = [nodes[j] EXCEPT !.tiered = r.bundle]
      BY <1>5, <1>6, <2>2
    <3> QED
      BY <1>2, <1>4, <2>1, <2>2, <3>1 DEF NodeRows
  <2>3. CASE j # i
    BY <1>5, <1>6, <2>1, <2>3
  <2> QED
    BY <2>2, <2>3
<1>9. nodes' \in [DOMAIN nodes' -> NodeRows]
  <2>1. CASE i \in DOMAIN nodes
    <3>1. nodes' = [j \in DOMAIN nodes |-> nodes'[j]]
      BY <1>5, <1>6, <2>1
    <3> QED
      BY <1>7, <1>8, <3>1
  <2>2. CASE i \notin DOMAIN nodes
    BY <1>5, <1>6, <2>2
  <2> QED
    BY <2>1, <2>2
<1>10. SameNodes /\ NodesTyped'
  BY <1>5, <1>6, <1>7, <1>8, <1>9 DEF SameNodes, NodesTyped
<1>11. StubsHold'
  <2>1. \A j \in DOMAIN nodes' : nodes'[j].tiered = {} \/ (j \in DOMAIN nodes /\ nodes'[j].tiered = nodes[j].tiered)
                                  \/ (nodes'[j].tiered \in blobs' /\ j \in nodes'[j].tiered)
    BY <1>2, <1>5, <1>7, <1>8
  <2> QED
    BY <1>5, <2>1, StubsStay
<1> QED
  BY <1>10, <1>11

LEMMA StubBase ==
  ASSUME BaseInv, NEW h \in MemoryHandlers, Stub(h)
  PROVE  BaseInv'
<1>1. PICK p \in {"stub", "write_consolidated", "idle"}, q \in Locals : Move(h, p, q) /\ LocalFits(p, q)
  BY StubIs
<1>2. UNCHANGED <<log, projected, consolidated, blobs, now>> /\ Flags'
  BY LocalIs DEF Stub, Goes, Flags
<1>3. p \in Doings
  BY <1>1 DEF Doings
<1>4. NodesTyped' /\ StubsHold'
  BY StubNodes
<1>5. LocalFits(p, q)'
  BY <1>1, <1>2 DEF LocalFits, Reached
<1> QED
  BY <1>1, <1>2, <1>3, <1>4, <1>5, BaseHolds, BaseWrites

LEMMA RestoreNodes ==
  ASSUME BaseInv, NEW h \in MemoryHandlers, Restore(h)
  PROVE  SameNodes /\ NodesTyped' /\ StubsHold'
<1>1. PICK S : S = local[h].left \intersect local[h].bundle
  OBVIOUS
<1>2. nodes' = [i \in DOMAIN nodes |-> IF i \in S THEN [nodes[i] EXCEPT !.tiered = {}] ELSE nodes[i]]
      /\ UNCHANGED <<log, blobs>>
  BY <1>1 DEF Restore
<1>3. nodes \in [DOMAIN nodes -> NodeRows] /\ DOMAIN nodes \subseteq DOMAIN log
  BY DEF BaseInv, MemoryTyped
<1>4. DOMAIN nodes' = DOMAIN nodes
  BY <1>2
<1>5. ASSUME NEW j \in DOMAIN nodes
      PROVE  /\ nodes'[j] \in NodeRows /\ nodes'[j].by = nodes[j].by
             /\ nodes'[j].tiered = nodes[j].tiered \/ nodes'[j].tiered = {}
  <2>1. nodes[j] \in NodeRows
    BY <1>3
  <2>2. nodes'[j] = nodes[j] \/ nodes'[j] = [nodes[j] EXCEPT !.tiered = {}]
    BY <1>2
  <2> QED
    BY <2>1, <2>2 DEF NodeRows
<1>6. nodes' \in [DOMAIN nodes' -> NodeRows]
  BY <1>2, <1>4, <1>5
<1>7. SameNodes /\ NodesTyped'
  BY <1>2, <1>3, <1>4, <1>5, <1>6 DEF SameNodes, NodesTyped
<1>8. StubsHold'
  BY <1>2, <1>4, <1>5, StubsStay
<1> QED
  BY <1>7, <1>8

LEMMA RestoreBase ==
  ASSUME BaseInv, NEW h \in MemoryHandlers, Restore(h)
  PROVE  BaseInv'
<1>1. PICK q \in Locals : Move(h, "ledger", q) /\ LocalFits("ledger", q)
  BY RestoreIs
<1>2. UNCHANGED <<log, projected, consolidated, blobs, now>> /\ Flags'
  BY LocalIs DEF Restore, Goes, Flags
<1>3. "ledger" \in Doings
  BY DEF Doings
<1>4. NodesTyped' /\ StubsHold'
  BY RestoreNodes
<1>5. LocalFits("ledger", q)'
  BY <1>1, <1>2 DEF LocalFits, Reached
<1> QED
  BY <1>1, <1>2, <1>3, <1>4, <1>5, BaseHolds, BaseWrites

LEMMA EmitOutputBase ==
  ASSUME BaseInv, NEW h \in MemoryHandlers, EmitOutput(h)
  PROVE  BaseInv'
<1>1. PICK p \in {"emit", "find_cold"}, q \in Locals, e \in Events :
        /\ log' = Append(log, e) /\ Move(h, p, q) /\ LocalFits(p, q) /\ e.ts <= now
        /\ \A j \in e.about : j \in DOMAIN log /\ (e.type = "supersede" => log[j].ts <= e.ts)
  BY EmitOutputIs
<1>2. UNCHANGED <<nodes, projected, consolidated, blobs, now>> /\ Flags'
  BY LocalIs DEF EmitOutput, Goes, Flags
<1>3. p \in Doings
  BY <1>1 DEF Doings
<1>4. PICK last : last = Len(log) + 1
  OBVIOUS
<1>5. LogGrows /\ LogHolds'
  BY <1>1, <1>2, <1>4, Appended
<1>6. LocalFits(p, q)'
  BY <1>1, <1>3, <1>5, FitsStill DEF BaseInv
<1> QED
  BY <1>1, <1>2, <1>3, <1>5, <1>6, NodesStay, BaseMoves

LEMMA LedgerIs ==
  ASSUME BaseInv, NEW h \in MemoryHandlers, Ledger(h)
  PROVE  /\ Move(h, "idle", NoCall) /\ NoCall \in Locals /\ LocalFits("idle", NoCall) /\ Plain(h, "idle", NoCall)
         /\ \E e \in Events : log' = Append(log, e) /\ e.ts = now /\ e.type = "ledger" /\ e.about = {}
<1>1. Ends(h) /\ local[h].upto = Zero
  BY LocalIs DEF Ledger, LocalFits
<1>2. PICK e : e = Event(now, "ledger", {})
  OBVIOUS
<1>3. e \in Events /\ e.ts = now /\ e.type = "ledger" /\ e.about = {}
  BY <1>2 DEF Event, Events, Types, BaseInv, MemoryTyped
<1>4. log' = Append(log, e)
  BY <1>2 DEF Ledger
<1> QED
  BY <1>1, <1>3, <1>4, EndsIs

LEMMA LedgerBase ==
  ASSUME BaseInv, NEW h \in MemoryHandlers, Ledger(h)
  PROVE  BaseInv'
<1>1. PICK e \in Events : log' = Append(log, e) /\ e.ts = now /\ e.type = "ledger" /\ e.about = {}
  BY LedgerIs
<1>2. PICK p \in Doings, q \in Locals : p = "idle" /\ q = NoCall
  BY LedgerIs DEF Doings
<1>3. Move(h, p, q) /\ LocalFits(p, q)
  BY <1>2, LedgerIs
<1>4. UNCHANGED <<nodes, projected, consolidated, blobs, now>> /\ Flags'
  BY LocalIs DEF Ledger, Goes, Flags
<1>5. PICK last : last = Len(log) + 1
  OBVIOUS
<1>6. e.ts <= now /\ \A j \in e.about : j \in DOMAIN log /\ (e.type = "supersede" => log[j].ts <= e.ts)
  BY <1>1 DEF BaseInv, MemoryTyped
<1>7. LogGrows /\ LogHolds'
  BY <1>1, <1>4, <1>5, <1>6, Appended
<1>8. LocalFits(p, q)'
  BY <1>3, <1>7, FitsStill DEF BaseInv
<1> QED
  BY <1>3, <1>4, <1>7, <1>8, NodesStay, BaseMoves

\* A step of nobody, or of the clock.
LEMMA BaseAlone ==
  ASSUME BaseInv, LogGrows, UNCHANGED <<nodes, projected, consolidated, doing, local>>, Flags', LogHolds'
  PROVE  BaseInv'
<1>1. doing \in [MemoryHandlers -> Doings] /\ local \in [MemoryHandlers -> Locals] /\ MemoryTyped
  BY DEF BaseInv, MemoryTyped
<1>2. \A o \in Doings, r \in Locals : LocalFits(o, r) => LocalFits(o, r)'
  BY <1>1, FitsStill
<1>3. ASSUME NEW g \in MemoryHandlers PROVE LocalFits(doing[g], local[g])'
  <2>1. PICK o \in Doings, r \in Locals : o = doing[g] /\ r = local[g] /\ LocalFits(o, r)
    BY <1>1 DEF BaseInv
  <2>2. LocalFits(o, r)'
    BY <1>2, <2>1
  <2> QED
    BY <2>1, <2>2 DEF LocalFits
<1>4. NodesTyped' /\ StubsHold' /\ Reached(projected)' /\ Reached(consolidated)'
  BY NodesStay
<1>5. MemoryTyped'
  BY <1>1, <1>4 DEF MemoryTyped, LogGrows, NodesTyped, Flags
<1> QED
  BY <1>3, <1>4, <1>5 DEF BaseInv

LEMMA DomainEventIs ==
  ASSUME BaseInv, DomainEvent
  PROVE  \E e \in Events : log' = Append(log, e) /\ e.ts = now /\ e.type = "domain" /\ e.about = {}
<1>1. PICK e : e = Event(now, "domain", {})
  OBVIOUS
<1>2. e \in Events /\ e.ts = now /\ e.type = "domain" /\ e.about = {}
  BY <1>1 DEF Event, Events, Types, BaseInv, MemoryTyped
<1> QED
  BY <1>1, <1>2 DEF DomainEvent

LEMMA DomainEventBase ==
  ASSUME BaseInv, DomainEvent
  PROVE  BaseInv'
<1>1. PICK e \in Events : log' = Append(log, e) /\ e.ts = now /\ e.type = "domain" /\ e.about = {}
  BY DomainEventIs
<1>2. UNCHANGED <<nodes, projected, consolidated, blobs, now, doing, local>> /\ Flags'
  BY BaseHolds DEF DomainEvent, Flags
<1>3. PICK last : last = Len(log) + 1
  OBVIOUS
<1>4. e.ts <= now /\ \A j \in e.about : j \in DOMAIN log /\ (e.type = "supersede" => log[j].ts <= e.ts)
  BY <1>1 DEF BaseInv, MemoryTyped
<1>5. LogGrows /\ LogHolds'
  BY <1>1, <1>2, <1>3, <1>4, Appended
<1> QED
  BY <1>2, <1>5, BaseAlone

LEMMA TickBase ==
  ASSUME BaseInv, Tick
  PROVE  BaseInv'
<1>1. UNCHANGED <<log, nodes, projected, consolidated, blobs, doing, local>> /\ Flags' /\ now' = now + 1
  BY BaseHolds DEF Tick, tables, Flags
<1>2. now \in Nat /\ log \in Seq(Events)
  BY DEF BaseInv, MemoryTyped
<1>3. LogGrows
  BY <1>1, <1>2 DEF LogGrows
<1>4. LogHolds'
  <2>1. \A i \in DOMAIN log : log[i].ts \in Nat /\ log[i].ts <= now
    BY <1>2, LogType DEF BaseInv, LogHolds
  <2>2. \A i \in DOMAIN log : log[i].ts <= now + 1
    BY <1>2, <2>1
  <2> QED
    BY <1>1, <2>2 DEF BaseInv, LogHolds, Key
<1> QED
  BY <1>1, <1>3, <1>4, BaseAlone

LEMMA CrashIs ==
  ASSUME BaseInv, NEW h \in MemoryHandlers, Crash(h)
  PROVE  /\ Move(h, "idle", NoCall) /\ NoCall \in Locals /\ LocalFits("idle", NoCall)
         /\ local[h].upto = Zero => Plain(h, "idle", NoCall)
         /\ again => again'
         /\ local[h].upto # Zero => again'
<1>1. local[h].upto # Zero => local[h].kind = "sleep"
  BY LocalIs DEF LocalFits
<1> QED
  BY <1>1, EndsIs DEF Crash, Zero

LEMMA CrashBase ==
  ASSUME BaseInv, NEW h \in MemoryHandlers, Crash(h)
  PROVE  BaseInv'
<1>1. PICK p \in Doings, q \in Locals : p = "idle" /\ q = NoCall
  BY CrashIs DEF Doings
<1>2. Move(h, p, q) /\ LocalFits(p, q)
  BY <1>1, CrashIs
<1>3. UNCHANGED <<tables, now>> /\ Flags'
  BY LocalIs DEF Crash, Flags
<1> QED
  BY <1>2, <1>3, BaseQuiet

LEMMA BeginIs ==
  ASSUME BaseInv, NEW h \in MemoryHandlers, NEW sort \in {"recall", "sleep", "rebuild", "tier"}, Start(h, sort)
  PROVE  \E p \in {"read_projected", "wipe", "find_cold"}, q \in Locals :
           /\ Move(h, p, q) /\ LocalFits(p, q) /\ q.upto = Zero /\ q.outs = <<>> /\ q.kind = sort /\ q.batch = <<>>
           /\ local[h].upto = Zero /\ local[h].outs = <<>>
           /\ p = "read_projected" => Project(h)
           /\ p = "wipe" => disturbed' = (disturbed \/ \E g \in Others(h) : doing[g] \in Projecting)
           /\ p = "find_cold" => disturbed' = disturbed
<1>1. PICK r \in Locals : r = local[h] /\ LocalFits("idle", r)
  BY LocalIs DEF Start
<1>2. r.upto = Zero /\ r.outs = <<>>
  BY <1>1 DEF LocalFits
<1>3. PICK t \in Nat : t = (IF sort \in {"sleep", "tier"} THEN now ELSE 0) /\ t <= now
  BY DEF BaseInv, MemoryTyped
<1>4. PICK k \in Kinds : k = sort
  BY DEF Kinds
<1>5. PICK p \in {"read_projected", "wipe", "find_cold"} :
        p = IF sort = "rebuild" THEN "wipe" ELSE IF sort = "tier" THEN "find_cold" ELSE "read_projected"
  OBVIOUS
<1>6. PICK q : q = Entered(k, t)
  OBVIOUS
<1>7. p \in Doings /\ p \notin {"apply", "emit", "scan", "write_consolidated", "put", "stub"}
      /\ (p = "read_consolidated" => k = "sleep") /\ (p = "find_cold" => k = "tier")
  BY <1>4, <1>5 DEF Doings, Projecting
<1>8. q \in Locals /\ LocalFits(p, q) /\ q.upto = Zero /\ q.outs = <<>> /\ q.kind = k /\ q.batch = <<>>
  BY <1>3, <1>6, <1>7, FreshFits
<1>9. local' = [local EXCEPT ![h] = q]
  <2>1. PICK c : c = [NoCall EXCEPT !.kind = sort, !.now = IF sort \in {"sleep", "tier"} THEN now ELSE 0]
    OBVIOUS
  <2>2. c = Entered(sort, IF sort \in {"sleep", "tier"} THEN now ELSE 0)
    BY <2>1 DEF NoCall, Zero, Entered
  <2>3. c = q
    BY <1>3, <1>4, <1>6, <2>2
  <2> QED
    BY <2>1, <2>3 DEF Start
<1>10. Go(h, p) /\ (p = "read_projected" => Project(h))
       /\ (p = "wipe" => disturbed' = (disturbed \/ \E g \in Others(h) : doing[g] \in Projecting))
       /\ (p = "find_cold" => disturbed' = disturbed)
  BY <1>5 DEF Start, Project
<1> QED
  BY <1>1, <1>2, <1>4, <1>8, <1>9, <1>10 DEF Go, Move

LEMMA BeginBase ==
  ASSUME BaseInv, NEW h \in MemoryHandlers, NEW sort \in {"recall", "sleep", "rebuild", "tier"}, Start(h, sort)
  PROVE  BaseInv'
<1>1. PICK p \in {"read_projected", "wipe", "find_cold"}, q \in Locals : Move(h, p, q) /\ LocalFits(p, q)
  BY BeginIs
<1>2. UNCHANGED <<tables, now>> /\ Flags'
  BY LocalIs DEF Start, Project, Flags
<1>3. p \in Doings
  BY <1>1 DEF Doings, Projecting
<1> QED
  BY <1>1, <1>2, <1>3, BaseQuiet

LEMMA Concatenated ==
  ASSUME NEW S, NEW a \in Seq(S), NEW b \in Seq(S)
  PROVE  /\ a \o b \in Seq(S) /\ Len(a \o b) = Len(a) + Len(b) /\ Len(a) \in Nat /\ Len(b) \in Nat
         /\ \A n \in 1..Len(a) : n \in 1..Len(a \o b) /\ (a \o b)[n] = a[n]
         /\ \A n \in 1..Len(a \o b) :
              n \in 1..Len(a) \/ (n - Len(a) \in 1..Len(b) /\ (a \o b)[n] = b[n - Len(a)])
<1>1. a \o b \in Seq(S) /\ Len(a \o b) = Len(a) + Len(b) /\ Len(a) \in Nat /\ Len(b) \in Nat
  OBVIOUS
<1>2. \A n \in 1..Len(a \o b) : (a \o b)[n] = IF n <= Len(a) THEN a[n] ELSE b[n - Len(a)]
  BY <1>1
<1>3. \A n \in 1..Len(a \o b) :
              n \in 1..Len(a) \/ (n - Len(a) \in 1..Len(b) /\ (a \o b)[n] = b[n - Len(a)])
  BY <1>1, <1>2
<1>4. \A n \in 1..Len(a) : n \in 1..Len(a \o b) /\ (a \o b)[n] = a[n]
  BY <1>1, <1>2
<1> QED
  BY <1>1, <1>3, <1>4

Distinct(s) == \A n, m \in DOMAIN s : s[n] = s[m] => n = m

\* Episodes are a partition of what they are made of.
LEMMA SegmentedIs ==
  ASSUME log \in Seq(Events), NEW s \in Seq(DOMAIN log), s # <<>>, Distinct(s), NEW e, e = Segmented(s)
  PROVE  /\ e \in Seq(SUBSET Range(s)) /\ Len(e) \in Nat /\ Len(e) >= 1 /\ DOMAIN e = 1..Len(e)
         /\ \A i \in Range(s) : \E x \in DOMAIN e : i \in e[x]
         /\ \A x, y \in DOMAIN e : \A i \in e[x] : i \in e[y] => x = y
<1>1. Len(s) \in Nat /\ DOMAIN s = 1..Len(s) /\ 1 \in DOMAIN s
  OBVIOUS
<1>2. PICK cuts : cuts = {n \in DOMAIN s : n = 1 \/ log[s[n]].ts - log[s[n - 1]].ts > EPISODE_GAP_SECS}
  OBVIOUS
<1>3. PICK c : c = Cardinality(cuts)
  OBVIOUS
<1>4. e = [x \in 1..c |-> {s[n] : n \in {m \in DOMAIN s : Cardinality({k \in cuts : k <= m}) = x}}]
  BY <1>2, <1>3 DEF Segmented
<1>5. PICK ep : ep = [m \in DOMAIN s |-> Cardinality({k \in cuts : k <= m})]
  OBVIOUS
<1>6. \A m \in DOMAIN s : ep[m] = Cardinality({k \in cuts : k <= m})
  BY <1>5
<1>7. e = [x \in 1..c |-> {s[n] : n \in {m \in DOMAIN s : ep[m] = x}}]
  BY <1>4, <1>6
<1>8. IsFiniteSet(cuts) /\ c \in Nat /\ 1 \in cuts
  <2>0. PICK l \in Nat : l = Len(s)
    BY <1>1
  <2>1. IsFiniteSet(1..l) /\ cuts \subseteq 1..l
    <3>1. IsFiniteSet(1..l)
      BY FS_Interval
    <3>2. cuts \subseteq DOMAIN s
      BY <1>2, Zenon
    <3> QED
      BY <1>1, <2>0, <3>1, <3>2
  <2> QED
    BY <1>1, <1>2, <1>3, <2>1, FS_Subset, FS_CardinalityType
<1>9. \A m \in DOMAIN s : ep[m] \in 1..c
  <2> SUFFICES ASSUME NEW m \in DOMAIN s PROVE ep[m] \in 1..c
    OBVIOUS
  <2>1. PICK below : below = {k \in cuts : k <= m}
    OBVIOUS
  <2>2. below \subseteq cuts /\ 1 \in below
    BY <1>1, <1>8, <2>1
  <2>3. IsFiniteSet(below) /\ Cardinality(below) <= c /\ Cardinality(below) \in Nat
    BY <1>3, <1>8, <2>2, FS_Subset, FS_CardinalityType
  <2>4. Cardinality(below) # 0
    BY <2>2, <2>3, FS_EmptySet
  <2>5. ep[m] = Cardinality(below)
    BY <1>6, <2>1
  <2> QED
    BY <1>8, <2>3, <2>4, <2>5
<1>10. DOMAIN e = 1..c /\ \A x \in 1..c : e[x] = {s[n] : n \in {m \in DOMAIN s : ep[m] = x}}
  BY <1>7
<1>11. \A x \in 1..c : e[x] \subseteq Range(s)
  BY <1>10 DEF Range
<1>12. e \in [1..c -> SUBSET Range(s)]
  BY <1>7, <1>10, <1>11
<1>13. e \in Seq(SUBSET Range(s)) /\ Len(e) = c
  BY <1>8, <1>12
<1>14. c >= 1
  BY <1>1, <1>8, <1>9
<1>15. \A i \in Range(s) : \E x \in DOMAIN e : i \in e[x]
  <2> SUFFICES ASSUME NEW m \in DOMAIN s PROVE \E x \in DOMAIN e : s[m] \in e[x]
    BY DEF Range
  <2> QED
    BY <1>9, <1>10
<1>16. \A x, y \in DOMAIN e : \A i \in e[x] : i \in e[y] => x = y
  <2> SUFFICES ASSUME NEW x \in DOMAIN e, NEW y \in DOMAIN e, NEW i \in e[x], i \in e[y] PROVE x = y
    OBVIOUS
  <2>1. PICK n \in DOMAIN s : i = s[n] /\ ep[n] = x
    BY <1>10
  <2>2. PICK m \in DOMAIN s : i = s[m] /\ ep[m] = y
    BY <1>10
  <2> QED
    BY <2>1, <2>2 DEF Distinct
<1> QED
  BY <1>8, <1>10, <1>13, <1>14, <1>15, <1>16

\* What is emitted beside the summaries.
Rolled(o, t, s) ==
  o = Event(t, "day", Range(s)) \/ \E u \in Range(s) : o = Event(t, "supersede", Previous(u))

\* Each episode is summarized, and nothing else.
LEMMA OutputsAre ==
  ASSUME log \in Seq(Events), NEW s \in Seq(DOMAIN log), s # <<>>, Distinct(s), NEW e, e = Segmented(s),
         NEW t \in Nat, NEW outs, outs = Outputs(s, t)
  PROVE  /\ outs \in Seq(Events)
         /\ \A x \in DOMAIN e : x \in DOMAIN outs /\ outs[x] = Event(t, "summary", e[x])
         /\ \A n \in DOMAIN outs : n \in DOMAIN e \/ Rolled(outs[n], t, s)
<1>1. /\ e \in Seq(SUBSET Range(s)) /\ Len(e) \in Nat /\ DOMAIN e = 1..Len(e)
  BY SegmentedIs
<1>2. Range(s) \subseteq DOMAIN log /\ DOMAIN log \subseteq Nat /\ Range(s) = ToSet(s)
  <2>1. \A n \in DOMAIN s : s[n] \in DOMAIN log
    BY ElementOfSeq
  <2> QED
    BY <2>1, LogType DEF Range, ToSet
<1>3. PICK U : U = {i \in ToSet(s) : Previous(i) # {}}
  OBVIOUS
<1>4. PICK updates : updates = InOrder(U)
  OBVIOUS
<1>5. Len(updates) \in Nat /\ DOMAIN updates = 1..Len(updates) /\ \A n \in DOMAIN updates : updates[n] \in U
  <2>1. U \subseteq DOMAIN log
    BY <1>2, <1>3
  <2> QED
    BY <1>4, <2>1, InOrderIs
<1>6. PICK a : a = [n \in DOMAIN e |-> Event(t, "summary", e[n])]
  OBVIOUS
<1>7. PICK b : b = IF Len(e) >= DAY_ROLLUP_MIN_EPISODES THEN <<Event(t, "day", ToSet(s))>> ELSE <<>>
  OBVIOUS
<1>8. PICK d : d = [n \in DOMAIN updates |-> Event(t, "supersede", Previous(updates[n]))]
  OBVIOUS
<1>9. outs = a \o b \o d
  BY <1>3, <1>4, <1>6, <1>7, <1>8 DEF Outputs
<1>10. \A w \in Types, S \in SUBSET Nat : Event(t, w, S) \in Events
  BY DEF Event, Events
<1>11. \A i \in DOMAIN log : Previous(i) \in SUBSET Nat
  BY <1>2 DEF Previous, Domain
<1>12. a \in Seq(Events) /\ Len(a) = Len(e) /\ \A n \in 1..Len(e) : a[n] = Event(t, "summary", e[n])
  <2>1. \A n \in DOMAIN e : e[n] \in SUBSET Nat
    BY <1>1, <1>2, ElementOfSeq
  <2>2. "summary" \in Types
    BY DEF Types
  <2>3. a \in [1..Len(e) -> Events]
    BY <1>1, <1>6, <1>10, <2>1, <2>2
  <2> QED
    BY <1>1, <1>6, <2>3
<1>13. b \in Seq(Events) /\ \A n \in 1..Len(b) : b[n] = Event(t, "day", Range(s))
  <2>1. Event(t, "day", ToSet(s)) \in Events
    BY <1>2, <1>10 DEF Types
  <2>2. PICK v \in Events : v = Event(t, "day", ToSet(s))
    BY <2>1
  <2>3. b = <<v>> \/ b = <<>>
    BY <1>7, <2>2
  <2>4. b \in Seq(Events) /\ \A n \in 1..Len(b) : b[n] = v
    <3>1. <<v>> \in Seq(Events) /\ Len(<<v>>) = 1 /\ <<v>>[1] = v
      BY <2>2
    <3>2. PICK none : none = <<>>
      OBVIOUS
    <3>3. none \in Seq(Events) /\ Len(none) = 0
      BY <3>2
    <3>4. (\A n \in 1..0 : FALSE) /\ \A n \in 1..1 : n = 1
      OBVIOUS
    <3>5. CASE b = <<v>>
      <4>1. b \in Seq(Events) /\ Len(b) = 1 /\ b[1] = v
        BY <3>1, <3>5
      <4> QED
        BY <3>4, <4>1
    <3>6. CASE b = none
      <4>1. b \in Seq(Events) /\ Len(b) = 0
        BY <3>3, <3>6
      <4> QED
        BY <3>4, <4>1
    <3> QED
      BY <2>3, <3>2, <3>5, <3>6
  <2> QED
    BY <1>2, <2>2, <2>4
<1>14. d \in Seq(Events) /\ Len(d) = Len(updates) /\ \A n \in 1..Len(d) : \E u \in Range(s) : d[n] = Event(t, "supersede", Previous(u))
  <2>1. \A n \in DOMAIN updates : updates[n] \in Range(s) /\ updates[n] \in DOMAIN log
    BY <1>2, <1>3, <1>5
  <2>2. "supersede" \in Types
    BY DEF Types
  <2>3. d \in [1..Len(updates) -> Events]
    BY <1>5, <1>8, <1>10, <1>11, <2>1, <2>2
  <2>4. d \in Seq(Events) /\ Len(d) = Len(updates)
    <3>1. PICK l \in Nat : l = Len(updates)
      BY <1>5
    <3>2. d \in [1..l -> Events]
      BY <2>3, <3>1
    <3> QED
      BY <3>1, <3>2
  <2> QED
    BY <1>5, <1>8, <2>1, <2>4
<1>15. PICK ab \in Seq(Events) : ab = a \o b
  <2>1. a \in Seq(Events) /\ b \in Seq(Events)
    BY <1>12, <1>13
  <2>2. a \o b \in Seq(Events)
    BY <2>1, Concatenated
  <2> QED
    BY <2>2
<1>16. /\ Len(ab) = Len(a) + Len(b) /\ Len(ab) \in Nat
       /\ \A n \in 1..Len(a) : n \in 1..Len(ab) /\ ab[n] = a[n]
       /\ \A n \in 1..Len(ab) : n \in 1..Len(a) \/ (n - Len(a) \in 1..Len(b) /\ ab[n] = b[n - Len(a)])
  <2>1. a \in Seq(Events) /\ b \in Seq(Events) /\ ab = a \o b
    BY <1>12, <1>13, <1>15
  <2> QED
    BY <2>1, Concatenated
<1>17. /\ outs \in Seq(Events) /\ Len(outs) \in Nat
       /\ \A n \in 1..Len(ab) : n \in 1..Len(outs) /\ outs[n] = ab[n]
       /\ \A n \in 1..Len(outs) : n \in 1..Len(ab) \/ (n - Len(ab) \in 1..Len(d) /\ outs[n] = d[n - Len(ab)])
  BY <1>9, <1>14, <1>15, Concatenated
<1>18. DOMAIN outs = 1..Len(outs)
  BY <1>17
<1>19. \A x \in DOMAIN e : x \in DOMAIN outs /\ outs[x] = Event(t, "summary", e[x])
  BY <1>1, <1>12, <1>16, <1>17, <1>18
<1>20. ASSUME NEW n \in DOMAIN outs
       PROVE  \/ n \in DOMAIN e /\ outs[n] = Event(t, "summary", e[n])
              \/ outs[n] = Event(t, "day", Range(s))
              \/ \E u \in Range(s) : outs[n] = Event(t, "supersede", Previous(u))
  <2>1. n \in 1..Len(ab) \/ (n - Len(ab) \in 1..Len(d) /\ outs[n] = d[n - Len(ab)])
    BY <1>17, <1>18
  <2>2. CASE n \in 1..Len(ab)
    <3>1. n \in 1..Len(a) \/ (n - Len(a) \in 1..Len(b) /\ ab[n] = b[n - Len(a)])
      BY <1>16, <2>2
    <3>2. CASE n \in 1..Len(a)
      BY <1>1, <1>12, <1>19, <3>2
    <3>3. CASE n - Len(a) \in 1..Len(b) /\ ab[n] = b[n - Len(a)]
      BY <1>13, <1>17, <2>2, <3>3
    <3> QED
      BY <3>1, <3>2, <3>3
  <2>3. CASE n - Len(ab) \in 1..Len(d) /\ outs[n] = d[n - Len(ab)]
    BY <1>14, <2>3
  <2> QED
    BY <2>1, <2>2, <2>3
<1>21. \A n \in DOMAIN outs : n \in DOMAIN e \/ Rolled(outs[n], t, s)
  BY <1>20 DEF Rolled
<1> QED
  BY <1>17, <1>19, <1>21

\* The settled events are the first ones past a cursor.
LEMMA SettledIs ==
  ASSUME BaseInv, MemoryAssumption, NEW h \in MemoryHandlers, NEW S, S = Settled(h), S # {}
  PROVE  /\ S \subseteq Past(local[h].at) /\ Past(local[h].at) \subseteq DOMAIN log
         /\ \A i \in S : log[i].ts <= local[h].now
         /\ \E l \in S : /\ l = Last(InOrder(S))
                         /\ \A i \in S : ~Before(Key(l), Key(i))
                         /\ \A i \in Past(local[h].at) : ~Before(Key(l), Key(i)) => i \in S
<1>1. log \in Seq(Events) /\ S \subseteq Past(local[h].at) /\ Past(local[h].at) \subseteq DOMAIN log
  BY LocalIs DEF Past, Settled
<1>2. \A i \in DOMAIN log : Key(i) \in Keys /\ log[i].ts \in Nat
  BY <1>1, LogType
<1>3. \A i \in S : log[i].ts <= local[h].now
  <2> SUFFICES ASSUME NEW i \in S PROVE log[i].ts <= local[h].now
    OBVIOUS
  <2>1. Before(Key(i), Key(i)) \/ log[i].ts + SETTLE_SECS <= local[h].now
    BY <1>1 DEF Settled
  <2>2. log[i].ts + SETTLE_SECS <= local[h].now
    BY <1>1, <1>2, <2>1, BeforeIsOrder
  <2>3. local[h].now \in Nat /\ SETTLE_SECS \in Nat
    BY LocalIs DEF Locals, MemoryAssumption
  <2> QED
    BY <1>1, <1>2, <2>2, <2>3
<1>4. PICK p : p = InOrder(S)
  OBVIOUS
<1>5. p \in Seq(S) /\ p # <<>> /\ Range(p) = S /\ Len(p) \in Nat /\ DOMAIN p = 1..Len(p)
      /\ \A n, m \in DOMAIN p : n < m => Before(Key(p[n]), Key(p[m]))
  <2>1. S \subseteq DOMAIN log
    BY <1>1
  <2> QED
    BY <1>1, <1>4, <2>1, InOrderIs
<1>6. PICK l \in S : l = Last(p) /\ l = p[Len(p)] /\ Len(p) \in DOMAIN p
  BY <1>5 DEF Last
<1>7. \A i \in S : ~Before(Key(l), Key(i))
  <2> SUFFICES ASSUME NEW i \in S PROVE ~Before(Key(l), Key(i))
    OBVIOUS
  <2>1. PICK n \in DOMAIN p : p[n] = i
    BY <1>5 DEF Range
  <2>2. n < Len(p) \/ n = Len(p)
    BY <1>5
  <2>3. i = l \/ Before(Key(i), Key(l))
    BY <1>5, <1>6, <2>1, <2>2
  <2> QED
    BY <1>1, <1>2, <2>3, BeforeIsOrder
<1>8. \A i \in Past(local[h].at) : ~Before(Key(l), Key(i)) => i \in S
  <2> SUFFICES ASSUME NEW i \in Past(local[h].at), ~Before(Key(l), Key(i)) PROVE i \in S
    OBVIOUS
  <2>1. \A j \in Past(local[h].at) : Before(Key(l), Key(j)) \/ log[j].ts + SETTLE_SECS <= local[h].now
    BY DEF Settled
  <2>2. \A j \in Past(local[h].at) : Before(Key(l), Key(j)) => Before(Key(i), Key(j))
    BY <1>1, <1>2, BeforeIsOrder
  <2> QED
    BY <2>1, <2>2 DEF Settled
<1> QED
  BY <1>1, <1>3, <1>4, <1>6, <1>7, <1>8

\* What a scan leaves to be emitted.
Planned(q, k, l) ==
  /\ \A i \in Domain : i \in Past(k) /\ ~Before(Key(l), Key(i)) => \E n \in DOMAIN q.outs : Summarizes(q.outs[n], i)
  /\ \A i \in Domain : \A n \in DOMAIN q.outs : Summarizes(q.outs[n], i) => i \in Past(k) /\ ~Before(Key(l), Key(i))
  /\ \A i \in Domain : \A n, m \in DOMAIN q.outs : Summarizes(q.outs[n], i) /\ Summarizes(q.outs[m], i) => n = m

\* What is emitted at t for the events S.
Summarized(outs, S, t) ==
  /\ outs \in Seq(Events) /\ outs # <<>>
  /\ \A n \in DOMAIN outs :
       LET o == outs[n] IN
       /\ o.type \in {"summary", "day", "supersede"} /\ o.ts = t
       /\ \A j \in o.about : j \in DOMAIN log /\ (o.type = "supersede" => log[j].ts <= o.ts)
       /\ o.type = "summary" => o.about \subseteq S
  /\ \A i \in S : \E n \in DOMAIN outs : Summarizes(outs[n], i)
  /\ \A i \in S : \A n, m \in DOMAIN outs : Summarizes(outs[n], i) /\ Summarizes(outs[m], i) => n = m

LEMMA PlanFits ==
  ASSUME BaseInv, NEW S, S \subseteq DOMAIN log, NEW t \in Nat, NEW s \in Seq(DOMAIN log), s # <<>>,
         Distinct(s), Range(s) = S, \A i \in S : log[i].ts <= t, NEW outs, outs = Outputs(s, t)
  PROVE  Summarized(outs, S, t)
<1>1. PICK e : e = Segmented(s)
  OBVIOUS
<1>2. log \in Seq(Events)
  BY DEF BaseInv, MemoryTyped
<1>3. /\ e \in Seq(SUBSET S) /\ Len(e) \in Nat /\ Len(e) >= 1 /\ DOMAIN e = 1..Len(e)
      /\ \A i \in S : \E x \in DOMAIN e : i \in e[x]
      /\ \A x, y \in DOMAIN e : \A i \in e[x] : i \in e[y] => x = y
  BY <1>1, <1>2, SegmentedIs
<1>5. /\ outs \in Seq(Events)
      /\ \A x \in DOMAIN e : x \in DOMAIN outs /\ outs[x] = Event(t, "summary", e[x])
      /\ \A n \in DOMAIN outs :
           \/ n \in DOMAIN e /\ outs[n] = Event(t, "summary", e[n])
           \/ outs[n] = Event(t, "day", S)
           \/ \E u \in S : outs[n] = Event(t, "supersede", Previous(u))
  <2>1. outs = Outputs(s, t)
    OBVIOUS
  <2>2. /\ outs \in Seq(Events)
        /\ \A x \in DOMAIN e : x \in DOMAIN outs /\ outs[x] = Event(t, "summary", e[x])
        /\ \A n \in DOMAIN outs :
             \/ n \in DOMAIN e /\ outs[n] = Event(t, "summary", e[n])
             \/ outs[n] = Event(t, "day", Range(s))
             \/ \E u \in Range(s) : outs[n] = Event(t, "supersede", Previous(u))
    <3>1. s # <<>> /\ Distinct(s)
      OBVIOUS
    <3>2. outs \in Seq(Events)
      BY ONLY s \in Seq(DOMAIN log), t \in Nat, <1>1, <1>2, <2>1, <3>1, OutputsAre
    <3>3. \A x \in DOMAIN e : x \in DOMAIN outs /\ outs[x] = Event(t, "summary", e[x])
      BY ONLY s \in Seq(DOMAIN log), t \in Nat, <1>1, <1>2, <2>1, <3>1, OutputsAre
    <3>4. \A n \in DOMAIN outs : n \in DOMAIN e \/ Rolled(outs[n], t, s)
      BY ONLY s \in Seq(DOMAIN log), t \in Nat, <1>1, <1>2, <2>1, <3>1, OutputsAre
    <3> QED
      BY <3>2, <3>3, <3>4 DEF Rolled
  <2> QED
    BY <2>2
<1>6. outs # <<>>
  <2>1. 1 \in DOMAIN outs
    BY <1>3, <1>5
  <2> QED
    BY <2>1
<1>7. \A w, A : Event(t, w, A).ts = t /\ Event(t, w, A).type = w /\ Event(t, w, A).about = A
  BY DEF Event
<1>8. \A x \in DOMAIN e : e[x] \subseteq S
  BY <1>3, ElementOfSeq
<1>9. \A u \in S : \A j \in Previous(u) : j \in DOMAIN log /\ log[j].ts <= t
  <2> SUFFICES ASSUME NEW u \in S, NEW j \in Previous(u) PROVE j \in DOMAIN log /\ log[j].ts <= t
    OBVIOUS
  <2>1. j \in DOMAIN log /\ Before(Key(j), Key(u))
    BY DEF Previous, Domain
  <2>2. log[j].ts \in Nat /\ log[u].ts \in Nat /\ log[u].ts <= t
    BY <1>2, <2>1, LogType
  <2> QED
    BY <2>1, <2>2 DEF Before, Key
<1>10. ASSUME NEW n \in DOMAIN outs
       PROVE  /\ outs[n].type \in {"summary", "day", "supersede"} /\ outs[n].ts = t
              /\ \A j \in outs[n].about : j \in DOMAIN log /\ (outs[n].type = "supersede" => log[j].ts <= outs[n].ts)
              /\ outs[n].type = "summary" => outs[n].about \subseteq S /\ n \in DOMAIN e /\ outs[n].about = e[n]
  <2>1. CASE n \in DOMAIN e /\ outs[n] = Event(t, "summary", e[n])
    BY <1>7, <1>8, <2>1
  <2>2. CASE outs[n] = Event(t, "day", S)
    BY <1>7, <2>2
  <2>3. CASE \E u \in S : outs[n] = Event(t, "supersede", Previous(u))
    BY <1>7, <1>9, <2>3
  <2> QED
    BY <1>5, <2>1, <2>2, <2>3
<1>11. \A i \in S : \E n \in DOMAIN outs : Summarizes(outs[n], i)
  <2> SUFFICES ASSUME NEW i \in S PROVE \E n \in DOMAIN outs : Summarizes(outs[n], i)
    OBVIOUS
  <2>1. PICK x \in DOMAIN e : i \in e[x]
    BY <1>3
  <2>2. x \in DOMAIN outs /\ outs[x].type = "summary" /\ outs[x].about = e[x]
    BY <1>5, <1>7
  <2> QED
    BY <2>1, <2>2 DEF Summarizes
<1>12. \A i \in S : \A n, m \in DOMAIN outs : Summarizes(outs[n], i) /\ Summarizes(outs[m], i) => n = m
  <2> SUFFICES ASSUME NEW i \in S, NEW n \in DOMAIN outs, NEW m \in DOMAIN outs,
                      Summarizes(outs[n], i), Summarizes(outs[m], i)
               PROVE  n = m
    OBVIOUS
  <2>1. n \in DOMAIN e /\ i \in e[n] /\ m \in DOMAIN e /\ i \in e[m]
    BY <1>10 DEF Summarizes
  <2> QED
    BY <1>3, <2>1
<1> QED
  BY <1>5, <1>6, <1>10, <1>11, <1>12 DEF Summarized

LEMMA ScanIs ==
  ASSUME BaseInv, MemoryAssumption, NEW h \in MemoryHandlers, ScanSettled(h)
  PROVE  /\ local[h].upto = Zero /\ local[h].kind = "sleep"
         /\ \/ Ends(h)
            \/ \E q \in Locals, l \in DOMAIN log :
                 /\ Move(h, "emit", q) /\ LocalFits("emit", q) /\ q.kind = "sleep"
                 /\ q.upto = Key(l) /\ q.upto # Zero /\ Before(local[h].at, Key(l))
                 /\ Planned(q, local[h].at, l)
<1>1. PICK r \in Locals : r = local[h] /\ LocalFits("scan", r)
  BY LocalIs DEF ScanSettled
<1>2. r.upto = Zero /\ r.kind = "sleep" /\ r.now <= now /\ r.now \in Nat
  BY <1>1 DEF LocalFits, Locals
<1>3. PICK S : S = Settled(h)
  OBVIOUS
<1>4. PICK C : C = S \intersect Domain
  OBVIOUS
<1>5. PICK s : s = InOrder(C)
  OBVIOUS
<1>6. log \in Seq(Events) /\ C \subseteq DOMAIN log /\ C \subseteq S
  BY <1>4, LocalIs DEF Domain
<1>7. /\ s \in Seq(DOMAIN log) /\ Range(s) = C /\ (s = <<>> <=> C = {})
      /\ \A n, m \in DOMAIN s : s[n] = s[m] => n = m
  BY <1>5, <1>6, InOrderIs
<1>8. CASE s = <<>>
  <2>1. Ends(h)
    BY <1>3, <1>4, <1>5, <1>8 DEF ScanSettled
  <2> QED
    BY <1>1, <1>2, <2>1
<1>9. CASE s # <<>>
  <2>1. S # {} /\ C # {}
    BY <1>4, <1>7, <1>9
  <2>2. /\ S \subseteq Past(r.at) /\ Past(r.at) \subseteq DOMAIN log /\ \A i \in S : log[i].ts <= r.now
        /\ \E l \in S : /\ l = Last(InOrder(S))
                        /\ \A i \in S : ~Before(Key(l), Key(i))
                        /\ \A i \in Past(r.at) : ~Before(Key(l), Key(i)) => i \in S
    BY <1>1, <1>3, <2>1, SettledIs
  <2>3. PICK l \in S : /\ l = Last(InOrder(S))
                       /\ \A i \in S : ~Before(Key(l), Key(i))
                       /\ \A i \in Past(r.at) : ~Before(Key(l), Key(i)) => i \in S
    BY <2>2
  <2>4. PICK outs : outs = Outputs(s, r.now)
    OBVIOUS
  <2>5. PICK q : q = [r EXCEPT !.outs = outs, !.at = Zero, !.upto = Key(l)]
    OBVIOUS
  <2>6. q.outs = outs
    BY <1>1, <2>5 DEF Locals
  <2>7. /\ outs \in Seq(Events) /\ outs # <<>>
        /\ \A n \in DOMAIN outs :
              LET o == outs[n] IN
              /\ o.type \in {"summary", "day", "supersede"} /\ o.ts = r.now
              /\ \A j \in o.about : j \in DOMAIN log /\ (o.type = "supersede" => log[j].ts <= o.ts)
              /\ o.type = "summary" => o.about \subseteq C
        /\ \A i \in C : \E n \in DOMAIN outs : Summarizes(outs[n], i)
        /\ \A i \in C : \A n, m \in DOMAIN outs : Summarizes(outs[n], i) /\ Summarizes(outs[m], i) => n = m
    <3>1. Distinct(s) /\ Range(s) = C /\ C \subseteq DOMAIN log /\ \A i \in C : log[i].ts <= r.now
      BY <1>6, <1>7, <2>2 DEF Distinct
    <3>2. PICK t \in Nat : t = r.now
      BY <1>2
    <3>3. outs = Outputs(s, t) /\ \A i \in C : log[i].ts <= t
      BY <2>4, <3>1, <3>2
    <3>4. s \in Seq(DOMAIN log)
      BY <1>7
    <3>5. Summarized(outs, C, t)
      BY ONLY BaseInv, t \in Nat, <1>9, <3>1, <3>3, <3>4, PlanFits
    <3> QED
      BY <3>2, <3>5 DEF Summarized
  <2>8. l \in DOMAIN log /\ Key(l) \in Keys /\ Reached(Key(l)) /\ Key(l) # Zero /\ Before(r.at, Key(l))
    <3>1. l \in DOMAIN log /\ l \in Past(r.at)
      BY <2>2, <2>3
    <3>2. Len(log) \in Nat /\ l \in 1..Len(log) /\ Key(l) \in Keys /\ log[l].ts <= now
      BY <1>6, <3>1, LogType DEF BaseInv, LogHolds
    <3> QED
      BY <3>1, <3>2 DEF Key, Zero, Reached, Past
  <2>9. Zero \in Keys /\ Reached(Zero)
    <3>1. now \in Nat /\ Len(log) \in Nat
      BY <1>6, LogType DEF BaseInv, MemoryTyped
    <3> QED
      BY <3>1 DEF Reached, Zero, Keys
  <2>10. q \in Locals /\ q.at = Zero /\ q.batch = r.batch /\ q.now = r.now /\ q.outs = outs /\ q.upto = Key(l)
         /\ q.kind = r.kind /\ q.left = r.left /\ q.bundle = r.bundle
    BY <2>5, <2>7, <2>8, <2>9 DEF Locals
  <2>11. LocalFits("emit", q)
    <3>1. r.batch = <<>> /\ r.batch \in Seq(DOMAIN log)
      BY <1>1 DEF LocalFits
    <3> QED
      BY <1>2, <2>7, <2>8, <2>9, <2>10, <3>1 DEF LocalFits
  <2>12. Planned(q, r.at, l)
    <3>1. \A i \in Domain : i \in Past(r.at) /\ ~Before(Key(l), Key(i)) <=> i \in C
      BY <1>4, <2>2, <2>3
    <3>2. \A i \in Domain : \A n \in DOMAIN outs : Summarizes(outs[n], i) => i \in C
      BY <2>7 DEF Summarizes
    <3> QED
      BY <2>7, <2>10, <3>1, <3>2 DEF Planned
  <2>13. local \in [MemoryHandlers -> Locals]
    BY DEF BaseInv, MemoryTyped
  <2>14. local' = [local EXCEPT ![h].outs = Outputs(s, local[h].now), ![h].at = <<0, 0>>,
                                      ![h].upto = Key(Last(InOrder(S)))] /\ Go(h, "emit")
    BY <1>3, <1>4, <1>5, <1>9 DEF ScanSettled
  <2>15. local' = [local EXCEPT ![h] = q]
    <3>1. local' = [local EXCEPT ![h] = [local[h] EXCEPT !.outs = Outputs(s, local[h].now), !.at = <<0, 0>>,
                                      !.upto = Key(Last(InOrder(S)))]]
      BY <2>13, <2>14
    <3>2. [local[h] EXCEPT !.outs = Outputs(s, local[h].now), !.at = <<0, 0>>, !.upto = Key(Last(InOrder(S)))] = q
      BY <1>1, <2>3, <2>4, <2>5 DEF Zero
    <3> QED
      BY <3>1, <3>2
  <2> QED
    BY <1>1, <1>2, <2>8, <2>10, <2>11, <2>12, <2>14, <2>15 DEF Go, Move
<1> QED
  BY <1>8, <1>9

LEMMA ScanBase ==
  ASSUME BaseInv, MemoryAssumption, NEW h \in MemoryHandlers, ScanSettled(h)
  PROVE  BaseInv'
<1>1. UNCHANGED <<tables, now>> /\ Flags'
  BY LocalIs DEF ScanSettled, Goes, Flags
<1>2. CASE Ends(h)
  <2>1. PICK p \in Doings, q \in Locals : p = "idle" /\ q = NoCall
    BY <1>2, EndsIs DEF Doings
  <2>2. Move(h, p, q) /\ LocalFits(p, q)
    BY <1>2, <2>1, EndsIs
  <2> QED
    BY <1>1, <2>2, BaseQuiet
<1>3. CASE ~Ends(h)
  <2>1. PICK q \in Locals : Move(h, "emit", q) /\ LocalFits("emit", q)
    BY <1>3, ScanIs
  <2>2. "emit" \in Doings
    BY DEF Doings
  <2> QED
    BY <1>1, <2>1, <2>2, BaseQuiet
<1> QED
  BY <1>2, <1>3

LEMMA MemoryStarts ==
  ASSUME MemoryInit
  PROVE  BaseInv
<1>1. PICK e : e = [ts |-> 0, type |-> "domain", about |-> {}]
  OBVIOUS
<1>2. e \in Events /\ e.ts = 0 /\ e.type = "domain" /\ e.about = {}
  BY <1>1 DEF Events, Types
<1>3. log = <<e>> /\ log \in Seq(Events) /\ Len(log) = 1 /\ DOMAIN log = {1} /\ log[1] = e
  <2>1. log = <<e>>
    BY <1>1 DEF MemoryInit
  <2> QED
    BY <1>2, <2>1
<1>4. nodes = <<>> /\ now = 1 /\ projected = Zero /\ consolidated = Zero
      /\ doing = [h \in MemoryHandlers |-> "idle"] /\ local = [h \in MemoryHandlers |-> NoCall]
      /\ disturbed = FALSE /\ again = FALSE /\ half = FALSE
  BY DEF MemoryInit, Zero
<1>5. Zero \in Keys /\ Reached(Zero)
  BY <1>3, <1>4 DEF Reached, Zero, Keys
<1>6. LogHolds
  BY <1>2, <1>3, <1>4 DEF LogHolds
<1>7. NoCall \in Locals /\ LocalFits("idle", NoCall)
  <2>1. PICK q : q = NoCall
    OBVIOUS
  <2>2. PICK none : none = <<>>
    OBVIOUS
  <2>3. \A T : none \in Seq(T)
    BY <2>2
  <2>4. DOMAIN none = {}
    BY <2>2
  <2>5. q = [kind |-> "none", now |-> 0, at |-> Zero, batch |-> none, outs |-> none, upto |-> Zero, bundle |-> {}, left |-> {}]
    BY <2>1, <2>2 DEF NoCall, Zero
  <2>6. q \in Locals
    BY <1>5, <2>3, <2>5 DEF Locals, Kinds
  <2>7. LocalFits("idle", q)
    BY <1>4, <1>5, <2>2, <2>3, <2>4, <2>5 DEF LocalFits
  <2> QED
    BY <2>1, <2>6, <2>7
<1>8. \A h \in MemoryHandlers : doing[h] = "idle" /\ local[h] = NoCall
  BY <1>4
<1>9. DOMAIN nodes = {} /\ nodes \in [DOMAIN nodes -> NodeRows] /\ DOMAIN nodes \subseteq DOMAIN log
  BY <1>4
<1>10. StubsHold
  BY <1>9 DEF StubsHold
<1>11. doing \in [MemoryHandlers -> Doings] /\ local \in [MemoryHandlers -> Locals]
  BY <1>4, <1>7 DEF Doings
<1>12. MemoryTyped
  BY <1>3, <1>4, <1>5, <1>9, <1>11 DEF MemoryTyped
<1> QED
  BY <1>6, <1>7, <1>8, <1>10, <1>12 DEF BaseInv

LEMMA MemoryRests ==
  ASSUME BaseInv, UNCHANGED memoryVars
  PROVE  BaseInv'
BY DEF BaseInv, MemoryTyped, LogHolds, LocalFits, StubsHold, Reached, Key, memoryVars, tables

LEMMA BaseStep ==
  ASSUME BaseInv, MemoryAssumption, [MemoryNext]_memoryVars
  PROVE  BaseInv'
<1>1. CASE Tick
  BY <1>1, TickBase
<1>2. CASE DomainEvent
  BY <1>2, DomainEventBase
<1>3. ASSUME NEW h \in MemoryHandlers, Step(h) PROVE BaseInv'
  BY <1>3, ReadProjectedBase, FetchBase, ApplyBase, WriteProjectedBase, WipeBase, ResetProjectedBase,
     ReadConsolidatedBase, ScanBase, EmitOutputBase, WriteConsolidatedBase, FindColdBase, PutBundleBase, StubBase,
     ReadTieredBase, RestoreBase, LedgerBase DEF Step
<1>4. ASSUME NEW h \in MemoryHandlers, Crash(h) PROVE BaseInv'
  BY <1>4, CrashBase
<1>5. ASSUME NEW h \in MemoryHandlers, NEW sort \in {"recall", "sleep", "rebuild", "tier"}, Start(h, sort) PROVE BaseInv'
  BY <1>5, BeginBase
<1>6. CASE UNCHANGED memoryVars
  BY <1>6, MemoryRests
<1> QED
  BY <1>1, <1>2, <1>3, <1>4, <1>5, <1>6 DEF MemoryNext

\* One step of a handler that writes nothing to the log.
LEMMA CycleMoves ==
  ASSUME BaseInv, CycleInv, UNCHANGED log, NEW h \in MemoryHandlers, NEW p \in Doings, NEW q \in Locals,
         Move(h, p, q), again => again',
         Covered(consolidated', <<>>),
         p = "scan" => Covered(q.at, <<>>),
         q.upto # Zero => Covered(q.upto, q.outs),
         again' \/
           /\ q.kind = "sleep" => \A g \in MemoryHandlers : g # h => local[g].kind # "sleep"
           /\ p = "scan" => q.at = consolidated'
           /\ q.upto # Zero => Once(q.upto, q.outs)
           /\ consolidated' = consolidated \/ \A g \in MemoryHandlers : g # h => doing[g] # "scan"
           /\ q.upto # Zero \/ (\E g \in MemoryHandlers : g # h /\ Cycle(g)) \/ Once(consolidated', <<>>)
  PROVE  CycleInv'
<1>1. \A g \in MemoryHandlers : /\ doing'[g] = IF g = h THEN p ELSE doing[g]
                                /\ local'[g] = IF g = h THEN q ELSE local[g]
  BY DEF BaseInv, MemoryTyped, Move
<1>2. \A k, outs : (Covered(k, outs)' <=> Covered(k, outs)) /\ (Once(k, outs)' <=> Once(k, outs))
  BY DEF Covered, Once, Domain, Summaries, Key
<1>3. PICK c : c = consolidated'
  OBVIOUS
<1>4. Covered(consolidated, <<>>)'
  <2>1. Covered(c, <<>>)'
    BY <1>2, <1>3
  <2> QED
    BY <1>3, <2>1 DEF Covered
<1>5. ASSUME NEW g \in MemoryHandlers
      PROVE  /\ doing'[g] = "scan" => Covered(local[g].at, <<>>)'
             /\ Cycle(g)' => Covered(local[g].upto, local[g].outs)'
  <2>1. PICK r : r = local'[g]
    OBVIOUS
  <2>2. (doing'[g] = "scan" => Covered(r.at, <<>>)) /\ (r.upto # Zero => Covered(r.upto, r.outs))
    BY <1>1, <2>1 DEF CycleInv, Cycle
  <2>3. (doing'[g] = "scan" => Covered(r.at, <<>>)') /\ (r.upto # Zero => Covered(r.upto, r.outs)')
    BY <1>2, <2>2
  <2> QED
    BY <2>1, <2>3 DEF Covered, Cycle, Zero
<1>6. CASE ~again'
  <2>0. ~again
    BY <1>6
  <2>1. \A f, g \in MemoryHandlers : local'[f].kind = "sleep" /\ local'[g].kind = "sleep" => f = g
    BY <1>1, <1>6, <2>0 DEF CycleInv
  <2>2. \A g \in MemoryHandlers : doing'[g] = "scan" => local'[g].at = consolidated'
    BY <1>1, <1>6, <2>0 DEF CycleInv
  <2>3. ASSUME NEW g \in MemoryHandlers PROVE Cycle(g)' => Once(local[g].upto, local[g].outs)'
    <3>1. PICK r : r = local'[g]
      OBVIOUS
    <3>2. r.upto # Zero => Once(r.upto, r.outs)
      BY <1>1, <1>6, <2>0, <3>1 DEF CycleInv, Cycle
    <3>3. r.upto # Zero => Once(r.upto, r.outs)'
      BY <1>2, <3>2
    <3> QED
      BY <3>1, <3>3 DEF Once, Cycle, Zero
  <2>4. (\E g \in MemoryHandlers : Cycle(g)') \/ Once(consolidated, <<>>)'
    <3>1. CASE q.upto # Zero
      <4>1. Cycle(h)'
        BY <1>1, <3>1 DEF Cycle, Zero
      <4> QED
        BY <4>1
    <3>2. ASSUME NEW g \in MemoryHandlers, g # h, Cycle(g) PROVE Cycle(g)'
      BY <1>1, <3>2 DEF Cycle, Zero
    <3>3. CASE Once(c, <<>>)
      <4>1. Once(c, <<>>)'
        BY <1>2, <3>3
      <4> QED
        BY <1>3, <4>1 DEF Once
    <3> QED
      BY <1>3, <1>6, <3>1, <3>2, <3>3
  <2> QED
    BY <1>4, <1>5, <2>1, <2>2, <2>3, <2>4 DEF CycleInv
<1>7. CASE again'
  BY <1>4, <1>5, <1>7 DEF CycleInv
<1> QED
  BY <1>6, <1>7

LEMMA CycleQuiet ==
  ASSUME BaseInv, CycleInv, UNCHANGED <<log, consolidated>>, NEW h \in MemoryHandlers, NEW p \in Doings, NEW q \in Locals,
         Move(h, p, q), Plain(h, p, q), again => again'
  PROVE  CycleInv'
<1>1. Covered(consolidated', <<>>)
  BY DEF CycleInv
<1>2. p = "scan" => Covered(q.at, <<>>)
  BY DEF CycleInv, Plain
<1>3. q.upto # Zero => Covered(q.upto, q.outs)
  BY DEF CycleInv, Plain, Cycle
<1>4. again' \/
           /\ q.kind = "sleep" => \A g \in MemoryHandlers : g # h => local[g].kind # "sleep"
           /\ p = "scan" => q.at = consolidated'
           /\ q.upto # Zero => Once(q.upto, q.outs)
           /\ consolidated' = consolidated \/ \A g \in MemoryHandlers : g # h => doing[g] # "scan"
           /\ q.upto # Zero \/ (\E g \in MemoryHandlers : g # h /\ Cycle(g)) \/ Once(consolidated', <<>>)
  <2>1. CASE again
    BY <2>1
  <2>2. CASE ~again
    <3>1. q.kind = "sleep" => \A g \in MemoryHandlers : g # h => local[g].kind # "sleep"
      BY <2>2 DEF CycleInv, Plain
    <3>2. p = "scan" => q.at = consolidated'
      BY <2>2 DEF CycleInv, Plain
    <3>3. q.upto # Zero => Once(q.upto, q.outs)
      BY <2>2 DEF CycleInv, Plain, Cycle
    <3>4. q.upto # Zero \/ (\E g \in MemoryHandlers : g # h /\ Cycle(g)) \/ Once(consolidated', <<>>)
      BY <2>2 DEF CycleInv, Plain, Cycle
    <3> QED
      BY <3>1, <3>2, <3>3, <3>4
  <2> QED
    BY <2>1, <2>2
<1> QED
  BY <1>1, <1>2, <1>3, <1>4, CycleMoves

LEMMA BeginCycle ==
  ASSUME BaseInv, CycleInv, NEW h \in MemoryHandlers, NEW sort \in {"recall", "sleep", "rebuild", "tier"}, Start(h, sort)
  PROVE  CycleInv'
<1>1. PICK p \in {"read_projected", "wipe", "find_cold"}, q \in Locals :
        /\ Move(h, p, q) /\ q.upto = Zero /\ q.outs = <<>> /\ q.kind = sort
        /\ local[h].upto = Zero /\ local[h].outs = <<>>
  BY BeginIs
<1>2. p \in Doings /\ p # "scan"
  BY <1>1 DEF Doings, Projecting
<1>3. UNCHANGED <<log, consolidated>>
      /\ again' = (again \/ (sort = "sleep" /\ \E g \in Others(h) : local[g].kind = "sleep"))
  BY DEF Start, tables
<1>4. Covered(consolidated', <<>>)
  BY <1>3 DEF CycleInv
<1>5. again' \/
           /\ q.kind = "sleep" => \A g \in MemoryHandlers : g # h => local[g].kind # "sleep"
           /\ p = "scan" => q.at = consolidated'
           /\ q.upto # Zero => Once(q.upto, q.outs)
           /\ consolidated' = consolidated \/ \A g \in MemoryHandlers : g # h => doing[g] # "scan"
           /\ q.upto # Zero \/ (\E g \in MemoryHandlers : g # h /\ Cycle(g)) \/ Once(consolidated', <<>>)
  <2>1. CASE again'
    BY <2>1
  <2>2. CASE ~again'
    <3>1. q.kind = "sleep" => \A g \in MemoryHandlers : g # h => local[g].kind # "sleep"
      BY <1>1, <1>3, <2>2 DEF Others
    <3>2. (\E g \in MemoryHandlers : Cycle(g)) \/ Once(consolidated, <<>>)
      BY <1>3, <2>2 DEF CycleInv
    <3>3. ~Cycle(h)
      BY <1>1 DEF Cycle
    <3> QED
      BY <1>1, <1>2, <1>3, <3>1, <3>2, <3>3
  <2> QED
    BY <2>1, <2>2
<1> QED
  BY <1>1, <1>2, <1>3, <1>4, <1>5, CycleMoves

LEMMA ReadConsolidatedCycle ==
  ASSUME BaseInv, CycleInv, NEW h \in MemoryHandlers, ReadConsolidated(h)
  PROVE  CycleInv'
<1>1. PICK q \in Locals : /\ Move(h, "scan", q) /\ q.at = consolidated /\ q.upto = Zero /\ q.kind = "sleep"
                          /\ local[h].kind = "sleep" /\ local[h].upto = Zero
  BY ReadConsolidatedIs
<1>2. PICK p \in Doings : p = "scan"
  BY DEF Doings
<1>3. UNCHANGED <<log, consolidated>> /\ again' = again
  BY DEF ReadConsolidated, tables
<1>4. Covered(consolidated', <<>>) /\ Covered(q.at, <<>>)
  BY <1>1, <1>3 DEF CycleInv
<1>5. again' \/
           /\ q.kind = "sleep" => \A g \in MemoryHandlers : g # h => local[g].kind # "sleep"
           /\ p = "scan" => q.at = consolidated'
           /\ q.upto # Zero => Once(q.upto, q.outs)
           /\ consolidated' = consolidated \/ \A g \in MemoryHandlers : g # h => doing[g] # "scan"
           /\ q.upto # Zero \/ (\E g \in MemoryHandlers : g # h /\ Cycle(g)) \/ Once(consolidated', <<>>)
  <2>1. CASE again'
    BY <2>1
  <2>2. CASE ~again'
    <3>1. \A g \in MemoryHandlers : g # h => local[g].kind # "sleep"
      BY <1>1, <1>3, <2>2 DEF CycleInv
    <3>2. (\E g \in MemoryHandlers : Cycle(g)) \/ Once(consolidated, <<>>)
      BY <1>3, <2>2 DEF CycleInv
    <3>3. ~Cycle(h)
      BY <1>1 DEF Cycle
    <3> QED
      BY <1>1, <1>2, <1>3, <3>1, <3>2, <3>3
  <2> QED
    BY <2>1, <2>2
<1>6. Move(h, p, q)
  BY <1>1, <1>2
<1> QED
  BY <1>1, <1>2, <1>3, <1>4, <1>5, <1>6, CycleMoves

\* Only one handler sleeps, unless cycles overlapped.
LEMMA SleepsAlone ==
  ASSUME BaseInv, CycleInv, ~again, NEW h \in MemoryHandlers, local[h].kind = "sleep"
  PROVE  \A g \in MemoryHandlers : g # h => local[g].kind # "sleep" /\ doing[g] # "scan" /\ ~Cycle(g)
<1>1. \A g \in MemoryHandlers : g # h => local[g].kind # "sleep"
  BY DEF CycleInv
<1>2. \A g \in MemoryHandlers : (doing[g] = "scan" \/ Cycle(g)) => local[g].kind = "sleep"
  BY DEF BaseInv, LocalFits, Cycle
<1> QED
  BY <1>1, <1>2

LEMMA ScanCycle ==
  ASSUME BaseInv, MemoryAssumption, CycleInv, NEW h \in MemoryHandlers, ScanSettled(h)
  PROVE  CycleInv'
<1>1. UNCHANGED <<log, consolidated>> /\ again' = again
  BY DEF ScanSettled, tables
<1>2. local[h].upto = Zero /\ local[h].kind = "sleep"
  BY ScanIs
<1>3. CASE Ends(h)
  <2>1. PICK p \in Doings, q \in Locals : p = "idle" /\ q = NoCall
    BY <1>3, EndsIs DEF Doings
  <2>2. Move(h, p, q) /\ Plain(h, p, q)
    BY <1>2, <1>3, <2>1, EndsIs
  <2> QED
    BY <1>1, <2>2, CycleQuiet
<1>4. CASE ~Ends(h)
  <2>1. PICK q \in Locals, l \in DOMAIN log :
                 /\ Move(h, "emit", q) /\ q.upto = Key(l) /\ q.upto # Zero /\ Before(local[h].at, Key(l))
                 /\ Planned(q, local[h].at, l)
    BY <1>4, ScanIs
  <2>2. PICK p \in Doings : p = "emit"
    BY DEF Doings
  <2>3. PICK k \in Keys : k = local[h].at
    BY LocalIs DEF Locals
  <2>4. \A i \in Domain : i \in DOMAIN log /\ Key(i) \in Keys /\ (i \in Past(k) <=> Before(k, Key(i)))
    BY LocalIs, LogType DEF Domain, Past
  <2>5. Key(l) \in Keys
    BY LocalIs, LogType
  <2>6. Covered(q.upto, q.outs)
    <3>1. Covered(k, <<>>)
      BY <2>3 DEF CycleInv, ScanSettled
    <3>2. \A i \in Domain : ~Before(k, Key(i)) => Summaries(i) # {}
      BY <3>1 DEF Covered
    <3> QED
      BY <2>1, <2>3, <2>4, <3>2 DEF Covered, Planned
  <2>7. CASE ~again
    <3>1. \A g \in MemoryHandlers : g # h => local[g].kind # "sleep" /\ doing[g] # "scan" /\ ~Cycle(g)
      BY <1>2, <2>7, SleepsAlone
    <3>2. Once(k, <<>>)
      <4>1. k = consolidated
        BY <2>3, <2>7 DEF CycleInv, ScanSettled
      <4>2. ~Cycle(h)
        BY <1>2 DEF Cycle
      <4> QED
        BY <2>7, <3>1, <4>1, <4>2 DEF CycleInv
    <3>3. \A i \in Domain : /\ Before(k, Key(i)) => Summaries(i) = {}
                            /\ \A s, r \in Summaries(i) : s = r
      BY <3>2 DEF Once
    <3>4. Once(q.upto, q.outs)
      <4> SUFFICES ASSUME NEW i \in Domain
                   PROVE  /\ Before(Key(l), Key(i)) => Summaries(i) = {} /\ \A n \in DOMAIN q.outs : ~Summarizes(q.outs[n], i)
                          /\ \A s, r \in Summaries(i) : s = r
                          /\ \A n, m \in DOMAIN q.outs : Summarizes(q.outs[n], i) /\ Summarizes(q.outs[m], i) => n = m
                          /\ Summaries(i) # {} => \A n \in DOMAIN q.outs : ~Summarizes(q.outs[n], i)
        BY <2>1 DEF Once
      <4>1. Before(Key(l), Key(i)) => Before(k, Key(i))
        BY <2>1, <2>3, <2>4, <2>5, BeforeIsOrder
      <4>2. \A n \in DOMAIN q.outs : Summarizes(q.outs[n], i) => Before(k, Key(i)) /\ ~Before(Key(l), Key(i))
        BY <2>1, <2>3, <2>4 DEF Planned
      <4>3. \A n, m \in DOMAIN q.outs : Summarizes(q.outs[n], i) /\ Summarizes(q.outs[m], i) => n = m
        BY <2>1 DEF Planned
      <4> QED
        BY <3>3, <4>1, <4>2, <4>3
    <3> QED
      BY <1>1, <2>1, <2>2, <2>6, <2>7, <3>1, <3>4, CycleMoves DEF CycleInv
  <2>8. CASE again
    BY <1>1, <2>1, <2>2, <2>6, <2>8, CycleMoves DEF CycleInv
  <2> QED
    BY <2>7, <2>8
<1> QED
  BY <1>3, <1>4

LEMMA WriteConsolidatedCycle ==
  ASSUME BaseInv, CycleInv, NEW h \in MemoryHandlers, WriteConsolidated(h)
  PROVE  CycleInv'
<1>1. PICK q \in Locals : Move(h, "read_projected", q) /\ q.upto = Zero /\ q.outs = <<>> /\ q.kind = "fold"
  BY WriteConsolidatedIs
<1>2. PICK p \in Doings : p = "read_projected"
  BY DEF Doings, Projecting
<1>3. local[h].kind = "sleep" /\ local[h].upto # Zero /\ local[h].outs = <<>>
  BY WriteConsolidatedIs
<1>4. UNCHANGED log /\ again' = again /\ consolidated' = local[h].upto
  BY DEF WriteConsolidated
<1>5. Covered(consolidated', <<>>)
  BY <1>3, <1>4 DEF CycleInv, Cycle
<1>6. CASE ~again
  <2>1. \A g \in MemoryHandlers : g # h => doing[g] # "scan"
    BY <1>3, <1>6, SleepsAlone
  <2>2. Once(consolidated', <<>>)
    BY <1>3, <1>4, <1>6 DEF CycleInv, Cycle
  <2> QED
    BY <1>1, <1>2, <1>4, <1>5, <1>6, <2>1, <2>2, CycleMoves
<1>7. CASE again
  BY <1>1, <1>2, <1>4, <1>5, <1>7, CycleMoves
<1> QED
  BY <1>6, <1>7

LEMMA CrashCycle ==
  ASSUME BaseInv, CycleInv, NEW h \in MemoryHandlers, Crash(h)
  PROVE  CycleInv'
<1>1. PICK p \in Doings, q \in Locals : p = "idle" /\ q = NoCall
  BY CrashIs DEF Doings
<1>2. Move(h, p, q) /\ UNCHANGED <<log, consolidated>> /\ (again => again')
  BY <1>1, CrashIs DEF Crash, tables
<1>3. CASE local[h].upto = Zero
  <2>1. Plain(h, p, q)
    BY <1>1, <1>3, CrashIs
  <2> QED
    BY <1>2, <2>1, CycleQuiet
<1>4. CASE local[h].upto # Zero
  <2>1. again' /\ p # "scan" /\ q.upto = Zero /\ Covered(consolidated', <<>>)
    BY <1>1, <1>2, <1>4, CrashIs, RestFits DEF CycleInv
  <2> QED
    BY <1>2, <2>1, CycleMoves
<1> QED
  BY <1>3, <1>4

\* What an event makes of the summaries.
LEMMA SummariesGrow ==
  ASSUME BaseInv, NEW e \in Events, NEW last, last = Len(log) + 1,
         log' = Append(log, e), now' = now, blobs \subseteq blobs', e.ts <= now,
         \A j \in e.about : j \in DOMAIN log /\ (e.type = "supersede" => log[j].ts <= e.ts)
  PROVE  /\ Domain \subseteq DOMAIN log /\ last \notin DOMAIN log
         /\ Domain' = IF e.type = "domain" THEN Domain \union {last} ELSE Domain
         /\ \A i \in DOMAIN log : /\ Summaries(i) \subseteq DOMAIN log /\ Key(i)' = Key(i)
                                  /\ Summaries(i)' = IF Summarizes(e, i) THEN Summaries(i) \union {last} ELSE Summaries(i)
         /\ Summaries(last)' = {}
         /\ Key(last)' = <<e.ts, last>>
<1>1. /\ DOMAIN log' = DOMAIN log \union {last} /\ last \notin DOMAIN log /\ log'[last] = e
      /\ Key(last)' = <<e.ts, last>>
      /\ \A i \in DOMAIN log : log'[i] = log[i] /\ Key(i)' = Key(i)
  BY Appended
<1>2. Domain' = IF e.type = "domain" THEN Domain \union {last} ELSE Domain
  BY <1>1 DEF Domain
<1>3. \A i \in DOMAIN log : Summaries(i)' = IF Summarizes(e, i) THEN Summaries(i) \union {last} ELSE Summaries(i)
  BY <1>1 DEF Summaries, Summarizes
<1>4. \A i \in DOMAIN log : \A j \in log[i].about : j \in DOMAIN log
  BY DEF BaseInv, LogHolds
<1>5. Summaries(last)' = {}
  BY <1>1, <1>4 DEF Summaries
<1> QED
  BY <1>1, <1>2, <1>3, <1>5 DEF Domain, Summaries

\* A new event of now is beyond whatever was reached.
LEMMA ReachedBefore ==
  ASSUME BaseInv, NEW k, Reached(k), NEW last, last = Len(log) + 1
  PROVE  Before(k, <<now, last>>) /\ <<now, last>> \in Keys /\ ~Before(<<now, last>>, k) /\ k \in Keys
<1>1. now \in Nat /\ Len(log) \in Nat
  BY LogType DEF BaseInv, MemoryTyped
<1> QED
  BY <1>1 DEF Reached, Keys, Before

LEMMA CoversStill ==
  ASSUME BaseInv, NEW e \in Events, NEW last, last = Len(log) + 1,
         log' = Append(log, e), now' = now, blobs \subseteq blobs', e.ts <= now,
         \A j \in e.about : j \in DOMAIN log /\ (e.type = "supersede" => log[j].ts <= e.ts),
         NEW k, NEW outs, Covered(k, outs), e.type = "domain" => Before(k, <<e.ts, last>>)
  PROVE  Covered(k, outs)'
<1>1. /\ Domain \subseteq DOMAIN log
      /\ Domain' = IF e.type = "domain" THEN Domain \union {last} ELSE Domain
      /\ \A i \in DOMAIN log : Key(i)' = Key(i) /\ Summaries(i) \subseteq Summaries(i)'
      /\ Key(last)' = <<e.ts, last>>
  <2>1. \A i \in DOMAIN log : Key(i)' = Key(i)
               /\ Summaries(i)' = IF Summarizes(e, i) THEN Summaries(i) \union {last} ELSE Summaries(i)
    BY SummariesGrow
  <2>2. \A i \in DOMAIN log : Summaries(i) \subseteq Summaries(i)'
    BY <2>1
  <2> QED
    BY <2>1, <2>2, SummariesGrow
<1>2. ASSUME NEW i \in Domain', ~Before(k, Key(i)')
      PROVE  Summaries(i)' # {} \/ \E n \in DOMAIN outs : Summarizes(outs[n], i)
  <2>1. i \in Domain
    BY <1>1, <1>2
  <2>2. Summaries(i) # {} \/ \E n \in DOMAIN outs : Summarizes(outs[n], i)
    BY <1>1, <1>2, <2>1 DEF Covered
  <2> QED
    BY <1>1, <2>1, <2>2
<1> QED
  BY <1>2 DEF Covered, Before

LEMMA OnceStill ==
  ASSUME BaseInv, NEW e \in Events, NEW last, last = Len(log) + 1,
         log' = Append(log, e), now' = now, blobs \subseteq blobs', e.ts <= now,
         \A j \in e.about : j \in DOMAIN log /\ (e.type = "supersede" => log[j].ts <= e.ts),
         NEW k, NEW outs, Once(k, outs), e.type # "summary",
         \A n \in DOMAIN outs : \A j \in outs[n].about : j \in DOMAIN log
  PROVE  Once(k, outs)'
<1>1. /\ Domain \subseteq DOMAIN log /\ last \notin DOMAIN log
      /\ Domain' = IF e.type = "domain" THEN Domain \union {last} ELSE Domain
      /\ \A i \in DOMAIN log : Key(i)' = Key(i) /\ Summaries(i)' = Summaries(i)
      /\ Summaries(last)' = {}
  BY SummariesGrow DEF Summarizes
<1>2. \A n \in DOMAIN outs : ~Summarizes(outs[n], last)
  BY <1>1 DEF Summarizes
<1>3. ASSUME NEW i \in Domain'
      PROVE  /\ Before(k, Key(i)') => Summaries(i)' = {} /\ \A n \in DOMAIN outs : ~Summarizes(outs[n], i)
             /\ \A s, r \in Summaries(i)' : s = r
             /\ \A n, m \in DOMAIN outs : Summarizes(outs[n], i) /\ Summarizes(outs[m], i) => n = m
             /\ Summaries(i)' # {} => \A n \in DOMAIN outs : ~Summarizes(outs[n], i)
  <2>1. CASE i \in Domain
    BY <1>1, <2>1 DEF Once
  <2>2. CASE i = last
    BY <1>1, <1>2, <2>2
  <2> QED
    BY <1>1, <2>1, <2>2
<1> QED
  BY <1>3 DEF Once, Before

\* No cycle is begun, ended or moved on.
CyclesStay ==
  \A g \in MemoryHandlers :
    /\ local'[g].upto = local[g].upto /\ local'[g].outs = local[g].outs
    /\ local'[g].kind = "sleep" => local[g].kind = "sleep"
    /\ doing'[g] = "scan" => doing[g] = "scan" /\ local'[g].at = local[g].at

\* An event that is no output.
LEMMA CycleNotes ==
  ASSUME BaseInv, CycleInv, NEW e \in Events, log' = Append(log, e), UNCHANGED <<now, blobs, consolidated, again>>,
         e.ts = now, e.type \in {"domain", "ledger"}, e.about = {}, CyclesStay
  PROVE  CycleInv'
<1>1. PICK last : last = Len(log) + 1
  OBVIOUS
<1>2. e.ts <= now /\ \A j \in e.about : j \in DOMAIN log /\ (e.type = "supersede" => log[j].ts <= e.ts)
  BY DEF BaseInv, MemoryTyped
<1>3. e.type # "summary"
  OBVIOUS
<1>4. \A k : Reached(k) => Before(k, <<e.ts, last>>)
  BY <1>1, ReachedBefore
<1>5. \A k, outs : Reached(k) /\ Covered(k, outs) => Covered(k, outs)'
  BY <1>1, <1>2, <1>4, CoversStill
<1>6. \A k, outs : Once(k, outs) /\ (\A n \in DOMAIN outs : \A j \in outs[n].about : j \in DOMAIN log) => Once(k, outs)'
  BY <1>1, <1>2, <1>3, OnceStill
<1>7. PICK c : c = consolidated
  OBVIOUS
<1>8. Covered(consolidated, <<>>)'
  <2>1. Covered(c, <<>>)'
    BY <1>5, <1>7, BaseHolds DEF CycleInv
  <2> QED
    BY <1>7, <2>1 DEF Covered
<1>9. ASSUME NEW g \in MemoryHandlers
      PROVE  /\ doing'[g] = "scan" => Covered(local[g].at, <<>>)'
             /\ Cycle(g)' => Covered(local[g].upto, local[g].outs)'
             /\ ~again => (Cycle(g)' => Once(local[g].upto, local[g].outs)')
  <2>1. PICK r : r = local'[g]
    OBVIOUS
  <2>2. Reached(local[g].at) /\ Reached(local[g].upto)
        /\ \A n \in DOMAIN local[g].outs : \A j \in local[g].outs[n].about : j \in DOMAIN log
    BY DEF BaseInv, LocalFits
  <2>3. doing'[g] = "scan" => Reached(r.at) /\ Covered(r.at, <<>>)
    BY <2>1, <2>2 DEF CyclesStay, CycleInv
  <2>4. r.upto # Zero => Reached(r.upto) /\ Covered(r.upto, r.outs)
    BY <2>1, <2>2 DEF CyclesStay, CycleInv, Cycle
  <2>5. ~again => (r.upto # Zero => Once(r.upto, r.outs))
    BY <2>1 DEF CyclesStay, CycleInv, Cycle
  <2>6. \A n \in DOMAIN r.outs : \A j \in r.outs[n].about : j \in DOMAIN log
    BY <2>1, <2>2 DEF CyclesStay
  <2>7. (doing'[g] = "scan" => Covered(r.at, <<>>)') /\ (r.upto # Zero => Covered(r.upto, r.outs)')
        /\ (~again => (r.upto # Zero => Once(r.upto, r.outs)'))
    BY <1>5, <1>6, <2>3, <2>4, <2>5, <2>6
  <2> QED
    BY <2>1, <2>7 DEF Covered, Once, Cycle, Zero
<1>10. ASSUME ~again
       PROVE  /\ \A h, g \in MemoryHandlers : local'[h].kind = "sleep" /\ local'[g].kind = "sleep" => h = g
              /\ \A h \in MemoryHandlers : doing'[h] = "scan" => local'[h].at = consolidated'
              /\ (\E h \in MemoryHandlers : Cycle(h)') \/ Once(consolidated, <<>>)'
  <2>1. \A h, g \in MemoryHandlers : local'[h].kind = "sleep" /\ local'[g].kind = "sleep" => h = g
    BY <1>10 DEF CyclesStay, CycleInv
  <2>2. \A h \in MemoryHandlers : doing'[h] = "scan" => local'[h].at = consolidated'
    BY <1>10 DEF CyclesStay, CycleInv
  <2>3. CASE \E h \in MemoryHandlers : Cycle(h)
    BY <2>1, <2>2, <2>3 DEF CyclesStay, Cycle, Zero
  <2>4. CASE Once(c, <<>>)
    <3>1. Once(c, <<>>)'
      BY <1>6, <2>4
    <3>2. Once(consolidated, <<>>)'
      BY <1>7, <3>1 DEF Once
    <3> QED
      BY <2>1, <2>2, <3>2
  <2> QED
    BY <1>7, <1>10, <2>3, <2>4 DEF CycleInv
<1> QED
  BY <1>8, <1>9, <1>10 DEF CycleInv

LEMMA MoveStays ==
  ASSUME BaseInv, NEW h \in MemoryHandlers, NEW p, NEW q, Move(h, p, q), Plain(h, p, q)
  PROVE  CyclesStay
<1>1. \A g \in MemoryHandlers : /\ doing'[g] = IF g = h THEN p ELSE doing[g]
                                /\ local'[g] = IF g = h THEN q ELSE local[g]
  BY DEF BaseInv, MemoryTyped, Move
<1> QED
  BY <1>1 DEF CyclesStay, Plain

LEMMA LedgerCycle ==
  ASSUME BaseInv, CycleInv, NEW h \in MemoryHandlers, Ledger(h)
  PROVE  CycleInv'
<1>1. CyclesStay
  BY LedgerIs, MoveStays
<1>2. PICK e \in Events : log' = Append(log, e) /\ e.ts = now /\ e.type = "ledger" /\ e.about = {}
  BY LedgerIs
<1>3. UNCHANGED <<now, blobs, consolidated, again>>
  BY DEF Ledger, Goes
<1> QED
  BY <1>1, <1>2, <1>3, CycleNotes

LEMMA DomainEventCycle ==
  ASSUME BaseInv, CycleInv, DomainEvent
  PROVE  CycleInv'
<1>1. CyclesStay
  BY DEF DomainEvent, CyclesStay
<1>2. PICK e \in Events : log' = Append(log, e) /\ e.ts = now /\ e.type = "domain" /\ e.about = {}
  BY DomainEventIs
<1>3. UNCHANGED <<now, blobs, consolidated, again>>
  BY DEF DomainEvent
<1> QED
  BY <1>1, <1>2, <1>3, CycleNotes

LEMMA EmittedStill ==
  ASSUME BaseInv, NEW e \in Events, NEW last, last = Len(log) + 1,
         log' = Append(log, e), now' = now, blobs \subseteq blobs', e.ts <= now,
         \A j \in e.about : j \in DOMAIN log /\ (e.type = "supersede" => log[j].ts <= e.ts),
         e.type # "domain", NEW k, NEW outs \in Seq(Events), outs # <<>>, e = Head(outs)
  PROVE  /\ Covered(k, outs) => Covered(k, Tail(outs))'
         /\ Once(k, outs) => Once(k, Tail(outs))'
<1>1. PICK b : b = Tail(outs)
  OBVIOUS
<1>2. Len(outs) \in Nat /\ b \in Seq(Events) /\ Len(b) = Len(outs) - 1 /\ DOMAIN outs = 1..Len(outs)
      /\ DOMAIN b = 1..(Len(outs) - 1) /\ e = outs[1] /\ 1 \in DOMAIN outs
      /\ \A n \in 1..(Len(outs) - 1) : b[n] = outs[n + 1] /\ n + 1 \in 1..Len(outs)
  <2>1. Len(outs) \in Nat /\ Len(outs) >= 1 /\ b \in Seq(Events) /\ Len(b) = Len(outs) - 1 /\ e = outs[1]
        /\ \A n \in 1..(Len(outs) - 1) : b[n] = outs[n + 1] /\ n + 1 \in 1..Len(outs)
    BY <1>1, Rest
  <2>2. DOMAIN outs = 1..Len(outs) /\ DOMAIN b = 1..Len(b)
    BY <2>1
  <2> QED
    BY <2>1, <2>2
<1>3. \A n \in DOMAIN b : b[n] = outs[n + 1] /\ n + 1 \in DOMAIN outs /\ n + 1 # 1 /\ n \in Nat
  BY <1>2
<1>4. \A n \in DOMAIN outs : n = 1 \/ (n - 1 \in DOMAIN b /\ b[n - 1] = outs[n])
  <2> SUFFICES ASSUME NEW n \in DOMAIN outs, n # 1 PROVE n - 1 \in DOMAIN b /\ b[n - 1] = outs[n]
    OBVIOUS
  <2>1. n - 1 \in 1..(Len(outs) - 1) /\ (n - 1) + 1 = n
    BY <1>2
  <2> QED
    BY <1>2, <2>1
<1>5. /\ Domain \subseteq DOMAIN log /\ Domain' = Domain
      /\ \A i \in DOMAIN log : Key(i)' = Key(i)
           /\ Summaries(i)' = IF Summarizes(e, i) THEN Summaries(i) \union {last} ELSE Summaries(i)
  BY SummariesGrow
<1>6. ASSUME Covered(k, outs) PROVE Covered(k, b)'
  <2>1. ASSUME NEW i \in Domain, ~Before(k, Key(i))
        PROVE  Summaries(i)' # {} \/ \E n \in DOMAIN b : Summarizes(b[n], i)
    <3>1. Summaries(i) # {} \/ \E n \in DOMAIN outs : Summarizes(outs[n], i)
      BY <1>6, <2>1 DEF Covered
    <3>2. ASSUME NEW n \in DOMAIN outs, Summarizes(outs[n], i)
          PROVE  Summaries(i)' # {} \/ \E m \in DOMAIN b : Summarizes(b[m], i)
      BY <1>2, <1>4, <1>5, <3>2
    <3> QED
      BY <1>5, <3>1, <3>2
  <2> QED
    BY <1>5, <2>1 DEF Covered, Before
<1>7. ASSUME Once(k, outs) PROVE Once(k, b)'
  <2>1. ASSUME NEW i \in Domain
        PROVE  /\ Before(k, Key(i)) => Summaries(i)' = {} /\ \A n \in DOMAIN b : ~Summarizes(b[n], i)
               /\ \A s, r \in Summaries(i)' : s = r
               /\ \A n, m \in DOMAIN b : Summarizes(b[n], i) /\ Summarizes(b[m], i) => n = m
               /\ Summaries(i)' # {} => \A n \in DOMAIN b : ~Summarizes(b[n], i)
    <3>1. /\ Before(k, Key(i)) => Summaries(i) = {} /\ \A n \in DOMAIN outs : ~Summarizes(outs[n], i)
          /\ \A s, r \in Summaries(i) : s = r
          /\ \A n, m \in DOMAIN outs : Summarizes(outs[n], i) /\ Summarizes(outs[m], i) => n = m
          /\ Summaries(i) # {} => \A n \in DOMAIN outs : ~Summarizes(outs[n], i)
      BY <1>7 DEF Once
    <3>2. Summaries(i)' = IF Summarizes(e, i) THEN Summaries(i) \union {last} ELSE Summaries(i)
      BY <1>5
    <3>3. Before(k, Key(i)) => Summaries(i)' = {} /\ \A n \in DOMAIN b : ~Summarizes(b[n], i)
      BY <1>2, <1>3, <3>1, <3>2
    <3>4. \A s, r \in Summaries(i)' : s = r
      <4>1. Summarizes(e, i) => Summaries(i) = {}
        BY <1>2, <3>1
      <4> QED
        BY <3>1, <3>2, <4>1
    <3>5. \A n, m \in DOMAIN b : Summarizes(b[n], i) /\ Summarizes(b[m], i) => n = m
      <4> SUFFICES ASSUME NEW n \in DOMAIN b, NEW m \in DOMAIN b, Summarizes(b[n], i), Summarizes(b[m], i) PROVE n = m
        OBVIOUS
      <4>1. n + 1 = m + 1
        BY <1>3, <3>1
      <4> QED
        BY <1>3, <4>1
    <3>6. Summaries(i)' # {} => \A n \in DOMAIN b : ~Summarizes(b[n], i)
      <4> SUFFICES ASSUME NEW n \in DOMAIN b, Summarizes(b[n], i) PROVE Summaries(i)' = {}
        OBVIOUS
      <4>1. n + 1 \in DOMAIN outs /\ Summarizes(outs[n + 1], i) /\ n + 1 # 1
        BY <1>3
      <4>2. ~Summarizes(e, i)
        BY <1>2, <3>1, <4>1
      <4>3. Summaries(i) = {}
        BY <3>1, <4>1
      <4> QED
        BY <3>2, <4>2, <4>3
    <3> QED
      BY <3>3, <3>4, <3>5, <3>6
  <2> QED
    BY <1>5, <2>1 DEF Once, Before
<1> QED
  <2>1. (Covered(k, b)' => Covered(k, Tail(outs))') /\ (Once(k, b)' => Once(k, Tail(outs))')
    BY <1>1 DEF Covered, Once
  <2> QED
    BY <1>6, <1>7, <2>1

LEMMA EmitOutputCycle ==
  ASSUME BaseInv, CycleInv, NEW h \in MemoryHandlers, EmitOutput(h)
  PROVE  CycleInv'
<1>1. PICK p \in {"emit", "find_cold"}, q \in Locals, e \in Events :
           /\ local[h].outs \in Seq(Events) /\ local[h].outs # <<>> /\ e = Head(local[h].outs)
           /\ log' = Append(log, e) /\ Move(h, p, q)
           /\ q.outs = Tail(local[h].outs) /\ q.upto = local[h].upto /\ q.kind = "sleep" /\ local[h].kind = "sleep"
           /\ q.upto # Zero
           /\ e.ts <= now /\ e.type \in {"summary", "day", "supersede"}
           /\ \A j \in e.about : j \in DOMAIN log /\ (e.type = "supersede" => log[j].ts <= e.ts)
  BY EmitOutputIs
<1>2. UNCHANGED <<now, blobs, consolidated, again>>
  BY DEF EmitOutput, Goes
<1>3. PICK last : last = Len(log) + 1
  OBVIOUS
<1>4. e.type # "domain" /\ p # "scan"
  BY <1>1
<1>5. \A k, outs : Covered(k, outs) => Covered(k, outs)'
  BY <1>1, <1>2, <1>3, <1>4, CoversStill
<1>6a. PICK k : k = local[h].upto
  OBVIOUS
<1>6b. PICK outs \in Seq(Events) : outs = local[h].outs
  BY <1>1
<1>6. k = local[h].upto /\ outs = local[h].outs /\ outs \in Seq(Events)
  BY <1>6a, <1>6b
<1>7. PICK b : b = Tail(outs)
  OBVIOUS
<1>8. (Covered(k, outs) => Covered(k, b)') /\ (Once(k, outs) => Once(k, b)')
  <2>1. (Covered(k, outs) => Covered(k, Tail(outs))') /\ (Once(k, outs) => Once(k, Tail(outs))')
    BY <1>1, <1>2, <1>3, <1>4, <1>6, EmittedStill
  <2> QED
    BY <1>7, <2>1 DEF Covered, Once
<1>9. \A g \in MemoryHandlers : /\ doing'[g] = IF g = h THEN p ELSE doing[g]
                                /\ local'[g] = IF g = h THEN q ELSE local[g]
  BY <1>1 DEF BaseInv, MemoryTyped, Move
<1>10. q.outs = b /\ q.upto = k /\ k # Zero
  BY <1>1, <1>6, <1>7
<1>11. Covered(consolidated, <<>>)'
  <2>1. PICK c : c = consolidated
    OBVIOUS
  <2>2. Covered(c, <<>>)'
    BY <1>5, <2>1 DEF CycleInv
  <2> QED
    BY <1>2, <2>1, <2>2 DEF Covered
<1>12. Covered(k, outs) /\ (~again => Once(k, outs))
  BY <1>6, <1>10 DEF CycleInv, Cycle
<1>13. ASSUME NEW g \in MemoryHandlers
       PROVE  /\ doing'[g] = "scan" => Covered(local[g].at, <<>>)'
              /\ Cycle(g)' => Covered(local[g].upto, local[g].outs)'
  <2>1. PICK r : r = local'[g]
    OBVIOUS
  <2>2. doing'[g] = "scan" => Covered(r.at, <<>>)
    BY <1>4, <1>9, <2>1 DEF CycleInv
  <2>3. r.upto # Zero => Covered(r.upto, r.outs)'
    <3>1. CASE g = h
      <4>1. r = q /\ Covered(k, b)'
        BY <1>8, <1>9, <1>12, <2>1, <3>1
      <4>2. Covered(r.upto, r.outs)'
        BY <1>10, <4>1 DEF Covered
      <4> QED
        BY <4>2
    <3>2. CASE g # h
      <4>1. r.upto # Zero => Covered(r.upto, r.outs)
        BY <1>9, <2>1, <3>2 DEF CycleInv, Cycle
      <4> QED
        BY <1>5, <4>1
    <3> QED
      BY <3>1, <3>2
  <2>4. doing'[g] = "scan" => Covered(r.at, <<>>)'
    BY <1>5, <2>2
  <2> QED
    BY <2>1, <2>3, <2>4 DEF Covered, Cycle, Zero
<1>14. ASSUME ~again
       PROVE  /\ \A f, g \in MemoryHandlers : local'[f].kind = "sleep" /\ local'[g].kind = "sleep" => f = g
              /\ \A g \in MemoryHandlers : doing'[g] = "scan" => local'[g].at = consolidated'
              /\ \A g \in MemoryHandlers : Cycle(g)' => Once(local[g].upto, local[g].outs)'
              /\ (\E g \in MemoryHandlers : Cycle(g)')
  <2>1. \A g \in MemoryHandlers : g # h => local[g].kind # "sleep" /\ doing[g] # "scan" /\ ~Cycle(g)
    BY <1>1, <1>14, SleepsAlone
  <2>2. \A g \in MemoryHandlers : Cycle(g)' => g = h
    BY <1>9, <2>1 DEF Cycle, Zero
  <2>3. Cycle(h)'
    BY <1>9, <1>10 DEF Cycle, Zero
  <2>4. Once(local[h].upto, local[h].outs)'
    <3>1. Once(k, b)'
      BY <1>8, <1>12, <1>14
    <3>2. local'[h].upto = k /\ local'[h].outs = b
      BY <1>9, <1>10
    <3> QED
      BY <3>1, <3>2 DEF Once
  <2>5. \A g \in MemoryHandlers : local'[g].kind = "sleep" => g = h
    BY <1>9, <2>1
  <2>6. \A g \in MemoryHandlers : doing'[g] # "scan"
    BY <1>4, <1>9, <2>1
  <2> QED
    BY <2>2, <2>3, <2>4, <2>5, <2>6
<1> QED
  BY <1>2, <1>11, <1>13, <1>14 DEF CycleInv

LEMMA CyclesSet ==
  ASSUME MemoryInit, BaseInv
  PROVE  CycleInv
<1>1. consolidated = Zero /\ \A h \in MemoryHandlers : doing[h] = "idle" /\ local[h].upto = Zero /\ local[h].kind = "none"
  BY RestFits DEF MemoryInit, Zero
<1>2. PICK e : e = [ts |-> 0, type |-> "domain", about |-> {}]
  OBVIOUS
<1>3. log = <<e>> /\ e.type = "domain" /\ e.ts = 0
  BY <1>2 DEF MemoryInit
<1>4. DOMAIN log = {1} /\ log[1] = e
  BY <1>3
<1>5. Domain = {1} /\ Summaries(1) = {}
  BY <1>3, <1>4 DEF Domain, Summaries
<1>6. Before(Zero, Key(1))
  BY <1>3, <1>4 DEF Before, Key, Zero
<1>7. PICK none : none = <<>>
  OBVIOUS
<1>8. DOMAIN none = {}
  BY <1>7
<1>9. Covered(Zero, none) /\ Once(Zero, none)
  BY <1>5, <1>6, <1>8 DEF Covered, Once
<1> QED
  BY <1>1, <1>7, <1>9 DEF CycleInv, Cycle

LEMMA CycleRests ==
  ASSUME CycleInv, UNCHANGED <<log, consolidated, doing, local, again>>
  PROVE  CycleInv'
<1>1. \A k, outs : (Covered(k, outs)' <=> Covered(k, outs)) /\ (Once(k, outs)' <=> Once(k, outs))
  BY DEF Covered, Once, Domain, Summaries, Key
<1>2. (Covered(consolidated, <<>>)' <=> Covered(consolidated, <<>>)) /\ (Once(consolidated, <<>>)' <=> Once(consolidated, <<>>))
  BY DEF Covered, Once, Domain, Summaries, Key
<1>3. \A h \in MemoryHandlers : /\ Covered(local[h].at, <<>>)' <=> Covered(local[h].at, <<>>)
                                /\ Covered(local[h].upto, local[h].outs)' <=> Covered(local[h].upto, local[h].outs)
                                /\ Once(local[h].upto, local[h].outs)' <=> Once(local[h].upto, local[h].outs)
                                /\ Cycle(h)' <=> Cycle(h)
  BY DEF Covered, Once, Domain, Summaries, Key, Cycle, Zero
<1> QED
  BY <1>2, <1>3 DEF CycleInv

\* The steps of a handler that leave the cycles, the log and the cursor.
LEMMA QuietCycle ==
  ASSUME BaseInv, CycleInv, NEW h \in MemoryHandlers,
         \/ ReadProjected(h) \/ Fetch(h) \/ Apply(h) \/ WriteProjected(h) \/ Wipe(h) \/ ResetProjected(h)
         \/ FindCold(h) \/ PutBundle(h) \/ Stub(h) \/ ReadTiered(h) \/ Restore(h)
  PROVE  CycleInv'
<1>1. UNCHANGED <<log, consolidated>> /\ again' = again
  BY DEF ReadProjected, Fetch, Apply, WriteProjected, Wipe, ResetProjected, FindCold, PutBundle, Stub, ReadTiered,
         Restore, tables
<1>2. \E p \in Doings, q \in Locals : Move(h, p, q) /\ Plain(h, p, q)
  <2>1. {"fetch", "apply", "write_projected", "promote", "read_consolidated", "idle", "reset", "read_projected", "put",
         "write_consolidated", "stub", "ledger", "restore"} \subseteq Doings
    BY DEF Doings, Projecting
  <2>2. CASE ReadProjected(h)
    BY <2>1, <2>2, ReadProjectedIs
  <2>3. CASE Fetch(h)
    BY <2>1, <2>3, FetchIs
  <2>4. CASE Apply(h)
    BY <2>1, <2>4, ApplyIs
  <2>5. CASE WriteProjected(h)
    BY <2>1, <2>5, WriteProjectedIs
  <2>6. CASE Wipe(h)
    BY <2>1, <2>6, WipeIs
  <2>7. CASE ResetProjected(h)
    BY <2>1, <2>7, ResetProjectedIs
  <2>8. CASE FindCold(h)
    BY <2>1, <2>8, FindColdIs
  <2>9. CASE PutBundle(h)
    BY <2>1, <2>9, PutBundleIs
  <2>10. CASE Stub(h)
    BY <2>1, <2>10, StubIs
  <2>11. CASE ReadTiered(h)
    BY <2>1, <2>11, ReadTieredIs
  <2>12. CASE Restore(h)
    BY <2>1, <2>12, RestoreIs
  <2> QED
    BY <2>2, <2>3, <2>4, <2>5, <2>6, <2>7, <2>8, <2>9, <2>10, <2>11, <2>12
<1>3. PICK p \in Doings, q \in Locals : Move(h, p, q) /\ Plain(h, p, q)
  BY <1>2
<1> QED
  BY <1>1, <1>3, CycleQuiet

LEMMA CycleStep ==
  ASSUME BaseInv, CycleInv, MemoryAssumption, [MemoryNext]_memoryVars
  PROVE  CycleInv'
<1>1. CASE Tick
  BY <1>1, CycleRests DEF Tick, tables
<1>2. CASE DomainEvent
  BY <1>2, DomainEventCycle
<1>3. ASSUME NEW h \in MemoryHandlers, Step(h) PROVE CycleInv'
  BY <1>3, QuietCycle, ReadConsolidatedCycle, ScanCycle, EmitOutputCycle, WriteConsolidatedCycle, LedgerCycle DEF Step
<1>4. ASSUME NEW h \in MemoryHandlers, Crash(h) PROVE CycleInv'
  BY <1>4, CrashCycle
<1>5. ASSUME NEW h \in MemoryHandlers, NEW sort \in {"recall", "sleep", "rebuild", "tier"}, Start(h, sort) PROVE CycleInv'
  BY <1>5, BeginCycle
<1>6. CASE UNCHANGED memoryVars
  BY <1>6, CycleRests DEF memoryVars, tables
<1> QED
  BY <1>1, <1>2, <1>3, <1>4, <1>5, <1>6 DEF MemoryNext

LEMMA OnceIsOnce ==
  ASSUME BaseInv, CycleInv
  PROVE  ConsolidatedOnce
<1>1. PICK none : none = <<>>
  OBVIOUS
<1>2. DOMAIN none = {}
  BY <1>1
<1>3. Covered(consolidated, none) /\ (again \/ \E k, outs : Once(k, outs))
  BY <1>1 DEF CycleInv
<1>4. \A i \in Domain : ~Before(consolidated, Key(i)) => Summaries(i) # {}
  BY <1>2, <1>3 DEF Covered
<1>5. ASSUME ~again, NEW i \in Domain PROVE Cardinality(Summaries(i)) <= 1
  <2>1. \A s, r \in Summaries(i) : s = r
    BY <1>3, <1>5 DEF Once
  <2>2. CASE Summaries(i) = {}
    BY <2>2, FS_EmptySet
  <2>3. CASE Summaries(i) # {}
    <3>1. PICK s : Summaries(i) = {s}
      BY <2>1, <2>3
    <3>2. Cardinality({s}) = 1
      BY FS_Singleton
    <3> QED
      BY <3>1, <3>2
  <2> QED
    BY <2>2, <2>3
<1> QED
  BY <1>4, <1>5 DEF ConsolidatedOnce

THEOREM EventsConsolidatedOnce == MemorySpec => []ConsolidatedOnce
<1>1. MemoryInit => BaseInv /\ CycleInv
  BY MemoryStarts, CyclesSet
<1>2. BaseInv /\ CycleInv /\ [MemoryNext]_memoryVars => BaseInv' /\ CycleInv'
  BY MemoryAssumption, BaseStep, CycleStep
<1>3. BaseInv /\ CycleInv => ConsolidatedOnce
  BY OnceIsOnce
<1> QED
  BY <1>1, <1>2, <1>3, PTL DEF MemorySpec

LEMMA SoundBelow ==
  ASSUME BaseInv, NEW k \in Keys, NEW l \in Keys, Sound(k), ~Before(k, l)
  PROVE  Sound(l)
<1>1. \A i \in DOMAIN log : Key(i) \in Keys
  BY LogType DEF BaseInv, MemoryTyped
<1>2. \A i \in DOMAIN log : ~Before(l, Key(i)) => ~Before(k, Key(i))
  BY <1>1, BeforeIsOrder
<1> QED
  BY <1>2 DEF Sound

\* What a step that leaves the log and who superseded what keeps.
LEMMA SameSound ==
  ASSUME BaseInv, UNCHANGED log, SameNodes, NEW k
  PROVE  /\ Sound(k)' <=> Sound(k)
         /\ Tight(k)' <=> Tight(k)
         /\ \A b : Batched(k, b)' <=> Batched(k, b)
<1>1. \A s, j : IsFirst(s, j)' <=> IsFirst(s, j)
  BY DEF IsFirst, Supersedes, Key, Before
<1>2. Sound(k)' <=> Sound(k)
  BY <1>1 DEF Sound, SameNodes, Key, Before
<1>3. Tight(k)' <=> Tight(k)
  BY DEF Tight, SameNodes, Key, Before
<1>4. \A b : Batched(k, b)' <=> Batched(k, b)
  BY DEF Batched, Key, Before
<1> QED
  BY <1>2, <1>3, <1>4

\* The next state, by what is known of it.
LEMMA ReadHolds ==
  ASSUME disturbed' \/
           /\ \A h, g \in MemoryHandlers : doing'[h] \in Projecting /\ h # g => doing'[g] \notin Folding
           /\ \A h \in MemoryHandlers : doing'[h] = "reset" => DOMAIN nodes' = {}
           /\ \A h \in MemoryHandlers : doing'[h] \in Projecting =>
                \E k, p, k0, b : /\ k = IF doing'[h] = "read_projected" THEN projected' ELSE local'[h].at
                                 /\ p = doing'[h] /\ k0 = local'[h].at /\ b = local'[h].batch
                                 /\ Folded(k, p)' /\ Batched(k0, b)'
           /\ \/ \E h \in MemoryHandlers : doing'[h] \in Projecting \/ doing'[h] = "reset"
              \/ \E k : k = projected' /\ Sound(k)' /\ (half' \/ Tight(k)')
  PROVE  ReadInv'
<1>1. CASE disturbed'
  BY <1>1 DEF ReadInv
<1>2. CASE ~disturbed'
  <2>1. ASSUME NEW h \in MemoryHandlers, doing'[h] \in Projecting
        PROVE  Folded(Reach(h), doing[h])' /\ Batched(local[h].at, local[h].batch)'
    <3>1. PICK k, p, k0, b : /\ k = IF doing'[h] = "read_projected" THEN projected' ELSE local'[h].at
                             /\ p = doing'[h] /\ k0 = local'[h].at /\ b = local'[h].batch
                             /\ Folded(k, p)' /\ Batched(k0, b)'
      BY <1>2, <2>1
    <3>2. Folded(Reach(h), doing[h])'
      <4>1. Reach(h)' = k
        BY <3>1 DEF Reach
      <4> QED
        BY <3>1, <4>1 DEF Folded, Sound, Tight
    <3>3. Batched(local[h].at, local[h].batch)'
      BY <3>1 DEF Batched
    <3> QED
      BY <3>2, <3>3
  <2>2. (\E k : k = projected' /\ Sound(k)' /\ (half' \/ Tight(k)')) => Sound(projected)' /\ (half' \/ Tight(projected)')
    BY DEF Sound, Tight
  <2> QED
    BY <1>2, <2>1, <2>2 DEF ReadInv, Projects, Folding
<1> QED
  BY <1>1, <1>2

\* A step outside the projections.
LEMMA ReadQuiet ==
  ASSUME BaseInv, ReadInv, UNCHANGED <<log, projected, half>>, disturbed => disturbed', SameNodes,
         NEW h \in MemoryHandlers, NEW p, NEW q, Move(h, p, q),
         doing[h] \notin Projecting /\ doing[h] # "reset", p \notin Projecting /\ p # "reset",
         p = "wipe" => disturbed' \/ \A g \in MemoryHandlers : g # h => doing[g] \notin Projecting
  PROVE  ReadInv'
<1>1. \A g \in MemoryHandlers : /\ doing'[g] = IF g = h THEN p ELSE doing[g]
                                /\ local'[g] = IF g = h THEN q ELSE local[g]
  BY DEF BaseInv, MemoryTyped, Move
<1>2. \A k : (Sound(k)' <=> Sound(k)) /\ (Tight(k)' <=> Tight(k)) /\ \A b : Batched(k, b)' <=> Batched(k, b)
  BY SameSound
<1>3. CASE ~disturbed'
  <2>0. ~disturbed
    BY <1>3
  <2>1. \A f, g \in MemoryHandlers : doing'[f] \in Projecting /\ f # g => doing'[g] \notin Folding
    <3> SUFFICES ASSUME NEW f \in MemoryHandlers, NEW g \in MemoryHandlers, doing'[f] \in Projecting, f # g
                 PROVE  doing'[g] \notin Folding
      OBVIOUS
    <3>1. f # h /\ doing[f] \in Projecting
      BY <1>1
    <3>2. CASE g = h
      BY <1>1, <1>3, <3>1, <3>2 DEF Folding
    <3>3. CASE g # h
      BY <1>1, <2>0, <3>1, <3>3 DEF ReadInv, Projects
    <3> QED
      BY <3>2, <3>3
  <2>2. \A g \in MemoryHandlers : doing'[g] = "reset" => DOMAIN nodes' = {}
    BY <1>1, <2>0 DEF ReadInv, SameNodes
  <2>3. ASSUME NEW g \in MemoryHandlers, doing'[g] \in Projecting
        PROVE  \E k, o, k0, b : /\ k = IF doing'[g] = "read_projected" THEN projected' ELSE local'[g].at
                                /\ o = doing'[g] /\ k0 = local'[g].at /\ b = local'[g].batch
                                /\ Folded(k, o)' /\ Batched(k0, b)'
    <3>1. doing'[g] = doing[g] /\ local'[g] = local[g] /\ doing[g] \in Projecting
      BY <1>1, <2>3
    <3>2. PICK k, o, k0, b : k = Reach(g) /\ o = doing[g] /\ k0 = local[g].at /\ b = local[g].batch
      OBVIOUS
    <3>3. Folded(k, o) /\ Batched(k0, b)
      BY <2>0, <3>1, <3>2 DEF ReadInv, Projects
    <3>4. Folded(k, o)' /\ Batched(k0, b)'
      BY <1>2, <3>3 DEF Folded, Before
    <3> QED
      BY <3>1, <3>2, <3>4 DEF Reach
  <2>4. \/ \E g \in MemoryHandlers : doing'[g] \in Projecting \/ doing'[g] = "reset"
        \/ \E k : k = projected' /\ Sound(k)' /\ (half' \/ Tight(k)')
    <3>1. PICK k : k = projected
      OBVIOUS
    <3>2. (\E g \in MemoryHandlers : Projects(g) \/ doing[g] = "reset") \/ (Sound(k) /\ (half \/ Tight(k)))
      BY <2>0, <3>1 DEF ReadInv
    <3> QED
      BY <1>1, <1>2, <3>1, <3>2 DEF Projects
  <2> QED
    BY <2>1, <2>2, <2>3, <2>4, ReadHolds
<1>4. CASE disturbed'
  BY <1>4, ReadHolds
<1> QED
  BY <1>3, <1>4

LEMMA BatchedNone ==
  ASSUME NEW k, NEW b, b = <<>>
  PROVE  Batched(k, b)
<1>1. DOMAIN b = {}
  OBVIOUS
<1> QED
  BY <1>1 DEF Batched

\* A handler comes to a projection.
LEMMA ReadEnters ==
  ASSUME BaseInv, ReadInv, UNCHANGED <<log, nodes, half>>, NEW h \in MemoryHandlers, Project(h), NEW q,
         Move(h, "read_projected", q), q.batch = <<>>, NEW k \in Keys, k = projected',
         ~disturbed' => Sound(k) /\ (half \/ Tight(k))
  PROVE  ReadInv'
<1>1. \A g \in MemoryHandlers : /\ doing'[g] = IF g = h THEN "read_projected" ELSE doing[g]
                                /\ local'[g] = IF g = h THEN q ELSE local[g]
  BY DEF BaseInv, MemoryTyped, Move
<1>2. SameNodes
  BY DEF SameNodes
<1>3. (Sound(k)' <=> Sound(k)) /\ (Tight(k)' <=> Tight(k))
  BY <1>2, SameSound
<1>4. CASE ~disturbed'
  <2>1. \A g \in MemoryHandlers : g # h => doing[g] \notin Folding
    BY <1>4 DEF Project, Others, Folding
  <2>2. "read_projected" \in Projecting /\ "reset" \in Folding /\ Projecting \subseteq Folding
    BY DEF Projecting, Folding
  <2>3. \A f, g \in MemoryHandlers : doing'[f] \in Projecting /\ f # g => doing'[g] \notin Folding
    BY <1>1, <2>1, <2>2
  <2>4. \A g \in MemoryHandlers : doing'[g] # "reset"
    BY <1>1, <2>1, <2>2
  <2>5. Folded(k, "read_projected")'
    <3>1. ~Before(k, k)
      BY BeforeIsOrder
    <3> QED
      BY <1>3, <1>4, <3>1 DEF Folded
  <2>6. ASSUME NEW g \in MemoryHandlers, doing'[g] \in Projecting
        PROVE  \E l, o, k0, b : /\ l = IF doing'[g] = "read_projected" THEN projected' ELSE local'[g].at
                                /\ o = doing'[g] /\ k0 = local'[g].at /\ b = local'[g].batch
                                /\ Folded(l, o)' /\ Batched(k0, b)'
    <3>1. g = h
      BY <1>1, <2>1, <2>2, <2>6
    <3>2. PICK k0, b : k0 = local'[g].at /\ b = local'[g].batch
      OBVIOUS
    <3>3. b = <<>> /\ doing'[g] = "read_projected"
      BY <1>1, <3>1, <3>2
    <3>4. Batched(k0, b)'
      <4>1. DOMAIN b = {}
        BY <3>3
      <4> QED
        BY <3>3, <4>1 DEF Batched
    <3> QED
      BY <2>5, <3>2, <3>3, <3>4
  <2>7. \E g \in MemoryHandlers : doing'[g] \in Projecting
    BY <1>1, <2>2
  <2> QED
    BY <2>3, <2>4, <2>6, <2>7, ReadHolds
<1>5. CASE disturbed'
  BY <1>5, ReadHolds
<1> QED
  BY <1>4, <1>5

\* A handler that comes to a projection from elsewhere finds the nodes sound.
LEMMA FindsSound ==
  ASSUME BaseInv, ReadInv, NEW h \in MemoryHandlers, Project(h), doing[h] \notin Folding, ~disturbed'
  PROVE  Sound(projected) /\ (half \/ Tight(projected))
<1>1. ~disturbed /\ \A g \in MemoryHandlers : doing[g] \notin Folding
  BY DEF Project, Others, Folding
<1>2. \A g \in MemoryHandlers : ~Projects(g) /\ doing[g] # "reset"
  BY <1>1 DEF Projects, Folding
<1> QED
  BY <1>1, <1>2 DEF ReadInv

LEMMA BeginRead ==
  ASSUME BaseInv, ReadInv, NEW h \in MemoryHandlers, NEW sort \in {"recall", "sleep", "rebuild", "tier"}, Start(h, sort)
  PROVE  ReadInv'
<1>1. PICK p \in {"read_projected", "wipe", "find_cold"}, q \in Locals :
           /\ Move(h, p, q) /\ q.batch = <<>>
           /\ p = "read_projected" => Project(h)
           /\ p = "wipe" => disturbed' = (disturbed \/ \E g \in Others(h) : doing[g] \in Projecting)
           /\ p = "find_cold" => disturbed' = disturbed
  BY BeginIs
<1>2. UNCHANGED <<log, nodes, projected, half>> /\ doing[h] = "idle"
  BY DEF Start, tables
<1>3. "idle" \notin Folding /\ Projecting \subseteq Folding /\ {"wipe", "find_cold"} \intersect Projecting = {}
  BY DEF Folding, Projecting
<1>4. CASE p = "read_projected"
  <2>1. PICK k \in Keys : k = projected
    BY BaseHolds
  <2>2. ~disturbed' => Sound(k) /\ (half \/ Tight(k))
    BY <1>1, <1>2, <1>3, <1>4, <2>1, FindsSound
  <2>3. Project(h) /\ Move(h, "read_projected", q) /\ k = projected'
    BY <1>1, <1>2, <1>4, <2>1
  <2> QED
    BY <1>1, <1>2, <2>2, <2>3, ReadEnters
<1>5. CASE p # "read_projected"
  <2>1. SameNodes
    BY <1>2 DEF SameNodes
  <2>2. (disturbed => disturbed') /\ (p = "wipe" => disturbed' \/ \A g \in MemoryHandlers : g # h => doing[g] \notin Projecting)
    <3>1. CASE p = "wipe"
      <4>1. disturbed' = (disturbed \/ \E g \in Others(h) : doing[g] \in Projecting)
        BY <1>1, <3>1
      <4> QED
        BY <4>1, Zenon DEF Others
    <3>2. CASE p = "find_cold"
      BY <1>1, <3>2
    <3> QED
      BY <1>1, <1>5, <3>1, <3>2
  <2>3. doing[h] \notin Projecting /\ doing[h] # "reset" /\ p \notin Projecting /\ p # "reset"
    BY <1>1, <1>2, <1>3, <1>5
  <2> QED
    BY <1>1, <1>2, <2>1, <2>2, <2>3, ReadQuiet
<1> QED
  BY <1>4, <1>5

LEMMA WriteConsolidatedRead ==
  ASSUME BaseInv, ReadInv, NEW h \in MemoryHandlers, WriteConsolidated(h)
  PROVE  ReadInv'
<1>1. PICK q \in Locals : Move(h, "read_projected", q) /\ q.batch = <<>>
  BY WriteConsolidatedIs
<1>2. UNCHANGED <<log, nodes, projected, half>> /\ doing[h] = "write_consolidated" /\ Project(h)
  BY DEF WriteConsolidated
<1>3. "write_consolidated" \notin Folding
  BY DEF Folding, Projecting
<1>4. PICK k \in Keys : k = projected
  BY BaseHolds
<1>5. ~disturbed' => Sound(k) /\ (half \/ Tight(k))
  BY <1>2, <1>3, <1>4, FindsSound
<1> QED
  BY <1>1, <1>2, <1>4, <1>5, ReadEnters

LEMMA ResetProjectedRead ==
  ASSUME BaseInv, ReadInv, NEW h \in MemoryHandlers, ResetProjected(h)
  PROVE  ReadInv'
<1>1. PICK q \in Locals : Move(h, "read_projected", q) /\ LocalFits("read_projected", q)
  BY ResetProjectedIs
<1>2. UNCHANGED <<log, nodes, half>> /\ doing[h] = "reset" /\ Project(h) /\ projected' = Zero
  BY DEF ResetProjected, Zero
<1>3. q.batch = <<>>
  BY <1>1 DEF LocalFits
<1>4. PICK k \in Keys : k = Zero
  BY DEF Zero, Keys
<1>5. ASSUME ~disturbed' PROVE Sound(k) /\ Tight(k)
  <2>1. DOMAIN nodes = {}
    BY <1>2, <1>5 DEF ReadInv, Project
  <2>2. \A j \in DOMAIN log : log[j].ts \in Nat /\ j \in Nat /\ j >= 1
    BY LogType, LocalIs
  <2>3. \A j \in DOMAIN log : Before(k, Key(j))
    BY <1>4, <2>2 DEF Before, Key, Zero
  <2> QED
    BY <2>1, <2>3 DEF Sound, Tight
<1> QED
  BY <1>1, <1>2, <1>3, <1>4, <1>5, ReadEnters

LEMMA QuietRead ==
  ASSUME BaseInv, MemoryAssumption, ReadInv, NEW h \in MemoryHandlers,
         \/ ReadConsolidated(h) \/ ScanSettled(h) \/ FindCold(h) \/ PutBundle(h) \/ Stub(h) \/ ReadTiered(h) \/ Restore(h)
  PROVE  ReadInv'
<1>1. UNCHANGED <<log, projected, half, disturbed>>
  BY DEF ReadConsolidated, ScanSettled, FindCold, PutBundle, Stub, ReadTiered, Restore, tables
<1>2. SameNodes
  <2>1. CASE Stub(h)
    BY <2>1, StubNodes
  <2>2. CASE Restore(h)
    BY <2>2, RestoreNodes
  <2>3. CASE ~Stub(h) /\ ~Restore(h)
    BY <2>3 DEF ReadConsolidated, ScanSettled, FindCold, PutBundle, ReadTiered, tables, SameNodes
  <2> QED
    BY <2>1, <2>2, <2>3
<1>3. doing[h] \in {"read_consolidated", "scan", "find_cold", "put", "stub", "promote", "restore"}
  BY DEF ReadConsolidated, ScanSettled, FindCold, PutBundle, Stub, ReadTiered, Restore
<1>4. \E p \in {"scan", "idle", "emit", "put", "write_consolidated", "stub", "ledger", "restore"}, q \in Locals : Move(h, p, q)
  <2>1. CASE ReadConsolidated(h)
    BY <2>1, ReadConsolidatedIs
  <2>2. CASE ScanSettled(h)
    BY <2>2, ScanIs, EndsIs
  <2>3. CASE FindCold(h)
    BY <2>3, FindColdIs
  <2>4. CASE PutBundle(h)
    BY <2>4, PutBundleIs
  <2>5. CASE Stub(h)
    BY <2>5, StubIs
  <2>6. CASE ReadTiered(h)
    BY <2>6, ReadTieredIs
  <2>7. CASE Restore(h)
    BY <2>7, RestoreIs
  <2> QED
    BY <2>1, <2>2, <2>3, <2>4, <2>5, <2>6, <2>7
<1>5. PICK p \in {"scan", "idle", "emit", "put", "write_consolidated", "stub", "ledger", "restore"}, q \in Locals : Move(h, p, q)
  BY <1>4
<1>6. doing[h] \notin Projecting /\ doing[h] # "reset" /\ p \notin Projecting /\ p # "reset" /\ p # "wipe"
  BY <1>3, <1>5 DEF Projecting
<1> QED
  BY <1>1, <1>2, <1>5, <1>6, ReadQuiet

\* A step of a handler h that is in a projection: only h, and the others are not in one.
LEMMA ReadProjects ==
  ASSUME BaseInv, ReadInv, UNCHANGED log, disturbed' = disturbed,
         NEW h \in MemoryHandlers, Projects(h), NEW p, NEW q, Move(h, p, q), p # "wipe", p # "reset",
         NEW k, k = (IF p = "read_projected" THEN projected' ELSE q.at),
         ~disturbed /\ p \in Projecting => Folded(k, p)' /\ Batched(q.at, q.batch)',
         NEW l, l = projected',
         ~disturbed /\ p \notin Projecting => Sound(l)' /\ (half' \/ Tight(l)')
  PROVE  ReadInv'
<1>1. \A g \in MemoryHandlers : /\ doing'[g] = IF g = h THEN p ELSE doing[g]
                                /\ local'[g] = IF g = h THEN q ELSE local[g]
  BY DEF BaseInv, MemoryTyped, Move
<1>2. CASE ~disturbed
  <2>1. \A g \in MemoryHandlers : g # h => doing[g] \notin Folding
    BY <1>2 DEF ReadInv
  <2>2. Projecting \subseteq Folding /\ "reset" \in Folding
    BY DEF Folding
  <2>3. \A f, g \in MemoryHandlers : doing'[f] \in Projecting /\ f # g => doing'[g] \notin Folding
    BY <1>1, <2>1, <2>2
  <2>4. \A g \in MemoryHandlers : doing'[g] # "reset"
    BY <1>1, <2>1, <2>2
  <2>5. ASSUME NEW g \in MemoryHandlers, doing'[g] \in Projecting
        PROVE  \E m, o, k0, b : /\ m = IF doing'[g] = "read_projected" THEN projected' ELSE local'[g].at
                                /\ o = doing'[g] /\ k0 = local'[g].at /\ b = local'[g].batch
                                /\ Folded(m, o)' /\ Batched(k0, b)'
    <3>1. g = h /\ doing'[g] = p /\ local'[g] = q /\ p \in Projecting
      BY <1>1, <2>1, <2>2, <2>5
    <3>2. PICK k0, b : k0 = q.at /\ b = q.batch
      OBVIOUS
    <3>3. Folded(k, p)' /\ Batched(k0, b)'
      <4>1. Folded(k, p)' /\ Batched(q.at, q.batch)'
        BY <1>2, <3>1
      <4> QED
        BY <3>2, <4>1 DEF Batched
    <3> QED
      BY <3>1, <3>2, <3>3
  <2>6. \/ \E g \in MemoryHandlers : doing'[g] \in Projecting \/ doing'[g] = "reset"
        \/ \E m : m = projected' /\ Sound(m)' /\ (half' \/ Tight(m)')
    BY <1>1, <1>2
  <2> QED
    BY <2>3, <2>4, <2>5, <2>6, ReadHolds
<1>3. CASE disturbed
  BY <1>3, ReadHolds
<1> QED
  BY <1>2, <1>3

\* What a handler in a projection has.
LEMMA ReadHas ==
  ASSUME BaseInv, ReadInv, ~disturbed, NEW h \in MemoryHandlers, Projects(h), NEW k, k = Reach(h)
  PROVE  /\ k \in Keys /\ Folded(k, doing[h]) /\ Batched(local[h].at, local[h].batch)
         /\ doing[h] # "read_projected" => k = local[h].at
<1>1. projected \in Keys /\ local[h].at \in Keys
  BY BaseHolds, LocalIs DEF Locals
<1> QED
  BY <1>1 DEF ReadInv, Reach

LEMMA ReadProjectedRead ==
  ASSUME BaseInv, ReadInv, NEW h \in MemoryHandlers, ReadProjected(h)
  PROVE  ReadInv'
<1>1. PICK q \in Locals : Move(h, "fetch", q) /\ q.at = projected /\ q.batch = <<>>
  BY ReadProjectedIs
<1>2. UNCHANGED <<log, nodes, projected, half, disturbed>> /\ doing[h] = "read_projected"
  BY DEF ReadProjected, tables
<1>3. Projects(h) /\ "fetch" \in Projecting
  BY <1>2 DEF Projects, Projecting
<1>4. PICK k : k = projected
  OBVIOUS
<1>5. ASSUME ~disturbed PROVE Folded(k, "fetch")' /\ Batched(q.at, q.batch)'
  <2>1. Folded(k, "read_projected")
    BY <1>2, <1>3, <1>4, <1>5, ReadHas DEF Reach
  <2>2. SameNodes
    BY <1>2 DEF SameNodes
  <2>3. Folded(k, "fetch")'
    BY <1>2, <2>1, <2>2, SameSound DEF Folded
  <2>4. PICK b : b = q.batch
    OBVIOUS
  <2>5. DOMAIN b = {} /\ b = <<>>
    BY <1>1, <2>4
  <2> QED
    BY <2>3, <2>4, <2>5 DEF Batched
<1> QED
  BY <1>1, <1>2, <1>3, <1>4, <1>5, ReadProjects

LEMMA FetchRead ==
  ASSUME BaseInv, ReadInv, NEW h \in MemoryHandlers, Fetch(h)
  PROVE  ReadInv'
<1>1. PICK p \in {"apply", "write_projected"}, q \in Locals :
           /\ Move(h, p, q)
           /\ q.at = local[h].at /\ q.batch = After(local[h].at)
           /\ p = "write_projected" <=> Past(local[h].at) = {}
  BY FetchIs
<1>2. UNCHANGED <<log, nodes, projected, half, disturbed>> /\ doing[h] = "fetch"
  BY DEF Fetch, tables
<1>3. Projects(h) /\ p \in Projecting /\ p # "read_projected"
  BY <1>1, <1>2 DEF Projects, Projecting
<1>4. PICK k : k = local[h].at
  OBVIOUS
<1>5. ASSUME ~disturbed PROVE Folded(k, p)' /\ Batched(q.at, q.batch)'
  <2>1. Folded(k, "fetch")
    BY <1>2, <1>3, <1>4, <1>5, ReadHas DEF Reach
  <2>2. SameNodes
    BY <1>2 DEF SameNodes
  <2>3. p = "write_projected" => Tight(k)
    <3>1. ASSUME Past(k) = {} PROVE Tight(k)
      <4>1. \A i \in DOMAIN log : ~Before(k, Key(i))
        BY <3>1 DEF Past
      <4>2. \A j \in DOMAIN nodes : j \in DOMAIN log /\ (nodes[j].by = 0 \/ nodes[j].by \in DOMAIN log)
        BY <2>1, BaseHolds DEF Folded, Sound, IsFirst, NodesTyped
      <4> QED
        BY <4>1, <4>2 DEF Tight
    <3> QED
      BY <1>1, <1>4, <3>1
  <2>4. Folded(k, p)'
    BY <1>2, <2>1, <2>2, <2>3, SameSound DEF Folded
  <2>5. PICK b : b = After(k)
    OBVIOUS
  <2>6. Batched(k, b)
    <3>1. log \in Seq(Events) /\ Past(k) \subseteq DOMAIN log
      BY LocalIs DEF Past
    <3>2. /\ Range(b) = Past(k) /\ \A n \in DOMAIN b : b[n] \in Past(k)
          /\ \A n, m \in DOMAIN b : n < m => Before(Key(b[n]), Key(b[m]))
      BY <2>5, <3>1, InOrderIs DEF After
    <3> QED
      BY <3>2 DEF Batched, Past
  <2>7. Batched(k, b)'
    BY <1>2, <2>2, <2>6, SameSound
  <2> QED
    BY <1>1, <1>4, <2>4, <2>5, <2>7 DEF Batched
<1>6. k = (IF p = "read_projected" THEN projected' ELSE q.at)
  BY <1>1, <1>3, <1>4
<1>7. p # "wipe" /\ p # "reset"
  BY <1>1
<1> QED
  BY <1>1, <1>2, <1>3, <1>5, <1>6, <1>7, ReadProjects

LEMMA FirstSupersedes ==
  ASSUME BaseInv, NEW j
  PROVE  /\ \A s \in DOMAIN log : Supersedes(s, j) => \E f \in DOMAIN log : IsFirst(f, j) /\ (f = s \/ Before(Key(f), Key(s)))
         /\ \A s, r : IsFirst(s, j) /\ IsFirst(r, j) => s = r
<1>1. log \in Seq(Events)
  BY DEF BaseInv, MemoryTyped
<1>2. PICK T : T = {s \in DOMAIN log : Supersedes(s, j)}
  OBVIOUS
<1>3. ASSUME NEW s \in DOMAIN log, Supersedes(s, j)
      PROVE  \E f \in DOMAIN log : IsFirst(f, j) /\ (f = s \/ Before(Key(f), Key(s)))
  <2>1. T \subseteq DOMAIN log /\ s \in T
    BY <1>2, <1>3
  <2>2. PICK f \in T : \A r \in T : r = f \/ Before(Key(f), Key(r))
    BY <1>1, <2>1, FirstOf
  <2> QED
    BY <1>2, <2>1, <2>2 DEF IsFirst
<1>4. \A s, r : IsFirst(s, j) /\ IsFirst(r, j) => s = r
  <2>1. \A s, r \in DOMAIN log : Before(Key(s), Key(r)) => ~Before(Key(r), Key(s))
    BY <1>1, LogType, BeforeIsOrder
  <2> QED
    BY <2>1 DEF IsFirst
<1> QED
  BY <1>3, <1>4

\* The next event of the log, folded into sound nodes.
LEMMA AppliedSound ==
  ASSUME BaseInv, NEW i \in DOMAIN log, NEW k \in Keys, NEW l, l = Key(i), Before(k, l),
         \A j \in DOMAIN log : Before(k, Key(j)) /\ ~Before(l, Key(j)) => j = i,
         Sound(k), UNCHANGED log, nodes' = Applied(nodes, i)
  PROVE  Sound(l)' /\ (Tight(k) => Tight(l)')
<1>1. log \in Seq(Events) /\ l \in Keys /\ \A j \in DOMAIN log : Key(j) \in Keys /\ j # 0 /\ log[j].type \in Types
  BY LogType DEF BaseInv, MemoryTyped, Events
<1>2. PICK f : f = Applied(nodes, i)
  OBVIOUS
<1>3. /\ DOMAIN nodes \subseteq DOMAIN f /\ DOMAIN f \subseteq DOMAIN log
      /\ \A j \in DOMAIN f : j \notin DOMAIN nodes => j = i
      /\ log[i].type \in NodeTypes => i \in DOMAIN f /\ f[i].by = 0 /\ \A j \in DOMAIN nodes : j # i => f[j] = nodes[j]
      /\ log[i].type \notin NodeTypes => DOMAIN f = DOMAIN nodes
      /\ log[i].type = "supersede" =>
           \A j \in DOMAIN nodes : f[j].by = IF j \in log[i].about /\ nodes[j].by = 0 THEN i ELSE nodes[j].by
      /\ log[i].type = "ledger" => f = nodes
      /\ i \in DOMAIN f => log[i].type \in NodeTypes \/ i \in DOMAIN nodes
  BY <1>2, AppliedTyped
<1>4. \A j \in DOMAIN log : ~Before(l, Key(j)) => j = i \/ ~Before(k, Key(j))
  OBVIOUS
<1>5. /\ \A j \in DOMAIN log : log[j].type \in NodeTypes /\ ~Before(k, Key(j)) => j \in DOMAIN nodes
      /\ \A j \in DOMAIN nodes : /\ log[j].type \in NodeTypes
                                 /\ nodes[j].by = 0 \/ IsFirst(nodes[j].by, j)
                                 /\ \A s \in DOMAIN log : IsFirst(s, j) /\ ~Before(k, Key(s)) => nodes[j].by = s
  BY DEF Sound
<1>6. ~Before(l, l) /\ \A m \in Keys : ~Before(k, m) => ~Before(l, m)
  BY <1>1, BeforeIsOrder
<1>7. \A j \in DOMAIN log : log[j].type \in NodeTypes /\ ~Before(l, Key(j)) => j \in DOMAIN f
  BY <1>3, <1>4, <1>5
<1>8. ASSUME NEW j \in DOMAIN f
      PROVE  /\ log[j].type \in NodeTypes
             /\ f[j].by = 0 \/ IsFirst(f[j].by, j)
             /\ \A s \in DOMAIN log : IsFirst(s, j) /\ ~Before(l, Key(s)) => f[j].by = s
             /\ f[j].by = 0 \/ f[j].by = i \/ (j \in DOMAIN nodes /\ f[j].by = nodes[j].by)
  <2>1. log[j].type \in NodeTypes
    BY <1>3, <1>5
  <2>2. CASE log[i].type \in NodeTypes
    <3>1. \A s \in DOMAIN log : IsFirst(s, j) => s # i
      BY <2>2 DEF IsFirst, Supersedes, NodeTypes
    <3>2. CASE j = i
      <4>1. \A s \in DOMAIN log : IsFirst(s, j) => Before(l, Key(s))
        BY <3>2 DEF IsFirst, Supersedes, BaseInv, LogHolds
      <4> QED
        BY <1>3, <2>1, <2>2, <3>2, <4>1
    <3>3. CASE j # i
      BY <1>3, <1>4, <1>5, <2>1, <2>2, <3>1, <3>3
    <3> QED
      BY <3>2, <3>3
  <2>3. CASE log[i].type = "supersede"
    <3>1. j \in DOMAIN nodes /\ f[j].by = IF j \in log[i].about /\ nodes[j].by = 0 THEN i ELSE nodes[j].by
      BY <1>3, <2>3 DEF NodeTypes
    <3>2. CASE j \in log[i].about /\ nodes[j].by = 0
      <4>1. PICK s \in DOMAIN log : IsFirst(s, j) /\ (s = i \/ Before(Key(s), Key(i)))
        BY <2>3, <3>2, FirstSupersedes DEF Supersedes
      <4>2. Before(k, Key(s))
        BY <1>1, <1>5, <3>1, <3>2, <4>1
      <4>3. s = i
        <5>1. Before(Key(s), l) => ~Before(l, Key(s))
          BY <1>1, BeforeIsOrder
        <5> QED
          BY <4>1, <4>2, <5>1
      <4>4. IsFirst(i, j) /\ f[j].by = i
        BY <3>1, <3>2, <4>1, <4>3
      <4> QED
        BY <2>1, <4>4, FirstSupersedes
    <3>3. CASE ~(j \in log[i].about /\ nodes[j].by = 0)
      <4>1. f[j].by = nodes[j].by
        BY <3>1, <3>3
      <4>2. ASSUME NEW s \in DOMAIN log, IsFirst(s, j), ~Before(l, Key(s)) PROVE nodes[j].by = s
        <5>1. CASE s = i
          <6>1. IsFirst(nodes[j].by, j)
            BY <1>5, <3>1, <3>3, <4>2, <5>1 DEF IsFirst, Supersedes
          <6> QED
            BY <4>2, <6>1, FirstSupersedes
        <5>2. CASE s # i
          BY <1>4, <1>5, <3>1, <4>2, <5>2
        <5> QED
          BY <5>1, <5>2
      <4> QED
        BY <1>5, <2>1, <3>1, <4>1, <4>2
    <3> QED
      BY <3>2, <3>3
  <2>4. CASE log[i].type = "ledger"
    <3>1. f = nodes
      BY <1>3, <2>4
    <3>2. \A s \in DOMAIN log : IsFirst(s, j) => s # i
      BY <2>4 DEF IsFirst, Supersedes
    <3> QED
      BY <1>4, <1>5, <3>1, <3>2
  <2>5. log[i].type \in NodeTypes \/ log[i].type = "supersede" \/ log[i].type = "ledger"
    BY <1>1 DEF Types, NodeTypes
  <2> QED
    BY <2>2, <2>3, <2>4, <2>5
<1>9. nodes' = f /\ \A s, j : IsFirst(s, j)' <=> IsFirst(s, j)
  BY <1>2 DEF IsFirst, Supersedes, Key, Before
<1>10. Sound(l)'
  BY <1>7, <1>8, <1>9 DEF Sound, Key, Before
<1>11. ASSUME Tight(k) PROVE Tight(l)'
  <2>1. \A j \in DOMAIN nodes : ~Before(l, Key(j)) /\ (nodes[j].by # 0 => ~Before(l, Key(nodes[j].by)))
    <3>1. \A j \in DOMAIN nodes : j \in DOMAIN log /\ (nodes[j].by # 0 => nodes[j].by \in DOMAIN log)
      BY <1>5, BaseHolds DEF IsFirst, NodesTyped
    <3> QED
      BY <1>1, <1>6, <1>11, <3>1 DEF Tight
  <2>2. \A j \in DOMAIN f : ~Before(l, Key(j)) /\ (f[j].by # 0 => ~Before(l, Key(f[j].by)))
    BY <1>3, <1>6, <1>8, <2>1
  <2> QED
    BY <1>9, <2>2 DEF Tight, Key, Before
<1> QED
  BY <1>10, <1>11

\* What is left of a batch.
LEMMA BatchedOn ==
  ASSUME BaseInv, NEW k \in Keys, NEW b \in Seq(DOMAIN log), b # <<>>, Batched(k, b), NEW i, i = Head(b)
  PROVE  /\ i \in DOMAIN log /\ Before(k, Key(i))
         /\ \A j \in DOMAIN log : Before(k, Key(j)) /\ ~Before(Key(i), Key(j)) => j = i
         /\ Batched(Key(i), Tail(b))
<1>1. PICK t : t = Tail(b)
  OBVIOUS
<1>2. /\ i \in DOMAIN log /\ t \in Seq(DOMAIN log) /\ Len(b) \in Nat /\ Len(b) >= 1 /\ i = b[1] /\ Len(t) = Len(b) - 1
      /\ \A n \in 1..(Len(b) - 1) : t[n] = b[n + 1] /\ n + 1 \in 1..Len(b)
  BY <1>1, Rest
<1>3. DOMAIN b = 1..Len(b) /\ DOMAIN t = 1..(Len(b) - 1) /\ 1 \in DOMAIN b /\ Len(b) \in DOMAIN b
      /\ \A n \in DOMAIN b : b[n] \in DOMAIN log
  BY <1>2
<1>4. \A m, n \in DOMAIN log : Key(m) \in Keys /\ (Before(Key(m), Key(n)) => ~Before(Key(n), Key(m)))
      /\ (m = n \/ Before(Key(m), Key(n)) \/ Before(Key(n), Key(m)))
  BY LogType, BeforeIsOrder, KeysInOrder DEF BaseInv, MemoryTyped
<1>5. /\ \A n \in DOMAIN b : Before(k, Key(b[n]))
      /\ \A n, m \in DOMAIN b : n < m => Before(Key(b[n]), Key(b[m]))
      /\ \A j \in DOMAIN log : Before(k, Key(j)) /\ ~Before(Key(b[Len(b)]), Key(j)) => \E n \in DOMAIN b : b[n] = j
  BY DEF Batched, Last, Range
<1>6. \A n \in DOMAIN b : n = 1 \/ (n > 1 /\ Before(Key(i), Key(b[n])))
  BY <1>2, <1>3, <1>5
<1>7. \A j \in DOMAIN log : Before(k, Key(j)) /\ ~Before(Key(i), Key(j)) => j = i
  <2> SUFFICES ASSUME NEW j \in DOMAIN log, Before(k, Key(j)), ~Before(Key(i), Key(j)) PROVE j = i
    OBVIOUS
  <2>1. ~Before(Key(b[Len(b)]), Key(j))
    <3>1. b[Len(b)] = i \/ Before(Key(i), Key(b[Len(b)]))
      BY <1>2, <1>3, <1>6
    <3>2. i \in DOMAIN log /\ b[Len(b)] \in DOMAIN log
      BY <1>2, <1>3
    <3>3. Key(i) \in Keys /\ Key(b[Len(b)]) \in Keys /\ Key(j) \in Keys
      BY <1>4, <3>2
    <3> QED
      BY <3>1, <3>3, BeforeIsOrder
  <2>2. PICK n \in DOMAIN b : b[n] = j
    BY <1>5, <2>1
  <2> QED
    BY <1>2, <1>6, <2>2
<1>8. Batched(Key(i), t)
  <2>1. \A n \in DOMAIN t : Before(Key(i), Key(t[n]))
    BY <1>2, <1>3, <1>6
  <2>2. ASSUME NEW n \in DOMAIN t, NEW m \in DOMAIN t, n < m PROVE Before(Key(t[n]), Key(t[m]))
    <3>1. t[n] = b[n + 1] /\ t[m] = b[m + 1] /\ n + 1 \in DOMAIN b /\ m + 1 \in DOMAIN b
      BY <1>2, <1>3
    <3>2. n + 1 < m + 1
      BY <1>2, <1>3, <2>2
    <3> QED
      BY <1>5, <3>1, <3>2
  <2>3. ASSUME t # <<>>, NEW j \in DOMAIN log, Before(Key(i), Key(j)), ~Before(Key(Last(t)), Key(j)) PROVE j \in Range(t)
    <3>1. Len(t) \in Nat /\ Len(t) >= 1 /\ Len(b) - 1 \in 1..(Len(b) - 1)
      BY <1>2, <2>3
    <3>2. Last(t) = b[Len(b)]
      BY <1>2, <3>1 DEF Last
    <3>3. Before(k, Key(j))
      <4>1. Before(k, Key(i))
        BY <1>2, <1>3, <1>5
      <4> QED
        BY <1>2, <1>4, <2>3, <4>1, BeforeIsOrder
    <3>4. PICK n \in DOMAIN b : b[n] = j
      BY <1>5, <2>3, <3>2, <3>3
    <3>5. n # 1
      BY <1>2, <1>4, <2>3, <3>4
    <3>6. n - 1 \in 1..(Len(b) - 1) /\ (n - 1) + 1 = n
      BY <1>3, <3>4, <3>5
    <3>7. t[n - 1] = j /\ n - 1 \in DOMAIN t
      BY <1>2, <1>3, <3>4, <3>6
    <3> QED
      BY <3>7 DEF Range
  <2> QED
    BY <2>1, <2>2, <2>3 DEF Batched
<1> QED
  BY <1>1, <1>2, <1>3, <1>5, <1>7, <1>8

LEMMA ApplyRead ==
  ASSUME BaseInv, ReadInv, NEW h \in MemoryHandlers, Apply(h)
  PROVE  ReadInv'
<1>1. PICK p \in {"apply", "fetch"}, q \in Locals, i \in DOMAIN log :
           /\ local[h].batch # <<>> /\ i = Head(local[h].batch) /\ nodes' = Applied(nodes, i)
           /\ Move(h, p, q)
           /\ q.at = Key(i) /\ q.batch = Tail(local[h].batch)
  BY ApplyIs
<1>2. UNCHANGED <<log, projected, half, disturbed>> /\ doing[h] = "apply"
  BY DEF Apply
<1>3. Projects(h) /\ p # "read_projected" /\ p # "write_projected" /\ p # "wipe" /\ p # "reset"
  BY <1>1, <1>2 DEF Projects, Projecting
<1>4. PICK l \in Keys : l = Key(i)
  BY LogType, LocalIs
<1>5. PICK k \in Keys, b \in Seq(DOMAIN log) : k = local[h].at /\ b = local[h].batch
  BY LocalIs DEF Locals, LocalFits
<1>6. ASSUME ~disturbed PROVE Folded(l, p)' /\ Batched(q.at, q.batch)'
  <2>1. Folded(k, "apply") /\ Batched(k, b)
    BY <1>2, <1>3, <1>5, <1>6, ReadHas DEF Reach
  <2>2. b # <<>> /\ i = Head(b)
    BY <1>1, <1>5
  <2>3. /\ Before(k, l) /\ \A j \in DOMAIN log : Before(k, Key(j)) /\ ~Before(l, Key(j)) => j = i
        /\ Batched(l, Tail(b))
    BY <1>4, <2>1, <2>2, BatchedOn
  <2>4. Sound(k)
    BY <2>1 DEF Folded
  <2>5. Sound(l)' /\ (Tight(k) => Tight(l)')
    BY <1>1, <1>2, <1>4, <2>3, <2>4, AppliedSound
  <2>6. ~Before(l, projected)
    <3>1. projected \in Keys /\ ~Before(k, projected)
      BY <2>1, BaseHolds DEF Folded
    <3> QED
      BY <2>3, <3>1, BeforeIsOrder
  <2>7. Folded(l, p)'
    BY <1>2, <1>3, <2>1, <2>5, <2>6 DEF Folded
  <2>8. PICK t : t = Tail(b)
    OBVIOUS
  <2>9. Batched(l, t)'
    <3>1. Batched(l, t)
      BY <2>3, <2>8
    <3> QED
      BY <1>2, <3>1 DEF Batched, Key, Before
  <2> QED
    BY <1>1, <1>4, <1>5, <2>7, <2>8, <2>9 DEF Batched
<1>7. l = (IF p = "read_projected" THEN projected' ELSE q.at)
  BY <1>1, <1>3, <1>4
<1>8. p \in Projecting
  BY <1>1 DEF Projecting
<1> QED
  BY <1>1, <1>2, <1>3, <1>6, <1>7, <1>8, ReadProjects

LEMMA WriteProjectedRead ==
  ASSUME BaseInv, ReadInv, NEW h \in MemoryHandlers, WriteProjected(h)
  PROVE  ReadInv'
<1>1. PICK p \in {"promote", "read_consolidated", "idle"}, q \in Locals : Move(h, p, q)
  BY WriteProjectedIs
<1>2. UNCHANGED <<log, nodes, disturbed>> /\ doing[h] = "write_projected" /\ projected' = local[h].at
  BY DEF WriteProjected
<1>3. Projects(h) /\ p \notin Projecting /\ p # "wipe" /\ p # "reset"
  BY <1>1, <1>2 DEF Projects, Projecting
<1>4. PICK l : l = projected'
  OBVIOUS
<1>5. ASSUME ~disturbed PROVE Sound(l)' /\ Tight(l)'
  <2>1. Folded(l, "write_projected")
    BY <1>2, <1>3, <1>4, <1>5, ReadHas DEF Reach
  <2>2. Sound(l) /\ Tight(l) /\ SameNodes
    BY <1>2, <2>1 DEF Folded, SameNodes
  <2> QED
    BY <1>2, <2>2, SameSound
<1> QED
  BY <1>1, <1>2, <1>3, <1>4, <1>5, ReadProjects

LEMMA WipeRead ==
  ASSUME BaseInv, ReadInv, NEW h \in MemoryHandlers, Wipe(h)
  PROVE  ReadInv'
<1>1. PICK q \in Locals : Move(h, "reset", q)
  BY WipeIs
<1>2. nodes' = <<>> /\ doing[h] = "wipe" /\ disturbed' = disturbed
  BY DEF Wipe
<1>3. \A g \in MemoryHandlers : doing'[g] = IF g = h THEN "reset" ELSE doing[g]
  BY <1>1 DEF BaseInv, MemoryTyped, Move
<1>4. CASE ~disturbed
  <2>1. \A g \in MemoryHandlers : ~Projects(g)
    <3>1. "wipe" \in Folding /\ "wipe" \notin Projecting
      BY DEF Folding, Projecting
    <3> QED
      BY <1>2, <1>4, <3>1 DEF ReadInv, Projects
  <2>2. \A g \in MemoryHandlers : doing'[g] \notin Projecting
    BY <1>3, <2>1 DEF Projects, Projecting
  <2>3. DOMAIN nodes' = {} /\ \E g \in MemoryHandlers : doing'[g] = "reset"
    BY <1>2, <1>3
  <2> QED
    BY <2>2, <2>3, ReadHolds
<1>5. CASE disturbed
  BY <1>2, <1>5, ReadHolds
<1> QED
  BY <1>4, <1>5

LEMMA CrashRead ==
  ASSUME BaseInv, ReadInv, NEW h \in MemoryHandlers, Crash(h)
  PROVE  ReadInv'
<1>1. PICK p, q : p = "idle" /\ q = NoCall /\ Move(h, p, q)
  BY CrashIs
<1>2. UNCHANGED <<log, nodes, projected>> /\ disturbed' = (disturbed \/ doing[h] = "reset")
      /\ half' = (half \/ doing[h] \in Projecting)
  BY DEF Crash, tables
<1>3. p \notin Projecting /\ p # "reset" /\ p # "wipe" /\ SameNodes
  BY <1>1, <1>2 DEF Projecting, SameNodes
<1>4. CASE doing[h] = "reset"
  BY <1>2, <1>4, ReadHolds
<1>5. CASE Projects(h)
  <2>1. half' /\ disturbed' = disturbed
    BY <1>2, <1>5, LocalIs DEF Projects, Projecting, Flags
  <2>2. PICK l \in Keys : l = projected
    BY BaseHolds
  <2>3. ASSUME ~disturbed PROVE Sound(l)'
    <3>1. PICK k : k = Reach(h)
      OBVIOUS
    <3>2. k \in Keys /\ Folded(k, doing[h])
      BY <1>5, <2>3, <3>1, ReadHas
    <3>3. Sound(l)
      BY <2>2, <3>2, SoundBelow DEF Folded
    <3> QED
      BY <1>2, <1>3, <3>3, SameSound
  <2>4. l = projected'
    BY <1>2, <2>2
  <2> QED
    BY <1>1, <1>2, <1>3, <1>5, <2>1, <2>3, <2>4, ReadProjects
<1>6. CASE doing[h] # "reset" /\ ~Projects(h)
  <2>1. UNCHANGED <<half, disturbed>>
    BY <1>2, <1>6, LocalIs DEF Projects, Flags
  <2>2. UNCHANGED <<log, projected, half>>
    BY <1>2, <2>1
  <2>3. (disturbed => disturbed') /\ doing[h] \notin Projecting /\ doing[h] # "reset"
    BY <1>6, <2>1 DEF Projects
  <2> QED
    BY <1>1, <1>3, <2>2, <2>3, ReadQuiet
<1> QED
  BY <1>4, <1>5, <1>6

\* Nodes and batches that an event is beyond.
LEMMA SoundStill ==
  ASSUME BaseInv, NEW e \in Events, NEW last, last = Len(log) + 1,
         log' = Append(log, e), now' = now, blobs \subseteq blobs', e.ts <= now,
         \A j \in e.about : j \in DOMAIN log /\ (e.type = "supersede" => log[j].ts <= e.ts),
         nodes' = nodes, NEW k \in Keys, Sound(k), Before(k, <<e.ts, last>>), e.type = "supersede" => Tight(k)
  PROVE  Sound(k)' /\ (Tight(k) => Tight(k)')
<1>1. /\ DOMAIN log' = DOMAIN log \union {last} /\ last \notin DOMAIN log /\ log'[last] = e
      /\ Key(last)' = <<e.ts, last>>
      /\ \A i \in DOMAIN log : log'[i] = log[i] /\ Key(i)' = Key(i)
  BY Appended
<1>2. PICK new \in Keys : new = <<e.ts, last>>
  BY LogType DEF Keys, Events, BaseInv, MemoryTyped
<1>3. /\ \A j \in DOMAIN log : log[j].type \in NodeTypes /\ ~Before(k, Key(j)) => j \in DOMAIN nodes
      /\ \A j \in DOMAIN nodes : /\ log[j].type \in NodeTypes
                                 /\ nodes[j].by = 0 \/ IsFirst(nodes[j].by, j)
                                 /\ \A s \in DOMAIN log : IsFirst(s, j) /\ ~Before(k, Key(s)) => nodes[j].by = s
  BY DEF Sound
<1>4. DOMAIN nodes \subseteq DOMAIN log /\ \A i \in DOMAIN log : Key(i) \in Keys
  BY LogType DEF BaseInv, MemoryTyped
<1>5. \A s \in DOMAIN log : \A j : IsFirst(s, j)' => IsFirst(s, j)
  BY <1>1 DEF IsFirst, Supersedes
<1>6. ASSUME NEW s \in DOMAIN log, NEW j, IsFirst(s, j), e.type # "supersede" \/ ~Before(k, Key(s)) PROVE IsFirst(s, j)'
  <2>1. e.type = "supersede" => Before(Key(s), new)
    BY <1>2, <1>4, <1>6, BeforeIsOrder
  <2>2. \A r \in DOMAIN log' : Supersedes(r, j)' => r = s \/ Before(Key(s)', Key(r)')
    <3> SUFFICES ASSUME NEW r \in DOMAIN log', Supersedes(r, j)' PROVE r = s \/ Before(Key(s)', Key(r)')
      OBVIOUS
    <3>1. CASE r = last
      BY <1>1, <1>2, <2>1, <3>1 DEF Supersedes
    <3>2. CASE r \in DOMAIN log
      BY <1>1, <1>6, <3>2 DEF Supersedes, IsFirst
    <3> QED
      BY <1>1, <3>1, <3>2
  <2>3. s \in DOMAIN log' /\ Supersedes(s, j)'
    BY <1>1, <1>6 DEF IsFirst, Supersedes
  <2> QED
    BY <2>2, <2>3 DEF IsFirst, Before
<1>7. ASSUME NEW j \in DOMAIN nodes
      PROVE  /\ log'[j].type \in NodeTypes
             /\ nodes[j].by = 0 \/ IsFirst(nodes[j].by, j)'
             /\ \A s \in DOMAIN log' : IsFirst(s, j)' /\ ~Before(k, Key(s)') => nodes[j].by = s
  <2>1. log'[j].type \in NodeTypes
    BY <1>1, <1>3, <1>4
  <2>2. nodes[j].by = 0 \/ IsFirst(nodes[j].by, j)'
    <3>1. CASE nodes[j].by # 0
      <4>1. PICK s \in DOMAIN log : s = nodes[j].by /\ IsFirst(s, j)
        BY <1>3, <3>1 DEF IsFirst
      <4>2. e.type # "supersede" \/ ~Before(k, Key(s))
        BY <3>1, <4>1 DEF Tight
      <4>3. IsFirst(s, j)'
        BY <1>6, <4>1, <4>2
      <4>4. nodes'[j].by = s
        BY <4>1
      <4> QED
        BY <4>1, <4>3, <4>4 DEF IsFirst, Supersedes, Key, Before
    <3> QED
      BY <3>1
  <2>3. ASSUME NEW s \in DOMAIN log', IsFirst(s, j)', ~Before(k, Key(s)') PROVE nodes[j].by = s
    <3>1. s \in DOMAIN log
      BY <1>1, <1>2, <2>3
    <3> QED
      BY <1>1, <1>3, <1>5, <2>3, <3>1
  <2> QED
    BY <2>1, <2>2, <2>3
<1>8. \A j \in DOMAIN log' : log'[j].type \in NodeTypes /\ ~Before(k, Key(j)') => j \in DOMAIN nodes
  BY <1>1, <1>2, <1>3
<1>9. Sound(k)'
  <2>1. \A j \in DOMAIN log' : log'[j].type \in NodeTypes /\ ~Before(k, Key(j))' => j \in DOMAIN nodes'
    BY <1>8 DEF Before
  <2>2. ASSUME NEW j \in DOMAIN nodes'
        PROVE  /\ log'[j].type \in NodeTypes
               /\ nodes'[j].by = 0 \/ IsFirst(nodes[j].by, j)'
               /\ \A s \in DOMAIN log' : IsFirst(s, j)' /\ ~Before(k, Key(s))' => nodes'[j].by = s
    BY <1>7 DEF Before
  <2> QED
    BY <2>1, <2>2 DEF Sound
<1>10. ASSUME Tight(k) PROVE Tight(k)'
  <2>1. \A j \in DOMAIN nodes : j \in DOMAIN log /\ (nodes[j].by # 0 => nodes[j].by \in DOMAIN log)
    BY <1>3, <1>4 DEF IsFirst
  <2>2. \A j \in DOMAIN nodes : ~Before(k, Key(j)') /\ (nodes[j].by # 0 => ~Before(k, Key(nodes[j].by)'))
    <3>1. \A i \in DOMAIN log : Before(k, Key(i)') <=> Before(k, Key(i))
      BY <1>1
    <3>2. ASSUME NEW j \in DOMAIN nodes, nodes[j].by # 0 PROVE ~Before(k, Key(nodes[j].by)')
      <4>1. PICK s \in DOMAIN log : s = nodes[j].by
        BY <2>1, <3>2
      <4>2. ~Before(k, Key(s))
        BY <1>10, <3>2, <4>1 DEF Tight
      <4>3. ~Before(k, Key(s)')
        BY <3>1, <4>2
      <4> QED
        BY <4>1, <4>3 DEF Key
    <3> QED
      BY <1>10, <2>1, <3>1, <3>2 DEF Tight
  <2> QED
    BY <2>2 DEF Tight, Key, Before
<1> QED
  BY <1>9, <1>10

LEMMA BatchedStill ==
  ASSUME BaseInv, NEW e \in Events, NEW last, last = Len(log) + 1,
         log' = Append(log, e), now' = now, blobs \subseteq blobs', e.ts <= now,
         \A j \in e.about : j \in DOMAIN log /\ (e.type = "supersede" => log[j].ts <= e.ts),
         NEW k, NEW b \in Seq(DOMAIN log), Batched(k, b), b # <<>> => Before(Key(Last(b)), <<e.ts, last>>)
  PROVE  Batched(k, b)'
<1>1. /\ DOMAIN log' = DOMAIN log \union {last} /\ last \notin DOMAIN log
      /\ Key(last)' = <<e.ts, last>>
      /\ \A i \in DOMAIN log : log'[i] = log[i] /\ Key(i)' = Key(i)
  BY Appended
<1>2. \A n \in DOMAIN b : b[n] \in DOMAIN log /\ Key(b[n])' = Key(b[n])
  BY <1>1
<1>3. ASSUME b # <<>>
      PROVE  \A i \in DOMAIN log' : Before(k, Key(i)') /\ ~Before(Key(Last(b))', Key(i)') => i \in Range(b)
  <2>1. Last(b) \in DOMAIN log
    BY <1>2, <1>3 DEF Last
  <2>2. Key(Last(b))' = Key(Last(b))
    BY <1>1, <2>1
  <2>3. \A i \in DOMAIN log : Before(k, Key(i)) /\ ~Before(Key(Last(b)), Key(i)) => i \in Range(b)
    BY <1>3 DEF Batched
  <2> QED
    BY <1>1, <1>3, <2>2, <2>3
<1>4. \A n \in DOMAIN b : Before(k, Key(b[n])')
  BY <1>2 DEF Batched
<1>5. \A n, m \in DOMAIN b : n < m => Before(Key(b[n])', Key(b[m])')
  BY <1>2 DEF Batched
<1> QED
  BY <1>3, <1>4, <1>5 DEF Batched, Before

\* How far a handler's reads of the log are.
Reads(g) == IF local[g].batch = <<>> THEN local[g].at ELSE Key(Last(local[g].batch))

\* An event that is beyond what the projections have read.
LEMMA ReadAppends ==
  ASSUME BaseInv, ReadInv, NEW e \in Events, NEW last, last = Len(log) + 1,
         log' = Append(log, e), now' = now, blobs \subseteq blobs', e.ts <= now,
         \A j \in e.about : j \in DOMAIN log /\ (e.type = "supersede" => log[j].ts <= e.ts),
         UNCHANGED <<nodes, projected, half>>, disturbed => disturbed',
         \A g \in MemoryHandlers : \/ doing'[g] = doing[g] /\ (Projects(g) => local'[g] = local[g])
                                   \/ doing[g] \notin Folding /\ doing'[g] \notin Folding,
         NEW new \in Keys, new = <<e.ts, last>>,
         ~disturbed' => /\ Before(projected, new) /\ \A g \in MemoryHandlers : Projects(g) => Before(Reads(g), new)
                        /\ e.type = "supersede" => ~half
  PROVE  ReadInv'
<1>1. CASE ~disturbed'
  <2>0. ~disturbed
    BY <1>1
  <2>1. Projecting \subseteq Folding /\ "reset" \in Folding
    BY DEF Folding
  <2>2. \A f, g \in MemoryHandlers : doing'[f] \in Projecting /\ f # g => doing'[g] \notin Folding
    BY <2>0, <2>1 DEF ReadInv, Projects
  <2>3. \A g \in MemoryHandlers : doing'[g] = "reset" => DOMAIN nodes' = {}
    BY <2>0, <2>1 DEF ReadInv
  <2>4. ASSUME NEW g \in MemoryHandlers, doing'[g] \in Projecting
        PROVE  \E k, o, k0, b : /\ k = IF doing'[g] = "read_projected" THEN projected' ELSE local'[g].at
                                /\ o = doing'[g] /\ k0 = local'[g].at /\ b = local'[g].batch
                                /\ Folded(k, o)' /\ Batched(k0, b)'
    <3>1. Projects(g) /\ doing'[g] = doing[g] /\ local'[g] = local[g]
      BY <2>1, <2>4 DEF Projects
    <3>2. PICK k0 \in Keys, b \in Seq(DOMAIN log) : k0 = local[g].at /\ b = local[g].batch
      BY LocalIs DEF Locals, LocalFits
    <3>3. PICK k : k = Reach(g)
      OBVIOUS
    <3>4. k \in Keys /\ Folded(k, doing[g]) /\ Batched(k0, b) /\ (doing[g] # "read_projected" => k = k0)
      BY <2>0, <3>1, <3>2, <3>3, ReadHas
    <3>5. b # <<>> => Before(Key(Last(b)), new)
      BY <1>1, <3>1, <3>2 DEF Reads
    <3>6. Before(k, new)
      <4>1. CASE doing[g] = "read_projected"
        BY <1>1, <3>3, <4>1 DEF Reach
      <4>2. CASE doing[g] # "read_projected" /\ b = <<>>
        BY <1>1, <3>1, <3>2, <3>4, <4>2 DEF Reads
      <4>3. CASE doing[g] # "read_projected" /\ b # <<>>
        <5>1. Len(b) \in DOMAIN b /\ b[Len(b)] \in DOMAIN log
          BY <3>2, <4>3
        <5>2. Key(Last(b)) \in Keys /\ Before(k0, Key(Last(b)))
          BY <3>4, <5>1, LocalIs, LogType DEF Batched, Last
        <5> QED
          BY <3>2, <3>4, <3>5, <4>3, <5>2, BeforeIsOrder
      <4> QED
        BY <4>1, <4>2, <4>3
    <3>7. Sound(k) /\ (e.type = "supersede" => Tight(k))
      BY <1>1, <3>4 DEF Folded
    <3>8. Sound(k)' /\ (Tight(k) => Tight(k)')
      BY <3>4, <3>6, <3>7, SoundStill
    <3>9. Batched(k0, b)'
      BY <3>2, <3>4, <3>5, BatchedStill
    <3>10. PICK o : o = doing[g]
      OBVIOUS
    <3>11. Folded(k, o)'
      BY <3>4, <3>8, <3>10 DEF Folded, Before
    <3> QED
      BY <3>1, <3>2, <3>3, <3>9, <3>10, <3>11 DEF Reach
  <2>5. \/ \E g \in MemoryHandlers : doing'[g] \in Projecting \/ doing'[g] = "reset"
        \/ \E k : k = projected' /\ Sound(k)' /\ (half' \/ Tight(k)')
    <3>1. CASE \E g \in MemoryHandlers : Projects(g) \/ doing[g] = "reset"
      BY <2>1, <3>1 DEF Projects
    <3>2. CASE ~\E g \in MemoryHandlers : Projects(g) \/ doing[g] = "reset"
      <4>1. PICK k \in Keys : k = projected
        BY BaseHolds
      <4>2. Sound(k) /\ (half \/ Tight(k))
        BY <2>0, <3>2, <4>1 DEF ReadInv
      <4>3. Before(k, new) /\ (e.type = "supersede" => Tight(k))
        BY <1>1, <4>1, <4>2
      <4>4. Sound(k)' /\ (Tight(k) => Tight(k)')
        BY <4>2, <4>3, SoundStill
      <4> QED
        BY <4>1, <4>2, <4>4
    <3> QED
      BY <3>1, <3>2
  <2> QED
    BY <2>2, <2>3, <2>4, <2>5, ReadHolds
<1>2. CASE disturbed'
  BY <1>2, ReadHolds
<1> QED
  BY <1>1, <1>2

\* An event of now is beyond all.
LEMMA ReadNotes ==
  ASSUME BaseInv, ReadInv, NEW e \in Events, log' = Append(log, e), e.ts = now, e.type # "supersede", e.about = {},
         UNCHANGED <<now, blobs, nodes, projected, half, disturbed>>,
         \A g \in MemoryHandlers : \/ doing'[g] = doing[g] /\ (Projects(g) => local'[g] = local[g])
                                   \/ doing[g] \notin Folding /\ doing'[g] \notin Folding
  PROVE  ReadInv'
<1>1. PICK last : last = Len(log) + 1
  OBVIOUS
<1>2. PICK new \in Keys : new = <<e.ts, last>>
  <2>1. e.ts \in Nat /\ last \in Nat
    BY <1>1, LogType DEF Events, BaseInv, MemoryTyped
  <2> QED
    BY <2>1 DEF Keys
<1>3. \A k : Reached(k) => Before(k, new)
  BY <1>1, <1>2, ReachedBefore
<1>4. Before(projected, new)
  BY <1>3, BaseHolds
<1>5. ASSUME NEW g \in MemoryHandlers PROVE Before(Reads(g), new)
  <2>1. LocalFits(doing[g], local[g]) /\ Reached(local[g].at)
    BY LocalIs DEF LocalFits
  <2>2. PICK b \in Seq(DOMAIN log) : b = local[g].batch
    BY <2>1 DEF LocalFits
  <2>3. CASE b # <<>>
    <3>1. Last(b) \in DOMAIN log
      BY <2>3 DEF Last
    <3>2. Reached(Key(Last(b)))
      <4>1. Len(log) \in Nat /\ DOMAIN log = 1..Len(log) /\ Key(Last(b)) \in Keys /\ log[Last(b)].ts <= now
        BY <3>1, LocalIs, LogType DEF BaseInv, LogHolds
      <4> QED
        BY <3>1, <4>1 DEF Reached, Key
    <3> QED
      BY <1>3, <2>2, <2>3, <3>2 DEF Reads
  <2>4. CASE b = <<>>
    BY <1>3, <2>1, <2>2, <2>4 DEF Reads
  <2> QED
    BY <2>3, <2>4
<1>6. e.ts <= now /\ (\A j \in e.about : j \in DOMAIN log /\ (e.type = "supersede" => log[j].ts <= e.ts))
  BY DEF BaseInv, MemoryTyped
<1> QED
  BY <1>1, <1>2, <1>4, <1>5, <1>6, ReadAppends

LEMMA LedgerRead ==
  ASSUME BaseInv, ReadInv, NEW h \in MemoryHandlers, Ledger(h)
  PROVE  ReadInv'
<1>1. Move(h, "idle", NoCall)
  BY LedgerIs
<1>2. PICK e \in Events : log' = Append(log, e) /\ e.ts = now /\ e.type = "ledger" /\ e.about = {}
  BY LedgerIs
<1>3. UNCHANGED <<now, blobs, nodes, projected, half, disturbed>> /\ doing[h] = "ledger"
  BY DEF Ledger, Goes
<1>4. "ledger" \notin Folding /\ "idle" \notin Folding
  BY DEF Folding, Projecting
<1>5. \A g \in MemoryHandlers : \/ doing'[g] = doing[g] /\ (Projects(g) => local'[g] = local[g])
                                \/ doing[g] \notin Folding /\ doing'[g] \notin Folding
  BY <1>1, <1>3, <1>4 DEF Move, BaseInv, MemoryTyped
<1> QED
  BY <1>2, <1>3, <1>5, ReadNotes

LEMMA DomainEventRead ==
  ASSUME BaseInv, ReadInv, DomainEvent
  PROVE  ReadInv'
<1>1. PICK e \in Events : log' = Append(log, e) /\ e.ts = now /\ e.type = "domain" /\ e.about = {}
  BY DomainEventIs
<1>2. UNCHANGED <<now, blobs, nodes, projected, half, disturbed, doing, local>>
  BY DEF DomainEvent
<1> QED
  BY <1>1, <1>2, ReadNotes

LEMMA EmitOutputRead ==
  ASSUME BaseInv, ReadInv, NEW h \in MemoryHandlers, EmitOutput(h)
  PROVE  ReadInv'
<1>1. PICK p \in {"emit", "find_cold"}, q \in Locals, e \in Events :
           /\ log' = Append(log, e) /\ Move(h, p, q) /\ e.ts = local[h].now /\ e.ts <= now
           /\ \A j \in e.about : j \in DOMAIN log /\ (e.type = "supersede" => log[j].ts <= e.ts)
  BY EmitOutputIs
<1>2. UNCHANGED <<now, blobs, nodes, projected, half>> /\ doing[h] = "emit" /\ disturbed' = (disturbed \/ Late(h))
  BY DEF EmitOutput, Goes
<1>3. PICK last : last = Len(log) + 1
  OBVIOUS
<1>4. PICK new \in Keys : new = <<e.ts, last>>
  <2>1. e.ts \in Nat /\ last \in Nat
    BY <1>3, LogType DEF Events, BaseInv, MemoryTyped
  <2> QED
    BY <2>1 DEF Keys
<1>5. "emit" \notin Folding /\ "find_cold" \notin Folding
  BY DEF Folding, Projecting
<1>6. \A g \in MemoryHandlers : \/ doing'[g] = doing[g] /\ (Projects(g) => local'[g] = local[g])
                                \/ doing[g] \notin Folding /\ doing'[g] \notin Folding
  BY <1>1, <1>2, <1>5 DEF Move, BaseInv, MemoryTyped
<1>7. ASSUME ~disturbed'
      PROVE  /\ Before(projected, new) /\ \A g \in MemoryHandlers : Projects(g) => Before(Reads(g), new)
             /\ e.type = "supersede" => ~half
  <2>1. ~half /\ Before(projected, new) /\ \A g \in Others(h) : Projects(g) => Before(Reads(g), new)
    <3>1. ~Late(h)
      BY <1>2, <1>7
    <3> QED
      BY <1>1, <1>3, <1>4, <3>1 DEF Late, Projects, Reads
  <2>2. ~Projects(h)
    BY <1>2 DEF Projects, Projecting
  <2> QED
    BY <2>1, <2>2 DEF Others
<1>8. disturbed => disturbed'
  BY <1>2
<1> QED
  BY <1>1, <1>2, <1>3, <1>4, <1>6, <1>7, <1>8, ReadAppends

LEMMA ReadStarts ==
  ASSUME MemoryInit
  PROVE  ReadInv
<1>1. PICK e : e = [ts |-> 0, type |-> "domain", about |-> {}]
  OBVIOUS
<1>2. log = <<e>> /\ e.ts = 0 /\ projected = Zero /\ nodes = <<>>
  BY <1>1 DEF MemoryInit, Zero
<1>3. DOMAIN log = {1} /\ log[1] = e /\ DOMAIN nodes = {}
  BY <1>2
<1>4. \A j \in DOMAIN log : Before(projected, Key(j))
  BY <1>2, <1>3 DEF Before, Key, Zero
<1>5. Sound(projected) /\ Tight(projected)
  BY <1>3, <1>4 DEF Sound, Tight
<1>6. \A h \in MemoryHandlers : ~Projects(h) /\ doing[h] # "reset"
  BY DEF MemoryInit, Projects, Projecting
<1> QED
  BY <1>5, <1>6 DEF ReadInv

LEMMA ReadRests ==
  ASSUME BaseInv, ReadInv, UNCHANGED <<log, nodes, projected, doing, local, disturbed, half>>
  PROVE  ReadInv'
<1>1. \A k : (Sound(k)' <=> Sound(k)) /\ (Tight(k)' <=> Tight(k)) /\ \A b : Batched(k, b)' <=> Batched(k, b)
  BY SameSound DEF SameNodes
<1>2. CASE ~disturbed
  <2>1. ASSUME NEW g \in MemoryHandlers, doing'[g] \in Projecting
        PROVE  \E k, o, k0, b : /\ k = IF doing'[g] = "read_projected" THEN projected' ELSE local'[g].at
                                /\ o = doing'[g] /\ k0 = local'[g].at /\ b = local'[g].batch
                                /\ Folded(k, o)' /\ Batched(k0, b)'
    <3>1. PICK k, o, k0, b : k = Reach(g) /\ o = doing[g] /\ k0 = local[g].at /\ b = local[g].batch
      OBVIOUS
    <3>2. Folded(k, o) /\ Batched(k0, b)
      BY <1>2, <2>1, <3>1 DEF ReadInv, Projects
    <3>3. Folded(k, o)' /\ Batched(k0, b)'
      BY <1>1, <3>2 DEF Folded, Before
    <3> QED
      BY <3>1, <3>3 DEF Reach
  <2>2. \/ \E g \in MemoryHandlers : doing'[g] \in Projecting \/ doing'[g] = "reset"
        \/ \E k : k = projected' /\ Sound(k)' /\ (half' \/ Tight(k)')
    <3>1. PICK k : k = projected
      OBVIOUS
    <3>2. (\E g \in MemoryHandlers : Projects(g) \/ doing[g] = "reset") \/ (Sound(k) /\ (half \/ Tight(k)))
      BY <1>2, <3>1 DEF ReadInv
    <3> QED
      BY <1>1, <3>1, <3>2 DEF Projects
  <2>3. \A h, g \in MemoryHandlers : doing'[h] \in Projecting /\ h # g => doing'[g] \notin Folding
    BY <1>2 DEF ReadInv, Projects
  <2>4. \A h \in MemoryHandlers : doing'[h] = "reset" => DOMAIN nodes' = {}
    BY <1>2 DEF ReadInv
  <2> QED
    BY <2>1, <2>2, <2>3, <2>4, ReadHolds
<1>3. CASE disturbed
  BY <1>3, ReadHolds
<1> QED
  BY <1>2, <1>3

LEMMA ReadStep ==
  ASSUME BaseInv, ReadInv, MemoryAssumption, [MemoryNext]_memoryVars
  PROVE  ReadInv'
<1>1. CASE Tick
  BY <1>1, ReadRests DEF Tick, tables
<1>2. CASE DomainEvent
  BY <1>2, DomainEventRead
<1>3. ASSUME NEW h \in MemoryHandlers, Step(h) PROVE ReadInv'
  BY <1>3, QuietRead, ReadProjectedRead, FetchRead, ApplyRead, WriteProjectedRead, WipeRead, ResetProjectedRead,
     EmitOutputRead, WriteConsolidatedRead, LedgerRead DEF Step
<1>4. ASSUME NEW h \in MemoryHandlers, Crash(h) PROVE ReadInv'
  BY <1>4, CrashRead
<1>5. ASSUME NEW h \in MemoryHandlers, NEW sort \in {"recall", "sleep", "rebuild", "tier"}, Start(h, sort) PROVE ReadInv'
  BY <1>5, BeginRead
<1>6. CASE UNCHANGED memoryVars
  BY <1>6, ReadRests DEF memoryVars, tables
<1> QED
  BY <1>1, <1>2, <1>3, <1>4, <1>5, <1>6 DEF MemoryNext

By(k, i) == {s \in Upto(k) : log[s].type = "supersede" /\ i \in log[s].about}
Earliest(S) == CHOOSE s \in S : \A r \in S \ {s} : Before(Key(s), Key(r))

\* Nodes that are sound and tight are what a replay of the log gives.
LEMMA SoundIsFold ==
  ASSUME BaseInv, NEW k \in Keys, Sound(k), Tight(k)
  PROVE  [i \in DOMAIN nodes |-> nodes[i].by] = Replayed(k)
<1>1. log \in Seq(Events) /\ DOMAIN nodes \subseteq DOMAIN log
  BY DEF BaseInv, MemoryTyped
<1>2. \A s, r \in DOMAIN log : /\ Key(s) \in Keys /\ s # 0
                               /\ Before(Key(s), Key(r)) => ~Before(Key(r), Key(s))
                               /\ ~Before(k, Key(r)) /\ Before(Key(s), Key(r)) => ~Before(k, Key(s))
  BY <1>1, LogType, BeforeIsOrder
<1>3. DOMAIN nodes = {j \in Upto(k) : log[j].type \in NodeTypes}
  BY <1>1 DEF Upto, Sound, Tight
<1>4. ASSUME NEW i \in DOMAIN nodes, NEW by, by = By(k, i)
      PROVE  nodes[i].by = IF by = {} THEN 0 ELSE Earliest(by)
  <2>1. \A s \in by : s \in DOMAIN log /\ Supersedes(s, i) /\ ~Before(k, Key(s))
    BY <1>4 DEF By, Upto, Supersedes
  <2>2. CASE by = {}
    <3>1. ASSUME nodes[i].by # 0 PROVE FALSE
      <4>1. IsFirst(nodes[i].by, i) /\ ~Before(k, Key(nodes[i].by))
        BY <3>1 DEF Sound, Tight
      <4> QED
        BY <1>4, <2>2, <4>1 DEF By, IsFirst, Supersedes, Upto
    <3> QED
      BY <2>2, <3>1
  <2>3. CASE by # {}
    <3>1. PICK s \in by : TRUE
      BY <2>3
    <3>2. PICK f \in DOMAIN log : IsFirst(f, i) /\ (f = s \/ Before(Key(f), Key(s)))
      BY <2>1, <3>1, FirstSupersedes
    <3>3. ~Before(k, Key(f))
      BY <1>2, <2>1, <3>1, <3>2
    <3>4. f \in by /\ nodes[i].by = f
      BY <1>4, <3>2, <3>3 DEF By, IsFirst, Supersedes, Upto, Sound
    <3>5. \A r \in by \ {f} : Before(Key(f), Key(r))
      BY <2>1, <3>2 DEF IsFirst
    <3>6. PICK g : g = Earliest(by)
      OBVIOUS
    <3>7. g \in by /\ \A r \in by \ {g} : Before(Key(g), Key(r))
      BY <3>4, <3>5, <3>6, Zenon DEF Earliest
    <3>8. g = f
      BY <1>2, <2>1, <3>4, <3>5, <3>7
    <3> QED
      BY <2>3, <3>4, <3>6, <3>8
  <2> QED
    BY <2>2, <2>3
<1>5. Replayed(k) = [i \in {j \in Upto(k) : log[j].type \in NodeTypes} |->
                       IF By(k, i) = {} THEN 0 ELSE Earliest(By(k, i))]
  BY Zenon DEF Replayed, By, Earliest
<1>6. \A i \in DOMAIN nodes : nodes[i].by = IF By(k, i) = {} THEN 0 ELSE Earliest(By(k, i))
  BY <1>4
<1> QED
  BY <1>3, <1>5, <1>6

LEMMA ReadIsFold ==
  ASSUME BaseInv, ReadInv
  PROVE  ReadModelIsFold
<1>1. \A i \in DOMAIN nodes : nodes[i].tiered # {} => nodes[i].tiered \in blobs /\ i \in nodes[i].tiered
  BY DEF BaseInv, StubsHold
<1>2. ASSUME ~disturbed, ~half, ~\E h \in MemoryHandlers : doing[h] \in Projecting \union {"reset"}
      PROVE  [i \in DOMAIN nodes |-> nodes[i].by] = Replayed(projected)
  <2>1. Sound(projected) /\ Tight(projected)
    BY <1>2 DEF ReadInv, Projects
  <2> QED
    BY <2>1, BaseHolds, SoundIsFold
<1> QED
  BY <1>1, <1>2 DEF ReadModelIsFold

THEOREM NodesAreTheFold == MemorySpec => []ReadModelIsFold
<1>1. MemoryInit => BaseInv /\ ReadInv
  BY MemoryStarts, ReadStarts
<1>2. BaseInv /\ ReadInv /\ [MemoryNext]_memoryVars => BaseInv' /\ ReadInv'
  BY MemoryAssumption, BaseStep, ReadStep
<1>3. BaseInv /\ ReadInv => ReadModelIsFold
  BY ReadIsFold
<1> QED
  BY <1>1, <1>2, <1>3, PTL DEF MemorySpec
=============================================================================
