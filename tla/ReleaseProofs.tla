--------------------------- MODULE ReleaseProofs ---------------------------
(***************************************************************************)
(* Theorems about Release (pipelines and push ticks over one event log)    *)
(* and about Dispatch, for any number of scanners, endpoints, events,      *)
(* machines and jobs, checked by TLAPS.                                    *)
(***************************************************************************)
EXTENDS Release, Dispatch, FiniteSetTheorems, SequenceTheorems, TLAPS

(* The event log. *)

Visible == {e \in Ids : events[e] # Null}
Untried == {e \in Visible : events[e].owes # {}}

\* Ids are taken before they are used, and what is owed is owed to who is registered.
LogInv ==
  /\ LogTypeOK
  /\ \A e \in Visible :
       e < nextId /\ events[e].owes \subseteq Registered /\ (events[e].kind = "other" => events[e].owes = {})

\* What the statement a job has reached knows of its run.
StepInv ==
  job = "running" =>
    /\ runs # << >> /\ (step.pc # "run" => step.stage <= Len(Stages))
    /\ step.pc = "run" => step.verdict = Null
    /\ step.pc = "emit" =>
         /\ step.event \in 1..(nextId - 1) /\ events[step.event] = Null
         /\ step.verdict \in {"pass", "low", "gate", "error"}
         /\ step.verdict = "gate" => Stage # "eval" /\ runs[Last].approval
    /\ step.pc = "cache" => step.verdict \in Verdicts
    /\ step.pc = "status" =>
         /\ step.verdict \in {"low", "gate", "error"}
         /\ step.verdict = "gate" => runs[Last].approval
         /\ step.verdict # "error" => runs[Last].gateEvent # 0

\* A scan leaves nothing untried behind: it is still in the batch, beyond all of it,
\* or being sent.
ScanInv(p) ==
  /\ scan[p].batch \subseteq Visible /\ scan[p].last \in {0} \cup Visible
  /\ scan[p].pc = "send" => scan[p].last \in Visible
  /\ scan[p].pc \in {"idle", "select"} => scan[p].batch = {}
  /\ scan[p].pc # "idle" =>
       \A e \in Untried :
         \/ e \in scan[p].batch
         \/ scan[p].last < e /\ \A i \in scan[p].batch : i < e
         \/ scan[p].pc = "send" /\ e = scan[p].last /\ events[e].owes \subseteq scan[p].to

CursorInv == cursor \in {0} \cup Visible /\ \A e \in Untried : cursor < e

IInv ==
  /\ LogInv /\ PipelineTypeOK /\ PushTypeOK
  /\ StepInv /\ WaitingIsAnnounced
  /\ CursorInv /\ \A p \in Scanners : ScanInv(p)
-----------------------------------------------------------------------------
(* The event log. *)

LEMMA InitIInv == Init => IInv
<1> SUFFICES ASSUME Init PROVE IInv
  OBVIOUS
<1> USE DEF Init, LogInit, PipelineInit, PushInit
<1>1. \A e \in Ids : events[e] = Null
  OBVIOUS
<1>2. LogInv
  BY <1>1, LogAssumption DEF LogInv, LogTypeOK, Visible, Ids
<1>3. PipelineTypeOK
  BY PipelineAssumption, LogAssumption DEF PipelineTypeOK, Start, Turn
<1>4. PushTypeOK
  BY PushAssumption, LogAssumption DEF PushTypeOK, NoScan
<1>5. CursorInv /\ \A p \in Scanners : ScanInv(p)
  BY <1>1 DEF CursorInv, ScanInv, NoScan, Untried, Visible
<1> QED BY <1>2, <1>3, <1>4, <1>5 DEF IInv, StepInv, WaitingIsAnnounced

\* A step that writes no event leaves what was scanned as it is.
LEMMA LogStays ==
  ASSUME IInv, UNCHANGED <<events, subs, pushVars>>, nextId' \in nextId..(MaxId + 1)
  PROVE  LogInv' /\ PushTypeOK' /\ CursorInv' /\ \A p \in Scanners : ScanInv(p)'
<1>1. nextId \in Nat /\ nextId' \in Nat /\ nextId <= nextId' /\ nextId' \in 1..(MaxId + 1)
  BY LogAssumption DEF IInv, LogInv, LogTypeOK
<1>2. Visible' = Visible /\ Untried' = Untried /\ Registered' = Registered
  BY DEF Visible, Untried, Registered
<1>3. LogInv'
  <2>1. LogTypeOK'
    BY <1>1 DEF IInv, LogInv, LogTypeOK
  <2>2. \A e \in Visible : e \in Nat
    BY LogAssumption DEF Visible, Ids
  <2> QED BY <1>1, <1>2, <2>1, <2>2 DEF IInv, LogInv
<1>4. PushTypeOK'
  BY DEF IInv, PushTypeOK, pushVars
<1> QED BY <1>2, <1>3, <1>4 DEF IInv, CursorInv, ScanInv, pushVars

\* An INSERT lands on a free id; what it owes lies ahead of whatever was scanned.
LEMMA InsertLands ==
  ASSUME IInv, NEW e \in Ids, events[e] = Null, NEW kind \in {"gate", "other"}, Insert(e, kind),
         UNCHANGED <<subs, pushVars>>, nextId' \in nextId..(MaxId + 1), e < nextId'
  PROVE  /\ LogInv' /\ PushTypeOK' /\ CursorInv' /\ \A p \in Scanners : ScanInv(p)'
         /\ \A i \in Ids \ {e} : events'[i] = events[i]
<1> DEFINE new == [kind |-> kind,
                   owes |-> IF kind = "gate" /\ (\A i \in Ids : i > e => events[i] = Null)
                            THEN Registered ELSE {}]
<1>1. events' = [events EXCEPT ![e] = new]
  BY DEF Insert, Notifies
<1>2. /\ new \in [kind : {"gate", "other"}, owes : SUBSET Subs]
      /\ new.owes \subseteq Registered /\ new.kind = kind /\ (kind = "other" => new.owes = {})
      /\ new.owes # {} => \A i \in Visible : ~ (i > e)
  BY DEF Registered, Visible
<1> HIDE DEF new
<1>3. /\ new # Null /\ events'[e] = new /\ \A i \in Ids \ {e} : events'[i] = events[i]
      /\ events' \in [Ids -> [kind : {"gate", "other"}, owes : SUBSET Subs] \cup {Null}]
  BY <1>1, <1>2, LogAssumption DEF IInv, LogInv, LogTypeOK
<1>4. /\ Visible' = Visible \cup {e} /\ e \notin Visible /\ Registered' = Registered
      /\ Untried' \subseteq Untried \cup {e} /\ (e \in Untried' => new.owes # {})
  BY <1>3 DEF Visible, Untried, Registered
<1>5. Visible \subseteq Nat /\ e \in Nat /\ nextId \in Nat /\ nextId' \in 1..(MaxId + 1)
  BY LogAssumption DEF Visible, Ids, IInv, LogInv, LogTypeOK
<1>6. LogInv'
  <2>1. LogTypeOK'
    BY <1>3, <1>5 DEF IInv, LogInv, LogTypeOK
  <2>2. ASSUME NEW i \in Visible'
        PROVE  /\ i < nextId' /\ events'[i].owes \subseteq Registered'
               /\ (events'[i].kind = "other" => events'[i].owes = {})
    <3>1. CASE i = e
      BY <1>2, <1>3, <1>4, <3>1
    <3>2. CASE i # e
      BY <1>3, <1>4, <1>5, <2>2, <3>2 DEF IInv, LogInv, Visible
    <3> QED BY <3>1, <3>2
  <2> QED BY <2>1, <2>2 DEF LogInv
<1>7. PushTypeOK'
  BY DEF IInv, PushTypeOK, pushVars
<1>8. e \in Untried' => \A i \in {0} \cup Visible : i < e
  <2> SUFFICES ASSUME e \in Untried', NEW i \in {0} \cup Visible PROVE i < e
    OBVIOUS
  <2>1. e > 0
    BY LogAssumption DEF Ids
  <2> QED BY <1>2, <1>4, <1>5, <2>1
<1>9. CursorInv'
  BY <1>4, <1>8 DEF IInv, CursorInv, pushVars
<1>10. ASSUME NEW p \in Scanners
       PROVE  ScanInv(p)'
  <2>1. scan' = scan
    BY DEF pushVars
  <2>2. e \in Untried' => scan[p].last < e /\ \A i \in scan[p].batch : i < e
    BY <1>8 DEF IInv, ScanInv
  <2>3. \A i \in Untried' \ {e} : i \in Untried /\ events'[i] = events[i]
    BY <1>3, <1>4 DEF Untried, Visible
  <2> QED BY <1>4, <2>1, <2>2, <2>3 DEF IInv, ScanInv
<1> QED BY <1>3, <1>6, <1>7, <1>9, <1>10

\* Less is owed: nothing that was scanned is disturbed.
LEMMA OwesShrink ==
  ASSUME IInv,
         events' \in [Ids -> [kind : {"gate", "other"}, owes : SUBSET Subs] \cup {Null}],
         \A e \in Ids : events'[e] = Null <=> events[e] = Null,
         \A e \in Visible : events'[e].owes \subseteq events[e].owes /\ events'[e].kind = events[e].kind,
         nextId' = nextId, subs' \in [Subs -> {"absent", "live", "dead"}],
         \A e \in Visible : events'[e].owes \subseteq Registered',
         cursor' = cursor
  PROVE  /\ LogInv' /\ CursorInv' /\ Visible' = Visible /\ Untried' \subseteq Untried
         /\ \A p \in Scanners : scan'[p] = scan[p] => ScanInv(p)'
<1>1. Visible' = Visible /\ Untried' \subseteq Untried
  BY DEF Visible, Untried
<1>2. LogInv'
  BY <1>1 DEF IInv, LogInv, LogTypeOK
<1>3. CursorInv'
  BY <1>1 DEF IInv, CursorInv
<1>4. \A e \in Untried' : events'[e].owes \subseteq events[e].owes
  BY <1>1 DEF Untried
<1>5. ASSUME NEW p \in Scanners, scan'[p] = scan[p]
      PROVE  ScanInv(p)'
  BY <1>1, <1>4, <1>5 DEF IInv, ScanInv
<1> QED BY <1>1, <1>2, <1>3, <1>5

\* An endpoint without a row is owed nothing.
LEMMA ExcusedShrinks ==
  ASSUME IInv, NEW s \in Subs, events' = Excused(s), subs' = [subs EXCEPT ![s] = "absent"]
  PROVE  /\ events' \in [Ids -> [kind : {"gate", "other"}, owes : SUBSET Subs] \cup {Null}]
         /\ \A e \in Ids : events'[e] = Null <=> events[e] = Null
         /\ \A e \in Visible : /\ events'[e].owes = events[e].owes \ {s}
                               /\ events'[e].kind = events[e].kind
         /\ subs' \in [Subs -> {"absent", "live", "dead"}]
         /\ \A e \in Visible : events'[e].owes \subseteq Registered'
<1>1. ASSUME NEW e \in Visible
      PROVE  /\ events'[e] \in [kind : {"gate", "other"}, owes : SUBSET Subs]
             /\ events'[e].owes = events[e].owes \ {s} /\ events'[e].kind = events[e].kind
  <2>1. events[e] \in [kind : {"gate", "other"}, owes : SUBSET Subs] /\ e \in Ids /\ events[e] # Null
    BY DEF IInv, LogInv, LogTypeOK, Visible
  <2>2. events'[e] = [events[e] EXCEPT !.owes = events[e].owes \ {s}]
    BY <2>1 DEF Excused
  <2> QED BY <2>1, <2>2
<1>2. \A e \in Ids \ Visible : events'[e] = Null
  BY DEF Excused, Visible
<1>3. /\ events' \in [Ids -> [kind : {"gate", "other"}, owes : SUBSET Subs] \cup {Null}]
      /\ \A e \in Ids : events'[e] = Null <=> events[e] = Null
  <2>1. \A e \in Ids : events'[e] \in [kind : {"gate", "other"}, owes : SUBSET Subs] \cup {Null}
    BY <1>1, <1>2
  <2>2. events' = [e \in Ids |-> events'[e]]
    BY DEF Excused
  <2> QED BY <1>1, <1>2, <2>1, <2>2, LogAssumption DEF Visible
<1>4. /\ subs' \in [Subs -> {"absent", "live", "dead"}]
      /\ Registered' = Registered \ {s}
  BY DEF IInv, LogInv, LogTypeOK, Registered
<1> QED BY <1>1, <1>3, <1>4 DEF IInv, LogInv

\* What the push tick does to the log is nothing to the pipelines.
LEMMA PipelinesStay ==
  ASSUME IInv, UNCHANGED pipelineVars, nextId' \in nextId..(MaxId + 1),
         \A i \in 1..(nextId - 1) : events[i] = Null => events'[i] = Null
  PROVE  PipelineTypeOK' /\ StepInv' /\ WaitingIsAnnounced'
<1>1. PipelineTypeOK' /\ WaitingIsAnnounced'
  BY DEF IInv, PipelineTypeOK, WaitingIsAnnounced, pipelineVars
<1>2. nextId \in Nat /\ nextId' \in Nat /\ nextId <= nextId'
  BY LogAssumption DEF IInv, LogInv, LogTypeOK
<1>3. StepInv'
  BY <1>2 DEF IInv, StepInv, pipelineVars, Last, Stage
<1> QED BY <1>1, <1>3
-----------------------------------------------------------------------------
(* The push tick and the subscriptions. *)

\* A step that only moves a scan, or nothing but the bounds.
LEMMA ScanMoves ==
  ASSUME IInv, UNCHANGED <<pipelineVars, logVars, cursor>>, PushTypeOK',
         \A p \in Scanners : scan'[p] = scan[p] \/ ScanInv(p)'
  PROVE  IInv'
<1>1. Visible' = Visible /\ Untried' = Untried /\ nextId' \in nextId..(MaxId + 1)
  BY LogAssumption DEF Visible, Untried, logVars, IInv, LogInv, LogTypeOK
<1>2. LogInv' /\ CursorInv'
  BY <1>1 DEF IInv, LogInv, LogTypeOK, Registered, logVars, CursorInv
<1>3. \A p \in Scanners : ScanInv(p)'
  BY <1>1 DEF IInv, ScanInv, logVars
<1>4. PipelineTypeOK' /\ StepInv' /\ WaitingIsAnnounced'
  BY <1>1, PipelinesStay DEF logVars
<1> QED BY <1>2, <1>3, <1>4 DEF IInv

\* The log changed by owing less, and no scan but p's moved.
LEMMA OweLess ==
  ASSUME IInv, UNCHANGED <<pipelineVars, cursor>>, PushTypeOK', LogInv', CursorInv',
         \A e \in Ids : events'[e] = Null <=> events[e] = Null, nextId' = nextId,
         \A p \in Scanners : ScanInv(p)'
  PROVE  IInv'
<1>1. nextId' \in nextId..(MaxId + 1) /\ \A i \in 1..(nextId - 1) : i \in Ids
  BY LogAssumption DEF IInv, LogInv, LogTypeOK, Ids
<1>2. PipelineTypeOK' /\ StepInv' /\ WaitingIsAnnounced'
  BY <1>1, PipelinesStay
<1> QED BY <1>2 DEF IInv

LEMMA SubscriptionInv ==
  ASSUME IInv, UNCHANGED pipelineVars, NEW s \in Subs, Subscribe(s) \/ Unsubscribe(s) \/ Expire(s)
  PROVE  IInv'
<1>1. UNCHANGED <<nextId, cursor, scan, aborts>> /\ subEvents' \in 0..MaxSubEvents
  BY PushAssumption DEF Subscribe, Unsubscribe, Expire, SubEvent, IInv, PushTypeOK
<1>2. PushTypeOK'
  BY <1>1 DEF IInv, PushTypeOK
<1>3. /\ events' \in [Ids -> [kind : {"gate", "other"}, owes : SUBSET Subs] \cup {Null}]
      /\ \A e \in Ids : events'[e] = Null <=> events[e] = Null
      /\ \A e \in Visible : events'[e].owes \subseteq events[e].owes /\ events'[e].kind = events[e].kind
      /\ subs' \in [Subs -> {"absent", "live", "dead"}]
      /\ \A e \in Visible : events'[e].owes \subseteq Registered'
  <2>1. CASE Unsubscribe(s)
    BY <2>1, ExcusedShrinks DEF Unsubscribe
  <2>2. CASE Subscribe(s) \/ Expire(s)
    <3>1. events' = events /\ \E v \in {"live", "dead"} : subs' = [subs EXCEPT ![s] = v]
      BY <2>2 DEF Subscribe, Expire
    <3>2. subs' \in [Subs -> {"absent", "live", "dead"}] /\ Registered \subseteq Registered'
      BY <3>1 DEF IInv, LogInv, LogTypeOK, Registered
    <3> QED BY <3>1, <3>2 DEF IInv, LogInv, LogTypeOK
  <2> QED BY <2>1, <2>2
<1>4. LogInv' /\ CursorInv' /\ \A p \in Scanners : ScanInv(p)'
  BY <1>1, <1>3, OwesShrink
<1> QED BY <1>1, <1>2, <1>3, <1>4, OweLess

\* A SELECT leaves no gap: whatever it left out is beyond all it took.
LEMMA BatchHasNoGaps ==
  ASSUME NEW c \in Nat, NEW k \in Batch(c), NEW e \in Visible, c < e, e \notin Batch(c)
  PROVE  k < e
<1> DEFINE below(n) == {i \in Behind(c) : i <= n}
<1> SUFFICES ASSUME ~ (k < e) PROVE FALSE
  OBVIOUS
<1>1. e \in Behind(c) /\ k \in Behind(c) /\ Behind(c) \subseteq Ids /\ IsFiniteSet(Ids)
  BY FS_Interval, LogAssumption DEF Batch, Behind, Visible, Ids
<1>2. below(e) \subseteq below(k) /\ IsFiniteSet(below(k))
  <2>1. below(e) \subseteq below(k)
    BY <1>1, LogAssumption DEF Ids
  <2> QED BY <2>1, <1>1, FS_Subset
<1>3. Cardinality(below(e)) <= Cardinality(below(k))
  BY <1>2, FS_Subset
<1>4. Cardinality(below(e)) \in Nat /\ Cardinality(below(k)) \in Nat
  BY <1>2, FS_Subset, FS_CardinalityType
<1> QED BY <1>1, <1>3, <1>4, PushAssumption DEF Batch

LEMMA GetCursorInv ==
  ASSUME IInv, UNCHANGED pipelineVars, NEW p \in Scanners, GetCursor(p)
  PROVE  IInv'
<1>1. /\ scan' = [scan EXCEPT ![p] = [pc |-> "select", batch |-> {}, to |-> {}, last |-> cursor]]
      /\ UNCHANGED <<cursor, subEvents, aborts, logVars>>
  BY DEF GetCursor
<1>2. PushTypeOK'
  BY <1>1, LogAssumption DEF IInv, PushTypeOK
<1>3. scan'[p] = [pc |-> "select", batch |-> {}, to |-> {}, last |-> cursor]
      /\ \A q \in Scanners \ {p} : scan'[q] = scan[q]
  BY <1>1 DEF IInv, PushTypeOK
<1>4. ScanInv(p)'
  BY <1>1, <1>3 DEF IInv, ScanInv, CursorInv, Visible, Untried, logVars
<1> QED BY <1>1, <1>2, <1>3, <1>4, ScanMoves

LEMMA NoScanInv ==
  ASSUME NEW p \in Scanners, scan'[p] = NoScan
  PROVE  ScanInv(p)'
BY DEF ScanInv, NoScan

LEMMA SelectBatchInv ==
  ASSUME IInv, UNCHANGED pipelineVars, NEW p \in Scanners, SelectBatch(p)
  PROVE  IInv'
<1> DEFINE rows == Batch(scan[p].last)
           next == IF rows = {} THEN NoScan
                   ELSE [pc |-> "next", batch |-> rows, to |-> {}, last |-> scan[p].last]
<1>1. /\ scan' = [scan EXCEPT ![p] = next] /\ scan[p].pc = "select"
      /\ UNCHANGED <<cursor, subEvents, aborts, logVars>>
  BY DEF SelectBatch
<1>2. rows \subseteq Visible /\ Visible \subseteq Ids
  BY DEF Batch, Behind, Visible
<1>3. scan[p].last \in 0..MaxId /\ scan[p].last \in {0} \cup Visible
  BY DEF IInv, PushTypeOK, ScanInv
<1>4. next \in [pc : {"idle", "select", "next", "send"}, batch : SUBSET Ids, to : SUBSET Subs, last : 0..MaxId]
  BY <1>2, <1>3, LogAssumption DEF NoScan
<1>5. PushTypeOK' /\ scan'[p] = next /\ \A q \in Scanners \ {p} : scan'[q] = scan[q]
  BY <1>1, <1>4 DEF IInv, PushTypeOK
<1>6. ScanInv(p)'
  <2>1. CASE rows = {}
    BY <1>5, <2>1, NoScanInv
  <2>2. CASE rows # {}
    <3>1. \A e \in Untried : scan[p].last < e
      BY <1>1 DEF IInv, ScanInv
    <3>2. \A e \in Untried : e \in rows \/ \A i \in rows : i < e
      BY <1>3, <3>1, BatchHasNoGaps DEF Untried
    <3>3. Visible' = Visible /\ Untried' = Untried
      BY <1>1 DEF Visible, Untried, logVars
    <3> QED BY <1>2, <1>3, <1>5, <2>2, <3>1, <3>2, <3>3 DEF ScanInv
  <2> QED BY <2>1, <2>2
<1> QED BY <1>1, <1>5, <1>6, ScanMoves

LEMMA NextEventInv ==
  ASSUME IInv, UNCHANGED pipelineVars, NEW p \in Scanners, NEW e \in Ids, NextEvent(p, e)
  PROVE  IInv'
<1> DEFINE next == [pc |-> IF events[e].kind = "gate" /\ Registered # {} THEN "send" ELSE "next",
                    batch |-> scan[p].batch \ {e},
                    to |-> IF events[e].kind = "gate" THEN Registered ELSE {},
                    last |-> e]
<1>1. /\ scan' = [scan EXCEPT ![p] = next] /\ scan[p].pc = "next"
      /\ e \in scan[p].batch /\ \A i \in scan[p].batch : e <= i
      /\ UNCHANGED <<cursor, subEvents, aborts, logVars>>
  BY DEF NextEvent, NextRow, Notifies
<1>2. e \in Visible /\ scan[p].batch \subseteq Visible
  BY <1>1 DEF IInv, ScanInv
<1>3. next \in [pc : {"idle", "select", "next", "send"}, batch : SUBSET Ids, to : SUBSET Subs, last : 0..MaxId]
  BY LogAssumption DEF IInv, PushTypeOK, Registered, Ids
<1>4. PushTypeOK' /\ scan'[p] = next /\ \A q \in Scanners \ {p} : scan'[q] = scan[q]
  BY <1>1, <1>3 DEF IInv, PushTypeOK
<1>5. Visible' = Visible /\ Untried' = Untried /\ events' = events
  BY <1>1 DEF Visible, Untried, logVars
<1>6. ASSUME NEW i \in Untried
      PROVE  \/ i \in next.batch
             \/ next.last < i /\ \A k \in next.batch : k < i
             \/ next.pc = "send" /\ i = next.last /\ events[i].owes \subseteq next.to
  <2>1. CASE i = e
    <3>1. /\ events[e].owes # {} /\ events[e].owes \subseteq Registered /\ events[e].kind # "other"
          /\ events[e].kind \in {"gate", "other"}
      BY <2>1 DEF Untried, Visible, IInv, LogInv, LogTypeOK
    <3> QED BY <2>1, <3>1
  <2>2. CASE i # e
    BY <1>1, <2>2 DEF IInv, ScanInv
  <2> QED BY <2>1, <2>2
<1>7. ScanInv(p)'
  <2>1. next.batch \subseteq Visible /\ next.last \in Visible /\ next.pc \in {"send", "next"}
    BY <1>2
  <2> HIDE DEF next
  <2> QED BY <1>4, <1>5, <1>6, <2>1 DEF ScanInv
<1> QED BY <1>1, <1>4, <1>7, ScanMoves
LEMMA SendInv ==
  ASSUME IInv, UNCHANGED pipelineVars, NEW p \in Scanners, Send(p)
  PROVE  IInv'
<1> DEFINE l == scan[p].last
<1>1. PICK s \in scan[p].to :
        /\ scan' = [scan EXCEPT ![p] = [scan[p] EXCEPT
             !.to = scan[p].to \ {s}, !.pc = IF scan[p].to = {s} THEN "next" ELSE "send"]]
        /\ \/ subs[s] = "dead" /\ subs' = [subs EXCEPT ![s] = "absent"] /\ events' = Excused(s)
           \/ /\ events' = [events EXCEPT ![l] = [events[l] EXCEPT !.owes = events[l].owes \ {s}]]
              /\ UNCHANGED subs
  BY DEF Send, Gone
<1>2. scan[p].pc = "send" /\ UNCHANGED <<nextId, cursor, subEvents, aborts>> /\ s \in Subs /\ l \in Visible
  BY DEF Send, Gone, IInv, PushTypeOK, ScanInv
<1>3. /\ scan'[p].to = scan[p].to \ {s} /\ scan'[p].batch = scan[p].batch /\ scan'[p].last = l
      /\ scan'[p].pc = IF scan[p].to = {s} THEN "next" ELSE "send"
      /\ \A q \in Scanners \ {p} : scan'[q] = scan[q]
      /\ PushTypeOK'
  BY <1>1, <1>2 DEF IInv, PushTypeOK
<1>4. /\ events' \in [Ids -> [kind : {"gate", "other"}, owes : SUBSET Subs] \cup {Null}]
      /\ \A e \in Ids : events'[e] = Null <=> events[e] = Null
      /\ \A e \in Visible : events'[e].owes \subseteq events[e].owes /\ events'[e].kind = events[e].kind
      /\ events'[l].owes = events[l].owes \ {s}
      /\ subs' \in [Subs -> {"absent", "live", "dead"}]
      /\ \A e \in Visible : events'[e].owes \subseteq Registered'
  <2>1. CASE subs' = [subs EXCEPT ![s] = "absent"] /\ events' = Excused(s)
    BY <1>2, <2>1, ExcusedShrinks
  <2>2. CASE /\ events' = [events EXCEPT ![l] = [events[l] EXCEPT !.owes = events[l].owes \ {s}]]
             /\ UNCHANGED subs
    <3> DEFINE less == [events[l] EXCEPT !.owes = events[l].owes \ {s}]
    <3>1. events[l] \in [kind : {"gate", "other"}, owes : SUBSET Subs] /\ l \in Ids
      BY <1>2 DEF IInv, LogInv, LogTypeOK, Visible
    <3>2. /\ less \in [kind : {"gate", "other"}, owes : SUBSET Subs]
          /\ less.owes = events[l].owes \ {s} /\ less.kind = events[l].kind
      BY <3>1
    <3> HIDE DEF less
    <3>3. events'[l] = less /\ \A e \in Ids \ {l} : events'[e] = events[e]
      BY <2>2, <3>1 DEF IInv, LogInv, LogTypeOK, less
    <3>4. /\ events' \in [Ids -> [kind : {"gate", "other"}, owes : SUBSET Subs] \cup {Null}]
          /\ \A e \in Ids : events'[e] = Null <=> events[e] = Null
      BY <1>2, <2>2, <3>2, <3>3, LogAssumption DEF IInv, LogInv, LogTypeOK, less, Visible
    <3>5. Registered' = Registered /\ Visible \subseteq Ids
      BY <2>2 DEF Registered, Visible
    <3> QED BY <2>2, <3>2, <3>3, <3>4, <3>5 DEF IInv, LogInv, LogTypeOK
  <2> QED BY <1>1, <2>1, <2>2
<1>5. /\ LogInv' /\ CursorInv' /\ Visible' = Visible /\ Untried' \subseteq Untried
      /\ \A q \in Scanners : scan'[q] = scan[q] => ScanInv(q)'
  BY <1>2, <1>4, OwesShrink
<1>6. ASSUME NEW e \in Untried'
      PROVE  \/ e \in scan'[p].batch
             \/ scan'[p].last < e /\ \A i \in scan'[p].batch : i < e
             \/ scan'[p].pc = "send" /\ e = scan'[p].last /\ events'[e].owes \subseteq scan'[p].to
  <2>1. e \in Untried /\ events'[e].owes # {} /\ events'[e].owes \subseteq events[e].owes
    BY <1>4, <1>5 DEF Untried
  <2>2. CASE e = l /\ events[e].owes \subseteq scan[p].to
    BY <1>3, <1>4, <2>1, <2>2
  <2>3. CASE e \in scan[p].batch \/ (l < e /\ \A i \in scan[p].batch : i < e)
    BY <1>3, <2>3
  <2> QED BY <1>2, <2>1, <2>2, <2>3 DEF IInv, ScanInv
<1>7. ScanInv(p)'
  BY <1>2, <1>3, <1>5, <1>6 DEF IInv, ScanInv
<1> QED BY <1>2, <1>3, <1>4, <1>5, <1>7, OweLess

LEMMA SetCursorInv ==
  ASSUME IInv, UNCHANGED pipelineVars, NEW p \in Scanners, SetCursor(p)
  PROVE  IInv'
<1>1. /\ scan[p].pc = "next" /\ scan[p].batch = {} /\ cursor' = scan[p].last
      /\ scan' = [scan EXCEPT ![p] = NoScan]
      /\ UNCHANGED <<subEvents, aborts, logVars>>
  BY DEF SetCursor
<1>2. PushTypeOK' /\ scan'[p] = NoScan /\ \A q \in Scanners \ {p} : scan'[q] = scan[q]
  BY <1>1, LogAssumption DEF IInv, PushTypeOK, NoScan
<1>3. Visible' = Visible /\ Untried' = Untried /\ nextId' = nextId /\ events' = events
  BY <1>1 DEF Visible, Untried, logVars
<1>4. LogInv'
  BY <1>1, <1>3 DEF IInv, LogInv, LogTypeOK, Registered, logVars
<1>5. CursorInv'
  BY <1>1, <1>3 DEF IInv, ScanInv, CursorInv
<1>6. ScanInv(p)'
  BY <1>2, NoScanInv
<1>7. \A q \in Scanners \ {p} : ScanInv(q)'
  BY <1>2, <1>3 DEF IInv, ScanInv
<1>8. PipelineTypeOK' /\ StepInv' /\ WaitingIsAnnounced'
  <2>1. nextId' \in nextId..(MaxId + 1)
    BY <1>3, LogAssumption DEF IInv, LogInv, LogTypeOK
  <2> QED BY <1>3, <2>1, PipelinesStay
<1> QED BY <1>2, <1>4, <1>5, <1>6, <1>7, <1>8 DEF IInv

LEMMA AbortTickInv ==
  ASSUME IInv, UNCHANGED pipelineVars, NEW p \in Scanners, AbortTick(p)
  PROVE  IInv'
<1>1. /\ scan' = [scan EXCEPT ![p] = NoScan] /\ aborts' = aborts + 1 /\ aborts < MaxAborts
      /\ UNCHANGED <<cursor, subEvents, logVars>>
  BY DEF AbortTick
<1>2. PushTypeOK' /\ scan'[p] = NoScan /\ \A q \in Scanners \ {p} : scan'[q] = scan[q]
  BY <1>1, LogAssumption, PushAssumption DEF IInv, PushTypeOK, NoScan
<1>3. ScanInv(p)'
  BY <1>2, NoScanInv
<1> QED BY <1>1, <1>2, <1>3, ScanMoves

LEMMA TakeIdGrows ==
  ASSUME IInv, TakeId
  PROVE  /\ nextId' = nextId + 1 /\ nextId \in Ids /\ nextId' \in nextId..(MaxId + 1)
         /\ events[nextId] = Null
<1>1. nextId \in Nat /\ nextId' = nextId + 1 /\ nextId \in Ids
  BY LogAssumption DEF TakeId, IInv, LogInv, LogTypeOK
<1> QED BY <1>1, LogAssumption DEF IInv, LogInv, Visible, Ids

LEMMA OtherGateInv ==
  ASSUME IInv, UNCHANGED pipelineVars, OtherGate
  PROVE  IInv'
<1>1. TakeId /\ Insert(nextId, "gate") /\ UNCHANGED <<subs, pushVars>>
  BY DEF OtherGate
<1>2. /\ nextId \in Ids /\ events[nextId] = Null /\ nextId' \in nextId..(MaxId + 1)
      /\ nextId < nextId' /\ nextId \in Nat
  BY <1>1, TakeIdGrows, LogAssumption DEF Ids
<1>3. /\ LogInv' /\ PushTypeOK' /\ CursorInv' /\ \A p \in Scanners : ScanInv(p)'
      /\ \A i \in Ids \ {nextId} : events'[i] = events[i]
  BY <1>1, <1>2, InsertLands
<1>4. \A i \in 1..(nextId - 1) : events'[i] = events[i]
  BY <1>2, <1>3, LogAssumption DEF Ids
<1> QED BY <1>2, <1>3, <1>4, PipelinesStay DEF IInv
-----------------------------------------------------------------------------
(* The pipelines. *)

Announced(r) ==
  /\ r.status = "awaiting_approval" => r.approval /\ r.gateEvent # 0
  /\ r.status = "gated" => r.gateEvent # 0

\* A statement that writes no event.
LEMMA Quietly ==
  ASSUME IInv, UNCHANGED <<events, subs, pushVars>>, nextId' \in nextId..(MaxId + 1),
         PipelineTypeOK', StepInv', WaitingIsAnnounced'
  PROVE  IInv'
BY LogStays DEF IInv

\* A statement that changes the row of the run in hand.
LEMMA RunWritten ==
  ASSUME IInv, job = "running", NEW r \in Runs, Announced(r), runs' = [runs EXCEPT ![Last] = r]
  PROVE  /\ runs' \in Seq(Runs) /\ Len(runs') = Len(runs) /\ runs' # << >> /\ runs'[Last] = r
         /\ Last' = Last /\ Len(runs') <= MaxAttempts /\ WaitingIsAnnounced'
<1>1. runs \in Seq(Runs) /\ Last \in 1..Len(runs)
  BY DEF IInv, StepInv, PipelineTypeOK, Last
<1>2. /\ runs' \in Seq(Runs) /\ Len(runs') = Len(runs)
      /\ \A n \in 1..Len(runs) : runs'[n] = IF n = Last THEN r ELSE runs[n]
  BY <1>1, ExceptSeq
<1>3. \A n \in DOMAIN runs' : n \in DOMAIN runs /\ (runs'[n] = r \/ runs'[n] = runs[n])
  BY <1>1, <1>2
<1>4. WaitingIsAnnounced'
  BY <1>3 DEF IInv, WaitingIsAnnounced, Announced
<1> QED BY <1>1, <1>2, <1>4 DEF IInv, PipelineTypeOK, Last

LEMMA TheRun ==
  ASSUME IInv, job = "running"
  PROVE  runs[Last] \in Runs /\ Announced(runs[Last]) /\ Last \in DOMAIN runs
<1>1. runs \in Seq(Runs) /\ Last \in 1..Len(runs)
  BY DEF IInv, StepInv, PipelineTypeOK, Last
<1> QED BY <1>1 DEF IInv, WaitingIsAnnounced, Announced

LEMMA StartJobInv ==
  ASSUME IInv, UNCHANGED pushVars, StartJob
  PROVE  IInv'
<1> DEFINE new == [status |-> "running", approval |-> FALSE, verdict |-> Null, gateEvent |-> 0]
<1>1. /\ job' = "running" /\ step' = Start /\ runs' = Append(runs, new) /\ Len(runs) < MaxAttempts
      /\ UNCHANGED <<cache, cacheFaults, logVars>>
  BY DEF StartJob, Last
<1>2. new \in Runs
  BY LogAssumption DEF Runs
<1>3. runs' \in Seq(Runs) /\ Len(runs') = Len(runs) + 1 /\ runs' # << >>
      /\ \A n \in DOMAIN runs' : runs'[n] = new \/ (n \in DOMAIN runs /\ runs'[n] = runs[n])
  <2>1. runs \in Seq(Runs)
    BY DEF IInv, PipelineTypeOK
  <2> HIDE DEF new
  <2> QED BY <1>1, <1>2, <2>1
<1>4. PipelineTypeOK'
  <2>1. Len(runs') <= MaxAttempts
    BY <1>1, <1>3, PipelineAssumption DEF IInv, PipelineTypeOK
  <2>2. Len(Stages) \in Nat
    BY PipelineAssumption
  <2> QED BY <1>1, <1>3, <2>1, <2>2, LogAssumption DEF IInv, PipelineTypeOK, Start, Turn
<1>5. StepInv'
  BY <1>1, <1>3 DEF StepInv, Start, Turn
<1>6. WaitingIsAnnounced'
  BY <1>3 DEF IInv, WaitingIsAnnounced
<1>7. nextId' \in nextId..(MaxId + 1) /\ UNCHANGED <<events, subs>>
  BY <1>1, LogAssumption DEF logVars, IInv, LogInv, LogTypeOK
<1> QED BY <1>4, <1>5, <1>6, <1>7, Quietly

LEMMA AnnounceTypes ==
  ASSUME IInv, NEW v \in {"pass", "low", "gate", "error"}, Announce(v), job = "running"
  PROVE  /\ step' = [pc |-> "emit", stage |-> step.stage, verdict |-> v, event |-> nextId]
         /\ step' \in [pc : {"run", "judge", "cache", "emit", "status"}, stage : 1..(Len(Stages) + 1),
                       verdict : {Null} \cup Verdicts \cup {"gate", "error"}, event : 0..MaxId]
         /\ nextId \in 1..(nextId' - 1) /\ nextId' \in nextId..(MaxId + 1) /\ events[nextId] = Null
<1>1. /\ nextId' = nextId + 1 /\ nextId \in Ids /\ nextId' \in nextId..(MaxId + 1)
      /\ events[nextId] = Null
      /\ step' = [pc |-> "emit", stage |-> step.stage, verdict |-> v, event |-> nextId]
  BY TakeIdGrows DEF Announce
<1>2. step.stage \in 1..(Len(Stages) + 1) /\ nextId \in 0..MaxId /\ nextId \in 1..(nextId' - 1)
  BY <1>1, LogAssumption DEF IInv, PipelineTypeOK, Ids
<1> QED BY <1>1, <1>2 DEF Verdicts

LEMMA InsertApprovalInv ==
  ASSUME IInv, UNCHANGED pushVars, InsertApproval
  PROVE  IInv'
<1> DEFINE r == [runs[Last] EXCEPT !.approval = TRUE]
<1>1. /\ job = "running" /\ step.pc = "run" /\ step.stage <= Len(Stages) /\ Stage = "gated"
      /\ Announce("gate") /\ runs' = [runs EXCEPT ![Last] = r]
      /\ UNCHANGED <<cache, cacheFaults, job, events, subs>>
  BY DEF InsertApproval, At
<1>2. r \in Runs /\ Announced(r) /\ r.approval
  BY <1>1, TheRun DEF Runs, Announced
<1> HIDE DEF r
<1>3. /\ runs' \in Seq(Runs) /\ Len(runs') <= MaxAttempts /\ runs' # << >> /\ runs'[Last] = r
      /\ Last' = Last /\ WaitingIsAnnounced'
  BY <1>1, <1>2, RunWritten
<1>4. PipelineTypeOK'
  BY <1>1, <1>3, AnnounceTypes DEF IInv, PipelineTypeOK
<1>5. StepInv'
  BY <1>1, <1>2, <1>3, AnnounceTypes DEF StepInv, Stage
<1> QED BY <1>1, <1>3, <1>4, <1>5, AnnounceTypes, Quietly

\* A verdict is settled without a row of the run being written.
LEMMA AnnounceInv ==
  ASSUME IInv, UNCHANGED <<pushVars, runs, job, events, subs>>, job = "running",
         NEW v \in {"pass", "low", "error"}, Announce(v), step.stage <= Len(Stages),
         cache' \in {Null} \cup Verdicts, cacheFaults' \in 0..MaxCacheFaults
  PROVE  IInv'
<1>1. PipelineTypeOK'
  BY AnnounceTypes DEF IInv, PipelineTypeOK
<1>2. StepInv'
  BY AnnounceTypes DEF IInv, StepInv
<1>3. WaitingIsAnnounced'
  BY DEF IInv, WaitingIsAnnounced
<1> QED BY <1>1, <1>2, <1>3, AnnounceTypes, Quietly

LEMMA SameId == IInv /\ nextId' = nextId => nextId' \in nextId..(MaxId + 1)
BY LogAssumption DEF IInv, LogInv, LogTypeOK

LEMMA RunStageInv ==
  ASSUME IInv, UNCHANGED pushVars, RunStage
  PROVE  IInv'
<1>1. /\ job = "running" /\ step.pc = "run" /\ step.stage <= Len(Stages)
      /\ UNCHANGED <<runs, cache, cacheFaults, job, events, subs>>
      /\ \/ step' = [step EXCEPT !.pc = "judge"] /\ UNCHANGED nextId
         \/ \E v \in {"error", "pass"} : Announce(v)
  BY DEF RunStage, At
<1>2. CASE \E v \in {"error", "pass"} : Announce(v)
  BY <1>1, <1>2, AnnounceInv DEF IInv, PipelineTypeOK
<1>3. CASE step' = [step EXCEPT !.pc = "judge"] /\ UNCHANGED nextId
  <2>1. PipelineTypeOK'
    BY <1>1, <1>3 DEF IInv, PipelineTypeOK
  <2>2. StepInv'
    BY <1>1, <1>3 DEF IInv, StepInv, PipelineTypeOK
  <2>3. WaitingIsAnnounced'
    BY <1>1 DEF IInv, WaitingIsAnnounced
  <2> QED BY <1>1, <1>3, <2>1, <2>2, <2>3, SameId, Quietly
<1> QED BY <1>1, <1>2, <1>3

LEMMA JudgeInv ==
  ASSUME IInv, UNCHANGED pushVars, Judge
  PROVE  IInv'
<1>1. /\ job = "running" /\ step.pc = "judge" /\ step.stage <= Len(Stages)
      /\ UNCHANGED <<runs, cache, cacheFaults, job, events, subs>>
  BY DEF Judge, At, IInv, StepInv
<1>2. CASE cache # Null
  <2>1. Announce(cache) /\ cache \in {"pass", "low", "error"}
    BY <1>2 DEF Judge, IInv, PipelineTypeOK, Verdicts
  <2> QED BY <1>1, <2>1, AnnounceInv DEF IInv, PipelineTypeOK
<1>3. CASE cache = Null
  <2>1. PICK v \in Verdicts : step' = [step EXCEPT !.pc = "cache", !.verdict = v]
    BY <1>3 DEF Judge
  <2>2. PipelineTypeOK'
    BY <1>1, <2>1 DEF IInv, PipelineTypeOK
  <2>3. StepInv'
    BY <1>1, <2>1 DEF IInv, StepInv, PipelineTypeOK
  <2>4. WaitingIsAnnounced' /\ nextId' = nextId
    BY <1>1, <1>3 DEF IInv, WaitingIsAnnounced, Judge
  <2> QED BY <1>1, <2>2, <2>3, <2>4, SameId, Quietly
<1> QED BY <1>2, <1>3

LEMMA SetCachedInv ==
  ASSUME IInv, UNCHANGED pushVars, SetCached
  PROVE  IInv'
<1>1. /\ job = "running" /\ step.verdict \in Verdicts /\ step.stage <= Len(Stages)
      /\ Announce(step.verdict) /\ UNCHANGED <<runs, job, events, subs>>
  BY DEF SetCached, At, IInv, StepInv
<1>2. cache' \in {Null} \cup Verdicts /\ cacheFaults' \in 0..MaxCacheFaults
  BY <1>1, PipelineAssumption DEF SetCached, IInv, PipelineTypeOK
<1>3. step.verdict \in {"pass", "low", "error"}
  BY <1>1 DEF Verdicts
<1> QED BY <1>1, <1>2, <1>3, AnnounceInv

LEMMA EmitStageInv ==
  ASSUME IInv, UNCHANGED pushVars, EmitStage
  PROVE  IInv'
<1> DEFINE v == step.verdict
           kind == IF v \in {"low", "gate"} THEN "gate" ELSE "other"
           r == [runs[Last] EXCEPT
                  !.gateEvent = IF v \in {"low", "gate"} THEN step.event ELSE runs[Last].gateEvent,
                  !.verdict = IF Stage = "eval" /\ v # "error" THEN v ELSE runs[Last].verdict]
<1>1. /\ job = "running" /\ Insert(step.event, kind) /\ runs' = [runs EXCEPT ![Last] = r]
      /\ step' = IF v = "pass" THEN Turn(step.stage + 1) ELSE [step EXCEPT !.pc = "status"]
      /\ UNCHANGED <<cache, cacheFaults, job, nextId, subs>>
  BY DEF EmitStage, At
<1>2. /\ step.event \in 1..(nextId - 1) /\ events[step.event] = Null
      /\ v \in {"pass", "low", "gate", "error"} /\ step.stage <= Len(Stages)
      /\ (v = "gate" => Stage # "eval" /\ runs[Last].approval)
  BY DEF EmitStage, At, IInv, StepInv
<1>3. step.event \in Ids /\ step.event # 0 /\ step.event < nextId /\ nextId' \in nextId..(MaxId + 1)
  BY <1>1, <1>2, SameId, LogAssumption DEF IInv, LogInv, LogTypeOK, Ids
<1>4. LogInv' /\ PushTypeOK' /\ CursorInv' /\ \A p \in Scanners : ScanInv(p)'
  BY <1>1, <1>2, <1>3, InsertLands
<1>5. /\ r \in Runs /\ Announced(r) /\ r.approval = runs[Last].approval
      /\ v \in {"low", "gate"} => r.gateEvent # 0
  <2>1. runs[Last] \in Runs /\ Announced(runs[Last])
    BY <1>1, TheRun
  <2>2. step.event \in 0..MaxId /\ (Stage = "eval" /\ v # "error" => v \in Verdicts)
    BY <1>2, <1>3, LogAssumption DEF Ids, Verdicts
  <2> QED BY <1>3, <2>1, <2>2 DEF Runs, Announced
<1> HIDE DEF r, kind
<1>6. /\ runs' \in Seq(Runs) /\ Len(runs') <= MaxAttempts /\ runs' # << >> /\ runs'[Last] = r
      /\ Last' = Last /\ WaitingIsAnnounced'
  BY <1>1, <1>5, RunWritten
<1>7. PipelineTypeOK' /\ StepInv'
  <2>1. CASE v = "pass"
    <3>1. step' = [pc |-> "run", stage |-> step.stage + 1, verdict |-> Null, event |-> 0]
      BY <1>1, <2>1 DEF Turn
    <3>2. step.stage + 1 \in 1..(Len(Stages) + 1) /\ 0 \in 0..MaxId
      BY <1>2, PipelineAssumption, LogAssumption DEF IInv, PipelineTypeOK
    <3> QED BY <1>1, <1>6, <3>1, <3>2 DEF IInv, PipelineTypeOK, StepInv
  <2>2. CASE v # "pass"
    <3>1. step' = [step EXCEPT !.pc = "status"]
      BY <1>1, <2>2
    <3>2. PipelineTypeOK'
      BY <1>1, <1>6, <3>1 DEF IInv, PipelineTypeOK
    <3>3. step'.pc = "status" /\ step'.stage = step.stage /\ step'.verdict = v
      BY <3>1 DEF IInv, PipelineTypeOK
    <3> QED BY <1>1, <1>2, <1>5, <1>6, <2>2, <3>2, <3>3 DEF StepInv
  <2> QED BY <2>1, <2>2
<1> QED BY <1>4, <1>6, <1>7 DEF IInv

\* A job that has ended, whatever way, holds nothing.
LEMMA JobEnds ==
  ASSUME IInv, UNCHANGED <<cache, cacheFaults, logVars, pushVars>>, step' = Start,
         job' \in {"queued", "done", "failed"}, runs' \in Seq(Runs), Len(runs') <= MaxAttempts,
         WaitingIsAnnounced'
  PROVE  IInv'
<1>1. Start \in [pc : {"run", "judge", "cache", "emit", "status"}, stage : 1..(Len(Stages) + 1),
                 verdict : {Null} \cup Verdicts \cup {"gate", "error"}, event : 0..MaxId]
  BY PipelineAssumption, LogAssumption DEF Start, Turn
<1>2. PipelineTypeOK'
  BY <1>1 DEF IInv, PipelineTypeOK
<1>3. StepInv'
  BY DEF StepInv
<1> QED BY <1>2, <1>3, SameId, Quietly DEF logVars

LEMMA SetRunStatusInv ==
  ASSUME IInv, UNCHANGED pushVars, SetRunStatus
  PROVE  IInv'
<1> DEFINE v == step.verdict
           status == CASE v = "gate" -> "awaiting_approval"
                       [] v = "low" -> "gated"
                       [] v = "error" -> "failed"
                       [] OTHER -> "completed"
           r == [runs[Last] EXCEPT !.status = status]
<1>1. /\ job = "running" /\ runs' = [runs EXCEPT ![Last] = r] /\ step' = Start
      /\ job' \in {"queued", "done", "failed"} /\ UNCHANGED <<cache, cacheFaults, logVars>>
      /\ step.pc \in {"status", "run"}
  BY DEF SetRunStatus, At
<1>2. /\ v = "gate" => runs[Last].approval /\ runs[Last].gateEvent # 0
      /\ v = "low" => runs[Last].gateEvent # 0
  BY <1>1, PipelineAssumption DEF IInv, StepInv
<1>3. /\ status \in {"awaiting_approval", "gated", "failed", "completed"}
      /\ status = "awaiting_approval" => v = "gate"
      /\ status = "gated" => v = "low"
  BY DEF status
<1> HIDE DEF status
<1>4. r \in Runs /\ Announced(r)
  BY <1>1, <1>2, <1>3, TheRun DEF Runs, Announced
<1> HIDE DEF r
<1>5. runs' \in Seq(Runs) /\ Len(runs') <= MaxAttempts /\ WaitingIsAnnounced'
  BY <1>1, <1>4, RunWritten
<1> QED BY <1>1, <1>5, JobEnds

LEMMA AbandonJobInv ==
  ASSUME IInv, UNCHANGED pushVars, AbandonJob
  PROVE  IInv'
<1>1. /\ step' = Start /\ UNCHANGED <<runs, cache, cacheFaults, logVars>>
      /\ job' \in {"queued", "done", "failed"}
  BY DEF AbandonJob, Retried
<1>2. runs' \in Seq(Runs) /\ Len(runs') <= MaxAttempts /\ WaitingIsAnnounced'
  BY <1>1 DEF IInv, PipelineTypeOK, WaitingIsAnnounced
<1> QED BY <1>1, <1>2, JobEnds

LEMMA NextIInv == IInv /\ [Next]_vars => IInv'
<1> SUFFICES ASSUME IInv, [Next]_vars PROVE IInv'
  OBVIOUS
<1>1. CASE PipelineNext /\ UNCHANGED pushVars
  BY <1>1, StartJobInv, InsertApprovalInv, RunStageInv, JudgeInv, SetCachedInv, EmitStageInv,
     SetRunStatusInv, AbandonJobInv DEF PipelineNext
<1>2. CASE PushNext /\ UNCHANGED pipelineVars
  <2>1. CASE \E p \in Scanners : Tick(p) \/ AbortTick(p)
    BY <1>2, <2>1, GetCursorInv, SelectBatchInv, NextEventInv, SendInv, SetCursorInv, AbortTickInv
       DEF Tick
  <2> QED BY <1>2, <2>1, OtherGateInv, SubscriptionInv DEF PushNext
<1>3. CASE UNCHANGED vars
  <2>1. UNCHANGED <<events, subs, pushVars>> /\ UNCHANGED pipelineVars /\ nextId' = nextId
    BY <1>3 DEF vars, logVars
  <2>2. PipelineTypeOK' /\ StepInv' /\ WaitingIsAnnounced'
    BY <2>1, SameId, PipelinesStay
  <2> QED BY <2>1, <2>2, SameId, Quietly
<1> QED BY <1>1, <1>2, <1>3 DEF Next
-----------------------------------------------------------------------------
\* The log, the runs, the job and the scans keep their types (lib.rs, push.rs).
THEOREM TypeCorrect == Spec => []TypeOK
<1>1. IInv => TypeOK
  BY DEF IInv, LogInv, TypeOK
<1> QED BY InitIInv, NextIInv, <1>1, PTL DEF Spec

\* Wherever the job is cut short, and however often it is tried again: a run that
\* says it waits for a human has its approval row and its event (lib.rs:237-273).
THEOREM WaitingRunsAreAnnounced == Spec => []WaitingIsAnnounced
<1>1. IInv => WaitingIsAnnounced
  BY DEF IInv
<1> QED BY InitIInv, NextIInv, <1>1, PTL DEF Spec

\* For any number of drainers, endpoints and events, and any batch size: the cursor
\* passes no gate whose push was not tried for all it is owed to (push.rs:402-450).
THEOREM PassedGatesWereTried == Spec => []PassedMeansTried
<1>1. IInv => PassedMeansTried
  <2> SUFFICES ASSUME IInv, NEW e \in 1..cursor, events[e] # Null
               PROVE  events[e].owes = {}
    BY DEF PassedMeansTried
  <2>1. e \in Ids /\ cursor \in Nat /\ ~ (cursor < e)
    BY LogAssumption DEF IInv, PushTypeOK, Ids
  <2> QED BY <2>1 DEF IInv, CursorInv, Untried, Visible
<1> QED BY InitIInv, NextIInv, <1>1, PTL DEF Spec
-----------------------------------------------------------------------------
(* Dispatch: what a machine has reached says what its job has done. *)

Pcs == {"begin", "decode", "whisper", "silent", "hear", "turn", "reply", "write", "ask", "clear",
        "tell", "lookup", "complete", "store", "close"}
Gots == Answers \cup Summaries \cup {Unset, "blind", "done", "failed"}

Reached(pc, i, got) ==
  /\ pc \in {"decode", "whisper", "silent", "hear", "turn", "reply"} => load[i].kind = "voice_turn"
  /\ pc \in {"turn", "reply"} => "heard" \in effects[i]
  /\ pc = "reply" => got # "error"
  /\ pc \in {"write", "ask", "clear"} => load[i].kind = "ingest"
  /\ pc = "tell" => load[i].kind = "pipeline"
  /\ pc \in {"lookup", "complete", "store"} => load[i].kind = "memory_sleep"
  /\ pc = "store" => got \in Summaries
  /\ pc = "close" => got \in {"done", "failed"} /\ (got = "done" => Earned(i))

MachineInv(n) ==
  activity[n].pc # "free" =>
    activity[n].item \in Items /\ Reached(activity[n].pc, activity[n].item, activity[n].got)

\* Whoever has missed the cache while its row is there had done so before it was
\* written, and has not gone on with a response of its own.
ReplayInv ==
  /\ StraysAreRivals
  /\ replay = Unset => \A n \in Machines : served[n] = {}
  /\ replay # Unset => \A n \in Missed : n \in rivals /\ served[n] \subseteq {replay}

DispatchInv ==
  /\ DispatchTypeOK
  /\ \A n \in Machines : MachineInv(n)
  /\ ReplayInv /\ DoneIsEarned

LEMMA DispatchInitInv == DispatchInit => DispatchInv
<1> SUFFICES ASSUME DispatchInit PROVE DispatchInv
  OBVIOUS
<1> USE DEF DispatchInit
<1>1. DispatchTypeOK
  <2>1. /\ itemPhase \in [Items -> {"waiting", "leased", "done", "failed"}]
        /\ holder \in [Items -> Machines \cup {NoMachine}] /\ grants \in [Items -> 0..MaxGrants]
    BY DispatchAssumption
  <2>2. deaths \in 0..MaxDeaths /\ slips \in 0..MaxSlips
    BY DispatchAssumption
  <2>3. /\ effects \in [Items -> SUBSET Doings] /\ picture \in BOOLEAN
        /\ replay \in {Unset} \cup Summaries
        /\ served \in [Machines -> SUBSET Summaries] /\ rivals \subseteq Machines
    OBVIOUS
  <2>4. Free \in [pc : {"free"}, item : {Unset}, got : {Unset}]
    BY DEF Free
  <2> QED BY <2>1, <2>2, <2>3, <2>4 DEF DispatchTypeOK
<1>2. \A n \in Machines : MachineInv(n)
  BY DEF MachineInv, Free
<1>3. ReplayInv /\ DoneIsEarned
  BY DEF ReplayInv, StraysAreRivals, DoneIsEarned
<1> QED BY <1>1, <1>2, <1>3 DEF DispatchInv

\* Nothing that was done is undone.
LEMMA ReachedStays ==
  ASSUME load' = load, NEW i \in Items, effects[i] \subseteq effects'[i], NEW pc, NEW got
  PROVE  (Earned(i) => Earned(i)') /\ (Reached(pc, i, got) => Reached(pc, i, got)')
<1>1. Earned(i) => Earned(i)'
  BY DEF Earned
<1> QED BY <1>1 DEF Reached

\* A handler goes one step on.
LEMMA HandlerGoes ==
  ASSUME DispatchInv, NEW n \in Machines, ~ Here(n, "free"), UNCHANGED <<fixed, queueVars, deaths>>,
         slips' \in 0..MaxSlips, NEW pc \in Pcs, NEW got \in Gots, Goto(n, pc, got),
         effects' \in [Items -> SUBSET Doings], \A i \in Items : effects[i] \subseteq effects'[i],
         picture' \in BOOLEAN, replay' \in {Unset} \cup Summaries,
         served' \in [Machines -> SUBSET Summaries], rivals' \subseteq Machines, ReplayInv', \A i \in Items : i = Item(n) => Reached(pc, i, got)'
  PROVE  DispatchInv'
<1>1. /\ load' = load /\ UNCHANGED <<itemPhase, holder, grants>> /\ Item(n) \in Items
      /\ activity' = [activity EXCEPT ![n] = [pc |-> pc, item |-> activity[n].item, got |-> got]]
  BY DEF fixed, queueVars, Goto, DispatchInv, MachineInv, Here, Item
<1>2. /\ activity'[n] = [pc |-> pc, item |-> activity[n].item, got |-> got]
      /\ \A m \in Machines \ {n} : activity'[m] = activity[m]
  BY <1>1 DEF DispatchInv, DispatchTypeOK
<1>3. DispatchTypeOK'
  <2>1. [pc |-> pc, item |-> activity[n].item, got |-> got] \in
          [pc : {"free"} \cup Pcs, item : Items \cup {Unset}, got : Gots]
    BY <1>1 DEF Item
  <2>2. activity' \in [Machines -> [pc : {"free"} \cup Pcs, item : Items \cup {Unset}, got : Gots]]
    BY <1>1, <2>1 DEF DispatchInv, DispatchTypeOK, Pcs, Gots
  <2> QED BY <1>1, <2>2 DEF DispatchInv, DispatchTypeOK, Pcs, Gots
<1>4. ASSUME NEW m \in Machines
      PROVE  MachineInv(m)'
  <2>1. CASE m = n
    BY <1>1, <1>2, <2>1 DEF MachineInv, Item
  <2>2. CASE m # n
    <3>1. activity'[m] = activity[m]
      BY <1>2, <2>2
    <3> QED BY <1>1, <3>1, ReachedStays DEF DispatchInv, MachineInv
  <2> QED BY <2>1, <2>2
<1>5. DoneIsEarned'
  BY <1>1, ReachedStays DEF DispatchInv, DoneIsEarned
<1> QED BY <1>3, <1>4, <1>5 DEF DispatchInv
LEMMA AtWork ==
  ASSUME DispatchInv, NEW n \in Machines, ~ Here(n, "free")
  PROVE  /\ Item(n) \in Items /\ activity[n].pc \in Pcs /\ activity[n].got \in Gots
         /\ Reached(activity[n].pc, Item(n), activity[n].got)
         /\ slips \in 0..MaxSlips /\ picture \in BOOLEAN
BY DEF DispatchInv, DispatchTypeOK, MachineInv, Here, Item, Pcs, Gots

\* A machine moves and the cache does not.
LEMMA ReplayStays ==
  ASSUME DispatchInv, NEW n \in Machines, NEW a, activity' = [activity EXCEPT ![n] = a],
         UNCHANGED <<replay, served, rivals>>,
         a.pc \in {"complete", "store"} => replay = Unset \/ n \in Missed
  PROVE  /\ replay' \in {Unset} \cup Summaries /\ served' \in [Machines -> SUBSET Summaries]
         /\ rivals' \subseteq Machines /\ ReplayInv'
<1>1. activity'[n] = a /\ \A m \in Machines \ {n} : activity'[m] = activity[m]
  BY DEF DispatchInv, DispatchTypeOK
<1>2. replay # Unset => \A m \in Missed' : m \in Missed
  BY <1>1 DEF Missed
<1>3. ReplayInv'
  BY <1>2 DEF DispatchInv, ReplayInv, StraysAreRivals
<1> QED BY <1>3 DEF DispatchInv, DispatchTypeOK

\* A step that leaves no trace.
LEMMA PlainGoes ==
  ASSUME DispatchInv, NEW n \in Machines, ~ Here(n, "free"),
         UNCHANGED <<fixed, queueVars, aiVars, effects, deaths>>, slips' \in 0..MaxSlips,
         NEW pc \in Pcs, NEW got \in Gots, Goto(n, pc, got), Reached(pc, Item(n), got),
         pc \in {"complete", "store"} => replay = Unset \/ n \in Missed
  PROVE  DispatchInv'
<1>1. /\ effects' \in [Items -> SUBSET Doings] /\ \A i \in Items : effects[i] \subseteq effects'[i]
      /\ picture' \in BOOLEAN
  BY DEF DispatchInv, DispatchTypeOK, aiVars
<1>3. /\ replay' \in {Unset} \cup Summaries /\ served' \in [Machines -> SUBSET Summaries]
      /\ rivals' \subseteq Machines /\ ReplayInv'
  BY ReplayStays DEF Goto, aiVars
<1>2. \A i \in Items : i = Item(n) => Reached(pc, i, got)'
  BY ReachedStays DEF fixed
<1> QED BY <1>1, <1>2, <1>3, HandlerGoes

\* A step that leaves its trace on the job.
LEMMA TraceGoes ==
  ASSUME DispatchInv, NEW n \in Machines, ~ Here(n, "free"),
         UNCHANGED <<fixed, queueVars, replay, served, rivals, deaths>>, picture' \in BOOLEAN,
         slips' \in 0..MaxSlips,
         NEW pc \in Pcs \ {"complete", "store"}, NEW got \in Gots, Goto(n, pc, got),
         NEW what \in Doings, Effect(n, what),
         \A i \in Items : i = Item(n) /\ what \in effects'[i] /\ effects[i] \subseteq effects'[i]
                            => Reached(pc, i, got)'
  PROVE  DispatchInv'
<1>1. Item(n) \in Items
  BY AtWork
<1>2. /\ effects' \in [Items -> SUBSET Doings] /\ \A i \in Items : effects[i] \subseteq effects'[i]
      /\ what \in effects'[Item(n)]
  BY <1>1 DEF Effect, DispatchInv, DispatchTypeOK
<1>3. /\ replay' \in {Unset} \cup Summaries /\ served' \in [Machines -> SUBSET Summaries]
      /\ rivals' \subseteq Machines /\ ReplayInv'
  BY ReplayStays DEF Goto
<1>4. \A i \in Items : i = Item(n) => Reached(pc, i, got)'
  BY <1>2
<1> QED BY <1>2, <1>3, <1>4, HandlerGoes

LEMMA SlipInBounds ==
  ASSUME slips \in 0..MaxSlips, slips' = slips \/ Slip
  PROVE  slips' \in 0..MaxSlips
BY DispatchAssumption DEF Slip

LEMMA BeginInv ==
  ASSUME DispatchInv, NEW n \in Machines, Begin(n)
  PROVE  DispatchInv'
<1>1. ~ Here(n, "free") /\ UNCHANGED <<fixed, queueVars, aiVars, effects, deaths, slips>>
  BY DEF Begin, Here
<1>2. \E pc \in Pcs \ {"complete", "store"}, got \in Gots : Goto(n, pc, got) /\ Reached(pc, Item(n), got)
  <2>1. CASE Load(n).kind = "voice_turn"
    <3>1. Goto(n, "close", "failed") \/ Goto(n, "decode", Unset)
      BY <2>1 DEF Begin
    <3> QED BY <2>1, <3>1 DEF Pcs, Gots, Reached, Load
  <2>2. CASE Load(n).kind = "ingest"
    <3>1. \/ Goto(n, "close", "failed") \/ Goto(n, "write", Unset)
          \/ \E a \in Answers : Goto(n, "clear", a)
      BY <2>2 DEF Begin
    <3> QED BY <2>2, <3>1 DEF Pcs, Gots, Reached, Load
  <2>3. CASE Load(n).kind = "pipeline"
    <3>1. Goto(n, "close", "failed") \/ \E got \in {"text", "blank"} : Goto(n, "tell", got)
      BY <2>3 DEF Begin
    <3> QED BY <2>3, <3>1 DEF Pcs, Gots, Answers, Reached, Load
  <2>4. CASE Load(n).kind = "memory_sleep"
    <3>1. Goto(n, "lookup", Unset)
      BY <2>4 DEF Begin
    <3> QED BY <2>4, <3>1 DEF Pcs, Gots, Reached, Load
  <2>5. CASE Load(n).kind = "module_build"
    <3>1. Goto(n, "close", "done")
      BY <2>5 DEF Begin
    <3> QED BY <2>5, <3>1 DEF Pcs, Gots, Reached, Earned, Load
  <2>6. CASE Load(n).kind \notin {"voice_turn", "ingest", "pipeline", "memory_sleep", "module_build"}
    <3>1. Goto(n, "close", "failed")
      BY <2>6 DEF Begin
    <3> QED BY <3>1 DEF Pcs, Gots, Reached
  <2> QED BY <2>1, <2>2, <2>3, <2>4, <2>5, <2>6
<1> QED BY <1>1, <1>2, PlainGoes, AtWork

\* The steps of a voice note.
LEMMA VoiceInv ==
  ASSUME DispatchInv, NEW n \in Machines,
         DecodeAudio(n) \/ Transcribe(n) \/ NotifySilence(n) \/ RecordHeard(n)
           \/ RunTurn(n) \/ NotifyReply(n)
  PROVE  DispatchInv'
<1>1. ~ Here(n, "free") /\ UNCHANGED <<fixed, queueVars, aiVars, deaths>>
  BY DEF DecodeAudio, Transcribe, NotifySilence, RecordHeard, RunTurn, NotifyReply, Here
<1>2. Reached(activity[n].pc, Item(n), activity[n].got) /\ Item(n) \in Items
  BY <1>1, AtWork
<1>3. slips' \in 0..MaxSlips /\ picture' \in BOOLEAN
  <2>1. slips' = slips \/ Slip
    BY DEF DecodeAudio, Transcribe, NotifySilence, RecordHeard, RunTurn, NotifyReply
  <2> QED BY <1>1, <2>1, AtWork, SlipInBounds DEF aiVars
<1>4. CASE DecodeAudio(n)
  <2>1. Goto(n, "close", "failed") \/ Goto(n, "whisper", Unset)
    BY <1>4 DEF DecodeAudio
  <2>2. Reached("close", Item(n), "failed") /\ Reached("whisper", Item(n), Unset) /\ UNCHANGED effects
    BY <1>2, <1>4 DEF Reached, DecodeAudio, Here
  <2> QED BY <1>1, <1>3, <2>1, <2>2, PlainGoes DEF Pcs, Gots
<1>5. CASE Transcribe(n)
  <2>1. PICK a \in Transcripts(n, Load(n).input) :
          CASE a = "error" -> Goto(n, "close", "failed")
            [] a = "blank" -> Goto(n, "silent", Unset)
            [] a = "text" -> Goto(n, "hear", Unset)
    BY <1>5 DEF Transcribe
  <2>2. a \in {"error", "blank", "text"}
    BY DEF Transcripts
  <2>3. Goto(n, "close", "failed") \/ Goto(n, "silent", Unset) \/ Goto(n, "hear", Unset)
    BY <2>1, <2>2
  <2>4. /\ Reached("close", Item(n), "failed") /\ Reached("silent", Item(n), Unset)
        /\ Reached("hear", Item(n), Unset) /\ UNCHANGED effects
    BY <1>2, <1>5 DEF Reached, Transcribe, Here
  <2> QED BY <1>1, <1>3, <2>3, <2>4, PlainGoes DEF Pcs, Gots
<1>6. CASE NotifySilence(n)
  <2>1. Goto(n, "close", "done") /\ Effect(n, "noticed") /\ load' = load
    BY <1>1, <1>6 DEF NotifySilence, fixed
  <2>2. load[Item(n)].kind = "voice_turn"
    BY <1>2, <1>6 DEF NotifySilence, Here, Reached
  <2>3. \A i \in Items : i = Item(n) /\ "noticed" \in effects'[i] => Reached("close", i, "done")'
    BY <2>1, <2>2 DEF Reached, Earned
  <2> QED BY <1>1, <1>3, <2>1, <2>3, TraceGoes DEF Pcs, Gots, Doings, aiVars
<1>7. CASE RecordHeard(n)
  <2>1. CASE Goto(n, "turn", Unset) /\ Effect(n, "heard")
    <3>1. load[Item(n)].kind = "voice_turn" /\ load' = load
      BY <1>1, <1>2, <1>7 DEF RecordHeard, Here, Reached, fixed
    <3>2. \A i \in Items : i = Item(n) /\ "heard" \in effects'[i] => Reached("turn", i, Unset)'
      BY <3>1 DEF Reached
    <3> QED BY <1>1, <1>3, <2>1, <3>2, TraceGoes DEF Pcs, Gots, Doings, aiVars
  <2>2. CASE Goto(n, "close", "failed") /\ UNCHANGED effects
    <3>1. Reached("close", Item(n), "failed")
      BY DEF Reached
    <3> QED BY <1>1, <1>3, <2>2, <3>1, PlainGoes DEF Pcs, Gots
  <2> QED BY <1>7, <2>1, <2>2 DEF RecordHeard
<1>8. CASE RunTurn(n)
  <2>1. Goto(n, "close", "failed") \/ \E a \in Answers \ {"error"} : Goto(n, "reply", a)
    BY <1>8 DEF RunTurn
  <2>2. /\ Reached("close", Item(n), "failed") /\ UNCHANGED effects
        /\ \A a \in Answers \ {"error"} : Reached("reply", Item(n), a)
    BY <1>2, <1>8 DEF Reached, RunTurn, Here
  <2> QED BY <1>1, <1>3, <2>1, <2>2, PlainGoes DEF Pcs, Gots
<1>9. CASE NotifyReply(n)
  <2>1. Goto(n, "close", "done") /\ Effect(n, "answered") /\ load' = load
    BY <1>1, <1>2, <1>9 DEF NotifyReply, fixed, Reached, Here
  <2>2. load[Item(n)].kind = "voice_turn" /\ "heard" \in effects[Item(n)]
    BY <1>2, <1>9 DEF NotifyReply, Here, Reached
  <2>3. \A i \in Items : i = Item(n) /\ "answered" \in effects'[i] /\ effects[i] \subseteq effects'[i]
          => Reached("close", i, "done")'
    BY <2>1, <2>2 DEF Reached, Earned
  <2> QED BY <1>1, <1>3, <2>1, <2>3, TraceGoes DEF Pcs, Gots, Doings, aiVars
<1> QED BY <1>4, <1>5, <1>6, <1>7, <1>8, <1>9
\* The steps of a caption, and the word to the admin.
LEMMA ImageInv ==
  ASSUME DispatchInv, NEW n \in Machines, WriteImage(n) \/ AskCli(n) \/ ClearImage(n) \/ TellAdmin(n)
  PROVE  DispatchInv'
<1>1. ~ Here(n, "free") /\ UNCHANGED <<fixed, queueVars, replay, served, rivals, deaths>> /\ load' = load
  BY DEF WriteImage, AskCli, ClearImage, TellAdmin, Here, aiVars, fixed
<1>2. Reached(activity[n].pc, Item(n), activity[n].got) /\ Item(n) \in Items
  BY <1>1, AtWork
<1>3. slips' \in 0..MaxSlips /\ picture' \in BOOLEAN
  <2>1. slips' = slips \/ Slip
    BY DEF WriteImage, AskCli, ClearImage, TellAdmin
  <2>2. picture' \in BOOLEAN
    BY <1>1, AtWork DEF WriteImage, AskCli, ClearImage, TellAdmin, aiVars
  <2> QED BY <1>1, <2>1, <2>2, AtWork, SlipInBounds
\* A step that only writes or clears the file.
<1>4. ASSUME UNCHANGED effects, NEW pc \in Pcs \ {"complete", "store"}, NEW got \in Gots,
             Goto(n, pc, got), Reached(pc, Item(n), got)
      PROVE  DispatchInv'
  <2>1. effects' \in [Items -> SUBSET Doings] /\ \A i \in Items : effects[i] \subseteq effects'[i]
    BY <1>4 DEF DispatchInv, DispatchTypeOK
  <2>3. /\ replay' \in {Unset} \cup Summaries /\ served' \in [Machines -> SUBSET Summaries]
        /\ rivals' \subseteq Machines /\ ReplayInv'
    BY <1>1, <1>4, ReplayStays DEF Goto
  <2>2. \A i \in Items : i = Item(n) => Reached(pc, i, got)'
    BY <1>1, <1>4, <2>1, ReachedStays
  <2> QED BY <1>1, <1>3, <1>4, <2>1, <2>2, <2>3, HandlerGoes
<1>5. CASE WriteImage(n)
  <2>1. (Goto(n, "ask", Unset) \/ Goto(n, "close", "failed")) /\ UNCHANGED effects
    BY <1>5 DEF WriteImage
  <2>2. Reached("close", Item(n), "failed") /\ Reached("ask", Item(n), Unset)
    BY <1>2, <1>5 DEF Reached, WriteImage, Here
  <2> QED BY <1>4, <2>1, <2>2 DEF Pcs, Gots
<1>6. CASE AskCli(n)
  <2>1. \E a \in Answers \cup {"blind"} : Goto(n, "clear", a)
    BY <1>6 DEF AskCli, CliAnswers, Answers
  <2>2. UNCHANGED effects /\ \A a \in Answers \cup {"blind"} : Reached("clear", Item(n), a)
    BY <1>2, <1>6 DEF Reached, AskCli, Here
  <2> QED BY <1>4, <2>1, <2>2 DEF Pcs, Gots
<1>7. CASE ClearImage(n)
  <2>1. load[Item(n)].kind = "ingest"
    BY <1>2, <1>7 DEF Reached, ClearImage, Here
  <2>2. CASE \E what \in {"captioned", "blind"} : Goto(n, "close", "done") /\ Effect(n, what)
    <3>1. \A what \in {"captioned", "blind"}, i \in Items :
            i = Item(n) /\ what \in effects'[i] => Reached("close", i, "done")'
      BY <1>1, <2>1 DEF Reached, Earned
    <3> QED BY <1>1, <1>3, <2>2, <3>1, TraceGoes DEF Pcs, Gots, Doings
  <2>3. CASE Goto(n, "close", "failed") /\ UNCHANGED effects
    BY <1>4, <2>3 DEF Pcs, Gots, Reached
  <2> QED BY <1>7, <2>2, <2>3 DEF ClearImage
<1>8. CASE TellAdmin(n)
  <2>1. load[Item(n)].kind = "pipeline"
    BY <1>2, <1>8 DEF Reached, TellAdmin, Here
  <2>2. \E what \in {"told", "ended"} : Goto(n, "close", "done") /\ Effect(n, what)
    BY <1>8 DEF TellAdmin
  <2>3. \A what \in {"told", "ended"}, i \in Items :
          i = Item(n) /\ what \in effects'[i] => Reached("close", i, "done")'
    BY <1>1, <2>1 DEF Reached, Earned
  <2> QED BY <1>1, <1>3, <2>2, <2>3, TraceGoes DEF Pcs, Gots, Doings
<1> QED BY <1>5, <1>6, <1>7, <1>8

\* The steps of a completion: the first one stored is the one that stays.
LEMMA ReplayStepInv ==
  ASSUME DispatchInv, NEW n \in Machines, LookupReplay(n) \/ Complete(n) \/ StoreReplay(n)
  PROVE  DispatchInv'
<1>1. /\ ~ Here(n, "free") /\ UNCHANGED <<fixed, queueVars, picture, deaths>> /\ load' = load
      /\ activity[n].pc \in {"lookup", "complete", "store"}
  BY DEF LookupReplay, Complete, StoreReplay, Here, aiVars, fixed
<1>2. /\ Item(n) \in Items /\ load[Item(n)].kind = "memory_sleep"
      /\ activity[n].pc = "store" => activity[n].got \in Summaries
  BY <1>1, AtWork DEF Reached
<1>3. slips' \in 0..MaxSlips
  <2>1. slips' = slips \/ Slip
    BY DEF LookupReplay, Complete, StoreReplay
  <2> QED BY <1>1, <2>1, AtWork, SlipInBounds
\* A response is served, and the cache says so of whom it was not written by.
<1>4. ASSUME NEW r \in Summaries, Serve(n, r), ReplayInv', replay' \in Summaries, rivals' \subseteq Machines
      PROVE  DispatchInv'
  <2>1. /\ effects' \in [Items -> SUBSET Doings] /\ \A i \in Items : effects[i] \subseteq effects'[i]
        /\ "slept" \in effects'[Item(n)]
    BY <1>2, <1>4 DEF Serve, Effect, Doings, DispatchInv, DispatchTypeOK
  <2>2. served' \in [Machines -> SUBSET Summaries] /\ picture' \in BOOLEAN /\ Goto(n, "close", "done")
    BY <1>1, <1>4 DEF Serve, DispatchInv, DispatchTypeOK
  <2>3. \A i \in Items : i = Item(n) => Reached("close", i, "done")'
    BY <1>1, <1>2, <2>1 DEF Reached, Earned
  <2> QED BY <1>1, <1>3, <1>4, <2>1, <2>2, <2>3, HandlerGoes DEF Pcs, Gots
\* n is done with the cache, and the others are where they were.
<1>8. ASSUME NEW r, Serve(n, r)
      PROVE  /\ Missed' = Missed \ {n} /\ served'[n] = served[n] \cup {r}
             /\ \A m \in Machines \ {n} : served'[m] = served[m]
  <2>1. /\ activity'[n].pc = "close" /\ \A m \in Machines \ {n} : activity'[m] = activity[m]
    BY <1>8 DEF Serve, Goto, DispatchInv, DispatchTypeOK
  <2> QED BY <1>8, <2>1 DEF Serve, Missed, DispatchInv, DispatchTypeOK
<1>5. CASE LookupReplay(n)
  <2>1. CASE replay # Unset
    <3>1. Serve(n, replay) /\ UNCHANGED <<replay, rivals>> /\ replay \in Summaries
      BY <1>5, <2>1 DEF LookupReplay, DispatchInv, DispatchTypeOK
    <3>2. /\ Missed' = Missed \ {n} /\ UNCHANGED <<replay, rivals>> /\ ReplayInv
          /\ \A m \in Machines : served'[m] \ {replay} = served[m] \ {replay}
      BY <1>8, <3>1 DEF DispatchInv
    <3>3. StraysAreRivals'
      BY <3>2 DEF ReplayInv, StraysAreRivals
    <3>4. \A m \in Missed' : m \in rivals' /\ served'[m] \subseteq {replay'}
      BY <2>1, <3>2 DEF ReplayInv, Missed
    <3>5. ReplayInv'
      BY <2>1, <3>2, <3>3, <3>4 DEF ReplayInv
    <3> QED BY <1>4, <3>1, <3>5 DEF DispatchInv, DispatchTypeOK
  <2>2. CASE replay = Unset
    <3>1. Goto(n, "complete", Unset) /\ UNCHANGED <<aiVars, effects>>
      BY <1>5, <2>2 DEF LookupReplay, aiVars
    <3>2. Reached("complete", Item(n), Unset)
      BY <1>2 DEF Reached
    <3> QED BY <1>1, <1>3, <2>2, <3>1, <3>2, PlainGoes DEF Pcs, Gots
  <2> QED BY <2>1, <2>2
<1>6. CASE Complete(n)
  <2>1. UNCHANGED <<aiVars, effects>> /\ \E got \in Summaries : Goto(n, "store", got)
    BY <1>6 DEF Complete, CliAnswers, Answers, Summaries
  <2>2. \A got \in Summaries : Reached("store", Item(n), got)
    BY <1>2 DEF Reached
  <2>3. n \in Missed
    BY <1>6 DEF Complete, Here, Missed
  <2> QED BY <1>1, <1>3, <2>1, <2>2, <2>3, PlainGoes DEF Pcs, Gots
<1>7. CASE StoreReplay(n)
  <2>1. n \in Missed /\ activity[n].got \in Summaries
    BY <1>2, <1>7 DEF StoreReplay, Here, Missed
  <2>2. CASE InsertReplay(n) /\ Serve(n, activity[n].got)
    <3>1. CASE replay = Unset
      <4>1. replay' = activity[n].got /\ rivals' = Missed \ {n}
        BY <2>2, <3>1 DEF InsertReplay
      <4>2. \A m \in Machines : served'[m] \subseteq {replay'}
        BY <1>8, <2>2, <3>1, <4>1 DEF DispatchInv, ReplayInv
      <4>3. replay' # Unset /\ Missed' \subseteq rivals'
        BY <1>8, <2>1, <2>2, <4>1, DispatchAssumption DEF Summaries
      <4>4. ReplayInv'
        BY <4>2, <4>3 DEF ReplayInv, StraysAreRivals, Missed
      <4> QED BY <1>4, <2>1, <2>2, <4>1, <4>4 DEF Missed
    <3>2. CASE replay # Unset
      <4>1. UNCHANGED <<replay, rivals>> /\ replay \in Summaries
        BY <2>2, <3>2 DEF InsertReplay, DispatchInv, DispatchTypeOK
      <4>2. n \in rivals /\ served[n] \subseteq {replay} /\ served'[n] = served[n] \cup {activity[n].got}
        BY <1>8, <2>1, <2>2, <3>2 DEF DispatchInv, ReplayInv
      <4>3. /\ Missed' = Missed \ {n} /\ ReplayInv
            /\ \A m \in Machines \ {n} : served'[m] = served[m]
        BY <1>8, <2>2 DEF DispatchInv
      <4>4. StraysAreRivals'
        <5> SUFFICES ASSUME NEW m \in Machines, NEW x \in served'[m] \ {replay}, NEW y \in served'[m] \ {replay}
                     PROVE  x = y /\ m \in rivals
          BY <4>1 DEF StraysAreRivals
        <5>1. CASE m = n
          BY <4>2, <5>1
        <5>2. CASE m # n
          BY <4>3, <5>2 DEF ReplayInv, StraysAreRivals
        <5> QED BY <5>1, <5>2
      <4>5. \A m \in Missed' : m \in rivals' /\ served'[m] \subseteq {replay'}
        BY <3>2, <4>1, <4>3 DEF ReplayInv, Missed
      <4>6. ReplayInv'
        BY <3>2, <4>1, <4>4, <4>5 DEF ReplayInv
      <4> QED BY <1>4, <2>1, <2>2, <4>1, <4>6 DEF DispatchInv, DispatchTypeOK
    <3> QED BY <3>1, <3>2
  <2>3. CASE Goto(n, "close", "failed") /\ UNCHANGED <<replay, served, rivals, effects>>
    BY <1>1, <1>3, <2>3, PlainGoes DEF Pcs, Gots, Reached, aiVars
  <2> QED BY <1>7, <2>2, <2>3 DEF StoreReplay
<1> QED BY <1>5, <1>6, <1>7
\* A machine is freed, or starts a job: what it had reached is forgotten.
LEMMA MachineTurns ==
  ASSUME DispatchInv, NEW n \in Machines, UNCHANGED <<fixed, aiVars, effects>>, DispatchTypeOK',
         NEW a \in {Free} \cup [pc : {"begin"}, item : Items, got : {Unset}],
         activity' = [activity EXCEPT ![n] = a],
         \A i \in Items : itemPhase'[i] = "done" => Earned(i)
  PROVE  DispatchInv'
<1>1. /\ activity'[n] = a /\ \A m \in Machines \ {n} : activity'[m] = activity[m]
      /\ load' = load /\ effects' = effects
  BY DEF DispatchInv, DispatchTypeOK, fixed
<1>2. MachineInv(n)'
  BY <1>1 DEF MachineInv, Free, Reached
<1>3. \A m \in Machines \ {n} : MachineInv(m)'
  BY <1>1, ReachedStays DEF DispatchInv, MachineInv
<1>4. ReplayInv'
  BY ReplayStays DEF Free, aiVars
<1>5. DoneIsEarned'
  BY <1>1, ReachedStays DEF DoneIsEarned
<1> QED BY <1>2, <1>3, <1>4, <1>5 DEF DispatchInv

LEMMA ClaimItemInv ==
  ASSUME DispatchInv, NEW n \in Machines, ClaimItem(n)
  PROVE  DispatchInv'
<1>1. PICK i \in Items :
        /\ Lease!Grant(i, n)
        /\ activity' = [activity EXCEPT ![n] = [pc |-> "begin", item |-> i, got |-> Unset]]
  BY DEF ClaimItem
<1>2. UNCHANGED <<fixed, aiVars, effects, deaths, slips>>
  BY DEF ClaimItem
<1>3. /\ itemPhase' = [itemPhase EXCEPT ![i] = "leased"] /\ holder' = [holder EXCEPT ![i] = n]
      /\ grants' = [grants EXCEPT ![i] = grants[i] + 1] /\ grants[i] < MaxGrants
  BY <1>1 DEF Lease!Grant
<1>4. DispatchTypeOK'
  <2>1. /\ itemPhase' \in [Items -> {"waiting", "leased", "done", "failed"}]
        /\ holder' \in [Items -> Machines \cup {NoMachine}] /\ grants' \in [Items -> 0..MaxGrants]
    BY <1>3, DispatchAssumption DEF DispatchInv, DispatchTypeOK
  <2>2. activity' \in [Machines -> [pc : {"free"} \cup Pcs, item : Items \cup {Unset}, got : Gots]]
    BY <1>1 DEF DispatchInv, DispatchTypeOK, Pcs, Gots
  <2> QED BY <1>2, <2>1, <2>2 DEF DispatchInv, DispatchTypeOK, Pcs, Gots, aiVars
<1>5. \A k \in Items : itemPhase'[k] = "done" => Earned(k)
  BY <1>3 DEF DispatchInv, DispatchTypeOK, DoneIsEarned
<1> QED BY <1>1, <1>2, <1>4, <1>5, MachineTurns

LEMMA CloseJobInv ==
  ASSUME DispatchInv, NEW n \in Machines, CloseJob(n)
  PROVE  DispatchInv'
<1>1. /\ activity[n].pc = "close" /\ ~ Here(n, "free") /\ activity' = [activity EXCEPT ![n] = Free]
      /\ UNCHANGED <<fixed, aiVars, effects, deaths>>
      /\ \/ Lease!Resolve(Item(n), n, activity[n].got) /\ UNCHANGED slips
         \/ UNCHANGED queueVars /\ (UNCHANGED slips \/ Slip)
  BY DEF CloseJob, Here
<1>2. /\ Item(n) \in Items /\ activity[n].got \in {"done", "failed"}
      /\ activity[n].got = "done" => Earned(Item(n))
  BY <1>1, AtWork DEF Reached
<1>3. /\ itemPhase' \in [Items -> {"waiting", "leased", "done", "failed"}]
      /\ holder' \in [Items -> Machines \cup {NoMachine}] /\ grants' \in [Items -> 0..MaxGrants]
      /\ \A k \in Items : itemPhase'[k] = "done" => Earned(k)
  <2>1. CASE UNCHANGED queueVars
    BY <2>1 DEF DispatchInv, DispatchTypeOK, DoneIsEarned, queueVars
  <2>2. CASE Lease!Resolve(Item(n), n, activity[n].got)
    <3>1. /\ itemPhase' = [itemPhase EXCEPT ![Item(n)] = activity[n].got]
          /\ holder' = [holder EXCEPT ![Item(n)] = NoMachine] /\ grants' = grants
      BY <2>2 DEF Lease!Resolve
    <3> QED BY <1>2, <3>1 DEF DispatchInv, DispatchTypeOK, DoneIsEarned
  <2> QED BY <1>1, <2>1, <2>2
<1>4. slips' \in 0..MaxSlips
  BY <1>1, AtWork, SlipInBounds
<1>5. DispatchTypeOK'
  <2>1. activity' \in [Machines -> [pc : {"free"} \cup Pcs, item : Items \cup {Unset}, got : Gots]]
    BY <1>1 DEF DispatchInv, DispatchTypeOK, Pcs, Gots, Free
  <2> QED BY <1>1, <1>3, <1>4, <2>1 DEF DispatchInv, DispatchTypeOK, Pcs, Gots, aiVars
<1> QED BY <1>1, <1>3, <1>5, MachineTurns

LEMMA DrainerDiesInv ==
  ASSUME DispatchInv, NEW n \in Machines, DrainerDies(n)
  PROVE  DispatchInv'
<1>1. /\ activity' = [activity EXCEPT ![n] = Free] /\ deaths < MaxDeaths /\ deaths' = deaths + 1
      /\ UNCHANGED <<fixed, itemPhase, holder, grants, aiVars, effects, slips>>
  BY DEF DrainerDies, queueVars
<1>2. DispatchTypeOK'
  <2>1. activity' \in [Machines -> [pc : {"free"} \cup Pcs, item : Items \cup {Unset}, got : Gots]]
    BY <1>1 DEF DispatchInv, DispatchTypeOK, Pcs, Gots, Free
  <2>2. deaths' \in 0..MaxDeaths
    BY <1>1, DispatchAssumption DEF DispatchInv, DispatchTypeOK
  <2> QED BY <1>1, <2>1, <2>2 DEF DispatchInv, DispatchTypeOK, Pcs, Gots, aiVars
<1>3. \A k \in Items : itemPhase'[k] = "done" => Earned(k)
  BY <1>1 DEF DispatchInv, DoneIsEarned
<1> QED BY <1>1, <1>2, <1>3, MachineTurns

LEMMA ReapItemsInv ==
  ASSUME DispatchInv, ReapItems
  PROVE  DispatchInv'
<1>1. PICK S \in SUBSET Items : Lease!Revoke(S)
  BY DEF ReapItems
<1>2. UNCHANGED <<fixed, activity, aiVars, effects, deaths, slips>>
  BY DEF ReapItems
<1>3. /\ itemPhase' = [t \in Items |->
           IF t \in S THEN IF grants[t] < MaxGrants THEN "waiting" ELSE "failed" ELSE itemPhase[t]]
      /\ holder' = [t \in Items |-> IF t \in S THEN NoMachine ELSE holder[t]] /\ grants' = grants
  BY <1>1 DEF Lease!Revoke
<1>4. DispatchTypeOK'
  <2>1. /\ itemPhase' \in [Items -> {"waiting", "leased", "done", "failed"}]
        /\ holder' \in [Items -> Machines \cup {NoMachine}]
    BY <1>3 DEF DispatchInv, DispatchTypeOK
  <2> QED BY <1>2, <1>3, <2>1 DEF DispatchInv, DispatchTypeOK, aiVars
<1>5. (\A n \in Machines : MachineInv(n)') /\ ReplayInv'
  BY <1>2, ReachedStays
     DEF DispatchInv, MachineInv, ReplayInv, Missed, StraysAreRivals, aiVars, fixed
<1>6. DoneIsEarned'
  BY <1>2, <1>3, ReachedStays DEF DispatchInv, DoneIsEarned, fixed
<1> QED BY <1>4, <1>5, <1>6 DEF DispatchInv

LEMMA DispatchNextInv == DispatchInv /\ [DispatchNext]_dispatchVars => DispatchInv'
<1> SUFFICES ASSUME DispatchInv, [DispatchNext]_dispatchVars PROVE DispatchInv'
  OBVIOUS
<1>1. ASSUME NEW n \in Machines, ClaimItem(n) \/ Handle(n) \/ CloseJob(n) \/ DrainerDies(n)
      PROVE  DispatchInv'
  BY <1>1, ClaimItemInv, BeginInv, VoiceInv, ImageInv, ReplayStepInv, CloseJobInv, DrainerDiesInv
     DEF Handle
<1>2. CASE UNCHANGED dispatchVars
  <2>1. UNCHANGED <<fixed, itemPhase, holder, grants, activity, aiVars, effects, deaths, slips>>
    BY <1>2 DEF dispatchVars, queueVars, fixed, aiVars
  <2>2. (\A n \in Machines : MachineInv(n)') /\ ReplayInv' /\ DoneIsEarned'
    BY <2>1, ReachedStays
       DEF DispatchInv, MachineInv, ReplayInv, Missed, StraysAreRivals, DoneIsEarned, aiVars, fixed
  <2> QED BY <2>1, <2>2 DEF DispatchInv, DispatchTypeOK, aiVars
<1> QED BY <1>1, <1>2, ReapItemsInv DEF DispatchNext
-----------------------------------------------------------------------------
\* Machines, leases and jobs keep their types (main.rs).
THEOREM DispatchTypeCorrect == DispatchSpec => []DispatchTypeOK
<1>1. DispatchInv => DispatchTypeOK
  BY DEF DispatchInv
<1> QED BY DispatchInitInv, DispatchNextInv, <1>1, PTL DEF DispatchSpec

\* However machines are fitted, whatever leases run out and drainers die: a job that
\* is done has had all its kind promises (main.rs:402-584).
THEOREM DoneJobsAreEarned == DispatchSpec => []DoneIsEarned
<1>1. DispatchInv => DoneIsEarned
  BY DEF DispatchInv
<1> QED BY DispatchInitInv, DispatchNextInv, <1>1, PTL DEF DispatchSpec

\* For any number of machines whose cycles overlap, fail and die: only one that had
\* missed the cache before its row was written goes on with another response, and
\* with one only (model.rs:83-85, 93).
THEOREM StraysWereRivals == DispatchSpec => []StraysAreRivals
<1>1. DispatchInv => StraysAreRivals
  BY DEF DispatchInv, ReplayInv
<1> QED BY DispatchInitInv, DispatchNextInv, <1>1, PTL DEF DispatchSpec
=============================================================================
