---------------------------- MODULE StorageProofs ----------------------------
(***************************************************************************)
(* Theorems about versions and storage backends, for any files, blobs,     *)
(* backends and tasks in progress, and about the ingest of a file's        *)
(* versions, for any drainers, jobs and contents.                          *)
(***************************************************************************)
EXTENDS Storage, Ingest, FiniteSetTheorems, SequenceTheorems, TLAPS

-----------------------------------------------------------------------------
(* Types. *)

LEMMA NoTaskType == NoTask \in TaskTypes
BY DEF NoTask, TaskTypes

LEMMA ObjectsOfType ==
  ASSUME NEW b \in Blobs
  PROVE  ObjectsOf(b) \subseteq Objects
BY DEF ObjectsOf, Objects, Chunks

LEMMA MapsType == Maps \subseteq Objects
BY DEF Objects

\* The beginning and the end of a task.
LEMMA BeginType ==
  ASSUME TypeOK, NEW h \in Tasks, NEW next \in Pcs, NEW r \in TaskTypes, Begin(h, next, r)
  PROVE  pc' \in [Tasks -> Pcs] /\ req' \in [Tasks -> TaskTypes]
BY DEF TypeOK, Begin, Go

LEMMA EndsType ==
  ASSUME TypeOK, NEW h \in Tasks, Ends(h)
  PROVE  pc' \in [Tasks -> Pcs] /\ req' \in [Tasks -> TaskTypes]
<1>1. "idle" \in Pcs
  BY DEF Pcs
<1> QED BY <1>1, NoTaskType DEF TypeOK, Ends, Go

LEMMA GoType ==
  ASSUME TypeOK, NEW h \in Tasks, NEW next \in Pcs, Go(h, next)
  PROVE  pc' \in [Tasks -> Pcs]
BY DEF TypeOK, Go

\* What a task carries when a statement needs it.
Migrating == {"scan_migrate", "refs_migrate", "copy", "upload", "remember", "flip_others",
              "flip_target", "mark_done", "mark_failed"}
CarriedBy(h) ==
  /\ pc[h] \in {"store", "parent", "update", "emit"} => req[h].f \in Files /\ req[h].b \in Blobs
  /\ pc[h] = "store" => req[h].i \in 1..(Len(ChunksOf[req[h].b]) + 1)
  /\ pc[h] \in {"update", "emit"} => req[h].parent \in Blobs
  /\ pc[h] \in {"branch", "tag", "set_branch", "get_tag", "insert_tag"} => req[h].snap \in Maps
  /\ pc[h] \in Migrating => req[h].r \in Backends
  /\ pc[h] \in {"upload", "remember"} => req[h].b \in Objects
Carried == \A h \in Tasks : CarriedBy(h)

LEMMA WritesType ==
  ASSUME Carried, NEW h \in Tasks, pc[h] = "store"
  PROVE  /\ Writes(h) \in Objects
         /\ req[h].i <= Len(ChunksOf[req[h].b]) => req[h].i + 1 \in 1..(Len(ChunksOf[req[h].b]) + 1)
<1> DEFINE b == req[h].b
           c == ChunksOf[b]
<1>1. b \in Blobs /\ req[h].i \in 1..(Len(c) + 1)
  BY DEF Carried, CarriedBy
<1>2. c \in Seq(ToSet(c)) /\ Len(c) \in Nat
  BY <1>1, StorageAssumption, LenProperties
<1>3. c \in Seq(Objects)
  <2>1. ToSet(c) \subseteq Objects
    BY <1>1 DEF Objects, Chunks
  <2> QED BY <1>2, <2>1, SeqMonotonic
<1>4. b \in Objects
  BY <1>1 DEF Objects
<1>5. /\ Append(c, b) \in Seq(Objects) /\ Len(Append(c, b)) = Len(c) + 1
      /\ Append(c, b)[Len(c) + 1] = b
  BY <1>3, <1>4, AppendProperties
<1>6. Append(c, b)[req[h].i] \in Objects
  BY <1>1, <1>5, ElementOfSeq
<1> QED BY <1>1, <1>2, <1>5, <1>6 DEF Writes

LEMMA MarkedType ==
  ASSUME NEW map \in Maps
  PROVE  MarkedBy(map) \subseteq Objects
<1>1. \A b \in BlobsIn(map) : Marked(b) \subseteq Objects
  BY ObjectsOfType DEF BlobsIn, Maps, Marked, Objects
<1> QED BY <1>1 DEF MarkedBy

DataTyped ==
  /\ local \subseteq Objects /\ torn \subseteq Objects
  /\ ref \in Maps /\ branch \in Maps \union {Null} /\ tag \in Maps \union {Null}
  /\ vers \in [Files -> Seq([blob : Blobs, parent : Blobs \union {Null}])]
  /\ config \in [Backends -> Settings]
  /\ stored \in [Backends -> SUBSET Objects] /\ index \in [Backends -> SUBSET Objects]
TasksTyped == req \in [Tasks -> TaskTypes] /\ pc \in [Tasks -> Pcs]

LEMMA TypeParts == TypeOK <=> DataTyped /\ TasksTyped /\ unclear \in BOOLEAN
BY DEF TypeOK, DataTyped, TasksTyped

LEMMA DataSame == DataTyped /\ UNCHANGED <<bytes, vcsVars, config>> => DataTyped'
BY DEF DataTyped, bytes, vcsVars

LEMMA BeginStep ==
  ASSUME TypeOK, NEW h \in Tasks,
         \/ \E f \in Files, b \in Blobs : BeginCommit(h, f, b)
         \/ \E kind \in {"branch", "tag"} : BeginSnapshot(h, kind)
         \/ \E r \in Backends : BeginMigrate(h, r)
         \/ BeginSweep(h)
  PROVE  DataTyped' /\ TasksTyped'
<1> USE TypeParts, DataSame
<1>1. ASSUME NEW f \in Files, NEW b \in Blobs, BeginCommit(h, f, b)
      PROVE  DataTyped' /\ TasksTyped'
  <2>1. [NoTask EXCEPT !.f = f, !.b = b] \in TaskTypes /\ "store" \in Pcs
    BY DEF NoTask, TaskTypes, Objects, Pcs
  <2> QED BY <1>1, <2>1, BeginType DEF BeginCommit, TasksTyped
<1>2. ASSUME NEW kind \in {"branch", "tag"}, BeginSnapshot(h, kind)
      PROVE  DataTyped' /\ TasksTyped'
  <2>1. [NoTask EXCEPT !.snap = ref] \in TaskTypes /\ kind \in Pcs
    BY DEF NoTask, TaskTypes, DataTyped, Pcs
  <2> QED BY <1>2, <2>1, BeginType DEF BeginSnapshot, TasksTyped
<1>3. ASSUME NEW r \in Backends, BeginMigrate(h, r)
      PROVE  DataTyped' /\ TasksTyped'
  <2>1. [NoTask EXCEPT !.r = r] \in TaskTypes /\ "scan_migrate" \in Pcs
    BY DEF NoTask, TaskTypes, Pcs
  <2>2. config' \in [Backends -> Settings]
    BY <1>3 DEF BeginMigrate, SetMigration, Settings, DataTyped
  <2> QED BY <1>3, <2>1, <2>2, BeginType DEF BeginMigrate, TasksTyped, DataTyped, bytes, vcsVars
<1>4. CASE BeginSweep(h)
  <2>1. "scan_sweep" \in Pcs
    BY DEF Pcs
  <2> QED BY <1>4, <2>1, NoTaskType, BeginType DEF BeginSweep, TasksTyped
<1> QED BY <1>1, <1>2, <1>3, <1>4

\* The statements of a commit, of branches and tags, and of the scans.
LEMMA VcsStep ==
  ASSUME TypeOK, Carried, NEW h \in Tasks,
         \/ StoreObject(h) \/ ReadParent(h) \/ UpdateRef(h) \/ EmitVersion(h)
         \/ WriteSnapshot(h) \/ SetBranch(h) \/ GetTag(h) \/ InsertTag(h)
         \/ ScanRows(h) \/ ScanRefs(h)
  PROVE  DataTyped' /\ TasksTyped'
<1> USE TypeParts, DataSame DEF TasksTyped
<1>0. req[h] \in TaskTypes /\ CarriedBy(h)
  BY DEF Carried
<1>1. CASE StoreObject(h)
  <2>1. Writes(h) \in Objects
    BY <1>1, WritesType DEF StoreObject
  <2>2. DataTyped'
    BY <1>1, <2>1 DEF StoreObject, DataTyped, vcsVars
  <2>3. [req[h] EXCEPT !.i = req[h].i + 1] \in TaskTypes
    BY <1>0 DEF TaskTypes
  <2>4. pc' \in [Tasks -> Pcs]
    BY <1>1, GoType DEF StoreObject, Pcs
  <2>5. req' = [req EXCEPT ![h] = [req[h] EXCEPT !.i = req[h].i + 1]]
    BY <1>1 DEF StoreObject
  <2> QED BY <2>2, <2>3, <2>4, <2>5
<1>2. CASE ReadParent(h)
  <2>1. CASE ref[req[h].f] = req[h].b
    BY <1>2, <2>1, EndsType DEF ReadParent
  <2>2. CASE ref[req[h].f] # req[h].b
    <3>1. req' = [req EXCEPT ![h] = [req[h] EXCEPT !.parent = ref[req[h].f]]]
      BY <1>2, <2>2 DEF ReadParent
    <3>2. ref[req[h].f] \in Blobs
      BY <1>0, <1>2 DEF ReadParent, CarriedBy, DataTyped, Maps
    <3>3. [req[h] EXCEPT !.parent = ref[req[h].f]] \in TaskTypes
      BY <1>0, <3>2 DEF TaskTypes
    <3>4. pc' \in [Tasks -> Pcs] /\ DataTyped'
      BY <1>2, <2>2, GoType DEF ReadParent, Pcs
    <3> QED BY <3>1, <3>3, <3>4
  <2> QED BY <2>1, <2>2
<1>3. CASE UpdateRef(h)
  <2>1. ref' \in Maps
    BY <1>0, <1>3 DEF UpdateRef, CarriedBy, DataTyped, Maps
  <2>2. pc' \in [Tasks -> Pcs] /\ req' = req
    BY <1>3, GoType DEF UpdateRef, Pcs
  <2> QED BY <1>3, <2>1, <2>2 DEF UpdateRef, DataTyped, bytes
<1>4. CASE EmitVersion(h)
  <2> DEFINE e == [blob |-> req[h].b, parent |-> req[h].parent]
  <2>1. req[h].f \in Files /\ e \in [blob : Blobs, parent : Blobs \union {Null}]
    BY <1>0, <1>4 DEF EmitVersion, CarriedBy
  <2>2. vers' = [vers EXCEPT ![req[h].f] = Append(vers[req[h].f], e)]
    BY <1>4 DEF EmitVersion
  <2>3. vers[req[h].f] \in Seq([blob : Blobs, parent : Blobs \union {Null}])
    BY <2>1 DEF DataTyped
  <2>4. Append(vers[req[h].f], e) \in Seq([blob : Blobs, parent : Blobs \union {Null}])
    BY <2>1, <2>3, AppendProperties
  <2>5. vers' \in [Files -> Seq([blob : Blobs, parent : Blobs \union {Null}])]
    BY <2>2, <2>4 DEF DataTyped
  <2> QED BY <1>4, <2>5, EndsType DEF EmitVersion, DataTyped, bytes
<1>5. CASE WriteSnapshot(h)
  <2>1. req[h].snap \in Objects
    <3>1. pc[h] \in {"branch", "tag"}
      BY <1>5 DEF WriteSnapshot
    <3>2. req[h].snap \in Maps
      BY <1>0, <3>1 DEF CarriedBy
    <3> QED BY <3>2, MapsType
  <2>2. DataTyped'
    BY <1>5, <2>1 DEF WriteSnapshot, DataTyped, vcsVars
  <2>3. pc' \in [Tasks -> Pcs] /\ req' = req
    BY <1>5, GoType DEF WriteSnapshot, Pcs
  <2> QED BY <2>2, <2>3
<1>6. CASE SetBranch(h)
  <2>1. branch' \in Maps
    BY <1>0, <1>6 DEF SetBranch, CarriedBy
  <2> QED BY <1>6, <2>1, EndsType DEF SetBranch, DataTyped, bytes
<1>7. CASE GetTag(h)
  <2>1. pc' \in [Tasks -> Pcs] /\ req' \in [Tasks -> TaskTypes]
    BY <1>7, EndsType, GoType DEF GetTag, Pcs
  <2> QED BY <1>7, <2>1 DEF GetTag
<1>8. CASE InsertTag(h)
  <2>1. tag' \in Maps
    BY <1>0, <1>8 DEF InsertTag, CarriedBy, DataTyped
  <2> QED BY <1>8, <2>1, EndsType DEF InsertTag, DataTyped, bytes
<1>9. CASE ScanRows(h)
  <2>1. req' = [req EXCEPT ![h] = [req[h] EXCEPT !.todo = MarkedBy(ref)]]
    BY <1>9 DEF ScanRows
  <2>2. [req[h] EXCEPT !.todo = MarkedBy(ref)] \in TaskTypes
    BY <1>0, MarkedType DEF TaskTypes, DataTyped
  <2>3. pc' \in [Tasks -> Pcs] /\ DataTyped'
    BY <1>9, GoType DEF ScanRows, Pcs
  <2> QED BY <2>1, <2>2, <2>3
<1>10. CASE ScanRefs(h)
  <2>1. Snapshots \subseteq Maps
    BY DEF Snapshots, DataTyped
  <2>2. MarkedRefs \subseteq Objects
    <3>1. \A s \in Snapshots : MarkedBy(s) \subseteq Objects
      BY <2>1, MarkedType
    <3>2. Snapshots \subseteq Objects
      BY <2>1, MapsType
    <3> QED BY <3>1, <3>2 DEF MarkedRefs
  <2>3. req' = [req EXCEPT ![h] = [req[h] EXCEPT !.todo = req[h].todo \union MarkedRefs]]
    BY <1>10 DEF ScanRefs
  <2>4. [req[h] EXCEPT !.todo = req[h].todo \union MarkedRefs] \in TaskTypes
    BY <1>0, <2>2 DEF TaskTypes
  <2>5. pc' \in [Tasks -> Pcs] /\ DataTyped'
    BY <1>10, GoType DEF ScanRefs, Pcs
  <2> QED BY <2>3, <2>4, <2>5
<1> QED BY <1>1, <1>2, <1>3, <1>4, <1>5, <1>6, <1>7, <1>8, <1>9, <1>10

\* The statements of a sweep and of a migration, and what can go wrong.
LEMMA BackendStep ==
  ASSUME TypeOK, Carried, NEW h \in Tasks,
         \/ SweepObject(h) \/ EndSweep(h) \/ CopyObject(h) \/ Upload(h) \/ Remember(h)
         \/ CopiedAll(h) \/ FlipOthers(h) \/ FlipTarget(h) \/ MarkFinished(h)
         \/ MigrationError(h) \/ Die(h)
  PROVE  DataTyped' /\ TasksTyped'
<1> USE TypeParts, DataSame DEF TasksTyped
<1>0. req[h] \in TaskTypes /\ CarriedBy(h)
  BY DEF Carried
<1>1. CASE SweepObject(h)
  BY <1>1 DEF SweepObject, DataTyped, vcsVars
<1>2. CASE EndSweep(h)
  BY <1>2, EndsType DEF EndSweep
<1>3. CASE CopyObject(h)
  <2>1. PICK o \in req[h].todo :
          LET skip == o \in index[req[h].r] IN
          /\ req' = [req EXCEPT ![h].todo = IF skip \/ ~Readable(o) THEN @ \ {o} ELSE @,
                                ![h].b = IF skip \/ ~Readable(o) THEN Null ELSE o,
                                ![h].failed = @ \/ (~skip /\ ~Readable(o))]
          /\ Go(h, IF skip \/ ~Readable(o) THEN "copy" ELSE "upload")
    BY <1>3 DEF CopyObject
  <2>2. PICK t \in SUBSET Objects, b \in Objects \union {Null}, fl \in BOOLEAN :
          req' = [req EXCEPT ![h] = [req[h] EXCEPT !.todo = t, !.b = b, !.failed = fl]]
    <3> DEFINE drop == o \in index[req[h].r] \/ ~Readable(o)
               t == IF drop THEN req[h].todo \ {o} ELSE req[h].todo
               b == IF drop THEN Null ELSE o
               fl == req[h].failed \/ (o \notin index[req[h].r] /\ ~Readable(o))
    <3>1. t \in SUBSET Objects /\ b \in Objects \union {Null}
      BY <1>0 DEF TaskTypes
    <3>2. fl \in BOOLEAN
      BY <1>0 DEF TaskTypes
    <3>3. req' = [req EXCEPT ![h] = [req[h] EXCEPT !.todo = t, !.b = b, !.failed = fl]]
      BY <2>1
    <3> QED BY <3>1, <3>2, <3>3
  <2>3. [req[h] EXCEPT !.todo = t, !.b = b, !.failed = fl] \in TaskTypes
    BY <1>0 DEF TaskTypes
  <2>4. pc' \in [Tasks -> Pcs] /\ DataTyped'
    BY <1>3, <2>1, GoType DEF CopyObject, Pcs
  <2> QED BY <2>2, <2>3, <2>4
<1>4. CASE Upload(h)
  <2>1. stored' \in [Backends -> SUBSET Objects]
    BY <1>0, <1>4 DEF Upload, CarriedBy, DataTyped
  <2> QED BY <1>4, <2>1, GoType DEF Upload, Pcs, DataTyped, vcsVars
<1>5. CASE Remember(h)
  <2>1. index' \in [Backends -> SUBSET Objects]
    BY <1>0, <1>5 DEF Remember, CarriedBy, DataTyped
  <2>2. req' = [req EXCEPT ![h] = [req[h] EXCEPT !.todo = req[h].todo \ {req[h].b}, !.b = Null]]
    BY <1>5 DEF Remember
  <2>3. [req[h] EXCEPT !.todo = req[h].todo \ {req[h].b}, !.b = Null] \in TaskTypes
    BY <1>0 DEF TaskTypes
  <2>4. pc' \in [Tasks -> Pcs]
    BY <1>5, GoType DEF Remember, Pcs
  <2>5. DataTyped'
    BY <1>5, <2>1 DEF Remember, DataTyped, vcsVars
  <2>6. req' \in [Tasks -> TaskTypes]
    BY <2>2, <2>3
  <2> QED BY <2>4, <2>5, <2>6
<1>6. CASE CopiedAll(h)
  BY <1>6, GoType DEF CopiedAll, Pcs
<1>7. CASE FlipOthers(h)
  <2>1. config' \in [Backends -> Settings]
    <3>1. \A r \in Backends : config[r] \in Settings /\ [config[r] EXCEPT !.default = FALSE] \in Settings
      BY DEF DataTyped, Settings
    <3> QED BY <1>7, <3>1 DEF FlipOthers
  <2> QED BY <1>7, <2>1, GoType DEF FlipOthers, Pcs, DataTyped, bytes, vcsVars
<1>8. CASE FlipTarget(h)
  <2>1. config' \in [Backends -> Settings]
    <3> DEFINE r == req[h].r
    <3>1. config' = [config EXCEPT ![r] = [config[r] EXCEPT !.default = TRUE]]
      BY <1>8 DEF FlipTarget
    <3>2. r \in Backends => [config[r] EXCEPT !.default = TRUE] \in Settings
      BY DEF DataTyped, Settings
    <3> QED BY <3>1, <3>2 DEF DataTyped
  <2> QED BY <1>8, <2>1, GoType DEF FlipTarget, Pcs, DataTyped, bytes, vcsVars
<1>9. CASE MarkFinished(h)
  <2>1. config' \in [Backends -> Settings]
    <3> DEFINE r == req[h].r
    <3>1. PICK m \in {"done", "failed"} : config' = [config EXCEPT ![r] = [config[r] EXCEPT !.migration = m]]
      BY <1>9 DEF MarkFinished, SetMigration
    <3>2. r \in Backends => [config[r] EXCEPT !.migration = m] \in Settings
      BY <3>1 DEF DataTyped, Settings
    <3> QED BY <3>1, <3>2 DEF DataTyped
  <2> QED BY <1>9, <2>1, EndsType DEF MarkFinished, DataTyped, bytes, vcsVars
<1>10. CASE MigrationError(h)
  BY <1>10, GoType DEF MigrationError, Pcs
<1>11. CASE Die(h)
  <2>1. pc[h] \in {"store", "branch", "tag"} => Writing(h) \in Objects
    BY <1>0, WritesType, MapsType DEF Writing, CarriedBy
  <2>2. torn' \subseteq Objects
    BY <1>11, <2>1 DEF Die, DataTyped
  <2> QED BY <1>11, <2>2, EndsType DEF Die, DataTyped, vcsVars
<1> QED BY <1>1, <1>2, <1>3, <1>4, <1>5, <1>6, <1>7, <1>8, <1>9, <1>10, <1>11

LEMMA TypeStep == TypeOK /\ Carried /\ [Next]_vars => TypeOK'
<1> SUFFICES ASSUME TypeOK, Carried, [Next]_vars PROVE TypeOK'
  OBVIOUS
<1>1. ASSUME NEW r \in Backends, Activate(r) \/ \E d \in BOOLEAN : CreateBackend(r, d)
      PROVE  DataTyped' /\ TasksTyped'
  <2>1. config' \in [Backends -> Settings]
    <3>1. config[r] \in Settings
      BY DEF TypeOK
    <3>2. CASE Activate(r)
      <4>1. [config[r] EXCEPT !.status = "active"] \in Settings
        BY <3>1 DEF Settings
      <4> QED BY <3>2, <4>1 DEF Activate, TypeOK
    <3>3. ASSUME NEW d \in BOOLEAN, CreateBackend(r, d) PROVE config' \in [Backends -> Settings]
      <4>1. config' = [config EXCEPT ![r] = [config[r] EXCEPT !.status = "pending_approval", !.default = d]]
        BY <3>3 DEF CreateBackend
      <4>2. [config[r] EXCEPT !.status = "pending_approval", !.default = d] \in Settings
        BY <3>1 DEF Settings
      <4> QED BY <4>1, <4>2 DEF TypeOK
    <3> QED BY <1>1, <3>2, <3>3
  <2> QED BY <1>1, <2>1, TypeParts DEF Activate, CreateBackend, TasksTyped, DataTyped, bytes, vcsVars
<1>2. CASE UNCHANGED vars
  BY <1>2 DEF vars, bytes, vcsVars, TypeOK
<1>3. ASSUME CodeStep PROVE DataTyped' /\ TasksTyped'
  <2>1. CASE \E r \in Backends : (Activate(r) \/ \E d \in BOOLEAN : CreateBackend(r, d))
    <3>1. PICK r \in Backends : Activate(r) \/ \E d \in BOOLEAN : CreateBackend(r, d)
      BY <2>1
    <3> QED BY <1>1, <3>1
  <2>2. ASSUME NEW h \in Tasks,
               \/ Step(h) \/ MigrationError(h) \/ Die(h) \/ BeginSweep(h)
               \/ \E f \in Files, b \in Blobs : BeginCommit(h, f, b)
               \/ \E kind \in {"branch", "tag"} : BeginSnapshot(h, kind)
               \/ \E r \in Backends : BeginMigrate(h, r)
        PROVE  DataTyped' /\ TasksTyped'
    <3>1. CASE Step(h)
      BY <3>1, VcsStep, BackendStep DEF Step
    <3>2. CASE MigrationError(h) \/ Die(h)
      BY <3>2, BackendStep
    <3>3. CASE ~Step(h) /\ ~MigrationError(h) /\ ~Die(h)
      BY <2>2, <3>3, BeginStep
    <3> QED BY <3>1, <3>2, <3>3
  <2>3. \/ \E r \in Backends : (Activate(r) \/ \E d \in BOOLEAN : CreateBackend(r, d))
        \/ \E h \in Tasks :
             \/ Step(h) \/ MigrationError(h) \/ Die(h) \/ BeginSweep(h)
             \/ \E f \in Files, b \in Blobs : BeginCommit(h, f, b)
             \/ \E kind \in {"branch", "tag"} : BeginSnapshot(h, kind)
             \/ \E r \in Backends : BeginMigrate(h, r)
    BY <1>3 DEF CodeStep
  <2>4. CASE \E h \in Tasks :
             \/ Step(h) \/ MigrationError(h) \/ Die(h) \/ BeginSweep(h)
             \/ \E f \in Files, b \in Blobs : BeginCommit(h, f, b)
             \/ \E kind \in {"branch", "tag"} : BeginSnapshot(h, kind)
             \/ \E r \in Backends : BeginMigrate(h, r)
    BY <2>2, <2>4
  <2> QED BY <2>1, <2>3, <2>4
<1>4. Next => CodeStep /\ unclear' \in BOOLEAN
  BY DEF Next, Watch
<1>5. CASE Next
  BY <1>3, <1>4, <1>5 DEF TypeOK, DataTyped, TasksTyped
<1> QED BY <1>2, <1>5

\* What a task does of its own accord.
Begins(h) ==
  \/ BeginSweep(h)
  \/ \E f \in Files, b \in Blobs : BeginCommit(h, f, b)
  \/ \E kind \in {"branch", "tag"} : BeginSnapshot(h, kind)
  \/ \E r \in Backends : BeginMigrate(h, r)
Own(h) == Step(h) \/ MigrationError(h) \/ Die(h) \/ Begins(h)
Settles == \E r \in Backends : Activate(r) \/ \E d \in BOOLEAN : CreateBackend(r, d)

LEMMA StepKinds ==
  ASSUME [Next]_vars
  PROVE  \/ UNCHANGED vars
         \/ Watch /\ Settles
         \/ Watch /\ \E h \in Tasks : Own(h)
BY DEF Next, CodeStep, Own, Begins, Settles

\* What one step of a task may change, and which action changes it.
ChangesOf(h) ==
  /\ ref' = ref \/ UpdateRef(h)
  /\ vers' = vers \/ EmitVersion(h)
  /\ branch' = branch \/ SetBranch(h)
  /\ tag' = tag \/ InsertTag(h)
  /\ index' = index \/ Remember(h)
  /\ (local \subseteq local' /\ torn \subseteq torn') \/ SweepObject(h)

LEMMA OwnChanges ==
  ASSUME NEW h \in Tasks, Own(h)
  PROVE  ChangesOf(h)
<1>1. CASE UpdateRef(h) \/ EmitVersion(h) \/ SetBranch(h) \/ InsertTag(h)
  BY <1>1 DEF ChangesOf, UpdateRef, EmitVersion, SetBranch, InsertTag, bytes
<1>2. CASE StoreObject(h) \/ ReadParent(h) \/ WriteSnapshot(h) \/ GetTag(h)
  BY <1>2 DEF ChangesOf, StoreObject, ReadParent, WriteSnapshot, GetTag, bytes, vcsVars
<1>3. CASE ScanRows(h) \/ ScanRefs(h) \/ SweepObject(h) \/ EndSweep(h)
  BY <1>3 DEF ChangesOf, ScanRows, ScanRefs, SweepObject, EndSweep, bytes, vcsVars
<1>4. CASE CopyObject(h) \/ Upload(h) \/ Remember(h) \/ CopiedAll(h)
  BY <1>4 DEF ChangesOf, CopyObject, Upload, Remember, CopiedAll, bytes, vcsVars
<1>5. CASE FlipOthers(h) \/ FlipTarget(h) \/ MarkFinished(h) \/ MigrationError(h) \/ Die(h)
  BY <1>5 DEF ChangesOf, FlipOthers, FlipTarget, MarkFinished, MigrationError, Die, bytes, vcsVars
<1>6. CASE Begins(h)
  BY <1>6 DEF ChangesOf, Begins, BeginSweep, BeginCommit, BeginSnapshot, BeginMigrate, bytes, vcsVars
<1> QED BY <1>1, <1>2, <1>3, <1>4, <1>5, <1>6 DEF Own, Step

LEMMA WhoChanges ==
  ASSUME [Next]_vars
  PROVE  UNCHANGED <<bytes, vcsVars>> \/ \E h \in Tasks : Own(h) /\ ChangesOf(h)
<1>1. CASE UNCHANGED vars
  BY <1>1 DEF vars
<1>2. CASE Settles
  BY <1>2 DEF Settles, Activate, CreateBackend
<1> QED BY <1>1, <1>2, StepKinds, OwnChanges

\* A step of one task leaves the others alone.
LEMMA Others ==
  ASSUME TypeOK, NEW h \in Tasks, NEW g \in Tasks, h # g, Own(h)
  PROVE  pc'[g] = pc[g] /\ req'[g] = req[g]
<1> USE DEF TypeOK
<1>1. CASE \/ StoreObject(h) \/ ReadParent(h) \/ UpdateRef(h) \/ EmitVersion(h)
  BY <1>1 DEF StoreObject, ReadParent, UpdateRef, EmitVersion, Ends, Go
<1>2. CASE WriteSnapshot(h) \/ SetBranch(h) \/ GetTag(h) \/ InsertTag(h)
  BY <1>2 DEF WriteSnapshot, SetBranch, GetTag, InsertTag, Ends, Go
<1>3. CASE ScanRows(h) \/ ScanRefs(h) \/ SweepObject(h) \/ EndSweep(h)
  BY <1>3 DEF ScanRows, ScanRefs, SweepObject, EndSweep, Ends, Go
<1>4. CASE CopyObject(h)
  BY <1>4 DEF CopyObject, Go
<1>5. CASE Upload(h) \/ Remember(h) \/ CopiedAll(h) \/ FlipOthers(h) \/ FlipTarget(h)
  BY <1>5 DEF Upload, Remember, CopiedAll, FlipOthers, FlipTarget, Go
<1>6. CASE MarkFinished(h) \/ MigrationError(h) \/ Die(h)
  BY <1>6 DEF MarkFinished, MigrationError, Die, Ends, Go
<1>7. ASSUME NEW next, NEW r, Begin(h, next, r) PROVE pc'[g] = pc[g] /\ req'[g] = req[g]
  BY <1>7 DEF Begin, Go
<1>8. CASE Begins(h)
  BY <1>7, <1>8 DEF Begins, BeginSweep, BeginCommit, BeginSnapshot, BeginMigrate
<1> QED BY <1>1, <1>2, <1>3, <1>4, <1>5, <1>6, <1>8 DEF Own, Step

\* What any step does to a task.
LEMMA Owned ==
  ASSUME TypeOK, [Next]_vars, NEW g \in Tasks
  PROVE  (pc'[g] = pc[g] /\ req'[g] = req[g]) \/ Own(g)
<1>1. Settles \/ UNCHANGED vars => pc'[g] = pc[g] /\ req'[g] = req[g]
  BY DEF Settles, Activate, CreateBackend, vars
<1> QED BY <1>1, StepKinds, Others

LEMMA Moves ==
  ASSUME TypeOK, [Next]_vars, NEW g \in Tasks
  PROVE  \/ pc'[g] = pc[g] /\ req'[g] = req[g]
         \/ pc'[g] = "idle" /\ req'[g] = NoTask
         \/ \E f \in Files, b \in Blobs : BeginCommit(g, f, b)
         \/ \E kind \in {"branch", "tag"} : BeginSnapshot(g, kind)
         \/ \E r \in Backends : BeginMigrate(g, r)
         \/ BeginSweep(g)
         \/ StoreObject(g) \/ ReadParent(g) \/ UpdateRef(g) \/ WriteSnapshot(g) \/ GetTag(g)
         \/ ScanRows(g) \/ ScanRefs(g)
         \/ CopyObject(g) \/ Upload(g) \/ Remember(g) \/ CopiedAll(g) \/ FlipOthers(g) \/ FlipTarget(g)
         \/ MigrationError(g)
<1>1. EmitVersion(g) \/ SetBranch(g) \/ InsertTag(g) \/ EndSweep(g) \/ MarkFinished(g) \/ Die(g)
        => pc'[g] = "idle" /\ req'[g] = NoTask
  BY DEF TypeOK, EmitVersion, SetBranch, InsertTag, EndSweep, MarkFinished, Die, Ends, Go
<1>2. SweepObject(g) => pc'[g] = pc[g] /\ req'[g] = req[g]
  BY DEF SweepObject
<1> QED BY <1>1, <1>2, Owned DEF Own, Begins, Step

LEMMA CarriedStep == TypeOK /\ Carried /\ [Next]_vars => Carried'
<1> SUFFICES ASSUME TypeOK, Carried, [Next]_vars, NEW g \in Tasks PROVE CarriedBy(g)'
  BY DEF Carried
<1> USE DEF TypeOK, Pcs
<1>0. CarriedBy(g) /\ req[g] \in TaskTypes
  BY DEF Carried
<1>1. CASE pc'[g] = pc[g] /\ req'[g] = req[g]
  BY <1>0, <1>1 DEF CarriedBy
<1>2. CASE pc'[g] = "idle"
  BY <1>2 DEF CarriedBy, Migrating
<1>3. ASSUME NEW f \in Files, NEW b \in Blobs, BeginCommit(g, f, b) PROVE CarriedBy(g)'
  <2>1. pc'[g] = "store" /\ req'[g].f = f /\ req'[g].b = b /\ req'[g].i = 1
    BY <1>3 DEF BeginCommit, Begin, Go, NoTask
  <2>2. 1 \in 1..(Len(ChunksOf[b]) + 1)
    BY StorageAssumption, LenProperties
  <2> QED BY <2>1, <2>2 DEF CarriedBy, Migrating
<1>4. ASSUME NEW kind \in {"branch", "tag"}, BeginSnapshot(g, kind) PROVE CarriedBy(g)'
  <2>1. pc'[g] = kind /\ req'[g].snap = ref
    BY <1>4 DEF BeginSnapshot, Begin, Go, NoTask
  <2> QED BY <2>1 DEF CarriedBy, Migrating
<1>5. ASSUME NEW r \in Backends, BeginMigrate(g, r) PROVE CarriedBy(g)'
  <2>1. pc'[g] = "scan_migrate" /\ req'[g].r = r
    BY <1>5 DEF BeginMigrate, Begin, Go, NoTask
  <2> QED BY <2>1 DEF CarriedBy, Migrating
<1>6. CASE BeginSweep(g)
  BY <1>6 DEF BeginSweep, Begin, Go, CarriedBy, Migrating
<1>7. CASE StoreObject(g)
  <2>1. /\ pc[g] = "store" /\ pc'[g] = IF req[g].i > Len(ChunksOf[req[g].b]) THEN "parent" ELSE "store"
        /\ req'[g].f = req[g].f /\ req'[g].b = req[g].b /\ req'[g].i = req[g].i + 1
    BY <1>0, <1>7 DEF StoreObject, Go, TaskTypes
  <2>2. req[g].i \in 1..(Len(ChunksOf[req[g].b]) + 1) /\ Len(ChunksOf[req[g].b]) \in Nat
    BY <1>0, <2>1, StorageAssumption, LenProperties DEF CarriedBy
  <2> QED BY <1>0, <2>1, <2>2, WritesType DEF CarriedBy, Migrating
<1>8. CASE ReadParent(g) /\ pc'[g] # "idle"
  <2>1. /\ pc[g] = "parent" /\ pc'[g] = "update"
        /\ req'[g].f = req[g].f /\ req'[g].b = req[g].b /\ req'[g].parent = ref[req[g].f]
    BY <1>0, <1>8 DEF ReadParent, Go, Ends, TaskTypes
  <2>2. ref[req[g].f] \in Blobs
    BY <1>0, <2>1 DEF CarriedBy, Maps
  <2> QED BY <1>0, <2>1, <2>2 DEF CarriedBy, Migrating
<1>9. CASE UpdateRef(g) \/ WriteSnapshot(g)
  BY <1>0, <1>9 DEF UpdateRef, WriteSnapshot, Go, CarriedBy, Migrating
<1>10. CASE GetTag(g) /\ pc'[g] # "idle"
  BY <1>0, <1>10 DEF GetTag, Ends, Go, CarriedBy, Migrating
<1>11. CASE ScanRows(g)
  BY <1>0, <1>11 DEF ScanRows, Go, CarriedBy, Migrating, TaskTypes
<1>12. CASE ScanRefs(g)
  BY <1>0, <1>12 DEF ScanRefs, Go, CarriedBy, Migrating, TaskTypes
<1>13. CASE CopyObject(g)
  <2>1. /\ pc[g] = "copy" /\ pc'[g] \in {"copy", "upload"} /\ req'[g].r = req[g].r
        /\ pc'[g] = "upload" => req'[g].b \in req[g].todo
    BY <1>0, <1>13 DEF CopyObject, Go, TaskTypes
  <2>2. req[g].todo \subseteq Objects
    BY <1>0 DEF TaskTypes
  <2> QED BY <1>0, <2>1, <2>2 DEF CarriedBy, Migrating
<1>14. CASE Upload(g) \/ CopiedAll(g) \/ FlipOthers(g) \/ FlipTarget(g) \/ MigrationError(g)
  BY <1>0, <1>14 DEF Upload, CopiedAll, FlipOthers, FlipTarget, MigrationError, Go, CarriedBy, Migrating
<1>15. CASE Remember(g)
  BY <1>0, <1>15 DEF Remember, Go, CarriedBy, Migrating, TaskTypes
<1> QED
  BY <1>1, <1>2, <1>3, <1>4, <1>5, <1>6, <1>7, <1>8, <1>9, <1>10, <1>11, <1>12, <1>13, <1>14, <1>15, Moves

\* Every reachable state is well typed, and every task has what its next statement needs.
THEOREM TypeCorrect == Spec => [](TypeOK /\ Carried)
<1>1. Init => TypeOK /\ Carried
  <2> SUFFICES ASSUME Init PROVE TypeOK /\ Carried
    OBVIOUS
  <2>1. ref \in Maps
    BY StorageAssumption DEF Init, Maps
  <2>2. local \subseteq Objects
    BY StorageAssumption, ObjectsOfType DEF Init
  <2>3. vers \in [Files -> Seq([blob : Blobs, parent : Blobs \union {Null}])]
    BY StorageAssumption DEF Init
  <2>4. config \in [Backends -> Settings]
    BY DEF Init, Settings
  <2>5. req \in [Tasks -> TaskTypes] /\ pc \in [Tasks -> Pcs] /\ Carried
    BY NoTaskType DEF Init, Pcs, Carried, CarriedBy, Migrating
  <2> QED BY <2>1, <2>2, <2>3, <2>4, <2>5 DEF Init, TypeOK
<1>2. TypeOK /\ Carried /\ [Next]_vars => (TypeOK /\ Carried)'
  BY TypeStep, CarriedStep
<1> QED BY <1>1, <1>2, PTL DEF Spec
-----------------------------------------------------------------------------
(* An index row is never ahead of the bytes it points at: bytes are not deleted
   from a backend, and a task records what it has uploaded. *)

UploadInv ==
  /\ IndexIsTruthful
  /\ \A h \in Tasks : pc[h] = "remember" => req[h].b \in stored[req[h].r]

LEMMA UploadStep ==
  ASSUME TypeOK, Carried, UploadInv, [Next]_vars
  PROVE  UploadInv'
<1> USE DEF TypeOK
<1>1. \A r \in Backends : stored[r] \subseteq stored'[r]
  <2>1. CASE \E h \in Tasks : Upload(h)
    BY <2>1 DEF Upload
  <2>2. CASE \A h \in Tasks : ~Upload(h)
    <3>1. stored' = stored
      BY <2>2 DEF Next, CodeStep, Step, vars, bytes, StoreObject, ReadParent, UpdateRef, EmitVersion,
         WriteSnapshot, SetBranch, GetTag, InsertTag, ScanRows, ScanRefs, SweepObject, EndSweep, CopyObject,
         Remember, CopiedAll, FlipOthers, FlipTarget, MarkFinished, MigrationError, Die, BeginSweep,
         BeginCommit, BeginSnapshot, BeginMigrate, Activate, CreateBackend
    <3> QED BY <3>1
  <2> QED BY <2>1, <2>2
<1>2. IndexIsTruthful'
  <2>1. CASE \E h \in Tasks : Remember(h)
    BY <1>1, <2>1 DEF Remember, UploadInv, IndexIsTruthful
  <2>2. CASE \A h \in Tasks : ~Remember(h)
    <3>1. index' = index
      BY <2>2 DEF Next, CodeStep, Step, vars, bytes, StoreObject, ReadParent, UpdateRef, EmitVersion,
         WriteSnapshot, SetBranch, GetTag, InsertTag, ScanRows, ScanRefs, SweepObject, EndSweep, CopyObject,
         Upload, CopiedAll, FlipOthers, FlipTarget, MarkFinished, MigrationError, Die, BeginSweep,
         BeginCommit, BeginSnapshot, BeginMigrate, Activate, CreateBackend
    <3> QED BY <1>1, <3>1 DEF UploadInv, IndexIsTruthful
  <2> QED BY <2>1, <2>2
<1>3. ASSUME NEW g \in Tasks, pc'[g] = "remember" PROVE req'[g].b \in stored'[req'[g].r]
  <2>1. CASE Upload(g)
    BY <2>1 DEF Upload, Carried, CarriedBy, Migrating
  <2>2. CASE ~Upload(g)
    <3>1. pc[g] = "remember" /\ req'[g] = req[g]
      BY <1>3, <2>2, Moves DEF BeginCommit, BeginSnapshot, BeginMigrate, BeginSweep, Begin, Go, Ends,
         StoreObject, ReadParent, UpdateRef, WriteSnapshot, GetTag, ScanRows, ScanRefs, CopyObject,
         Remember, CopiedAll, FlipOthers, FlipTarget, MigrationError
    <3>2. req[g].r \in Backends
      BY <3>1 DEF Carried, CarriedBy, Migrating
    <3> QED BY <1>1, <3>1, <3>2 DEF UploadInv
  <2> QED BY <2>1, <2>2
<1> QED BY <1>2, <1>3 DEF UploadInv

\* An index row is never ahead of the bytes it points at.
THEOREM IndexTruthful == Spec => []IndexIsTruthful
<1>1. Init => UploadInv
  BY DEF Init, UploadInv, IndexIsTruthful
<1>2. UploadInv => IndexIsTruthful
  BY DEF UploadInv
<1> QED BY <1>1, <1>2, UploadStep, TypeCorrect, PTL DEF Spec

-----------------------------------------------------------------------------
(* The primary backend.  A backend has no default before it is drafted, and a
   migration's target has been activated; while nothing made the primary
   unclear, a flip under way has cleared every default but its target's. *)

Drafted ==
  /\ \A r \in Backends : config[r].status = "none" => ~config[r].default
  /\ \A h \in Tasks : pc[h] \in Migrating => config[req[h].r].status # "none"

PrimaryInv ==
  \/ unclear
  \/ /\ \A g, h \in Flipping : g = h
     /\ \A h \in Flipping : \A r \in Defaults : r = req[h].r
     /\ \A r, s \in Defaults : r = s
     /\ (\E r \in Backends : config[r].migration = "done") \/ (\E h \in Tasks : pc[h] = "mark_done")
          => Defaults # {} \/ Flipping # {}

\* How a task enters and leaves its flip.
LEMMA FlipMoves ==
  ASSUME TypeOK, [Next]_vars, NEW g \in Tasks
  PROVE  /\ pc'[g] = "flip_target" => FlipOthers(g) \/ (pc[g] = "flip_target" /\ req'[g] = req[g])
         /\ pc'[g] = "mark_done" => FlipTarget(g) \/ pc[g] = "mark_done"
         /\ pc[g] = "flip_target" =>
              pc'[g] \in {"flip_target", "idle", "mark_failed"} \/ FlipTarget(g)
<1> USE DEF TypeOK, Go, Ends
<1>1. CASE FlipTarget(g)
  BY <1>1 DEF FlipTarget
<1>2. CASE FlipOthers(g)
  BY <1>2 DEF FlipOthers
<1>3. CASE ScanRows(g) \/ ScanRefs(g) \/ CopyObject(g) \/ Upload(g) \/ Remember(g) \/ CopiedAll(g)
  BY <1>3 DEF ScanRows, ScanRefs, CopyObject, Upload, Remember, CopiedAll
<1>4. CASE StoreObject(g) \/ ReadParent(g) \/ UpdateRef(g) \/ WriteSnapshot(g) \/ GetTag(g) \/ MigrationError(g)
  BY <1>4 DEF StoreObject, ReadParent, UpdateRef, WriteSnapshot, GetTag, MigrationError
<1>5. CASE \/ BeginSweep(g)
           \/ \E f \in Files, b \in Blobs : BeginCommit(g, f, b)
           \/ \E kind \in {"branch", "tag"} : BeginSnapshot(g, kind)
           \/ \E r \in Backends : BeginMigrate(g, r)
  BY <1>5 DEF BeginSweep, BeginCommit, BeginSnapshot, BeginMigrate, Begin
<1>6. CASE (pc'[g] = pc[g] /\ req'[g] = req[g]) \/ pc'[g] = "idle"
  BY <1>6
<1> QED BY <1>1, <1>2, <1>3, <1>4, <1>5, <1>6, Moves

\* What changes a backend's settings.
LEMMA ConfigMoves ==
  ASSUME [Next]_vars
  PROVE  \/ config' = config
         \/ \E h \in Tasks : FlipOthers(h)
         \/ \E h \in Tasks : FlipTarget(h)
         \/ \E h \in Tasks : MarkFinished(h)
         \/ \E h \in Tasks, r \in Backends : BeginMigrate(h, r)
         \/ \E r \in Backends : Activate(r)
         \/ \E r \in Backends, d \in BOOLEAN : CreateBackend(r, d)
BY DEF Next, CodeStep, Step, vars, StoreObject, ReadParent, UpdateRef, EmitVersion,
   WriteSnapshot, SetBranch, GetTag, InsertTag, ScanRows, ScanRefs, SweepObject, EndSweep, CopyObject,
   Upload, Remember, CopiedAll, MigrationError, Die, BeginSweep, BeginCommit, BeginSnapshot

LEMMA SettingsMoves ==
  ASSUME TypeOK, Carried, [Next]_vars, NEW r \in Backends
  PROVE  /\ config'[r].status = "none" => config[r].status = "none"
         /\ config'[r].default # config[r].default =>
              \/ \E h \in Tasks : FlipOthers(h)
              \/ \E h \in Tasks : FlipTarget(h) /\ r = req[h].r
              \/ \E d \in BOOLEAN : CreateBackend(r, d)
         /\ config'[r].migration = "done" =>
              config[r].migration = "done" \/ \E h \in Tasks : pc[h] = "mark_done"
<1>0. config \in [Backends -> Settings] /\ config[r] \in Settings
  BY DEF TypeOK
<1>1. ASSUME NEW h \in Tasks, FlipOthers(h)
      PROVE  /\ config'[r].status = config[r].status
             /\ config'[r].migration = config[r].migration
  BY <1>0, <1>1 DEF FlipOthers, Settings
<1>2. ASSUME NEW h \in Tasks, FlipTarget(h)
      PROVE  /\ config'[r].status = config[r].status
             /\ config'[r].migration = config[r].migration
             /\ config'[r].default # config[r].default => r = req[h].r
  <2> DEFINE t == req[h].r
  <2>1. config' = [config EXCEPT ![t] = [config[t] EXCEPT !.default = TRUE]]
    BY <1>2 DEF FlipTarget
  <2> HIDE DEF t
  <2>2. config'[r] = IF r = t THEN [config[r] EXCEPT !.default = TRUE] ELSE config[r]
    BY <1>0, <2>1
  <2> QED BY <1>0, <2>2 DEF Settings, t
<1>3. ASSUME NEW t, NEW mig \in {"running", "done", "failed"}, SetMigration(t, mig)
      PROVE  /\ config'[r].status = config[r].status /\ config'[r].default = config[r].default
             /\ config'[r].migration = "done" => config[r].migration = "done" \/ mig = "done"
  <2>1. config' = [config EXCEPT ![t] = [config[t] EXCEPT !.migration = mig]]
    BY <1>3 DEF SetMigration
  <2>2. config'[r] = IF r = t THEN [config[r] EXCEPT !.migration = mig] ELSE config[r]
    BY <1>0, <2>1
  <2> QED BY <1>0, <2>2 DEF Settings
<1>4. ASSUME NEW h \in Tasks, MarkFinished(h)
      PROVE  \/ pc[h] = "mark_done"
             \/ SetMigration(req[h].r, "failed")
  BY <1>4 DEF MarkFinished
<1>5. ASSUME NEW h \in Tasks, MarkFinished(h)
      PROVE  SetMigration(req[h].r, "done") \/ SetMigration(req[h].r, "failed")
  BY <1>5 DEF MarkFinished
<1>6. ASSUME NEW h \in Tasks, NEW t \in Backends, BeginMigrate(h, t)
      PROVE  SetMigration(t, "running")
  BY <1>6 DEF BeginMigrate
<1>7. ASSUME NEW t \in Backends, Activate(t)
      PROVE  /\ config'[r].status = "none" => config[r].status = "none"
             /\ config'[r].default = config[r].default /\ config'[r].migration = config[r].migration
  <2>1. config' = [config EXCEPT ![t] = [config[t] EXCEPT !.status = "active"]]
    BY <1>7 DEF Activate
  <2>2. config'[r] = IF r = t THEN [config[r] EXCEPT !.status = "active"] ELSE config[r]
    BY <1>0, <2>1
  <2> QED BY <1>0, <2>2 DEF Settings
<1>8. ASSUME NEW t \in Backends, NEW d \in BOOLEAN, CreateBackend(t, d)
      PROVE  /\ config'[r].status = "none" => config[r].status = "none"
             /\ config'[r].migration = config[r].migration
             /\ config'[r].default # config[r].default => r = t
  <2>1. config' = [config EXCEPT ![t] = [config[t] EXCEPT !.status = "pending_approval", !.default = d]]
    BY <1>8 DEF CreateBackend
  <2>2. config'[r] = IF r = t THEN [config[r] EXCEPT !.status = "pending_approval", !.default = d]
                              ELSE config[r]
    BY <1>0, <2>1
  <2> QED BY <1>0, <2>2 DEF Settings
<1>9. CASE \E h \in Tasks : FlipOthers(h)
  BY <1>1, <1>9
<1>10. CASE \E h \in Tasks : FlipTarget(h)
  BY <1>2, <1>10
<1>11. CASE \E h \in Tasks : MarkFinished(h)
  <2>1. PICK h \in Tasks : MarkFinished(h)
    BY <1>11
  <2> QED BY <1>3, <1>4, <1>5, <2>1
<1>12. CASE \E h \in Tasks, t \in Backends : BeginMigrate(h, t)
  BY <1>3, <1>6, <1>12
<1>13. CASE \E t \in Backends : Activate(t)
  BY <1>7, <1>13
<1>14. CASE \E t \in Backends, d \in BOOLEAN : CreateBackend(t, d)
  BY <1>8, <1>14
<1> QED BY <1>9, <1>10, <1>11, <1>12, <1>13, <1>14, ConfigMoves

LEMMA DraftedStep ==
  ASSUME TypeOK, Carried, Drafted, [Next]_vars
  PROVE  Drafted'
<1>1. \A r \in Backends : config'[r].status = "none" => config[r].status = "none"
  BY SettingsMoves
<1>2. ASSUME NEW r \in Backends, config'[r].status = "none" PROVE ~config'[r].default
  <2>1. config[r].status = "none" /\ ~config[r].default
    BY <1>1, <1>2 DEF Drafted
  <2>2. CASE config'[r].default # config[r].default
    <3>1. CASE \E h \in Tasks : FlipOthers(h)
      BY <2>1, <3>1 DEF FlipOthers, TypeOK, Settings
    <3>2. CASE \E h \in Tasks : FlipTarget(h) /\ r = req[h].r
      BY <2>1, <3>2 DEF FlipTarget, Migrating, Drafted
    <3>3. ASSUME NEW d \in BOOLEAN, CreateBackend(r, d) PROVE FALSE
      <4>1. config' = [config EXCEPT ![r] = [config[r] EXCEPT !.status = "pending_approval", !.default = d]]
        BY <3>3 DEF CreateBackend
      <4> QED BY <1>2, <4>1 DEF TypeOK, Settings
    <3> QED BY <2>2, <3>1, <3>2, <3>3, SettingsMoves
  <2> QED BY <2>1, <2>2
<1>3. ASSUME NEW g \in Tasks, pc'[g] \in Migrating PROVE config'[req'[g].r].status # "none"
  <2>1. CASE \E r \in Backends : BeginMigrate(g, r)
    <3>1. PICK r \in Backends : BeginMigrate(g, r)
      BY <2>1
    <3>2. req'[g].r = r /\ config[r].status = "active"
      BY <3>1 DEF BeginMigrate, Begin, TypeOK, NoTask
    <3> QED BY <1>1, <3>2
  <2>2. CASE ~\E r \in Backends : BeginMigrate(g, r)
    <3>1. pc[g] \in Migrating /\ req'[g].r = req[g].r
      <4> USE <1>3 DEF TypeOK, TaskTypes, Begin, Go, Ends, Migrating
      <4>1. CASE \/ BeginSweep(g)
                 \/ \E f \in Files, b \in Blobs : BeginCommit(g, f, b)
                 \/ \E kind \in {"branch", "tag"} : BeginSnapshot(g, kind)
        BY <4>1 DEF BeginCommit, BeginSnapshot, BeginSweep
      <4>2. CASE StoreObject(g) \/ ReadParent(g) \/ UpdateRef(g) \/ WriteSnapshot(g) \/ GetTag(g)
        BY <4>2 DEF StoreObject, ReadParent, UpdateRef, WriteSnapshot, GetTag
      <4>3. CASE ScanRows(g) \/ ScanRefs(g)
        BY <4>3 DEF ScanRows, ScanRefs
      <4>7. CASE CopyObject(g)
        <5>1. pc[g] = "copy" /\ req'[g].r = req[g].r
          BY <4>7 DEF CopyObject
        <5> QED BY <5>1
      <4>4. CASE Upload(g) \/ Remember(g) \/ CopiedAll(g)
        BY <4>4 DEF Upload, Remember, CopiedAll
      <4>5. CASE FlipOthers(g) \/ FlipTarget(g) \/ MigrationError(g)
        BY <4>5 DEF FlipOthers, FlipTarget, MigrationError
      <4>6. CASE (pc'[g] = pc[g] /\ req'[g] = req[g]) \/ (pc'[g] = "idle" /\ req'[g] = NoTask)
        BY <4>6
      <4> QED BY <2>2, <4>1, <4>2, <4>3, <4>4, <4>5, <4>6, <4>7, Moves
    <3> QED BY <1>1, <3>1 DEF Drafted, Carried, CarriedBy
  <2> QED BY <2>1, <2>2
<1> QED BY <1>2, <1>3 DEF Drafted

LEMMA PrimaryStep ==
  ASSUME TypeOK, Carried, Drafted, PrimaryInv, [Next]_vars
  PROVE  PrimaryInv'
<1> SUFFICES ASSUME ~unclear' PROVE PrimaryInv'
  BY DEF PrimaryInv
<1>1. CASE UNCHANGED vars
  BY <1>1 DEF vars, PrimaryInv, Flipping, Defaults
<1>2. CASE Next
  <2>1. ~unclear
    BY <1>2 DEF Next, Watch
  <2>2. \A g, h \in Flipping' : g = h
    BY <1>2 DEF Next, Watch
  <2>3. \A h \in Flipping : pc'[h] \notin {"idle", "mark_failed"}
    BY <1>2 DEF Next, Watch
  <2>4. \A r, s \in Backends : r # s /\ config[r].status = "none" /\ config'[r].default
                               => ~config[s].default /\ Flipping = {}
    BY <1>2 DEF Next, Watch
  <2>5. /\ \A g, h \in Flipping : g = h
        /\ \A h \in Flipping : \A r \in Defaults : r = req[h].r
        /\ \A r, s \in Defaults : r = s
        /\ (\E r \in Backends : config[r].migration = "done") \/ (\E h \in Tasks : pc[h] = "mark_done")
             => Defaults # {} \/ Flipping # {}
    BY <2>1 DEF PrimaryInv
  <2>6. CASE \E h \in Tasks : FlipOthers(h)
    <3>1. PICK h \in Tasks : FlipOthers(h)
      BY <2>6
    <3>2. pc'[h] = "flip_target" /\ req' = req
      BY <3>1 DEF FlipOthers, Go, TypeOK
    <3>3. Flipping' = {h}
      BY <2>2, <3>2 DEF Flipping
    <3>4. \A r \in Defaults' : r = req[h].r
      BY <3>1 DEF FlipOthers, Defaults, TypeOK, Settings
    <3> QED BY <3>2, <3>3, <3>4 DEF PrimaryInv
  <2>7. CASE \E h \in Tasks : FlipTarget(h)
    <3>1. PICK h \in Tasks : FlipTarget(h)
      BY <2>7
    <3>2. req[h].r \in Backends /\ h \in Flipping
      BY <3>1 DEF FlipTarget, Carried, CarriedBy, Migrating, Flipping
    <3>3. Flipping' = {}
      BY <2>5, <3>1, <3>2 DEF FlipTarget, Go, Flipping, TypeOK
    <3>4. \A r \in Defaults' : r = req[h].r
      BY <2>5, <3>1, <3>2 DEF FlipTarget, Defaults, TypeOK
    <3>5. req[h].r \in Defaults'
      BY <3>1, <3>2 DEF FlipTarget, Defaults, TypeOK, Settings
    <3> QED BY <3>3, <3>4, <3>5 DEF PrimaryInv
  <2>8. CASE (\A h \in Tasks : ~FlipOthers(h)) /\ (\A h \in Tasks : ~FlipTarget(h))
    <3>1. Flipping' = Flipping /\ \A h \in Flipping : req'[h] = req[h]
      BY <2>3, <2>8, FlipMoves DEF Flipping
    <3>2. \A h \in Tasks : pc'[h] = "mark_done" => pc[h] = "mark_done"
      BY <2>8, FlipMoves
    <3>3. CASE Defaults' = Defaults
      <4>1. (\E r \in Backends : config'[r].migration = "done") =>
              \/ \E r \in Backends : config[r].migration = "done"
              \/ \E h \in Tasks : pc[h] = "mark_done"
        BY SettingsMoves
      <4> QED BY <2>5, <3>1, <3>2, <3>3, <4>1 DEF PrimaryInv
    <3>4. CASE Defaults' # Defaults
      <4>1. PICK r \in Backends, d \in BOOLEAN : CreateBackend(r, d)
        <5>1. PICK r \in Backends : config'[r].default # config[r].default
          BY <3>4 DEF Defaults
        <5> QED BY <2>8, <5>1, SettingsMoves
      <4>2. /\ config[r].status = "none" /\ ~config[r].default
            /\ config' = [config EXCEPT ![r] = [config[r] EXCEPT !.status = "pending_approval", !.default = d]]
            /\ pc' = pc
        BY <4>1 DEF CreateBackend, Drafted
      <4>3. Defaults' = Defaults \union {r} /\ config'[r].default
        BY <3>4, <4>2 DEF Defaults, TypeOK, Settings
      <4>4. \A s \in Defaults : s = r
        BY <2>4, <4>2, <4>3 DEF Defaults
      <4>5. \A h \in Flipping : req[h].r = r
        BY <2>4, <4>2, <4>3 DEF Flipping, Carried, CarriedBy, Migrating
      <4> QED BY <2>5, <3>1, <4>3, <4>4, <4>5 DEF PrimaryInv
    <3> QED BY <3>3, <3>4
  <2> QED BY <2>6, <2>7, <2>8
<1> QED BY <1>1, <1>2

\* routes/storage.rs: one backend is the primary, and one is after every finished
\* migration, unless two flips met, one died, or a second default was drafted.
THEOREM PrimaryIsOne == Spec => []OnePrimary
<1>1. Init => Drafted /\ PrimaryInv
  BY DEF Init, Drafted, PrimaryInv, Flipping, Defaults, Migrating
<1>2. PrimaryInv => OnePrimary
  BY DEF PrimaryInv, OnePrimary
<1> QED BY <1>1, <1>2, DraftedStep, PrimaryStep, TypeCorrect, PTL DEF Spec

\* A tag never moves, whoever else sets it.
THEOREM TagsStay == Spec => TagsNeverMove
<1>1. [Next]_vars => [tag # Null => tag' = tag]_vars
  BY WhoChanges DEF ChangesOf, InsertTag, vcsVars
<1> QED BY <1>1, PTL DEF Spec, TagsNeverMove
-----------------------------------------------------------------------------
(* The versions of a file.  While no two commits met on it and none died before
   its event, the one commit that is on its way knows how blob_ref and the events
   differ: it read the last version as its parent, and its own blob is the
   blob_ref whose event is still missing. *)

OnFile(f) == {h \in Tasks : req[h].f = f}

ChainOf(f) ==
  /\ \A g, h \in OnFile(f) : g = h
  /\ vers[f] # <<>>
  /\ \A i \in DOMAIN vers[f] : vers[f][i].parent = IF i = 1 THEN Null ELSE vers[f][i - 1].blob
  /\ \A h \in OnFile(f) :
       /\ pc[h] = "update" => req[h].parent = ref[f]
       /\ pc[h] = "emit" => req[h].parent = vers[f][Len(vers[f])].blob /\ req[h].b = ref[f]
  /\ (\A h \in OnFile(f) : pc[h] # "emit") => ref[f] = vers[f][Len(vers[f])].blob

ChainInv == \A f \in Files \ contested : ChainOf(f)

\* What changes blob_ref, and what changes the events.
LEMMA RefMoves == [Next]_vars => ref' = ref \/ \E h \in Tasks : UpdateRef(h)
BY WhoChanges DEF ChangesOf, bytes, vcsVars

LEMMA VersMoves == [Next]_vars => vers' = vers \/ \E h \in Tasks : EmitVersion(h)
BY WhoChanges DEF ChangesOf, bytes, vcsVars

\* How a commit comes to its event, and leaves it.
LEMMA CommitMoves ==
  ASSUME TypeOK, [Next]_vars, NEW g \in Tasks
  PROVE  /\ pc'[g] = "update" => ReadParent(g) \/ (pc[g] = "update" /\ req'[g] = req[g])
         /\ pc'[g] = "emit" => UpdateRef(g) \/ (pc[g] = "emit" /\ req'[g] = req[g])
         /\ pc[g] = "emit" => (pc'[g] = "emit" /\ req'[g] = req[g]) \/ EmitVersion(g) \/ Die(g)
<1> USE DEF TypeOK, Go, Ends
<1>1. CASE pc'[g] = pc[g] /\ req'[g] = req[g]
  BY <1>1
<1>2. CASE StoreObject(g) \/ ReadParent(g) \/ UpdateRef(g) \/ EmitVersion(g)
  BY <1>2 DEF StoreObject, ReadParent, UpdateRef, EmitVersion
<1>3. CASE WriteSnapshot(g) \/ SetBranch(g) \/ GetTag(g) \/ InsertTag(g)
  BY <1>3 DEF WriteSnapshot, SetBranch, GetTag, InsertTag
<1>4. CASE ScanRows(g) \/ ScanRefs(g) \/ SweepObject(g) \/ EndSweep(g)
  BY <1>4 DEF ScanRows, ScanRefs, SweepObject, EndSweep
<1>5. CASE CopyObject(g)
  <2>1. pc[g] = "copy" /\ pc'[g] \in {"copy", "upload"}
    BY <1>5 DEF CopyObject
  <2> QED BY <2>1
<1>6. CASE Upload(g) \/ Remember(g) \/ CopiedAll(g) \/ FlipOthers(g) \/ FlipTarget(g)
  BY <1>6 DEF Upload, Remember, CopiedAll, FlipOthers, FlipTarget
<1>7. CASE MarkFinished(g) \/ MigrationError(g) \/ Die(g)
  BY <1>7 DEF MarkFinished, MigrationError, Die
<1>8. CASE Begins(g)
  BY <1>8 DEF Begins, BeginSweep, BeginCommit, BeginSnapshot, BeginMigrate, Begin
<1> QED BY <1>1, <1>2, <1>3, <1>4, <1>5, <1>6, <1>7, <1>8, Owned DEF Own, Step

\* Which tasks are on a file: none joins one but by a commit that begins on it.
LEMMA FileMoves ==
  ASSUME TypeOK, [Next]_vars, NEW g \in Tasks, NEW f \in Files, g \in OnFile(f)'
  PROVE  g \in OnFile(f) \/ pc'[g] = "store"
<1> USE StorageAssumption DEF OnFile, TypeOK, TaskTypes, Go, Ends, NoTask
<1>1. CASE \E e \in Files, b \in Blobs : BeginCommit(g, e, b)
  BY <1>1 DEF BeginCommit, Begin
<1>2. CASE \/ BeginSweep(g) \/ \E kind \in {"branch", "tag"} : BeginSnapshot(g, kind)
           \/ \E r \in Backends : BeginMigrate(g, r)
  BY <1>2 DEF BeginSweep, BeginSnapshot, BeginMigrate, Begin
<1>3. CASE StoreObject(g) \/ ReadParent(g) \/ UpdateRef(g) \/ WriteSnapshot(g) \/ GetTag(g)
  BY <1>3 DEF StoreObject, ReadParent, UpdateRef, WriteSnapshot, GetTag
<1>4. CASE ScanRows(g) \/ ScanRefs(g) \/ Upload(g) \/ Remember(g) \/ CopiedAll(g)
  BY <1>4 DEF ScanRows, ScanRefs, Upload, Remember, CopiedAll
<1>5. CASE CopyObject(g)
  <2>1. req'[g].f = req[g].f
    BY <1>5 DEF CopyObject
  <2> QED BY <2>1
<1>6. CASE FlipOthers(g) \/ FlipTarget(g) \/ MigrationError(g)
  BY <1>6 DEF FlipOthers, FlipTarget, MigrationError
<1>7. CASE (pc'[g] = pc[g] /\ req'[g] = req[g]) \/ (pc'[g] = "idle" /\ req'[g] = NoTask)
  BY <1>7
<1> HIDE DEF OnFile, TypeOK, TaskTypes, Go, Ends, NoTask
<1> QED BY <1>1, <1>2, <1>3, <1>4, <1>5, <1>6, <1>7, Moves

LEMMA ChainStep ==
  ASSUME TypeOK, Carried, ChainInv, [Next]_vars
  PROVE  ChainInv'
<1> SUFFICES ASSUME NEW f \in Files, f \notin contested' PROVE ChainOf(f)'
  BY DEF ChainInv
<1>1. CASE UNCHANGED vars
  BY <1>1 DEF vars, vcsVars, ChainInv, ChainOf, OnFile
<1>2. CASE Next
  <2> DEFINE V == vers[f]
             VersionRows == [blob : Blobs, parent : Blobs \union {Null}]
  <2>1. /\ f \notin contested
        /\ \A g, h \in OnFile(f)' : g = h
        /\ \A h \in Tasks : ~(pc[h] = "emit" /\ req[h].f = f /\ pc'[h] = "idle" /\ vers' = vers)
    BY <1>2 DEF Next, Watch, OnFile
  <2>2. ChainOf(f)
    BY <2>1 DEF ChainInv
  <2>3. V \in Seq(VersionRows) /\ Len(V) \in Nat /\ Len(V) # 0
    <3>1. V \in Seq(VersionRows) /\ V # <<>>
      BY <2>2 DEF TypeOK, ChainOf
    <3> QED BY <3>1, LenProperties, EmptySeq
  <2>4. CASE \E h \in OnFile(f) : EmitVersion(h)
    <3>1. PICK h \in OnFile(f) : EmitVersion(h)
      BY <2>4
    <3>2. h \in Tasks /\ req[h].f = f /\ pc[h] = "emit"
      BY <3>1 DEF OnFile, EmitVersion
    <3>3. PICK e \in VersionRows : e = [blob |-> req[h].b, parent |-> req[h].parent]
      BY <3>2 DEF Carried, CarriedBy
    <3>4. V' = Append(V, e) /\ ref' = ref
      BY <3>1, <3>2, <3>3 DEF EmitVersion, TypeOK
    <3>5. e.parent = V[Len(V)].blob /\ e.blob = ref[f]
      BY <2>2, <3>1, <3>2, <3>3 DEF ChainOf
    <3>6. V' # <<>> /\ V'[Len(V')] = e /\ \A i \in DOMAIN V' : V'[i].parent = IF i = 1 THEN Null ELSE V'[i - 1].blob
      <4>1. Len(V') = Len(V) + 1 /\ V'[Len(V) + 1] = e /\ \A i \in 1..Len(V) : V'[i] = V[i]
        BY <2>3, <3>4
      <4>2. DOMAIN V' = 1..(Len(V) + 1) /\ DOMAIN V = 1..Len(V)
        BY <2>3, <3>4
      <4>3. \A i \in 1..Len(V) : V[i].parent = IF i = 1 THEN Null ELSE V[i - 1].blob
        BY <2>2, <4>2 DEF ChainOf
      <4>4. ASSUME NEW i \in 1..Len(V) PROVE V'[i].parent = IF i = 1 THEN Null ELSE V'[i - 1].blob
        <5>1. i = 1 \/ i - 1 \in 1..Len(V)
          BY <2>3
        <5> QED BY <4>1, <4>3, <5>1
      <4>5. V'[Len(V) + 1].parent = V'[Len(V)].blob /\ Len(V) + 1 # 1
        BY <2>3, <3>5, <4>1
      <4>6. V' # <<>> /\ V'[Len(V')] = e
        <5>1. 1 \in DOMAIN V'
          BY <2>3, <4>2
        <5> QED BY <4>1, <5>1
      <4>7. ASSUME NEW i \in DOMAIN V' PROVE V'[i].parent = IF i = 1 THEN Null ELSE V'[i - 1].blob
        <5>1. i \in 1..Len(V) \/ i = Len(V) + 1
          BY <2>3, <4>2
        <5>2. CASE i = Len(V) + 1
          <6>1. i # 1 /\ i - 1 = Len(V)
            BY <2>3, <4>5, <5>2
          <6> QED BY <4>5, <5>2, <6>1
        <5> QED BY <4>4, <5>1, <5>2
      <4> QED BY <4>6, <4>7
    <3>7. pc'[h] = "idle" /\ req'[h] = NoTask
      BY <3>1, <3>2 DEF EmitVersion, Ends, Go, TypeOK
    <3>8. OnFile(f)' = {}
      <4>1. ASSUME NEW g \in OnFile(f)' PROVE FALSE
        <5>1. g \in Tasks /\ g # h
          BY <3>7, StorageAssumption DEF OnFile, NoTask
        <5>2. req'[g] = req[g]
          BY <3>1, <3>2, <5>1, Others DEF Own, Step
        <5> QED BY <2>2, <3>1, <5>1, <5>2 DEF ChainOf, OnFile
      <4> QED BY <4>1
    <3> QED BY <3>4, <3>5, <3>6, <3>8 DEF ChainOf
  <2>5. CASE ~\E h \in OnFile(f) : EmitVersion(h)
    <3>1. V' = V
      <4>1. CASE vers' = vers
        BY <4>1
      <4>2. CASE \E h \in Tasks : EmitVersion(h)
        BY <2>5, <4>2 DEF EmitVersion, OnFile, TypeOK
      <4> QED BY <1>2, <4>1, <4>2, VersMoves
    <3>2. \A h \in OnFile(f) : pc[h] = "emit" => pc'[h] = "emit" /\ req'[h] = req[h]
      <4>1. ASSUME NEW h \in OnFile(f), Die(h), pc[h] = "emit" PROVE FALSE
        <5>1. vers' = vers /\ pc'[h] = "idle"
          BY <4>1 DEF Die, vcsVars, Ends, Go, OnFile, TypeOK
        <5> QED BY <2>1, <4>1, <5>1 DEF OnFile
      <4> QED BY <1>2, <2>5, <4>1, CommitMoves DEF OnFile
    <3>3. CASE \E h \in OnFile(f) : UpdateRef(h)
      <4>1. PICK h \in OnFile(f) : UpdateRef(h)
        BY <3>3
      <4>2. h \in Tasks /\ req[h].f = f /\ pc[h] = "update" /\ pc'[h] = "emit" /\ req' = req
            /\ ref'[f] = req[h].b
        BY <4>1 DEF OnFile, UpdateRef, Go, TypeOK, Maps
      <4>3. OnFile(f)' = {h} /\ OnFile(f) = {h}
        BY <2>2, <4>1, <4>2 DEF ChainOf, OnFile
      <4>4. ref[f] = V[Len(V)].blob /\ req[h].parent = ref[f]
        BY <2>2, <4>2, <4>3 DEF ChainOf
      <4> QED BY <2>2, <3>1, <4>2, <4>3, <4>4 DEF ChainOf
    <3>4. CASE ~\E h \in OnFile(f) : UpdateRef(h)
      <4>1. ref'[f] = ref[f]
        <5>1. CASE \E h \in Tasks : UpdateRef(h)
          BY <3>4, <5>1 DEF UpdateRef, OnFile, TypeOK, Maps
        <5> QED BY <1>2, <5>1, RefMoves
      <4>2. ASSUME NEW g \in OnFile(f)'
            PROVE  /\ pc'[g] = "update" => req'[g].parent = ref[f]
                   /\ pc'[g] = "emit" => g \in OnFile(f) /\ pc[g] = "emit" /\ req'[g] = req[g]
        <5>1. g \in Tasks /\ (g \in OnFile(f) \/ pc'[g] = "store")
          BY <1>2, <4>2, FileMoves DEF OnFile
        <5>2. CASE ReadParent(g) /\ pc'[g] = "update"
          <6>1. req'[g].parent = ref[req[g].f]
            BY <5>1, <5>2 DEF ReadParent, Go, Ends, TypeOK, TaskTypes
          <6> QED BY <5>1, <5>2, <6>1 DEF OnFile
        <5>3. CASE pc'[g] = "update" /\ ~ReadParent(g)
          BY <1>2, <2>2, <5>1, <5>3, CommitMoves DEF ChainOf
        <5>4. CASE pc'[g] = "emit"
          BY <1>2, <3>4, <5>1, <5>4, CommitMoves
        <5> QED BY <5>2, <5>3, <5>4
      <4>3. (\A g \in OnFile(f)' : pc'[g] # "emit") => \A h \in OnFile(f) : pc[h] # "emit"
        BY <3>2 DEF OnFile
      <4>4. \A g \in OnFile(f) : pc[g] = "emit" => req[g].parent = V[Len(V)].blob /\ req[g].b = ref[f]
        BY <2>2 DEF ChainOf
      <4>5. \A g \in OnFile(f)' : pc'[g] = "emit" => req'[g].parent = V[Len(V)].blob /\ req'[g].b = ref[f]
        BY <4>2, <4>4
      <4>6. /\ V # <<>> /\ \A i \in DOMAIN V : V[i].parent = IF i = 1 THEN Null ELSE V[i - 1].blob
            /\ (\A h \in OnFile(f) : pc[h] # "emit") => ref[f] = V[Len(V)].blob
        BY <2>2 DEF ChainOf
      <4> QED BY <2>1, <3>1, <4>1, <4>2, <4>3, <4>5, <4>6 DEF ChainOf
    <3> QED BY <3>3, <3>4
  <2> QED BY <2>4, <2>5
<1> QED BY <1>1, <1>2

\* commit.rs: the versions of a file form a chain that ends in its blob_ref, unless two
\* commits met on it or one died before its event.
THEOREM VersionsAreChained == Spec => []VersionsChain
<1>1. Init => ChainInv
  <2> SUFFICES ASSUME Init, NEW f \in Files PROVE ChainOf(f)
    BY DEF ChainInv
  <2>1. OnFile(f) = {}
    BY StorageAssumption DEF Init, OnFile, NoTask
  <2>2. vers[f] = <<[blob |-> First[f], parent |-> Null]>> /\ ref = First
    BY DEF Init
  <2> QED BY <2>1, <2>2 DEF ChainOf
<1>2. TypeOK /\ ChainInv => VersionsChain
  <2> SUFFICES ASSUME TypeOK, ChainInv, NEW f \in Files \ contested
               PROVE  /\ \A i \in DOMAIN vers[f] : vers[f][i].parent = IF i = 1 THEN Null ELSE vers[f][i - 1].blob
                      /\ (\A h \in Committing : pc[h] # "emit") => ref[f] = Last(vers[f]).blob
    BY DEF VersionsChain
  <2>1. ChainOf(f)
    BY DEF ChainInv
  <2>2. OnFile(f) \subseteq Committing
    BY StorageAssumption DEF OnFile, Committing
  <2> QED BY <2>1, <2>2 DEF ChainOf, Last
<1> QED BY <1>1, <1>2, ChainStep, TypeCorrect, PTL DEF Spec
-----------------------------------------------------------------------------
(* What is referred to is kept.  A sweep spares what was referred to when it
   looked, and all that commits and snapshots use while it runs is raced: so
   whatever is referred to while it deletes is in one or the other. *)

Safe(o) == o \in local \/ Damaged(o)
Kept(b) == Damaged(b) \/ \A o \in ObjectsOf(b) : Safe(o)
SnapshotKept(s) == Safe(s) /\ (Damaged(s) \/ \A b \in BlobsIn(s) : Kept(b))
Spared(T, b) == b \in T \union raced /\ (Damaged(b) \/ ObjectsOf(b) \subseteq T \union raced)
SnapshotSpared(T, s) ==
  s \in T \union raced /\ (Damaged(s) \/ \A b \in BlobsIn(s) : Spared(T, b))

TaskKeeps(h) ==
  /\ pc[h] = "store" =>
       \A k \in 1..(req[h].i - 1) : Safe(Append(ChunksOf[req[h].b], req[h].b)[k])
  /\ pc[h] \in {"parent", "update"} => \A o \in ObjectsOf(req[h].b) : Safe(o)
  /\ pc[h] \in {"branch", "tag"} => \A b \in BlobsIn(req[h].snap) : Kept(b)
  /\ pc[h] \in {"set_branch", "get_tag", "insert_tag"} => SnapshotKept(req[h].snap)
  /\ pc[h] \in {"refs_sweep", "sweep"} => \A b \in BlobsIn(ref) : Spared(req[h].todo, b)
  /\ pc[h] = "sweep" => \A s \in Snapshots : SnapshotSpared(req[h].todo, s)

KeepInv ==
  /\ \A b \in BlobsIn(ref) : Kept(b)
  /\ \A s \in Snapshots : SnapshotKept(s)
  /\ \A h \in Tasks : TaskKeeps(h)
  /\ Sweeping => InUse \subseteq raced

\* An object is lost when a step takes its bytes away and it is not among the raced.
Lost(o) == o \in Present /\ o \notin Present' /\ o \notin raced'

LEMMA StoreMoves ==
  [Next]_vars => (local \subseteq local' /\ torn \subseteq torn') \/ \E h \in Tasks : SweepObject(h)
BY WhoChanges DEF ChangesOf, bytes, vcsVars

LEMMA RacedGrows == [Next]_vars => raced \subseteq raced'
BY DEF Next, Watch, vars

LEMMA SnapshotsType ==
  ASSUME TypeOK
  PROVE  /\ Snapshots \subseteq Maps /\ BlobsIn(ref) \subseteq Blobs
         /\ \A s \in Maps : BlobsIn(s) \subseteq Blobs
BY DEF TypeOK, Snapshots, Maps, BlobsIn

\* What a commit and a snapshot use.
LEMMA UsesOfCommit ==
  ASSUME Carried, NEW h \in Tasks, pc[h] \in {"store", "parent", "update", "emit"}
  PROVE  ObjectsOf(req[h].b) \subseteq InUse
BY StorageAssumption DEF Carried, CarriedBy, InUse, Committing

LEMMA UsesOfSnapshot ==
  ASSUME NEW h \in Snapping
  PROVE  /\ req[h].snap \in InUse
         /\ \A b \in BlobsIn(req[h].snap) : ObjectsOf(b) \subseteq InUse
<1>1. SnapshotUses(h) \subseteq InUse
  <2>1. SnapshotUses(h) \in {SnapshotUses(g) : g \in Snapping}
    OBVIOUS
  <2>2. \A S, A : A \in S => A \subseteq UNION S
    OBVIOUS
  <2>3. SnapshotUses(h) \subseteq UNION {SnapshotUses(g) : g \in Snapping}
    BY <2>1, <2>2
  <2> QED BY <2>3 DEF InUse
<1> QED BY <1>1 DEF SnapshotUses, SnapshotObjects

\* Nothing that is referred to, and nothing in use, is lost.
LEMMA NothingLost ==
  ASSUME TypeOK, KeepInv, [Next]_vars
  PROVE  /\ \A o \in InUse : ~Lost(o)
         /\ \A s \in Snapshots : ~Lost(s)
         /\ \A b \in LiveBlobs : ~Lost(b) /\ (~Damaged(b) => \A o \in ObjectsOf(b) : ~Lost(o))
<1> SUFFICES ASSUME NEW o, Lost(o)
             PROVE  /\ o \notin InUse /\ o \notin Snapshots
                    /\ \A b \in LiveBlobs : o # b /\ (~Damaged(b) => o \notin ObjectsOf(b))
  OBVIOUS
<1>1. PICK g \in Tasks : SweepObject(g)
  BY StoreMoves DEF Lost, Present
<1>2. pc[g] = "sweep" /\ o \notin req[g].todo /\ pc' = pc /\ req' = req
  BY <1>1 DEF SweepObject, Lost, Present
<1>3. Next
  BY <1>1 DEF Lost, vars, bytes, Present
<1>4. Sweeping' /\ InUse' = InUse
  BY <1>2 DEF Sweeping, InUse, Committing, Snapping, SnapshotUses, SnapshotObjects
<1>5. InUse \subseteq raced' /\ raced \subseteq raced'
  BY <1>3, <1>4 DEF Next, Watch
<1>6. o \notin req[g].todo \union raced
  BY <1>2, <1>5 DEF Lost
<1>7. /\ \A b \in BlobsIn(ref) : Spared(req[g].todo, b)
      /\ \A s \in Snapshots : SnapshotSpared(req[g].todo, s)
  BY <1>2 DEF KeepInv, TaskKeeps
<1>8. \A b \in LiveBlobs : Spared(req[g].todo, b)
  BY <1>7 DEF LiveBlobs, SnapshotSpared
<1> QED BY <1>5, <1>6, <1>7, <1>8 DEF Lost, Spared, SnapshotSpared

\* What is not lost stays as good, or as bad, as it was.
LEMMA NotLost ==
  ASSUME [Next]_vars, NEW o, ~Lost(o)
  PROVE  (Safe(o) => Safe(o)') /\ (Damaged(o) => Damaged(o)')
<1>1. raced \subseteq raced'
  BY RacedGrows
<1>2. CASE local \subseteq local' /\ torn \subseteq torn'
  BY <1>1, <1>2 DEF Safe, Damaged
<1>3. CASE \E h \in Tasks : SweepObject(h)
  <2>1. PICK h \in Tasks, x \in Present : local' = local \ {x} /\ torn' = torn \ {x}
    BY <1>3 DEF SweepObject
  <2> QED BY <1>1, <2>1 DEF Safe, Damaged, Lost, Present
<1> QED BY <1>2, <1>3, StoreMoves

LEMMA KeptStays ==
  ASSUME [Next]_vars, NEW b, Kept(b), ~Lost(b), ~Damaged(b) => \A o \in ObjectsOf(b) : ~Lost(o)
  PROVE  Kept(b)'
<1>1. CASE Damaged(b)
  BY <1>1, NotLost DEF Kept
<1>2. CASE ~Damaged(b)
  <2>1. \A o \in ObjectsOf(b) : Safe(o)'
    BY <1>2, NotLost DEF Kept
  <2> QED BY <2>1 DEF Kept, ObjectsOf
<1> QED BY <1>1, <1>2

LEMMA SparedStays ==
  ASSUME [Next]_vars, NEW T, NEW b, Spared(T, b), ~Lost(b)
  PROVE  Spared(T, b)'
BY RacedGrows, NotLost DEF Spared, ObjectsOf

\* An object of a blob in use.
LEMMA InUseStays ==
  ASSUME TypeOK, KeepInv, [Next]_vars, NEW b, ObjectsOf(b) \subseteq InUse
  PROVE  /\ \A o \in ObjectsOf(b) : ~Lost(o) /\ (Safe(o) => Safe(o)')
         /\ ~Lost(b) /\ (Kept(b) => Kept(b)')
<1>1. \A o \in ObjectsOf(b) : ~Lost(o)
  BY NothingLost
<1>2. b \in ObjectsOf(b)
  BY DEF ObjectsOf
<1> QED BY <1>1, <1>2, NotLost, KeptStays

LEMMA SnapshotStays ==
  ASSUME TypeOK, KeepInv, [Next]_vars, NEW s, SnapshotKept(s),
         \/ s \in Snapshots
         \/ s \in InUse /\ \A b \in BlobsIn(s) : ObjectsOf(b) \subseteq InUse
  PROVE  SnapshotKept(s)'
<1>1. ~Lost(s)
  BY NothingLost
<1>2. Safe(s)' /\ (Damaged(s) => Damaged(s)')
  BY <1>1, NotLost DEF SnapshotKept
<1>3. CASE ~Damaged(s)
  <2>1. ASSUME NEW b \in BlobsIn(s) PROVE Kept(b)'
    <3>1. Kept(b)
      BY <1>3 DEF SnapshotKept
    <3>2. CASE s \in Snapshots
      <4>1. b \in LiveBlobs
        BY <1>3, <3>2 DEF LiveBlobs
      <4> QED BY <3>1, <4>1, NothingLost, KeptStays
    <3>3. CASE ObjectsOf(b) \subseteq InUse
      BY <3>1, <3>3, InUseStays
    <3> QED BY <2>1, <3>2, <3>3
  <2>2. \A b \in BlobsIn(s) : Kept(b)'
    BY <2>1
  <2> QED BY <1>2, <2>2 DEF SnapshotKept, BlobsIn
<1> QED BY <1>2, <1>3 DEF SnapshotKept

\* What a step refers to that was not referred to before: what the task of that step used.
LEMMA NewRefs ==
  ASSUME TypeOK, Carried, [Next]_vars
  PROVE  /\ \A b \in BlobsIn(ref') :
              b \in BlobsIn(ref) \/ \E h \in Tasks : pc[h] = "update" /\ b = req[h].b
         /\ \A s \in Snapshots' :
              s \in Snapshots \/ \E h \in Tasks : pc[h] \in {"set_branch", "insert_tag"} /\ s = req[h].snap
<1>1. ASSUME NEW b \in BlobsIn(ref')
      PROVE  b \in BlobsIn(ref) \/ \E h \in Tasks : pc[h] = "update" /\ b = req[h].b
  <2>1. CASE ref' = ref
    BY <1>1, <2>1 DEF BlobsIn
  <2>2. CASE \E h \in Tasks : UpdateRef(h)
    BY <1>1, <2>2 DEF UpdateRef, BlobsIn, TypeOK, Maps
  <2> QED BY <2>1, <2>2, RefMoves
<1>2. \/ branch' = branch /\ tag' = tag
      \/ \E h \in Tasks : SetBranch(h)
      \/ \E h \in Tasks : InsertTag(h)
  BY WhoChanges DEF ChangesOf, bytes, vcsVars
<1>3. ASSUME NEW s \in Snapshots'
      PROVE  s \in Snapshots \/ \E h \in Tasks : pc[h] \in {"set_branch", "insert_tag"} /\ s = req[h].snap
  BY <1>2, <1>3 DEF Snapshots, SetBranch, InsertTag
<1> QED BY <1>1, <1>3

\* The objects a commit has written are those of its blob.
LEMMA WrittenIsItsOwn ==
  ASSUME NEW b \in Blobs
  PROVE  /\ \A k \in 1..(Len(ChunksOf[b]) + 1) : Append(ChunksOf[b], b)[k] \in ObjectsOf(b)
         /\ \A o \in ObjectsOf(b) :
              \E k \in 1..(Len(ChunksOf[b]) + 1) : o = Append(ChunksOf[b], b)[k]
<1> DEFINE c == ChunksOf[b]
<1>1. c \in Seq(ToSet(c)) /\ Len(c) \in Nat /\ DOMAIN c = 1..Len(c)
  BY StorageAssumption, LenProperties
<1>2. /\ Append(c, b)[Len(c) + 1] = b
      /\ \A k \in 1..Len(c) : Append(c, b)[k] = c[k]
  <2>1. \A S : c \in Seq(S) => /\ Append(c, b)[Len(c) + 1] = b
                              /\ \A k \in 1..Len(c) : Append(c, b)[k] = c[k]
    OBVIOUS
  <2> QED BY <1>1, <2>1
<1>3. ToSet(c) = {c[k] : k \in 1..Len(c)}
  BY <1>1 DEF ToSet
<1>4. \A k \in 1..(Len(c) + 1) : k \in 1..Len(c) \/ k = Len(c) + 1
  BY <1>1
<1>5. Len(c) + 1 \in 1..(Len(c) + 1) /\ 1..Len(c) \subseteq 1..(Len(c) + 1)
  BY <1>1
<1> QED BY <1>2, <1>3, <1>4, <1>5 DEF ObjectsOf

\* The same task, with nothing more done: what it keeps stays kept.
LEMMA TaskKeepsOn ==
  ASSUME TypeOK, Carried, KeepInv, [Next]_vars, NEW g \in Tasks, pc'[g] = pc[g], req'[g] = req[g]
  PROVE  TaskKeeps(g)'
<1> DEFINE b == req[g].b
           s == req[g].snap
           T == req[g].todo
<1>0. TaskKeeps(g)
  BY DEF KeepInv
<1>1. pc[g] \in {"store", "parent", "update"} =>
        \A o \in ObjectsOf(b) : Safe(o) => Safe(o)'
  BY UsesOfCommit, InUseStays
<1>2. (pc[g] = "store" =>
         \A k \in 1..(req[g].i - 1) : Safe(Append(ChunksOf[req[g].b], req[g].b)[k]))'
  <2> SUFFICES ASSUME pc[g] = "store", NEW k \in 1..(req[g].i - 1)
               PROVE  Safe(Append(ChunksOf[b], b)[k])'
    OBVIOUS
  <2>1. PICK o : o = Append(ChunksOf[b], b)[k]
    OBVIOUS
  <2>2. o \in ObjectsOf(b) /\ Safe(o)
    <3>1. b \in Blobs /\ k \in 1..(Len(ChunksOf[b]) + 1)
      <4>1. req[g].i \in 1..(Len(ChunksOf[b]) + 1) /\ b \in Blobs
        BY DEF Carried, CarriedBy
      <4>2. Len(ChunksOf[b]) \in Nat
        BY <4>1, StorageAssumption, LenProperties
      <4> QED BY <4>1, <4>2
    <3> QED BY <1>0, <2>1, <3>1, WrittenIsItsOwn DEF TaskKeeps
  <2>3. Safe(o)'
    BY <1>1, <2>2
  <2> QED BY <2>1, <2>3
<1>3. (pc[g] \in {"parent", "update"} => \A o \in ObjectsOf(req[g].b) : Safe(o))'
  <2>1. pc[g] \in {"parent", "update"} => \A o \in ObjectsOf(b) : Safe(o)'
    BY <1>0, <1>1 DEF TaskKeeps
  <2> QED BY <2>1 DEF ObjectsOf
<1>4. (pc[g] \in {"branch", "tag"} => \A x \in BlobsIn(req[g].snap) : Kept(x))'
  <2>1. pc[g] \in {"branch", "tag"} => \A x \in BlobsIn(s) : Kept(x)'
    BY <1>0, UsesOfSnapshot, InUseStays DEF TaskKeeps, Snapping
  <2> QED BY <2>1 DEF BlobsIn
<1>5. (pc[g] \in {"set_branch", "get_tag", "insert_tag"} => SnapshotKept(req[g].snap))'
  <2> SUFFICES ASSUME pc[g] \in {"set_branch", "get_tag", "insert_tag"} PROVE SnapshotKept(s)'
    OBVIOUS
  <2>1. PICK x : x = s
    OBVIOUS
  <2>2. SnapshotKept(x)
    BY <1>0, <2>1 DEF TaskKeeps
  <2>3. x \in InUse /\ \A y \in BlobsIn(x) : ObjectsOf(y) \subseteq InUse
    BY <2>1, UsesOfSnapshot DEF Snapping
  <2>4. SnapshotKept(x)'
    BY <2>2, <2>3, SnapshotStays
  <2> QED BY <2>1, <2>4
<1>6. ASSUME pc[g] \in {"refs_sweep", "sweep"}, NEW t, t = T
      PROVE  /\ \A x \in BlobsIn(ref') : Spared(t, x)'
             /\ pc[g] = "sweep" => \A x \in Snapshots' : SnapshotSpared(t, x)'
  <2>1. InUse \subseteq raced /\ raced \subseteq raced'
    BY <1>6, RacedGrows DEF KeepInv, Sweeping
  <2>3. ASSUME NEW x \in BlobsIn(ref') PROVE Spared(t, x)'
    <3>1. CASE x \in BlobsIn(ref)
      <4>1. Spared(t, x) /\ x \in LiveBlobs
        BY <1>0, <1>6, <3>1 DEF TaskKeeps, LiveBlobs
      <4> QED BY <4>1, NothingLost, SparedStays
    <3>2. CASE \E h \in Tasks : pc[h] = "update" /\ x = req[h].b
      <4>1. ObjectsOf(x) \subseteq raced'
        BY <2>1, <3>2, UsesOfCommit
      <4> QED BY <4>1 DEF Spared, ObjectsOf
    <3> QED BY <2>3, <3>1, <3>2, NewRefs
  <2>4. ASSUME pc[g] = "sweep", NEW x \in Snapshots' PROVE SnapshotSpared(t, x)'
    <3>1. CASE x \in Snapshots
      <4>1. SnapshotSpared(t, x) /\ ~Lost(x)
        BY <1>0, <1>6, <2>4, <3>1, NothingLost DEF TaskKeeps
      <4>2. x \in t \union raced' /\ (Damaged(x) => Damaged(x)')
        BY <2>1, <4>1, NotLost DEF SnapshotSpared
      <4>3. ASSUME ~Damaged(x), NEW y \in BlobsIn(x) PROVE Spared(t, y)'
        <5>1. Spared(t, y) /\ y \in LiveBlobs
          BY <3>1, <4>1, <4>3 DEF SnapshotSpared, LiveBlobs
        <5> QED BY <5>1, NothingLost, SparedStays
      <4> QED BY <4>2, <4>3 DEF SnapshotSpared, BlobsIn
    <3>2. CASE \E h \in Tasks : pc[h] \in {"set_branch", "insert_tag"} /\ x = req[h].snap
      <4>1. x \in raced'
        BY <2>1, <3>2, UsesOfSnapshot DEF Snapping
      <4> QED BY <4>1 DEF SnapshotSpared, Damaged
    <3> QED BY <2>4, <3>1, <3>2, NewRefs
  <2> QED BY <2>3, <2>4
<1>7. (pc[g] \in {"refs_sweep", "sweep"} => \A x \in BlobsIn(ref) : Spared(req[g].todo, x))'
  BY <1>6 DEF BlobsIn
<1>8. (pc[g] = "sweep" => \A x \in Snapshots : SnapshotSpared(req[g].todo, x))'
  BY <1>6
<1> QED BY <1>2, <1>3, <1>4, <1>5, <1>7, <1>8 DEF TaskKeeps

\* One step of a task's own: what it has then is kept.
LEMMA StoreKeeps ==
  ASSUME TypeOK, Carried, KeepInv, [Next]_vars, NEW g \in Tasks, StoreObject(g)
  PROVE  TaskKeeps(g)'
<1> USE DEF TypeOK
<1>1. TaskKeeps(g) /\ CarriedBy(g) /\ req[g] \in TaskTypes /\ pc[g] = "store"
  BY DEF KeepInv, Carried, StoreObject
<1>2. PICK b \in Blobs : b = req[g].b
  BY <1>1 DEF CarriedBy
<1>3. PICK i \in 1..(Len(ChunksOf[b]) + 1) : i = req[g].i
  BY <1>1, <1>2 DEF CarriedBy
<1>4. Len(ChunksOf[b]) \in Nat
  BY StorageAssumption, LenProperties
<1>5. PICK W : W = Append(ChunksOf[b], b)
  OBVIOUS
<1>6. Writes(g) = W[i]
  BY <1>2, <1>3, <1>5 DEF Writes
<1>7. /\ pc'[g] = IF i > Len(ChunksOf[b]) THEN "parent" ELSE "store"
      /\ req'[g].b = b /\ req'[g].i = i + 1
      /\ local' = IF W[i] \in Present THEN local ELSE local \union {W[i]}
      /\ torn' = torn
  BY <1>1, <1>2, <1>3, <1>6 DEF StoreObject, Go, TaskTypes
<1>8. PICK o : o = W[i]
  OBVIOUS
<1>9. Safe(o)'
  BY <1>7, <1>8 DEF Present, Safe, Damaged
<1>10. ASSUME NEW k \in 1..(i - 1) PROVE Safe(W[k])'
  <2>1. PICK x : x = W[k]
    OBVIOUS
  <2>2. k \in 1..(Len(ChunksOf[b]) + 1)
    BY <1>3, <1>4
  <2>3. Safe(x) /\ x \in ObjectsOf(b)
    BY <1>1, <1>2, <1>3, <1>5, <2>1, <2>2, WrittenIsItsOwn DEF TaskKeeps
  <2>4. Safe(x)'
    BY <1>1, <1>2, <2>3, UsesOfCommit, InUseStays
  <2> QED BY <2>1, <2>4
<1>11. ASSUME NEW k \in 1..i PROVE Safe(W[k])'
  <2>1. CASE k = i
    BY <1>8, <1>9, <2>1
  <2>2. CASE k # i
    <3>1. k \in 1..(i - 1)
      BY <1>3, <1>4, <2>2
    <3> QED BY <1>10, <3>1
  <2> QED BY <2>1, <2>2
<1>12. (pc[g] = "store" =>
          \A k \in 1..(req[g].i - 1) : Safe(Append(ChunksOf[req[g].b], req[g].b)[k]))'
  <2>1. req'[g].i - 1 = i
    BY <1>3, <1>4, <1>7
  <2> QED BY <1>5, <1>7, <1>11, <2>1
<1>13. (pc[g] \in {"parent", "update"} => \A o2 \in ObjectsOf(req[g].b) : Safe(o2))'
  <2> SUFFICES ASSUME pc'[g] \in {"parent", "update"}, NEW x \in ObjectsOf(b) PROVE Safe(x)'
    BY <1>7 DEF ObjectsOf
  <2>1. i = Len(ChunksOf[b]) + 1
    BY <1>3, <1>4, <1>7
  <2>2. PICK k \in 1..i : x = W[k]
    BY <1>5, <2>1, WrittenIsItsOwn
  <2>3. Safe(W[k])'
    BY <1>11
  <2> QED BY <2>2, <2>3
<1> QED BY <1>7, <1>12, <1>13 DEF TaskKeeps

LEMMA ScanKeeps ==
  ASSUME TypeOK, Carried, KeepInv, [Next]_vars, NEW g \in Tasks, ScanRows(g) \/ ScanRefs(g)
  PROVE  TaskKeeps(g)'
<1> USE DEF TypeOK
<1>1. TaskKeeps(g) /\ req[g] \in TaskTypes
  BY DEF KeepInv
<1>2. UNCHANGED <<local, torn, ref, branch, tag>> /\ raced \subseteq raced'
  BY RacedGrows DEF ScanRows, ScanRefs, bytes, vcsVars
<1>3. \A b \in LiveBlobs : Kept(b)
  BY DEF KeepInv, LiveBlobs, SnapshotKept
<1>4. ASSUME NEW T, NEW b, Marked(b) \subseteq T, Kept(b) PROVE Spared(T, b)'
  <2>1. b \in T
    BY <1>4 DEF Marked, ObjectsOf
  <2>2. Damaged(b) \/ ObjectsOf(b) \subseteq T
    BY <1>4 DEF Marked, Kept, Safe, ObjectsOf
  <2> QED BY <1>2, <2>1, <2>2 DEF Spared, Damaged, ObjectsOf
<1>5. CASE ScanRows(g)
  <2>1. pc'[g] \in {"refs_migrate", "refs_sweep"} /\ req'[g].todo = MarkedBy(ref)
    BY <1>1, <1>5 DEF ScanRows, Go, TaskTypes
  <2>2. PICK T : T = MarkedBy(ref)
    OBVIOUS
  <2>3. \A b \in BlobsIn(ref) : Spared(T, b)'
    <3>1. ASSUME NEW b \in BlobsIn(ref) PROVE Spared(T, b)'
      <4>1. Marked(b) \subseteq T
        BY <2>2 DEF MarkedBy
      <4> QED BY <1>3, <1>4, <4>1 DEF LiveBlobs
    <3> QED BY <3>1
  <2> QED BY <1>2, <2>1, <2>2, <2>3 DEF TaskKeeps, BlobsIn
<1>6. CASE ScanRefs(g)
  <2>1. /\ pc'[g] = "copy" \/ (pc'[g] = "sweep" /\ pc[g] = "refs_sweep")
        /\ req'[g].todo = req[g].todo \union MarkedRefs
    BY <1>1, <1>6 DEF ScanRefs, Go, TaskTypes
  <2>2. PICK T : T = req[g].todo \union MarkedRefs
    OBVIOUS
  <2>3. ASSUME NEW b \in BlobsIn(ref), pc[g] = "refs_sweep" PROVE Spared(T, b)'
    <3>1. Spared(req[g].todo, b)
      BY <1>1, <2>3 DEF TaskKeeps
    <3>2. b \in T \union raced /\ (Damaged(b) \/ ObjectsOf(b) \subseteq T \union raced)
      BY <2>2, <3>1 DEF Spared
    <3> QED BY <1>2, <3>2 DEF Spared, Damaged, ObjectsOf
  <2>4. ASSUME NEW s \in Snapshots PROVE SnapshotSpared(T, s)'
    <3>1. s \in T /\ (s \in local => MarkedBy(s) \subseteq T)
      BY <2>2 DEF MarkedRefs
    <3>2. CASE Damaged(s)
      BY <1>2, <3>1, <3>2 DEF SnapshotSpared, Damaged
    <3>3. CASE ~Damaged(s)
      <4>1. s \in local
        BY <3>3 DEF KeepInv, SnapshotKept, Safe
      <4>2. ASSUME NEW b \in BlobsIn(s) PROVE Spared(T, b)'
        <5>1. Marked(b) \subseteq T /\ b \in LiveBlobs
          BY <3>1, <3>3, <4>1 DEF MarkedBy, LiveBlobs
        <5> QED BY <1>3, <1>4, <5>1
      <4> QED BY <3>1, <4>2 DEF SnapshotSpared, BlobsIn
    <3> QED BY <3>2, <3>3
  <2>5. (pc[g] \in {"refs_sweep", "sweep"} => \A b \in BlobsIn(ref) : Spared(req[g].todo, b))'
    BY <1>2, <2>1, <2>2, <2>3 DEF BlobsIn
  <2>6. (pc[g] = "sweep" => \A s \in Snapshots : SnapshotSpared(req[g].todo, s))'
    BY <1>2, <2>1, <2>2, <2>4 DEF Snapshots
  <2> QED BY <2>1, <2>5, <2>6 DEF TaskKeeps
<1> QED BY <1>5, <1>6

LEMMA SnapshotKeeps ==
  ASSUME TypeOK, Carried, KeepInv, [Next]_vars, NEW g \in Tasks,
         WriteSnapshot(g) \/ (GetTag(g) /\ pc'[g] # "idle")
  PROVE  TaskKeeps(g)'
<1> USE DEF TypeOK
<1>1. /\ TaskKeeps(g) /\ g \in Snapping
      /\ pc'[g] \in {"set_branch", "get_tag", "insert_tag"} /\ req'[g].snap = req[g].snap
  BY DEF KeepInv, WriteSnapshot, GetTag, Go, Ends, Snapping
<1>2. PICK s : s = req[g].snap
  OBVIOUS
<1>3. s \in InUse /\ \A b \in BlobsIn(s) : ObjectsOf(b) \subseteq InUse
  BY <1>1, <1>2, UsesOfSnapshot
<1>4. CASE GetTag(g)
  <2>1. SnapshotKept(s)
    BY <1>1, <1>2, <1>4 DEF TaskKeeps, GetTag
  <2>2. SnapshotKept(s)'
    BY <1>3, <2>1, SnapshotStays
  <2> QED BY <1>1, <1>2, <2>2 DEF TaskKeeps
<1>5. CASE WriteSnapshot(g)
  <2>1. Safe(s)'
    BY <1>2, <1>5 DEF WriteSnapshot, Present, Safe, Damaged
  <2>2. ASSUME NEW b \in BlobsIn(s) PROVE Kept(b)'
    BY <1>1, <1>2, <1>3, <1>5, InUseStays DEF TaskKeeps, WriteSnapshot
  <2>3. SnapshotKept(s)'
    BY <2>1, <2>2 DEF SnapshotKept, BlobsIn
  <2> QED BY <1>1, <1>2, <2>3 DEF TaskKeeps
<1> QED BY <1>4, <1>5

\* What a blob_ref is set to had been written, and what it was is kept.
LEMMA LiveStays ==
  ASSUME TypeOK, Carried, KeepInv, [Next]_vars
  PROVE  /\ \A b \in BlobsIn(ref) \union BlobsIn(ref') : Kept(b)'
         /\ \A s \in Snapshots' : SnapshotKept(s)'
<1>1. ASSUME NEW b \in BlobsIn(ref) PROVE Kept(b)'
  <2>1. Kept(b) /\ b \in LiveBlobs
    BY DEF KeepInv, LiveBlobs
  <2> QED BY <2>1, NothingLost, KeptStays
<1>2. ASSUME NEW h \in Tasks, pc[h] = "update", NEW b, b = req[h].b PROVE Kept(b)'
  <2>1. Kept(b)
    BY <1>2 DEF KeepInv, TaskKeeps, Kept
  <2> QED BY <1>2, <2>1, UsesOfCommit, InUseStays
<1>3. ASSUME NEW s \in Snapshots PROVE SnapshotKept(s)'
  BY SnapshotStays DEF KeepInv
<1>4. ASSUME NEW h \in Tasks, pc[h] \in {"set_branch", "insert_tag"}, NEW s, s = req[h].snap
      PROVE  SnapshotKept(s)'
  <2>1. SnapshotKept(s)
    BY <1>4 DEF KeepInv, TaskKeeps
  <2> QED BY <1>4, <2>1, UsesOfSnapshot, SnapshotStays DEF Snapping
<1> QED BY <1>1, <1>2, <1>3, <1>4, NewRefs

LEMMA TaskKeepsNext ==
  ASSUME TypeOK, Carried, KeepInv, [Next]_vars, NEW g \in Tasks
  PROVE  TaskKeeps(g)'
<1> USE DEF TypeOK
<1>1. CASE pc'[g] = pc[g] /\ req'[g] = req[g]
  BY <1>1, TaskKeepsOn
<1>2. CASE pc'[g] \notin {"store", "parent", "update", "branch", "tag", "set_branch", "get_tag",
                         "insert_tag", "refs_sweep", "sweep"}
  BY <1>2 DEF TaskKeeps
<1>3. ASSUME NEW f \in Files, NEW x \in Blobs, BeginCommit(g, f, x) PROVE TaskKeeps(g)'
  <2>1. pc'[g] = "store" /\ req'[g].i = 1
    BY <1>3 DEF BeginCommit, Begin, Go, NoTask
  <2> QED BY <2>1 DEF TaskKeeps
<1>4. ASSUME NEW kind \in {"branch", "tag"}, BeginSnapshot(g, kind) PROVE TaskKeeps(g)'
  <2>1. pc'[g] = kind /\ req'[g].snap = ref
    BY <1>4 DEF BeginSnapshot, Begin, Go, NoTask
  <2>2. \A x \in BlobsIn(ref) : Kept(x)'
    BY LiveStays
  <2> QED BY <2>1, <2>2 DEF TaskKeeps, BlobsIn
<1>5. CASE StoreObject(g) \/ ScanRows(g) \/ ScanRefs(g) \/ WriteSnapshot(g)
           \/ (GetTag(g) /\ pc'[g] # "idle")
  BY <1>5, StoreKeeps, ScanKeeps, SnapshotKeeps
<1>6. CASE ReadParent(g) /\ pc'[g] # "idle"
  <2>1. pc[g] = "parent" /\ pc'[g] = "update" /\ req'[g].b = req[g].b
    BY <1>6 DEF ReadParent, Go, Ends, TaskTypes
  <2>2. \A o \in ObjectsOf(req[g].b) : Safe(o)'
    BY <2>1, UsesOfCommit, InUseStays DEF TaskKeeps, KeepInv
  <2> QED BY <2>1, <2>2 DEF TaskKeeps, ObjectsOf
<1>7. CASE BeginSweep(g) \/ \E r \in Backends : BeginMigrate(g, r)
  <2>1. pc'[g] \in {"scan_sweep", "scan_migrate"}
    BY <1>7 DEF BeginSweep, BeginMigrate, Begin, Go
  <2> QED BY <2>1 DEF TaskKeeps
<1>8. CASE UpdateRef(g) \/ Upload(g) \/ Remember(g) \/ CopiedAll(g) \/ FlipOthers(g) \/ FlipTarget(g)
           \/ MigrationError(g)
  <2>1. pc'[g] \in {"emit", "remember", "copy", "mark_failed", "flip_others", "flip_target", "mark_done"}
    BY <1>8 DEF UpdateRef, Upload, Remember, CopiedAll, FlipOthers, FlipTarget, MigrationError, Go
  <2> QED BY <2>1 DEF TaskKeeps
<1>9. CASE CopyObject(g)
  <2>1. pc'[g] \in {"copy", "upload"}
    BY <1>9 DEF CopyObject, Go
  <2> QED BY <2>1 DEF TaskKeeps
<1> HIDE DEF TypeOK
<1> QED BY <1>1, <1>2, <1>3, <1>4, <1>5, <1>6, <1>7, <1>8, <1>9, Moves

LEMMA KeepStep ==
  ASSUME TypeOK, Carried, KeepInv, [Next]_vars
  PROVE  KeepInv'
<1>1. (\A b \in BlobsIn(ref) : Kept(b))' /\ (\A s \in Snapshots : SnapshotKept(s))'
  BY LiveStays DEF BlobsIn
<1>2. (\A h \in Tasks : TaskKeeps(h))'
  BY TaskKeepsNext
<1>3. (Sweeping => InUse \subseteq raced)'
  <2>1. CASE Next
    BY <2>1 DEF Next, Watch
  <2>2. CASE UNCHANGED vars
    BY <2>2 DEF vars, vcsVars, KeepInv, Sweeping, InUse, Committing, Snapping, SnapshotUses, SnapshotObjects
  <2> QED BY <2>1, <2>2
<1> QED BY <1>1, <1>2, <1>3 DEF KeepInv

LEMMA KeepInit == Init => KeepInv
<1> SUFFICES ASSUME Init PROVE KeepInv
  OBVIOUS
<1>1. ASSUME NEW f \in Files PROVE Kept(ref[f])
  BY DEF Init, Kept, Safe
<1>2. \A b \in BlobsIn(ref) : Kept(b)
  BY <1>1 DEF BlobsIn
<1>3. Snapshots = {}
  BY DEF Init, Snapshots
<1>4. (\A h \in Tasks : TaskKeeps(h)) /\ ~Sweeping
  BY DEF Init, TaskKeeps, Sweeping
<1> QED BY <1>2, <1>3, <1>4 DEF KeepInv

\* gc.rs: what an entity, a branch or a tag refers to can be read, unless a sweep ran while
\* a commit or a snapshot used the same objects, or a dying write truncated one of them.
THEOREM ReferencesAreKept == Spec => []LiveObjectsKept
<1>1. KeepInv => LiveObjectsKept
  BY DEF KeepInv, LiveObjectsKept, LiveBlobs, Kept, SnapshotKept, Safe
<1> QED BY <1>1, KeepInit, KeepStep, TypeCorrect, PTL DEF Spec
-----------------------------------------------------------------------------
(* What a migration copies.  Of all that is live and was not referred to anew since
   it looked, it has what it has not yet copied in its list, unless it has failed. *)

Held(r, T, b) == b \in fresh[r] \/ Damaged(b) \/ ObjectsOf(b) \subseteq T \union index[r]
HeldSnapshot(r, T, s) == s \in fresh[r] \/ Damaged(s) \/ s \in T \union index[r]
AllHeld(r, T) ==
  /\ \A b \in LiveBlobs : Held(r, T, b)
  /\ \A s \in Snapshots : HeldSnapshot(r, T, s)

TaskMoves(h) ==
  /\ pc[h] = "refs_migrate" => \A b \in BlobsIn(ref) : Held(req[h].r, req[h].todo, b)
  /\ pc[h] \in {"copy", "upload", "remember"} =>
       req[h].failed \/ AllHeld(req[h].r, req[h].todo)
  /\ pc[h] \in {"flip_others", "flip_target", "mark_done"} => AllHeld(req[h].r, {})

MoveInv ==
  /\ \A r \in Backends : config[r].migration = "done" => AllHeld(r, {})
  /\ \A h \in Tasks : TaskMoves(h)

LEMMA IndexGrows == TypeOK /\ [Next]_vars => \A r \in Backends : index[r] \subseteq index'[r]
<1> SUFFICES ASSUME TypeOK, [Next]_vars PROVE \A r \in Backends : index[r] \subseteq index'[r]
  OBVIOUS
<1>1. index' = index \/ \E h \in Tasks : Remember(h)
  BY WhoChanges DEF ChangesOf, bytes, vcsVars
<1>2. CASE \E h \in Tasks : Remember(h)
  BY <1>2 DEF Remember, TypeOK
<1> QED BY <1>1, <1>2

\* When the history of a migration starts again, its task is the only one that moves
\* objects to its backend, and it only looks.
Restarts(r) == Afresh(r) /\ Next

LEMMA FreshStep ==
  ASSUME TypeOK, [Next]_vars, NEW r \in Backends, ~Restarts(r)
  PROVE  fresh[r] \subseteq fresh'[r] /\ ReferredAnew \subseteq fresh'[r]
<1>1. CASE UNCHANGED vars
  <2>1. fresh' = fresh /\ ref' = ref /\ branch' = branch /\ tag' = tag
    BY <1>1 DEF vars, vcsVars
  <2>2. ReferredAnew = {}
    BY <2>1 DEF ReferredAnew, Snapshots
  <2> QED BY <2>1, <2>2
<1>2. CASE Next
  BY <1>2 DEF Next, Watch, Restarts
<1> QED BY <1>1, <1>2

\* What a step makes live, it refers to anew.
LEMMA AnewBlob ==
  ASSUME TypeOK, NEW b \in BlobsIn(ref') \ BlobsIn(ref)
  PROVE  b \in ReferredAnew
<1>1. b \in ObjectsOf(b)
  BY DEF ObjectsOf
<1> QED BY <1>1 DEF ReferredAnew

LEMMA AnewSnapshot ==
  ASSUME TypeOK, NEW s \in Snapshots' \ Snapshots
  PROVE  /\ s \in ReferredAnew
         /\ \A b \in BlobsIn(s) : b \in ReferredAnew
<1>1. SnapshotObjects(s) \subseteq ReferredAnew
  <2>1. SnapshotObjects(s) \in {SnapshotObjects(x) : x \in Snapshots' \ Snapshots}
    OBVIOUS
  <2>2. \A S, A : A \in S => A \subseteq UNION S
    OBVIOUS
  <2>3. SnapshotObjects(s) \subseteq UNION {SnapshotObjects(x) : x \in Snapshots' \ Snapshots}
    BY <2>1, <2>2
  <2> QED BY <2>3 DEF ReferredAnew
<1> QED BY <1>1 DEF SnapshotObjects, ObjectsOf

LEMMA NewLive ==
  ASSUME TypeOK, KeepInv, [Next]_vars, NEW b \in LiveBlobs'
  PROVE  b \in LiveBlobs \/ b \in ReferredAnew
<1>1. CASE b \in BlobsIn(ref')
  BY <1>1, AnewBlob DEF LiveBlobs
<1>2. CASE \E s \in Snapshots' : ~Damaged(s)' /\ b \in BlobsIn(s)
  <2>1. PICK s \in Snapshots' : ~Damaged(s)' /\ b \in BlobsIn(s)
    BY <1>2
  <2>2. CASE s \in Snapshots
    <3>1. ~Damaged(s)
      BY <2>1, <2>2, NothingLost, NotLost
    <3> QED BY <2>1, <2>2, <3>1 DEF LiveBlobs
  <2>3. CASE s \notin Snapshots
    BY <2>1, <2>3, AnewSnapshot
  <2> QED BY <2>2, <2>3
<1> QED BY <1>1, <1>2 DEF LiveBlobs, BlobsIn, Damaged

\* What is held for what is live stays held, and for what a step makes live.
LEMMA HeldStays ==
  ASSUME TypeOK, KeepInv, [Next]_vars, NEW r \in Backends, ~Restarts(r),
         NEW T, NEW b, Held(r, T, b), b \in LiveBlobs
  PROVE  Held(r, T, b)'
<1>1. ~Lost(b)
  BY NothingLost
<1> QED BY <1>1, NotLost, IndexGrows, FreshStep DEF Held, ObjectsOf

LEMMA HeldOfUse ==
  ASSUME TypeOK, [Next]_vars, NEW r \in Backends, ~Restarts(r),
         NEW T, NEW b, b \in ReferredAnew
  PROVE  Held(r, T, b)'
BY FreshStep DEF Held

LEMMA AllHeldStays ==
  ASSUME TypeOK, KeepInv, [Next]_vars, NEW r \in Backends, ~Restarts(r),
         NEW T, AllHeld(r, T)
  PROVE  AllHeld(r, T)'
<1>1. \A b \in LiveBlobs' : Held(r, T, b)'
  BY NewLive, HeldStays, HeldOfUse DEF AllHeld
<1>2. ASSUME NEW s \in Snapshots' PROVE HeldSnapshot(r, T, s)'
  <2>1. CASE s \in Snapshots
    <3>1. HeldSnapshot(r, T, s) /\ ~Lost(s)
      BY <2>1, NothingLost DEF AllHeld
    <3> QED BY <3>1, NotLost, IndexGrows, FreshStep DEF HeldSnapshot
  <2>2. CASE s \notin Snapshots
    BY <1>2, <2>2, AnewSnapshot, FreshStep DEF HeldSnapshot
  <2> QED BY <2>1, <2>2
<1> QED BY <1>1, <1>2 DEF AllHeld

\* A task that has looked does not see its history restart.
LEMMA NoRestart ==
  ASSUME TypeOK, NEW g \in Tasks, pc[g] # "scan_migrate", pc'[g] # "idle", NEW r, req'[g].r = r
  PROVE  ~Restarts(r)
BY DEF Restarts, Afresh

LEMMA TaskMovesOn ==
  ASSUME TypeOK, Carried, KeepInv, MoveInv, [Next]_vars, NEW g \in Tasks, pc'[g] = pc[g], req'[g] = req[g]
  PROVE  TaskMoves(g)'
<1> SUFFICES ASSUME pc[g] \in Migrating \ {"scan_migrate", "mark_failed"} PROVE TaskMoves(g)'
  BY DEF TaskMoves, Migrating
<1>0. TaskMoves(g) /\ CarriedBy(g)
  BY DEF MoveInv, Carried
<1>1. PICK r \in Backends : r = req[g].r
  BY <1>0 DEF CarriedBy
<1>2. PICK T : T = req[g].todo
  OBVIOUS
<1>3. ~Restarts(r)
  BY <1>1, NoRestart DEF Migrating
<1>4. pc[g] = "refs_migrate" => \A b \in BlobsIn(ref') : Held(r, T, b)'
  <2> SUFFICES ASSUME pc[g] = "refs_migrate", NEW b \in BlobsIn(ref') PROVE Held(r, T, b)'
    OBVIOUS
  <2>1. CASE b \in BlobsIn(ref)
    <3>1. Held(r, T, b) /\ b \in LiveBlobs
      BY <1>0, <1>1, <1>2, <2>1 DEF TaskMoves, LiveBlobs
    <3> QED BY <1>3, <3>1, HeldStays
  <2>2. CASE b \notin BlobsIn(ref)
    BY <1>3, <2>2, AnewBlob, HeldOfUse
  <2> QED BY <2>1, <2>2
<1>5. pc[g] \in {"copy", "upload", "remember"} => req[g].failed \/ AllHeld(r, T)'
  BY <1>0, <1>1, <1>2, <1>3, AllHeldStays DEF TaskMoves
<1>6. pc[g] \in {"flip_others", "flip_target", "mark_done"} => AllHeld(r, {})'
  BY <1>0, <1>1, <1>3, AllHeldStays DEF TaskMoves
<1>7. (pc[g] = "refs_migrate" => \A b \in BlobsIn(ref) : Held(req[g].r, req[g].todo, b))'
  BY <1>1, <1>2, <1>4 DEF BlobsIn
<1>8. (pc[g] \in {"copy", "upload", "remember"} =>
         req[g].failed \/ AllHeld(req[g].r, req[g].todo))'
  BY <1>1, <1>2, <1>5
<1>9. (pc[g] \in {"flip_others", "flip_target", "mark_done"} =>
         AllHeld(req[g].r, {}))'
  BY <1>1, <1>6
<1> QED BY <1>7, <1>8, <1>9 DEF TaskMoves

\* The scans put what is live on the list.
LEMMA ScanMoves ==
  ASSUME TypeOK, Carried, KeepInv, MoveInv, [Next]_vars, NEW g \in Tasks, ScanRows(g) \/ ScanRefs(g)
  PROVE  TaskMoves(g)'
<1> USE DEF TypeOK
<1>1. TaskMoves(g) /\ CarriedBy(g) /\ req[g] \in TaskTypes
  BY DEF MoveInv, Carried
<1>2. UNCHANGED <<local, torn, ref, branch, tag, index>> /\ raced \subseteq raced'
  BY RacedGrows DEF ScanRows, ScanRefs, bytes, vcsVars
<1>3. \A b \in LiveBlobs : Kept(b)
  BY DEF KeepInv, LiveBlobs, SnapshotKept
<1>4. LiveBlobs' \subseteq LiveBlobs
  BY <1>2 DEF LiveBlobs, Snapshots, BlobsIn, Damaged
<1>5. ASSUME NEW r, NEW T, NEW b, Marked(b) \subseteq T, Kept(b) PROVE Held(r, T, b)'
  <2>1. Damaged(b) \/ ObjectsOf(b) \subseteq T
    BY <1>5 DEF Marked, Kept, Safe, ObjectsOf
  <2> QED BY <1>2, <2>1 DEF Held, Damaged, ObjectsOf
<1>6. CASE ScanRows(g)
  <2>1. pc'[g] \in {"refs_migrate", "refs_sweep"} /\ req'[g].todo = MarkedBy(ref)
    BY <1>1, <1>6 DEF ScanRows, Go, TaskTypes
  <2>2. PICK T, r : T = MarkedBy(ref) /\ r = req'[g].r
    OBVIOUS
  <2>3. \A b \in BlobsIn(ref) : Held(r, T, b)'
    <3>1. ASSUME NEW b \in BlobsIn(ref) PROVE Held(r, T, b)'
      <4>1. Marked(b) \subseteq T
        BY <2>2 DEF MarkedBy
      <4> QED BY <1>3, <1>5, <4>1 DEF LiveBlobs
    <3>2. \A b \in BlobsIn(ref) : Held(r, T, b)'
      BY <3>1
    <3> QED BY <3>2
  <2> QED BY <1>2, <2>1, <2>2, <2>3 DEF TaskMoves, BlobsIn
<1>7. CASE ScanRefs(g)
  <2>1. /\ pc'[g] = "sweep" \/ (pc'[g] = "copy" /\ pc[g] = "refs_migrate")
        /\ req'[g].todo = req[g].todo \union MarkedRefs /\ req'[g].r = req[g].r
    BY <1>1, <1>7 DEF ScanRefs, Go, TaskTypes
  <2>2. CASE pc[g] = "refs_migrate"
    <3>1. PICK r \in Backends : r = req[g].r
      BY <1>1, <2>2 DEF CarriedBy, Migrating
    <3>2. PICK T, S : T = req[g].todo \union MarkedRefs /\ S = req[g].todo
      OBVIOUS
    <3>3. ~Restarts(r)
      BY <2>1, <2>2, <3>1, NoRestart
    <3>4. ASSUME NEW b \in BlobsIn(ref) PROVE Held(r, T, b)'
      <4>1. Held(r, S, b) /\ b \in LiveBlobs
        BY <1>1, <2>2, <3>1, <3>2, <3>4 DEF TaskMoves, LiveBlobs
      <4>2. Held(r, S, b)'
        BY <3>3, <4>1, HeldStays
      <4> QED BY <3>2, <4>2 DEF Held
    <3>5. ASSUME NEW s \in Snapshots, ~Damaged(s), NEW b \in BlobsIn(s) PROVE Held(r, T, b)'
      <4>1. s \in local
        BY <3>5 DEF KeepInv, SnapshotKept, Safe
      <4>2. Marked(b) \subseteq T /\ b \in LiveBlobs
        BY <3>2, <3>5, <4>1 DEF MarkedRefs, MarkedBy, LiveBlobs
      <4> QED BY <1>3, <1>5, <4>2
    <3>6. \A b \in LiveBlobs : Held(r, T, b)'
      BY <3>4, <3>5 DEF LiveBlobs
    <3>7. \A s \in Snapshots' : HeldSnapshot(r, T, s)'
      BY <1>2, <3>2 DEF HeldSnapshot, MarkedRefs, Snapshots
    <3>8. AllHeld(r, T)'
      BY <1>4, <3>6, <3>7 DEF AllHeld
    <3>9. (AllHeld(req[g].r, req[g].todo))'
      BY <2>1, <3>1, <3>2, <3>8 DEF AllHeld
    <3> QED BY <2>1, <2>2, <3>9 DEF TaskMoves
  <2>3. CASE pc'[g] = "sweep"
    BY <2>3 DEF TaskMoves
  <2> QED BY <2>1, <2>2, <2>3
<1> QED BY <1>6, <1>7

\* The next object: it is there already, or it cannot be read and the migration fails.
LEMMA CopyMoves ==
  ASSUME TypeOK, Carried, KeepInv, MoveInv, [Next]_vars, NEW g \in Tasks, CopyObject(g)
  PROVE  TaskMoves(g)'
<1>1. TaskMoves(g) /\ CarriedBy(g) /\ req[g] \in TaskTypes /\ pc[g] = "copy"
  BY DEF MoveInv, Carried, TypeOK, CopyObject
<1>2. PICK r \in Backends : r = req[g].r
  BY <1>1 DEF CarriedBy, Migrating
<1>3. PICK T : T = req[g].todo
  OBVIOUS
<1>4. PICK o \in T :
        /\ req' = [req EXCEPT
             ![g].todo = IF o \in index[r] \/ ~Readable(o) THEN @ \ {o} ELSE @,
             ![g].b = IF o \in index[r] \/ ~Readable(o) THEN Null ELSE o,
             ![g].failed = @ \/ (~(o \in index[r]) /\ ~Readable(o))]
        /\ Go(g, IF o \in index[r] \/ ~Readable(o) THEN "copy" ELSE "upload")
  BY <1>2, <1>3 DEF CopyObject
<1>5. /\ pc'[g] \in {"copy", "upload"} /\ req'[g].r = r
      /\ req'[g].failed = (req[g].failed \/ (o \notin index[r] /\ ~Readable(o)))
      /\ req'[g].todo = IF o \in index[r] \/ ~Readable(o) THEN T \ {o} ELSE T
  BY <1>1, <1>2, <1>3, <1>4 DEF Go, TaskTypes, TypeOK
<1>6. ~Restarts(r)
  BY <1>1, <1>2, <1>5, NoRestart
<1>7. CASE ~req'[g].failed
  <2>1. ~req[g].failed /\ (req'[g].todo = T \/ (req'[g].todo = T \ {o} /\ o \in index[r]))
    BY <1>5, <1>7
  <2>2. PICK U : U = req'[g].todo
    OBVIOUS
  <2>3. AllHeld(r, T)
    BY <1>1, <1>2, <1>3, <2>1 DEF TaskMoves
  <2>4. AllHeld(r, U)
    BY <2>1, <2>2, <2>3 DEF AllHeld, Held, HeldSnapshot
  <2>5. AllHeld(r, U)'
    BY <1>6, <2>4, AllHeldStays
  <2>6. (AllHeld(req[g].r, req[g].todo))'
    BY <1>5, <2>2, <2>5
  <2> QED BY <1>5, <2>6 DEF TaskMoves
<1>8. CASE req'[g].failed
  BY <1>5, <1>8 DEF TaskMoves
<1> QED BY <1>7, <1>8

LEMMA RememberMoves ==
  ASSUME TypeOK, Carried, KeepInv, MoveInv, [Next]_vars, NEW g \in Tasks, Remember(g)
  PROVE  TaskMoves(g)'
<1>1. TaskMoves(g) /\ CarriedBy(g) /\ req[g] \in TaskTypes /\ pc[g] = "remember"
  BY DEF MoveInv, Carried, TypeOK, Remember
<1>2. PICK r \in Backends : r = req[g].r
  BY <1>1 DEF CarriedBy, Migrating
<1>3. PICK T, o : T = req[g].todo /\ o = req[g].b
  OBVIOUS
<1>4. /\ pc'[g] = "copy" /\ req'[g].r = r /\ req'[g].failed = req[g].failed
      /\ req'[g].todo = T \ {o} /\ o \in index'[r]
  BY <1>1, <1>2, <1>3 DEF Remember, Go, TaskTypes, TypeOK
<1>5. ~Restarts(r)
  BY <1>1, <1>2, <1>4, NoRestart
<1>6. CASE ~req[g].failed
  <2>1. AllHeld(r, T)
    BY <1>1, <1>2, <1>3, <1>6 DEF TaskMoves
  <2>2. AllHeld(r, T)'
    BY <1>5, <2>1, AllHeldStays
  <2>3. PICK U : U = T \ {o}
    OBVIOUS
  <2>4. AllHeld(r, U)'
    BY <1>4, <2>2, <2>3 DEF AllHeld, Held, HeldSnapshot
  <2>5. (AllHeld(req[g].r, req[g].todo))'
    BY <1>4, <2>3, <2>4
  <2> QED BY <1>4, <2>5 DEF TaskMoves
<1>7. CASE req[g].failed
  BY <1>4, <1>7 DEF TaskMoves
<1> QED BY <1>6, <1>7

\* The list is empty and nothing failed: the flip may begin.
LEMMA FlipsMove ==
  ASSUME TypeOK, Carried, KeepInv, MoveInv, [Next]_vars, NEW g \in Tasks,
         Upload(g) \/ CopiedAll(g) \/ FlipOthers(g) \/ FlipTarget(g)
  PROVE  TaskMoves(g)'
<1>1. /\ TaskMoves(g) /\ CarriedBy(g) /\ req'[g] = req[g]
      /\ pc[g] \in Migrating /\ pc[g] # "scan_migrate" /\ pc'[g] # "idle"
  BY DEF MoveInv, Carried, TypeOK, Upload, CopiedAll, FlipOthers, FlipTarget, Migrating, Go
<1>2. PICK r \in Backends : r = req[g].r
  BY <1>1 DEF CarriedBy
<1>3. ~Restarts(r)
  BY <1>1, <1>2, NoRestart
<1>4. CASE Upload(g)
  <2>1. pc[g] = "upload" /\ pc'[g] = "remember"
    BY <1>4 DEF Upload, Go, TypeOK
  <2>2. PICK T : T = req[g].todo
    OBVIOUS
  <2>3. req[g].failed \/ AllHeld(r, T)'
    BY <1>1, <1>2, <1>3, <2>1, <2>2, AllHeldStays DEF TaskMoves
  <2>4. (req[g].failed \/ AllHeld(req[g].r, req[g].todo))'
    BY <1>1, <1>2, <2>2, <2>3
  <2> QED BY <2>1, <2>4 DEF TaskMoves
<1>5. CASE CopiedAll(g) \/ FlipOthers(g) \/ FlipTarget(g)
  <2>1. CASE pc'[g] = "mark_failed"
    BY <2>1 DEF TaskMoves
  <2>2. CASE pc'[g] # "mark_failed"
    <3>1. /\ pc'[g] \in {"flip_others", "flip_target", "mark_done"}
          /\ \/ pc[g] \in {"flip_others", "flip_target"}
             \/ pc[g] = "copy" /\ req[g].todo = {} /\ ~req[g].failed
      BY <1>5, <2>2 DEF CopiedAll, FlipOthers, FlipTarget, Go, TypeOK
    <3>2. AllHeld(r, {})
      BY <1>1, <1>2, <3>1 DEF TaskMoves
    <3>3. AllHeld(r, {})'
      BY <1>3, <3>2, AllHeldStays
    <3>4. (AllHeld(req[g].r, {}))'
      BY <1>1, <1>2, <3>3
    <3> QED BY <3>1, <3>4 DEF TaskMoves
  <2> QED BY <2>1, <2>2
<1> QED BY <1>4, <1>5

LEMMA TaskMovesNext ==
  ASSUME TypeOK, Carried, KeepInv, MoveInv, [Next]_vars, NEW g \in Tasks
  PROVE  TaskMoves(g)'
<1> DEFINE Moving == {"refs_migrate", "copy", "upload", "remember", "flip_others", "flip_target", "mark_done"}
<1>1. CASE pc'[g] = pc[g] /\ req'[g] = req[g]
  BY <1>1, TaskMovesOn
<1>2. CASE pc'[g] \notin Moving
  BY <1>2 DEF TaskMoves
<1>3. CASE ScanRows(g) \/ ScanRefs(g) \/ CopyObject(g) \/ Remember(g)
  BY <1>3, ScanMoves, CopyMoves, RememberMoves
<1>4. CASE Upload(g) \/ CopiedAll(g) \/ FlipOthers(g) \/ FlipTarget(g)
  BY <1>4, FlipsMove
<1>5. CASE \/ BeginSweep(g) \/ \E f \in Files, b \in Blobs : BeginCommit(g, f, b)
           \/ \E kind \in {"branch", "tag"} : BeginSnapshot(g, kind)
           \/ \E r \in Backends : BeginMigrate(g, r)
  <2>1. pc'[g] \in {"scan_sweep", "store", "branch", "tag", "scan_migrate"}
    BY <1>5 DEF BeginSweep, BeginCommit, BeginSnapshot, BeginMigrate, Begin, Go, TypeOK
  <2> QED BY <1>2, <2>1
<1>6. CASE StoreObject(g) \/ ReadParent(g) \/ UpdateRef(g) \/ WriteSnapshot(g) \/ GetTag(g) \/ MigrationError(g)
  <2>1. pc'[g] \in {"store", "parent", "idle", "update", "emit", "set_branch", "get_tag", "insert_tag", "mark_failed"}
    BY <1>6 DEF StoreObject, ReadParent, UpdateRef, WriteSnapshot, GetTag, MigrationError, Go, Ends, TypeOK
  <2> QED BY <1>2, <2>1
<1> QED BY <1>1, <1>2, <1>3, <1>4, <1>5, <1>6, Moves

\* A migration is done because a task whose flip is over says so.
LEMMA DoneMoves ==
  ASSUME TypeOK, Carried, [Next]_vars, NEW r \in Backends, config'[r].migration = "done"
  PROVE  /\ config[r].migration = "done" \/ \E h \in Tasks : pc[h] = "mark_done" /\ req[h].r = r
         /\ ~Restarts(r)
<1>0. config \in [Backends -> Settings] /\ config[r] \in Settings
  BY DEF TypeOK
<1>1. ASSUME NEW h \in Tasks, BeginMigrate(h, r) PROVE FALSE
  <2>1. config' = [config EXCEPT ![r] = [config[r] EXCEPT !.migration = "running"]]
    BY <1>1 DEF BeginMigrate, SetMigration
  <2> QED BY <1>0, <2>1 DEF Settings
<1>3. CASE \E h \in Tasks : MarkFinished(h)
  <2>1. PICK h \in Tasks : MarkFinished(h)
    BY <1>3
  <2>2. PICK t \in Backends : t = req[h].r
    BY <2>1 DEF MarkFinished, Carried, CarriedBy, Migrating
  <2>3. PICK m \in {"done", "failed"} : /\ config' = [config EXCEPT ![t] = [config[t] EXCEPT !.migration = m]]
                                        /\ m = "done" => pc[h] = "mark_done"
    BY <2>1, <2>2 DEF MarkFinished, SetMigration
  <2>4. config'[r] = IF r = t THEN [config[r] EXCEPT !.migration = m] ELSE config[r]
    BY <1>0, <2>3
  <2>5. r = t => config'[r].migration = m
    BY <1>0, <2>4 DEF Settings
  <2>6. r # t => config'[r] = config[r]
    BY <2>4
  <2>7. config[r].migration = "done" \/ \E g \in Tasks : pc[g] = "mark_done" /\ req[g].r = r
    BY <2>2, <2>3, <2>5, <2>6
  <2>8. \A g \in Tasks : pc'[g] = pc[g] \/ pc'[g] = "idle"
    BY <2>1 DEF MarkFinished, Ends, Go, TypeOK
  <2> QED BY <2>7, <2>8 DEF Restarts, Afresh
<1>4. CASE ~\E h \in Tasks : MarkFinished(h)
  <2>1. config'[r].migration = config[r].migration \/ \E h \in Tasks : BeginMigrate(h, r)
    <3>1. CASE config' = config
      BY <3>1
    <3>2. ASSUME NEW h \in Tasks, FlipOthers(h) PROVE config'[r].migration = config[r].migration
      BY <1>0, <3>2 DEF FlipOthers, Settings
    <3>3. ASSUME NEW h \in Tasks, FlipTarget(h) PROVE config'[r].migration = config[r].migration
      <4>1. PICK t : t = req[h].r
        OBVIOUS
      <4>2. config' = [config EXCEPT ![t] = [config[t] EXCEPT !.default = TRUE]]
        BY <3>3, <4>1 DEF FlipTarget
      <4>3. config'[r] = IF r = t THEN [config[r] EXCEPT !.default = TRUE] ELSE config[r]
        BY <1>0, <4>2
      <4> QED BY <1>0, <4>3 DEF Settings
    <3>4. ASSUME NEW h \in Tasks, NEW t \in Backends, BeginMigrate(h, t), t # r
          PROVE  config'[r].migration = config[r].migration
      BY <1>0, <3>4 DEF BeginMigrate, SetMigration
    <3>5. ASSUME NEW t \in Backends, Activate(t) PROVE config'[r].migration = config[r].migration
      <4>1. config' = [config EXCEPT ![t] = [config[t] EXCEPT !.status = "active"]]
        BY <3>5 DEF Activate
      <4>2. config'[r] = IF r = t THEN [config[r] EXCEPT !.status = "active"] ELSE config[r]
        BY <1>0, <4>1
      <4> QED BY <1>0, <4>2 DEF Settings
    <3>6. ASSUME NEW t \in Backends, NEW d \in BOOLEAN, CreateBackend(t, d)
          PROVE  config'[r].migration = config[r].migration
      <4>1. config' = [config EXCEPT ![t] = [config[t] EXCEPT !.status = "pending_approval", !.default = d]]
        BY <3>6 DEF CreateBackend
      <4>2. config'[r] = IF r = t THEN [config[r] EXCEPT !.status = "pending_approval", !.default = d]
                                  ELSE config[r]
        BY <1>0, <4>1
      <4> QED BY <1>0, <4>2 DEF Settings
    <3> QED BY <1>4, <3>1, <3>2, <3>3, <3>4, <3>5, <3>6, ConfigMoves
  <2>2. ~\E h \in Tasks : BeginMigrate(h, r)
    BY <1>1
  <2>3. config[r].migration = "done"
    BY <2>1, <2>2
  <2> QED BY <2>3 DEF Restarts, Afresh
<1> QED BY <1>3, <1>4

LEMMA MoveStep ==
  ASSUME TypeOK, Carried, KeepInv, MoveInv, [Next]_vars
  PROVE  MoveInv'
<1>2. ASSUME NEW r \in Backends, config'[r].migration = "done"
      PROVE  AllHeld(r, {})'
  <2>1. AllHeld(r, {})
    <3>1. CASE config[r].migration = "done"
      BY <3>1 DEF MoveInv
    <3>2. CASE \E h \in Tasks : pc[h] = "mark_done" /\ req[h].r = r
      BY <3>2 DEF MoveInv, TaskMoves
    <3> QED BY <1>2, <3>1, <3>2, DoneMoves
  <2> QED BY <1>2, <2>1, DoneMoves, AllHeldStays
<1>3. (\A h \in Tasks : TaskMoves(h))'
  BY TaskMovesNext
<1>4. (\A r \in Backends : config[r].migration = "done" => AllHeld(r, {}))'
  BY <1>2
<1> QED BY <1>3, <1>4 DEF MoveInv

LEMMA MoveInit == Init => MoveInv
<1> SUFFICES ASSUME Init PROVE MoveInv
  OBVIOUS
<1>2. \A r \in Backends : config[r].migration # "done"
  BY DEF Init
<1>3. \A h \in Tasks : TaskMoves(h)
  BY DEF Init, TaskMoves
<1> QED BY <1>2, <1>3 DEF MoveInv

\* routes/storage.rs: after a migration that is done the target holds every live blob with
\* its chunks and the manifest of every snapshot a branch or a tag points at, but for what
\* was first referred to after it looked, and for what is damaged.
THEOREM TargetHoldsLive == Spec => []PrimaryHoldsLive
<1>1. MoveInv => PrimaryHoldsLive
  BY DEF MoveInv, PrimaryHoldsLive, AllHeld, Held, HeldSnapshot
<1> QED BY <1>1, MoveInit, MoveStep, KeepInit, KeepStep, TypeCorrect, PTL DEF Spec
-----------------------------------------------------------------------------
(* Ingest: what is announced can be found. *)

RunPcs == {"idle", "fetch", "read", "insert", "ref", "report", "blocked", "reportBlocked",
           "complete", "fail"}
RunTypes == [job : IngestJobs \cup {NoBlob}, pc : RunPcs, blob : Versions \cup {NoBlob},
             todo : Seq(Pieces), found : Seq(Pieces)]

CommitTypes == [pc : {"idle", "row", "event", "job"}, blob : Versions \cup {NoBlob}]

\* A run that inserts segments has inserted those it found and has not on its list;
\* one that is past them has, and its text is kept; one that completes has reported.
RunInv(r) ==
  /\ r.pc # "idle" => r.job \in IngestJobs
  /\ r.pc \in {"read", "insert", "ref", "report", "blocked", "reportBlocked"} => r.blob \in Versions
  /\ r.pc = "read" => media # "video"
  /\ r.pc = "insert" => \A n \in DOMAIN r.found :
       <<r.blob, r.found[n]>> \in segments \/ \E m \in DOMAIN r.todo : r.todo[m] = r.found[n]
  /\ r.pc \in {"ref", "report"} =>
       <<"text", r.blob>> \in kept /\ \A n \in DOMAIN r.found : <<r.blob, r.found[n]>> \in segments
  /\ r.pc = "complete" => \E e \in reports : e.job = r.job

IngestInv ==
  /\ IngestTypeOK /\ media \in Routes
  /\ ingest \in [Drainers -> RunTypes]
  /\ commit \in CommitTypes
  /\ \A d \in Drainers : RunInv(ingest[d])
  /\ DoneIsSearchable

\* Segments, texts and events only come.
IngestGrows ==
  segments \subseteq segments' /\ kept \subseteq kept' /\ reports \subseteq reports' /\ media' = media

LEMMA RunsStay ==
  ASSUME \A d \in Drainers : RunInv(ingest[d]), IngestGrows, UNCHANGED ingest
  PROVE  \A d \in Drainers : RunInv(ingest[d])'
BY DEF RunInv, IngestGrows

LEMMA RunsMove ==
  ASSUME ingest \in [Drainers -> RunTypes], \A d \in Drainers : RunInv(ingest[d]), IngestGrows,
         NEW d \in Drainers, NEW r \in RunTypes, Now(d, r), RunInv(r)'
  PROVE  ingest' \in [Drainers -> RunTypes] /\ \A e \in Drainers : RunInv(ingest[e])'
<1>1. ingest' \in [Drainers -> RunTypes]
  BY DEF Now
<1>2. ASSUME NEW e \in Drainers PROVE RunInv(ingest[e])'
  <2>1. CASE e = d
    <3>1. ingest'[e] = r
      BY <2>1 DEF Now
    <3> QED BY <3>1 DEF RunInv
  <2>2. CASE e # d
    <3>1. ingest'[e] = ingest[e]
      BY <2>2 DEF Now
    <3> QED BY <3>1 DEF RunInv, IngestGrows
  <2> QED BY <2>1, <2>2
<1> QED BY <1>1, <1>2

\* No step takes from what reports rely on.
LEMMA ReportsStay ==
  ASSUME DoneIsSearchable, IngestGrows,
         \A e \in reports' \ reports : e.type = "completed" =>
           <<"text", e.blob>> \in kept' /\ \A n \in DOMAIN e.found : <<e.blob, e.found[n]>> \in segments',
         file'.transcript # NoBlob =>
           file'.transcript = file.transcript \/ <<"text", file'.transcript>> \in kept,
         \A j \in IngestJobs : queue'[j].status = "done" =>
           queue[j].status = "done" \/ \E e \in reports : e.job = j
  PROVE  DoneIsSearchable'
<1>1. \A e \in reports' : e.type = "completed" =>
        <<"text", e.blob>> \in kept' /\ \A n \in DOMAIN e.found : <<e.blob, e.found[n]>> \in segments'
  BY DEF DoneIsSearchable, IngestGrows
<1>2. file'.transcript # NoBlob => <<"text", file'.transcript>> \in kept'
  BY DEF DoneIsSearchable, IngestGrows
<1>3. \A j \in IngestJobs : queue'[j].status = "done" => \E e \in reports' : e.job = j
  BY DEF DoneIsSearchable, IngestGrows
<1> QED BY <1>1, <1>2, <1>3 DEF DoneIsSearchable

LEMMA PiecesFound ==
  ASSUME media \in Routes, media # "video"
  PROVE  MayFind \subseteq Seq(Pieces)
<1>1. 1 \in Pieces /\ 2 \in Pieces /\ Cardinality(Pieces) \in Nat
  BY IngestAssumption, FS_CardinalityType
<1>2. Whole \in Seq(Pieces)
  BY <1>1, IngestAssumption DEF Whole
<1>3. <<1>> \in Seq(Pieces) /\ <<2>> \in Seq(Pieces) /\ << >> \in Seq(Pieces)
  BY <1>1
<1> QED BY <1>2, <1>3 DEF MayFind, Routes, TextPieces, AudioPieces, ImagePieces, PdfPieces, DocxPieces

LEMMA QueueTypes ==
  ASSUME IngestTypeOK, NEW j \in IngestJobs
  PROVE  /\ queue[j].status \in {"new", "queued", "running", "done", "failed"}
         /\ queue[j].blob \in Versions \cup {NoBlob} /\ queue[j].by \in Drainers \cup {NoBlob}
         /\ queue[j].attempts \in 0..MaxIngests
BY DEF IngestTypeOK, JobRows

\* The row of one job changes; done it is only by a run that reported.
LEMMA QueueMoves ==
  ASSUME IngestTypeOK, NEW j \in IngestJobs,
         NEW q \in JobRows,
         queue' = [queue EXCEPT ![j] = q],
         q.status = "done" => \E e \in reports : e.job = j
  PROVE  /\ queue' \in [IngestJobs -> JobRows]
         /\ \A k \in IngestJobs : queue'[k].status = "done" =>
              queue[k].status = "done" \/ \E e \in reports : e.job = k
BY DEF IngestTypeOK, JobRows

LEMMA EnqueueMoves ==
  ASSUME IngestTypeOK, NEW b \in Versions \cup {NoBlob}, Enqueue(b)
  PROVE  /\ queue' \in [IngestJobs -> JobRows]
         /\ \A k \in IngestJobs : queue'[k].status = "done" =>
              queue[k].status = "done" \/ \E e \in reports : e.job = k
<1>1. PICK j \in IngestJobs :
        queue' = [queue EXCEPT ![j] = [queue[j] EXCEPT !.status = "queued", !.blob = b]]
  BY DEF Enqueue
<1> DEFINE q == [queue[j] EXCEPT !.status = "queued", !.blob = b]
<1>2. /\ q \in JobRows
      /\ q.status = "queued"
  BY QueueTypes DEF IngestTypeOK, JobRows
<1> HIDE DEF q
<1>3. queue' = [queue EXCEPT ![j] = q]
  BY <1>1 DEF q
<1> QED BY <1>2, <1>3, QueueMoves

LEMMA CommitSteps ==
  ASSUME IngestInv,
         \/ \E b \in Versions : CommitStored(b) \/ BeginFileCommit(b)
         \/ UpsertFile \/ EmitCommit \/ AutoIngest \/ AskIngest
  PROVE  IngestInv'
<1>1. IngestGrows /\ UNCHANGED <<ingest, reports, segments, deaths, media>>
  BY DEF IngestGrows, CommitStored, BeginFileCommit, UpsertFile, EmitCommit, AutoIngest, AskIngest
<1>2. ingest' \in [Drainers -> RunTypes] /\ \A d \in Drainers : RunInv(ingest[d])'
  BY <1>1, RunsStay DEF IngestInv
<1>3. /\ file' \in [blob : Versions \cup {NoBlob}, transcript : Versions \cup {NoBlob},
                    blocked : BOOLEAN]
      /\ file'.transcript # NoBlob => file'.transcript = file.transcript
      /\ commit' \in CommitTypes
      /\ kept' \subseteq {"content", "text"} \X Versions
      /\ commits' \in 0..MaxCommits
  <2>1. ASSUME NEW b \in Versions, CommitStored(b) PROVE <1>3!1 /\ <1>3!2 /\ <1>3!3 /\ <1>3!4 /\ <1>3!5
    BY <2>1, IngestAssumption DEF CommitStored, IngestInv, IngestTypeOK, CommitTypes
  <2>2. ASSUME NEW b \in Versions, BeginFileCommit(b) PROVE <1>3!1 /\ <1>3!2 /\ <1>3!3 /\ <1>3!4 /\ <1>3!5
    BY <2>2, IngestAssumption DEF BeginFileCommit, IngestInv, IngestTypeOK, CommitTypes
  <2>3. ASSUME UpsertFile PROVE <1>3!1 /\ <1>3!2 /\ <1>3!3 /\ <1>3!4 /\ <1>3!5
    BY <2>3 DEF UpsertFile, IngestInv, IngestTypeOK, CommitTypes
  <2>4. ASSUME EmitCommit \/ AutoIngest \/ AskIngest
        PROVE  <1>3!1 /\ <1>3!2 /\ <1>3!3 /\ <1>3!4 /\ <1>3!5
    BY <2>4 DEF EmitCommit, AutoIngest, AskIngest, IngestInv, IngestTypeOK, CommitTypes
  <2> QED BY <2>1, <2>2, <2>3, <2>4
<1>4. /\ queue' \in [IngestJobs -> JobRows]
      /\ \A k \in IngestJobs : queue'[k].status = "done" =>
           queue[k].status = "done" \/ \E e \in reports : e.job = k
  <2>1. CASE UNCHANGED queue
    BY <2>1 DEF IngestInv, IngestTypeOK
  <2>2. CASE \E b \in Versions \cup {NoBlob} : Enqueue(b)
    BY <2>2, EnqueueMoves DEF IngestInv
  <2>3. UNCHANGED queue \/ \E b \in Versions \cup {NoBlob} : Enqueue(b)
    BY DEF CommitStored, BeginFileCommit, UpsertFile, EmitCommit, AutoIngest, AskIngest, IngestInv, CommitTypes
  <2> QED BY <2>1, <2>2, <2>3
<1>5. IngestTypeOK' /\ media' \in Routes
  BY <1>1, <1>2, <1>3, <1>4 DEF IngestInv, IngestTypeOK, RunTypes
<1>6. DoneIsSearchable'
  BY <1>1, <1>3, <1>4, ReportsStay DEF IngestInv
<1> QED BY <1>2, <1>3, <1>5, <1>6 DEF IngestInv

\* A step of a run, or of the queue, which leaves the file's version alone.
LEMMA RunStep ==
  ASSUME IngestInv, IngestGrows, UNCHANGED <<commits, commit>>,
         ingest' \in [Drainers -> RunTypes], \A d \in Drainers : RunInv(ingest[d])',
         file' \in [blob : Versions \cup {NoBlob}, transcript : Versions \cup {NoBlob},
                    blocked : BOOLEAN],
         kept' \subseteq {"content", "text"} \X Versions, segments' \subseteq Versions \X Pieces,
         deaths' \in 0..MaxDeaths,
         queue' \in [IngestJobs -> JobRows],
         DoneIsSearchable'
  PROVE  IngestInv'
BY DEF IngestInv, IngestTypeOK, RunTypes, IngestGrows

\* A step of a run that writes nothing.
LEMMA RunOnly ==
  ASSUME IngestInv, NEW d \in Drainers, NEW r \in RunTypes, Now(d, r),
         RunInv(r)', UNCHANGED <<media, file, kept, commits, commit, segments, reports>>,
         deaths' \in 0..MaxDeaths,
         queue' \in [IngestJobs -> JobRows],
         \A k \in IngestJobs : queue'[k].status = "done" =>
           queue[k].status = "done" \/ \E e \in reports : e.job = k
  PROVE  IngestInv'
<1>1. IngestGrows
  BY DEF IngestGrows
<1>2. ingest' \in [Drainers -> RunTypes] /\ \A e \in Drainers : RunInv(ingest[e])'
  BY <1>1, RunsMove DEF IngestInv
<1>3. DoneIsSearchable'
  BY <1>1, ReportsStay DEF IngestInv
<1> QED BY <1>1, <1>2, <1>3, RunStep DEF IngestInv, IngestTypeOK

LEMMA RunFacts ==
  ASSUME IngestInv, NEW d \in Drainers
  PROVE  ingest[d] \in RunTypes /\ RunInv(ingest[d])
BY DEF IngestInv

LEMMA NoRunFacts ==
  ASSUME NEW j \in IngestJobs
  PROVE  /\ NoRun \in RunTypes /\ NoRun.pc = "idle"
         /\ RunOf(j, "fetch") \in RunTypes /\ RunOf(j, "fetch").pc = "fetch"
         /\ RunOf(j, "fetch").job = j
BY DEF NoRun, RunOf, RunTypes, RunPcs

LEMMA ClaimIngestInv ==
  ASSUME IngestInv, NEW d \in Drainers, NEW j \in IngestJobs, ClaimIngest(d, j)
  PROVE  IngestInv'
<1> DEFINE q == [queue[j] EXCEPT !.status = "running", !.by = d, !.attempts = queue[j].attempts + 1]
<1>1. /\ q \in JobRows
      /\ q.status = "running"
  <2>1. queue[j].attempts + 1 \in 0..MaxIngests
    BY QueueTypes, IngestAssumption DEF ClaimIngest, IngestInv
  <2> QED BY <2>1 DEF IngestInv, IngestTypeOK, JobRows
<1>2. queue' = [queue EXCEPT ![j] = q]
  BY DEF ClaimIngest
<1> HIDE DEF q
<1>3. Now(d, RunOf(j, "fetch"))
      /\ UNCHANGED <<media, file, kept, commits, commit, segments, reports, deaths>>
  BY DEF ClaimIngest, Same
<1>4. RunInv(RunOf(j, "fetch"))'
  BY NoRunFacts DEF RunInv, RunOf
<1> QED BY <1>1, <1>2, <1>3, <1>4, QueueMoves, NoRunFacts, RunOnly DEF IngestInv, IngestTypeOK, RunOf

\* The record of a run with some of its fields set.
LEMMA MovedOn ==
  ASSUME NEW r \in RunTypes, NEW p \in RunPcs,
         NEW d \in Drainers, Now(d, [r EXCEPT !.pc = p])
  PROVE  \E s \in RunTypes : /\ Now(d, s)
                             /\ s.pc = p /\ s.job = r.job /\ s.blob = r.blob /\ s.found = r.found
<1> DEFINE s == [r EXCEPT !.pc = p]
<1>1. s \in RunTypes /\ s.pc = p /\ s.job = r.job /\ s.blob = r.blob /\ s.found = r.found
  BY DEF RunTypes
<1> QED BY <1>1

LEMMA FetchEntityInv ==
  ASSUME IngestInv, NEW d \in Drainers, FetchEntity(d)
  PROVE  IngestInv'
<1>1. PICK r \in RunTypes : r = ingest[d] /\ r.pc = "fetch" /\ r.job \in IngestJobs
  BY RunFacts DEF FetchEntity, At_, RunInv
<1>2. PICK b \in Versions \cup {NoBlob} :
        Now(d, [r EXCEPT !.blob = b, !.pc = IF b = NoBlob THEN "fail"
                                            ELSE IF media = "video" THEN "blocked" ELSE "read"])
  BY <1>1, QueueTypes DEF FetchEntity, IngestInv, IngestTypeOK
<1>3. PICK next \in {"fail", "blocked", "read"} :
        /\ Now(d, [r EXCEPT !.blob = b, !.pc = next])
        /\ next = "read" => media # "video"
        /\ next # "fail" => b \in Versions
  BY <1>2
<1>4. PICK s \in RunTypes : Now(d, s) /\ s.pc = next /\ s.job \in IngestJobs /\ s.blob = b
  <2>1. next \in RunPcs
    BY DEF RunPcs
  <2> DEFINE s == [r EXCEPT !.blob = b, !.pc = next]
  <2>2. s \in RunTypes /\ s.pc = next /\ s.job = r.job /\ s.blob = b
    BY <2>1 DEF RunTypes
  <2>3. Now(d, s)
    BY <1>3
  <2> QED BY <1>1, <2>2, <2>3
<1>5. UNCHANGED <<media, file, kept, commits, commit, segments, reports, deaths, queue>>
  BY DEF FetchEntity, Same
<1>6. RunInv(s)'
  BY <1>3, <1>4, <1>5 DEF RunInv
<1> QED BY <1>4, <1>5, <1>6, RunOnly DEF IngestInv, IngestTypeOK

\* A run that only moves on.
LEMMA ToType ==
  ASSUME IngestInv, NEW d \in Drainers, NEW p \in RunPcs, To(d, p)
  PROVE  \E s \in RunTypes : /\ Now(d, s) /\ s.pc = p /\ s.job = ingest[d].job
                             /\ s.blob = ingest[d].blob /\ s.found = ingest[d].found
<1>1. PICK r \in RunTypes : r = ingest[d]
  BY RunFacts
<1>2. Now(d, [r EXCEPT !.pc = p])
  BY <1>1 DEF To
<1> QED BY <1>1, <1>2, MovedOn

LEMMA ExtractInv ==
  ASSUME IngestInv, NEW d \in Drainers, Extract(d)
  PROVE  IngestInv'
<1>1. PICK r \in RunTypes :
        /\ r = ingest[d] /\ r.pc = "read" /\ r.job \in IngestJobs /\ r.blob \in Versions
        /\ media # "video"
  BY RunFacts DEF Extract, At_, RunInv
<1>2. UNCHANGED <<media, file, kept, commits, commit, segments, reports, deaths, queue>>
  BY DEF Extract, Same
<1>3. CASE \E t \in MayFind : Now(d, [r EXCEPT !.pc = "insert", !.todo = t, !.found = t])
  <2>1. PICK t \in MayFind : Now(d, [r EXCEPT !.pc = "insert", !.todo = t, !.found = t])
    BY <1>3
  <2>2. t \in Seq(Pieces)
    BY <1>1, PiecesFound DEF IngestInv
  <2>3. PICK s \in RunTypes : /\ Now(d, s) /\ s.pc = "insert" /\ s.job = r.job /\ s.blob = r.blob
                              /\ s.todo = t /\ s.found = t
    <3>1. "insert" \in RunPcs
      BY DEF RunPcs
    <3> DEFINE s == [r EXCEPT !.pc = "insert", !.todo = t, !.found = t]
    <3>2. /\ s \in RunTypes /\ s.pc = "insert" /\ s.job = r.job /\ s.blob = r.blob
          /\ s.todo = t /\ s.found = t
      BY <2>2, <3>1 DEF RunTypes
    <3>3. Now(d, s)
      BY <2>1
    <3> QED BY <3>2, <3>3
  <2>4. RunInv(s)'
    BY <1>1, <2>3 DEF RunInv
  <2> QED BY <1>2, <2>3, <2>4, RunOnly DEF IngestInv, IngestTypeOK
<1>4. CASE \E p \in {"blocked", "fail"} : To(d, p)
  <2>1. PICK p \in {"blocked", "fail"} : To(d, p)
    BY <1>4
  <2>2. PICK s \in RunTypes : Now(d, s) /\ s.pc = p /\ s.job = r.job /\ s.blob = r.blob
    BY <1>1, <2>1, ToType DEF RunPcs
  <2>3. RunInv(s)'
    BY <1>1, <2>2 DEF RunInv
  <2> QED BY <1>2, <2>2, <2>3, RunOnly DEF IngestInv, IngestTypeOK
<1> QED BY <1>1, <1>3, <1>4 DEF Extract

LEMMA InsertSegmentInv ==
  ASSUME IngestInv, NEW d \in Drainers, InsertSegment(d)
  PROVE  IngestInv'
<1>1. PICK r \in RunTypes :
      /\ r = ingest[d] /\ r.pc = "insert" /\ r.job \in IngestJobs /\ r.blob \in Versions
      /\ r.todo # << >> /\ r.todo \in Seq(Pieces)
      /\ \A n \in DOMAIN r.found :
           <<r.blob, r.found[n]>> \in segments \/ \E m \in DOMAIN r.todo : r.todo[m] = r.found[n]
  BY RunFacts DEF InsertSegment, At_, RunInv, RunTypes
<1>2. /\ segments' = segments \cup {<<r.blob, Head(r.todo)>>}
      /\ Now(d, [r EXCEPT !.todo = Tail(r.todo)])
      /\ UNCHANGED <<media, file, kept, commits, commit, reports, deaths, queue>>
  BY <1>1 DEF InsertSegment, Same
<1>3. Tail(r.todo) \in Seq(Pieces) /\ Head(r.todo) \in Pieces
  BY <1>1
<1>4. PICK s \in RunTypes : /\ Now(d, s) /\ s.pc = "insert" /\ s.job = r.job /\ s.blob = r.blob
                            /\ s.todo = Tail(r.todo) /\ s.found = r.found
  <2> DEFINE s == [r EXCEPT !.todo = Tail(r.todo)]
  <2>1. /\ s \in RunTypes /\ s.pc = r.pc /\ s.job = r.job /\ s.blob = r.blob
        /\ s.todo = Tail(r.todo) /\ s.found = r.found
    BY <1>3 DEF RunTypes
  <2>2. Now(d, s)
    BY <1>2
  <2> QED BY <1>1, <2>1, <2>2
<1>5. ASSUME NEW m \in DOMAIN r.todo
      PROVE  r.todo[m] = Head(r.todo) \/ \E k \in DOMAIN Tail(r.todo) : Tail(r.todo)[k] = r.todo[m]
  <2>1. m \in 1..Len(r.todo) /\ Len(r.todo) \in Nat
    BY <1>1
  <2>2. CASE m = 1
    BY <1>1, <2>2
  <2>3. CASE m # 1
    <3>1. m - 1 \in 1..(Len(r.todo) - 1) /\ m = (m - 1) + 1
      BY <2>1, <2>3
    <3>2. m - 1 \in DOMAIN Tail(r.todo) /\ Tail(r.todo)[m - 1] = r.todo[m]
      BY <1>1, <3>1, HeadTailProperties
    <3> QED BY <3>2
  <2> QED BY <2>2, <2>3
<1>6. IngestGrows
  BY <1>2 DEF IngestGrows
<1>7. RunInv(s)'
  <2>1. \A n \in DOMAIN r.found : <<r.blob, r.found[n]>> \in segments'
          \/ \E k \in DOMAIN Tail(r.todo) : Tail(r.todo)[k] = r.found[n]
    <3> TAKE n \in DOMAIN r.found
    <3>1. CASE <<r.blob, r.found[n]>> \in segments
      BY <1>2, <3>1
    <3>2. CASE \E m \in DOMAIN r.todo : r.todo[m] = r.found[n]
      <4>1. PICK m \in DOMAIN r.todo : r.todo[m] = r.found[n]
        BY <3>2
      <4>2. r.found[n] = Head(r.todo) \/ \E k \in DOMAIN Tail(r.todo) : Tail(r.todo)[k] = r.found[n]
        BY <4>1, <1>5
      <4> QED BY <1>2, <4>2
    <3> QED BY <1>1, <3>1, <3>2
  <2> QED BY <1>1, <1>4, <2>1 DEF RunInv
<1>8. ingest' \in [Drainers -> RunTypes] /\ \A e \in Drainers : RunInv(ingest[e])'
  BY <1>4, <1>6, <1>7, RunsMove DEF IngestInv
<1>9. DoneIsSearchable'
  BY <1>2, <1>6, ReportsStay DEF IngestInv
<1>10. segments' \subseteq Versions \X Pieces
  BY <1>1, <1>2, <1>3 DEF IngestInv, IngestTypeOK
<1> QED BY <1>2, <1>6, <1>8, <1>9, <1>10, RunStep DEF IngestInv, IngestTypeOK

LEMMA StoreTranscriptInv ==
  ASSUME IngestInv, NEW d \in Drainers, StoreTranscript(d)
  PROVE  IngestInv'
<1>1. PICK r \in RunTypes :
      /\ r = ingest[d] /\ r.pc = "insert" /\ r.job \in IngestJobs /\ r.blob \in Versions
      /\ r.todo = << >>
      /\ \A n \in DOMAIN r.found :
           <<r.blob, r.found[n]>> \in segments \/ \E m \in DOMAIN r.todo : r.todo[m] = r.found[n]
  BY RunFacts DEF StoreTranscript, At_, RunInv
<1>2. /\ kept' = kept \cup {<<"text", r.blob>>} /\ To(d, "ref")
      /\ UNCHANGED <<media, file, segments, commits, commit, reports, deaths, queue>>
  BY <1>1 DEF StoreTranscript, Same
<1>3. PICK s \in RunTypes : /\ Now(d, s) /\ s.pc = "ref" /\ s.job = r.job /\ s.blob = r.blob
                            /\ s.found = r.found
  BY <1>1, <1>2, ToType DEF RunPcs
<1>4. \A n \in DOMAIN r.found : <<r.blob, r.found[n]>> \in segments
  <2>1. DOMAIN r.todo = {}
    BY <1>1
  <2> QED BY <1>1, <2>1
<1>5. IngestGrows
  BY <1>2 DEF IngestGrows
<1>6. RunInv(s)'
  BY <1>1, <1>2, <1>3, <1>4 DEF RunInv
<1>7. ingest' \in [Drainers -> RunTypes] /\ \A e \in Drainers : RunInv(ingest[e])'
  BY <1>3, <1>5, <1>6, RunsMove DEF IngestInv
<1>8. DoneIsSearchable'
  BY <1>2, <1>5, ReportsStay DEF IngestInv
<1>9. kept' \subseteq {"content", "text"} \X Versions
  BY <1>1, <1>2 DEF IngestInv, IngestTypeOK
<1> QED BY <1>2, <1>5, <1>7, <1>8, <1>9, RunStep DEF IngestInv, IngestTypeOK

LEMMA SetTranscriptRefInv ==
  ASSUME IngestInv, NEW d \in Drainers, SetTranscriptRef(d)
  PROVE  IngestInv'
<1>1. PICK r \in RunTypes :
      /\ r = ingest[d] /\ r.pc = "ref" /\ r.job \in IngestJobs /\ r.blob \in Versions
      /\ <<"text", r.blob>> \in kept /\ \A n \in DOMAIN r.found : <<r.blob, r.found[n]>> \in segments
  BY RunFacts DEF SetTranscriptRef, At_, RunInv
<1>2. /\ file' = [file EXCEPT !.transcript = r.blob] /\ To(d, "report")
      /\ UNCHANGED <<media, kept, segments, commits, commit, reports, deaths, queue>>
  BY <1>1 DEF SetTranscriptRef, Same
<1>3. PICK s \in RunTypes : /\ Now(d, s) /\ s.pc = "report" /\ s.job = r.job /\ s.blob = r.blob
                            /\ s.found = r.found
  BY <1>1, <1>2, ToType DEF RunPcs
<1>4. IngestGrows
  BY <1>2 DEF IngestGrows
<1>5. RunInv(s)'
  BY <1>1, <1>2, <1>3 DEF RunInv
<1>6. ingest' \in [Drainers -> RunTypes] /\ \A e \in Drainers : RunInv(ingest[e])'
  BY <1>3, <1>4, <1>5, RunsMove DEF IngestInv
<1>7. /\ file' \in [blob : Versions \cup {NoBlob}, transcript : Versions \cup {NoBlob},
                    blocked : BOOLEAN]
      /\ file'.transcript = r.blob
  BY <1>1, <1>2 DEF IngestInv, IngestTypeOK
<1>8. DoneIsSearchable'
  BY <1>1, <1>2, <1>4, <1>7, ReportsStay DEF IngestInv
<1> QED BY <1>2, <1>4, <1>6, <1>7, <1>8, RunStep DEF IngestInv, IngestTypeOK

\* A run reports what it has made.
LEMMA ReportStep ==
  ASSUME IngestInv, NEW d \in Drainers, Report(d)
  PROVE  IngestInv'
<1>1. PICK r \in RunTypes :
      /\ r = ingest[d] /\ r.pc = "report" /\ r.job \in IngestJobs /\ r.blob \in Versions
      /\ <<"text", r.blob>> \in kept /\ \A n \in DOMAIN r.found : <<r.blob, r.found[n]>> \in segments
  BY RunFacts DEF Report, At_, RunInv
<1> DEFINE e == [type |-> "completed", job |-> r.job, blob |-> r.blob, found |-> r.found]
<1>2. /\ reports' = reports \cup {e} /\ To(d, "complete")
      /\ UNCHANGED <<media, file, kept, segments, commits, commit, deaths, queue>>
  BY <1>1 DEF Report, Same
<1>3. PICK s \in RunTypes : Now(d, s) /\ s.pc = "complete" /\ s.job = r.job /\ s.blob = r.blob
  BY <1>1, <1>2, ToType DEF RunPcs
<1>4. IngestGrows
  BY <1>2 DEF IngestGrows
<1>5. RunInv(s)'
  <2>1. \E x \in reports' : x.job = s.job
    <3>1. e \in reports' /\ e.job = r.job
      BY <1>2
    <3> HIDE DEF e
    <3> QED BY <1>3, <3>1
  <2> QED BY <1>1, <1>3, <2>1 DEF RunInv
<1>6. ingest' \in [Drainers -> RunTypes] /\ \A x \in Drainers : RunInv(ingest[x])'
  BY <1>3, <1>4, <1>5, RunsMove DEF IngestInv
<1>7. \A x \in reports' \ reports : x.type = "completed" =>
        <<"text", x.blob>> \in kept' /\ \A n \in DOMAIN x.found : <<x.blob, x.found[n]>> \in segments'
  BY <1>1, <1>2
<1>8. DoneIsSearchable'
  BY <1>2, <1>4, <1>7, ReportsStay DEF IngestInv
<1> QED BY <1>2, <1>4, <1>6, <1>8, RunStep DEF IngestInv, IngestTypeOK

LEMMA FinishUnsupportedInv ==
  ASSUME IngestInv, NEW d \in Drainers, FinishUnsupported(d)
  PROVE  IngestInv'
<1>1. PICK r \in RunTypes :
      r = ingest[d] /\ r.pc = "blocked" /\ r.job \in IngestJobs /\ r.blob \in Versions
  BY RunFacts DEF FinishUnsupported, At_, RunInv
<1>2. /\ file' = [file EXCEPT !.blocked = TRUE] /\ To(d, "reportBlocked")
      /\ UNCHANGED <<media, kept, segments, commits, commit, reports, deaths, queue>>
  BY DEF FinishUnsupported, Same
<1>3. PICK s \in RunTypes : Now(d, s) /\ s.pc = "reportBlocked" /\ s.job = r.job /\ s.blob = r.blob
  BY <1>1, <1>2, ToType DEF RunPcs
<1>4. IngestGrows
  BY <1>2 DEF IngestGrows
<1>5. RunInv(s)'
  BY <1>1, <1>3 DEF RunInv
<1>6. ingest' \in [Drainers -> RunTypes] /\ \A e \in Drainers : RunInv(ingest[e])'
  BY <1>3, <1>4, <1>5, RunsMove DEF IngestInv
<1>7. /\ file' \in [blob : Versions \cup {NoBlob}, transcript : Versions \cup {NoBlob},
                    blocked : BOOLEAN]
      /\ file'.transcript = file.transcript
  BY <1>2 DEF IngestInv, IngestTypeOK
<1>8. DoneIsSearchable'
  BY <1>2, <1>4, <1>7, ReportsStay DEF IngestInv
<1> QED BY <1>2, <1>4, <1>6, <1>7, <1>8, RunStep DEF IngestInv, IngestTypeOK

LEMMA ReportUnsupportedInv ==
  ASSUME IngestInv, NEW d \in Drainers, ReportUnsupported(d)
  PROVE  IngestInv'
<1>1. PICK r \in RunTypes :
      r = ingest[d] /\ r.pc = "reportBlocked" /\ r.job \in IngestJobs /\ r.blob \in Versions
  BY RunFacts DEF ReportUnsupported, At_, RunInv
<1> DEFINE e == [type |-> "unsupported", job |-> r.job, blob |-> r.blob, found |-> << >>]
<1>2. /\ reports' = reports \cup {e} /\ To(d, "complete")
      /\ UNCHANGED <<media, file, kept, segments, commits, commit, deaths, queue>>
  BY <1>1 DEF ReportUnsupported, Same
<1>3. PICK s \in RunTypes : Now(d, s) /\ s.pc = "complete" /\ s.job = r.job /\ s.blob = r.blob
  BY <1>1, <1>2, ToType DEF RunPcs
<1>4. IngestGrows
  BY <1>2 DEF IngestGrows
<1>5. RunInv(s)'
  <2>1. \E x \in reports' : x.job = s.job
    <3>1. e \in reports' /\ e.job = r.job
      BY <1>2
    <3> HIDE DEF e
    <3> QED BY <1>3, <3>1
  <2> QED BY <1>1, <1>3, <2>1 DEF RunInv
<1>6. ingest' \in [Drainers -> RunTypes] /\ \A x \in Drainers : RunInv(ingest[x])'
  BY <1>3, <1>4, <1>5, RunsMove DEF IngestInv
<1>7. DoneIsSearchable'
  BY <1>2, <1>4, ReportsStay DEF IngestInv
<1> QED BY <1>2, <1>4, <1>6, <1>7, RunStep DEF IngestInv, IngestTypeOK

\* A failing statement and a dying drainer leave what is written.
LEMMA FailStatementInv ==
  ASSUME IngestInv, NEW d \in Drainers, FailStatement(d)
  PROVE  IngestInv'
<1>1. PICK r \in RunTypes : r = ingest[d] /\ r.job \in IngestJobs
  BY RunFacts DEF FailStatement, RunInv
<1>2. PICK s \in RunTypes : Now(d, s) /\ s.pc = "fail" /\ s.job = r.job
  BY <1>1, ToType DEF FailStatement, RunPcs
<1>3. RunInv(s)'
  BY <1>1, <1>2 DEF RunInv
<1>4. deaths' \in 0..MaxDeaths
  BY IngestAssumption DEF FailStatement, IngestInv, IngestTypeOK
<1> QED BY <1>2, <1>3, <1>4, RunOnly DEF FailStatement, IngestInv, IngestTypeOK

LEMMA NoRunInv ==
  ASSUME IngestInv
  PROVE  NoRun \in RunTypes /\ RunInv(NoRun)'
BY DEF NoRun, RunOf, RunTypes, RunPcs, RunInv

\* The outcome counts for the holder of the lease, which has reported.
LEMMA EndJobInv ==
  ASSUME IngestInv, NEW d \in Drainers, EndJob(d)
  PROVE  IngestInv'
<1>1. PICK j \in IngestJobs :
        /\ j = ingest[d].job /\ Now(d, NoRun)
        /\ ingest[d].pc = "complete" => \E e \in reports : e.job = j
  BY RunFacts DEF EndJob, RunInv
<1>2. UNCHANGED <<media, file, kept, commits, commit, segments, reports, deaths>>
  BY DEF EndJob, Same
<1>3. /\ queue' \in [IngestJobs -> JobRows]
      /\ \A k \in IngestJobs : queue'[k].status = "done" =>
           queue[k].status = "done" \/ \E e \in reports : e.job = k
  <2>1. CASE queue' = queue
    BY <2>1 DEF IngestInv, IngestTypeOK
  <2>2. ASSUME NEW st \in {"done", "failed"}, st = "done" => ingest[d].pc = "complete",
               queue' = [queue EXCEPT ![j] = [queue[j] EXCEPT !.status = st]]
        PROVE  <1>3
    <3> DEFINE q == [queue[j] EXCEPT !.status = st]
    <3>1. /\ q \in JobRows
          /\ q.status = st
      BY DEF IngestInv, IngestTypeOK, JobRows
    <3>2. queue' = [queue EXCEPT ![j] = q]
      BY <2>2
    <3> HIDE DEF q
    <3> QED BY <1>1, <2>2, <3>1, <3>2, QueueMoves DEF IngestInv
  <2> QED BY <1>1, <2>1, <2>2 DEF EndJob, At_
<1> QED BY <1>1, <1>2, <1>3, NoRunInv, RunOnly DEF IngestInv, IngestTypeOK

LEMMA DrainerDiesInv ==
  ASSUME IngestInv, NEW d \in Drainers, DrainerDies(d)
  PROVE  IngestInv'
<1>1. deaths' \in 0..MaxDeaths
  BY IngestAssumption DEF DrainerDies, IngestInv, IngestTypeOK
<1> QED BY <1>1, NoRunInv, RunOnly DEF DrainerDies, IngestInv, IngestTypeOK

LEMMA ReapIngestInv ==
  ASSUME IngestInv, NEW j \in IngestJobs, ReapIngest(j)
  PROVE  IngestInv'
<1> DEFINE q == [queue[j] EXCEPT !.by = NoBlob,
                   !.status = IF queue[j].attempts >= MaxIngests THEN "failed" ELSE "queued"]
<1>1. /\ q \in JobRows
      /\ q.status # "done"
  BY DEF IngestInv, IngestTypeOK, JobRows
<1>2. queue' = [queue EXCEPT ![j] = q]
      /\ UNCHANGED <<media, file, kept, commits, commit, segments, reports, deaths, ingest>>
  BY DEF ReapIngest, Same
<1> HIDE DEF q
<1>3. /\ queue' \in [IngestJobs -> JobRows]
      /\ \A k \in IngestJobs : queue'[k].status = "done" =>
           queue[k].status = "done" \/ \E e \in reports : e.job = k
  BY <1>1, <1>2, QueueMoves DEF IngestInv
<1>4. IngestGrows
  BY <1>2 DEF IngestGrows
<1>5. ingest' \in [Drainers -> RunTypes] /\ \A d \in Drainers : RunInv(ingest[d])'
  BY <1>2, <1>4, RunsStay DEF IngestInv
<1>6. DoneIsSearchable'
  BY <1>2, <1>3, <1>4, ReportsStay DEF IngestInv
<1> QED BY <1>2, <1>3, <1>4, <1>5, <1>6, RunStep DEF IngestInv, IngestTypeOK

LEMMA IngestInit_ == IngestInit => IngestInv
<1> SUFFICES ASSUME IngestInit PROVE IngestInv
  OBVIOUS
<1>1. IngestTypeOK /\ media \in Routes
  BY IngestAssumption DEF IngestInit, IngestTypeOK, JobRows, NoRun, RunOf
<1>2. ingest \in [Drainers -> RunTypes] /\ commit \in CommitTypes
  BY DEF IngestInit, NoRun, RunOf, RunTypes, RunPcs, CommitTypes
<1>3. \A d \in Drainers : RunInv(ingest[d])
  BY DEF IngestInit, NoRun, RunOf, RunInv
<1>4. DoneIsSearchable
  BY DEF IngestInit, DoneIsSearchable
<1> QED BY <1>1, <1>2, <1>3, <1>4 DEF IngestInv

LEMMA IngestStep == IngestInv /\ [IngestNext]_ingestVars => IngestInv'
<1> SUFFICES ASSUME IngestInv, [IngestNext]_ingestVars PROVE IngestInv'
  OBVIOUS
<1>1. CASE UNCHANGED ingestVars
  <2>1. IngestGrows /\ UNCHANGED <<media, file, kept, commits, commit, segments, reports, queue,
                                   ingest, deaths>>
    BY <1>1 DEF ingestVars, IngestGrows
  <2>2. \A d \in Drainers : RunInv(ingest[d])'
    BY <2>1, RunsStay DEF IngestInv
  <2>3. DoneIsSearchable'
    BY <2>1, ReportsStay DEF IngestInv
  <2> QED BY <2>1, <2>2, <2>3, RunStep DEF IngestInv, IngestTypeOK
<1>2. CASE IngestNext
  BY <1>2, CommitSteps, ClaimIngestInv, FetchEntityInv, ExtractInv, InsertSegmentInv,
     StoreTranscriptInv, SetTranscriptRefInv, ReportStep, FinishUnsupportedInv,
     ReportUnsupportedInv, FailStatementInv, EndJobInv, DrainerDiesInv, ReapIngestInv
     DEF IngestNext
<1> QED BY <1>1, <1>2

\* For any drainers, jobs and contents of a file, and whatever runs are cut short,
\* overlap or are repeated, what ingest reports is in the segments and in the store,
\* and a job is done only when a run of it reported (lib.rs:454-490, main.rs:488).
THEOREM ReportsAreFound == IngestInit /\ [][IngestNext]_ingestVars => []DoneIsSearchable
<1>1. IngestInv => DoneIsSearchable
  BY DEF IngestInv
<1> QED BY IngestInit_, IngestStep, <1>1, PTL
=============================================================================
