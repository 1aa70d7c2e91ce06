------------------------------- MODULE Storage -------------------------------
(***************************************************************************)
(* Versioned files and where their bytes live: commits, branches and tags  *)
(* (routes/vcs.rs, lifeos-vcs), the migration of every live object to      *)
(* another backend and the flip of the primary (routes/storage.rs), and    *)
(* the sweep of unreferenced objects (gc.rs).  Requests, background tasks  *)
(* and a sweep interleave statement by statement and file by file.         *)
(*                                                                         *)
(* A blob names its manifest object; ChunksOf lists the chunks it is made  *)
(* of.  A snapshot object is the map from file to blob that it holds.      *)
(* Backends are id-shaped providers: an object on one is found through the *)
(* blob_backends index only (backend_proxy.rs).                            *)
(***************************************************************************)
EXTENDS Naturals, Sequences, SequencesExt

CONSTANTS
  Tasks,                    \* requests and background tasks in progress together
  Files, Blobs, ChunksOf,   \* chunks of each blob, in order
  First,                    \* the version each file starts with
  Backends, Null,
  MaxTasks, MaxFaults       \* bounds: tasks started, tasks that die

ASSUME StorageAssumption ==
  /\ Null \notin Blobs \union Files \union Backends
  /\ DOMAIN ChunksOf = Blobs /\ First \in [Files -> Blobs]
  /\ \A b \in Blobs : ChunksOf[b] # <<>> /\ ChunksOf[b] \in Seq(ToSet(ChunksOf[b]))
  /\ {MaxTasks, MaxFaults} \subseteq Nat

VARIABLES
  local, torn,     \* whole and truncated objects in the local store
  ref,             \* blob_ref of each file entity
  vers,            \* its version.created events
  branch, tag,     \* the snapshots a branch and a tag point at
  config,          \* status, default and migration status of each backend
  stored, index,   \* bytes on each backend, and the objects it is known to hold
  pc, req, started, faults,
  fresh,           \* history: objects referred to anew since a backend's migration looked
  raced,           \* history: objects in use by commits during a sweep
  contested,       \* history: files with two commits at once, or a dead one
  unclear          \* history: the primary was set twice at once, or left half set

vcsVars == <<ref, vers, branch, tag>>
bytes   == <<local, torn, stored, index>>
vars == <<bytes, vcsVars, config, pc, req, started, faults, fresh, raced, contested, unclear>>

NoTask == [f |-> Null, b |-> Null, r |-> Null, i |-> 1, parent |-> Null,
           todo |-> {}, snap |-> <<>>, failed |-> FALSE]

ObjectsOf(b) == {b} \union ToSet(ChunksOf[b])

Init ==
  /\ local = UNION {ObjectsOf(First[f]) : f \in Files} /\ torn = {}
  /\ ref = First
  /\ vers = [f \in Files |-> <<[blob |-> First[f], parent |-> Null]>>]
  /\ branch = Null /\ tag = Null
  /\ config = [r \in Backends |-> [status |-> "none", default |-> FALSE, migration |-> "none"]]
  /\ stored = [r \in Backends |-> {}] /\ index = [r \in Backends |-> {}]
  /\ pc = [h \in Tasks |-> "idle"] /\ req = [h \in Tasks |-> NoTask]
  /\ started = 0 /\ faults = 0
  /\ fresh = [r \in Backends |-> {}] /\ raced = {} /\ contested = {} /\ unclear = FALSE

Present == local \union torn        \* what write_object finds on disk

Go(h, next) == pc' = [pc EXCEPT ![h] = next]
Ends(h) == Go(h, "idle") /\ req' = [req EXCEPT ![h] = NoTask]
Begin(h, next, r) ==
  /\ pc[h] = "idle" /\ started < MaxTasks
  /\ started' = started + 1
  /\ Go(h, next)
  /\ req' = [req EXCEPT ![h] = r]
  /\ UNCHANGED faults
Goes == UNCHANGED <<started, faults>>
-----------------------------------------------------------------------------
(* POST /api/vcs/commit. *)

BeginCommit(h, f, b) ==
  /\ Begin(h, "store", [NoTask EXCEPT !.f = f, !.b = b])
  /\ UNCHANGED <<bytes, vcsVars, config>>

\* The chunks in order, then the manifest.
Writes(h) == Append(ChunksOf[req[h].b], req[h].b)[req[h].i]

\* store_blob by write_object: a file that exists is not written again.
StoreObject(h) ==
  /\ pc[h] = "store"
  /\ local' = IF Writes(h) \in Present THEN local ELSE local \union {Writes(h)}
  /\ req' = [req EXCEPT ![h].i = @ + 1]
  /\ Go(h, IF req[h].i > Len(ChunksOf[req[h].b]) THEN "parent" ELSE "store")
  /\ Goes /\ UNCHANGED <<torn, stored, index, vcsVars, config>>

ReadParent(h) ==
  /\ pc[h] = "parent"
  /\ IF ref[req[h].f] = req[h].b
       THEN Ends(h)
       ELSE Go(h, "update") /\ req' = [req EXCEPT ![h].parent = ref[req[h].f]]
  /\ Goes /\ UNCHANGED <<bytes, vcsVars, config>>

UpdateRef(h) ==
  /\ pc[h] = "update"
  /\ ref' = [ref EXCEPT ![req[h].f] = req[h].b]
  /\ Go(h, "emit")
  /\ Goes /\ UNCHANGED <<bytes, vers, branch, tag, config, req>>

EmitRootVersion(h) ==   \* mutant: the event without its parent
  /\ pc[h] = "emit"
  /\ vers' = [vers EXCEPT ![req[h].f] = Append(@, [blob |-> req[h].b, parent |-> Null])]
  /\ Ends(h)
  /\ Goes /\ UNCHANGED <<bytes, ref, branch, tag, config>>

EmitVersion(h) ==
  /\ pc[h] = "emit"
  /\ vers' = [vers EXCEPT ![req[h].f] = Append(@, [blob |-> req[h].b, parent |-> req[h].parent])]
  /\ Ends(h)
  /\ Goes /\ UNCHANGED <<bytes, ref, branch, tag, config>>
-----------------------------------------------------------------------------
(* Branches and tags. *)

BeginSnapshot(h, kind) ==
  /\ Begin(h, kind, [NoTask EXCEPT !.snap = ref])
  /\ UNCHANGED <<bytes, vcsVars, config>>

\* create_snapshot stores the manifest; set_tag then reads the tag.
WriteSnapshot(h) ==
  /\ \/ pc[h] = "branch" /\ Go(h, "set_branch")
     \/ pc[h] = "tag" /\ Go(h, "get_tag")
  /\ local' = IF req[h].snap \in Present THEN local ELSE local \union {req[h].snap}
  /\ Goes /\ UNCHANGED <<torn, stored, index, vcsVars, config, req>>

SetBranch(h) ==
  /\ pc[h] = "set_branch"
  /\ branch' = req[h].snap
  /\ Ends(h)
  /\ Goes /\ UNCHANGED <<bytes, ref, vers, tag, config>>

GetTag(h) ==
  /\ pc[h] = "get_tag"
  /\ IF tag = Null THEN Go(h, "insert_tag") /\ UNCHANGED req ELSE Ends(h)
  /\ Goes /\ UNCHANGED <<bytes, vcsVars, config>>

\* The primary key refuses a second row.
InsertTag(h) ==
  /\ pc[h] = "insert_tag"
  /\ tag' = IF tag = Null THEN req[h].snap ELSE tag
  /\ Ends(h)
  /\ Goes /\ UNCHANGED <<bytes, ref, vers, branch, config>>
-----------------------------------------------------------------------------
(* live_object_hashes: first the entities, then the references. *)

\* mark_blob_live: the chunks are known only if the local manifest parses.
Marked(b) == IF b \in local THEN ObjectsOf(b) ELSE {b}
BlobsIn(map) == {map[f] : f \in Files}
MarkedBy(map) == UNION {Marked(b) : b \in BlobsIn(map)}
Snapshots == {branch, tag} \ {Null}

ScanRows(h) ==
  /\ pc[h] \in {"scan_migrate", "scan_sweep"}
  /\ req' = [req EXCEPT ![h].todo = MarkedBy(ref)]
  /\ Go(h, IF pc[h] = "scan_migrate" THEN "refs_migrate" ELSE "refs_sweep")
  /\ Goes /\ UNCHANGED <<bytes, vcsVars, config>>

MarkedBranches == {branch} \ {Null}   \* mutant: references are objects, not roots
MarkedRefs == Snapshots \union UNION {MarkedBy(s) : s \in Snapshots \intersect local}

ScanRefsAlone(h) ==   \* mutant: the second scan replaces what the first one found
  /\ pc[h] \in {"refs_migrate", "refs_sweep"}
  /\ req' = [req EXCEPT ![h].todo = MarkedRefs]
  /\ Go(h, IF pc[h] = "refs_migrate" THEN "copy" ELSE "sweep")
  /\ Goes /\ UNCHANGED <<bytes, vcsVars, config>>

ScanRefs(h) ==
  /\ pc[h] \in {"refs_migrate", "refs_sweep"}
  /\ req' = [req EXCEPT ![h].todo = @ \union MarkedRefs]
  /\ Go(h, IF pc[h] = "refs_migrate" THEN "copy" ELSE "sweep")
  /\ Goes /\ UNCHANGED <<bytes, vcsVars, config>>
-----------------------------------------------------------------------------
(* mark_and_sweep deletes whatever it then meets on disk that is not live. *)

BeginSweep(h) ==
  /\ Begin(h, "scan_sweep", NoTask)
  /\ UNCHANGED <<bytes, vcsVars, config>>

SweepObject(h) ==
  /\ pc[h] = "sweep"
  /\ \E o \in Present \ req[h].todo :
       local' = local \ {o} /\ torn' = torn \ {o}
  /\ Goes /\ UNCHANGED <<stored, index, vcsVars, config, pc, req>>

EndSweep(h) ==
  /\ pc[h] = "sweep"
  /\ Ends(h)
  /\ Goes /\ UNCHANGED <<bytes, vcsVars, config>>
-----------------------------------------------------------------------------
(* Backends and migrations. *)

CreateBackend(r, default) ==
  /\ config[r].status = "none"
  /\ config' = [config EXCEPT ![r].status = "pending_approval", ![r].default = default]
  /\ Goes /\ UNCHANGED <<bytes, vcsVars, pc, req>>

\* No handler writes `active`; a client may, through PATCH /api/entity.
Activate(r) ==
  /\ config[r].status = "pending_approval"
  /\ config' = [config EXCEPT ![r].status = "active"]
  /\ Goes /\ UNCHANGED <<bytes, vcsVars, pc, req>>

SetMigration(r, status) == config' = [config EXCEPT ![r].migration = status]

BeginMigrate(h, r) ==
  /\ config[r].status = "active"
  /\ Begin(h, "scan_migrate", [NoTask EXCEPT !.r = r])
  /\ SetMigration(r, "running")
  /\ UNCHANGED <<bytes, vcsVars>>

\* read_object_with_fallback: the local store, then the active backends;
\* a truncated file fails the hash check.
Readable(o) ==
  o \in local \/ \E r \in Backends : config[r].status = "active" /\ o \in index[r] \intersect stored[r]

\* The next hash of migrate_objects: `has` reads the index.
CopyObject(h) ==
  /\ pc[h] = "copy"
  /\ \E o \in req[h].todo :
       LET skip == o \in index[req[h].r] IN
       /\ req' = [req EXCEPT ![h].todo = IF skip \/ ~Readable(o) THEN @ \ {o} ELSE @,
                             ![h].b = IF skip \/ ~Readable(o) THEN Null ELSE o,
                             ![h].failed = @ \/ (~skip /\ ~Readable(o))]
       /\ Go(h, IF skip \/ ~Readable(o) THEN "copy" ELSE "upload")
  /\ Goes /\ UNCHANGED <<bytes, vcsVars, config>>

Upload(h) ==
  /\ pc[h] = "upload"
  /\ stored' = [stored EXCEPT ![req[h].r] = @ \union {req[h].b}]
  /\ Go(h, "remember")
  /\ Goes /\ UNCHANGED <<local, torn, index, vcsVars, config, req>>

Remember(h) ==
  /\ pc[h] = "remember"
  /\ index' = [index EXCEPT ![req[h].r] = @ \union {req[h].b}]
  /\ req' = [req EXCEPT ![h].todo = @ \ {req[h].b}, ![h].b = Null]
  /\ Go(h, "copy")
  /\ Goes /\ UNCHANGED <<local, torn, stored, vcsVars, config>>

CopiedAll(h) ==
  /\ pc[h] = "copy" /\ req[h].todo = {}
  /\ Go(h, IF req[h].failed THEN "mark_failed" ELSE "flip_others")
  /\ Goes /\ UNCHANGED <<bytes, vcsVars, config, req>>

FlipOthersNot(h) ==   \* mutant: the old primary keeps its flag
  /\ pc[h] = "flip_others"
  /\ Go(h, "flip_target")
  /\ Goes /\ UNCHANGED <<bytes, vcsVars, config, req>>

FlipOthers(h) ==
  /\ pc[h] = "flip_others"
  /\ config' = [r \in Backends |-> IF r = req[h].r THEN config[r]
                                   ELSE [config[r] EXCEPT !.default = FALSE]]
  /\ Go(h, "flip_target")
  /\ Goes /\ UNCHANGED <<bytes, vcsVars, req>>

FlipTarget(h) ==
  /\ pc[h] = "flip_target"
  /\ config' = [config EXCEPT ![req[h].r].default = TRUE]
  /\ Go(h, "mark_done")
  /\ Goes /\ UNCHANGED <<bytes, vcsVars, req>>

MarkFinished(h) ==
  /\ \/ pc[h] = "mark_done" /\ SetMigration(req[h].r, "done")
     \/ pc[h] = "mark_failed" /\ SetMigration(req[h].r, "failed")
  /\ Ends(h)
  /\ Goes /\ UNCHANGED <<bytes, vcsVars>>

\* A provider or a statement fails: run_migration returns its error.
MigrationError(h) ==
  /\ pc[h] \in {"upload", "remember", "flip_others", "flip_target"} /\ faults < MaxFaults
  /\ faults' = faults + 1
  /\ Go(h, "mark_failed")
  /\ UNCHANGED <<bytes, vcsVars, config, req, started>>

Writing(h) == IF pc[h] = "store" THEN Writes(h) ELSE req[h].snap

\* A task dies; fs::write may leave the file it was writing truncated.
Die(h) ==
  /\ pc[h] # "idle" /\ faults < MaxFaults
  /\ faults' = faults + 1
  /\ \/ torn' = torn
     \/ /\ pc[h] \in {"store", "branch", "tag"} /\ Writing(h) \notin Present
        /\ torn' = torn \union {Writing(h)}
  /\ Ends(h)
  /\ UNCHANGED <<local, stored, index, vcsVars, config, started>>
-----------------------------------------------------------------------------
Step(h) ==
  \/ StoreObject(h) \/ ReadParent(h) \/ UpdateRef(h) \/ EmitVersion(h)
  \/ WriteSnapshot(h) \/ SetBranch(h) \/ GetTag(h) \/ InsertTag(h)
  \/ ScanRows(h) \/ ScanRefs(h) \/ SweepObject(h) \/ EndSweep(h)
  \/ CopyObject(h) \/ Upload(h) \/ Remember(h) \/ CopiedAll(h)
  \/ FlipOthers(h) \/ FlipTarget(h) \/ MarkFinished(h)

CodeStep ==
  \/ \E h \in Tasks :
       \/ Step(h) \/ MigrationError(h) \/ Die(h) \/ BeginSweep(h)
       \/ \E f \in Files, b \in Blobs : BeginCommit(h, f, b)
       \/ \E kind \in {"branch", "tag"} : BeginSnapshot(h, kind)
       \/ \E r \in Backends : BeginMigrate(h, r)
  \/ \E r \in Backends : Activate(r) \/ \E d \in BOOLEAN : CreateBackend(r, d)

(* History variables only watch. *)
Committing == {h \in Tasks : req[h].f # Null}
Snapping == {h \in Tasks : pc[h] \in {"branch", "tag", "set_branch", "get_tag", "insert_tag"}}
SnapshotObjects(s) == {s} \union UNION {ObjectsOf(b) : b \in BlobsIn(s)}
SnapshotUses(h) == SnapshotObjects(req[h].snap)
InUse == (UNION {ObjectsOf(req[h].b) : h \in Committing}) \union (UNION {SnapshotUses(h) : h \in Snapping})
Sweeping == \E h \in Tasks : pc[h] \in {"scan_sweep", "refs_sweep", "sweep"}
Flipping == {h \in Tasks : pc[h] = "flip_target"}
\* A migration to r looks for what is live: no other is under way, or was done meanwhile.
Afresh(r) ==
  /\ config[r].migration # "done"
  /\ \E h \in Tasks : /\ pc[h] = "scan_migrate" /\ pc'[h] = "refs_migrate"
                       /\ \A g \in Tasks \ {h} : pc'[g] # "idle" => req'[g].r # r
\* What a step makes an entity, a branch or a tag refer to that none did before.
ReferredAnew ==
  (UNION {ObjectsOf(b) : b \in BlobsIn(ref') \ BlobsIn(ref)})
    \union UNION {SnapshotObjects(s) : s \in Snapshots' \ Snapshots}

Watch ==
  /\ fresh' = [r \in Backends |-> IF Afresh(r) THEN {} ELSE fresh[r] \union ReferredAnew]
  /\ raced' = IF Sweeping' THEN raced \union InUse' ELSE raced
  /\ contested' = contested
       \union {f \in Files : \E g, h \in Tasks : g # h /\ req'[g].f = f /\ req'[h].f = f}
       \union {f \in Files : \E h \in Tasks : pc[h] = "emit" /\ req[h].f = f /\ pc'[h] = "idle" /\ vers' = vers}
  /\ unclear' =
       \/ unclear
       \/ \E g, h \in Flipping' : g # h
       \/ \E h \in Flipping : pc'[h] \in {"idle", "mark_failed"}
       \/ \E r, s \in Backends : r # s /\ config[r].status = "none" /\ config'[r].default
                                       /\ (config[s].default \/ Flipping # {})

Next == CodeStep /\ Watch
Spec == Init /\ [][Next]_vars
-----------------------------------------------------------------------------
Damaged(o) == o \in torn \/ o \in raced
\* A damaged snapshot does not tell which blobs it holds.
LiveBlobs == BlobsIn(ref) \union UNION {BlobsIn(s) : s \in {x \in Snapshots : ~Damaged(x)}}

Maps == [Files -> Blobs]
Chunks == UNION {ToSet(ChunksOf[b]) : b \in Blobs}
Objects == Blobs \union Chunks \union Maps
Settings == [status : {"none", "pending_approval", "active"}, default : BOOLEAN,
             migration : {"none", "running", "done", "failed"}]
TaskTypes == [f : Files \union {Null}, b : Objects \union {Null}, r : Backends \union {Null}, i : Nat,
              parent : Blobs \union {Null}, todo : SUBSET Objects, snap : Maps \union {<<>>},
              failed : BOOLEAN]

Pcs == {"idle", "store", "parent", "update", "emit", "branch", "tag", "set_branch", "get_tag", "insert_tag",
        "scan_sweep", "refs_sweep", "sweep", "scan_migrate", "refs_migrate", "copy", "upload", "remember",
        "flip_others", "flip_target", "mark_done", "mark_failed"}

\* The variables have the values the code can give them.
TypeOK ==
  /\ local \subseteq Objects /\ torn \subseteq Objects
  /\ ref \in Maps /\ {branch, tag} \subseteq Maps \union {Null}
  /\ vers \in [Files -> Seq([blob : Blobs, parent : Blobs \union {Null}])]
  /\ config \in [Backends -> Settings]
  /\ {stored, index} \subseteq [Backends -> SUBSET Objects]
  /\ req \in [Tasks -> TaskTypes] /\ pc \in [Tasks -> Pcs]
  /\ unclear \in BOOLEAN

\* gc.rs: what an entity, a branch or a tag refers to can be read, unless a sweep
\* ran while a commit or a snapshot used the same objects, or a dying write
\* truncated one of them.
LiveObjectsKept ==
  /\ \A s \in Snapshots : s \in local \/ Damaged(s)
  /\ \A b \in LiveBlobs :
       Damaged(b) \/ \A o \in ObjectsOf(b) : o \in local \/ Damaged(o)

\* An index row is never ahead of the bytes it points at.
IndexIsTruthful == \A r \in Backends : index[r] \subseteq stored[r]

\* routes/storage.rs: after a migration that is done, the target holds what gc.rs:72-99
\* calls live: the blobs of entities and of undamaged snapshots with all their chunks,
\* and the manifests of the snapshots that branches and tags point at.  The exceptions
\* are what got its reference only after the migration had looked for live objects,
\* and what a dying write or a sweep damaged, whose parts it cannot know.
PrimaryHoldsLive ==
  \A r \in Backends : config[r].migration = "done" =>
    /\ \A b \in LiveBlobs : b \in fresh[r] \/ Damaged(b) \/ ObjectsOf(b) \subseteq index[r]
    /\ \A s \in Snapshots : s \in fresh[r] \/ Damaged(s) \/ s \in index[r]

Defaults == {r \in Backends : config[r].default}

\* One backend is the primary, and one is after every finished migration, unless
\* two migrations flipped together, one died in its flip, or a second default was
\* drafted.
OnePrimary ==
  unclear \/ /\ \A r, s \in Defaults : r = s
             /\ (\E r \in Backends : config[r].migration = "done") => Defaults # {} \/ Flipping # {}

\* commit.rs: a file's versions form a chain that ends in its blob_ref, unless two
\* commits met on it or one died before its event.
VersionsChain ==
  \A f \in Files \ contested :
    /\ \A i \in DOMAIN vers[f] : vers[f][i].parent = IF i = 1 THEN Null ELSE vers[f][i - 1].blob
    /\ (\A h \in Committing : pc[h] # "emit") =>
         ref[f] = Last(vers[f]).blob

\* snapshot.rs: a tag never moves, whoever else sets it.
TagsNeverMove == [][tag # Null => tag' = tag]_vars
=============================================================================
