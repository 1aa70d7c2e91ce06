# Life OS: specifications of the server side

TLA+ modules for the parts of Life OS where several processes share one database
or one object store: the job queue and its drainers, the Actions engine,
approvals, the self-extension build pipeline, the daily brief, the job handlers,
proposals, the boot and its search index, storage and garbage collection, accounts
and integrations, memory, ingest, release pipelines and push, and the agent loop
with its configs. Every definition is
translated from the code; `PROJECT.json` maps each one to its lines.

    tlc -workers 2 -config JobQueue.cfg MCJobQueue     # a run
    tlapm JobSyncProofs.tla                            # the proofs

## 1. The system

Life OS keeps everything in one SQLite/libSQL database. Four kinds of process
write to it, with no coordination but the atomicity of a single SQL statement:

* **lifeos-api** (Rust, axum): HTTP handlers; each is a short sequence of
  separate statements, without a transaction around them.
* **the Worker** (TypeScript, Telegram bot): approves, denies, queues requests.
* **lifeos-drain** (Rust): a poll loop, run on the trusted Mac and on
  `lifeos-node` containers. One turn of the loop is: claim and run a job, claim
  and build a module request (trusted drainers only), reap stuck jobs, run the
  Actions engine, the consolidation trigger, the brief trigger, the push
  fan-out, the retention prune, sleep.
* **server/** (Node): agent turns and builds, started by a drainer as a child
  process per job and writing through the API and through git.

SQLite serialises statements, so throughout these modules *one statement is one
step* and the interleaving of statements is the concurrency of the system.
Processes may die between any two of them. Blob stores, providers and vaults are
called between statements; a call is a step of its own.

### Inventory

| Component | State | Operations | What is hard | What makes it correct | Module |
|---|---|---|---|---|---|
| Job queue (`lifeos-drain`, `job.rs`) | `jobs` rows | enqueue, claim, complete, fail, reap, prune | leases without heartbeat, stalled workers, crashes, lost writes | bounded retries, no stranded row, one valid outcome, every job ends | `JobsTable`, `JobQueue`, `JobLease` |
| Actions engine (`lifeos-actions`) | `events`, cursor row, `jobs` | scan, fire, audit, move cursor | ids from several clocks, aborted scans, two scanners | at-least-once firing | `EventScan` |
| Approvals (`approval.rs`, Worker, drain) | `entities.status`, events, jobs | approve, deny, execute | two surfaces racing, handlers dying half way, untrusted nodes | one decision, only approved work runs, every approval settles | `Approvals` |
| Build pipeline and module requests (`server/build`) | `pipeline_run` row, gates, git main, worktrees, request row | claim a request, plan, walk, validate, gate, commit, resume | dying processes, two walks in one checkout, lost row writes | no gated commit without approval, dependencies built first, honest reports | `BuildPipeline` |
| Daily brief (`lifeos-drain`) | `brief.sent` events, brief entities, jobs | due check, debounce, insert, run | check-then-insert by several drainers, slow runs, days | few briefs a day, none missed | `DailyBrief` |
| Job handlers, AI lanes (`lifeos-drain`, `lifeos-agents`) | machines, temp files, replay cache | dispatch by kind, decode, transcribe, caption, complete | machines fitted differently, lost leases, captioners of one image, cycles that ask at once | done means done, cycles that ask the same use the cached response | `Dispatch` |
| Database, search index (`db.rs`, `entity.rs`) | schema, seed rows, `entities_idx` | boot, migrate, seed, rebuild, write, index | two processes on one file, boots that die, writers without an index row | what is served is migrated, seeded and searchable | `Database` |
| Proposals, reconcile | entities, proposal rows, events | create, merge, reject, update, replay | a write between a check and its application; a merge that dies half way | all-or-nothing merge, drift is seen, one decision, rows follow the log | `Proposals` |
| Versions, storage, gc (`lifeos-vcs`, `storage.rs`) | objects, index, primary pointer, blob refs, version events, refs | commit, branch, tag, migrate, flip, sweep | commits during a scan, statements between which a handler dies | no live object lost, one primary, versions form a chain | `Storage` |
| Storage backends (`lifeos-api/src/storage.rs`, `backend*.rs`, `encrypted.rs`, `crypto.rs`) | files at providers, index, envelope key | put, get with fallback, build from a config | uploads that stop half way, two first keys, changed settings, corrupt copies | what was put can be read, no read takes other bytes | `Backends` |
| Accounts (`login.rs`, `register.rs`, `membership.rs`) | sessions, members, invites | log in, refresh, revoke, roles, invites | concurrent rotation, count-then-write | one live successor, an invite lets one user in, owners stay | `Accounts` |
| Integrations (`nango.rs`, `notion.rs`, `gmail.rs`, ...) | connection rows, mirrored entities, drafts | connect, sync, disconnect, draft, webhook | upsert and event in two steps, syncs that overlap, disconnect half way | the mirror is what the provider listed | `Sources` |
| Memory (`lifeos-memory`) | nodes, cursors, summaries, vectors, tiered blobs | project, rebuild, sleep, retain, tier, restore | two handlers on one cursor, crashes half way | nodes are the fold of the log, events consolidated once | `Memory` |
| Recall and context (`lifeos-memory`) | scores, the community map | search, score, restore, compile a context, map communities | tiers that move under an answer, cycles that overlap, truncated shares | an answer is what the log says was true, a completed map is whole, a context is the greedy cut | `Recall`, `Communities`, `WorkingSet` |
| Ingest (`lifeos-ingest`) | version rows, jobs, segments, transcripts | commit, enqueue, extract, store, announce | re-runs and overlapping runs of one job | what is announced can be found | `Ingest` |
| Release pipelines (`lifeos-pipelines`) | run rows, approval rows, evaluation cache | stages, evaluation gate, human gate, retry | a run that dies between row, event and status | a run that waits is announced | `Pipelines`, `Release` |
| Push (`push.rs`) | cursor, subscriptions | scan, deliver, prune | as the Actions engine | nothing passed over unsent | `PushNotify`, `EventLog` |
| Configs (`configs.rs`) | config rows, active pointer | create, shadow, promote, roll back | sequences of rollbacks, overlapping calls | the pointer names what a human promoted | `Configs` |
| Agent loop (`server/agent`) | the turn, its ledger, budgets, the completion cache | gate, plan, tool calls, recover, refine, record | overlapping tool calls, answers lost after the effect, retries that feed one another | bounded recovery, turns end | `AgentTurn`, `AgentManual` |

The parts without a module are listed in section 6 with the reason.

`PATCH /api/entity` may write any status on any row. The modules describe the
protocol its clients follow and leave that route out.

## 2. The modules

### JobsTable, JobQueue, JobLease

`JobsTable` has one operator per SQL statement on `jobs`: `Inserted`,
`ClaimChoices` and `Claimed` (the SELECT and the UPDATE of `claim_job`),
`Holds` and `Finalised` (the WHERE clause of `complete_job` and `fail_job`),
`Stuck` and `Reaped`, `Prunable` and `Pruned`. Status `new` is an id not yet
inserted, `gone` a pruned row.

`JobQueue` runs drainers over it. `pc` is the place in the loop of `main.rs`,
`held` the job whose handler runs, `now` the clock that claims and the reaper
read. A handler takes any time, so its lease may run out under it. `Crash` and
`LoseStatusWrite` (the status write fails and `run_job` only logs it) happen up
to `FaultHorizon`. `since` and `starts` are history. `run_after` is left out: no
statement writes it.

`JobLease` is the abstract specification: a task is leased to one owner at a
time, at most `MaxTries` times; only the owner's outcome counts; a resolved task
stays resolved. `JobQueue` implements it through the mapping at its end
(`LeaseSpec`), checked by TLC and proved for all parameters. `Approvals` and
`BuildPipeline` then use `JobLease` for their jobs instead of clock and rows;
that is what the refinement theorem is for. `DailyBrief` depends on the clock
itself and uses `JobsTable`.

### EventScan

One workspace of `process_workspace_events`. A writer makes an id (`MintId`) and
inserts the row later (`InsertEvent`); ids grow within a process and are
unordered between processes. A scanner reads the cursor, selects a batch, treats
the rows one by one (`PassRow`, or `FireJob` then `EmitFired`) and upserts the
cursor without comparing it. `Abort` is a failing statement or a crash. Rules are
abstracted to *matches* or *does not*. `late` is history: ids inserted where some
scan had already passed.

### Approvals

A handler is a `pc` and its request: `Load` (row pending, typed confirmation
given), for the Worker's approve a second `Reload`, `Cas`, `Emit`, `Enqueue`; it
may `Abort` between any two. The WHERE clause of the update differs: the API
accepts either pending status, the Worker the one it read (`CasMatches`). A
drainer claims the job and either resumes a build (`StartResume`, `EndResume`;
trusted drainers and build gates only) or classifies it (`NoResume`), then writes
the outcome under its lease. `launched`, `shrugs` and `resumed` are history: the builds
started for an entity, the times a drainer outside `Trusted` let its gate be, and the
builds that succeeded.

### BuildPipeline

A builder process walks the plan. `StartRun` is `claim_next_module_request`,
`PlanRun` the rejected or accepted plan and the INSERT of the run's row. Then, per
node: `KeepOrSkip`, `EnterNode` (the row is overwritten with this walk's records),
`CreateWorktree`, `AgentAndValidate` (a free verdict), `Gate`, `Commit` or
`CommitThrows`, `Land`; at the end `FinalizeRun`, and `Exit` which reports the job
and, for a first walk, answers the requester. `Resolve` is a human, `StartResume`
a claimed job, `Reap` the reaper.

Main and worktrees are one checkout. Two walks in it are real: a drainer that is
restarted leaves its Node child running, since `Command::output` does not kill it,
and the lease of a build may expire while it goes on.

### DailyBrief

Specified by `BriefSpec`. `Claim` to `Report` is a run of `run_daily_brief` with the `now` it
was given (`stamp`); `CheckDue`, `Debounce` and `InsertJob` are the three statements of the
trigger; `brief_due` is the code's function with the length of a day and of an
hour as parameters. `Fault` covers a failed agent turn, a failed write and a dead
process. `overruns` counts leases that ran out under a living drainer. The zone of a drainer is
read once, when it starts; `BriefsPerDay` is about drainers that have one zone.

### Proposals

A handler is a `pc` and its request over one connection. Create reads each target's row
and its log (`SnapRow`, `SnapBase`), inserts the row and the event. Merge has the two
phases of `merge_proposal`: `CheckTarget` for every target against the snapshot, then
`ReadCause`, and `ApplyRow`/`ApplyEmit` per target, at last `PersistDecision` and
`EmitDecision`, which reject shares. `PutUpdate`/`PutEmit` and
`ReconcileReplay`/`ReconcileWrite` are the writers a merge meets. An attrs blob is the
set of writes it shows. The history variables record which writers met and which died;
the properties excuse exactly those overlaps, so a run also shows that nothing else
breaks them. The target list may name one entity twice, as the request may.

### Dispatch

One job from `ClaimItem` to `CloseJob` on a machine that has some of the agent CLIs, an API
key, whisper, ffmpeg (`fitted`; `Detected`, `AiLane`). `Begin` routes by kind: a voice note
(`DecodeAudio`, `Transcribe`, `RecordHeard`, `RunTurn`, `NotifyReply`), an image (`WriteImage`,
`AskCli`, `ClearImage`, over the one temp file `picture`), a pipeline whose end is told
(`TellAdmin`), a completion of a sleep cycle (`LookupReplay`, `Complete`, `StoreReplay`), a
stub, or an unknown kind. The leases are `JobLease`. `effects` is history: what the runs of a
job did; `served` what the cycles of each machine went on with: the cached response, or the one
the machine got itself, which it keeps even where its INSERT OR IGNORE loses (`StoreReplay`);
`rivals` the machines that had already missed the cache when its row was written.

### Database

Processes of lifeos-api boot over one file: `LookForColumn`/`AddColumn`, the seed
(`LookForWorkspace` .. `InsertMembership`), `WipeIndex`, `FillIndex`, and only then `Bind`, so a
process that finds the port taken has done all that under the one that serves. `WriteRow`,
`EmitRow`, `IndexEntity` are a request; `WriteUnindexed` stands for the drainers and the
Worker, which write entities and not the index. `main` and `idx` count the versions of a row.

### Storage

`StoreObject` .. `EmitVersion` are a commit (chunks, then manifest, then `blob_ref`, then
the version event); `WriteSnapshot`, `SetBranch`, `InsertTag` the branches and tags.
`ScanRows`, `ScanRefs` compute the live set, `SweepObject` deletes one object that is not
in it; `CopyObject`, `Upload`, `Remember` copy one object to a backend and index it;
`FlipOthers`, `FlipTarget`, `MarkFinished` end a migration. `Die` may leave the file being
written truncated (`torn`), a chunk, a manifest or the manifest of a snapshot; `MigrationError` is a failing provider or statement. `raced`
is history: objects that a commit or a snapshot used while a sweep ran; `fresh` those that an entity,
a branch or a tag came to refer to after the migration to that backend had looked for what is live. What hangs on a truncated object is excused
(`Damaged`): the code cannot read it any more, whoever deletes it.

### Backends

The bytes behind a hash, one provider request or statement at a time. A caller (`TierOut`,
`Migrate`, `ReadBlob`) builds its backends one after the other from the configurations it
read (`BackendFromConfig`; `SelectKey`, `StoreKey`, `RereadKey` when one is sealed), then
goes through its objects: `HasObject`, `GetObject` with the fallback from backend to backend,
`PutDirect` for a directory or a bucket, `IndexedLocator` .. `RecordLocation` for a provider.
Bytes name the object they are of and the key that sealed them; a sealed copy read as it is,
or a Drive file whose media never came, is `Junk`. `due` and `missed` are history: where a get
would have found an object when the request began, and what a read gave up on although it was there. `Tamper`, `Unlink` and `SwitchEncryption`
are the outside. It shares no action with `Storage`, which abstracts these providers to a put
that may fail and has the live set that this module takes for granted.

### Accounts, Sources

`Accounts` has one action per statement of login, refresh, logout, registration,
membership and invites; a session names its parent, so `OneSuccessor` is about a tree.
`Lapse` lets tokens and invites run out. Legacy users are those who had the workspace
before it had member rows.

`Sources` has the six sync handlers: a listing leaves items, `NextItem` takes one, and its
statements and provider calls (`GmailSync` .. `ParseEmails`) are done one at a time. It has
the Nango vault (`vault`), the connection rows, and every outward write as the draft it
inserts. `Upsert` is `ON CONFLICT DO NOTHING` and tells whether it inserted; only then
`Emit`. `Stop` ends a handler anywhere. The providers, Nango and GOWA are external: what
they list is chosen at the start and may grow.

### Memory, Ingest

`Memory`: `Start` begins a handler of any kind, which first projects (`ReadProjected`,
`Fetch`, `Apply` per event, `WriteProjected`), then sleeps (`ReadConsolidated`, `ScanSettled`,
`EmitOutput`, `WriteConsolidated`), rebuilds (`Wipe`), tiers (`FindCold`, `PutBundle`,
`Stub`) or restores. Events carry the clock of their writer; the projector reads in
`(ts, id)` order, so an event may arrive behind the cursor (`Late`). A batch is `InOrder` of the
events `Past` a key; `Segmented` cuts what is settled into episodes where the gap is too long.

`Ingest`: the two commits that make a version (one stores its content, the other hashes
it), the job, and `FetchEntity`, `Extract`, `InsertSegment`, `StoreTranscript`,
`SetTranscriptRef`, `Report` for each kind of file; a drainer may die, a lease may run out
under a slow run (`ReapIngest`), and the job then runs from its beginning.

### Recall, Communities, WorkingSet

`Recall` is one question over memories about one entity: `Search` (the four lanes, their
ranks and the fusion), `Expand` along the edges, `Score`, `RankAll`, `Strengthen`; then
`ReadBackends` and, for the cold among the chosen, `Find` and `RestoreOne` on each backend in
turn, and `Reread`; a backend may fail to give a bundle it has. `logged` is what the log says of
each fact: when it began to hold and which one superseded it. Between the steps of a recall facts are
learned (`Learn`), superseded, and tiered, the primary moves, and a rebuild wipes the rows (`WipeRows`)
and folds the log again, event by event (`FoldAgain`, `Superseded`), so a row may be missing, or hold
although the log has an end for it. `Communities` is the last phase of a sleep cycle: label propagation as a
recursive function of the rounds (`Rounds`, at most `MAX_ITERATIONS`, 10 in the code; `Stable` says of a graph that the
labels are at rest by then), then `DeleteAll` and one `InsertCommunity` per row, by cycles that
may overlap or stop half way. `WorkingSet` is the compiler of a context (`Compile`): shares of a
budget, whole texts that fit (`Filled`, a recursive function of the texts looked at), the last
turns from the newest back.

### EventLog, Pipelines, PushNotify, Release

`EventLog` is the events table as the push scan sees it: an id is taken before the row is
inserted. `Pipelines` is one run inside a job: `RunStage`, `Judge` with `SetCached`,
`InsertApproval`, `EmitStage`, `SetRunStatus`; `AbandonJob` is a failing statement or a
dead drainer. `PushNotify` is the tick of two drainers: the cursor and the
batch are read in two statements, then `NextEvent`, `Send` per subscription with pruning,
`SetCursor`. `Release` puts both over one log.

### AgentTurn, Configs, AgentManual

`AgentTurn` is a turn from `Start` to `PersistTurn`; `turn` is its ctx, `call` the tool
calls in flight in each of its lanes. A request has one of five results: `ok`, `malformed` (400 or
422, which alone is charged as a repair of arguments), `client` (any other 4xx), `server`, `throw`; it may
have been applied for all but the 4xx. `done`, `planRow` and part of `cache` are the effects of a turn:
its actions keep them, no property of a run is about them. `overdraft` keeps what the
recovery budget owes below zero. What the model asks for, and what its grades say, is a
free choice. `Configs` is one kind of config with the statements of create, shadow, promote
and rollback by overlapping callers; `AgentManual` composes the two: a turn reads the
active manual when it assembles its context.

### MC modules

Each `MC` module gives values to function-valued constants and names the symmetry of a
run. Five of them put parts that share no table into one run and let `focus` choose
in the initial state which of them moves: `MCAccounts` (accounts, sources), `MCProposals`
(proposals, database), `MCRelease` (release, dispatch), `MCMemory`
(memory, ingest, recall, communities, contexts) and `MCAgent` (a whole turn while nobody calls; what earlier turns left,
up to the context; the calls of humans around the read of the manual).

## 3. The runs

| Run | Instance | Properties |
|---|---|---|
| `queue` | 2 drainers, 2 jobs, 2 attempts, TTL 1 s, clock 4 s, faults up to 2 s | `OverlapOnlyAfterTTL`, `LeaseSpec`, `EveryJobEnds` |
| `scan` | 2 scanners, 2 writers, ids 1..3, batches of 2, 1 aborted scan | `PassedImpliesFired`, `MatchEventuallyFires` |
| `approvals` | 1 API and 1 Worker handler, a typed-confirm gate and a draft, 2 trusted drainers and one that is not, 1 dead handler, 1 dead drainer | `OneDecision`, `OnlyApprovedRuns`, `GateRunsAccounted`, `ApprovedSettles` |
| `build_faults` | 2 builders, a chain with one gate, 1 death, 1 lost write | `GatedNeedsApproval`, `HonestRow`, `WalksEnd` |
| `brief` | 2 drainers, two days, TTL 0, 1 fault | `BriefsPerDay`, `BriefsCatchUp` |
| `proposals` | proposals: 2 handlers, 4 requests of any kind, one proposal with 2 targets, 1 dead handler; database: 2 processes, 2 requests, 2 rows of 2 versions, 2 deaths, 1 failed statement, a file of any age | `MergesAreWhole`, `DecisionHolds`, `RowFollowsLog`, `ServedIsWhole` |
| `storage` | 3 tasks of any kind, 2 at a time, one file with 2 versions that share a chunk, 2 backends, 1 fault | `LiveObjectsKept`, `PrimaryHoldsLive`, `OnePrimary`, `VersionsChain` |
| `backends` | 2 requests, a blob of a manifest and a chunk, a store of any kind, a plain bucket or a second directory, 1 failure or outside change | `StoredIsReadable`, `ReadsFind` |
| `accounts` | 2 handlers; accounts: 4 requests, a legacy user and a new one, 1 dead handler; sources: nine providers, 2 items, 2 connection ids, 2 rows, 4 handlers started, 1 stopped | `SpentOnce`, `AccessHolds`, `MirrorIsExact` |
| `memory` | memory: 2 handlers, 2 requests, 2 domain events, clock 2, 1 crash; ingest: six kinds of media, 2 versions, 1 job, 2 drainers, 2 attempts, 2 deaths; recall: 1 question, 2 memories, 2 backends, 2 changes beside moves of the primary; communities: every graph of 4 vertices, 2 cycles; contexts: all lists of up to 5 texts of two lengths | `ReadModelIsFold`, `ConsolidatedOnce`, `DoneIsSearchable`, `RecallHolds`, `MapIsWhole`, `ContextFits` |
| `release` | release: an evaluation and a human gate, 2 attempts, 2 drainers that push, 1 subscription, ids 1..3; dispatch: 2 machines, equal or not, 2 jobs of each kind, 2 attempts, 1 death, 1 failed statement | `WaitingIsAnnounced`, `PassedMeansTried`, `DoneIsEarned`, `StraysAreRivals` |
| `agent` | 1 turn, 2 lanes, 2 steps, recovery budget 2, breaker 2; 2 callers, 2 configs, 3 calls | `ManualWasPromoted`, `RecoveryBounded`, `TurnsEnd` |

All of them pass. The comment before each property says which behaviour of the code it is
about and what it excuses.

### Bounds

* **Two of each actor.** (In `approvals` a third drainer is one outside `Trusted`.) The races are between two: owner and successor of a
  lease, API and Worker, two walks, two handlers on one row. Two attempts are enough
  to reach the last one.
* **Clock.** In `queue` a job can be claimed at 0, reaped at 2 (one second past
  the TTL), claimed and lost again, and reaped for good at 4, where the reaper
  gives up. In `brief` the TTL is zero whole seconds, so any tick ends a lease, and
  the two days have one hour before and one hour after the brief hour. `MaxJobs`
  there is never used up, so it does not hold a drainer back. In `memory` an event
  settles after one second and an episode closes at once.
* **Faults.** In `queue` they stop at `FaultHorizon` so that the clock, which is bounded,
  can still run past the TTL of the last of them. In the other runs one death (two in
  ingests and boots) may fall anywhere: more of them only repeat what one leaves behind.
* **Requests.** Three or four in a row let two of them overlap and the others prepare or
  follow: a merge between two updates, a sweep during a commit before a migration, a
  removal of an owner after an invite was accepted.
* **One priority** in `queue`: two priorities passed with a shorter clock and
  multiply the states by four. `ClaimChoices` keeps the whole ORDER BY.
* **Ids 1..3, batches of 2**: one more event than a batch holds, so a scan needs
  two ticks, and an id may arrive between two others. Behaviours that need a fourth id
  are covered by the proof (section 4), which holds for any number.
* **Gates**: `MaxGates` caps the gate rows one run may create; one node is gated.
* **Backends**: the second store is a bucket or a directory without encryption: one store of every
  kind meets all the code, and two directories share their files; two requests race for the first key and for one index row.
* **Symmetry** is used in `proposals`, `storage`, `backends`, `accounts`, `memory` and `release`, whose properties
  are invariants; handlers, drainers and like objects are interchangeable there.

### Fairness

Weak fairness, on whole processes: the poll loop of a drainer, a handler that did
not die, a walk that did not die, the clock, and in `agent` a model call or request,
which ends or throws in the end. A handler or agent that hangs for ever is excluded; the
code sets no timeout of its own on most of them, and such a drainer would indeed stop
everything it holds. Nothing forces a client to enqueue, a human to decide or a process to
die. In `approvals` and `build_faults` the reaper is fair for leases nobody works on any more.

Deadlock checking is off where the system may come to rest: all jobs done and no
clock left, everything resolved, all requests spent.

### Mutants

`PROJECT.json` names for every property of a run a change to the code that
breaks it: the operators commented `mutant:` beside the definitions they change. No
specification uses them.

`TypeOK` is stated in each module and proved where a section below says so; the runs leave
it out.

## 4. The proofs

Each is about the module's specification for every value of the constants.

`JobSyncProofs`, of `JobQueue`. Assumptions: the ASSUMEs of `JobsTable` and `JobQueue` (at least one
attempt, `Null` outside the other sets, typed parameters), and, where stated,
`DistinctWorkers`.

* `TypeCorrect`: `Spec => []TypeOK`.
* `AttemptsAreBounded`: a handler is started at most `max_attempts` times. `starts` is
  history, so the invariant needs that `starts[j]` equals the row's `attempts`, and
  that a queued row is below the cap, which is what claim and reaper agree on.
* `NothingStrands`: a queued row can be claimed and a running row has a claim time.
* `HandlersOverlapLate`: two handlers of one job are more than a TTL apart. This is not
  inductive alone; `IInv` is: `TypeOK`, `AttemptInv` (the facts of the last two items),
  `LeaseInv` and the property itself. `LeaseInv` orders the claims of one job in time: a running row's claim time
  is its holder's `since`, and any other drainer still running the job began more than
  a TTL before it or before the reap that freed the row.
* `StaleOutcomesNeverLand`: an action property, from the same invariant: a
  running row names the drainer with the newest claim, and the lease guard compares it.
* `QueueImplementsLease`: `Spec => LeaseSpec`. Initial states map to initial states; a
  claim is a `Grant`, an outcome a `Resolve` or a stutter, a reap a `Revoke` of all
  stuck jobs at once, a prune a `Purge`, everything else a stutter.

The last three need distinct worker names: with two drainers of one name, the lease
guard cannot tell them apart and a stale outcome does land. `main.rs` builds the name
from the node id and the second of the start.

`JobSyncProofs`, of `Sources`: `MirrorStaysExact`, for any provider, any items and any number of
syncs at once, each of which may stop after any statement. `SourcesInv` (checked by TLC on the
bounds of `accounts` before it was proved) has a part per sync and one about the events.
`HandlerInv` looks at the statements the sync still has: an entity is put before it is told of,
and an item it listed is left, or what it mirrors of it is there or among the statements, the edge
of a note included. `ToldInv`: a sync *owes* an event when it inserted the entity and is past its
upsert; no two syncs owe one, and an entity that was told of is owed by nobody. The upsert makes the
two exclusive, because it says whether it inserted. The one event of a page and its note is about two
entities, so notes are left out of that part, and two syncs may indeed tell of one.

`EngineProofs`: of `EventScan`, `TypeCorrect` and `PassedEventsFired`. The cursor says nothing of the scans in
progress, so `IInv` says of each of them that what it has behind it is done up to the rows it
still holds (`ScanInv`): the cursor it read, the last row it passed, and the gaps of its batch,
of which `SelectHasNoGaps` shows there are none. A first attempt failed, and rightly: `late`
counted the ids below the stored cursor, but two scanners write the cursor without comparing
it, so it may move back under a scan that has read the higher one. The history now counts the
cursor any scan has read. Three ids cannot tell the difference, four can.

Of `BuildPipeline` it has `BuildTypeCorrect`, `GatedCommitsApproved` and `RowIsHonest`, for any plan,
gates, builders, deaths and lost writes. `BuildIInv` adds to the properties that a job exists
only for an approved gate (`GatesInv`), that a builder holds only such a job, and that whatever
a walk counts as completed, in its own records or in the row it was seeded from, is on main
(`BuilderInv`). A gated node is committed only by the resume of its own gate, hence after its
approval; every report comes from the records of a walk, and every row that seeds one was
written from such records, so honesty goes round: row, walk, row. `Moved` is the normal form
of a step of one builder, and `MovedInv` says once that the others' walks stay sound.

Of `Memory` it has `EventsConsolidatedOnce` and `NodesAreTheFold`, for any handlers and any log. `BaseInv` says
what a handler has at each place of its work. `CycleInv`: whatever the cursor, or a cycle on its way to it,
has passed is in a summary, written or still to be emitted (`Covered`); and in one only (`Once`), as long as
no two cycles overlapped. It rests on `Segmented`: the episodes are disjoint and have every event of
the scan. `ReadInv`: the nodes have what the log says up to where the projection is (`Reach`) and
nothing wrong beyond (`Sound`), the batch is the log from there on (`Batched`), and nothing beyond is
there at all (`Tight`), unless a projection died half way; a projection that repeats such a half
finds each event applied or not, and folds it again without effect. Where nobody projects, `Sound` and `Tight`
at the cursor are the property. `disturbed` excuses what the code does not order: projections that overlap,
a rebuild that died between wipe and reset, an event that lands behind the cursor. TLC checked `CycleInv`
and `ReadInv` on the instance of the run before they were proved.

`ApprovalProofs`: `TypeCorrect`, `DecidedOnce`, `ApprovedOnlyRuns`, and `GateRunsAreAccounted`, for
any drainers, trusted or not. A handler past its compare-and-swap speaks for its entity and
has its event and job still to make (`HandlerInv`); no two are past it for one entity
(`OneDecider`). A job then belongs to one entity, which is approved (`JobInv`, `DrainerInv`), and
each grant of it is held, was spent on one build, was let be by a drainer outside `Trusted`, or was
lost (`CountInv`): that bounds the builds of a gate by the grants of its job. `ReasonInv` says why a
drainer may report what it is about to report, and so why a job is done or failed, also when the
report comes late.

It also has the theorems about what is read from memory, which are about data as much as about
steps, and the lemmas they share (those on lines are repeated where `Memory` needs them): a finite set under a strict total order is a line, its members
listed in order are found by their rank; a set of naturals has a least member (`LeastOf`), hence
induction over the naturals for a *given* set (`Induct`), from the well-founded order of `Nat`; and a
recursive function is what its recursion says.

* `RecallAnswers`, of `Recall`. `RowsHold`: a row has the time of its event, and a superseded one ends
  when its successor begins, however often the log is folded again. `AskHolds` has a part per
  clause: while nothing moved, the rows are the log's until all is looked at, and of what was looked at
  exactly that is scored which by the log held (`Judged`); and the first cold memory is on a backend
  still to be tried, or on one that failed to give it, or has come back (`Returns`).
* `CommunitiesWhole`, of `Communities`, for every set of vertices and every graph that is `Stable`.
  Propagation of labels gives a partition (a vertex has one label), the vertices of one label are a row,
  and a lone cycle that is inserting has in the table what it has not on its list (`NetworkInv`).
  That a graph is at rest after those rounds is not true of all graphs and is a hypothesis on the graph
  (`NetworkSpec`); TLC evaluates that all graphs of four vertices are (`AllSettle`).
* `ContextsFit`, of `WorkingSet`, for every list of texts, any lengths and any budget. `CutTo` and
  `Placed` are the invariant of the loop of `fill_section`: what is kept so far fits, and each
  text that was left out would not have, beside the kept ones before it. The rules a section is filled
  from are the first ones of all active rules (`PromptIs`), so a place in the one list is the
  same in the other (`SectionFits`); `PromptedIs` counts them. The proof of `RecallHolds` found two cases of `Search` that overlap
  (a query of no relevance and one of several hops); a nested IF has the order of the code.

`ReleaseProofs`, over one log: `WaitingRunsAreAnnounced` from `StepInv`, what the statement
a job has reached knows of its run; `PassedGatesWereTried` from `ScanInv` and `CursorInv`: an
event that is still owed to somebody is in a batch, beyond all of it, or being sent, and the
cursor is below all of them. A gate that lands behind a visible event owes no push (`Insert`):
that is the hazard of finding 1 again. And of `Dispatch`: `DoneJobsAreEarned` (`MachineInv`: at each place of a handler, what its run has done)
and `StraysWereRivals`.

`ProposalsProofs`: `TypeCorrect`, `MergesWhole`, `DecisionsHold`, `RowsFollowLog`, from one
`ProposalsInv`. `HandlerInv` keeps that what a handler has read stays behind the logs, which only
grow: a merge that found no drift at the first targets is still told of one by the versions it
will compare (`AheadOf`), or has met the writer. `WholeInv` is the merge, all or none or under
way; `DecisionInv` that the sole holder of a proposal knows its status; `RowInv` that the sole
writer of a row knows how row and log differ. The overlaps a property excuses are exactly the
hypotheses of the last two. `ServedWhole` is about `Database`: a boot past a statement has what the
statement makes (`BootInv`), who seeded the user seeds the membership or died (`MemberInv`), and
the index is current but where somebody has still to say so (`IndexInv`).

`AgentProofs`: `TypeCorrect` and `RecoveryWithinBounds`. `Balanced` is the inductive form:
when the budget is gone, what is overdrawn plus the retries still in their backoff plus a
replan under way is at most the number of lanes. `ManualsWerePromoted`, of turns and human
calls together: whatever a handler is about to activate, or to announce, was promoted
(`HandlerKnows`), and no step takes a promotion back (`PromotionsStay`), so neither a rollback nor
a promotion that overlaps it makes the pointer name a config no human promoted.

`AgentProofs`, of `DailyBrief`: `BriefsBounded`, for drainers of one zone. A brief costs a job that
no run has ended (`Free`) and a drainer; the free jobs and the drainers that are away from their
claim are at most the drainers and what has gone wrong so far (`Bounded`). On a day that is not over
this bound holds together with the briefs sent, since a drainer that finds one sent inserts nothing;
once the day is over only the runs that began on it (`RunsOn`) can still log one (`DayBounded`). With two
zones the drainers do not agree which day it is, and the bound is false (section 5, Brief).

`ApiProofs`, of `Accounts`: `TypeCorrect`, `SecretsSpentOnce` (from `TokensRotateOnce`, `InvitesSpentOnce`) and
`AccessIsKept` (from `LegacyAccessKept`, `AnOwnerRemains`). A handler's request is tied to the row
it works on (`Requested`); then `SessionInv` says that a session with a successor, or with a
handler about to make one, is revoked and that there is one of either; `InviteInv` the same of an
accepted invite and its member; `LegacyInv` that no member row precedes the legacy ones;
`OwnerInv` that the one request which takes an owner away has counted two, unless two of them met.

And of `Backends`: `AcknowledgedIsReadable`, from `BackendsInv`. What a request
was built with is the key the workspace has, or none, as its store's setting says (`Connected`),
since a key once stored never changes; a file an upload works on has a locator no index row names
and no other upload has (`PlaceInv`, `PlacesApart`); so an index row is written only when the
object's bytes, under that key, are behind it (`StoreInv`). The directories share one root: what is
there is nobody's, and is opened by whichever of them has encryption (`LocalInv`). That was the step
which first failed, and rightly: of two local-fs stores, one sealed, switching the encryption of
the one makes unreadable what the other acknowledged. The run had only one such store. The property
now excuses it, the run has both.

`StorageProofs`: `TypeCorrect`, `IndexTruthful` (an index row is never ahead of the bytes:
`UploadInv` says a handler about to index has uploaded), `TagsStay` (an action property) and

* `PrimaryIsOne`, from `PrimaryInv`: between `FlipOthers` and `FlipTarget` nothing is the
  default and the migration in between is the only one, or the excuse holds;
* `VersionsAreChained`, from `ChainInv`: the one commit on a file knows how `blob_ref` and the
  events differ; it read the last version as its parent, and its own blob is the `blob_ref`
  whose event is still missing;
* `ReferencesAreKept`, from `KeepInv`: a sweep spares what was referred to when it looked
  (`TaskKeeps`), and all that commits and snapshots use while it runs is raced, so
  whatever is referred to while it deletes is in one or the other;
* `TargetHoldsLive`, from `MoveInv`: of every live blob, and every snapshot of a branch or tag, that
  was referred to when a migration looked, it has what it has not copied on its list, or has failed;
* `ReportsAreFound`, about `Ingest`, from `IngestInv`: of what a run found, each piece is a segment
  or still on its list, and segments and reports are never taken back, so a run that reports has
  all of it behind it, even if its lease is long another's.

The sweep, too, was first unprovable for a reason: a death during a snapshot's write may leave its
manifest truncated, reads of it then fail, and neither the live set nor a copy sees the
blobs behind it. The model now has that death, and the properties excuse what hangs on it.

### What the proofs assume

Only the ASSUMEs of the modules, which TLC evaluates in each run: bounds are natural numbers;
the values for nothing (`Null`, `None`, `NoMachine`, `Unset`, row 0) are not among the
identifiers they stand beside; function-valued parameters have the domains they are used on
(`PipelineAssumption`, `LogAssumption`, `PushAssumption`, `DispatchAssumption`, `DatabaseAssumption`,
`ProposalsAssumption`, `StorageAssumption`, `IngestAssumption`, `ManualAssumption`,
`MemoryAssumption`, `RecallAssumption`, `CommunitiesAssumption`, `WorkingSetAssumption`, ...). `DistinctWorkers` is
a hypothesis of the theorems that need it, with the reason given.

### Only model-checked

* Liveness (`EveryJobEnds`, `MatchEventuallyFires`, `ApprovedSettles`, `WalksEnd`, `BriefsCatchUp`,
  `TurnsEnd`): the prover has no rule for fairness and ENABLED.
* `ReadsFind`: a read finds what a backend it was built with had all along. It is about every place a
  read has passed, through requests that overlap it and settings that change under it.
* The deliberate abstractions, of course: a proof is about the module, and that the module is the
  code rests on reading, with `PROJECT.json`'s map.

## 5. Where the code and its documentation differ

The violated statement is a definition of the module (in parentheses); adding it to the
run's cfg gives the counterexample.

1. ULIDs of several processes do not arrive in order, so `id > cursor` can
   skip an event for ever (`NoEventSkipped` in `EventScan`). `PassedImpliesFired` is what
   does hold: events in the table before the scan passed them fire at least once.
2. An untrusted drainer completes the job of an approved build gate; no trusted one then
   resumes it (`GateDoneMeansResumed`). `GateRunsAccounted` is what does hold.
3. Status, event and job of an approval are three statements; a crash after the first
   leaves an approved entity that nothing executes and that cannot be approved again
   (`ApprovalNotLost`).
4. A resume also rebuilds failed nodes and nodes waiting at other gates
   (`ResumeBuildsOnlyApproved`).
5. A resume overwrites the row with the nodes visited so far; if it dies then, its retry
   rebuilds and commits nodes that main already holds (`CommittedOnce` with a death).
6. The due check and the debounce of the brief do not exclude a second drainer
   (`OneBriefPerDay`).
7. An update between the check of a merge target and its write is overwritten
   (`MergeFollowsBase`).
8. Two removals or demotions that overlap both count two owners and leave none
   (`NeverWithoutOwner`).
9. An event settles after 900 s but an episode stays open for 1800 s, so one episode may be
   summarized in halves (`EpisodesWhole`, with `EPISODE_GAP_SECS = 2`).
10. Two configs promoted within one second are ordered by the ids of their creation, so a
    rollback may activate the config that is active (`RollbackLeavesPromoted`).
11. Two syncs that overlap make two edges for one note and tell of it twice (`NotesToldOnce`).
12. A commit of the files module hashes its content and never stores it, so its ingest job
    finds nothing (`CommittedIsStored`).
13. The agent: the recovery budget can be overdrawn by calls that overlap; the step budget is
    not tested after a refinement; a dry run posts the outcome of a rewritten query; a call
    that throws leaves no ledger entry, so a turn that acted can be cached; a not-ok answer
    opens the gate although it is meant to fail closed. These are written into the guards and
    the excuses of `AgentTurn`; `PROJECT.json` quotes the lines.
14. The restore of recalled memories ends at the first one that a backend does not hold, on each
    backend: of two memories tiered on two backends one stays a stub (`AllComeBackWarm`).
15. The ranks of a lane have a gap after a tie, though they are said to be dense
    (`RanksAreDense`).
16. Two drainers that caption one image share its temp file, and the first to end removes
    it under the other (`CaptionsSeeImage`).
17. A boot that ends between the user and the membership of the seed leaves a workspace
    whose owner is never a member of it (`SeedIsRepeatable`).
18. A second process wipes the index before it finds the port taken; a row indexed between
    its two statements makes the refill fail as a whole (`RebuildHolds`).
19. Active rules beyond the share of the prompt are dropped before the compiler counts what it
    leaves out, though that is said to be never hidden (`RulesAreCounted`).

Seen while modelling, without a finding of their own:

* **Builds**: two walks in one checkout make a fast-forward fail and leave a worktree whose
  branch blocks the node's next build; a module request whose claim event fails, or whose
  builder dies, stays `building`.
* **Brief**: a brief enqueued before midnight and run after it counts as the next day's;
  drainers read their UTC offset once, so they may disagree on the day: two of them, one an hour behind
  the other, can send three briefs on a day without any fault; worker names made in one second collide.
* **Configs**: a shadow that races a promote overwrites its status.
* **Storage**: no code gives a backend the status `active` that a migration demands; the live
  set does not know transcripts and tiered memory bundles, so a sweep deletes them and a
  migration leaves them behind (`gc.rs:75-99`); a sweep is a library operation that nothing
  schedules. Checkout and diff read the local store without a hash check (`blob.rs:42-54`),
  which `STORAGE-BACKENDS.md` §2 promises for every read.
* **Backends**: one configured backend whose connection is revoked fails every blob read,
  those the local store could serve included (`storage.rs:317`, `connection_auth`); switching
  `encryption` leaves the stored objects unreadable while `has` and the index go on saying that
  they are there, so nothing puts them again; a local store with encryption and no folder is the
  local store of plain objects, its sealed files are skipped by later commits, and two such backends
  share their files, so switching one's encryption takes from the other what it acknowledged; a put
  acknowledges an existing file whatever is in it.
* **Accounts and integrations**: an edit at the provider never refreshes a mirror; completing
  one connection twice leaves an active row whose vault connection another disconnect
  deletes; a draft whose event fails is made again by the retry; a redelivered webhook makes a
  second message.
* **Memory and ingest**: a late run of an old version overwrites `transcript_ref`, a commit of
  the files module drops it, a re-run adds its segments and its event again. A node's title is
  read when its event is folded (`project.rs:8`): a rename followed by a rebuild changes the text
  under an id whose old vector stays (`memvec_search.rs:139`).
* **Pipelines and push**: a job reaped from a dead drainer makes a second run and approval row while the first
  stays `running`; the evaluation cache is not keyed by workspace; pruning by row id deletes a
  subscription renewed since it was listed; one workspace's error ends the tick for the others.
* **Agent**: a turn whose draft could not be posted still says it awaits approval; failed and
  degraded turns record no tokens, rewrite and reflection never count; a plan's row stays
  `running` when critique or refinement throws; the retry of a POST whose answer was lost
  applies it twice; the API's timeout leaves the Node child running.

## 6. What is left out

* **Validators, spec and plan prompts, tier prompts**: model-generated data and checks of
  source text; their verdict is a free choice in `BuildPipeline`.
* **Telegram bot**: command parsing and layout; the rows it writes are actions of `Approvals`
  and `BuildPipeline`.
* **Weights of the scores, salience, mined rules** of `lifeos-memory`: floating point; `Recall`
  scores with a formula of whole numbers (`Activation`) that orders by the same inputs.
* **The in-band supersede** (`attrs.supersedes_event_id`) of `apply_event`: `Memory` folds the
  supersede events of a cycle, which take the same path.
* **Chunk boundaries, diffs, hashing, ciphers**: pure functions on bytes, tested in place.
* **Marketplace, presence, annotations, search, metrics**: reads and single-row writes.
* **Frontend, CLI, modules, schema and deployment files**: no state beyond the API's; what
  boot does with the schema is `Database`.

Next, in order: `JobLease` itself, which `Approvals`, `BuildPipeline` and `Dispatch` reuse; a
bound on the rounds after which a graph of given size is `Stable`.
