---------------------------- MODULE BuildPipeline ----------------------------
(***************************************************************************)
(* One build run of the self-extension pipeline (server/build): a process  *)
(* walks the plan in topological order and takes each node through         *)
(* worktree, agent, validate, gate and commit, keeping the run's row up to *)
(* date.  Nodes of a gated tier halt at a gate; when a human approves one, *)
(* a job under the leases of JobLease starts another process, which seeds  *)
(* itself from the row and walks the plan again.                           *)
(***************************************************************************)
EXTENDS Integers, Sequences, FiniteSets

CONSTANTS
  Nodes, Plan, Deps,  \* the plan: its nodes, their order, their dependsOn
  Gated,              \* nodes of GATED_TIERS
  Scaffolded,         \* T0 nodes, built by scaffoldModule
  Builders, None,     \* drainers with the build pipeline on; no drainer
  MaxAttempts,        \* DrainConfig.max_attempts
  MaxGates, MaxDeaths, MaxLost  \* bounds: gates, dead processes, lost writes

Positions == 1..Len(Plan)

ASSUME PlanAssumption ==
  /\ Plan \in Seq(Nodes) /\ Len(Plan) = Cardinality(Nodes)
  /\ \A n \in Nodes : \E i \in Positions : Plan[i] = n
  /\ Deps \in [Nodes -> SUBSET Nodes]
  /\ \A i, j \in Positions : Plan[i] \in Deps[Plan[j]] => i < j
  /\ Gated \subseteq Nodes /\ Scaffolded \subseteq Nodes \ Gated
  /\ None \notin Builders
  /\ MaxAttempts \in Nat \ {0} /\ {MaxGates, MaxDeaths, MaxLost} \subseteq Nat

VARIABLES
  run, runStatus,   \* the pipeline_run row: attrs.nodes and status
  gates,            \* pending_approval rows, in creation order
  phase, owner, tries,  \* the leases of the execute_approval jobs, by gate
  main,             \* commits on main, by node
  trees, base,      \* nodes that have a worktree, the main it was cut from
  request,          \* module_requests.status of the row that asks for the build
  told,             \* history: what the requester's chat was told, or ""
  job, stage, at, states, seed,  \* of a builder process
  deaths, lost

rowVars   == <<run, runStatus>>
leaseVars == <<phase, owner, tries>>
gitVars   == <<main, trees, base>>
procVars  == <<job, stage, at, states, seed>>
requestVars == <<request, told>>
buildVars == <<rowVars, gates, leaseVars, gitVars, requestVars, procVars, deaths, lost>>

Gates == 1..MaxGates
Idle  == 0
Fresh == MaxGates + 1      \* the job of the first walk; a resume's job is its gate
Blank == [n \in Nodes |-> "absent"]
TypeOfRun == {"absent", "running", "completed", "partial"}

Lease == INSTANCE JobLease WITH Tasks <- Gates, Owners <- Builders,
                                NoOwner <- None, MaxTries <- MaxAttempts

BuildInit ==
  /\ run = Blank /\ runStatus = "absent"
  /\ gates = <<>> /\ Lease!Init
  /\ main = <<>> /\ trees = {} /\ base = [n \in Nodes |-> 0]
  /\ request = "queued" /\ told = ""
  /\ job = [b \in Builders |-> Idle]
  /\ stage = [b \in Builders |-> "idle"]
  /\ at = [b \in Builders |-> 1]
  /\ states = [b \in Builders |-> Blank]
  /\ seed = [b \in Builders |-> Blank]
  /\ deaths = 0 /\ lost = 0
-----------------------------------------------------------------------------
(* A walk begins: runBuildPipeline, or resumeBuildPipeline for a gate. *)

\* Writes of the row are best effort, and there is none while it was not created.
PatchRun(nodes, status) ==
  \/ /\ IF runStatus = "absent" THEN UNCHANGED rowVars
                                ELSE run' = nodes /\ runStatus' = status
     /\ UNCHANGED lost
  \/ lost < MaxLost /\ lost' = lost + 1 /\ UNCHANGED rowVars

Begin(b, j, prior, first) ==
  /\ stage[b] = "idle"
  /\ job' = [job EXCEPT ![b] = j]
  /\ stage' = [stage EXCEPT ![b] = first]
  /\ at' = [at EXCEPT ![b] = 1]
  /\ states' = [states EXCEPT ![b] = Blank]
  /\ seed' = [seed EXCEPT ![b] = prior]

\* claim_next_module_request; when its event write fails nobody builds the row.
StartRun(b) ==
  /\ request = "queued" /\ request' = "building"
  /\ \/ Begin(b, Fresh, Blank, "plan") /\ UNCHANGED lost
     \/ stage[b] = "idle" /\ lost < MaxLost /\ lost' = lost + 1 /\ UNCHANGED procVars
  /\ UNCHANGED <<rowVars, gates, leaseVars, gitVars, told, deaths>>

\* A rejected plan ends the run before it has a row; the row's INSERT may be lost.
PlanRun(b, valid) ==
  /\ stage[b] = "plan"
  /\ stage' = [stage EXCEPT ![b] = IF valid THEN "next" ELSE "final"]
  /\ \/ /\ IF valid THEN run' = [n \in Nodes |-> "pending"] /\ runStatus' = "running"
                    ELSE UNCHANGED rowVars
        /\ UNCHANGED lost
     \/ valid /\ lost < MaxLost /\ lost' = lost + 1 /\ UNCHANGED rowVars
  /\ UNCHANGED <<gates, leaseVars, gitVars, requestVars, job, at, states, seed, deaths>>

StartResume(b, g) ==
  /\ Lease!Grant(g, b)
  /\ Begin(b, g, run, "next")
  /\ UNCHANGED <<rowVars, gates, gitVars, requestVars, deaths, lost>>

\* The drainer writes the outcome of the job, which counts while it holds the lease.
Report(b, outcome) ==
  /\ IF job[b] \in Gates /\ phase[job[b]] = "leased" /\ owner[job[b]] = b
       THEN Lease!Resolve(job[b], b, outcome)
       ELSE UNCHANGED leaseVars
  /\ job' = [job EXCEPT ![b] = Idle]
  /\ stage' = [stage EXCEPT ![b] = "idle"]
  /\ UNCHANGED <<at, states, seed>>

\* A gate that was created without a row has no plan to resume.
NoRun(b) ==
  /\ stage[b] = "next" /\ job[b] \in Gates /\ runStatus = "absent"
  /\ Report(b, "failed")
  /\ UNCHANGED <<rowVars, gates, gitVars, requestVars, deaths, lost>>
-----------------------------------------------------------------------------
(* executeDag: one iteration of its loop. *)

Node(b) == Plan[at[b]]
Walking(b) == stage[b] = "next" /\ at[b] \in Positions /\ (job[b] \in Gates => runStatus # "absent")

Record(b, status) ==
  /\ states' = [states EXCEPT ![b] = [states[b] EXCEPT ![Node(b)] = status]]
  /\ at' = [at EXCEPT ![b] = at[b] + 1]
  /\ stage' = [stage EXCEPT ![b] = "next"]
  /\ UNCHANGED <<job, seed>>

RemoveTree(n) == trees' = trees \ {n} /\ base' = [base EXCEPT ![n] = 0]

depsSatisfied(n, known) == \A d \in Deps[n] : known[d] = "completed"
Kept(b) == seed[b][Node(b)] = "completed"

KeepOrSkip(b) ==
  /\ Walking(b)
  /\ Kept(b) \/ ~ depsSatisfied(Node(b), states[b])
  /\ Record(b, IF Kept(b) THEN "completed" ELSE "skipped")
  /\ UNCHANGED <<rowVars, gates, leaseVars, gitVars, requestVars, deaths, lost>>

\* The row is overwritten with the records of this walk so far.
EnterNode(b) ==
  /\ Walking(b)
  /\ ~ Kept(b) /\ depsSatisfied(Node(b), states[b])
  /\ states' = [states EXCEPT ![b] = [states[b] EXCEPT ![Node(b)] = "building"]]
  /\ PatchRun(states'[b], "running")
  /\ stage' = [stage EXCEPT ![b] = "build"]
  /\ UNCHANGED <<gates, leaseVars, gitVars, requestVars, job, at, seed, deaths>>

\* git worktree add -b fails when the node's branch is still there.
CreateWorktree(b) ==
  LET n == Node(b) IN
  /\ stage[b] = "build"
  /\ IF n \in trees
       THEN Record(b, "failed") /\ UNCHANGED <<trees, base>>
       ELSE /\ trees' = trees \cup {n}
            /\ base' = [base EXCEPT ![n] = Len(main)]
            /\ stage' = [stage EXCEPT ![b] = "agent"]
            /\ UNCHANGED <<job, at, states, seed>>
  /\ UNCHANGED <<rowVars, gates, leaseVars, main, requestVars, deaths, lost>>

\* The agent and the validators decide; either discards the worktree it rejects.
AgentAndValidate(b, valid) ==
  /\ stage[b] = "agent"
  /\ IF valid
       THEN /\ stage' = [stage EXCEPT ![b] = "valid"]
            /\ UNCHANGED <<job, at, states, seed, trees, base>>
       ELSE Record(b, "failed") /\ RemoveTree(Node(b))
  /\ UNCHANGED <<rowVars, gates, leaseVars, main, requestVars, deaths, lost>>

approvedNodeIds(b) == IF job[b] \in Gates THEN {gates[job[b]].node} ELSE {}

\* Mutant: no node is ever gated.
MustGateNone(b) == FALSE

MustGate(b) == Node(b) \in Gated \ approvedNodeIds(b)

\* The node halts whether or not its approval row could be written.
Gate(b) ==
  /\ stage[b] = "valid" /\ MustGate(b)
  /\ \/ /\ Len(gates) < MaxGates
        /\ gates' = Append(gates, [node |-> Node(b), status |-> "awaiting_approval"])
        /\ UNCHANGED lost
     \/ lost < MaxLost /\ lost' = lost + 1 /\ UNCHANGED gates
  /\ RemoveTree(Node(b))
  /\ Record(b, "awaiting_approval")
  /\ UNCHANGED <<rowVars, leaseVars, main, requestVars, deaths>>

\* Commit in the worktree, then git merge --ff-only.
Commit(b) ==
  LET n == Node(b) IN
  /\ stage[b] = "valid" /\ ~ MustGate(b)
  /\ base[n] = Len(main)
  /\ main' = Append(main, n)
  /\ stage' = [stage EXCEPT ![b] = "committed"]
  /\ UNCHANGED <<rowVars, gates, leaseVars, trees, base, requestVars, job, at, states, seed, deaths, lost>>

\* It throws when main moved on, or when a rebuild of a committed node changed
\* nothing; only scaffoldModule removes the worktree then.
CommitThrows(b) ==
  LET n == Node(b) IN
  /\ stage[b] = "valid" /\ ~ MustGate(b)
  /\ base[n] # Len(main) \/ \E i \in 1..Len(main) : main[i] = n
  /\ IF n \in Scaffolded THEN RemoveTree(n) ELSE UNCHANGED <<trees, base>>
  /\ Record(b, "failed")
  /\ UNCHANGED <<rowVars, gates, leaseVars, main, requestVars, deaths, lost>>

Land(b) ==
  /\ stage[b] = "committed"
  /\ RemoveTree(Node(b))
  /\ Record(b, "completed")
  /\ UNCHANGED <<rowVars, gates, leaseVars, main, requestVars, deaths, lost>>

\* Mutant: nothing failed is taken for success.
SuccessUnlessFailed(b) == \A n \in Nodes : states[b][n] # "failed"

Success(b) == \A n \in Nodes : states[b][n] = "completed"

\* finalizeRun, then the process exits with its result.
FinalizeRun(b) ==
  /\ stage[b] = "next" /\ at[b] = Len(Plan) + 1
  /\ PatchRun(states[b], IF Success(b) THEN "completed" ELSE "partial")
  /\ stage' = [stage EXCEPT ![b] = "final"]
  /\ UNCHANGED <<gates, leaseVars, gitVars, requestVars, job, at, states, seed, deaths>>

\* run_module_build answers the requester, also when its status write fails.
Answer(b, outcome) ==
  IF job[b] # Fresh THEN UNCHANGED <<requestVars, lost>>
  ELSE /\ told' = outcome
       /\ \/ request' = outcome /\ UNCHANGED lost
          \/ lost < MaxLost /\ lost' = lost + 1 /\ UNCHANGED request

\* Mutant: a failed resume is left for another try.
ExitRetrying(b) ==
  /\ stage[b] = "final"
  /\ IF Success(b) THEN Report(b, "done")
     ELSE /\ UNCHANGED <<leaseVars, at, states, seed>>
          /\ job' = [job EXCEPT ![b] = IF job[b] = Fresh THEN Idle ELSE job[b]]
          /\ stage' = [stage EXCEPT ![b] = "idle"]
  /\ Answer(b, IF Success(b) THEN "installed" ELSE "failed")
  /\ UNCHANGED <<rowVars, gates, gitVars, deaths>>

Exit(b) ==
  /\ stage[b] = "final"
  /\ Report(b, IF Success(b) THEN "done" ELSE "failed")
  /\ Answer(b, IF Success(b) THEN "installed" ELSE "failed")
  /\ UNCHANGED <<rowVars, gates, gitVars, deaths>>

\* The process dies; its worktree and whatever it did not write stay behind.
Die(b) ==
  /\ stage[b] # "idle" /\ deaths < MaxDeaths
  /\ deaths' = deaths + 1
  /\ job' = [job EXCEPT ![b] = Idle]
  /\ stage' = [stage EXCEPT ![b] = "idle"]
  /\ UNCHANGED <<rowVars, gates, leaseVars, gitVars, requestVars, at, states, seed, lost>>
-----------------------------------------------------------------------------
(* Humans resolve gates, and a drainer between two jobs reaps expired leases. *)

Resolve(g, to) ==
  /\ g <= Len(gates) /\ gates[g].status = "awaiting_approval"
  /\ gates' = [gates EXCEPT ![g] = [gates[g] EXCEPT !.status = to]]
  /\ IF to = "approved" THEN Lease!Submit(g) ELSE UNCHANGED leaseVars
  /\ UNCHANGED <<rowVars, gitVars, requestVars, procVars, deaths, lost>>

Reap(b, S) ==
  /\ stage[b] = "idle" /\ S # {}
  /\ Lease!Revoke(S)
  /\ UNCHANGED <<rowVars, gates, gitVars, requestVars, procVars, deaths, lost>>

Walk(b) ==
  \/ \E valid \in BOOLEAN : PlanRun(b, valid)
  \/ NoRun(b) \/ KeepOrSkip(b) \/ EnterNode(b) \/ CreateWorktree(b)
  \/ \E valid \in BOOLEAN : AgentAndValidate(b, valid)
  \/ Gate(b) \/ Commit(b) \/ CommitThrows(b) \/ Land(b) \/ FinalizeRun(b) \/ Exit(b)

BuildNext ==
  \/ \E b \in Builders : StartRun(b) \/ Walk(b) \/ Die(b)
  \/ \E b \in Builders, g \in Gates : StartResume(b, g)
  \/ \E b \in Builders, S \in SUBSET Gates : Reap(b, S)
  \/ \E g \in Gates, to \in {"approved", "rejected"} : Resolve(g, to)

BuildSpec == BuildInit /\ [][BuildNext]_buildVars

\* A process that lives goes on (agents end), and an idle drainer claims and reaps.
Orphans == {g \in Gates : phase[g] = "leased" /\ job[owner[g]] # g}
FairBuildSpec ==
  /\ BuildSpec
  /\ \A b \in Builders :
       /\ WF_buildVars(Walk(b)) /\ WF_buildVars(StartRun(b))
       /\ WF_buildVars(\E g \in Gates : StartResume(b, g))
       /\ WF_buildVars(Orphans # {} /\ Reap(b, Orphans))
-----------------------------------------------------------------------------
Committed == {main[i] : i \in 1..Len(main)}

\* The shape of every variable.
BuildTypeOK ==
  LET Record_ == {"absent", "pending", "building", "completed", "failed", "skipped",
                  "awaiting_approval"} IN
  /\ run \in [Nodes -> Record_] /\ runStatus \in TypeOfRun
  /\ \A g \in 1..Len(gates) :
       gates[g] \in [node : Gated, status : {"awaiting_approval", "approved", "rejected"}]
  /\ main \in Seq(Nodes) /\ trees \subseteq Nodes /\ base \in [Nodes -> 0..Len(main)]
  /\ job \in [Builders -> 0..Fresh]
  /\ stage \in [Builders -> {"idle", "plan", "next", "build", "agent", "valid", "committed", "final"}]
  /\ at \in [Builders -> 1..Len(Plan) + 1]
  /\ states \in [Builders -> [Nodes -> Record_]] /\ seed \in [Builders -> [Nodes -> Record_]]
  /\ request \in {"queued", "building", "installed", "failed"}
  /\ told \in {"", "installed", "failed"}
  /\ deaths \in 0..MaxDeaths /\ lost \in 0..MaxLost

\* No gated node reaches main without an approval of that very node, whichever
\* walk commits it and whatever was denied, retried or lost (gate.js:1-5).
GatedNeedsApproval ==
  \A n \in Committed \cap Gated :
    \E g \in 1..Len(gates) : gates[g] = [node |-> n, status |-> "approved"]

\* The row, the jobs and the requester's answer never claim what main does not hold
\* (pipeline.js:7-10: never reports a failed/skipped/gated node as installed).
HonestRow ==
  /\ \A n \in Nodes : run[n] = "completed" => n \in Committed
  /\ runStatus = "completed" \/ "installed" \in {request, told} \/ (\E g \in Gates : phase[g] = "done") => Nodes \subseteq Committed

\* A node is committed once: a resume keeps completed nodes (pipeline.js:15-16).
CommittedOnce == \A i, k \in 1..Len(main) : main[i] = main[k] => i = k

\* A resume builds only the approved node and what was skipped or not yet reached
\* when its gate halted the walk (resume.js:7-8).
ResumeBuildsOnlyApproved ==
  [][\A b \in Builders :
       stage[b] = "next" /\ stage'[b] = "build" /\ job[b] \in Gates =>
         \/ Node(b) \in approvedNodeIds(b)
         \/ seed[b][Node(b)] \in {"skipped", "absent", "building"}]_buildVars

\* Though processes die and writes get lost, every approved gate's job is finished,
\* and the requester gets the answer its row has, unless a process died or a write
\* was lost: nothing claims a building request again.
WalksEnd ==
  []<>( /\ \A g \in Gates : phase[g] \notin {"waiting", "leased"}
        /\ deaths + lost = 0 => runStatus # "running" /\ request = told )
=============================================================================
