----------------------------- MODULE Pipelines -----------------------------
(***************************************************************************)
(* The run of a release pipeline inside one job: stages in order, an       *)
(* evaluation gate whose verdict is cached by content, and a human gate    *)
(* that writes an approval row, an event and the run's status, one         *)
(* statement after the other.  A failed or interrupted job is tried again  *)
(* as a new run.                                                           *)
(***************************************************************************)
EXTENDS EventLog, Sequences

CONSTANTS
  Stages,        \* the registry's stages: "plain", "eval" or "gated"
  MaxAttempts,   \* attempts of the job (the queue's bound)
  MaxCacheFaults \* bound: cache writes that fail, which the code ignores

ASSUME PipelineAssumption ==
  /\ Stages \in Seq({"plain", "eval", "gated"})
  /\ MaxAttempts \in Nat /\ MaxCacheFaults \in Nat
  /\ Null \notin {"pass", "low", "gate", "error"}

VARIABLES
  runs,          \* the run entities, with the approval row below each
  cache,         \* the verdict cached for the output of the eval stage
  cacheFaults,
  job,           \* queued, running, done, failed
  step           \* where the job is: stage, statement, verdict, event id

pipelineVars == <<runs, cache, cacheFaults, job, step>>

Verdicts == {"pass", "low"}
Turn(n) == [pc |-> "run", stage |-> n, verdict |-> Null, event |-> 0]
Start == Turn(1)

PipelineInit ==
  /\ runs = << >>
  /\ cache = Null
  /\ cacheFaults = 0
  /\ job = "queued"
  /\ step = Start

Runs == [status : {"running", "awaiting_approval", "gated", "failed", "completed"},
         approval : BOOLEAN, verdict : {Null} \cup Verdicts, gateEvent : 0..MaxId]

PipelineTypeOK ==
  /\ runs \in Seq(Runs) /\ Len(runs) <= MaxAttempts
  /\ cache \in {Null} \cup Verdicts
  /\ cacheFaults \in 0..MaxCacheFaults
  /\ job \in {"queued", "running", "done", "failed"}
  /\ step \in [pc : {"run", "judge", "cache", "emit", "status"}, stage : 1..(Len(Stages) + 1),
               verdict : {Null} \cup Verdicts \cup {"gate", "error"}, event : 0..MaxId]

Last == Len(runs)
At(pc) == job = "running" /\ step.pc = pc
Stage == Stages[step.stage]

\* The id of the stage's event is taken; what it will say is settled.
Announce(verdict) ==
  /\ TakeId
  /\ step' = [pc |-> "emit", stage |-> step.stage, verdict |-> verdict, event |-> nextId]

\* The job is claimed and inserts a run entity of its own.
StartJob ==
  /\ job = "queued" /\ Last < MaxAttempts
  /\ job' = "running"
  /\ step' = Start
  /\ runs' = Append(runs, [status |-> "running", approval |-> FALSE,
                           verdict |-> Null, gateEvent |-> 0])
  /\ UNCHANGED <<cache, cacheFaults, logVars>>

\* mutant: the run's status is set ahead of the event.
InsertApprovalQuietly ==
  /\ At("run") /\ step.stage <= Len(Stages) /\ Stage = "gated"
  /\ runs' = [runs EXCEPT ![Last] = [runs[Last] EXCEPT !.approval = TRUE]]
  /\ step' = [step EXCEPT !.pc = "status", !.verdict = "gate"]
  /\ UNCHANGED <<cache, cacheFaults, job, logVars>>

\* The stage needs a human: the approval row first, then the event's id.
InsertApproval ==
  /\ At("run") /\ step.stage <= Len(Stages) /\ Stage = "gated"
  /\ runs' = [runs EXCEPT ![Last] = [runs[Last] EXCEPT !.approval = TRUE]]
  /\ Announce("gate")
  /\ UNCHANGED <<cache, cacheFaults, job, events, subs>>

\* run_stage answers, or fails; an eval stage is judged before its event.
RunStage ==
  /\ At("run") /\ step.stage <= Len(Stages) /\ Stage # "gated"
  /\ \/ Stage = "eval" /\ step' = [step EXCEPT !.pc = "judge"] /\ UNCHANGED nextId
     \/ \E v \in {"error"} \cup (IF Stage = "plain" THEN {"pass"} ELSE {}) : Announce(v)
  /\ UNCHANGED <<runs, cache, cacheFaults, job, events, subs>>

\* judge_stage_output: the cached verdict, or one by the judge or the heuristic.
Judge ==
  /\ At("judge")
  /\ IF cache # Null
     THEN Announce(cache)
     ELSE /\ \E v \in Verdicts : step' = [step EXCEPT !.pc = "cache", !.verdict = v]
          /\ UNCHANGED nextId
  /\ UNCHANGED <<runs, cache, cacheFaults, job, events, subs>>

\* set_cached: its failure is ignored.
SetCached ==
  /\ At("cache")
  /\ \/ cache' = step.verdict /\ UNCHANGED cacheFaults
     \/ cacheFaults < MaxCacheFaults /\ cacheFaults' = cacheFaults + 1 /\ UNCHANGED cache
  /\ Announce(step.verdict)
  /\ UNCHANGED <<runs, job, events, subs>>

\* The event of the stage; a run that goes on turns to the next stage.
EmitStage ==
  /\ At("emit")
  /\ Insert(step.event, IF step.verdict \in {"low", "gate"} THEN "gate" ELSE "other")
  /\ runs' = [runs EXCEPT ![Last] = [runs[Last] EXCEPT
       !.gateEvent = IF step.verdict \in {"low", "gate"} THEN step.event ELSE runs[Last].gateEvent,
       !.verdict = IF Stage = "eval" /\ step.verdict # "error" THEN step.verdict
                   ELSE runs[Last].verdict]]
  /\ step' = IF step.verdict = "pass" THEN Turn(step.stage + 1)
             ELSE [step EXCEPT !.pc = "status"]
  /\ UNCHANGED <<cache, cacheFaults, job, nextId, subs>>

Retried == IF Last < MaxAttempts THEN "queued" ELSE "failed"

\* set_run_status ends the job: at a gate, after a failed stage, or at the end.
SetRunStatus ==
  /\ At("status") \/ (At("run") /\ step.stage > Len(Stages))
  /\ runs' = [runs EXCEPT ![Last] = [runs[Last] EXCEPT !.status =
       CASE step.verdict = "gate" -> "awaiting_approval"
         [] step.verdict = "low" -> "gated"
         [] step.verdict = "error" -> "failed"
         [] OTHER -> "completed"]]
  /\ job' = IF step.verdict = "error" THEN "failed" ELSE "done"
  /\ step' = Start
  /\ UNCHANGED <<cache, cacheFaults, logVars>>

\* A statement fails and with it the job, or the drainer dies and it is reaped.
AbandonJob ==
  /\ job = "running"
  /\ job' \in {"failed", Retried}
  /\ step' = Start
  /\ UNCHANGED <<runs, cache, cacheFaults, logVars>>

PipelineNext ==
  \/ StartJob \/ InsertApproval \/ RunStage \/ Judge \/ SetCached
  \/ EmitStage \/ SetRunStatus \/ AbandonJob
-----------------------------------------------------------------------------
\* A run that says it waits for a human has the approval row a human can
\* answer, and the event that announces it: wherever the job was cut short
\* (lib.rs:237-273).
WaitingIsAnnounced ==
  \A n \in DOMAIN runs :
    /\ runs[n].status = "awaiting_approval" =>
         runs[n].approval /\ runs[n].gateEvent # 0
    /\ runs[n].status = "gated" => runs[n].gateEvent # 0
=============================================================================
