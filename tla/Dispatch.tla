------------------------------ MODULE Dispatch ------------------------------
(***************************************************************************)
(* What a drainer does with a job it has claimed: run_job routes it by its *)
(* kind to a handler that uses what this machine is fitted with (agent     *)
(* CLIs, an API key, whisper, ffmpeg), and the handler's result becomes    *)
(* the job's status if the lease still stands.  Machines hold jobs under   *)
(* the leases of JobLease, which JobQueue implements; the kinds with a     *)
(* module of their own (execute_approval, daily_brief, the stages of a     *)
(* pipeline, the rest of an ingest and of a sleep cycle) are not repeated. *)
(***************************************************************************)
EXTENDS Naturals, Sequences

CONSTANTS
  Machines, Items,   \* drainers of one host, job rows
  Fleets, Loads,     \* what the machines may have, what the jobs may be
  NoMachine, Unset,
  MaxGrants,         \* DrainConfig.max_attempts
  MaxDeaths, MaxSlips \* bounds: drainers that die, statements that fail

ASSUME DispatchAssumption ==
  /\ NoMachine \notin Machines /\ Unset \notin Items /\ Unset \notin {"first", "second", "extract"}
  /\ {MaxGrants, MaxDeaths, MaxSlips} \subseteq Nat
  /\ \A l \in Loads : DOMAIN l = Items

VARIABLES
  fitted,    \* what each machine found when it started
  load,      \* kind and input of each job
  itemPhase, holder, grants,   \* the leases
  activity,  \* of a machine: next step, job and what the last step left
  picture,   \* the captioners' temp file of the image is there
  replay,    \* the row of llm_replay_cache for the request of a cycle
  served,    \* history: what the runs of each machine went on with
  rivals,    \* history: machines that had missed the cache when the row was written
  effects,   \* history: what runs of a job have done
  deaths, slips

queueVars == <<itemPhase, holder, grants>>
dispatchVars == <<fitted, load, queueVars, activity, picture, replay, served, rivals, effects,
                  deaths, slips>>

Lease == INSTANCE JobLease WITH Tasks <- Items, Owners <- Machines,
  NoOwner <- NoMachine, MaxTries <- MaxGrants,
  phase <- itemPhase, owner <- holder, tries <- grants

Free == [pc |-> "free", item |-> Unset, got |-> Unset]

DispatchInit ==
  /\ fitted \in Fleets /\ load \in Loads
  /\ itemPhase = [i \in Items |-> "waiting"]
  /\ holder = [i \in Items |-> NoMachine]
  /\ grants = [i \in Items |-> 0]
  /\ activity = [n \in Machines |-> Free]
  /\ picture = FALSE
  /\ replay = Unset /\ served = [n \in Machines |-> {}] /\ rivals = {}
  /\ effects = [i \in Items |-> {}]
  /\ deaths = 0 /\ slips = 0

Answers == {"text", "blank", "error"}
Doings == {"heard", "answered", "noticed", "captioned", "blind", "told", "ended", "slept"}
Summaries == {"first", "second", "extract"}   \* two of a model, one of the heuristic

DispatchTypeOK ==
  /\ itemPhase \in [Items -> {"waiting", "leased", "done", "failed"}]
  /\ holder \in [Items -> Machines \cup {NoMachine}]
  /\ grants \in [Items -> 0..MaxGrants]
  /\ activity \in [Machines ->
       [pc : {"free", "begin", "decode", "whisper", "silent", "hear", "turn", "reply", "write",
              "ask", "clear", "tell", "lookup", "complete", "store", "close"},
        item : Items \cup {Unset},
        got : Answers \cup Summaries \cup {Unset, "blind", "done", "failed"}]]
  /\ picture \in BOOLEAN
  /\ effects \in [Items -> SUBSET Doings]
  /\ replay \in {Unset} \cup Summaries
  /\ served \in [Machines -> SUBSET Summaries] /\ rivals \subseteq Machines
  /\ deaths \in 0..MaxDeaths /\ slips \in 0..MaxSlips
-----------------------------------------------------------------------------
(* The lanes: what a machine can do, settled when it starts.                *)

\* The known CLIs in order of preference, and those this machine has.
REGISTRY == <<"claude", "gemini", "codex", "opencode", "hermes", "antigravity", "openclaw">>
Detected(n) == SelectSeq(REGISTRY, LAMBDA cli : cli \in fitted[n])

\* Captions and stages: a CLI if there is one, else the API, else nothing.
AiLane(n) == IF Detected(n) # << >> THEN "cli" ELSE IF "key" \in fitted[n] THEN "api" ELSE "none"

\* run: the answer of the CLI; no CLI, its exit, a timeout or odd output are errors.
CliAnswers(n) == IF Detected(n) = << >> THEN {"error"} ELSE Answers

\* decode_audio: what symphonia cannot open goes through ffmpeg, if there is one.
Decodes(n, sound) ==
  CASE sound \in {"speech", "silence"} -> {"text"}
    [] sound = "opus" -> IF "ffmpeg" \in fitted[n] THEN {"text", "error"} ELSE {"error"}
    [] sound = "noise" -> {"error"}

\* Whisper's segments, trimmed and joined: nothing of a silence.
Transcripts(n, sound) ==
  IF "whisper" \notin fitted[n] THEN {"error"}
  ELSE {"error", IF sound = "silence" THEN "blank" ELSE "text"}
-----------------------------------------------------------------------------
Here(n, pc) == activity[n].pc = pc
Goto(n, pc, got) == activity' = [activity EXCEPT ![n] = [pc |-> pc, item |-> activity[n].item, got |-> got]]
Item(n) == activity[n].item
Load(n) == load[Item(n)]
Slip == slips < MaxSlips /\ slips' = slips + 1
Effect(n, what) == effects' = [effects EXCEPT ![Item(n)] = @ \cup {what}]

aiVars == <<picture, replay, served, rivals>>
fixed == <<fitted, load>>

\* claim_job; the job.claimed event that follows is advisory and left out.
ClaimItem(n) ==
  /\ Here(n, "free")
  /\ \E i \in Items :
       /\ Lease!Grant(i, n)
       /\ activity' = [activity EXCEPT ![n] = [pc |-> "begin", item |-> i, got |-> Unset]]
  /\ UNCHANGED <<fixed, aiVars, effects, deaths, slips>>

\* dispatch: the handler by kind; stubs are acknowledged, unknown kinds fail.
Begin(n) ==
  /\ Here(n, "begin")
  /\ CASE Load(n).kind = "voice_turn" ->
            IF Load(n).input = "unencoded" THEN Goto(n, "close", "failed") ELSE Goto(n, "decode", Unset)
       [] Load(n).kind = "ingest" ->
            CASE AiLane(n) = "cli" -> Goto(n, "write", Unset)
              [] AiLane(n) = "api" -> \E a \in Answers : Goto(n, "clear", a)
              [] OTHER -> Goto(n, "close", "failed")
       [] Load(n).kind = "pipeline" ->
            \/ Goto(n, "close", "failed")
            \/ AiLane(n) # "none" /\ \E got \in {"text", "blank"} : Goto(n, "tell", got)
       [] Load(n).kind = "memory_sleep" -> Goto(n, "lookup", Unset)
       [] Load(n).kind = "module_build" -> Goto(n, "close", "done")
       [] OTHER -> Goto(n, "close", "failed")
  /\ UNCHANGED <<fixed, queueVars, aiVars, effects, deaths, slips>>
-----------------------------------------------------------------------------
(* A voice note.                                                            *)

DecodeAudio(n) ==
  /\ Here(n, "decode")
  /\ \E a \in Decodes(n, Load(n).input) :
       IF a = "error" THEN Goto(n, "close", "failed") ELSE Goto(n, "whisper", Unset)
  /\ UNCHANGED <<fixed, queueVars, aiVars, effects, deaths, slips>>

Transcribe(n) ==
  /\ Here(n, "whisper")
  /\ \E a \in Transcripts(n, Load(n).input) :
       CASE a = "error" -> Goto(n, "close", "failed")
         [] a = "blank" -> Goto(n, "silent", Unset)
         [] a = "text" -> Goto(n, "hear", Unset)
  /\ UNCHANGED <<fixed, queueVars, aiVars, effects, deaths, slips>>

\* A note without words is answered so, and there is no turn.
NotifySilence(n) ==
  /\ Here(n, "silent")
  /\ Goto(n, "close", "done")
  /\ Effect(n, "noticed")
  /\ UNCHANGED <<fixed, queueVars, aiVars, deaths, slips>>

\* voice.received: without it no turn.
RecordHeard(n) ==
  /\ Here(n, "hear")
  /\ \/ Goto(n, "turn", Unset) /\ Effect(n, "heard") /\ UNCHANGED slips
     \/ Slip /\ Goto(n, "close", "failed") /\ UNCHANGED effects
  /\ UNCHANGED <<fixed, queueVars, aiVars, deaths>>

\* mutant: a turn that failed is answered like one without words.
RunTurnLenient(n) ==
  /\ Here(n, "turn")
  /\ \E a \in Answers : Goto(n, "reply", a)
  /\ UNCHANGED <<fixed, queueVars, aiVars, effects, deaths, slips>>

\* node agent/run.js: its reply, maybe empty, or the error that fails the job.
RunTurn(n) ==
  /\ Here(n, "turn")
  /\ \E a \in Answers :
       IF a = "error" THEN Goto(n, "close", "failed") ELSE Goto(n, "reply", a)
  /\ UNCHANGED <<fixed, queueVars, aiVars, effects, deaths, slips>>

\* notify swallows its errors: an answer is sent, not known to arrive.
NotifyReply(n) ==
  /\ Here(n, "reply")
  /\ Goto(n, "close", "done")
  /\ IF activity[n].got = "error" THEN UNCHANGED effects ELSE Effect(n, "answered")
  /\ UNCHANGED <<fixed, queueVars, aiVars, deaths, slips>>
-----------------------------------------------------------------------------
(* The caption of an image: a temp file named by the image's hash.          *)

WriteImage(n) ==
  /\ Here(n, "write")
  /\ \/ picture' = TRUE /\ Goto(n, "ask", Unset) /\ UNCHANGED slips
     \/ Slip /\ Goto(n, "close", "failed") /\ UNCHANGED picture
  /\ UNCHANGED <<fixed, queueVars, replay, served, rivals, effects, deaths>>

\* The CLI reads the file when it gets to it, and answers something either way.
AskCli(n) ==
  /\ Here(n, "ask")
  /\ \E a \in CliAnswers(n) :
       Goto(n, "clear", IF a = "text" /\ ~picture THEN "blind" ELSE a)
  /\ UNCHANGED <<fixed, queueVars, aiVars, effects, deaths, slips>>

\* remove_file, whatever came; an empty caption is a failure.
ClearImage(n) ==
  /\ Here(n, "clear")
  /\ picture' = (picture /\ AiLane(n) # "cli")
  /\ IF activity[n].got \in {"text", "blind"}
     THEN /\ Goto(n, "close", "done")
          /\ Effect(n, IF activity[n].got = "text" THEN "captioned" ELSE "blind")
     ELSE Goto(n, "close", "failed") /\ UNCHANGED effects
  /\ UNCHANGED <<fixed, queueVars, replay, served, rivals, deaths, slips>>
-----------------------------------------------------------------------------
\* A pipeline that ended well or at a human gate is done as it is; one whose output
\* was gated is told to the admin, or logged when no chat is configured.
TellAdmin(n) ==
  /\ Here(n, "tell")
  /\ Goto(n, "close", "done")
  /\ Effect(n, IF activity[n].got = "blank" THEN "told" ELSE "ended")
  /\ UNCHANGED <<fixed, queueVars, aiVars, deaths, slips>>
-----------------------------------------------------------------------------
(* A completion of a sleep cycle, through the replay cache.                 *)

\* What a cycle goes on with.
Serve(n, response) ==
  /\ served' = [served EXCEPT ![n] = @ \cup {response}]
  /\ Effect(n, "slept") /\ Goto(n, "close", "done")

LookupReplay(n) ==
  /\ Here(n, "lookup")
  /\ IF replay # Unset THEN Serve(n, replay)
     ELSE Goto(n, "complete", Unset) /\ UNCHANGED <<served, effects>>
  /\ UNCHANGED <<fixed, queueVars, picture, replay, rivals, deaths, slips>>

\* AgentCliModel: whatever goes wrong, the heuristic answers.
Complete(n) ==
  /\ Here(n, "complete")
  /\ \E a \in CliAnswers(n) :
       IF a = "text" THEN \E reply \in {"first", "second"} : Goto(n, "store", reply)
                     ELSE Goto(n, "store", "extract")
  /\ UNCHANGED <<fixed, queueVars, aiVars, effects, deaths, slips>>

Missed == {n \in Machines : activity[n].pc \in {"complete", "store"}}
\* mutant: the last one wins (INSERT OR REPLACE).
InsertReplayLast(n) == replay' = activity[n].got /\ rivals' = Missed \ {n}

\* INSERT OR IGNORE.
InsertReplay(n) ==
  IF replay = Unset THEN replay' = activity[n].got /\ rivals' = Missed \ {n}
                    ELSE UNCHANGED <<replay, rivals>>

\* The caller goes on with its own response, in the cache or not, if the statement
\* did not fail.
StoreReplay(n) ==
  /\ Here(n, "store")
  /\ \/ InsertReplay(n) /\ Serve(n, activity[n].got) /\ UNCHANGED slips
     \/ Slip /\ Goto(n, "close", "failed") /\ UNCHANGED <<replay, served, rivals, effects>>
  /\ UNCHANGED <<fixed, queueVars, picture, deaths>>
-----------------------------------------------------------------------------
\* complete_job or fail_job: no row matches when the lease is lost, and a failed
\* statement leaves the row to the reaper.
CloseJob(n) ==
  /\ Here(n, "close")
  /\ activity' = [activity EXCEPT ![n] = Free]
  /\ \/ Lease!Resolve(Item(n), n, activity[n].got) /\ UNCHANGED slips
     \/ holder[Item(n)] # n /\ UNCHANGED <<queueVars, slips>>
     \/ Slip /\ UNCHANGED queueVars
  /\ UNCHANGED <<fixed, aiVars, effects, deaths>>

\* reap_stuck: any lease may outlive its TTL, its holder's run goes on.
ReapItems ==
  /\ \E S \in SUBSET Items : S # {} /\ Lease!Revoke(S)
  /\ UNCHANGED <<fixed, activity, aiVars, effects, deaths, slips>>

DrainerDies(n) ==
  /\ deaths < MaxDeaths /\ ~Here(n, "free")
  /\ deaths' = deaths + 1
  /\ activity' = [activity EXCEPT ![n] = Free]
  /\ UNCHANGED <<fixed, queueVars, aiVars, effects, slips>>

Handle(n) ==
  \/ Begin(n) \/ DecodeAudio(n) \/ Transcribe(n) \/ NotifySilence(n) \/ RecordHeard(n)
  \/ RunTurn(n) \/ NotifyReply(n) \/ WriteImage(n) \/ AskCli(n) \/ ClearImage(n)
  \/ TellAdmin(n) \/ LookupReplay(n) \/ Complete(n) \/ StoreReplay(n)

DispatchNext ==
  \/ \E n \in Machines : ClaimItem(n) \/ Handle(n) \/ CloseJob(n) \/ DrainerDies(n)
  \/ ReapItems

DispatchSpec == DispatchInit /\ [][DispatchNext]_dispatchVars
-----------------------------------------------------------------------------
Earned(i) ==
  CASE load[i].kind = "voice_turn" ->
         {"heard", "answered"} \subseteq effects[i] \/ "noticed" \in effects[i]
    [] load[i].kind = "ingest" -> effects[i] \cap {"captioned", "blind"} # {}
    [] load[i].kind = "pipeline" -> effects[i] \cap {"ended", "told"} # {}
    [] load[i].kind = "memory_sleep" -> "slept" \in effects[i]
    [] OTHER -> load[i].kind = "module_build"

\* A job is done only if some run of it did all its kind promises, on machines
\* fitted differently, through leases lost and runs cut short: a voice note was
\* heard on the log and answered by a turn that worked, or answered that there was
\* nothing to hear; a gate was told of; an image has its caption; a job of a kind
\* nobody knows is never done (main.rs:402-584).
DoneIsEarned == \A i \in Items : itemPhase[i] = "done" => Earned(i)

\* Sleep cycles that ask the same of a model go on with the response in the cache, and
\* not with one of their own, whatever overlaps, dies or fails: only a machine that
\* had already missed the cache when its row was written does otherwise, once; it
\* keeps the response it got (model.rs:83-85, 93).
StraysAreRivals ==
  \A n \in Machines : \A a, b \in served[n] \ {replay} : a = b /\ n \in rivals

\* The temp file of a caption is private to its captioner (ai.rs:86).
CaptionsSeeImage == \A i \in Items : "blind" \notin effects[i]
=============================================================================
