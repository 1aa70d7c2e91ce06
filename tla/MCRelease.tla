----------------------------- MODULE MCRelease -----------------------------
(* Two parts of the drainers that share no row here, so a behaviour is about one of
   them: the release pipelines and the push tick, or the jobs of other kinds on
   machines that are fitted differently.  Scanners are alike, and so are
   machines, whose every combination is an initial state; only safety is
   checked. *)
EXTENDS Release, Dispatch, TLC

VARIABLE focus

MCStages == <<"eval", "gated">>
Twins == Permutations(Scanners) \union Permutations(Machines)

Full == {"claude", "gemini", "whisper", "ffmpeg"}
MCFleets ==
  [Machines -> {Full, {"key", "whisper"}}] \cup [Machines -> {{"codex", "whisper"}, {}}]

Job(kind, input) == [kind |-> kind, input |-> input]
Pair(a, b) == [i \in Items |-> IF i = 1 THEN a ELSE b]
MCLoads ==
  {Pair(Job("voice_turn", s), Job("module_build", Null)) :
     s \in {"unencoded", "noise", "opus", "silence", "speech"}}
  \cup {Pair(Job("ingest", "image"), Job("ingest", "image")),
        Pair(Job("pipeline", Null), Job("novel", Null)),
        Pair(Job("memory_sleep", Null), Job("memory_sleep", Null))}

MCInit ==
  \/ focus = "release" /\ Init /\ DispatchInit
     /\ load[1].kind = "pipeline" /\ fitted = [n \in Machines |-> {}]
  \/ focus = "dispatch" /\ DispatchInit /\ Init

MCNext ==
  \/ focus = "release" /\ Next /\ UNCHANGED <<focus, dispatchVars>>
  \/ focus = "dispatch" /\ DispatchNext /\ UNCHANGED <<focus, vars>>

MCSpec == MCInit /\ [][MCNext]_<<focus, vars, dispatchVars>>
=============================================================================
