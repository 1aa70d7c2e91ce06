------------------------------ MODULE MCAgent ------------------------------
(* Instances of AgentManual for TLC.  What earlier turns left matters until the
   context is assembled (focus "gate"); a turn and the calls of humans meet only
   where the manual is read (focus "manual": the calls around a turn that
   assembles its context); else a behaviour explores the whole of a turn, on
   nothing spent or cached, while nobody calls (focus "turn"). *)
EXTENDS AgentManual

CONSTANTS ask, do, chain, read, write, draft, shut
VARIABLE focus

AtContext == [NewTurn EXCEPT !.pc = "context", !.prompt = do]

Fresh == spent = 0 /\ cache = {}

MCInit ==
  \/ ManualInit /\ Fresh /\ focus = "turn"
  \/ ManualInit /\ focus = "gate"
  \/ InitWith(AtContext) /\ Fresh /\ ConfigsInit /\ focus = "manual"

MCNext ==
  /\ ManualNext
  /\ UNCHANGED focus
  /\ focus # "manual" => UNCHANGED configVars
  /\ focus = "gate" => \A t \in Turns : ~At(t, "context")
  /\ focus = "manual" => \A t \in Turns :
       turn'[t] = turn[t] \/ (At(t, "context") /\ turn'[t].pc = "execute")

MCSpec == MCInit /\ [][MCNext]_<<allVars, focus>> /\ Fairness
=============================================================================
