---------------------------- MODULE AgentManual ----------------------------
(***************************************************************************)
(* Turns of the agent, and the operating manual they follow: a config of   *)
(* kind agent_manual, which humans draft, promote and roll back through    *)
(* the handlers of Configs while turns read the active one.                *)
(***************************************************************************)
EXTENDS AgentTurn, Sequences

CONSTANTS Callers, MaxConfigs, MaxCalls, MaxSecond  \* see Configs

ASSUME ManualAssumption == None \notin Nat

VARIABLES
  configs, active, events, second, handler, calls,  \* of Configs
  manual   \* the config whose payload is in the context of a turn, or None

configVars == <<configs, active, events, second, handler, calls>>
allVars == <<vars, configVars, manual>>

Human == INSTANCE Configs WITH call <- handler, Null <- None

ConfigsInit == Human!Init /\ manual = [t \in Turns |-> None]
ManualInit == Init /\ ConfigsInit

\* The context of a turn is assembled: fetchActiveManual answers with the active
\* config, or with nothing when the request fails.
Fetches(t) == At(t, "context") /\ turn'[t].pc \notin {"context", "dead"}

FetchActiveManual ==
  \E i \in IF \E t \in Turns : Fetches(t) THEN {active, None} ELSE {None} :
    manual' = [t \in Turns |-> IF Fetches(t) THEN i ELSE manual[t]]

ManualNext ==
  \/ Human!Next /\ UNCHANGED <<vars, manual>>
  \/ Next /\ FetchActiveManual /\ UNCHANGED configVars

ManualSpec == ManualInit /\ [][ManualNext]_allVars

\* A turn follows only a manual that a human promoted, whatever calls of
\* humans overlap, die half way or roll back while it reads: a draft of the
\* agent's own never takes effect (actionRegistry.js:178-182, manual.js:7-8).
ManualWasPromoted ==
  \A t \in Turns : manual[t] # None => Human!WasPromoted(manual[t])
=============================================================================
