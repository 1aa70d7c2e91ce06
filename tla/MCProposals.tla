---------------------------- MODULE MCProposals ----------------------------
(* Two parts of lifeos-api in one run, so a behaviour is about one of them: one
   proposal that changes two entities, or the boots of two processes under the
   writes of entities.  Servers and requests are alike; only safety is
   checked. *)
EXTENDS Proposals, Database, TLC

CONSTANTS doc, task
VARIABLE focus

TwoTargets == <<doc, task>>
Alike == Permutations(Servers) \union Permutations(Writers)

MCInit ==
  /\ focus \in {"proposals", "database"}
  /\ Init
  /\ IF focus = "database" THEN DatabaseInit ELSE DatabaseInit /\ column /\ seeded = {}

MCNext ==
  \/ focus = "proposals" /\ Next /\ UNCHANGED <<focus, databaseVars>>
  \/ focus = "database" /\ DatabaseNext /\ UNCHANGED <<focus, vars>>

MCSpec == MCInit /\ [][MCNext]_<<focus, vars, databaseVars>>
=============================================================================
