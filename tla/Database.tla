------------------------------ MODULE Database ------------------------------
(***************************************************************************)
(* How lifeos-api comes up over its two files (db.rs): the canonical one   *)
(* is migrated and seeded, the derived one, a search index of the entities,*)
(* is rebuilt, and only then is the port bound, so a process that finds it *)
(* taken has already done all this under the one that serves.  A handler   *)
(* writes an entity, its event and, best effort, its index row; drainers   *)
(* and the Worker write entities without an index row.                     *)
(***************************************************************************)
EXTENDS Naturals

CONSTANTS
  Servers, Writers,     \* processes of the API, requests of the one that serves
  Rows,                 \* entities
  MaxWrites,            \* bound: versions of a row
  MaxKills, MaxSlips    \* bounds: processes that die, statements that fail

ASSUME DatabaseAssumption ==
  0 \notin Rows /\ {MaxWrites, MaxKills, MaxSlips} \subseteq Nat

VARIABLES
  column,   \* whether an ADD COLUMN migration has been applied
  seeded,   \* which of workspace, user and membership there are
  main, idx,   \* the version of each row in entities and in entities_idx, 0 for none
  boot,     \* next statement of each process
  write,    \* of a request: next statement, row and the version it wrote
  behind,   \* history: rows whose last writer has not indexed them
  unbuilt,  \* history: a rebuild has wiped the index and not refilled it
  halfSeeded,  \* history: a process ended between the user and the membership
  kills, slips

dataVars == <<column, seeded, main, idx>>
bootHistory == <<behind, unbuilt, halfSeeded>>
databaseVars == <<dataVars, boot, write, bootHistory, kills, slips>>

NoWrite == [pc |-> "none", row |-> 0, version |-> 0]
Phases == {"down", "columns", "alter", "seed", "insert_ws", "user", "insert_user",
           "insert_member", "wipe", "fill", "bind", "serving"}

\* A file of an older release, new or already in use.
DatabaseInit ==
  /\ column \in BOOLEAN
  /\ seeded \in {{}, {"workspace", "user", "membership"}}
  /\ main = [r \in Rows |-> 0] /\ idx = main
  /\ boot = [s \in Servers |-> "down"]
  /\ write = [w \in Writers |-> NoWrite]
  /\ behind = {} /\ unbuilt = FALSE /\ halfSeeded = FALSE
  /\ kills = 0 /\ slips = 0

DatabaseTypeOK ==
  /\ column \in BOOLEAN /\ seeded \subseteq {"workspace", "user", "membership"}
  /\ main \in [Rows -> 0..MaxWrites] /\ idx \in [Rows -> 0..MaxWrites]
  /\ boot \in [Servers -> Phases]
  /\ write \in [Writers -> [pc : {"none", "event", "index"}, row : Rows \cup {0},
                            version : 0..MaxWrites]]
  /\ behind \subseteq Rows /\ unbuilt \in BOOLEAN /\ halfSeeded \in BOOLEAN
  /\ kills \in 0..MaxKills /\ slips \in 0..MaxSlips

Advance(s, from, to) == boot[s] = from /\ boot' = [boot EXCEPT ![s] = to]
Serving == {s \in Servers : boot[s] = "serving"}
-----------------------------------------------------------------------------
(* The boot: any statement that errs ends the process.                      *)

\* CREATE TABLE IF NOT EXISTS; the columns of the table are looked at.
OpenDatabase(s) ==
  /\ Advance(s, "down", "columns")
  /\ UNCHANGED <<dataVars, write, bootHistory, kills, slips>>

\* add_column_if_missing: the table_info, then the ALTER, which a second one fails.
LookForColumn(s) ==
  /\ Advance(s, "columns", IF column THEN "seed" ELSE "alter")
  /\ UNCHANGED <<dataVars, write, bootHistory, kills, slips>>

AddColumn(s) ==
  /\ Advance(s, "alter", IF column THEN "down" ELSE "seed")
  /\ column' = TRUE
  /\ UNCHANGED <<seeded, main, idx, write, bootHistory, kills, slips>>

\* seed: each row is looked for, and inserted under a fixed id.
LookForWorkspace(s) ==
  /\ Advance(s, "seed", IF "workspace" \in seeded THEN "user" ELSE "insert_ws")
  /\ UNCHANGED <<dataVars, write, bootHistory, kills, slips>>

InsertSeed(s, from, what, to) ==
  /\ Advance(s, from, IF what \in seeded THEN "down" ELSE to)
  /\ seeded' = seeded \cup {what}
  /\ UNCHANGED <<column, main, idx, write, bootHistory, kills, slips>>

InsertWorkspace(s) == InsertSeed(s, "insert_ws", "workspace", "user")
InsertUser(s) == InsertSeed(s, "insert_user", "user", "insert_member")
InsertMembership(s) == InsertSeed(s, "insert_member", "membership", "wipe")

\* The membership is not looked for: who finds the user is done.
LookForUser(s) ==
  /\ Advance(s, "user", IF "user" \in seeded THEN "wipe" ELSE "insert_user")
  /\ UNCHANGED <<dataVars, write, bootHistory, kills, slips>>

\* rebuild_derived_index: DELETE, then one INSERT of every row, which a row indexed in
\* between makes fail as a whole; that is only logged.
WipeIndex(s) ==
  /\ Advance(s, "wipe", "fill")
  /\ idx' = [r \in Rows |-> 0]
  /\ unbuilt' = TRUE
  /\ UNCHANGED <<column, seeded, main, write, behind, halfSeeded, kills, slips>>

FillIndex(s) ==
  /\ Advance(s, "fill", "bind")
  /\ IF \A r \in Rows : idx[r] = 0
     THEN idx' = main /\ unbuilt' = FALSE /\ behind' = {}
     ELSE UNCHANGED <<idx, unbuilt, behind>>
  /\ UNCHANGED <<column, seeded, main, write, halfSeeded, kills, slips>>

\* The port is taken while another process serves.
Bind(s) ==
  /\ Advance(s, "bind", IF Serving = {} THEN "serving" ELSE "down")
  /\ UNCHANGED <<dataVars, write, bootHistory, kills, slips>>

\* A process dies, or a statement of its boot fails; one that serves takes its
\* requests along.
Kill(s) ==
  /\ boot[s] # "down" /\ kills < MaxKills
  /\ kills' = kills + 1
  /\ boot' = [boot EXCEPT ![s] = "down"]
  /\ halfSeeded' = (halfSeeded \/ boot[s] = "insert_member")
  /\ IF boot[s] = "serving"
     THEN /\ write' = [w \in Writers |-> NoWrite]
          /\ behind' = behind \cup ({write[w].row : w \in Writers} \ {0})
     ELSE UNCHANGED <<write, behind>>
  /\ UNCHANGED <<dataVars, unbuilt, slips>>
-----------------------------------------------------------------------------
(* Writes of entities.                                                      *)

NewVersion(r) == main[r] < MaxWrites /\ main' = [main EXCEPT ![r] = @ + 1]
Written(w) == write[w].row
Finish(w) == write' = [write EXCEPT ![w] = NoWrite]

\* POST or PATCH of an entity, in a workspace that exists.
WriteRow(w, r) ==
  /\ Serving # {} /\ write[w].pc = "none" /\ "workspace" \in seeded
  /\ NewVersion(r)
  /\ write' = [write EXCEPT ![w] = [pc |-> "event", row |-> r, version |-> main'[r]]]
  /\ UNCHANGED <<column, seeded, idx, boot, bootHistory, kills, slips>>

\* Its event; an error ends the request before the index is told.
EmitRow(w) ==
  /\ write[w].pc = "event"
  /\ \/ write' = [write EXCEPT ![w] = [write[w] EXCEPT !.pc = "index"]] /\ UNCHANGED <<behind, slips>>
     \/ /\ slips < MaxSlips /\ slips' = slips + 1
        /\ Finish(w) /\ behind' = behind \cup {Written(w)}
  /\ UNCHANGED <<dataVars, boot, unbuilt, halfSeeded, kills>>

\* mutant: the index gets the version of the request.
IndexOwn(w) ==
  /\ write[w].pc = "index"
  /\ Finish(w)
  /\ \/ /\ idx' = [idx EXCEPT ![Written(w)] = write[w].version]
        /\ behind' = behind \ {Written(w)} /\ UNCHANGED slips
     \/ /\ slips < MaxSlips /\ slips' = slips + 1
        /\ behind' = behind \cup {Written(w)} /\ UNCHANGED idx
  /\ UNCHANGED <<column, seeded, main, boot, unbuilt, halfSeeded, kills>>

\* index_entity upserts what the row is by then; its failure is only logged.
IndexEntity(w) ==
  /\ write[w].pc = "index"
  /\ Finish(w)
  /\ \/ /\ idx' = [idx EXCEPT ![Written(w)] = main[Written(w)]]
        /\ behind' = behind \ {Written(w)} /\ UNCHANGED slips
     \/ /\ slips < MaxSlips /\ slips' = slips + 1
        /\ behind' = behind \cup {Written(w)} /\ UNCHANGED idx
  /\ UNCHANGED <<column, seeded, main, boot, unbuilt, halfSeeded, kills>>

\* An ingest, a pipeline, a brief, an approval: none of them indexes.
WriteUnindexed(r) ==
  /\ NewVersion(r)
  /\ behind' = behind \cup {r}
  /\ UNCHANGED <<column, seeded, idx, boot, write, unbuilt, halfSeeded, kills, slips>>

BootStep(s) ==
  \/ OpenDatabase(s) \/ LookForColumn(s) \/ AddColumn(s) \/ LookForWorkspace(s)
  \/ InsertWorkspace(s) \/ LookForUser(s) \/ InsertUser(s) \/ InsertMembership(s)
  \/ WipeIndex(s) \/ FillIndex(s) \/ Bind(s)

DatabaseNext ==
  \/ \E s \in Servers : BootStep(s) \/ Kill(s)
  \/ \E w \in Writers : (\E r \in Rows : WriteRow(w, r)) \/ EmitRow(w) \/ IndexEntity(w)
  \/ \E r \in Rows : WriteUnindexed(r)

DatabaseSpec == DatabaseInit /\ [][DatabaseNext]_databaseVars
-----------------------------------------------------------------------------
\* What is served is whole, through boots that race, fail or die: the schema is
\* migrated and the tenant seeded, but for a membership whose boot died before it,
\* and search knows the current version of every row, although requests write and
\* index one row in any order, but for rows whose last writer did not index them
\* and an index that a boot has wiped under the server (db.rs:122-135, 195-211).
ServedIsWhole ==
  Serving # {} =>
    /\ column
    /\ {"workspace", "user"} \subseteq seeded
    /\ "membership" \in seeded \/ halfSeeded \/ \E s \in Servers : boot[s] = "insert_member"
    /\ \A r \in Rows :
         idx[r] = main[r] \/ unbuilt \/ r \in behind \/ \E w \in Writers : Written(w) = r

\* db.rs:249: "Idempotently seed the single personal workspace, its owner user, and
\* the membership joining them. Safe to call on every boot."
SeedIsRepeatable ==
  Serving # {} => "membership" \in seeded \/ \E s \in Servers : boot[s] = "insert_member"

\* db.rs:187: "Cheap full rebuild; the derived DB is disposable by design": who serves
\* after the last boot has an index.
RebuildHolds ==
  Serving # {} /\ (\A s \in Servers : boot[s] \in {"down", "serving"}) =>
    \A r \in Rows : idx[r] = 0 => main[r] = 0 \/ r \in behind \/ \E w \in Writers : Written(w) = r
=============================================================================
