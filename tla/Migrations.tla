---------------------------- MODULE Migrations ----------------------------
(* Store.migrate: bringing a database of an earlier release up to date, by a  *)
(* process that may die anywhere and is started again.                       *)
(*                                                                           *)
(* executescript commits what is open and then every statement by itself, so *)
(* a step is one statement; the name of a migration is recorded in a         *)
(* transaction of its own after its last statement.                          *)
EXTENDS Naturals, Sequences

CONSTANT MaxDeaths  \* bound: deaths of the process

\* What a statement makes and needs, and whether it may find it made already
\* (IF NOT EXISTS). ALTER TABLE ... ADD COLUMN may not.
Make(object) == [makes |-> object, needs |-> "nothing", idempotent |-> TRUE]
On(table, object) == [makes |-> object, needs |-> table, idempotent |-> TRUE]
AddColumn(table, object) == [makes |-> object, needs |-> table, idempotent |-> FALSE]

\* The list as it is applied; the numbers tell the order of the releases.
MIGRATIONS == <<
  [name |-> 1, script |-> <<Make("incidents"), On("incidents", "idx_incidents_fingerprint_status"),
                            On("incidents", "idx_incidents_status")>>],
  [name |-> 2, script |-> <<Make("timeline"), On("timeline", "idx_timeline_incident")>>],
  [name |-> 3, script |-> <<Make("predictions"), On("predictions", "idx_predictions_incident")>>],
  [name |-> 4, script |-> <<AddColumn("timeline", "prev_hash"), AddColumn("timeline", "hash")>>],
  [name |-> 9, script |-> <<Make("approval_requests"), On("approval_requests", "idx_approval_state")>>],
  [name |-> 8, script |-> <<Make("shadow_scores")>>],
  [name |-> 7, script |-> <<Make("action_items"), On("action_items", "idx_action_items_status")>>],
  [name |-> 6, script |-> <<Make("executed_actions")>>],
  [name |-> 5, script |-> <<Make("knowledge_chunks"), On("knowledge_chunks", "idx_kc_meta"),
                            On("knowledge_chunks", "idx_kc_source")>>] >>

Names == {MIGRATIONS[m].name : m \in DOMAIN MIGRATIONS}
Script(m) == MIGRATIONS[m].script
Objects(m) == {Script(m)[k].makes : k \in DOMAIN Script(m)}
Schema == UNION {Objects(m) : m \in DOMAIN MIGRATIONS}

VARIABLES
  objects,  \* tables, indexes and added columns of the database
  applied,  \* names in schema_migrations
  known,    \* the names the process read when it started
  at,       \* [migration, statement] it is about to run
  phase,       \* "down", "migrating", "open" or "failed" (Store() raised)
  deaths,
  torn      \* history: an ALTER was committed by a process that died before it was recorded

migrateVars == <<objects, applied, known, at, phase, deaths, torn>>

\* A database left by release n, or an empty one.
MigrateInit ==
  /\ \E n \in 0..9 :
       /\ applied = {name \in Names : name <= n}
       /\ objects = UNION {Objects(m) : m \in {k \in DOMAIN MIGRATIONS : MIGRATIONS[k].name <= n}}
  /\ known = {} /\ at = [migration |-> 1, statement |-> 1]
  /\ phase = "down" /\ deaths = 0 /\ torn = FALSE

Begin(m) == at' = [migration |-> m, statement |-> 1]

Left == at.migration <= Len(MIGRATIONS)

\* Mutation: only the newest name is remembered.
SkippedNewest ==
  /\ Left /\ MIGRATIONS[at.migration].name \in known
  /\ \A name \in known : name <= MIGRATIONS[at.migration].name

Skipped == Left /\ MIGRATIONS[at.migration].name \in known

\* migrate creates schema_migrations if needed and reads it once.
Start ==
  /\ phase = "down"
  /\ phase' = "migrating" /\ known' = applied
  /\ Begin(1)
  /\ UNCHANGED <<objects, applied, deaths, torn>>

\* A migration that is applied already.
Skip ==
  /\ phase = "migrating" /\ Skipped
  /\ Begin(at.migration + 1)
  /\ UNCHANGED <<objects, applied, known, phase, deaths, torn>>

Works(statement) ==
  /\ statement.needs \in objects \cup {"nothing"}
  /\ statement.idempotent \/ statement.makes \notin objects

\* The next statement of the script; one that fails makes Store() raise.
Statement ==
  /\ phase = "migrating" /\ Left /\ ~Skipped
  /\ at.statement <= Len(Script(at.migration))
  /\ LET statement == Script(at.migration)[at.statement] IN
       \/ /\ Works(statement)
          /\ objects' = objects \cup {statement.makes}
          /\ at' = [at EXCEPT !.statement = @ + 1]
          /\ phase' = phase
       \/ /\ ~Works(statement)
          /\ phase' = "failed"
          /\ UNCHANGED <<objects, at>>
  /\ UNCHANGED <<applied, known, deaths, torn>>

\* Mutation: the name is recorded before the last statement of the script.
RecordEarly ==
  /\ phase = "migrating" /\ Left /\ ~Skipped
  /\ at.statement >= Len(Script(at.migration))
  /\ applied' = applied \cup {MIGRATIONS[at.migration].name}
  /\ IF at.statement > Len(Script(at.migration)) THEN Begin(at.migration + 1) ELSE at' = at
  /\ UNCHANGED <<objects, known, phase, deaths, torn>>

\* The script is through: its name is inserted and committed.
Record ==
  /\ phase = "migrating" /\ Left /\ ~Skipped
  /\ at.statement > Len(Script(at.migration))
  /\ applied' = applied \cup {MIGRATIONS[at.migration].name}
  /\ Begin(at.migration + 1)
  /\ UNCHANGED <<objects, known, phase, deaths, torn>>

\* All migrations are through; the store serves.
Open ==
  /\ phase = "migrating" /\ ~Left
  /\ phase' = "open"
  /\ UNCHANGED <<objects, applied, known, at, deaths, torn>>

\* The daemon is stopped, or ended because Store() raised.
Stop ==
  /\ phase \in {"open", "failed"}
  /\ phase' = "down"
  /\ UNCHANGED <<objects, applied, known, at, deaths, torn>>

\* Statements of the current migration that were committed and cannot be run again.
Unrepeatable ==
  Left /\ ~Skipped /\ \E k \in 1..at.statement - 1 : ~Script(at.migration)[k].idempotent

Die ==
  /\ phase = "migrating" /\ deaths < MaxDeaths
  /\ deaths' = deaths + 1 /\ phase' = "down"
  /\ torn' = (torn \/ Unrepeatable)
  /\ UNCHANGED <<objects, applied, known, at>>

MigrateNext == Start \/ Skip \/ Statement \/ Record \/ Open \/ Stop \/ Die

MigrateSpec == MigrateInit /\ [][MigrateNext]_migrateVars

-----------------------------------------------------------------------------
\* A name in schema_migrations stands for a script that ran to its end, so an
\* open store has every table, index and column the code uses.
RecordedIsBuilt ==
  /\ \A m \in DOMAIN MIGRATIONS : MIGRATIONS[m].name \in applied => Objects(m) \subseteq objects
  /\ phase = "open" => objects = Schema

\* An upgrade fails only over an ALTER that was committed but not recorded:
\* every other release and every other place to die leaves a database the next
\* start brings up to date.
FailsOnlyIfTorn == phase = "failed" => torn
=============================================================================
