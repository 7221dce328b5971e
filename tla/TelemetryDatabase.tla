-------------------------- MODULE TelemetryDatabase --------------------------
(***************************************************************************)
(* telemetry/database.py: the SQLite file that the gateway's threads and   *)
(* the worker write to.  Every operation initializes the database first,   *)
(* on a connection of its own: what is missing of the schema is applied    *)
(* statement by statement.  Python's sqlite3 opens a transaction at the    *)
(* first INSERT only, so the statements before it commit on their own, and *)
(* those after it together.                                                *)
(***************************************************************************)
EXTENDS Naturals, Sequences, FiniteSets, SequencesExt

CONSTANTS
  Threads,    \* threads of the gateway and of the worker
  Deployed,   \* schema versions the database may have at the start
  None

ASSUME DatabaseAssumption ==
  /\ Deployed \subseteq 0 .. 3
  /\ None \notin Threads

VARIABLES
  schema,     \* what is committed: tables, indexes, columns, version rows
  writer,     \* the thread with an open transaction, or None
  pending,    \* what its transaction has added
  at,         \* the next statement of a thread in initialize(), or 0
  columns,    \* the columns _apply_version_three has found
  clashed,    \* whether a statement found its object in place
  disturbed   \* whether a migration was killed or failed, or two ran at once

database == <<schema, writer, pending, at, columns, clashed, disturbed>>

Statement(version, kind, object) ==
  [version |-> version, kind |-> kind, object |-> object]

\* The statements of the three versions, in order.  "look" is the PRAGMA
\* table_info of version three, "row" the INSERT into schema_migrations.
Migration ==
  <<Statement(1, "create", "model_requests"),
    Statement(1, "create", "model_requests_timestamp_idx"),
    Statement(1, "row", "version 1"),
    Statement(2, "create", "routing_decisions"),
    Statement(2, "create", "routing_decisions_timestamp_idx"),
    Statement(2, "row", "version 2"),
    Statement(3, "look", "routing_decisions"),
    Statement(3, "column", "lease_id"),
    Statement(3, "column", "capability_constraints"),
    Statement(3, "column", "excluded_models"),
    Statement(3, "create", "route_leases"),
    Statement(3, "create", "escalation_events"),
    Statement(3, "create", "escalation_events_lease_idx"),
    Statement(3, "row", "version 3")>>

Closing == Len(Migration) + 1   \* all statements are executed
Ready == Len(Migration) + 2     \* initialize() has returned

ObjectsOf(versions) ==
  {Migration[i].object : i \in {j \in DOMAIN Migration : Migration[j].version \in versions}}
Objects == ObjectsOf(1 .. 3)

\* Mutants of FirstMissing: versions are taken for applied when their first table
\* is there; versions are not looked at.
FirstMissingTable(applied) ==
  LET missing == {i \in DOMAIN Migration : Migration[i].kind = "create"
                                            /\ Migration[i].object \notin applied}
  IN  IF missing = {} THEN Ready ELSE CHOOSE i \in missing : \A j \in missing : i <= j
FirstMissingAlways(applied) == 1

\* The first statement of what is not in schema_migrations.
FirstMissing(applied) ==
  LET missing == {i \in DOMAIN Migration : \E j \in DOMAIN Migration :
                    /\ Migration[j].kind = "row"
                    /\ Migration[j].version = Migration[i].version
                    /\ Migration[j].object \notin applied}
  IN  IF missing = {} THEN Ready ELSE CHOOSE i \in missing : \A j \in missing : i <= j

DatabaseInit ==
  /\ \E version \in Deployed : schema = ObjectsOf(1 .. version)
  /\ writer = None
  /\ pending = {}
  /\ at = [t \in Threads |-> 0]
  /\ columns = [t \in Threads |-> {}]
  /\ clashed = FALSE
  /\ disturbed = FALSE

Migrating(t) == at[t] \in 1 .. Closing

-----------------------------------------------------------------------------
(* initialize() *)

\* CREATE TABLE IF NOT EXISTS schema_migrations, and what it holds.
Open(t) ==
  /\ at[t] = 0
  /\ at' = [at EXCEPT ![t] = FirstMissing(schema)]
  /\ disturbed' = (disturbed \/ (FirstMissing(schema) # Ready
                                  /\ \E u \in Threads \ {t} : Migrating(u)))
  /\ UNCHANGED <<schema, writer, pending, columns, clashed>>

Visible(t) == IF writer = t THEN schema \cup pending ELSE schema

\* The connection is closed, its transaction rolled back.
Abandon(t) ==
  /\ at' = [at EXCEPT ![t] = 0]
  /\ writer' = IF writer = t THEN None ELSE writer
  /\ pending' = IF writer = t THEN {} ELSE pending

\* "table ... already exists", "duplicate column", a version row twice.
Clash(t) ==
  /\ at[t] \in DOMAIN Migration
  /\ LET s == Migration[at[t]]
     IN  /\ s.object \in Visible(t)
         /\ \/ s.kind \in {"create", "row"}
            \/ s.kind = "column" /\ s.object \notin columns[t]
  /\ Abandon(t)
  /\ clashed' = TRUE
  /\ UNCHANGED <<schema, columns, disturbed>>

Look(t) ==
  /\ at[t] \in DOMAIN Migration
  /\ Migration[at[t]].kind = "look"
  /\ columns' = [columns EXCEPT ![t] =
                   Visible(t) \cap {s.object : s \in
                      {r \in Range(Migration) : r.kind = "column"}}]
  /\ at' = [at EXCEPT ![t] = @ + 1]
  /\ UNCHANGED <<schema, writer, pending, clashed, disturbed>>

\* Only an INSERT opens a transaction.
Opens(s) == s.kind = "row"

Execute(t) ==
  /\ at[t] \in DOMAIN Migration
  /\ writer \in {None, t}
  /\ LET s == Migration[at[t]]
     IN  /\ s.kind # "look"
         /\ s.object \notin Visible(t)
         /\ IF writer = t \/ Opens(s)
            THEN /\ pending' = pending \cup {s.object}
                 /\ writer' = t
                 /\ UNCHANGED schema
            ELSE /\ schema' = schema \cup {s.object}
                 /\ UNCHANGED <<pending, writer>>
  /\ at' = [at EXCEPT ![t] = @ + 1]
  /\ UNCHANGED <<columns, clashed, disturbed>>

\* A column that was there before is left.
Skip(t) ==
  /\ at[t] \in DOMAIN Migration
  /\ Migration[at[t]].kind = "column"
  /\ Migration[at[t]].object \in columns[t]
  /\ at' = [at EXCEPT ![t] = @ + 1]
  /\ UNCHANGED <<schema, writer, pending, columns, clashed, disturbed>>

Commit(t) ==
  /\ at[t] = Closing
  /\ schema' = IF writer = t THEN schema \cup pending ELSE schema
  /\ writer' = IF writer = t THEN None ELSE writer
  /\ pending' = IF writer = t THEN {} ELSE pending
  /\ at' = [at EXCEPT ![t] = Ready]
  /\ UNCHANGED <<columns, clashed, disturbed>>

\* busy_timeout: the lock is held for longer than a thread waits.
LockTimeout(t) ==
  /\ at[t] # 0
  /\ writer \notin {None, t}
  /\ Abandon(t)
  /\ UNCHANGED <<schema, columns, clashed, disturbed>>

\* Any other error, at any statement, the first and the INSERT of the row included:
\* the directory cannot be made, the disk is full or cannot be read.  What has
\* committed on its own stays.
DatabaseError(t) ==
  /\ Abandon(t)
  /\ disturbed' = (disturbed \/ Migrating(t))
  /\ UNCHANGED <<schema, columns, clashed>>

Initialize(t) ==
  \/ Open(t)
  \/ Clash(t)
  \/ Look(t)
  \/ Execute(t)
  \/ Skip(t)
  \/ Commit(t)
  \/ LockTimeout(t)

\* One INSERT and its commit on a second connection; what the row says is left
\* out.
Insert(t) ==
  /\ at[t] = Ready
  /\ writer = None
  /\ at' = [at EXCEPT ![t] = 0]
  /\ UNCHANGED <<schema, writer, pending, columns, clashed, disturbed>>

\* The threads are killed; SQLite rolls back what they had not committed.
Kill(killed) ==
  /\ at' = [t \in Threads |-> IF t \in killed THEN 0 ELSE at[t]]
  /\ writer' = IF writer \in killed THEN None ELSE writer
  /\ pending' = IF writer \in killed THEN {} ELSE pending
  /\ disturbed' = (disturbed \/ \E t \in killed : Migrating(t))
  /\ UNCHANGED <<schema, columns, clashed>>

-----------------------------------------------------------------------------

DatabaseTypeOK ==
  /\ schema \subseteq Objects
  /\ writer \in Threads \cup {None}
  /\ pending \subseteq Objects
  /\ pending # {} => writer # None
  /\ at \in [Threads -> 0 .. Ready]
  /\ columns \in [Threads -> SUBSET Objects]
  /\ clashed \in BOOLEAN
  /\ disturbed \in BOOLEAN

\* A thread that goes on to record, on whatever database it found and whoever
\* else was migrating it, failed or was killed, finds the whole schema: a version
\* is never recorded before its tables are committed.
InitializedIsComplete == \A t \in Threads : at[t] = Ready => Objects \subseteq schema

\* initialize() fails on what is there already only if an earlier migration was
\* killed or failed half-way, or two ran at once: none trips over itself, or over
\* what one that succeeded has left.
OnlyDisturbedMigrationsClash == clashed => disturbed

\* docs/v2_architecture.md:638: "idempotent initialization": to initialize again
\* after any earlier initialization succeeds.
InitializationIsIdempotent == ~clashed

=============================================================================
