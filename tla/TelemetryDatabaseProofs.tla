----------------------- MODULE TelemetryDatabaseProofs -----------------------
(***************************************************************************)
(* Lemmas about module TelemetryDatabase, for any threads and any schema   *)
(* version at the start: what initialize() leaves, whoever else migrates   *)
(* or is killed.  UsageStatisticsProofs states the theorems.               *)
(***************************************************************************)
EXTENDS TelemetryDatabase, TLAPS

-----------------------------------------------------------------------------
(* The statements.                                                         *)

Indices == 1 .. 14
Object(i) == Migration[i].object

\* The row that records the version of the i-th statement.
Row(i) == IF i <= 3 THEN 3 ELSE IF i <= 6 THEN 6 ELSE 14

LEMMA MigrationLength == DOMAIN Migration = Indices /\ Closing = 15 /\ Ready = 16
BY DEF Migration, Closing, Ready, Indices

LEMMA Kinds ==
  /\ Migration[1].kind = "create" /\ Migration[2].kind = "create"
  /\ Migration[3].kind = "row" /\ Migration[4].kind = "create"
  /\ Migration[5].kind = "create" /\ Migration[6].kind = "row"
  /\ Migration[7].kind = "look" /\ Migration[8].kind = "column"
  /\ Migration[9].kind = "column" /\ Migration[10].kind = "column"
  /\ Migration[11].kind = "create" /\ Migration[12].kind = "create"
  /\ Migration[13].kind = "create" /\ Migration[14].kind = "row"
BY DEF Migration, Statement

LEMMA Versions ==
  /\ Migration[1].version = 1 /\ Migration[2].version = 1
  /\ Migration[3].version = 1 /\ Migration[4].version = 2
  /\ Migration[5].version = 2 /\ Migration[6].version = 2
  /\ Migration[7].version = 3 /\ Migration[8].version = 3
  /\ Migration[9].version = 3 /\ Migration[10].version = 3
  /\ Migration[11].version = 3 /\ Migration[12].version = 3
  /\ Migration[13].version = 3 /\ Migration[14].version = 3
BY DEF Migration, Statement

LEMMA ObjectTable ==
  /\ Object(1) = "model_requests" /\ Object(2) = "model_requests_timestamp_idx"
  /\ Object(3) = "version 1" /\ Object(4) = "routing_decisions"
  /\ Object(5) = "routing_decisions_timestamp_idx" /\ Object(6) = "version 2"
  /\ Object(7) = "routing_decisions" /\ Object(8) = "lease_id"
  /\ Object(9) = "capability_constraints" /\ Object(10) = "excluded_models"
  /\ Object(11) = "route_leases" /\ Object(12) = "escalation_events"
  /\ Object(13) = "escalation_events_lease_idx" /\ Object(14) = "version 3"
BY DEF Migration, Statement, Object

LEMMA MigrationKinds ==
  \A i \in Indices : /\ Migration[i].kind = "row" <=> i \in {3, 6, 14}
                     /\ Migration[i].kind = "look" <=> i = 7
                     /\ Migration[i].kind = "column" <=> i \in 8 .. 10
                     /\ Migration[i].kind \in {"create", "row", "look", "column"}
BY Kinds DEF Indices

LEMMA MigrationVersions ==
  \A i \in Indices :
    Migration[i].version = IF i <= 3 THEN 1 ELSE IF i <= 6 THEN 2 ELSE 3
BY Versions DEF Indices

\* Every statement but the look adds something of its own.
LEMMA MigrationDistinct ==
  /\ \A i, j \in Indices \ {7} : Object(i) = Object(j) => i = j
  /\ Object(7) = Object(4)
<1>1. Object(7) = Object(4)
  BY ObjectTable
<1>2. ASSUME NEW i \in Indices \ {7}, NEW j \in Indices \ {7}, Object(i) = Object(j)
      PROVE  i = j
  <2>1. {i, j} \subseteq {1, 2, 3, 4, 5, 6, 8, 9, 10, 11, 12, 13, 14}
    BY DEF Indices
  <2>2. CASE i \in {1, 2, 3}
    BY <1>2, <2>1, <2>2, ObjectTable
  <2>3. CASE i \in {4, 5, 6}
    BY <1>2, <2>1, <2>3, ObjectTable
  <2>4. CASE i \in {8, 9, 10}
    BY <1>2, <2>1, <2>4, ObjectTable
  <2>5. CASE i \in {11, 12, 13, 14}
    BY <1>2, <2>1, <2>5, ObjectTable
  <2> QED
    BY <2>1, <2>2, <2>3, <2>4, <2>5
<1> QED
  BY <1>1, <1>2

LEMMA FirstMissingIs ==
  ASSUME NEW applied
  PROVE  FirstMissing(applied) =
           IF Object(3) \notin applied THEN 1
           ELSE IF Object(6) \notin applied THEN 4
           ELSE IF Object(14) \notin applied THEN 7
           ELSE 16
<1> DEFINE missing == {i \in DOMAIN Migration : \E j \in DOMAIN Migration :
                         /\ Migration[j].kind = "row"
                         /\ Migration[j].version = Migration[i].version
                         /\ Migration[j].object \notin applied}
<1>1. missing = {i \in Indices : Object(Row(i)) \notin applied}
  <2>1. \A i, j \in Indices :
          Migration[j].kind = "row" /\ Migration[j].version = Migration[i].version
            <=> j = Row(i)
    BY MigrationKinds, MigrationVersions DEF Row, Indices
  <2>2. \A i \in Indices : Row(i) \in Indices
    BY DEF Row, Indices
  <2> QED
    BY <2>1, <2>2, MigrationLength DEF Object
<1>2. FirstMissing(applied) =
        IF missing = {} THEN Ready
        ELSE CHOOSE i \in missing : \A j \in missing : i <= j
  BY DEF FirstMissing
<1> HIDE DEF missing
<1>3. ASSUME NEW m \in missing, \A j \in missing : m <= j
      PROVE  FirstMissing(applied) = m
  <2>1. \A i \in missing : (\A j \in missing : i <= j) => i = m
    BY <1>1, <1>3 DEF Indices
  <2> QED
    BY <1>2, <1>3, <2>1
<1>4. CASE Object(3) \notin applied
  <2>1. 1 \in missing /\ \A j \in missing : 1 <= j
    BY <1>1, <1>4 DEF Indices, Row
  <2> QED
    BY <1>3, <1>4, <2>1
<1>5. CASE Object(3) \in applied /\ Object(6) \notin applied
  <2>1. 4 \in missing /\ \A j \in missing : 4 <= j
    BY <1>1, <1>5 DEF Indices, Row
  <2> QED
    BY <1>3, <1>5, <2>1
<1>6. CASE Object(3) \in applied /\ Object(6) \in applied /\ Object(14) \notin applied
  <2>1. 7 \in missing /\ \A j \in missing : 7 <= j
    BY <1>1, <1>6 DEF Indices, Row
  <2> QED
    BY <1>3, <1>6, <2>1
<1>7. CASE Object(3) \in applied /\ Object(6) \in applied /\ Object(14) \in applied
  <2>1. missing = {}
    BY <1>1, <1>7 DEF Row
  <2> QED
    BY <1>2, <1>7, <2>1, MigrationLength
<1> QED
  BY <1>4, <1>5, <1>6, <1>7

\* What the statements before the m-th add.
Upto(m) == {Object(i) : i \in {j \in Indices : j < m}}

LEMMA ObjectsAre == Objects = {Object(i) : i \in Indices}
<1>1. \A i \in Indices : Migration[i].version \in 1 .. 3
  BY MigrationVersions
<1> QED
  BY <1>1, MigrationLength DEF Objects, ObjectsOf, Object

LEMMA DeployedUpto ==
  ASSUME NEW v \in 0 .. 3
  PROVE  \E m \in {1, 4, 7, 15} : ObjectsOf(1 .. v) = Upto(m)
<1> DEFINE m == IF v = 0 THEN 1 ELSE IF v = 1 THEN 4 ELSE IF v = 2 THEN 7 ELSE 15
<1>1. \A i \in Indices : Migration[i].version \in 1 .. v <=> i < m
  BY MigrationVersions DEF Indices
<1>2. ObjectsOf(1 .. v) = Upto(m)
  BY <1>1, MigrationLength DEF ObjectsOf, Upto, Object
<1> QED
  BY <1>2

LEMMA UptoNext ==
  ASSUME NEW i \in Indices
  PROVE  /\ Upto(i + 1) = Upto(i) \cup {Object(i)}
         /\ i # 7 => Object(i) \notin Upto(i)
         /\ i = 7 => Object(i) \in Upto(i)
<1>1. Upto(i + 1) = Upto(i) \cup {Object(i)}
  BY DEF Upto, Indices
<1>2. ASSUME i # 7, NEW j \in Indices, j < i
      PROVE  Object(j) # Object(i)
  <2>1. CASE j = 7
    <3>1. 4 \in Indices \ {7} /\ i \in Indices \ {7} /\ i # 4
      BY <1>2, <2>1 DEF Indices
    <3> QED
      BY <2>1, <3>1, MigrationDistinct
  <2>2. CASE j # 7
    <3>1. i \in Indices \ {7} /\ j \in Indices \ {7} /\ i # j
      BY <1>2, <2>2 DEF Indices
    <3> QED
      BY <3>1, MigrationDistinct
  <2> QED
    BY <2>1, <2>2
<1>3. Object(7) \in Upto(7)
  <2>1. 4 \in Indices /\ 4 < 7
    BY DEF Indices
  <2> QED
    BY <2>1, MigrationDistinct DEF Upto
<1> QED
  BY <1>1, <1>2, <1>3 DEF Upto

LEMMA FirstMissingUpto ==
  ASSUME NEW m \in {1, 4, 7, 15}
  PROVE  FirstMissing(Upto(m)) = IF m = 15 THEN Ready ELSE m
<1>1. /\ Object(3) \in Upto(m) <=> m \in {4, 7, 15}
      /\ Object(6) \in Upto(m) <=> m \in {7, 15}
      /\ Object(14) \in Upto(m) <=> m = 15
  <2>1. ASSUME NEW r \in {3, 6, 14}
        PROVE  Object(r) \in Upto(m) <=> r < m
    <3>1. CASE r < m
      BY <3>1 DEF Upto, Indices
    <3>2. CASE ~(r < m)
      <4>1. r \in Indices /\ r # 7
        BY DEF Indices
      <4>2. Upto(m) \subseteq Upto(r)
        BY <3>2 DEF Upto, Indices
      <4> QED
        BY <3>2, <4>1, <4>2, UptoNext
    <3> QED
      BY <3>1, <3>2
  <2> QED
    BY <2>1
<1> QED
  BY <1>1, FirstMissingIs, MigrationLength

-----------------------------------------------------------------------------
(* Steps of a thread, and what they leave to the others.                   *)

Works(t) == Initialize(t) \/ Insert(t) \/ DatabaseError(t)

DatabaseStep ==
  \/ \E t \in Threads : Works(t)
  \/ \E killed \in SUBSET Threads : Kill(killed)
  \/ UNCHANGED database

LEMMA InitDatabaseTyped == DatabaseInit => DatabaseTypeOK
<1> SUFFICES ASSUME DatabaseInit PROVE DatabaseTypeOK
  OBVIOUS
<1>1. schema \subseteq Objects
  BY DatabaseAssumption DEF DatabaseInit, Objects, ObjectsOf
<1>2. at \in [Threads -> 0 .. Ready]
  BY MigrationLength DEF DatabaseInit
<1>3. columns \in [Threads -> SUBSET Objects]
  BY DEF DatabaseInit
<1> QED
  BY <1>1, <1>2, <1>3 DEF DatabaseInit, DatabaseTypeOK

\* The next place of a thread is one, and its statement adds one of the objects.
LEMMA Places ==
  ASSUME DatabaseTypeOK, NEW t \in Threads
  PROVE  /\ at[t] \in 0 .. 16
         /\ at[t] \in DOMAIN Migration =>
              at[t] + 1 \in 1 .. 15 /\ Migration[at[t]].object \in Objects
         /\ FirstMissing(schema) \in {1, 4, 7, 16}
<1>1. at[t] \in 0 .. 16
  BY MigrationLength DEF DatabaseTypeOK
<1>2. \A i \in Indices : i + 1 \in 1 .. 15 /\ Migration[i].object \in Objects
  BY ObjectsAre DEF Indices, Object
<1> QED
  BY <1>1, <1>2, FirstMissingIs, MigrationLength

LEMMA StepDatabaseTyped == DatabaseTypeOK /\ DatabaseStep => DatabaseTypeOK'
<1> SUFFICES ASSUME DatabaseTypeOK, DatabaseStep PROVE DatabaseTypeOK'
  OBVIOUS
<1> USE MigrationLength, DatabaseAssumption DEF DatabaseTypeOK
<1>1. ASSUME NEW t \in Threads, Works(t)
      PROVE  DatabaseTypeOK'
  <2> USE Places
  <2>1. CASE Open(t)
    BY <2>1 DEF Open
  <2>2. CASE Clash(t)
    BY <2>2 DEF Clash, Abandon
  <2>3. CASE Look(t)
    <3>1. Visible(t) \subseteq Objects
      BY DEF Visible
    <3> QED
      BY <2>3, <3>1 DEF Look
  <2>4. CASE Execute(t)
    BY <2>4 DEF Execute
  <2>5. CASE Skip(t)
    BY <2>5 DEF Skip
  <2>6. CASE Commit(t)
    BY <2>6 DEF Commit
  <2>7. CASE LockTimeout(t)
    BY <2>7 DEF LockTimeout, Abandon
  <2>8. CASE DatabaseError(t)
    <3>1. disturbed' \in BOOLEAN
      BY <2>8 DEF DatabaseError
    <3>2. /\ at' = [at EXCEPT ![t] = 0] /\ UNCHANGED <<schema, columns, clashed>>
          /\ writer' = IF writer = t THEN None ELSE writer
          /\ pending' = IF writer = t THEN {} ELSE pending
      BY <2>8 DEF DatabaseError, Abandon
    <3> QED
      BY <3>1, <3>2
  <2>9. CASE Insert(t)
    BY <2>9 DEF Insert
  <2> QED
    BY <1>1, <2>1, <2>2, <2>3, <2>4, <2>5, <2>6, <2>7, <2>8, <2>9
       DEF Works, Initialize
<1>2. ASSUME NEW killed \in SUBSET Threads, Kill(killed)
      PROVE  DatabaseTypeOK'
  BY <1>2 DEF Kill
<1>3. CASE UNCHANGED database
  BY <1>3 DEF database
<1> QED
  BY <1>1, <1>2, <1>3 DEF DatabaseStep

\* What a thread sees is not taken from it by another, and the lock stays where it is.
LEMMA OthersSee ==
  ASSUME DatabaseTypeOK, NEW t \in Threads, Works(t),
         NEW u \in Threads \ {t}
  PROVE  /\ at'[u] = at[u] /\ columns'[u] = columns[u]
         /\ Visible(u) \subseteq Visible(u)'
         /\ writer' = u <=> writer = u
<1> USE DatabaseAssumption DEF DatabaseTypeOK, Visible
<1>1. CASE Open(t) \/ Look(t) \/ Skip(t) \/ Insert(t)
  BY <1>1 DEF Open, Look, Skip, Insert
<1>2. CASE Clash(t) \/ LockTimeout(t) \/ DatabaseError(t)
  BY <1>2 DEF Clash, LockTimeout, DatabaseError, Abandon
<1>3. CASE Execute(t)
  BY <1>3 DEF Execute
<1>4. CASE Commit(t)
  BY <1>4 DEF Commit
<1> QED
  BY <1>1, <1>2, <1>3, <1>4 DEF Works, Initialize

-----------------------------------------------------------------------------
(* What initialize() leaves.                                               *)

\* A version is recorded when all its objects are there.
RowsComplete ==
  \A i \in Indices : Object(Row(i)) \in schema => Object(i) \in schema

\* A thread has executed, or found, what comes before its place.
Executed(t) ==
  at[t] # 0 => \A i \in Indices : i < at[t] => Object(i) \in Visible(t)

Complete ==
  /\ RowsComplete
  /\ \A t \in Threads :
       /\ Executed(t)
       /\ at[t] \in 8 .. 15 => columns[t] \subseteq Visible(t)
       /\ writer = t => at[t] \in 1 .. 15

LEMMA InitComplete == DatabaseInit => Complete
<1> SUFFICES ASSUME DatabaseInit PROVE Complete
  OBVIOUS
<1>1. PICK m \in {1, 4, 7, 15} : schema = Upto(m)
  BY DatabaseAssumption, DeployedUpto DEF DatabaseInit
<1>2. RowsComplete
  <2>1. ASSUME NEW i \in Indices, Object(Row(i)) \in Upto(m)
        PROVE  Object(i) \in Upto(m)
    <3>1. Row(i) < m
      <4>1. Row(i) \in Indices /\ Row(i) # 7 /\ Row(i) \in Int /\ m \in Int
        BY DEF Row, Indices
      <4>2. ~(Row(i) < m) => Upto(m) \subseteq Upto(Row(i))
        BY <4>1 DEF Upto, Indices
      <4> QED
        BY <2>1, <4>1, <4>2, UptoNext
    <3>2. i < m
      BY <3>1 DEF Row, Indices
    <3> QED
      BY <3>2 DEF Upto
  <2> QED
    BY <1>1, <2>1 DEF RowsComplete
<1> QED
  BY <1>2, DatabaseAssumption DEF DatabaseInit, Complete, Executed

\* The rows are the objects of their statements alone.
LEMMA RowsOnly ==
  ASSUME NEW i \in Indices, NEW j \in Indices, Object(Row(i)) = Object(j), j # 7
  PROVE  Migration[j].kind = "row"
<1>1. Row(i) \in Indices \ {7} /\ Row(i) \in {3, 6, 14}
  BY DEF Row, Indices
<1>2. Row(i) = j
  BY <1>1, MigrationDistinct
<1> QED
  BY <1>1, <1>2, MigrationKinds

LEMMA StepComplete ==
  ASSUME DatabaseTypeOK, Complete, NEW t \in Threads, Works(t)
  PROVE  Complete'
<1> USE DatabaseAssumption
<1>1. /\ at[t] \in 0 .. 16 /\ at \in [Threads -> 0 .. 16]
      /\ columns \in [Threads -> SUBSET Objects]
      /\ FirstMissing(schema) \in {1, 4, 7, 16}
  BY Places, MigrationLength DEF DatabaseTypeOK
<1>2. \A u \in Threads \ {t} :
        /\ Executed(u)'
        /\ at'[u] \in 8 .. 15 => columns'[u] \subseteq Visible(u)'
        /\ writer' = u => at'[u] \in 1 .. 15
  <2> TAKE u \in Threads \ {t}
  <2>1. /\ at'[u] = at[u] /\ columns'[u] = columns[u]
        /\ Visible(u) \subseteq Visible(u)'
        /\ writer' = u <=> writer = u
    BY OthersSee
  <2> QED
    BY <2>1 DEF Complete, Executed
<1>3. ASSUME RowsComplete', Executed(t)',
             at'[t] \in 8 .. 15 => columns'[t] \subseteq Visible(t)',
             writer' = t => at'[t] \in 1 .. 15
      PROVE  Complete'
  BY <1>2, <1>3 DEF Complete
<1>4. CASE Open(t)
  <2>1. /\ at'[t] = FirstMissing(schema) /\ UNCHANGED <<schema, writer, pending, columns>>
        /\ writer # t
    BY <1>1, <1>4 DEF Open, Complete
  <2>2. Executed(t)'
    <3>1. ASSUME NEW i \in Indices, i < at'[t]
          PROVE  Object(i) \in schema
      <4>1. Object(Row(i)) \in schema
        BY <2>1, <3>1, FirstMissingIs DEF Row, Indices
      <4> QED
        BY <4>1 DEF Complete, RowsComplete
    <3> QED
      BY <2>1, <3>1 DEF Executed, Visible
  <2>3. at'[t] \notin 8 .. 15
    BY <1>1, <2>1
  <2> QED
    BY <1>3, <2>1, <2>2, <2>3 DEF Complete, RowsComplete
<1>5. CASE Clash(t) \/ LockTimeout(t) \/ DatabaseError(t)
  <2>1. at'[t] = 0 /\ writer' # t /\ UNCHANGED schema
    BY <1>1, <1>5 DEF Clash, LockTimeout, DatabaseError, Abandon
  <2> QED
    BY <1>3, <2>1 DEF Complete, RowsComplete, Executed
<1>6. CASE Look(t)
  <2>1. at[t] = 7 /\ at'[t] = 8
    BY <1>1, <1>6, MigrationKinds, MigrationLength DEF Look
  <2>2. UNCHANGED <<schema, writer, pending>> /\ columns'[t] \subseteq Visible(t)
    BY <1>1, <1>6 DEF Look
  <2>3. Object(7) \in Visible(t)
    <3>1. 4 \in Indices /\ Object(4) = Object(7)
      BY MigrationDistinct DEF Indices
    <3> QED
      BY <2>1, <3>1 DEF Complete, Executed
  <2>4. Executed(t)'
    BY <2>1, <2>2, <2>3 DEF Complete, Executed, Visible, Indices
  <2> QED
    BY <1>3, <2>1, <2>2, <2>4 DEF Complete, RowsComplete, Visible
<1>7. CASE Execute(t)
  <2> DEFINE i == at[t]
  <2>1. i \in Indices /\ i # 7 /\ at'[t] = i + 1 /\ columns' = columns
    BY <1>1, <1>7, MigrationKinds, MigrationLength DEF Execute
  <2>2. Object(i) \in Visible(t)' /\ Visible(t) \subseteq Visible(t)'
    BY <1>7 DEF Execute, Visible, Object, DatabaseTypeOK
  <2>3. \/ UNCHANGED schema
        \/ schema' = schema \cup {Object(i)} /\ Migration[i].kind # "row"
    BY <1>7 DEF Execute, Object, Opens
  <2>4. RowsComplete'
    <3>1. ASSUME NEW j \in Indices, Object(Row(j)) \in schema', Migration[i].kind # "row",
                 schema' = schema \cup {Object(i)}
          PROVE  Object(j) \in schema'
      <4>1. Object(Row(j)) # Object(i)
        BY <2>1, <3>1, RowsOnly
      <4> QED
        BY <3>1, <4>1 DEF Complete, RowsComplete
    <3> QED
      BY <2>3, <3>1 DEF Complete, RowsComplete
  <2>5. Executed(t)'
    BY <2>1, <2>2 DEF Complete, Executed, Indices
  <2>6. at'[t] \in 8 .. 15 => columns'[t] \subseteq Visible(t)'
    BY <2>1, <2>2 DEF Complete, Indices
  <2>7. at'[t] \in 1 .. 15
    BY <2>1 DEF Indices
  <2> QED
    BY <1>3, <2>4, <2>5, <2>6, <2>7
<1>8. CASE Skip(t)
  <2>1. /\ at[t] \in 8 .. 10 /\ at'[t] = at[t] + 1 /\ Object(at[t]) \in columns[t]
        /\ UNCHANGED <<schema, writer, pending, columns>>
    BY <1>1, <1>8, MigrationKinds, MigrationLength DEF Skip, Object
  <2>2. Object(at[t]) \in Visible(t)
    BY <2>1 DEF Complete
  <2>3. Executed(t)'
    BY <2>1, <2>2 DEF Complete, Executed, Visible, Indices
  <2> QED
    BY <1>3, <2>1, <2>3 DEF Complete, RowsComplete, Visible
<1>9. CASE Commit(t)
  <2>1. /\ at[t] = 15 /\ at'[t] = 16 /\ writer' # t
        /\ schema' = Visible(t)
    BY <1>1, <1>9, MigrationLength DEF Commit, Visible
  <2>2. \A i \in Indices : Object(i) \in schema'
    BY <2>1 DEF Complete, Executed, Indices
  <2> QED
    BY <1>3, <2>1, <2>2 DEF RowsComplete, Executed, Visible
<1>10. CASE Insert(t)
  <2>1. at'[t] = 0 /\ writer' # t /\ UNCHANGED schema
    BY <1>1, <1>10 DEF Insert
  <2> QED
    BY <1>3, <2>1 DEF Complete, RowsComplete, Executed
<1> QED
  BY <1>4, <1>5, <1>6, <1>7, <1>8, <1>9, <1>10 DEF Works, Initialize

LEMMA KillComplete ==
  ASSUME DatabaseTypeOK, Complete, NEW killed \in SUBSET Threads, Kill(killed)
  PROVE  Complete'
<1>1. schema' = schema /\ columns' = columns
  BY DEF Kill
<1>2. ASSUME NEW t \in Threads \ killed
      PROVE  at'[t] = at[t] /\ Visible(t)' = Visible(t) /\ (writer' = t <=> writer = t)
  BY DatabaseAssumption DEF Kill, Visible
<1>3. ASSUME NEW t \in killed
      PROVE  at'[t] = 0 /\ writer' # t
  BY DatabaseAssumption DEF Kill
<1> QED
  BY <1>1, <1>2, <1>3 DEF Complete, RowsComplete, Executed

LEMMA DatabaseStepComplete == DatabaseTypeOK /\ Complete /\ DatabaseStep => Complete'
<1>1. Complete /\ UNCHANGED database => Complete'
  BY DEF database, Complete, RowsComplete, Executed, Visible
<1> QED
  BY <1>1, StepComplete, KillComplete DEF DatabaseStep

\* A thread that has returned from initialize() finds every object committed.
LEMMA CompleteIsEnough == DatabaseTypeOK /\ Complete => InitializedIsComplete
<1> SUFFICES ASSUME DatabaseTypeOK, Complete, NEW t \in Threads, at[t] = Ready
             PROVE  Objects \subseteq schema
  BY DEF InitializedIsComplete
<1>1. writer # t
  BY MigrationLength DEF Complete
<1>2. \A i \in Indices : Object(i) \in schema
  BY <1>1, MigrationLength DEF Complete, Executed, Visible, Indices
<1> QED
  BY <1>2, ObjectsAre

-----------------------------------------------------------------------------
(* A migration nobody disturbs.                                            *)

\* As long as no migration was killed, failed or met another, at most one thread migrates,
\* it has added what comes before its place and nothing else, and between two
\* migrations the schema is that of a version.
Undisturbed ==
  ~disturbed =>
    /\ \A t, u \in Threads : Migrating(t) /\ Migrating(u) => t = u
    /\ \A t \in Threads : Migrating(t) => Visible(t) = Upto(at[t])
    /\ (\A t \in Threads : ~Migrating(t)) => \E m \in {1, 4, 7, 15} : schema = Upto(m)
    /\ ~clashed

LEMMA InitUndisturbed == DatabaseInit => Undisturbed
<1> SUFFICES ASSUME DatabaseInit PROVE Undisturbed
  OBVIOUS
<1>1. \E m \in {1, 4, 7, 15} : schema = Upto(m)
  BY DatabaseAssumption, DeployedUpto DEF DatabaseInit
<1>2. \A t \in Threads : ~Migrating(t)
  BY DEF DatabaseInit, Migrating
<1> QED
  BY <1>1, <1>2 DEF DatabaseInit, Undisturbed

\* A step of a thread that does not migrate, before and after, is none of the schema.
LEMMA IdleUndisturbed ==
  ASSUME Undisturbed, NEW t \in Threads, at \in [Threads -> 0 .. 16],
         ~Migrating(t), ~Migrating(t)',
         \A u \in Threads \ {t} : at'[u] = at[u],
         UNCHANGED <<schema, writer, pending, clashed>>, ~disturbed' => ~disturbed
  PROVE  Undisturbed'
<1>1. \A u \in Threads : Migrating(u)' <=> Migrating(u)
  BY DEF Migrating
<1>2. \A u \in Threads : Migrating(u) => at'[u] = at[u]
  BY <1>1
<1> QED
  BY <1>1, <1>2 DEF Undisturbed, Visible

\* The step of the one that migrates, as it goes on.
LEMMA MigratingUndisturbed ==
  ASSUME Undisturbed, NEW t \in Threads, Migrating(t), Migrating(t)',
         \A u \in Threads \ {t} : at'[u] = at[u],
         ~disturbed' => ~disturbed, ~disturbed => Visible(t)' = Upto(at'[t]),
         clashed' = clashed
  PROVE  Undisturbed'
<1>1. \A u \in Threads \ {t} : Migrating(u)' <=> Migrating(u)
  BY DEF Migrating
<1> QED
  BY <1>1 DEF Undisturbed

LEMMA StepUndisturbed ==
  ASSUME DatabaseTypeOK, Complete, Undisturbed, NEW t \in Threads,
         Works(t)
  PROVE  Undisturbed'
<1> USE DatabaseAssumption
<1>1. /\ at[t] \in 0 .. 16 /\ at \in [Threads -> 0 .. 16]
      /\ columns \in [Threads -> SUBSET Objects]
      /\ FirstMissing(schema) \in {1, 4, 7, 16}
      /\ Closing = 15 /\ Ready = 16
  BY Places, MigrationLength DEF DatabaseTypeOK
<1>2. \A u \in Threads \ {t} : at'[u] = at[u]
  BY OthersSee
<1>3. \A u \in Threads : writer = u => Migrating(u)
  BY <1>1 DEF Complete, Migrating
<1>4. CASE Open(t)
  <2>1. at[t] = 0 /\ at'[t] = FirstMissing(schema)
        /\ UNCHANGED <<schema, writer, pending, columns, clashed>>
    BY <1>1, <1>4 DEF Open
  <2>2. CASE FirstMissing(schema) = Ready
    <3>1. ~disturbed' => ~disturbed
      BY <1>4 DEF Open
    <3>2. ~Migrating(t) /\ ~Migrating(t)'
      BY <1>1, <2>1, <2>2 DEF Migrating
    <3> QED
      BY <1>1, <1>2, <2>1, <3>1, <3>2, IdleUndisturbed
  <2>3. CASE FirstMissing(schema) # Ready
    <3> SUFFICES ASSUME ~disturbed' PROVE Undisturbed'
      BY DEF Undisturbed
    <3>1. ~disturbed /\ \A u \in Threads : ~Migrating(u)
      <4>1. ~disturbed /\ ~\E u \in Threads \ {t} : Migrating(u)
        BY <1>4, <2>3 DEF Open
      <4>2. ~Migrating(t)
        BY <1>1, <2>1 DEF Migrating
      <4> QED
        BY <4>1, <4>2
    <3>2. PICK m \in {1, 4, 7, 15} : schema = Upto(m)
      BY <3>1 DEF Undisturbed
    <3>3. FirstMissing(schema) = m
      BY <2>3, <3>2, FirstMissingUpto
    <3>4. writer # t
      BY <1>3, <3>1
    <3>5. Visible(t)' = Upto(at'[t]) /\ Migrating(t)'
      BY <1>1, <2>1, <3>2, <3>3, <3>4 DEF Visible, Migrating
    <3>6. \A u \in Threads \ {t} : ~Migrating(u)'
      BY <1>2, <3>1 DEF Migrating
    <3> QED
      BY <2>1, <3>1, <3>5, <3>6 DEF Undisturbed
  <2> QED
    BY <2>2, <2>3
<1>5. CASE Clash(t)
  <2> SUFFICES ASSUME ~disturbed' PROVE FALSE
    BY DEF Undisturbed
  <2>1. /\ ~disturbed /\ at[t] \in Indices /\ at[t] # 7
        /\ Object(at[t]) \in Visible(t)
    BY <1>1, <1>5, MigrationKinds, MigrationLength DEF Clash, Object
  <2>2. Visible(t) = Upto(at[t])
    BY <1>1, <2>1 DEF Undisturbed, Migrating, Indices
  <2> QED
    BY <2>1, <2>2, UptoNext
<1>6. CASE Look(t)
  <2>1. /\ at[t] = 7 /\ at'[t] = 8
        /\ UNCHANGED <<schema, writer, pending, clashed, disturbed>>
    BY <1>1, <1>6, MigrationKinds, MigrationLength DEF Look
  <2>2. Migrating(t) /\ Migrating(t)'
    BY <1>1, <2>1 DEF Migrating, Closing
  <2>3. Upto(8) = Upto(7)
    <3>1. 7 \in Indices /\ 7 + 1 = 8
      BY DEF Indices
    <3> QED
      BY <3>1, UptoNext
  <2>4. ~disturbed => Visible(t)' = Upto(at'[t])
    BY <2>1, <2>2, <2>3 DEF Undisturbed, Visible
  <2> QED
    BY <1>2, <2>1, <2>2, <2>4, MigratingUndisturbed
<1>7. CASE Execute(t)
  <2> DEFINE i == at[t]
  <2>1. /\ i \in Indices /\ at'[t] = i + 1 /\ UNCHANGED <<clashed, disturbed>>
        /\ i + 1 \in 1 .. 15
    BY <1>1, <1>7, MigrationLength DEF Execute, Indices
  <2>2. Migrating(t) /\ Migrating(t)'
    BY <1>1, <2>1 DEF Migrating, Indices
  <2>3. Visible(t)' = Visible(t) \cup {Object(i)}
    BY <1>7 DEF Execute, Visible, Object, DatabaseTypeOK
  <2>4. ~disturbed => Visible(t)' = Upto(at'[t])
    BY <2>1, <2>2, <2>3, UptoNext DEF Undisturbed
  <2> QED
    BY <1>2, <2>1, <2>2, <2>4, MigratingUndisturbed
<1>8. CASE Skip(t)
  <2> SUFFICES ASSUME ~disturbed' PROVE FALSE
    BY DEF Undisturbed
  <2>1. ~disturbed /\ at[t] \in 8 .. 10 /\ Object(at[t]) \in columns[t]
    BY <1>1, <1>8, MigrationKinds, MigrationLength DEF Skip, Object
  <2>2. at[t] \in Indices /\ at[t] # 7 /\ Object(at[t]) \in Visible(t)
    BY <2>1 DEF Complete, Indices
  <2>3. Visible(t) = Upto(at[t])
    BY <1>1, <2>1 DEF Undisturbed, Migrating
  <2> QED
    BY <2>2, <2>3, UptoNext
<1>9. CASE Commit(t)
  <2> SUFFICES ASSUME ~disturbed' PROVE Undisturbed'
    BY DEF Undisturbed
  <2>1. /\ at[t] = 15 /\ at'[t] = 16 /\ schema' = Visible(t)
        /\ ~disturbed /\ clashed' = clashed
    BY <1>1, <1>9 DEF Commit, Visible
  <2>2. Migrating(t) /\ schema' = Upto(15)
    BY <1>1, <2>1 DEF Undisturbed, Migrating
  <2>3. \A u \in Threads : ~Migrating(u)'
    BY <1>1, <1>2, <2>1, <2>2 DEF Undisturbed, Migrating
  <2> QED
    BY <2>1, <2>2, <2>3 DEF Undisturbed
<1>10. CASE LockTimeout(t) \/ DatabaseError(t)
  <2> SUFFICES ASSUME ~disturbed' PROVE Undisturbed'
    BY DEF Undisturbed
  <2>1. ~Migrating(t) /\ (~disturbed' => ~disturbed)
    <3>1. CASE LockTimeout(t)
      <4>1. writer \in Threads \ {t} /\ UNCHANGED disturbed
        BY <3>1 DEF LockTimeout, DatabaseTypeOK
      <4> QED
        BY <1>3, <4>1 DEF Undisturbed
    <3>2. CASE DatabaseError(t)
      BY <3>2 DEF DatabaseError
    <3> QED
      BY <1>10, <3>1, <3>2
  <2>2. writer # t
    BY <1>3, <2>1
  <2>3. at'[t] = 0 /\ UNCHANGED <<schema, writer, pending, clashed>>
    BY <1>1, <1>10, <2>2 DEF LockTimeout, DatabaseError, Abandon
  <2> QED
    BY <1>1, <1>2, <2>1, <2>3, IdleUndisturbed DEF Migrating
<1>11. CASE Insert(t)
  <2>1. /\ at[t] = 16 /\ at'[t] = 0
        /\ UNCHANGED <<schema, writer, pending, clashed, disturbed>>
    BY <1>1, <1>11 DEF Insert
  <2> QED
    BY <1>1, <1>2, <2>1, IdleUndisturbed DEF Migrating
<1> QED
  BY <1>4, <1>5, <1>6, <1>7, <1>8, <1>9, <1>10, <1>11 DEF Works, Initialize

LEMMA KillUndisturbed ==
  ASSUME DatabaseTypeOK, Complete, Undisturbed, NEW killed \in SUBSET Threads,
         Kill(killed)
  PROVE  Undisturbed'
<1> SUFFICES ASSUME ~disturbed' PROVE Undisturbed'
  BY DEF Undisturbed
<1>1. ~disturbed /\ \A t \in killed : ~Migrating(t)
  BY DEF Kill
<1>2. \A t \in Threads : Migrating(t)' <=> Migrating(t)
  BY <1>1, MigrationLength DEF Kill, Migrating
<1>3. \A t \in Threads : Migrating(t) => at'[t] = at[t] /\ Visible(t)' = Visible(t)
  BY <1>1, DatabaseAssumption DEF Kill, Visible
<1>4. schema' = schema /\ clashed' = clashed
  BY DEF Kill
<1> QED
  BY <1>1, <1>2, <1>3, <1>4 DEF Undisturbed

LEMMA DatabaseStepUndisturbed ==
  DatabaseTypeOK /\ Complete /\ Undisturbed /\ DatabaseStep => Undisturbed'
<1>1. ASSUME Undisturbed, UNCHANGED database
      PROVE  Undisturbed'
  <2>1. UNCHANGED <<schema, writer, pending, at, clashed, disturbed>>
    BY <1>1 DEF database
  <2>2. \A t \in Threads : (Migrating(t)' <=> Migrating(t)) /\ Visible(t)' = Visible(t)
    BY <2>1 DEF Migrating, Visible
  <2> QED
    BY <1>1, <2>1, <2>2 DEF Undisturbed
<1> QED
  BY <1>1, StepUndisturbed, KillUndisturbed DEF DatabaseStep

=============================================================================
