------------------------ MODULE UsageStatisticsProofs ------------------------
(***************************************************************************)
(* Theorems about module UsageStatistics, for any threads, processes and   *)
(* number of events kept, and for any schema version at the start.         *)
(***************************************************************************)
EXTENDS UsageStatistics, TelemetryDatabaseProofs, SequenceTheorems

-----------------------------------------------------------------------------
(* The database under the recorder.                                        *)

LEMMA DatabaseSteps == [StatisticsNext]_statisticsVars => DatabaseStep
<1>1. ASSUME NEW t \in Threads, Begin(t) \/ Thread(t)
      PROVE  DatabaseStep
  BY <1>1 DEF Begin, Thread, Load, Replace, WriteFails, Record, DatabaseStep, Works
<1>2. ASSUME NEW p \in Processes, KillProcess(p)
      PROVE  DatabaseStep
  BY <1>2 DEF KillProcess, DatabaseStep
<1>3. UNCHANGED statisticsVars => DatabaseStep
  BY DEF statisticsVars, DatabaseStep
<1> QED
  BY <1>1, <1>2, <1>3 DEF StatisticsNext

LEMMA DatabaseHolds ==
  StatisticsSpec => [](DatabaseTypeOK /\ Complete /\ Undisturbed)
<1>1. StatisticsInit => DatabaseTypeOK /\ Complete /\ Undisturbed
  BY InitDatabaseTyped, InitComplete, InitUndisturbed DEF StatisticsInit
<1>2. DatabaseTypeOK /\ Complete /\ Undisturbed /\ [StatisticsNext]_statisticsVars
        => (DatabaseTypeOK /\ Complete /\ Undisturbed)'
  BY DatabaseSteps, StepDatabaseTyped, DatabaseStepComplete, DatabaseStepUndisturbed
<1> QED
  BY <1>1, <1>2, PTL DEF StatisticsSpec

\* For any number of threads and processes, on a database of any version, and
\* whoever is killed: who records has the whole schema.
THEOREM InitializedIsCompleteHolds == StatisticsSpec => []InitializedIsComplete
BY DatabaseHolds, CompleteIsEnough, PTL

\* A migration does not fail on what it finds, unless one was killed or failed
\* half-way before, or two run at once.
THEOREM OnlyDisturbedMigrationsClashHolds ==
  StatisticsSpec => []OnlyDisturbedMigrationsClash
<1>1. Undisturbed => OnlyDisturbedMigrationsClash
  BY DEF Undisturbed, OnlyDisturbedMigrationsClash
<1> QED
  BY <1>1, DatabaseHolds, PTL

-----------------------------------------------------------------------------
(* The events kept.                                                        *)

LEMMA LastOfType ==
  ASSUME NEW S, NEW s \in Seq(S), NEW n \in Nat \ {0}
  PROVE  LastOf(s, n) \in Seq(S) /\ Len(LastOf(s, n)) <= n
<1>1. CASE Len(s) <= n
  BY <1>1 DEF LastOf
<1>2. CASE ~(Len(s) <= n)
  BY <1>2 DEF LastOf
<1> QED
  BY <1>1, <1>2

\* To keep the last n again and again is to keep the last n at the end.
LEMMA LastOfAppend ==
  ASSUME NEW S, NEW s \in Seq(S), NEW n \in Nat \ {0}, NEW e \in S
  PROVE  LastOf(Append(LastOf(s, n), e), n) = LastOf(Append(s, e), n)
<1>1. CASE Len(s) <= n
  BY <1>1 DEF LastOf
<1>2. CASE ~(Len(s) <= n)
  <2> DEFINE L == Len(s)
             k == SubSeq(s, L - n + 1, L)
             a == Append(k, e)
             b == Append(s, e)
  <2>1. L \in Nat /\ L > n /\ k \in Seq(S) /\ Len(k) = n
        /\ \A i \in 1 .. n : k[i] = s[L - n + i]
    BY <1>2
  <2>2. /\ a \in Seq(S) /\ b \in Seq(S) /\ Len(a) = n + 1 /\ Len(b) = L + 1
        /\ \A i \in 1 .. n : a[i] = k[i]
        /\ a[n + 1] = e /\ b[L + 1] = e
        /\ \A i \in 1 .. L : b[i] = s[i]
    BY <2>1
  <2>3. LastOf(Append(LastOf(s, n), e), n) = SubSeq(a, 2, n + 1)
    <3>1. LastOf(s, n) = k
      BY <1>2 DEF LastOf
    <3>2. ~(Len(a) <= n) /\ Len(a) - n + 1 = 2
      BY <2>2
    <3> HIDE DEF k
    <3> QED
      BY <2>2, <3>1, <3>2 DEF LastOf
  <2>4. LastOf(b, n) = SubSeq(b, L + 2 - n, L + 1)
    <3>1. ~(Len(b) <= n) /\ Len(b) - n + 1 = L + 2 - n
      BY <2>1, <2>2
    <3> HIDE DEF b
    <3> QED
      BY <2>2, <3>1 DEF LastOf
  <2> HIDE DEF L, k, a, b
  <2>5. /\ SubSeq(a, 2, n + 1) \in Seq(S) /\ Len(SubSeq(a, 2, n + 1)) = n
        /\ \A i \in 1 .. n : SubSeq(a, 2, n + 1)[i] = a[i + 1]
    BY <2>2
  <2>6. /\ SubSeq(b, L + 2 - n, L + 1) \in Seq(S)
        /\ Len(SubSeq(b, L + 2 - n, L + 1)) = n
        /\ \A i \in 1 .. n : SubSeq(b, L + 2 - n, L + 1)[i] = b[L + 1 - n + i]
    BY <2>1, <2>2
  <2>7. \A i \in 1 .. n : a[i + 1] = b[L + 1 - n + i]
    <3> TAKE i \in 1 .. n
    <3>1. CASE i = n
      BY <2>1, <2>2, <3>1
    <3>2. CASE i # n
      <4>1. i + 1 \in 1 .. n /\ L + 1 - n + i \in 1 .. L /\ L - n + (i + 1) = L + 1 - n + i
        BY <2>1, <3>2
      <4> QED
        BY <2>1, <2>2, <4>1
    <3> QED
      BY <3>1, <3>2
  <2>8. SubSeq(a, 2, n + 1) = SubSeq(b, L + 2 - n, L + 1)
    <3> DEFINE x == SubSeq(a, 2, n + 1)
               y == SubSeq(b, L + 2 - n, L + 1)
    <3>1. \A i \in 1 .. n : x[i] = y[i]
      BY <2>5, <2>6, <2>7
    <3> HIDE DEF x, y
    <3> QED
      BY <2>5, <2>6, <3>1, SeqEqual DEF x, y
  <2> QED
    BY <2>3, <2>4, <2>8 DEF b
<1> QED
  BY <1>1, <1>2

-----------------------------------------------------------------------------
(* The file.                                                               *)

\* Types; who writes holds the lock of its process; who could not read has nothing.
Locked ==
  /\ StatisticsTypeOK
  /\ \A t \in Threads :
       /\ step[t] = "writing" => holder[process[t]] = t
       /\ t \in unread => loaded[t] = <<>>

LEMMA InitLocked == StatisticsInit => Locked
<1> SUFFICES ASSUME StatisticsInit PROVE Locked
  OBVIOUS
<1>1. DatabaseTypeOK
  BY InitDatabaseTyped DEF StatisticsInit
<1>2. <<>> \in Seq(Event) /\ Len(<<>>) = 0
  OBVIOUS
<1> QED
  BY <1>1, <1>2, StatisticsAssumption DEF StatisticsInit, Locked, StatisticsTypeOK

LEMMA NextLocked == Locked /\ [StatisticsNext]_statisticsVars => Locked'
<1> SUFFICES ASSUME Locked, [StatisticsNext]_statisticsVars PROVE Locked'
  OBVIOUS
<1>1. DatabaseTypeOK'
  BY DatabaseSteps, StepDatabaseTyped DEF Locked, StatisticsTypeOK
<1>2. /\ process \in [Threads -> Processes] /\ process \in Owners
      /\ step \in [Threads -> {"idle", "locking", "writing", "database"}]
      /\ count \in [Threads -> Nat] /\ (\A t \in Threads : count[t] <= MaxRecords[t])
      /\ holder \in [Processes -> Threads \cup {None}]
      /\ loaded \in [Threads -> Seq(Event)]
      /\ unread \subseteq {t \in Threads : step[t] = "writing"}
      /\ \A t \in unread : loaded[t] = <<>>
      /\ file \in Seq(Event) /\ Len(file) <= MaxEvents
      /\ log \in Seq(Event)
      /\ faults \in 0 .. MaxFaults
      /\ MaxRecords \in [Threads -> Nat] /\ MaxFaults \in Nat /\ MaxEvents \in Nat \ {0}
      /\ None \notin Threads
  BY StatisticsAssumption, DatabaseAssumption DEF Locked, StatisticsTypeOK
<1>3. <<>> \in Seq(Event)
  OBVIOUS
<1>4. \A t \in Threads : Current(t) \in Event
  BY <1>2 DEF Current, Event
<1> USE DEF Locked
<1>5. ASSUME NEW t \in Threads, Begin(t)
      PROVE  Locked'
  <2>1. /\ step[t] = "idle" /\ count[t] < MaxRecords[t]
        /\ count' = [count EXCEPT ![t] = @ + 1]
        /\ \/ step' = [step EXCEPT ![t] = "locking"]
           \/ step' = [step EXCEPT ![t] = "database"]
        /\ UNCHANGED <<process, holder, loaded, unread, file, log, faults>>
    BY <1>5 DEF Begin, Goto
  <2>2. count[t] + 1 \in Nat /\ count[t] + 1 <= MaxRecords[t]
    BY <1>2, <2>1
  <2>3. /\ count' \in [Threads -> Nat] /\ (\A u \in Threads : count'[u] <= MaxRecords[u])
        /\ step' \in [Threads -> {"idle", "locking", "writing", "database"}]
    <3>1. count' \in [Threads -> Nat] /\ \A u \in Threads : count'[u] <= MaxRecords[u]
      BY <1>2, <2>1, <2>2
    <3>2. step' \in [Threads -> {"idle", "locking", "writing", "database"}]
      <4>1. step \in [Threads -> {"idle", "locking", "writing", "database"}]
        BY <1>2
      <4> QED
        BY <2>1, <4>1
    <3> QED
      BY <3>1, <3>2
  <2>4. \A u \in Threads : /\ step'[u] = "writing" => holder'[process'[u]] = u
                           /\ u \in unread' => step'[u] = "writing" /\ loaded'[u] = <<>>
    BY <1>2, <2>1, <2>2
  <2> QED
    BY <1>1, <1>2, <2>1, <2>3, <2>4 DEF StatisticsTypeOK
<1>6. ASSUME NEW t \in Threads, Load(t)
      PROVE  Locked'
  <2>1. /\ step[t] = "locking" /\ holder[process[t]] = None
        /\ holder' = [holder EXCEPT ![process[t]] = t]
        /\ \/ loaded' = [loaded EXCEPT ![t] = file] /\ unread' = unread
           \/ loaded' = [loaded EXCEPT ![t] = <<>>] /\ unread' = unread \cup {t}
        /\ faults' \in 0 .. MaxFaults
        /\ step' = [step EXCEPT ![t] = "writing"]
        /\ UNCHANGED <<process, count, file, log>>
    BY <1>2, <1>6 DEF Load, Free, Goto, Fault
  <2>2. \A u \in Threads : /\ step'[u] = "writing" => holder'[process'[u]] = u
                           /\ u \in unread' => step'[u] = "writing" /\ loaded'[u] = <<>>
    BY <1>2, <2>1
  <2>3. step' \in [Threads -> {"idle", "locking", "writing", "database"}]
    BY <1>2, <2>1
  <2>4. holder' \in [Processes -> Threads \cup {None}]
    BY <1>2, <2>1
  <2>5. loaded' \in [Threads -> Seq(Event)]
    BY <1>2, <1>3, <2>1
  <2> QED
    BY <1>1, <1>2, <2>1, <2>2, <2>3, <2>4, <2>5 DEF StatisticsTypeOK
<1>7. ASSUME NEW t \in Threads, Replace(t) \/ WriteFails(t)
      PROVE  Locked'
  <2>1. /\ step[t] = "writing"
        /\ holder' = [holder EXCEPT ![process[t]] = None]
        /\ loaded' = [loaded EXCEPT ![t] = <<>>] /\ unread' = unread \ {t}
        /\ \/ step' = [step EXCEPT ![t] = "idle"]
           \/ step' = [step EXCEPT ![t] = "database"]
        /\ UNCHANGED <<process, count, faults>>
    BY <1>2, <1>7 DEF Replace, WriteFails, Goto, Unlock, Released
  <2>2. file' \in Seq(Event) /\ Len(file') <= MaxEvents /\ log' \in Seq(Event)
    <3>1. CASE Replace(t)
      <4> DEFINE events == Append(loaded[t], Current(t))
      <4>1. Current(t) \in Event
        BY <1>4, <2>1
      <4>2. /\ events \in Seq(Event) /\ Append(log, Current(t)) \in Seq(Event)
            /\ <<Current(t)>> \in Seq(Event)
        BY <1>2, <4>1
      <4> HIDE DEF events
      <4>3. LastOf(events, MaxEvents) \in Seq(Event)
            /\ Len(LastOf(events, MaxEvents)) <= MaxEvents
        BY <1>2, <4>2, LastOfType
      <4> QED
        BY <3>1, <4>2, <4>3 DEF Replace, Kept, events
    <3>2. CASE WriteFails(t)
      BY <1>2, <3>2 DEF WriteFails
    <3> QED
      BY <1>7, <3>1, <3>2
  <2>3. \A u \in Threads \ {t} : step[u] = "writing" => process[u] # process[t]
    BY <2>1
  <2>4. \A u \in Threads : /\ step'[u] = "writing" => holder'[process'[u]] = u
                           /\ u \in unread' => step'[u] = "writing" /\ loaded'[u] = <<>>
    BY <1>2, <2>1, <2>3
  <2>5. step' \in [Threads -> {"idle", "locking", "writing", "database"}]
    BY <1>2, <2>1
  <2>6. holder' \in [Processes -> Threads \cup {None}]
    BY <1>2, <2>1
  <2>7. loaded' \in [Threads -> Seq(Event)]
    BY <1>2, <1>3, <2>1
  <2> QED
    BY <1>1, <1>2, <2>1, <2>2, <2>4, <2>5, <2>6, <2>7 DEF StatisticsTypeOK
<1>8. ASSUME NEW t \in Threads, Record(t)
      PROVE  Locked'
  <2>1. /\ step[t] = "database"
        /\ step' = [step EXCEPT ![t] = "idle"] \/ step' = step
        /\ UNCHANGED <<process, count, holder, loaded, unread, file, log>>
        /\ faults' \in 0 .. MaxFaults
    BY <1>2, <1>8 DEF Record, Goto, Fault
  <2>2. \A u \in Threads : /\ step'[u] = "writing" => holder'[process'[u]] = u
                           /\ u \in unread' => step'[u] = "writing" /\ loaded'[u] = <<>>
    BY <1>2, <2>1
  <2>3. step' \in [Threads -> {"idle", "locking", "writing", "database"}]
    BY <1>2, <2>1
  <2> QED
    BY <1>1, <1>2, <2>1, <2>2, <2>3 DEF StatisticsTypeOK
<1>9. ASSUME NEW p \in Processes, KillProcess(p)
      PROVE  Locked'
  <2> DEFINE killed == {t \in Threads : process[t] = p}
  <2>1. /\ faults' \in 0 .. MaxFaults
        /\ step' = [t \in Threads |-> IF t \in killed THEN "idle" ELSE step[t]]
        /\ loaded' = [t \in Threads |-> IF t \in killed THEN <<>> ELSE loaded[t]]
        /\ holder' = [holder EXCEPT ![p] = None] /\ unread' = unread \ killed
        /\ UNCHANGED <<process, count, file, log>>
    BY <1>2, <1>9 DEF KillProcess, Fault
  <2>2. \A u \in Threads : /\ step'[u] = "writing" => holder'[process'[u]] = u
                           /\ u \in unread' => step'[u] = "writing" /\ loaded'[u] = <<>>
    BY <1>2, <2>1
  <2>3. /\ step' \in [Threads -> {"idle", "locking", "writing", "database"}]
        /\ holder' \in [Processes -> Threads \cup {None}]
        /\ loaded' \in [Threads -> Seq(Event)]
    BY <1>2, <1>3, <2>1
  <2> QED
    BY <1>1, <1>2, <2>1, <2>2, <2>3 DEF StatisticsTypeOK
<1>10. CASE UNCHANGED statisticsVars
  BY <1>1, <1>10 DEF statisticsVars, files, StatisticsTypeOK
<1> QED
  BY <1>5, <1>6, <1>7, <1>8, <1>9, <1>10 DEF StatisticsNext, Thread

LEMMA LockedHolds == StatisticsSpec => []Locked
BY InitLocked, NextLocked, PTL DEF StatisticsSpec

\* Type correctness, the length of the file included.
THEOREM StatisticsTypeCorrect == StatisticsSpec => []StatisticsTypeOK
BY LockedHolds, PTL DEF Locked

\* What a thread has read is what there is, as long as only its process has written.
Fresh ==
  /\ OneProcessLosesNothing
  /\ \A t \in Threads :
       /\ step[t] = "writing" /\ t \notin unread
       /\ \A i \in DOMAIN log : process[log[i][1]] = process[t]
       => loaded[t] = file

LEMMA InitFresh == StatisticsInit => Fresh
<1> SUFFICES ASSUME StatisticsInit PROVE Fresh
  OBVIOUS
<1>1. file = LastOf(log, MaxEvents)
  BY StatisticsAssumption DEF StatisticsInit, LastOf
<1> QED
  BY <1>1 DEF StatisticsInit, Fresh, OneProcessLosesNothing

\* A write adds to what all earlier ones of the process have left.
LEMMA ReplaceFresh ==
  ASSUME Locked, Fresh, NEW t \in Threads, Replace(t)
  PROVE  Fresh'
<1> DEFINE e == Current(t)
<1>1. /\ process \in [Threads -> Processes] /\ log \in Seq(Event)
      /\ holder \in [Processes -> Threads \cup {None}]
      /\ step \in [Threads -> {"idle", "locking", "writing", "database"}]
      /\ loaded \in [Threads -> Seq(Event)]
      /\ MaxEvents \in Nat \ {0} /\ e \in Event /\ e[1] = t
  BY StatisticsAssumption DEF Locked, StatisticsTypeOK, Replace, Current, Event
<1>2. /\ step[t] = "writing" /\ step'[t] = "database" /\ process' = process
      /\ file' = LastOf(Append(loaded[t], e), MaxEvents)
      /\ log' = IF t \in unread THEN <<e>> ELSE Append(log, e)
      /\ unread' = unread \ {t}
      /\ \A u \in Threads \ {t} : step'[u] = step[u] /\ loaded'[u] = loaded[u]
  BY <1>1 DEF Replace, Kept, Goto
<1>3. t \in unread => loaded[t] = <<>>
  BY DEF Locked
<1> HIDE DEF e
<1>4. ASSUME \A i, j \in DOMAIN log' : process[log'[i][1]] = process[log'[j][1]]
      PROVE  file' = LastOf(log', MaxEvents)
  <2>1. CASE t \in unread
    <3>1. Append(<<>>, e) = <<e>>
      OBVIOUS
    <3> QED
      BY <1>2, <1>3, <2>1, <3>1
  <2>2. CASE t \notin unread
    <3>1. /\ \A i \in DOMAIN log : i \in DOMAIN log' /\ log'[i] = log[i]
          /\ Len(log) + 1 \in DOMAIN log' /\ log'[Len(log) + 1] = e
      BY <1>1, <1>2, <2>2
    <3>2. process[log'[Len(log) + 1][1]] = process[t]
      BY <1>1, <3>1
    <3>3. \A i \in DOMAIN log : process[log[i][1]] = process[t]
      BY <1>4, <3>1, <3>2
    <3>4. file = LastOf(log, MaxEvents)
      BY <3>3 DEF Fresh, OneProcessLosesNothing
    <3>5. loaded[t] = file
      BY <1>2, <2>2, <3>3 DEF Fresh
    <3> QED
      BY <1>1, <1>2, <2>2, <3>4, <3>5, LastOfAppend
  <2> QED
    BY <2>1, <2>2
<1>5. ASSUME NEW u \in Threads, step'[u] = "writing",
             \A i \in DOMAIN log' : process[log'[i][1]] = process[u]
      PROVE  FALSE
  <2>1. u # t /\ step[u] = "writing"
    BY <1>2, <1>5
  <2>2. \E i \in DOMAIN log' : log'[i][1] = t
    <3>1. CASE t \in unread
      <4>1. 1 \in DOMAIN <<e>> /\ <<e>>[1] = e
        OBVIOUS
      <4> QED
        BY <1>1, <1>2, <3>1, <4>1
    <3>2. CASE t \notin unread
      <4>1. Len(log) + 1 \in DOMAIN log' /\ log'[Len(log) + 1] = e
        BY <1>1, <1>2, <3>2
      <4> QED
        BY <1>1, <4>1
    <3> QED
      BY <3>1, <3>2
  <2>3. process[t] = process[u]
    BY <1>5, <2>2
  <2> QED
    BY <1>2, <2>1, <2>3 DEF Locked
<1> QED
  BY <1>2, <1>4, <1>5 DEF Fresh, OneProcessLosesNothing

\* Other steps write nothing, and what they read is what there is.
LEMMA NextFresh == Locked /\ Fresh /\ [StatisticsNext]_statisticsVars => Fresh'
<1> SUFFICES ASSUME Locked, Fresh, [StatisticsNext]_statisticsVars PROVE Fresh'
  OBVIOUS
<1>1. /\ process \in [Threads -> Processes]
      /\ step \in [Threads -> {"idle", "locking", "writing", "database"}]
      /\ loaded \in [Threads -> Seq(Event)]
  BY StatisticsAssumption DEF Locked, StatisticsTypeOK
<1>2. ASSUME UNCHANGED <<process, file, log>>,
             \A t \in Threads : step'[t] = "writing" /\ t \notin unread' =>
               \/ loaded'[t] = file
               \/ step[t] = "writing" /\ t \notin unread /\ loaded'[t] = loaded[t]
      PROVE  Fresh'
  BY <1>2 DEF Fresh, OneProcessLosesNothing
<1>3. ASSUME NEW t \in Threads, Begin(t) \/ Thread(t)
      PROVE  Fresh'
  <2>1. CASE Begin(t)
    BY <1>1, <1>2, <2>1 DEF Begin, Goto
  <2>2. CASE Load(t)
    BY <1>1, <1>2, <2>2 DEF Load, Goto
  <2>3. CASE WriteFails(t)
    BY <1>1, <1>2, <2>3 DEF WriteFails, Goto
  <2>4. CASE Record(t)
    BY <1>1, <1>2, <2>4 DEF Record, Goto
  <2> QED
    BY <1>3, <2>1, <2>2, <2>3, <2>4, ReplaceFresh DEF Thread
<1>4. ASSUME NEW p \in Processes, KillProcess(p)
      PROVE  Fresh'
  BY <1>1, <1>2, <1>4 DEF KillProcess
<1>5. CASE UNCHANGED statisticsVars
  BY <1>2, <1>5 DEF statisticsVars, files
<1> QED
  BY <1>3, <1>4, <1>5 DEF StatisticsNext

\* As long as the events written are of one process, whatever its threads do at the
\* same time, whichever writes fail and whenever it is killed, the file holds the
\* last of them all, back to the last write that followed a failed read.
THEOREM OneProcessLosesNothingHolds == StatisticsSpec => []OneProcessLosesNothing
<1>1. StatisticsSpec => []Fresh
  BY InitFresh, NextFresh, LockedHolds, PTL DEF StatisticsSpec
<1> QED
  BY <1>1, PTL DEF Fresh

=============================================================================
