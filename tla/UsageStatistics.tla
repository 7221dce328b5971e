--------------------------- MODULE UsageStatistics ---------------------------
(***************************************************************************)
(* usage_statistics.py: what the gateway's threads and the worker record   *)
(* of their model calls.  record_model_call and record_worker_attempt add  *)
(* an event to a JSON file, which is read, extended and replaced under a   *)
(* lock that the threads of one process share, and then a row to the       *)
(* database of TelemetryDatabase; routing plans, leases and escalations    *)
(* are rows only.                                                          *)
(***************************************************************************)
EXTENDS TelemetryDatabase

CONSTANTS
  Processes,   \* the gateway and runs of the worker
  Owners,      \* which threads may belong to which process
  MaxEvents,   \* _MAX_EVENTS
  MaxRecords,  \* bounds on the records of each thread
  MaxFaults    \* bound on the kills, and on the reads and the database operations
               \* that fail

ASSUME StatisticsAssumption ==
  /\ Owners \subseteq [Threads -> Processes]
  /\ MaxEvents \in Nat \ {0}
  /\ MaxRecords \in [Threads -> Nat]
  /\ MaxFaults \in Nat

VARIABLES
  process,  \* the process of each thread
  step,     \* where a thread is
  count,    \* how many records it has begun
  holder,   \* the thread that holds the _LOCK of a process, or None
  loaded,   \* the events a thread has read
  unread,   \* the threads whose read has failed
  file,     \* the events in the file
  log,      \* history: the events written, in their order, since the start or
            \* since a write after a failed read
  faults    \* how many kills, reads and database operations that failed

files == <<process, step, count, holder, loaded, unread, file, log, faults>>
statisticsVars == <<database, files>>

Event == Threads \X Nat

StatisticsInit ==
  /\ DatabaseInit
  /\ process \in Owners
  /\ step = [t \in Threads |-> "idle"]
  /\ count = [t \in Threads |-> 0]
  /\ holder = [p \in Processes |-> None]
  /\ loaded = [t \in Threads |-> <<>>]
  /\ unread = {}
  /\ file = <<>>
  /\ log = <<>>
  /\ faults = 0

Fault ==
  /\ faults < MaxFaults
  /\ faults' = faults + 1

Goto(t, place) == step' = [step EXCEPT ![t] = place]

\* events[-n:]
LastOf(events, n) ==
  IF Len(events) <= n THEN events ELSE SubSeq(events, Len(events) - n + 1, Len(events))

\* The event of the record a thread is in.
Current(t) == <<t, count[t]>>

-----------------------------------------------------------------------------
(* The file *)

Begin(t) ==
  /\ step[t] = "idle"
  /\ count[t] < MaxRecords[t]
  /\ count' = [count EXCEPT ![t] = @ + 1]
  /\ \/ Goto(t, "locking")    \* record_model_call, record_worker_attempt
     \/ Goto(t, "database")   \* record_routing_plan, _route_lease, _escalation
  /\ UNCHANGED <<database, process, holder, loaded, unread, file, log, faults>>

\* A mutant of Free: the lock is not waited for.
FreeAlways(t) == TRUE

Free(t) == holder[process[t]] = None

\* A file that cannot be read counts as one without events.  (So does one that
\* cannot be parsed, but os.replace leaves nothing of that kind.)
Load(t) ==
  /\ step[t] = "locking"
  /\ Free(t)
  /\ holder' = [holder EXCEPT ![process[t]] = t]
  /\ \/ /\ loaded' = [loaded EXCEPT ![t] = file]
        /\ UNCHANGED <<unread, faults>>
     \/ /\ Fault
        /\ loaded' = [loaded EXCEPT ![t] = <<>>]
        /\ unread' = unread \cup {t}
  /\ Goto(t, "writing")
  /\ UNCHANGED <<database, process, count, file, log>>

Unlock(t) == holder' = [holder EXCEPT ![process[t]] = None]

\* A mutant of Kept: one too many.
KeptAll(events) == LastOf(events, MaxEvents + 1)

Kept(events) == LastOf(events, MaxEvents)

\* The temporary file is complete when it takes the place of the other, with all
\* that was in it if the thread has not read it.
Replace(t) ==
  /\ step[t] = "writing"
  /\ file' = Kept(Append(loaded[t], Current(t)))
  /\ log' = IF t \in unread THEN <<Current(t)>> ELSE Append(log, Current(t))
  /\ loaded' = [loaded EXCEPT ![t] = <<>>]
  /\ unread' = unread \ {t}
  /\ Unlock(t)
  /\ Goto(t, "database")
  /\ UNCHANGED <<database, process, count, faults>>

\* A mutant of Released: the lock is not given back on an error.
ReleasedNever(t) == UNCHANGED holder

\* An OSError leaves the lock, and the record, and the request that is recorded.
Released(t) == Unlock(t)
WriteFails(t) ==
  /\ step[t] = "writing"
  /\ loaded' = [loaded EXCEPT ![t] = <<>>]
  /\ unread' = unread \ {t}
  /\ Released(t)
  /\ Goto(t, "idle")
  /\ UNCHANGED <<database, process, count, file, log, faults>>

-----------------------------------------------------------------------------
(* The database *)

\* initialize() and the row; an error is forgotten, and the row with it.
Record(t) ==
  /\ step[t] = "database"
  /\ \/ (Initialize(t) \/ Insert(t)) /\ UNCHANGED faults
     \/ DatabaseError(t) /\ Fault
  /\ IF at'[t] = 0 THEN Goto(t, "idle") ELSE UNCHANGED step
  /\ UNCHANGED <<process, count, holder, loaded, unread, file, log>>

\* A process is killed, and started again.  A temporary file may be left.
KillProcess(p) ==
  /\ Fault
  /\ LET killed == {t \in Threads : process[t] = p}
     IN  /\ \E t \in killed : step[t] # "idle"
         /\ Kill(killed)
         /\ step' = [t \in Threads |-> IF t \in killed THEN "idle" ELSE step[t]]
         /\ loaded' = [t \in Threads |-> IF t \in killed THEN <<>> ELSE loaded[t]]
         /\ unread' = unread \ killed
  /\ holder' = [holder EXCEPT ![p] = None]
  /\ UNCHANGED <<process, count, file, log>>

-----------------------------------------------------------------------------

Thread(t) ==
  \/ Load(t)
  \/ Replace(t)
  \/ WriteFails(t)
  \/ Record(t)

StatisticsNext ==
  \/ \E t \in Threads : Begin(t) \/ Thread(t)
  \/ \E p \in Processes : KillProcess(p)

StatisticsSpec == StatisticsInit /\ [][StatisticsNext]_statisticsVars

\* Threads run; a lock is waited for in turn.
FairStatisticsSpec ==
  StatisticsSpec /\ \A t \in Threads : WF_statisticsVars(Thread(t))

-----------------------------------------------------------------------------

StatisticsTypeOK ==
  /\ DatabaseTypeOK
  /\ process \in Owners
  /\ step \in [Threads -> {"idle", "locking", "writing", "database"}]
  /\ count \in [Threads -> Nat]
  /\ \A t \in Threads : count[t] <= MaxRecords[t]
  /\ holder \in [Processes -> Threads \cup {None}]
  /\ loaded \in [Threads -> Seq(Event)]
  /\ unread \subseteq {t \in Threads : step[t] = "writing"}
  /\ file \in Seq(Event)
  /\ Len(file) <= MaxEvents
  /\ log \in Seq(Event)
  /\ faults \in 0 .. MaxFaults

\* The file holds the last events of all threads, in the order they were written,
\* as long as they are threads of one process: neither a failed write nor a kill
\* costs an event of another record.  A failed read does, when the write after it
\* succeeds: what was in the file is gone, and the log begins anew.  Two processes
\* may each undo the other's.
OneProcessLosesNothing ==
  (\A i, j \in DOMAIN log : process[log[i][1]] = process[log[j][1]]) =>
    file = LastOf(log, MaxEvents)

\* Every record ends, in a row or without.
EveryRecordEnds == \A t \in Threads : step[t] # "idle" ~> step[t] = "idle"

=============================================================================
