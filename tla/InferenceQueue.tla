---------------------------- MODULE InferenceQueue ----------------------------
(***************************************************************************)
(* src/local_code_worker/inference_queue.py: the queue every gateway       *)
(* request passes through, one thread per HTTP request, a Condition, and   *)
(* the delayed unload of the last Ollama model by a daemon thread.         *)
(*                                                                         *)
(* A block under "with self._condition" is one step.  A thread that calls  *)
(* Condition.wait is in pc "waiting" until it is notified and "notified"   *)
(* until it owns the lock again; the lock is not FIFO, so a new arrival    *)
(* may overtake it.  Each request releases once and so schedules at most   *)
(* one unload: timer[r] is the Event and the thread that r's release       *)
(* created.  Time is abstract: a sleeping timer may elapse at any moment.  *)
(***************************************************************************)
EXTENDS Naturals, FiniteSets

CONSTANTS
  Requests,   \* HTTP requests that call INFERENCE_QUEUE.acquire()
  Models,     \* models served by Ollama, named by the route
  Policies,   \* the unload policies the settings may hold
  None        \* Python's None

\* "minutes" stands for a positive number, "invalid" for text that is not a
\* number and for numbers <= 0, which LLM_UNLOAD_POLICY in .env may hold.
ASSUME PolicyAssumption ==
  Policies \subseteq {"immediate", "never", "minutes", "invalid"}

ASSUME NoneAssumption == None \notin Requests /\ None \notin Models

VARIABLES
  active,         \* _active
  waiting,        \* _waiting
  lease,          \* the request whose InferenceLease _lease holds, or None
  unloadPolicy,   \* _unload_policy
  unloadTimer,    \* the request whose timer _unload_timer refers to, or None
  pc,             \* where the thread of each request is
  idleCleanup,    \* lease.idle_cleanup: the model it would unload, or None
  timer,          \* the state of each delayed-unload thread
  unasked,        \* history: models used and not asked to unload since
  touched         \* history: timers since whose scheduling a request arrived

qvars == <<active, waiting, lease>>
vars == <<active, waiting, lease, unloadPolicy, unloadTimer, pc, idleCleanup,
          timer, unasked, touched>>

Blocked == {r \in Requests : pc[r] \in {"waiting", "notified"}}

Init ==
  /\ active = FALSE
  /\ waiting = 0
  /\ lease = None
  /\ unloadPolicy \in Policies
  /\ unloadTimer = None
  /\ pc = [r \in Requests |-> "new"]
  /\ idleCleanup = [r \in Requests |-> None]
  /\ timer = [r \in Requests |-> "none"]
  /\ unasked = {}
  /\ touched = {}

-----------------------------------------------------------------------------

\* _cancel_pending_unload: set() wakes the thread that still sleeps; one whose
\* wait has already timed out goes on and finds _unload_timer changed.
CancelledTimers ==
  [r \in Requests |->
     IF r = unloadTimer /\ timer[r] = "sleeping" THEN "cancelled" ELSE timer[r]]

CancelPendingUnload ==
  /\ timer' = CancelledTimers
  /\ unloadTimer' = None

CancelNothing == UNCHANGED <<timer, unloadTimer>>

\* Every request that arrives cancels the pending unload, served or not.
Arrive(r) ==
  /\ pc[r] = "new"
  /\ CancelPendingUnload
  /\ touched' = {q \in Requests : timer[q] # "none"}
  /\ UNCHANGED <<unloadPolicy, idleCleanup, unasked>>

\* acquire(), the queue being free: waiting is incremented and decremented
\* under the lock, so no other thread sees it change.
AcquireAtOnce(r) ==
  /\ Arrive(r)
  /\ ~active
  /\ active' = TRUE
  /\ lease' = r
  /\ pc' = [pc EXCEPT ![r] = "inside"]
  /\ UNCHANGED waiting

\* acquire(), the queue being taken: the thread waits and releases the lock.
AcquireWait(r) ==
  /\ Arrive(r)
  /\ active
  /\ waiting' = waiting + 1
  /\ pc' = [pc EXCEPT ![r] = "waiting"]
  /\ UNCHANGED <<active, lease>>

\* A mutant of Proceed: a waiter that is never uncounted.
ProceedUncounted(r) ==
  /\ pc[r] = "notified"
  /\ ~active
  /\ active' = TRUE
  /\ lease' = r
  /\ pc' = [pc EXCEPT ![r] = "inside"]
  /\ UNCHANGED <<waiting, unloadPolicy, unloadTimer, idleCleanup, timer, unasked,
                 touched>>

\* A notified thread owns the lock again and finds the queue free ...
Proceed(r) ==
  /\ pc[r] = "notified"
  /\ ~active
  /\ active' = TRUE
  /\ lease' = r
  /\ waiting' = waiting - 1
  /\ pc' = [pc EXCEPT ![r] = "inside"]
  /\ UNCHANGED <<unloadPolicy, unloadTimer, idleCleanup, timer, unasked, touched>>

\* A mutant of WaitAgain: the finally clause inside the loop.
WaitAgainUncounted(r) ==
  /\ pc[r] = "notified"
  /\ active
  /\ waiting' = waiting - 1
  /\ pc' = [pc EXCEPT ![r] = "waiting"]
  /\ UNCHANGED <<active, lease, unloadPolicy, unloadTimer, idleCleanup, timer,
                 unasked, touched>>

\* ... or taken by a thread that was faster.
WaitAgain(r) ==
  /\ pc[r] = "notified"
  /\ active
  /\ pc' = [pc EXCEPT ![r] = "waiting"]
  /\ UNCHANGED <<active, waiting, lease, unloadPolicy, unloadTimer, idleCleanup,
                 timer, unasked, touched>>

-----------------------------------------------------------------------------

\* web_app.py: the handler calls Ollama and leaves its unload_model in the
\* lease; a fallback to another tier may replace it with that tier's.
UseOllama(r, m) ==
  /\ pc[r] = "inside"
  /\ idleCleanup' = [idleCleanup EXCEPT ![r] = m]
  /\ unasked' = unasked \cup {m}
  /\ UNCHANGED <<active, waiting, lease, unloadPolicy, unloadTimer, pc, timer,
                 touched>>

\* web_app.py: the Responses fallback to a remote provider clears it.
UseRemote(r) ==
  /\ pc[r] = "inside"
  /\ idleCleanup[r] # None
  /\ idleCleanup' = [idleCleanup EXCEPT ![r] = None]
  /\ UNCHANGED <<active, waiting, lease, unloadPolicy, unloadTimer, pc, timer,
                 unasked, touched>>

\* A mutant of NeedsNoCleanup: the waiting requests are forgotten.
HasNoCleanup(r) == idleCleanup[r] = None

\* _handle_idle_cleanup: what the release of r does with its cleanup.
NeedsNoCleanup(r) == idleCleanup[r] = None \/ waiting > 0

NoCleanup(r) ==
  /\ NeedsNoCleanup(r) \/ unloadPolicy = "never"
  /\ CancelNothing
  /\ UNCHANGED unasked

\* The cleanup is called under the lock; its exceptions are swallowed.
CleanupNow(r) ==
  /\ ~NeedsNoCleanup(r)
  /\ unloadPolicy \in {"immediate", "invalid"}
  /\ unasked' = unasked \ {idleCleanup[r]}
  /\ CancelNothing

\* _schedule_delayed_unload
CleanupLater(r) ==
  /\ ~NeedsNoCleanup(r)
  /\ unloadPolicy = "minutes"
  /\ timer' = [CancelledTimers EXCEPT ![r] = "sleeping"]
  /\ unloadTimer' = r
  /\ UNCHANGED unasked

\* A mutant of Notified: the waiting threads are not woken.
NobodyNotified(r) == [pc EXCEPT ![r] = "done"]

\* notify_all
Notified(r) ==
  [q \in Requests |->
     CASE q = r             -> "done"
       [] pc[q] = "waiting" -> "notified"
       [] OTHER             -> pc[q]]

Release(r) ==
  /\ pc[r] = "inside"
  /\ NoCleanup(r) \/ CleanupNow(r) \/ CleanupLater(r)
  /\ active' = FALSE
  /\ lease' = None
  /\ pc' = Notified(r)
  /\ UNCHANGED <<waiting, unloadPolicy, idleCleanup, touched>>

-----------------------------------------------------------------------------

\* timer.wait(timeout) returned False: the time is up, the lock not yet taken.
TimerElapse(r) ==
  /\ timer[r] = "sleeping"
  /\ timer' = [timer EXCEPT ![r] = "elapsed"]
  /\ UNCHANGED <<qvars, unloadPolicy, unloadTimer, pc, idleCleanup, unasked,
                 touched>>

\* timer.wait(timeout) returned True.
TimerStop(r) ==
  /\ timer[r] = "cancelled"
  /\ timer' = [timer EXCEPT ![r] = "ended"]
  /\ UNCHANGED <<qvars, unloadPolicy, unloadTimer, pc, idleCleanup, unasked,
                 touched>>

\* Mutants: the timer's identity is not checked; the fired timer stays current.
NobodyWaits(r) == waiting = 0

TimerFireKept(r) ==
  /\ timer[r] = "elapsed"
  /\ timer' = [timer EXCEPT ![r] = "ended"]
  /\ unasked' = unasked \ {idleCleanup[r]}
  /\ UNCHANGED <<qvars, unloadPolicy, unloadTimer, pc, idleCleanup, touched>>

\* The thread acts only if no request waits and it is still the current timer.
MayUnload(r) == waiting = 0 /\ unloadTimer = r

TimerFire(r) ==
  /\ timer[r] = "elapsed"
  /\ timer' = [timer EXCEPT ![r] = "ended"]
  /\ \/ /\ MayUnload(r)
        /\ unloadTimer' = None
        /\ unasked' = unasked \ {idleCleanup[r]}
     \/ /\ ~MayUnload(r)
        /\ UNCHANGED <<unloadTimer, unasked>>
  /\ UNCHANGED <<qvars, unloadPolicy, pc, idleCleanup, touched>>

\* A change to a number of minutes leaves a pending unload as it is.
SetUnloadPolicy(p) ==
  /\ unloadPolicy' = p
  /\ IF p \in {"immediate", "never"} THEN CancelPendingUnload ELSE CancelNothing
  /\ UNCHANGED <<qvars, pc, idleCleanup, unasked, touched>>

RequestStep(r) ==
  \/ AcquireAtOnce(r)
  \/ AcquireWait(r)
  \/ Proceed(r)
  \/ WaitAgain(r)
  \/ UseRemote(r)
  \/ \E m \in Models : UseOllama(r, m)
  \/ Release(r)

TimerStep(r) == TimerElapse(r) \/ TimerStop(r) \/ TimerFire(r)

Next ==
  \/ \E r \in Requests : RequestStep(r) \/ TimerStep(r)
  \/ \E p \in Policies : SetUnloadPolicy(p)

Spec == Init /\ [][Next]_vars

\* A thread that can run does run, provider calls end (they have timeouts) and
\* so does Event.wait; nobody is obliged to send a request or change a policy.
Fairness ==
  \A r \in Requests :
    /\ WF_vars(Proceed(r) \/ WaitAgain(r))
    /\ WF_vars(Release(r))
    /\ WF_vars(TimerStep(r))

FairSpec == Spec /\ Fairness

-----------------------------------------------------------------------------

TypeOK ==
  /\ active \in BOOLEAN
  /\ waiting \in Nat
  /\ lease \in Requests \cup {None}
  /\ unloadPolicy \in Policies
  /\ unloadTimer \in Requests \cup {None}
  /\ pc \in [Requests -> {"new", "waiting", "notified", "inside", "done"}]
  /\ idleCleanup \in [Requests -> Models \cup {None}]
  /\ timer \in [Requests -> {"none", "sleeping", "cancelled", "elapsed", "ended"}]
  /\ unasked \subseteq Models
  /\ touched \subseteq Requests

\* "Gateway inference is serialized to one active provider request"
\* (docs/security.md): two threads are never inside acquire() together,
\* whatever the order in which notified threads and arrivals get the lock.
Serialized ==
  /\ \A r, q \in Requests : pc[r] = "inside" /\ pc[q] = "inside" => r = q
  /\ \A r \in Requests : pc[r] = "inside" <=> lease = r
  /\ active <=> lease # None

\* The waiting counter the cleanup decisions read is exact: it counts the
\* threads blocked in acquire(), through every wake-up and overtaking.
WaitingIsExact == IsFiniteSet(Blocked) /\ waiting = Cardinality(Blocked)

\* While an unload is pending the queue is idle, so a timer thread never has
\* to choose between a waiting request and its model.
PendingMeansIdle ==
  unloadTimer # None =>
    /\ ~active
    /\ waiting = 0
    /\ timer[unloadTimer] \in {"sleeping", "elapsed"}
    /\ idleCleanup[unloadTimer] # None

\* A timer thread unloads a model only if no request has arrived since the
\* release that scheduled it, even when its wait ends while one arrives.
OnlyUntouchedTimersUnload ==
  [][\A r \in Requests :
       timer[r] = "elapsed" /\ timer'[r] # "elapsed" /\ unasked' # unasked
         => r \notin touched /\ ~active]_vars

\* The queue implements the abstract service: overtaking, wake-ups and timers
\* are invisible, and no model is unloaded while somebody queues for it.
Phase ==
  [r \in Requests |->
     CASE pc[r] \in {"waiting", "notified"} -> "queued"
       [] pc[r] = "inside"                  -> "served"
       [] OTHER                             -> pc[r]]

Service == INSTANCE SerialService WITH phase <- Phase, resident <- unasked

ImplementsService == Service!Spec

\* Every request that arrives is served and ends, the requests being finitely
\* many: the lock is not FIFO, so endless arrivals could overtake a waiter.
EveryRequestServed == \A r \in Requests : pc[r] # "new" ~> pc[r] = "done"

\* A pending unload never hangs: its thread unloads the model, or a request
\* or a policy change cancels it.
PendingUnloadResolves ==
  \A r \in Requests : unloadTimer = r ~> unloadTimer # r

=============================================================================
