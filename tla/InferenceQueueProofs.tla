------------------------- MODULE InferenceQueueProofs -------------------------
(***************************************************************************)
(* Proofs about InferenceQueue for any set of requests, any set of models  *)
(* and any set of policies.  IInv is the inductive invariant: it ties the  *)
(* counters and the lease to the program counters, and the pending timer   *)
(* to an idle queue.                                                       *)
(***************************************************************************)
EXTENDS InferenceQueue, FiniteSetTheorems, TLAPS

\* A timer exists only for a finished request, and the current one is of a
\* release that no arrival has followed.
TimerInv ==
  /\ \A r \in Requests : timer[r] # "none" => pc[r] = "done"
  /\ \A r \in Requests : unloadTimer = r => r \notin touched
  /\ \A r \in touched : timer[r] # "none"

IInv ==
  /\ TypeOK
  /\ Serialized
  /\ WaitingIsExact
  /\ PendingMeansIdle
  /\ TimerInv

\* Initially nobody is inside, nobody waits and no timer exists.
LEMMA InitIInv == Init => IInv
<1> SUFFICES ASSUME Init PROVE IInv
  OBVIOUS
<1>1. Blocked = {}
  BY DEF Init, Blocked
<1>2. WaitingIsExact
  BY <1>1, FS_EmptySet DEF WaitingIsExact, Init
<1>3. QED
  BY <1>2, NoneAssumption
     DEF Init, IInv, TypeOK, Serialized, PendingMeansIdle, TimerInv

\* The only pc changes that matter to the waiting counter.
LEMMA BlockedGrows ==
  ASSUME WaitingIsExact, NEW r \in Requests, r \notin Blocked,
         Blocked' = Blocked \cup {r}, waiting' = waiting + 1
  PROVE  WaitingIsExact'
BY FS_AddElement DEF WaitingIsExact

LEMMA BlockedShrinks ==
  ASSUME WaitingIsExact, NEW r \in Requests, r \in Blocked,
         Blocked' = Blocked \ {r}, waiting' = waiting - 1
  PROVE  WaitingIsExact'
BY FS_RemoveElement DEF WaitingIsExact

LEMMA BlockedSame ==
  ASSUME WaitingIsExact, Blocked' = Blocked, waiting' = waiting
  PROVE  WaitingIsExact'
BY DEF WaitingIsExact

\* A step keeps the counter exact.
LEMMA NextWaiting == IInv /\ [Next]_vars => WaitingIsExact'
<1> SUFFICES ASSUME IInv, [Next]_vars PROVE WaitingIsExact'
  OBVIOUS
<1> USE DEF IInv, TypeOK
<1>1. ASSUME NEW r \in Requests, AcquireAtOnce(r) PROVE WaitingIsExact'
  <2>1. Blocked' = Blocked
    BY <1>1 DEF AcquireAtOnce, Arrive, Blocked
  <2> QED BY <1>1, <2>1, BlockedSame DEF AcquireAtOnce
<1>2. ASSUME NEW r \in Requests, AcquireWait(r) PROVE WaitingIsExact'
  <2>1. r \notin Blocked /\ Blocked' = Blocked \cup {r}
    BY <1>2 DEF AcquireWait, Arrive, Blocked
  <2> QED BY <1>2, <2>1, BlockedGrows DEF AcquireWait
<1>3. ASSUME NEW r \in Requests, Proceed(r) PROVE WaitingIsExact'
  <2>1. r \in Blocked /\ Blocked' = Blocked \ {r}
    BY <1>3 DEF Proceed, Blocked
  <2> QED BY <1>3, <2>1, BlockedShrinks DEF Proceed
<1>4. ASSUME NEW r \in Requests, WaitAgain(r) PROVE WaitingIsExact'
  <2>1. Blocked' = Blocked
    BY <1>4 DEF WaitAgain, Blocked
  <2> QED BY <1>4, <2>1, BlockedSame DEF WaitAgain
<1>5. ASSUME NEW r \in Requests, Release(r) PROVE WaitingIsExact'
  <2>1. Blocked' = Blocked
    BY <1>5 DEF Release, Notified, Blocked
  <2> QED BY <1>5, <2>1, BlockedSame DEF Release
<1>6. ASSUME UNCHANGED <<pc, waiting>> PROVE WaitingIsExact'
  BY <1>6, BlockedSame DEF Blocked
<1>7. QED
  BY <1>1, <1>2, <1>3, <1>4, <1>5, <1>6
     DEF Next, vars, qvars, RequestStep, TimerStep, UseRemote, UseOllama,
         TimerElapse, TimerStop, TimerFire, SetUnloadPolicy

\* A step keeps the rest of the invariant.
LEMMA NextIInv == IInv /\ [Next]_vars => IInv'
<1> SUFFICES ASSUME IInv, [Next]_vars PROVE IInv'
  OBVIOUS
<1>0. WaitingIsExact'
  BY NextWaiting
<1> DEFINE Rest == TypeOK /\ Serialized /\ PendingMeansIdle /\ TimerInv
<1> SUFFICES Rest'
  BY <1>0 DEF IInv
<1>a. Rest /\ (waiting = 0 <=> Blocked = {})
  BY FS_EmptySet DEF IInv, WaitingIsExact
<1> USE NoneAssumption DEF TypeOK, Serialized, PendingMeansIdle, TimerInv
<1>1. ASSUME NEW r \in Requests, AcquireAtOnce(r) PROVE Rest'
  BY <1>a, <1>1 DEF AcquireAtOnce, Arrive, CancelPendingUnload, CancelledTimers
<1>2. ASSUME NEW r \in Requests, AcquireWait(r) PROVE Rest'
  BY <1>a, <1>2 DEF AcquireWait, Arrive, CancelPendingUnload, CancelledTimers
<1>3. ASSUME NEW r \in Requests, Proceed(r) PROVE Rest'
  <2>1. waiting # 0 /\ waiting - 1 \in Nat
    BY <1>a, <1>3 DEF Proceed, Blocked
  <2> QED BY <1>a, <1>3, <2>1 DEF Proceed
<1>4. ASSUME NEW r \in Requests, WaitAgain(r) PROVE Rest'
  BY <1>a, <1>4 DEF WaitAgain
<1>5. ASSUME NEW r \in Requests, NEW m \in Models, UseOllama(r, m) PROVE Rest'
  BY <1>a, <1>5 DEF UseOllama
<1>6. ASSUME NEW r \in Requests, UseRemote(r) PROVE Rest'
  BY <1>a, <1>6 DEF UseRemote
<1>7. ASSUME NEW r \in Requests, Release(r) PROVE Rest'
  <2>1. unloadTimer = None /\ timer[r] = "none" /\ r \notin touched
    BY <1>a, <1>7 DEF Release
  <2>2. CancelledTimers = timer
    BY <1>a, <2>1 DEF CancelledTimers
  <2>3. /\ pc' \in [Requests -> {"new", "waiting", "notified", "inside", "done"}]
        /\ pc'[r] = "done"
        /\ \A q \in Requests : pc[q] = "done" => pc'[q] = "done"
        /\ \A q \in Requests : pc'[q] # "inside"
    BY <1>a, <1>7 DEF Release, Notified
  <2>4. /\ active' = FALSE /\ lease' = None
        /\ UNCHANGED <<waiting, unloadPolicy, idleCleanup, touched>>
    BY <1>7 DEF Release
  <2>5. Serialized'
    BY <2>3, <2>4
  <2>6. \/ timer' = timer /\ unloadTimer' = None /\ unasked' \subseteq unasked
        \/ /\ timer' = [timer EXCEPT ![r] = "sleeping"]
           /\ unloadTimer' = r
           /\ unasked' = unasked
           /\ waiting = 0
           /\ idleCleanup[r] # None
    <3>1. CASE NoCleanup(r)
      BY <2>1, <3>1 DEF NoCleanup, CancelNothing
    <3>2. CASE CleanupNow(r)
      BY <2>1, <3>2 DEF CleanupNow, CancelNothing
    <3>3. CASE CleanupLater(r)
      BY <1>a, <2>2, <3>3 DEF CleanupLater, NeedsNoCleanup
    <3> QED BY <1>7, <3>1, <3>2, <3>3 DEF Release
  <2>7. TypeOK'
    BY <1>a, <2>3, <2>4, <2>6
  <2>8. PendingMeansIdle'
    BY <1>a, <2>3, <2>4, <2>6
  <2>9. TimerInv'
    BY <1>a, <2>1, <2>3, <2>4, <2>6
  <2>10. QED
    BY <2>5, <2>7, <2>8, <2>9
<1>8. ASSUME NEW r \in Requests, TimerElapse(r) PROVE Rest'
  BY <1>a, <1>8 DEF TimerElapse, qvars
<1>9. ASSUME NEW r \in Requests, TimerStop(r) PROVE Rest'
  BY <1>a, <1>9 DEF TimerStop, qvars
<1>10. ASSUME NEW r \in Requests, TimerFire(r) PROVE Rest'
  BY <1>a, <1>10 DEF TimerFire, MayUnload, qvars
<1>11. ASSUME NEW p \in Policies, SetUnloadPolicy(p) PROVE Rest'
  BY <1>a, <1>11 DEF SetUnloadPolicy, CancelPendingUnload, CancelNothing,
                     CancelledTimers, qvars
<1>12. CASE UNCHANGED vars
  BY <1>a, <1>12 DEF vars
<1>13. QED
  BY <1>1, <1>2, <1>3, <1>4, <1>5, <1>6, <1>7, <1>8, <1>9, <1>10, <1>11, <1>12
     DEF Next, RequestStep, TimerStep

\* The inductive invariant holds in every state.
THEOREM InvariantHolds == Spec => []IInv
BY InitIInv, NextIInv, PTL DEF Spec

\* Type correctness of the queue (inference_queue.py, every method).
THEOREM TypeCorrect == Spec => []TypeOK
BY InvariantHolds, PTL DEF IInv

\* One request at a time is inside acquire(), for any number of requests.
THEOREM SerializedHolds == Spec => []Serialized
BY InvariantHolds, PTL DEF IInv

\* The counter _waiting always equals the number of threads blocked.
THEOREM WaitingIsExactHolds == Spec => []WaitingIsExact
BY InvariantHolds, PTL DEF IInv

\* An unload is pending only while the queue is idle.
THEOREM PendingMeansIdleHolds == Spec => []PendingMeansIdle
BY InvariantHolds, PTL DEF IInv

-----------------------------------------------------------------------------

\* A cancelled or overtaken timer never unloads a model.
THEOREM UntouchedTimersHolds == Spec => OnlyUntouchedTimersUnload
<1> DEFINE Quiet ==
      \A r \in Requests :
        timer[r] = "elapsed" /\ timer'[r] # "elapsed" /\ unasked' # unasked
          => r \notin touched /\ ~active
<1>1. IInv /\ [Next]_vars => [Quiet]_vars
  <2> SUFFICES ASSUME IInv, Next, NEW r \in Requests,
                      timer[r] = "elapsed", timer'[r] # "elapsed",
                      unasked' # unasked
               PROVE  r \notin touched /\ ~active
    OBVIOUS
  <2> USE DEF IInv, TypeOK, PendingMeansIdle, TimerInv
  <2>1. CASE \E q \in Requests : TimerFire(q)
    <3>1. PICK q \in Requests : TimerFire(q)
      BY <2>1
    <3>2. q = r /\ unloadTimer = q
      BY <3>1 DEF TimerFire, MayUnload
    <3>3. unloadTimer # None
      BY <3>2, NoneAssumption
    <3> QED BY <3>2, <3>3
  <2>2. CASE \E q \in Requests : Release(q)
    <3>1. PICK q \in Requests : Release(q)
      BY <2>2
    <3>2. pc[q] = "inside" /\ timer[q] = "none" /\ q # r
      BY <3>1 DEF Release
    <3>3. timer'[r] = timer[r]
      BY <3>1, <3>2
         DEF Release, NoCleanup, CleanupNow, CleanupLater, CancelNothing,
             CancelledTimers
    <3> QED BY <3>3
  <2>3. CASE ~(\E q \in Requests : TimerFire(q) \/ Release(q))
    <3>1. \A q \in Requests, m \in Models :
            UseOllama(q, m) => timer'[r] = timer[r]
      BY DEF UseOllama
    <3>2. unasked' = unasked \/ timer'[r] = timer[r]
      BY <2>3, <3>1
         DEF Next, RequestStep, TimerStep, AcquireAtOnce, AcquireWait, Arrive,
             Proceed, WaitAgain, UseRemote, TimerElapse, TimerStop,
             SetUnloadPolicy
    <3> QED BY <3>2
  <2> QED BY <2>1, <2>2, <2>3
<1>2. QED
  BY <1>1, InvariantHolds, PTL DEF Spec, OnlyUntouchedTimersUnload

-----------------------------------------------------------------------------

\* The queue refines SerialService: overtaking waiters, re-waiting and timers
\* are steps of it or stutter, and no unload is asked for while one queues.
THEOREM QueueImplementsService == Spec => ImplementsService
<1>1. Init => Service!Init
  BY DEF Init, Phase, Service!Init
<1>2. IInv /\ [Next]_vars => [Service!Next]_(Service!svars)
  <2> SUFFICES ASSUME IInv, [Next]_vars
               PROVE  Service!Next \/ UNCHANGED <<Phase, unasked>>
    BY DEF Service!svars
  <2>a. TypeOK /\ Serialized /\ PendingMeansIdle /\ (waiting = 0 <=> Blocked = {})
    BY FS_EmptySet DEF IInv, WaitingIsExact
  <2>b. /\ pc \in [Requests -> {"new", "waiting", "notified", "inside", "done"}]
        /\ \A q \in Requests : idleCleanup[q] \in Models \cup {None}
        /\ unasked \subseteq Models /\ waiting \in Nat
    BY <2>a DEF TypeOK
  <2>c. /\ Phase \in [Requests -> {"new", "queued", "served", "done"}]
        /\ \A q \in Requests : Phase[q] = "served" <=> pc[q] = "inside"
        /\ \A q \in Requests :
             Phase[q] = "queued" <=> pc[q] \in {"waiting", "notified"}
        /\ \A q \in Requests : pc[q] = "new" => Phase[q] = "new"
    BY <2>b DEF Phase
  <2>d. ~active => Service!NobodyServed
    BY <2>a, <2>c, NoneAssumption DEF Serialized, Service!NobodyServed
  <2>e. waiting = 0 => Service!NobodyQueued
    BY <2>a, <2>c DEF Blocked, Service!NobodyQueued
  <2>f. ASSUME NEW r \in Requests, pc' = [pc EXCEPT ![r] = "inside"]
        PROVE  Phase' = [Phase EXCEPT ![r] = "served"]
    BY <2>b, <2>f DEF Phase
  <2>1. ASSUME NEW r \in Requests, AcquireAtOnce(r) PROVE Service!Next
    <3>1. /\ pc[r] = "new" /\ ~active /\ UNCHANGED unasked
          /\ pc' = [pc EXCEPT ![r] = "inside"]
      BY <2>1 DEF AcquireAtOnce, Arrive
    <3>2. Service!Begin(r)
      BY <2>c, <2>d, <2>f, <3>1 DEF Service!Begin
    <3> QED BY <3>2 DEF Service!Next
  <2>2. ASSUME NEW r \in Requests, AcquireWait(r) PROVE Service!Next
    <3>1. /\ pc[r] = "new" /\ UNCHANGED unasked
          /\ pc' = [pc EXCEPT ![r] = "waiting"]
      BY <2>2 DEF AcquireWait, Arrive
    <3>2. Phase' = [Phase EXCEPT ![r] = "queued"]
      BY <2>b, <3>1 DEF Phase
    <3>3. Service!Enqueue(r)
      BY <2>c, <3>1, <3>2 DEF Service!Enqueue
    <3> QED BY <3>3 DEF Service!Next
  <2>3. ASSUME NEW r \in Requests, Proceed(r) PROVE Service!Next
    <3>1. /\ pc[r] = "notified" /\ ~active /\ UNCHANGED unasked
          /\ pc' = [pc EXCEPT ![r] = "inside"]
      BY <2>3 DEF Proceed
    <3>2. Service!Begin(r)
      BY <2>c, <2>d, <2>f, <3>1 DEF Service!Begin
    <3> QED BY <3>2 DEF Service!Next
  <2>4. ASSUME NEW r \in Requests, WaitAgain(r) PROVE UNCHANGED <<Phase, unasked>>
    <3>1. /\ pc[r] = "notified" /\ UNCHANGED unasked
          /\ pc' = [pc EXCEPT ![r] = "waiting"]
      BY <2>4 DEF WaitAgain
    <3> QED BY <2>b, <3>1 DEF Phase
  <2>5. ASSUME NEW r \in Requests, NEW m \in Models, UseOllama(r, m)
        PROVE  Service!Next
    <3>1. pc[r] = "inside" /\ pc' = pc /\ unasked' = unasked \cup {m}
      BY <2>5 DEF UseOllama
    <3>2. Phase[r] = "served" /\ Phase' = Phase
      BY <2>c, <3>1 DEF Phase
    <3>3. Service!Use(r, m)
      BY <3>1, <3>2 DEF Service!Use
    <3> QED BY <3>3 DEF Service!Next
  <2>6. ASSUME NEW r \in Requests, Release(r) PROVE Service!Next
    <3>1. Phase[r] = "served" /\ Phase' = [Phase EXCEPT ![r] = "done"]
      <4>1. pc[r] = "inside" /\ pc' = Notified(r)
        BY <2>6 DEF Release
      <4>2. Phase[r] = "served"
        BY <2>c, <4>1
      <4>3. Phase' = [Phase EXCEPT ![r] = "done"]
        BY <2>b, <4>1 DEF Notified, Phase
      <4> QED BY <4>2, <4>3
    <3>2. PICK gone \in SUBSET Models :
            unasked' = unasked \ gone /\ (gone # {} => waiting = 0)
      <4>1. CASE CleanupNow(r)
        <5>1. idleCleanup[r] \in Models /\ waiting = 0
          BY <2>b, <4>1 DEF CleanupNow, NeedsNoCleanup
        <5>2. {idleCleanup[r]} \in SUBSET Models
          BY <5>1
        <5> QED BY <4>1, <5>1, <5>2 DEF CleanupNow
      <4>2. CASE unasked' = unasked
        <5>1. {} \in SUBSET Models /\ unasked' = unasked \ {}
          BY <4>2
        <5> QED BY <5>1
      <4> QED BY <2>6, <4>1, <4>2 DEF Release, NoCleanup, CleanupLater
    <3>3. Service!Finish(r)
      BY <2>e, <3>1, <3>2 DEF Service!Finish
    <3> QED BY <3>3 DEF Service!Next
  <2>7. ASSUME NEW r \in Requests, TimerFire(r)
        PROVE  Service!Next \/ UNCHANGED <<Phase, unasked>>
    <3>1. CASE ~MayUnload(r)
      BY <2>7, <3>1 DEF TimerFire, Phase
    <3>2. CASE MayUnload(r)
      <4>1. unloadTimer = r /\ unloadTimer # None
        BY <3>2, NoneAssumption DEF MayUnload
      <4>2. ~active /\ waiting = 0 /\ idleCleanup[r] \in Models
        BY <2>a, <2>b, <4>1 DEF PendingMeansIdle
      <4>3. unasked' = unasked \ {idleCleanup[r]} /\ Phase' = Phase
        BY <2>7, <3>2 DEF TimerFire, Phase
      <4>4. Service!IdleUnload(idleCleanup[r])
        BY <2>d, <2>e, <4>2, <4>3 DEF Service!IdleUnload
      <4> QED BY <4>2, <4>4 DEF Service!Next
    <3> QED BY <3>1, <3>2
  <2>8. ASSUME UNCHANGED <<pc, unasked>> PROVE UNCHANGED <<Phase, unasked>>
    BY <2>8 DEF Phase
  <2>9. QED
    BY <2>1, <2>2, <2>3, <2>4, <2>5, <2>6, <2>7, <2>8
       DEF Next, RequestStep, TimerStep, UseRemote, TimerElapse, TimerStop,
           SetUnloadPolicy, qvars, vars
<1>3. QED
  BY <1>1, <1>2, InvariantHolds, PTL DEF Spec, ImplementsService, Service!Spec

=============================================================================
