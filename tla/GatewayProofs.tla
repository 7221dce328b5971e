---------------------------- MODULE GatewayProofs ----------------------------
(***************************************************************************)
(* Theorems about module Gateway, for any requests, settings and queries.  *)
(*                                                                         *)
(* The properties of leases and of continuations are not inductive alone:  *)
(* they need who holds the queue (QueueHeld), that a stored response is    *)
(* finished and a finished one is stored (StoredIsDone, KeptIsStored), that*)
(* a parent has been answered, and finished once its child began           *)
(* (ParentAnswered), and that a request fails at most once (ErrorsEnd).    *)
(* The first tier of a chain and the endpoints have invariants of their    *)
(* own, below: Promised, and NeverBorrows itself.                          *)
(***************************************************************************)
EXTENDS Gateway, TLAPS

Busy == {"calling", "last call", "storing"}

QueueHeld == \A r \in Requests : pc[r] \in Busy <=> serving = r

StoredIsDone ==
  \A r \in Requests :
    r \in stored \cup forgotten \/ filed[r] # NoLease => pc[r] = "done"

KeptIsStored ==
  \A r \in Requests \ Chats :
    pc[r] = "done" /\ keep[r] => r \in stored \cup forgotten

ParentAnswered ==
  \A r \in Requests :
    parent[r] # None =>
      /\ parent[r] \notin Chats
      /\ pc[parent[r]] \in {"storing", "done"}
      /\ Began(r) => pc[parent[r]] = "done"

ErrorsEnd ==
  \A r \in Requests :
    /\ error[r] # "none" => pc[r] = "failed"
    /\ error[r] = "not found" => parent[r] # None

FiledClimb == \A r \in Requests : filed[r].count <= Rank[filed[r].route]

Support ==
  /\ QueueHeld
  /\ StoredIsDone
  /\ KeptIsStored
  /\ ParentAnswered
  /\ ErrorsEnd
  /\ FiledClimb

Safety ==
  /\ ContinuationFindsParent
  /\ LeaseNeverDowngrades
  /\ LeaseMatchesCall
  /\ HopsExplainCount
  /\ NotHigherOnlyAfterRollback

IInv == TypeOK /\ Support /\ Safety

DecisionType ==
  [tier : Tiers, provider : Providers, model : Tiers \cup {"legacy"}]

-----------------------------------------------------------------------------
(* What routing returns.                                                   *)

\* An enabled tier is one of the three and names a provider (models.py).
LEMMA EnabledTier ==
  ASSUME NEW s \in SettingsType, NEW t, Enabled(s, t)
  PROVE  t \in Tiers /\ s.tiers[t].provider \in Providers
<1>1. PICK T \in SUBSET Tiers : s.tiers \in [T -> TierConfig]
  BY DEF SettingsType
<1>2. t \in T
  BY <1>1 DEF Enabled, Configured
<1> QED
  BY <1>1, <1>2 DEF TierConfig

\* Every decision of plan_routing names a tier, a provider and a model.
LEMMA PlansType ==
  ASSUME NEW s \in SettingsType, NEW q, NEW canary, NEW d \in Plans(s, q, canary)
  PROVE  d \in DecisionType
<1>1. LegacyDecision(s) \in DecisionType
  BY DEF LegacyDecision, DecisionType, SettingsType, Tiers
<1>2. ASSUME NEW t \in Routed(s, q)
      PROVE  TierDecision(s, t) \in DecisionType
  <2>1. Enabled(s, t)
    BY DEF Routed, Eligible
  <2> QED
    BY <2>1, EnabledTier DEF TierDecision, DecisionType
<1> QED
  BY <1>1, <1>2 DEF Plans

\* apply_route_lease keeps tier and model.
LEMMA LeaseDecisionType ==
  ASSUME NEW s \in SettingsType, NEW l \in LeaseType, Enabled(s, l.route)
  PROVE  /\ LeaseDecision(s, l) \in DecisionType
         /\ LeaseDecision(s, l).tier = l.route
         /\ LeaseDecision(s, l).model = l.model
BY EnabledTier DEF LeaseDecision, DecisionType, LeaseType

\* _apply_decision takes the decision's model.
LEMMA AppliedType ==
  ASSUME NEW w \in TargetType, NEW s, NEW d \in DecisionType
  PROVE  Applied(w, s, d) \in TargetType /\ Applied(w, s, d).model = d.model
BY DEF Applied, DecisionType, TargetType

\* The settings as loaded are a target.
LEMMA LegacyTargetType ==
  ASSUME NEW s \in SettingsType
  PROVE  LegacyTarget(s) \in TargetType
BY DEF LegacyTarget, TargetType, SettingsType

\* The next tier of a fallback is enabled and higher than the failed one.
LEMMA FallbackTier ==
  ASSUME NEW s \in SettingsType, NEW q, NEW failed, NEW t,
         IsFallback(s, q, failed, t)
  PROVE  /\ t \in Tiers
         /\ Rank[failed] < Rank[t]
         /\ TierDecision(s, t) \in DecisionType
         /\ TierDecision(s, t).tier = t
         /\ TierDecision(s, t).model = t
<1>1. Enabled(s, t) /\ Rank[failed] < Rank[t]
  BY DEF IsFallback, Higher, Eligible
<1> QED
  BY <1>1, EnabledTier DEF TierDecision, DecisionType

\* The missing lease has the type of a lease.
LEMMA NoLeaseType == NoLease \in LeaseType
BY DEF NoLease, LeaseType, Tiers

\* _TIER_RANK has three ranks.
LEMMA RankType == \A t \in Tiers : Rank[t] \in 0 .. 2
BY DEF Tiers, Rank

\* The bound on the failed telemetry writes is kept.
LEMMA LoseType ==
  ASSUME TypeOK, NEW lost, Lose(lost)
  PROVE  failures' \in 0 .. MaxFailures
<1>1. failures \in 0 .. MaxFailures /\ MaxFailures \in Nat
  BY GatewayAssumption DEF TypeOK
<1> QED
  BY <1>1 DEF Lose

\* Counting one more at any index keeps a counter of natural numbers.
LEMMA CountedType ==
  ASSUME NEW count \in [Requests -> Nat], NEW root
  PROVE  [count EXCEPT ![root] = @ + 1] \in [Requests -> Nat]
<1>1. \A o \in Requests : count[o] + 1 \in Nat
  OBVIOUS
<1> QED
  BY <1>1

\* The decision a request executes, and its agreement with an inherited lease.
LEMMA DecisionOf ==
  ASSUME TypeOK, NEW r \in Requests, NEW d \in Decision(r),
         parent[r] = None \/ parent[r] \in stored
  PROVE  /\ d \in DecisionType
         /\ Inherited(r) \in LeaseType
         /\ UsesLease(r) => d.tier = Inherited(r).route /\ d.model = Inherited(r).model
<1> USE GatewayAssumption
<1>1. settings \in SettingsType
  BY DEF TypeOK
<1>2. Inherited(r) \in LeaseType
  <2>1. filed \in [Requests -> LeaseType] /\ stored \subseteq Requests
    BY DEF TypeOK
  <2> QED
    BY <2>1, NoLeaseType DEF Inherited
<1>3. CASE UsesLease(r)
  <2>1. d = LeaseDecision(settings, Inherited(r)) /\ Enabled(settings, Inherited(r).route)
    BY <1>3 DEF Decision, LeaseTierGone
  <2> QED
    BY <1>1, <1>2, <2>1, LeaseDecisionType
<1>4. CASE ~UsesLease(r)
  <2>1. d \in Planned(r)
    BY <1>4 DEF Decision
  <2> QED
    BY <1>1, <1>2, <1>4, <2>1, PlansType DEF Planned
<1> QED
  BY <1>3, <1>4

-----------------------------------------------------------------------------
(* The invariant, action by action.                                        *)

\* The invariant holds before any request.
LEMMA InitIInv == Init => IInv
<1> SUFFICES ASSUME Init PROVE IInv
  OBVIOUS
<1> USE GatewayAssumption
<1>1. TypeOK
  <2>1. settings \in SettingsType
    BY DEF Init
  <2>2. LegacyTarget(settings) \in TargetType
    BY <2>1, LegacyTargetType
  <2> QED
    BY <2>2, NoLeaseType DEF Init, TypeOK, Causes, Tiers
<1>2. Support
  BY DEF Init, Support, QueueHeld, StoredIsDone, KeptIsStored, ParentAnswered,
         ErrorsEnd, FiledClimb, Busy, Began, NoLease, Rank
<1>3. Safety
  BY DEF Init, Safety, ContinuationFindsParent, LeaseNeverDowngrades,
         LeaseMatchesCall, HopsExplainCount, NotHigherOnlyAfterRollback, Began,
         NoLease, Rank
<1> QED
  BY <1>1, <1>2, <1>3 DEF IInv

\* A failed request leaves the queue and changes nothing else of the invariant:
\* each cause only has to explain itself.
LEMMA FailIInv ==
  ASSUME IInv, NEW r \in Requests, NEW why \in Causes \ {"none"}, Fail(r, why),
         pc[r] \in {"calling", "last call"} \/ MayBegin(r),
         why = "not found" =>
           parent[r] # None /\ (parent[r] \in forgotten \/ ~keep[parent[r]]),
         why = "limit" => loaded[r].maxEscalations < 2,
         why = "not higher" => loaded[r].mode = "legacy",
         UNCHANGED <<configuration, chain, loaded, plan, target, lease, storage,
                     telemetry>>
  PROVE  IInv'
<1> USE GatewayAssumption DEF configuration, chain, storage, telemetry
<1>0. TypeOK
  BY DEF IInv
<1>1. /\ pc' = [pc EXCEPT ![r] = "failed"]
      /\ error' = [error EXCEPT ![r] = why]
      /\ serving' = None
      /\ pc[r] \in {"calling", "last call", "queued"}
  BY DEF Fail, MayBegin
<1>2. DOMAIN pc = Requests /\ DOMAIN error = Requests
  BY <1>0 DEF TypeOK, Causes
<1>3. pc'[r] = "failed" /\ error'[r] = why
  BY <1>1, <1>2
<1>4. \A q \in Requests \ {r} : pc'[q] = pc[q] /\ error'[q] = error[q]
  BY <1>1, <1>2
<1>5. TypeOK'
  BY <1>0, <1>1 DEF TypeOK, Causes
<1>6. QueueHeld'
  BY <1>1, <1>3, <1>4 DEF IInv, Support, QueueHeld, Busy, Fail, MayBegin
<1>7. StoredIsDone' /\ KeptIsStored'
  BY <1>1, <1>3, <1>4 DEF IInv, Support, StoredIsDone, KeptIsStored, Busy
<1>8. ParentAnswered'
  <2> SUFFICES ASSUME NEW q \in Requests, parent[q] # None
               PROVE  /\ parent[q] \notin Chats
                      /\ pc'[parent[q]] \in {"storing", "done"}
                      /\ Began(q)' => pc'[parent[q]] = "done"
    BY DEF ParentAnswered
  <2>1. /\ parent[q] \notin Chats
        /\ pc[parent[q]] \in {"storing", "done"}
        /\ Began(q) => pc[parent[q]] = "done"
        /\ parent[q] \in Requests
    BY <1>0 DEF IInv, Support, ParentAnswered, TypeOK
  <2> QED
    BY <1>1, <1>3, <1>4, <2>1 DEF Began
<1>9. ErrorsEnd' /\ FiledClimb'
  BY <1>3, <1>4 DEF IInv, Support, ErrorsEnd, FiledClimb
<1>10. ContinuationFindsParent'
  BY <1>3, <1>4 DEF IInv, Safety, ContinuationFindsParent
<1>11. LeaseNeverDowngrades' /\ LeaseMatchesCall'
  BY <1>1, <1>3, <1>4 DEF IInv, Safety, LeaseNeverDowngrades, LeaseMatchesCall,
                          Began, HasLease
<1>12. HopsExplainCount' /\ NotHigherOnlyAfterRollback'
  BY <1>3, <1>4 DEF IInv, Safety, HopsExplainCount, NotHigherOnlyAfterRollback
<1> QED
  BY <1>5, <1>6, <1>7, <1>8, <1>9, <1>10, <1>11, <1>12 DEF IInv, Support, Safety

\* The settings may change and stored responses may go at any moment: requests
\* work on what they loaded, and the invariant says nothing of today's settings.
LEMMA WorldIInv ==
  ASSUME IInv,
         (\E s \in Settings : ChangeSettings(s)) \/ (\E id \in Requests : Forget(id))
  PROVE  IInv'
<1> USE GatewayAssumption DEF configuration, chain, storage, telemetry
<1>1. CASE \E s \in Settings : ChangeSettings(s)
  <2>1. PICK s \in Settings : ChangeSettings(s)
    BY <1>1
  <2>2. TypeOK'
    <3>1. changes \in 0 .. MaxChanges /\ MaxChanges \in Nat /\ changes < MaxChanges
      BY <2>1 DEF IInv, TypeOK, ChangeSettings
    <3>2. changes + 1 \in 0 .. MaxChanges
      BY <3>1
    <3> QED
      BY <2>1, <3>2 DEF IInv, TypeOK, ChangeSettings
  <2>3. UNCHANGED <<serving, pc, error, parent, keep, loaded, plan, target, lease,
                    stored, filed, forgotten>>
    BY <2>1 DEF ChangeSettings
  <2>4. Support'
    BY <2>3 DEF IInv, Support, QueueHeld, StoredIsDone, KeptIsStored,
                ParentAnswered, ErrorsEnd, FiledClimb, Began
  <2>5. Safety'
    BY <2>3 DEF IInv, Safety, ContinuationFindsParent, LeaseNeverDowngrades,
                LeaseMatchesCall, HopsExplainCount, NotHigherOnlyAfterRollback,
                Began, HasLease
  <2> QED
    BY <2>2, <2>4, <2>5 DEF IInv
<1>2. CASE \E id \in Requests : Forget(id)
  <2>1. PICK id \in Requests : Forget(id)
    BY <1>2
  <2>2. TypeOK'
    BY <2>1 DEF IInv, TypeOK, Forget
  <2>3. /\ stored' \cup forgotten' = stored \cup forgotten
        /\ forgotten \subseteq forgotten'
    BY <2>1 DEF Forget
  <2>4. UNCHANGED <<serving, pc, error, parent, keep, loaded, plan, target, lease,
                    filed>>
    BY <2>1 DEF Forget
  <2>5. StoredIsDone' /\ KeptIsStored'
    BY <2>3, <2>4 DEF IInv, Support, StoredIsDone, KeptIsStored
  <2>6. QueueHeld' /\ ParentAnswered' /\ ErrorsEnd' /\ FiledClimb'
    BY <2>4 DEF IInv, Support, QueueHeld, ParentAnswered, ErrorsEnd, FiledClimb, Began
  <2>7. Safety'
    BY <2>3, <2>4 DEF IInv, Safety, ContinuationFindsParent, LeaseNeverDowngrades,
                      LeaseMatchesCall, HopsExplainCount,
                      NotHigherOnlyAfterRollback, Began, HasLease
  <2> QED
    BY <2>2, <2>5, <2>6, <2>7 DEF IInv, Support
<1> QED
  BY <1>1, <1>2

\* A client continues only a response it was sent: its parent is answered.
LEMMA SendIInv ==
  ASSUME IInv, NEW r \in Requests, NEW p \in Requests \cup {None},
         NEW q \in Queries, NEW k \in BOOLEAN, Send(r, p, q, k)
  PROVE  IInv'
<1> USE GatewayAssumption DEF configuration, storage, telemetry
<1>0. TypeOK
  BY DEF IInv
<1>1. /\ pc[r] = "new"
      /\ pc' = [pc EXCEPT ![r] = "queued"]
      /\ parent' = [parent EXCEPT ![r] = p]
      /\ keep' = [keep EXCEPT ![r] = k]
      /\ query' = [query EXCEPT ![r] = q]
      /\ p # None => p \notin Chats /\ pc[p] \in {"storing", "done"} /\ p \in Requests
  BY DEF Send, Known
<1>2. UNCHANGED <<configuration, serving, error, loaded, plan, target, lease,
                  storage, telemetry>>
  BY DEF Send
<1>3. DOMAIN pc = Requests /\ DOMAIN parent = Requests /\ DOMAIN keep = Requests
  BY <1>0 DEF TypeOK
<1>4. pc'[r] = "queued" /\ parent'[r] = p
  BY <1>1, <1>3
<1>5. \A o \in Requests \ {r} :
        pc'[o] = pc[o] /\ parent'[o] = parent[o] /\ keep'[o] = keep[o]
  BY <1>1, <1>3
<1>6. TypeOK'
  BY <1>0, <1>1, <1>2 DEF TypeOK
<1>7. QueueHeld' /\ StoredIsDone' /\ KeptIsStored' /\ FiledClimb'
  BY <1>1, <1>2, <1>4, <1>5 DEF IInv, Support, QueueHeld, StoredIsDone,
                                KeptIsStored, FiledClimb, Busy
<1>8. ParentAnswered'
  <2> SUFFICES ASSUME NEW o \in Requests, parent'[o] # None
               PROVE  /\ parent'[o] \notin Chats
                      /\ pc'[parent'[o]] \in {"storing", "done"}
                      /\ Began(o)' => pc'[parent'[o]] = "done"
    BY DEF ParentAnswered
  <2>1. CASE o = r
    BY <1>1, <1>4, <1>5, <2>1 DEF Began
  <2>2. CASE o # r
    <3>1. /\ parent[o] \notin Chats
          /\ pc[parent[o]] \in {"storing", "done"}
          /\ Began(o) => pc[parent[o]] = "done"
          /\ parent[o] \in Requests
      BY <1>0, <1>5, <2>2 DEF IInv, Support, ParentAnswered, TypeOK
    <3> QED
      BY <1>1, <1>5, <2>2, <3>1 DEF Began
  <2> QED
    BY <2>1, <2>2
<1>9. ErrorsEnd'
  BY <1>1, <1>2, <1>4, <1>5 DEF IInv, Support, ErrorsEnd
<1>10. ContinuationFindsParent'
  <2> SUFFICES ASSUME NEW o \in Requests, error[o] = "not found"
               PROVE  parent'[o] \in forgotten \/ ~keep'[parent'[o]]
    BY <1>2 DEF ContinuationFindsParent
  <2>1. /\ o # r
        /\ parent[o] \in Requests
        /\ pc[parent[o]] \in {"storing", "done"}
        /\ parent[o] \in forgotten \/ ~keep[parent[o]]
    BY <1>0, <1>1 DEF IInv, Support, Safety, ErrorsEnd, ParentAnswered,
                      ContinuationFindsParent, TypeOK
  <2> QED
    BY <1>1, <1>5, <2>1
<1>11. LeaseNeverDowngrades' /\ LeaseMatchesCall'
  BY <1>1, <1>2, <1>4, <1>5 DEF IInv, Safety, LeaseNeverDowngrades,
                                LeaseMatchesCall, Began, HasLease
<1>12. HopsExplainCount' /\ NotHigherOnlyAfterRollback'
  BY <1>2 DEF IInv, Safety, HopsExplainCount, NotHigherOnlyAfterRollback
<1> QED
  BY <1>6, <1>7, <1>8, <1>9, <1>10, <1>11, <1>12 DEF IInv, Support, Safety

\* A request begins alone, on the tier its lease names; its lease is new or the
\* one its parent was stored with.
LEMMA BeginIInv ==
  ASSUME IInv, NEW r \in Requests, Begin(r)
  PROVE  IInv'
<1> USE GatewayAssumption DEF configuration, chain, storage, telemetry
<1>0. TypeOK
  BY DEF IInv
<1>1. PICK d \in Decision(r) :
        /\ plan' = [plan EXCEPT ![r] = d.tier]
        /\ target' = [target EXCEPT ![r] = Applied(LegacyTarget(settings), settings, d)]
        /\ IF settings.mode # "legacy" /\ Inherited(r) = NoLease
           THEN /\ lease' = [lease EXCEPT ![r] = CreatedLease(r, d)]
                /\ row' \in {row, [row EXCEPT ![r] = CreatedLease(r, d)]}
           ELSE /\ lease' = [lease EXCEPT ![r] = Inherited(r)]
                /\ UNCHANGED row
  BY DEF Begin, RowWritten
<1>2. /\ pc[r] = "queued" /\ serving = None
      /\ parent[r] = None \/ parent[r] \in stored
      /\ pc' = [pc EXCEPT ![r] = "calling"]
      /\ serving' = r
      /\ loaded' = [loaded EXCEPT ![r] = settings]
      /\ UNCHANGED <<settings, changes, error, parent, query, keep, stored, filed,
                     forgotten, escalated, unrecorded>>
      /\ failures' = failures \/ \E lost : Lose(lost)
  BY DEF Begin, MayBegin
<1>3. /\ d \in DecisionType
      /\ Inherited(r) \in LeaseType
      /\ UsesLease(r) => d.tier = Inherited(r).route /\ d.model = Inherited(r).model
  BY <1>0, <1>1, <1>2, DecisionOf
<1>4. settings \in SettingsType
  BY <1>0 DEF TypeOK
<1>5. /\ Applied(LegacyTarget(settings), settings, d) \in TargetType
      /\ Applied(LegacyTarget(settings), settings, d).model = d.model
  BY <1>3, <1>4, AppliedType, LegacyTargetType
<1>6. /\ CreatedLease(r, d) \in LeaseType
      /\ CreatedLease(r, d).route = d.tier
      /\ CreatedLease(r, d).model = d.model
      /\ CreatedLease(r, d).count = 0
  BY <1>3 DEF CreatedLease, LeaseType, DecisionType
<1>7. TypeOK'
  <2>1. plan' \in [Requests -> Tiers] /\ target' \in [Requests -> TargetType]
    BY <1>0, <1>1, <1>3, <1>5 DEF TypeOK, DecisionType
  <2>2. lease' \in [Requests -> LeaseType] /\ row' \in [Requests -> LeaseType]
    <3>1. lease \in [Requests -> LeaseType] /\ row \in [Requests -> LeaseType]
      BY <1>0 DEF TypeOK
    <3> QED
      BY <1>1, <1>3, <1>6, <3>1
  <2>3. failures' \in 0 .. MaxFailures
    BY <1>0, <1>2, LoseType DEF TypeOK
  <2> QED
    BY <1>0, <1>2, <2>1, <2>2, <2>3 DEF TypeOK
<1>8. /\ pc'[r] = "calling" /\ plan'[r] = d.tier /\ target'[r].model = d.model
      /\ loaded'[r] = settings
      /\ lease'[r] = IF settings.mode # "legacy" /\ Inherited(r) = NoLease
                     THEN CreatedLease(r, d) ELSE Inherited(r)
  BY <1>0, <1>1, <1>2, <1>5 DEF TypeOK
<1>9. \A o \in Requests \ {r} :
        /\ pc'[o] = pc[o] /\ plan'[o] = plan[o] /\ target'[o] = target[o]
        /\ loaded'[o] = loaded[o] /\ lease'[o] = lease[o]
  BY <1>0, <1>1, <1>2 DEF TypeOK
<1>10. QueueHeld' /\ StoredIsDone' /\ KeptIsStored' /\ FiledClimb'
  BY <1>2, <1>8, <1>9 DEF IInv, Support, QueueHeld, StoredIsDone, KeptIsStored,
                          FiledClimb, Busy
<1>11. ParentAnswered'
  <2> SUFFICES ASSUME NEW o \in Requests, parent[o] # None
               PROVE  /\ parent[o] \notin Chats
                      /\ pc'[parent[o]] \in {"storing", "done"}
                      /\ Began(o)' => pc'[parent[o]] = "done"
    BY <1>2 DEF ParentAnswered
  <2>1. /\ parent[o] \notin Chats
        /\ pc[parent[o]] \in {"storing", "done"}
        /\ Began(o) => pc[parent[o]] = "done"
        /\ parent[o] \in Requests
    BY <1>0 DEF IInv, Support, ParentAnswered, TypeOK
  <2>2. o = r => pc[parent[o]] = "done"
    BY <1>2, <2>1 DEF IInv, Support, StoredIsDone
  <2> QED
    BY <1>2, <1>9, <2>1, <2>2 DEF Began
<1>12. ErrorsEnd'
  BY <1>2, <1>8, <1>9 DEF IInv, Support, ErrorsEnd
<1>13. ContinuationFindsParent'
  BY <1>2 DEF IInv, Safety, ContinuationFindsParent
<1>14. LeaseNeverDowngrades'
  <2> SUFFICES ASSUME NEW o \in Requests, parent[o] # None, Began(o)',
                      filed[parent[o]] # NoLease
               PROVE  /\ lease'[o].root = filed[parent[o]].root
                      /\ Rank[filed[parent[o]].route] <= Rank[lease'[o].route]
                      /\ filed[parent[o]].count <= lease'[o].count
    BY <1>2 DEF LeaseNeverDowngrades
  <2>1. CASE o = r
    <3>1. lease'[r] = filed[parent[r]]
      BY <1>8, <2>1 DEF Inherited
    <3>2. filed[parent[r]] \in LeaseType
      BY <1>3, <2>1 DEF Inherited
    <3> QED
      BY <2>1, <3>1, <3>2, RankType DEF LeaseType
  <2>2. CASE o # r
    <3>1. Began(o) /\ lease'[o] = lease[o]
      BY <1>9, <2>2 DEF Began
    <3> QED
      BY <3>1 DEF IInv, Safety, LeaseNeverDowngrades
  <2> QED
    BY <2>1, <2>2
<1>15. LeaseMatchesCall'
  <2> SUFFICES ASSUME NEW o \in Requests \ Chats, Began(o)', lease'[o] # NoLease,
                      loaded'[o].mode # "legacy"
               PROVE  plan'[o] = lease'[o].route /\ target'[o].model = lease'[o].model
    BY DEF LeaseMatchesCall, HasLease
  <2>1. CASE o = r
    BY <1>3, <1>6, <1>8, <2>1 DEF UsesLease
  <2>2. CASE o # r
    BY <1>9, <2>2 DEF IInv, Safety, LeaseMatchesCall, Began, HasLease
  <2> QED
    BY <2>1, <2>2
<1>16. HopsExplainCount'
  <2>1. lease'[r].count <= Rank[lease'[r].route]
    <3>1. CASE lease'[r] = CreatedLease(r, d)
      BY <1>3, <1>6, <3>1, RankType DEF DecisionType
    <3>2. CASE lease'[r] = Inherited(r)
      <4>1. NoLease.count <= Rank[NoLease.route]
        BY DEF NoLease, Rank
      <4>2. parent[r] # None => parent[r] \in Requests
        BY <1>0 DEF TypeOK
      <4> QED
        BY <3>2, <4>1, <4>2 DEF Inherited, IInv, Support, FiledClimb
    <3> QED
      BY <1>8, <3>1, <3>2
  <2>2. error[r] = "none"
    BY <1>0, <1>2 DEF IInv, Support, ErrorsEnd
  <2> QED
    BY <1>2, <1>9, <2>1, <2>2 DEF IInv, Safety, HopsExplainCount
<1>17. NotHigherOnlyAfterRollback'
  <2>1. error[r] = "none"
    BY <1>0, <1>2 DEF IInv, Support, ErrorsEnd
  <2> QED
    BY <1>2, <1>9, <2>1 DEF IInv, Safety, NotHigherOnlyAfterRollback
<1> QED
  BY <1>7, <1>10, <1>11, <1>12, <1>13, <1>14, <1>15, <1>16, <1>17
     DEF IInv, Support, Safety

\* What a switch to the next tier does to the request's provider.
LEMMA SwitchType ==
  ASSUME TypeOK, NEW r \in Requests, NEW t, SwitchTo(r, t)
  PROVE  /\ t \in Tiers /\ Rank[plan[r]] < Rank[t]
         /\ plan' \in [Requests -> Tiers] /\ target' \in [Requests -> TargetType]
         /\ plan'[r] = t /\ target'[r].model = t
         /\ \A o \in Requests \ {r} : plan'[o] = plan[o] /\ target'[o] = target[o]
<1> DEFINE d == TierDecision(loaded[r], t)
<1>1. loaded[r] \in SettingsType /\ target[r] \in TargetType
  BY GatewayAssumption DEF TypeOK
<1>2. t \in Tiers /\ Rank[plan[r]] < Rank[t] /\ d \in DecisionType /\ d.model = t
  BY <1>1, FallbackTier DEF SwitchTo, NextTier
<1>3. Applied(target[r], loaded[r], d) \in TargetType
      /\ Applied(target[r], loaded[r], d).model = t
  BY <1>1, <1>2, AppliedType
<1>4. /\ plan' = [plan EXCEPT ![r] = t]
      /\ target' = [target EXCEPT ![r] = Applied(target[r], loaded[r], d)]
  BY DEF SwitchTo
<1> HIDE DEF d
<1> QED
  BY <1>2, <1>3, <1>4 DEF TypeOK

\* A chat's fallback moves no lease.
LEMMA ChatFallbackIInv ==
  ASSUME IInv, NEW r \in Requests, NEW t \in Tiers, ChatFallback(r, t)
  PROVE  IInv'
<1> USE GatewayAssumption DEF configuration, chain, storage, telemetry
<1>0. TypeOK
  BY DEF IInv
<1>1. /\ pc[r] = "calling" /\ r \in Chats
      /\ pc' = [pc EXCEPT ![r] = "last call"]
      /\ UNCHANGED <<settings, changes, serving, error, parent, query, keep, loaded,
                     lease, stored, filed, forgotten, escalated, unrecorded, failures,
                     row>>
      /\ SwitchTo(r, t)
  BY DEF ChatFallback
<1>2. /\ plan' \in [Requests -> Tiers] /\ target' \in [Requests -> TargetType]
      /\ \A o \in Requests \ {r} : plan'[o] = plan[o] /\ target'[o] = target[o]
  BY <1>0, <1>1, SwitchType
<1>3. pc'[r] = "last call" /\ \A o \in Requests \ {r} : pc'[o] = pc[o]
  BY <1>0, <1>1 DEF TypeOK
<1>4. TypeOK'
  BY <1>0, <1>1, <1>2 DEF TypeOK
<1>5. Support'
  <2>1. QueueHeld' /\ ErrorsEnd' /\ FiledClimb'
    BY <1>1, <1>3 DEF IInv, Support, QueueHeld, ErrorsEnd, FiledClimb, Busy
  <2>2. StoredIsDone' /\ KeptIsStored'
    BY <1>1, <1>3 DEF IInv, Support, StoredIsDone, KeptIsStored
  <2>3. ParentAnswered'
    <3> SUFFICES ASSUME NEW o \in Requests, parent[o] # None
                 PROVE  /\ parent[o] \notin Chats
                        /\ pc'[parent[o]] \in {"storing", "done"}
                        /\ Began(o)' => pc'[parent[o]] = "done"
      BY <1>1 DEF ParentAnswered
    <3>1. /\ parent[o] \notin Chats
          /\ pc[parent[o]] \in {"storing", "done"}
          /\ Began(o) => pc[parent[o]] = "done"
          /\ parent[o] \in Requests
      BY <1>0 DEF IInv, Support, ParentAnswered, TypeOK
    <3> QED
      BY <1>1, <1>3, <3>1 DEF Began
  <2> QED
    BY <2>1, <2>2, <2>3 DEF Support
<1>6. Safety'
  BY <1>1, <1>2, <1>3 DEF IInv, Safety, ContinuationFindsParent,
         LeaseNeverDowngrades, LeaseMatchesCall, HopsExplainCount,
         NotHigherOnlyAfterRollback, Began, HasLease
<1> QED
  BY <1>4, <1>5, <1>6 DEF IInv

\* An escalation moves the lease up with the plan, and counts one step of at
\* least one rank.
LEMMA EscalateIInv ==
  ASSUME IInv, NEW r \in Requests, NEW t \in Tiers, Escalate(r, t)
  PROVE  IInv'
<1> USE GatewayAssumption DEF configuration, chain, storage, telemetry
<1>0. TypeOK
  BY DEF IInv
<1>1. /\ pc[r] = "calling" /\ r \notin Chats
      /\ UNCHANGED <<settings, changes, serving, pc, error, parent, query, keep,
                     loaded, stored, filed, forgotten>>
      /\ SwitchTo(r, t)
      /\ lease' = IF HasLease(r) THEN [lease EXCEPT ![r] = Escalated(r, t)] ELSE lease
      /\ HasLease(r) => ~NotHigher(r, t)
  BY DEF Escalate
<1>2. /\ plan' \in [Requests -> Tiers] /\ target' \in [Requests -> TargetType]
      /\ plan'[r] = t /\ target'[r].model = t
      /\ \A o \in Requests \ {r} : plan'[o] = plan[o] /\ target'[o] = target[o]
  BY <1>0, <1>1, SwitchType
<1>3. ASSUME HasLease(r)
      PROVE  /\ Escalated(r, t) \in LeaseType
             /\ Escalated(r, t).root = lease[r].root
             /\ Escalated(r, t).route = t /\ Escalated(r, t).model = t
             /\ Escalated(r, t).count = lease[r].count + 1
             /\ Rank[lease[r].route] < Rank[t]
             /\ lease[r].count + 1 <= Rank[t]
  <2>1. lease[r] \in LeaseType /\ lease[r].count \in 0 .. 2 /\ lease[r].route \in Tiers
    BY <1>0 DEF TypeOK, LeaseType
  <2>2. Rank[lease[r].route] < Rank[t]
    BY <1>1, <1>3, <2>1, RankType DEF NotHigher
  <2>3. lease[r].count <= Rank[lease[r].route]
    BY DEF IInv, Safety, HopsExplainCount
  <2>4. lease[r].count + 1 <= Rank[t] /\ lease[r].count + 1 \in 0 .. 2
    BY <2>1, <2>2, <2>3, RankType
  <2> QED
    BY <2>1, <2>2, <2>4 DEF Escalated, LeaseType
<1>4. \A o \in Requests \ {r} : lease'[o] = lease[o]
  BY <1>0, <1>1 DEF TypeOK
<1>5. lease'[r] = IF HasLease(r) THEN Escalated(r, t) ELSE lease[r]
  BY <1>0, <1>1 DEF TypeOK
<1>6. TypeOK'
  <2>1. lease' \in [Requests -> LeaseType]
    BY <1>0, <1>1, <1>3 DEF TypeOK
  <2>2. /\ escalated' \in [Requests -> Nat] /\ unrecorded' \in [Requests -> Nat]
        /\ failures' \in 0 .. MaxFailures
    <3>1. CASE HasLease(r)
      <4>1. PICK lost : Lose(lost) /\ EventWritten(r, lost)
        BY <3>1 DEF Escalate
      <4>2. escalated \in [Requests -> Nat] /\ unrecorded \in [Requests -> Nat]
        BY <1>0 DEF TypeOK
      <4>3. failures' \in 0 .. MaxFailures
        BY <1>0, <4>1, LoseType
      <4> QED
        BY <4>1, <4>2, <4>3, CountedType DEF EventWritten, Recorded
    <3>2. CASE ~HasLease(r)
      BY <1>0, <3>2 DEF TypeOK, Escalate
    <3> QED
      BY <3>1, <3>2
  <2>3. row' \in [Requests -> LeaseType]
    <3>1. CASE HasLease(r)
      <4>1. row' \in {row, [row EXCEPT ![lease[r].root] = Escalated(r, t)]}
        BY <3>1 DEF Escalate, RowWritten
      <4>2. row \in [Requests -> LeaseType]
        BY <1>0 DEF TypeOK
      <4> QED
        BY <1>3, <3>1, <4>1, <4>2
    <3>2. CASE ~HasLease(r)
      BY <1>0, <3>2 DEF TypeOK, Escalate
    <3> QED
      BY <3>1, <3>2
  <2> QED
    BY <1>0, <1>1, <1>2, <2>1, <2>2, <2>3 DEF TypeOK
<1>7. Support'
  BY <1>1 DEF IInv, Support, QueueHeld, StoredIsDone, KeptIsStored, ParentAnswered,
              ErrorsEnd, FiledClimb, Began
<1>8. ContinuationFindsParent'
  BY <1>1 DEF IInv, Safety, ContinuationFindsParent
<1>9. LeaseNeverDowngrades'
  <2> SUFFICES ASSUME NEW o \in Requests, parent[o] # None, Began(o),
                      filed[parent[o]] # NoLease
               PROVE  /\ lease'[o].root = filed[parent[o]].root
                      /\ Rank[filed[parent[o]].route] <= Rank[lease'[o].route]
                      /\ filed[parent[o]].count <= lease'[o].count
    BY <1>1 DEF LeaseNeverDowngrades, Began
  <2>1. /\ lease[o].root = filed[parent[o]].root
        /\ Rank[filed[parent[o]].route] <= Rank[lease[o].route]
        /\ filed[parent[o]].count <= lease[o].count
    BY DEF IInv, Safety, LeaseNeverDowngrades
  <2>2. /\ filed[parent[o]].count \in 0 .. 2 /\ filed[parent[o]].route \in Tiers
        /\ lease[o].count \in 0 .. 2 /\ lease[o].route \in Tiers
    BY <1>0 DEF TypeOK, LeaseType
  <2>3. CASE o = r /\ HasLease(r)
    <3>1. lease'[r] = Escalated(r, t)
      BY <1>5, <2>3
    <3> QED
      BY <1>3, <2>1, <2>2, <2>3, <3>1, RankType
  <2>4. CASE ~(o = r /\ HasLease(r))
    BY <1>4, <1>5, <2>1, <2>4
  <2> QED
    BY <2>3, <2>4
<1>10. LeaseMatchesCall'
  <2>1. ASSUME HasLease(r) PROVE plan'[r] = lease'[r].route /\ target'[r].model = lease'[r].model
    BY <1>2, <1>3, <1>5, <2>1
  <2>2. lease'[r] # NoLease => HasLease(r)
    BY <1>5 DEF HasLease
  <2>3. LeaseMatchesCall
    BY DEF IInv, Safety
  <2> SUFFICES ASSUME NEW o \in Requests \ Chats, Began(o), lease'[o] # NoLease,
                      loaded[o].mode # "legacy"
               PROVE  plan'[o] = lease'[o].route /\ target'[o].model = lease'[o].model
    BY <1>1 DEF LeaseMatchesCall, Began, HasLease
  <2>4. CASE o = r
    BY <2>1, <2>2, <2>4
  <2>5. CASE o # r
    BY <1>2, <1>4, <2>3, <2>5 DEF LeaseMatchesCall, HasLease
  <2> QED
    BY <2>4, <2>5
<1>11. HopsExplainCount'
  <2>1. lease'[r].count <= Rank[lease'[r].route]
    <3>1. CASE HasLease(r)
      BY <1>3, <1>5, <3>1
    <3>2. CASE ~HasLease(r)
      BY <1>5, <3>2 DEF IInv, Safety, HopsExplainCount
    <3> QED
      BY <3>1, <3>2
  <2> QED
    BY <1>1, <1>4, <2>1 DEF IInv, Safety, HopsExplainCount
<1>12. NotHigherOnlyAfterRollback'
  BY <1>1 DEF IInv, Safety, NotHigherOnlyAfterRollback
<1> QED
  BY <1>6, <1>7, <1>8, <1>9, <1>10, <1>11, <1>12 DEF IInv, Safety

\* The answer is sent with the queue still held.
LEMMA AnswerIInv ==
  ASSUME IInv, NEW r \in Requests, Answer(r)
  PROVE  IInv'
<1> USE GatewayAssumption DEF configuration, chain, storage, telemetry
<1>0. TypeOK
  BY DEF IInv
<1>1. /\ pc[r] \in {"calling", "last call"}
      /\ pc' = [pc EXCEPT ![r] = "storing"]
      /\ UNCHANGED <<settings, changes, serving, error, parent, query, keep, loaded,
                     plan, target, lease, stored, filed, forgotten, escalated, unrecorded, failures,
                     row>>
  BY DEF Answer
<1>2. pc'[r] = "storing" /\ \A o \in Requests \ {r} : pc'[o] = pc[o]
  BY <1>0, <1>1 DEF TypeOK
<1>3. TypeOK'
  BY <1>0, <1>1 DEF TypeOK
<1>4. QueueHeld' /\ ErrorsEnd' /\ FiledClimb'
  BY <1>1, <1>2 DEF IInv, Support, QueueHeld, ErrorsEnd, FiledClimb, Busy
<1>5. StoredIsDone' /\ KeptIsStored'
  BY <1>1, <1>2 DEF IInv, Support, StoredIsDone, KeptIsStored
<1>6. ParentAnswered'
  <2> SUFFICES ASSUME NEW o \in Requests, parent[o] # None
               PROVE  /\ parent[o] \notin Chats
                      /\ pc'[parent[o]] \in {"storing", "done"}
                      /\ Began(o)' => pc'[parent[o]] = "done"
    BY <1>1 DEF ParentAnswered
  <2>1. /\ parent[o] \notin Chats
        /\ pc[parent[o]] \in {"storing", "done"}
        /\ Began(o) => pc[parent[o]] = "done"
        /\ parent[o] \in Requests
    BY <1>0 DEF IInv, Support, ParentAnswered, TypeOK
  <2> QED
    BY <1>1, <1>2, <2>1 DEF Began
<1>7. Safety'
  BY <1>1, <1>2 DEF IInv, Safety, ContinuationFindsParent, LeaseNeverDowngrades,
         LeaseMatchesCall, HopsExplainCount, NotHigherOnlyAfterRollback, Began, HasLease
<1> QED
  BY <1>3, <1>4, <1>5, <1>6, <1>7 DEF IInv, Support

\* Storing and releasing the queue are the last step of a request: no child of
\* it has begun, so no inherited lease changes under it.
LEMMA FinishIInv ==
  ASSUME IInv, NEW r \in Requests, Finish(r)
  PROVE  IInv'
<1> USE GatewayAssumption DEF configuration, chain, storage, telemetry
<1>0. TypeOK
  BY DEF IInv
<1>1. /\ pc[r] = "storing"
      /\ pc' = [pc EXCEPT ![r] = "done"]
      /\ serving' = None
      /\ stored' = IF Stores(r) THEN stored \cup {r} ELSE stored
      /\ filed' = IF Stores(r) THEN [filed EXCEPT ![r] = lease[r]] ELSE filed
      /\ UNCHANGED <<settings, changes, error, parent, query, keep, loaded, plan,
                     target, lease, forgotten, escalated, unrecorded, failures,
                     row>>
  BY DEF Finish
<1>2. pc'[r] = "done" /\ \A o \in Requests \ {r} : pc'[o] = pc[o]
  BY <1>0, <1>1 DEF TypeOK
<1>3. /\ \A o \in Requests \ {r} : filed'[o] = filed[o]
      /\ filed'[r] \in {lease[r], filed[r]}
  BY <1>0, <1>1 DEF TypeOK
<1>4. TypeOK'
  <2>1. stored' \subseteq Requests
    BY <1>0, <1>1 DEF TypeOK
  <2>2. filed' \in [Requests -> LeaseType]
    BY <1>0, <1>1 DEF TypeOK
  <2> QED
    BY <1>0, <1>1, <2>1, <2>2 DEF TypeOK
<1>5. QueueHeld' /\ ErrorsEnd'
  BY <1>1, <1>2 DEF IInv, Support, QueueHeld, ErrorsEnd, Busy
<1>6. StoredIsDone' /\ KeptIsStored'
  BY <1>1, <1>2, <1>3 DEF IInv, Support, StoredIsDone, KeptIsStored, Stores
<1>7. ParentAnswered'
  <2> SUFFICES ASSUME NEW o \in Requests, parent[o] # None
               PROVE  /\ parent[o] \notin Chats
                      /\ pc'[parent[o]] \in {"storing", "done"}
                      /\ Began(o)' => pc'[parent[o]] = "done"
    BY <1>1 DEF ParentAnswered
  <2>1. /\ parent[o] \notin Chats
        /\ pc[parent[o]] \in {"storing", "done"}
        /\ Began(o) => pc[parent[o]] = "done"
        /\ parent[o] \in Requests
    BY <1>0 DEF IInv, Support, ParentAnswered, TypeOK
  <2> QED
    BY <1>1, <1>2, <2>1 DEF Began
<1>8. FiledClimb'
  BY <1>3 DEF IInv, Support, Safety, FiledClimb, HopsExplainCount
<1>9. LeaseNeverDowngrades'
  <2> SUFFICES ASSUME NEW o \in Requests, parent[o] # None, Began(o)',
                      filed'[parent[o]] # NoLease
               PROVE  /\ lease[o].root = filed'[parent[o]].root
                      /\ Rank[filed'[parent[o]].route] <= Rank[lease[o].route]
                      /\ filed'[parent[o]].count <= lease[o].count
    BY <1>1 DEF LeaseNeverDowngrades
  <2>1. Began(o) /\ parent[o] \in Requests
    BY <1>0, <1>1, <1>2 DEF Began, TypeOK
  <2>2. parent[o] # r
    BY <1>1, <2>1 DEF IInv, Support, ParentAnswered
  <2> QED
    BY <1>3, <2>1, <2>2 DEF IInv, Safety, LeaseNeverDowngrades
<1>10. LeaseMatchesCall'
  BY <1>1, <1>2 DEF IInv, Safety, LeaseMatchesCall, Began, HasLease
<1>11. ContinuationFindsParent' /\ HopsExplainCount' /\ NotHigherOnlyAfterRollback'
  BY <1>1 DEF IInv, Safety, ContinuationFindsParent, HopsExplainCount,
              NotHigherOnlyAfterRollback
<1> QED
  BY <1>4, <1>5, <1>6, <1>7, <1>8, <1>9, <1>10, <1>11 DEF IInv, Support, Safety

-----------------------------------------------------------------------------
(* The theorems.                                                           *)

\* Every step preserves the invariant: the requests that fail do so for a reason
\* the invariant accounts for.
LEMMA NextIInv == IInv /\ [Next]_vars => IInv'
<1> SUFFICES ASSUME IInv, [Next]_vars PROVE IInv'
  OBVIOUS
<1> USE GatewayAssumption
<1>0. TypeOK
  BY DEF IInv
<1>1. CASE UNCHANGED vars
  BY <1>1 DEF vars, configuration, chain, storage, telemetry, IInv, TypeOK, Support,
       QueueHeld, StoredIsDone, KeptIsStored, ParentAnswered, ErrorsEnd, FiledClimb,
       Safety, ContinuationFindsParent, LeaseNeverDowngrades, LeaseMatchesCall,
       HopsExplainCount, NotHigherOnlyAfterRollback, Began, HasLease
<1>2. CASE (\E s \in Settings : ChangeSettings(s)) \/ \E r \in Requests : Forget(r)
  BY <1>2, WorldIInv
<1>3. CASE \E r \in Requests, p \in Requests \cup {None}, q \in Queries, k \in BOOLEAN :
             Send(r, p, q, k)
  BY <1>3, SendIInv
<1>4. ASSUME NEW r \in Requests, RequestStep(r)
      PROVE  IInv'
  <2>1. CASE NotFound(r)
    <3>1. /\ pc[r] = "queued" /\ serving = None
          /\ parent[r] # None /\ parent[r] \notin stored
          /\ Fail(r, "not found")
          /\ UNCHANGED <<configuration, chain, loaded, plan, target, lease, storage,
                         telemetry>>
      BY <2>1 DEF NotFound, MayBegin
    <3>2. /\ parent[r] \in Requests \ Chats
          /\ pc[parent[r]] \in {"storing", "done"}
      BY <1>0, <3>1 DEF IInv, Support, ParentAnswered, TypeOK
    <3>3. pc[parent[r]] = "done"
      BY <3>1, <3>2 DEF IInv, Support, QueueHeld, Busy
    <3>4. parent[r] \in forgotten \/ ~keep[parent[r]]
      BY <3>1, <3>2, <3>3 DEF IInv, Support, KeptIsStored
    <3> QED
      BY <3>1, <3>4, FailIInv DEF MayBegin, Causes
  <2>2. CASE Refused(r)
    BY <2>2, FailIInv DEF Refused, Causes
  <2>3. CASE Begin(r)
    BY <2>3, BeginIInv
  <2>4. CASE Exhausted(r)
    BY <2>4, FailIInv DEF Exhausted, Causes
  <2>5. CASE \E t \in Tiers : ChatFallback(r, t)
    BY <2>5, ChatFallbackIInv
  <2>6. CASE \E t \in Tiers : Escalate(r, t)
    BY <2>6, EscalateIInv
  <2>7. ASSUME NEW t \in Tiers, EscalationRefused(r, t)
        PROVE  IInv'
    <3>1. /\ pc[r] = "calling" /\ r \notin Chats /\ HasLease(r)
          /\ NextTier(r, t)
          /\ NotHigher(r, t) \/ AtLimit(r)
          /\ Fail(r, IF NotHigher(r, t) THEN "not higher" ELSE "limit")
          /\ UNCHANGED <<configuration, chain, loaded, plan, target, lease, storage,
                         telemetry>>
      BY <2>7 DEF EscalationRefused
    <3>2. loaded[r] \in SettingsType /\ lease[r] \in LeaseType /\ plan[r] \in Tiers
      BY <1>0 DEF TypeOK
    <3>3. Rank[plan[r]] < Rank[t]
      BY <3>1, <3>2, FallbackTier DEF NextTier
    <3>4. CASE NotHigher(r, t)
      <4>1. loaded[r].mode # "legacy" => plan[r] = lease[r].route
        BY <3>1 DEF IInv, Safety, LeaseMatchesCall, Began
      <4>2. lease[r].route \in Tiers /\ Rank[t] <= Rank[lease[r].route]
        BY <3>2, <3>4 DEF NotHigher, LeaseType
      <4>3. loaded[r].mode = "legacy"
        BY <3>2, <3>3, <4>1, <4>2, RankType
      <4> QED
        BY <3>1, <3>4, <4>3, FailIInv DEF Causes
    <3>5. CASE ~NotHigher(r, t)
      <4>1. /\ lease[r].count \in 0 .. 2 /\ lease[r].route \in Tiers
            /\ loaded[r].maxEscalations \in 0 .. 10
        BY <3>2 DEF LeaseType, SettingsType
      <4>2. Rank[lease[r].route] < Rank[t]
        BY <3>5, <4>1, RankType DEF NotHigher
      <4>3. lease[r].count <= Rank[lease[r].route]
        BY DEF IInv, Safety, HopsExplainCount
      <4>4. loaded[r].maxEscalations <= lease[r].count
        BY <3>1, <3>5, <4>1 DEF AtLimit
      <4>5. loaded[r].maxEscalations < 2
        BY <4>1, <4>2, <4>3, <4>4, RankType
      <4> QED
        BY <3>1, <3>5, <4>5, FailIInv DEF Causes
    <3> QED
      BY <3>4, <3>5
  <2>8. CASE ChatGivesUp(r)
    BY <2>8, FailIInv DEF ChatGivesUp, Causes
  <2>9. CASE Answer(r)
    BY <2>9, AnswerIInv
  <2>10. CASE Interrupted(r)
    BY <2>10, FailIInv DEF Interrupted, Causes
  <2>11. CASE Finish(r)
    BY <2>11, FinishIInv
  <2> QED
    BY <1>4, <2>1, <2>2, <2>3, <2>4, <2>5, <2>6, <2>7, <2>8, <2>9, <2>10, <2>11
       DEF RequestStep
<1> QED
  BY <1>1, <1>2, <1>3, <1>4 DEF Next

\* The invariant holds in every reachable state.
THEOREM InvariantHolds == Spec => []IInv
<1> QED
  BY InitIInv, NextIInv, PTL DEF Spec

\* The types, with every lease's escalation count at most 2 (TypeOK).
THEOREM TypeCorrect == Spec => []TypeOK
<1>1. IInv => TypeOK
  BY DEF IInv
<1> QED
  BY <1>1, InvariantHolds, PTL

\* A client that continues a response it was sent finds it, unless it was
\* dropped or never to be stored: the early answer is harmless because the
\* queue is held until the response is stored.
THEOREM ContinuationFindsParentHolds == Spec => []ContinuationFindsParent
<1>1. IInv => ContinuationFindsParent
  BY DEF IInv, Safety
<1> QED
  BY <1>1, InvariantHolds, PTL

\* Leases are monotone along every chain, whatever happens to the settings.
THEOREM LeaseNeverDowngradesHolds == Spec => []LeaseNeverDowngrades
<1>1. IInv => LeaseNeverDowngrades
  BY DEF IInv, Safety
<1> QED
  BY <1>1, InvariantHolds, PTL

\* A lease names the tier and the model that execute its response.
THEOREM LeaseMatchesCallHolds == Spec => []LeaseMatchesCall
<1>1. IInv => LeaseMatchesCall
  BY DEF IInv, Safety
<1> QED
  BY <1>1, InvariantHolds, PTL

\* Escalation counts never exceed the tiers climbed, so a limit of two or more
\* never refuses an escalation.
THEOREM HopsExplainCountHolds == Spec => []HopsExplainCount
<1>1. IInv => HopsExplainCount
  BY DEF IInv, Safety
<1> QED
  BY <1>1, InvariantHolds, PTL

\* The "must move to a higher tier" error is raised only in legacy mode.
THEOREM NotHigherOnlyAfterRollbackHolds == Spec => []NotHigherOnlyAfterRollback
<1>1. IInv => NotHigherOnlyAfterRollback
  BY DEF IInv, Safety
<1> QED
  BY <1>1, InvariantHolds, PTL

-----------------------------------------------------------------------------
(* Escalation events: an invariant of its own, on top of the types.        *)

\* The escalations of a lease, written or lost.
Offered(root) == escalated[root] + unrecorded[root]

\* Every lease in use, stored or in telemetry has a root and no more escalations
\* than were offered to telemetry for the root.
Accounted ==
  \A r \in Requests :
    \A l \in {lease[r], filed[r], row[r]} \ {NoLease} :
      l.root \in Requests /\ l.count <= Offered(l.root)

\* A step that only moves leases about, and adds those of new chains, keeps them
\* accounted for.
LEMMA MovedLeases ==
  ASSUME Accounted, UNCHANGED <<escalated, unrecorded>>,
         escalated \in [Requests -> Nat], unrecorded \in [Requests -> Nat],
         \A r \in Requests : \A l \in {lease'[r], filed'[r], row'[r]} \ {NoLease} :
           \/ \E o \in Requests : l \in {lease[o], filed[o], row[o]}
           \/ l.root \in Requests /\ l.count = 0
  PROVE  Accounted'
<1>1. \A o \in Requests : Offered(o) \in Nat /\ 0 <= Offered(o) /\ Offered(o)' = Offered(o)
  BY DEF Offered
<1> QED
  BY <1>1 DEF Accounted, Offered

\* An escalation is offered to telemetry before the lease counts it, and is there
\* or lost.
LEMMA EscalateAccounted ==
  ASSUME TypeOK, Accounted, NEW r \in Requests, NEW t \in Tiers, Escalate(r, t)
  PROVE  Accounted'
<1> USE DEF storage, telemetry
<1>1. /\ lease \in [Requests -> LeaseType] /\ row \in [Requests -> LeaseType]
      /\ filed \in [Requests -> LeaseType] /\ escalated \in [Requests -> Nat]
      /\ unrecorded \in [Requests -> Nat]
  BY DEF TypeOK
<1>2. filed' = filed
  BY DEF Escalate
<1>3. CASE ~HasLease(r)
  BY <1>1, <1>2, <1>3, MovedLeases DEF Escalate
<1>4. CASE HasLease(r)
  <2> DEFINE root == lease[r].root
             grown == Escalated(r, t)
  <2>1. /\ root \in Requests /\ lease[r].count <= Offered(root)
    BY <1>4 DEF Accounted, HasLease
  <2>2. /\ lease' = [lease EXCEPT ![r] = grown]
        /\ row' \in {row, [row EXCEPT ![root] = grown]}
        /\ \/ /\ escalated' = [escalated EXCEPT ![root] = escalated[root] + 1]
              /\ unrecorded' = unrecorded
           \/ /\ unrecorded' = [unrecorded EXCEPT ![root] = unrecorded[root] + 1]
              /\ escalated' = escalated
    BY <1>4 DEF Escalate, EventWritten, RowWritten, Recorded
  <2>3. lease[r].count \in Nat
    BY <1>1 DEF LeaseType
  <2>4. grown.root = root /\ grown.count = lease[r].count + 1
    BY <1>1 DEF Escalated, LeaseType
  <2> HIDE DEF root, grown
  <2> DEFINE now(o) == escalated'[o] + unrecorded'[o]
  <2>5. /\ now(root) = Offered(root) + 1
        /\ \A o \in Requests : Offered(o) \in Nat /\ now(o) \in Nat
                              /\ Offered(o) <= now(o)
    <3>1. CASE escalated' = [escalated EXCEPT ![root] = escalated[root] + 1]
               /\ unrecorded' = unrecorded
      BY <1>1, <2>1, <3>1 DEF Offered
    <3>2. CASE unrecorded' = [unrecorded EXCEPT ![root] = unrecorded[root] + 1]
               /\ escalated' = escalated
      BY <1>1, <2>1, <3>2 DEF Offered
    <3> QED
      BY <2>2, <3>1, <3>2
  <2> HIDE DEF now
  <2>6. grown.root \in Requests /\ grown.count <= now(grown.root)
    BY <2>1, <2>3, <2>4, <2>5
  <2> SUFFICES ASSUME NEW o \in Requests,
                      NEW l \in {lease'[o], filed'[o], row'[o]} \ {NoLease}
               PROVE  l.root \in Requests /\ l.count <= now(l.root)
    BY DEF Accounted, Offered, now
  <2>7. CASE l = grown
    BY <2>6, <2>7
  <2>8. CASE l # grown
    <3>1. l \in {lease[o], filed[o], row[o]} /\ l \in LeaseType
      BY <1>1, <1>2, <2>2, <2>8
    <3>2. l.root \in Requests /\ l.count <= Offered(l.root) /\ l.count \in Nat
      BY <3>1 DEF Accounted, LeaseType
    <3> QED
      BY <2>5, <3>2
  <2> QED
    BY <2>7, <2>8
<1> QED
  BY <1>3, <1>4

\* No other step adds an escalation.
LEMMA NextAccounted == TypeOK /\ Accounted /\ [Next]_vars => Accounted'
<1> SUFFICES ASSUME TypeOK, Accounted, [Next]_vars PROVE Accounted'
  OBVIOUS
<1> USE DEF configuration, chain, storage, telemetry
<1>0. /\ lease \in [Requests -> LeaseType] /\ row \in [Requests -> LeaseType]
      /\ filed \in [Requests -> LeaseType] /\ escalated \in [Requests -> Nat]
      /\ unrecorded \in [Requests -> Nat]
      /\ parent \in [Requests -> Requests \cup {None}]
  BY DEF TypeOK
<1>1. CASE UNCHANGED <<lease, filed, row, escalated, unrecorded>>
  BY <1>0, <1>1, MovedLeases
<1>2. CASE UNCHANGED vars
  BY <1>1, <1>2 DEF vars
<1>3. CASE (\E s \in Settings : ChangeSettings(s)) \/ \E r \in Requests : Forget(r)
  BY <1>1, <1>3 DEF ChangeSettings, Forget
<1>4. CASE \E r \in Requests, p \in Requests \cup {None}, q \in Queries, k \in BOOLEAN :
             Send(r, p, q, k)
  BY <1>1, <1>4 DEF Send
<1>5. ASSUME NEW r \in Requests, RequestStep(r)
      PROVE  Accounted'
  <2>1. CASE Begin(r)
    <3>1. filed' = filed /\ UNCHANGED <<escalated, unrecorded>>
      BY <2>1 DEF Begin
    <3>2. PICK d \in Decision(r) :
            \/ /\ lease' = [lease EXCEPT ![r] = CreatedLease(r, d)]
               /\ row' \in {row, [row EXCEPT ![r] = CreatedLease(r, d)]}
            \/ /\ lease' = [lease EXCEPT ![r] = Inherited(r)]
               /\ row' = row
      BY <2>1 DEF Begin, RowWritten
    <3>3. CreatedLease(r, d).root \in Requests /\ CreatedLease(r, d).count = 0
      BY DEF CreatedLease
    <3>4. Inherited(r) = NoLease \/ \E o \in Requests : Inherited(r) = filed[o]
      BY <1>0 DEF Inherited
    <3> QED
      BY <1>0, <3>1, <3>2, <3>3, <3>4, MovedLeases
  <2>2. CASE \E t \in Tiers : Escalate(r, t)
    BY <2>2, EscalateAccounted
  <2>3. CASE Finish(r)
    <3>1. lease' = lease /\ row' = row /\ UNCHANGED <<escalated, unrecorded>>
      BY <2>3 DEF Finish
    <3>2. \A o \in Requests : filed'[o] \in {filed[o], lease[o]}
      BY <1>0, <2>3 DEF Finish
    <3> QED
      BY <1>0, <3>1, <3>2, MovedLeases
  <2>4. CASE NotFound(r) \/ Refused(r) \/ Exhausted(r) \/ ChatGivesUp(r)
             \/ Answer(r) \/ Interrupted(r)
    BY <1>1, <2>4 DEF NotFound, Refused, Exhausted, ChatGivesUp, Answer, Interrupted
  <2>5. CASE \E t \in Tiers : ChatFallback(r, t) \/ EscalationRefused(r, t)
    BY <1>1, <2>5 DEF ChatFallback, EscalationRefused
  <2> QED
    BY <1>5, <2>1, <2>2, <2>3, <2>4, <2>5 DEF RequestStep
<1> QED
  BY <1>2, <1>3, <1>4, <1>5 DEF Next

\* Telemetry has an event for every escalation any lease counts, but for those whose
\* write failed, for any number of requests that continue, branch and fail and any
\* number of failed writes.
THEOREM EscalationsAreRecordedHolds == Spec => []EscalationsAreRecorded
<1>1. Init => Accounted
  BY DEF Init, Accounted
<1>2. Accounted => EscalationsAreRecorded
  BY DEF Accounted, Offered, EscalationsAreRecorded
<1> QED
  BY <1>1, <1>2, NextAccounted, TypeCorrect, PTL DEF Spec

-----------------------------------------------------------------------------
(* Where a chain starts: an invariant of its own, on top of the types.     *)

\* What is promised of the first tier t of a request (engine.py).
Promise(s, q, t) ==
  /\ q.forced /\ q.rule \in Eligible(s, q) => t = q.rule
  /\ ~q.forced /\ CloudStrong(s) /\ t = "strong"
       => \A u \in {"local", "mid"} \cap Eligible(s, q) : s.tiers[u].provider # "ollama"

\* _resolve_available_tier keeps it: what comes before the routed tier in the
\* order of the tier that is wanted is not eligible.
LEMMA RoutedPromise ==
  ASSUME NEW s \in SettingsType, NEW q \in QueryType, NEW t \in Routed(s, q)
  PROVE  Promise(s, q, t)
<1> DEFINE wanted == WantedTier(s, q)
<1>1. /\ t \in Eligible(s, q)
      /\ \A u \in Eligible(s, q) : Preference[wanted][t] <= Preference[wanted][u]
  BY DEF Routed
<1>2. \A u \in Eligible(s, q) : u \in Tiers /\ Enabled(s, u)
  BY DEF Eligible, QueryType
<1>3. ASSUME q.forced, q.rule \in Eligible(s, q)
      PROVE  t = q.rule
  <2>1. wanted = q.rule
    BY <1>3 DEF WantedTier, RequestedTier
  <2> HIDE DEF wanted
  <2> QED
    BY <1>1, <1>2, <1>3, <2>1 DEF Preference, Tiers
<1>4. ASSUME ~q.forced, CloudStrong(s), t = "strong",
             NEW u \in {"local", "mid"} \cap Eligible(s, q),
             s.tiers[u].provider = "ollama"
      PROVE  FALSE
  <2>1. EnabledOllama(s, u) /\ u \in {"local", "mid"}
    BY <1>2, <1>4 DEF EnabledOllama
  <2>2. RequestedTier(q) \in Tiers
    BY DEF RequestedTier, QueryType, Scores, Band, Tiers
  <2>3. wanted \in {"local", "mid"}
    BY <1>4, <2>1, <2>2 DEF WantedTier, Tiers
  <2> HIDE DEF wanted
  <2> QED
    BY <1>1, <1>4, <2>1, <2>3 DEF Preference
<1> QED
  BY <1>3, <1>4 DEF Promise

\* A request in the queue is one that was sent; the first call of a chain in
\* router mode has a lease, whose count an escalation raises.
Promised ==
  \A r \in Requests :
    /\ pc[r] # "new" => query[r] \in Queries
    /\ FirstCall(r) => HasLease(r) /\ Promise(loaded[r], query[r], plan[r])

\* What leaves the call, the route and the lease of every request alone.
LEMMA PromisedKept ==
  ASSUME Promised, UNCHANGED <<parent, query, loaded>>,
         \A o \in Requests : /\ pc'[o] # "new" => pc[o] # "new"
                             /\ pc'[o] = "calling" =>
                                  pc[o] = "calling" /\ lease'[o] = lease[o] /\ plan'[o] = plan[o]
  PROVE  Promised'
BY DEF Promised, FirstCall, HasLease

\* The first decision of a chain is a routed tier; it gets a lease.
LEMMA BeginPromised ==
  ASSUME TypeOK, Promised, NEW r \in Requests, Begin(r)
  PROVE  Promised'
<1> USE GatewayAssumption DEF configuration, chain, storage, telemetry
<1>1. /\ pc[r] = "queued" /\ UNCHANGED <<parent, query>>
      /\ parent[r] = None \/ parent[r] \in stored
      /\ pc' = [pc EXCEPT ![r] = "calling"]
      /\ loaded' = [loaded EXCEPT ![r] = settings]
  BY DEF Begin, MayBegin
<1>2. PICK d \in Decision(r) :
        /\ plan' = [plan EXCEPT ![r] = d.tier]
        /\ IF settings.mode # "legacy" /\ Inherited(r) = NoLease
           THEN lease' = [lease EXCEPT ![r] = CreatedLease(r, d)]
           ELSE lease' = [lease EXCEPT ![r] = Inherited(r)]
  BY DEF Begin
<1>3. /\ pc \in [Requests -> {"new", "queued", "calling", "last call", "storing",
                              "done", "failed"}]
      /\ loaded \in [Requests -> Settings] /\ plan \in [Requests -> Tiers]
      /\ lease \in [Requests -> LeaseType] /\ settings \in Settings
  BY DEF TypeOK
<1>4. pc'[r] = "calling" /\ loaded'[r] = settings /\ plan'[r] = d.tier
  BY <1>1, <1>2, <1>3
<1>5. query[r] \in Queries
  BY <1>1 DEF Promised
<1>6. \A o \in Requests \ {r} : /\ pc'[o] = pc[o] /\ loaded'[o] = loaded[o]
                                /\ plan'[o] = plan[o] /\ lease'[o] = lease[o]
  BY <1>1, <1>2, <1>3
<1>7. ASSUME FirstCall(r)'
      PROVE  HasLease(r)' /\ Promise(loaded'[r], query'[r], plan'[r])
  <2>1. parent[r] = None /\ settings.mode = "router" /\ Inherited(r) = NoLease
    BY <1>1, <1>4, <1>7 DEF FirstCall, Inherited
  <2>2. lease'[r] = CreatedLease(r, d)
    BY <1>2, <1>3, <2>1
  <2>3. HasLease(r)'
    BY <2>2 DEF HasLease, CreatedLease, NoLease
  <2>4. d \in Plans(settings, query[r], InCanary(r))
    BY <2>1 DEF Decision, LeaseTierGone, UsesLease, Planned
  <2>5. PICK t \in Routed(settings, query[r]) : d = TierDecision(settings, t)
    BY <2>1, <2>4 DEF Plans, ExecutesLegacy
  <2>6. plan'[r] = t
    BY <1>4, <2>5 DEF TierDecision
  <2>7. Promise(settings, query[r], t)
    BY <1>3, <1>5, RoutedPromise
  <2> QED
    BY <1>1, <1>4, <2>3, <2>6, <2>7
<1>8. ASSUME NEW o \in Requests
      PROVE  /\ pc'[o] # "new" => query'[o] \in Queries
             /\ FirstCall(o)' => HasLease(o)' /\ Promise(loaded'[o], query'[o], plan'[o])
  <2>1. CASE o = r
    BY <1>1, <1>5, <1>7, <2>1
  <2>2. CASE o # r
    BY <1>1, <1>6, <2>2 DEF Promised, FirstCall, HasLease
  <2> QED
    BY <2>1, <2>2
<1> QED
  BY <1>8 DEF Promised

\* An escalation leaves a first call behind: the lease counts it.
LEMMA EscalatePromised ==
  ASSUME TypeOK, Promised, NEW r \in Requests, NEW t \in Tiers, Escalate(r, t)
  PROVE  Promised'
<1> USE DEF configuration, chain, storage
<1>1. /\ lease \in [Requests -> LeaseType] /\ plan \in [Requests -> Tiers]
      /\ UNCHANGED <<pc, parent, query, loaded>>
      /\ IF HasLease(r) THEN lease' = [lease EXCEPT ![r] = Escalated(r, t)]
         ELSE lease' = lease
  BY DEF Escalate, TypeOK
<1>2. \A o \in Requests \ {r} : lease'[o] = lease[o] /\ plan'[o] = plan[o]
  BY <1>1 DEF Escalate, SwitchTo
<1>3. FirstCall(r)' => FALSE
  <2>1. CASE HasLease(r)
    <3>1. lease[r] \in LeaseType
      BY <1>1
    <3>2. lease[r].count \in Nat /\ Escalated(r, t).count = lease[r].count + 1
      BY <3>1 DEF Escalated, LeaseType
    <3>3. lease'[r] = Escalated(r, t)
      BY <1>1, <2>1
    <3> QED
      BY <3>2, <3>3 DEF FirstCall
  <2>2. CASE ~HasLease(r)
    BY <1>1, <2>2 DEF FirstCall, Promised, HasLease
  <2> QED
    BY <2>1, <2>2
<1> QED
  BY <1>1, <1>2, <1>3 DEF Promised, FirstCall, HasLease

LEMMA NextPromised == TypeOK /\ Promised /\ [Next]_vars => Promised'
<1> SUFFICES ASSUME TypeOK, Promised, [Next]_vars PROVE Promised'
  OBVIOUS
<1> USE DEF configuration, chain, storage, telemetry
<1>0. /\ DOMAIN pc = Requests /\ DOMAIN parent = Requests /\ DOMAIN query = Requests
  BY DEF TypeOK
<1>1. CASE UNCHANGED vars
  BY <1>1, PromisedKept DEF vars
<1>2. CASE (\E s \in Settings : ChangeSettings(s)) \/ \E r \in Requests : Forget(r)
  BY <1>2, PromisedKept DEF ChangeSettings, Forget
<1>3. ASSUME NEW r \in Requests, NEW p \in Requests \cup {None}, NEW q \in Queries,
             NEW k \in BOOLEAN, Send(r, p, q, k)
      PROVE  Promised'
  <2>1. /\ pc' = [pc EXCEPT ![r] = "queued"] /\ query' = [query EXCEPT ![r] = q]
        /\ parent' = [parent EXCEPT ![r] = p] /\ UNCHANGED <<loaded, plan, lease>>
    BY <1>3 DEF Send
  <2>2. pc'[r] = "queued" /\ query'[r] = q
    BY <1>0, <2>1
  <2>3. \A o \in Requests \ {r} :
          pc'[o] = pc[o] /\ query'[o] = query[o] /\ parent'[o] = parent[o]
    BY <1>0, <2>1
  <2>4. ~FirstCall(r)'
    BY <2>2 DEF FirstCall
  <2> QED
    BY <2>1, <2>2, <2>3, <2>4 DEF Promised, FirstCall, HasLease
<1>4. ASSUME NEW r \in Requests, RequestStep(r)
      PROVE  Promised'
  <2>1. CASE Begin(r)
    BY <2>1, BeginPromised
  <2>2. CASE \E t \in Tiers : Escalate(r, t)
    BY <2>2, EscalatePromised
  <2>3. CASE NotFound(r) \/ Refused(r)
    BY <1>0, <2>3, PromisedKept DEF NotFound, Refused, Fail, MayBegin
  <2>4. CASE Exhausted(r) \/ ChatGivesUp(r) \/ Interrupted(r)
    BY <1>0, <2>4, PromisedKept DEF Exhausted, ChatGivesUp, Interrupted, Fail
  <2>5. CASE Answer(r) \/ Finish(r)
    BY <1>0, <2>5, PromisedKept DEF Answer, Finish
  <2>6. CASE \E t \in Tiers : EscalationRefused(r, t)
    BY <1>0, <2>6, PromisedKept DEF EscalationRefused, Fail
  <2>7. CASE \E t \in Tiers : ChatFallback(r, t)
    <3>1. /\ pc[r] = "calling" /\ pc' = [pc EXCEPT ![r] = "last call"]
          /\ UNCHANGED <<parent, query, loaded, lease>>
          /\ \E t \in Tiers : plan' = [plan EXCEPT ![r] = t]
      BY <2>7 DEF ChatFallback, SwitchTo
    <3>2. \A o \in Requests \ {r} : pc'[o] = pc[o] /\ plan'[o] = plan[o]
      BY <1>0, <3>1 DEF TypeOK
    <3>3. pc'[r] = "last call"
      BY <1>0, <3>1
    <3> QED
      BY <3>1, <3>2, <3>3, PromisedKept
  <2> QED
    BY <1>4, <2>1, <2>2, <2>3, <2>4, <2>5, <2>6, <2>7 DEF RequestStep
<1> QED
  BY <1>1, <1>2, <1>3, <1>4 DEF Next

\* Whatever tiers are configured, absent, disabled or incapable, and whatever the
\* rules and RouteLLM say: a forced alias starts on its tier when that is eligible,
\* and an automatic request does not start in the cloud while an eligible tier is
\* served by Ollama (engine.py:113).
THEOREM FirstTierIsPromisedHolds == Spec => []FirstTierIsPromised
<1>1. Init => Promised
  BY DEF Init, Promised, FirstCall
<1>2. Promised => FirstTierIsPromised
  BY DEF Promised, Promise, FirstTierIsPromised
<1> QED
  BY <1>1, <1>2, NextPromised, TypeCorrect, PTL DEF Spec

-----------------------------------------------------------------------------
(* Whose endpoint and key a provider is created with.                      *)

\* Endpoint and key of w are configured for its provider.
Fits(s, w) == \A owner \in {w.endpoint, w.key} : ProviderOf(s, owner) = w.provider

LEMMA LegacyFits == \A s : Fits(s, LegacyTarget(s))
BY DEF Fits, LegacyTarget, ProviderOf

\* _apply_decision keeps endpoint and key together with the provider, for any
\* decision that names the provider its tier is configured with.
LEMMA AppliedFits ==
  ASSUME NEW s, NEW w, NEW d, Fits(s, w), CanApply(w, s, d), d.tier \in Tiers,
         Configured(s, d.tier) => s.tiers[d.tier].provider = d.provider
  PROVE  Fits(s, Applied(w, s, d))
<1>1. ProviderOf(s, w.endpoint) = w.provider /\ ProviderOf(s, w.key) = w.provider
  BY DEF Fits
<1>2. Configured(s, d.tier) => ProviderOf(s, d.tier) = d.provider
  BY DEF ProviderOf, Tiers
<1>3. ~Configured(s, d.tier) \/ ~s.tiers[d.tier].hasUrl => d.provider = w.provider
  BY DEF CanApply
<1>4. /\ Applied(w, s, d).provider = d.provider
      /\ Applied(w, s, d).endpoint = IF Configured(s, d.tier) /\ s.tiers[d.tier].hasUrl
                                     THEN d.tier ELSE w.endpoint
      /\ Applied(w, s, d).key = IF Configured(s, d.tier) THEN d.tier ELSE w.key
  BY DEF Applied
<1> QED
  BY <1>1, <1>2, <1>3, <1>4 DEF Fits

\* The modes that execute legacy use the place of the LOCAL tier: there the two
\* must name the same provider, or the tier's endpoint and key are borrowed.
Agrees(s) ==
  s.mode # "router" /\ Configured(s, "local") => s.tiers["local"].provider = s.legacy

\* A decision names the provider of its tier.
LEMMA DecisionFits ==
  ASSUME NEW r \in Requests, NEW d \in Decision(r), Agrees(settings)
  PROVE  Configured(settings, d.tier) => settings.tiers[d.tier].provider = d.provider
<1>1. CASE UsesLease(r)
  BY <1>1 DEF Decision, LeaseDecision
<1>2. CASE ~UsesLease(r)
  <2>1. d \in Planned(r)
    BY <1>2 DEF Decision
  <2>2. \/ d = LegacyDecision(settings) /\ settings.mode # "router"
        \/ \E t : d = TierDecision(settings, t)
    BY <2>1 DEF Planned, Plans, ExecutesLegacy
  <2> QED
    BY <2>2 DEF LegacyDecision, TierDecision, Agrees
<1> QED
  BY <1>1, <1>2

LEMMA NextFits ==
  ASSUME \A s \in Settings : Agrees(s)
  PROVE  TypeOK /\ NeverBorrows /\ [Next]_vars => NeverBorrows'
<1> SUFFICES ASSUME TypeOK, NeverBorrows, [Next]_vars PROVE NeverBorrows'
  OBVIOUS
<1> USE DEF configuration, chain, storage, telemetry
<1>0. /\ pc \in [Requests -> {"new", "queued", "calling", "last call", "storing", "done",
                              "failed"}]
      /\ loaded \in [Requests -> Settings] /\ target \in [Requests -> TargetType]
      /\ parent \in [Requests -> Requests \cup {None}] /\ settings \in Settings
  BY DEF TypeOK
<1>1. \A r \in Requests : Began(r) => Fits(loaded[r], target[r])
  BY DEF NeverBorrows, Fits
<1>2. SUFFICES \A r \in Requests : Began(r)' => Fits(loaded'[r], target'[r])
  BY DEF NeverBorrows, Fits
<1>3. ASSUME UNCHANGED <<loaded, target>>,
             \A r \in Requests : Began(r)' => Began(r)
      PROVE  \A r \in Requests : Began(r)' => Fits(loaded'[r], target'[r])
  BY <1>1, <1>3
<1>4. CASE UNCHANGED vars
  BY <1>3, <1>4 DEF vars, Began
<1>5. CASE (\E s \in Settings : ChangeSettings(s)) \/ \E r \in Requests : Forget(r)
  BY <1>3, <1>5 DEF ChangeSettings, Forget, Began
<1>6. CASE \E r \in Requests, p \in Requests \cup {None}, q \in Queries, k \in BOOLEAN :
             Send(r, p, q, k)
  BY <1>0, <1>3, <1>6 DEF Send, Began
<1>7. ASSUME NEW r \in Requests, RequestStep(r)
      PROVE  \A o \in Requests : Began(o)' => Fits(loaded'[o], target'[o])
  <2>1. CASE Begin(r)
    <3>1. PICK d \in Decision(r) :
            /\ CanApply(LegacyTarget(settings), settings, d)
            /\ target' = [target EXCEPT ![r] = Applied(LegacyTarget(settings), settings, d)]
      BY <2>1 DEF Begin
    <3>2. /\ pc' = [pc EXCEPT ![r] = "calling"] /\ loaded' = [loaded EXCEPT ![r] = settings]
          /\ parent[r] = None \/ parent[r] \in stored
      BY <2>1 DEF Begin
    <3>3. d \in DecisionType /\ Agrees(settings)
      BY <1>0, <3>2, DecisionOf
    <3>4. Fits(settings, Applied(LegacyTarget(settings), settings, d))
      BY <3>1, <3>3, LegacyFits, AppliedFits, DecisionFits DEF DecisionType
    <3>5. loaded'[r] = settings
          /\ target'[r] = Applied(LegacyTarget(settings), settings, d)
      BY <1>0, <3>1, <3>2
    <3>6. \A o \in Requests \ {r} :
            pc'[o] = pc[o] /\ loaded'[o] = loaded[o] /\ target'[o] = target[o]
      BY <1>0, <3>1, <3>2
    <3> QED
      BY <1>1, <3>4, <3>5, <3>6 DEF Began
  <2>2. CASE \E t \in Tiers : ChatFallback(r, t) \/ Escalate(r, t)
    <3>1. PICK t \in Tiers : SwitchTo(r, t)
      BY <2>2 DEF ChatFallback, Escalate
    <3> DEFINE d == TierDecision(loaded[r], t)
    <3>2. /\ pc[r] = "calling" /\ UNCHANGED loaded
          /\ \A o \in Requests \ {r} : pc'[o] = pc[o]
      BY <1>0, <2>2 DEF ChatFallback, Escalate
    <3>3. /\ CanApply(target[r], loaded[r], d)
          /\ target' = [target EXCEPT ![r] = Applied(target[r], loaded[r], d)]
      BY <3>1 DEF SwitchTo
    <3>4. d.tier = t /\ d.provider = loaded[r].tiers[t].provider
      BY DEF TierDecision
    <3> HIDE DEF d
    <3>5. Fits(loaded[r], target[r])
      BY <1>1, <3>2 DEF Began
    <3>6. Fits(loaded[r], Applied(target[r], loaded[r], d))
      BY <3>3, <3>4, <3>5, AppliedFits
    <3>7. target'[r] = Applied(target[r], loaded[r], d)
          /\ \A o \in Requests \ {r} : target'[o] = target[o]
      BY <1>0, <3>3
    <3> QED
      BY <1>1, <3>2, <3>6, <3>7 DEF Began
  <2>3. CASE NotFound(r) \/ Refused(r) \/ Exhausted(r) \/ ChatGivesUp(r) \/ Interrupted(r)
             \/ \E t \in Tiers : EscalationRefused(r, t)
    <3>1. UNCHANGED <<loaded, target>> /\ pc' = [pc EXCEPT ![r] = "failed"]
      BY <2>3 DEF NotFound, Refused, Exhausted, ChatGivesUp, Interrupted, EscalationRefused,
         Fail
    <3> QED
      BY <1>0, <1>3, <3>1 DEF Began
  <2>4. CASE Answer(r) \/ Finish(r)
    BY <1>0, <1>3, <2>4 DEF Answer, Finish, Began
  <2> QED
    BY <1>7, <2>1, <2>2, <2>3, <2>4 DEF RequestStep
<1> QED
  BY <1>4, <1>5, <1>6, <1>7 DEF Next

\* Where legacy modes agree with the LOCAL tier, no provider is created with the
\* endpoint or the key of another one, on any path of routing, lease and fallback
\* and through any change of settings (routing/gateway.py).
THEOREM NeverBorrowsHolds ==
  ASSUME \A s \in Settings : Agrees(s)
  PROVE  Spec => []NeverBorrows
<1>1. Init => NeverBorrows
  BY DEF Init, NeverBorrows, Began
<1>2. TypeOK /\ NeverBorrows /\ [Next]_vars => NeverBorrows'
  BY NextFits
<1> QED
  BY <1>1, <1>2, TypeCorrect, PTL DEF Spec

=============================================================================
