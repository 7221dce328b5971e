------------------------------- MODULE Gateway -------------------------------
(***************************************************************************)
(* src/local_code_worker/web_app.py, POST /v1/responses and                *)
(* /v1/chat/completions without streaming: the life of a request from the  *)
(* inference queue through routing, provider attempts, runtime fallback    *)
(* and lease escalation to the answer and the stored response, together    *)
(* with the response store, the route leases and their telemetry.          *)
(*                                                                         *)
(* The queue is used through what SerialService promises (and              *)
(* InferenceQueue implements): serving is the one request inside it.       *)
(* Settings may change at any moment, and stored responses may expire or   *)
(* be evicted at any moment; a request works on the settings it loaded.    *)
(* Response ids are the requests themselves.                               *)
(***************************************************************************)
EXTENDS Routing

CONSTANTS
  Requests,      \* POST requests
  Chats,         \* those of them sent to /v1/chat/completions
  Canaries,      \* responses whose id hashes below the canary percentage
  Settings,      \* configurations the .env file may hold
  Queries,       \* what routing may see in a request
  MaxChanges,    \* bound on the number of configuration changes
  MaxFailures,   \* bound on the steps whose telemetry writes fail
  None

ASSUME GatewayAssumption ==
  /\ None \notin Requests
  /\ Chats \subseteq Requests
  /\ Settings \subseteq SettingsType
  /\ Queries \subseteq QueryType
  /\ MaxChanges \in Nat
  /\ MaxFailures \in Nat

VARIABLES
  settings,   \* the .env file
  changes,    \* how often it has changed (bounded by MaxChanges)
  serving,    \* the request that holds the inference queue
  pc,         \* where each request is
  error,      \* why a request failed
  parent,     \* previous_response_id
  query,      \* what routing sees of the request
  keep,       \* its "store" flag
  loaded,     \* the settings the request loaded
  plan,       \* the tier of its current routing decision
  target,     \* what its provider was created from
  lease,      \* its route lease
  stored,     \* ids in RESPONSE_STATE
  filed,      \* the lease stored with each id
  forgotten,  \* history: ids that expired or were evicted
  escalated,  \* number of escalation_events rows of each lease
  unrecorded, \* history: escalations of each lease whose event was not written
  failures,   \* steps whose telemetry writes failed (bounded by MaxFailures)
  row         \* the route_leases row of each lease

chain == <<parent, query, keep>>
telemetry == <<escalated, unrecorded, failures, row>>
storage == <<stored, filed, forgotten>>
configuration == <<settings, changes>>
vars == <<configuration, serving, pc, error, chain, loaded, plan, target, lease,
          storage, telemetry>>

\* A lease is named by its root response.
NoLease == [root |-> None, route |-> "local", model |-> "legacy", count |-> 0]
HasLease(r) == lease[r] # NoLease

Init ==
  /\ settings \in Settings
  /\ changes = 0
  /\ serving = None
  /\ pc = [r \in Requests |-> "new"]
  /\ error = [r \in Requests |-> "none"]
  /\ parent = [r \in Requests |-> None]
  /\ query = [r \in Requests |-> None]
  /\ keep = [r \in Requests |-> FALSE]
  /\ loaded = [r \in Requests |-> settings]
  /\ plan = [r \in Requests |-> "local"]
  /\ target = [r \in Requests |-> LegacyTarget(settings)]
  /\ lease = [r \in Requests |-> NoLease]
  /\ stored = {}
  /\ filed = [r \in Requests |-> NoLease]
  /\ forgotten = {}
  /\ escalated = [r \in Requests |-> 0]
  /\ unrecorded = [r \in Requests |-> 0]
  /\ failures = 0
  /\ row = [r \in Requests |-> NoLease]

-----------------------------------------------------------------------------
(* The world around a request.                                             *)

\* PUT /api/v2/settings or an edit of .env: no lock, and no queue.
ChangeSettings(s) ==
  /\ changes < MaxChanges
  /\ s # settings
  /\ settings' = s
  /\ changes' = changes + 1
  /\ UNCHANGED <<serving, pc, error, chain, loaded, plan, target, lease, storage,
                 telemetry>>

\* The store drops an entry: its time to live is over, or others pushed it out.
Forget(id) ==
  /\ id \in stored
  /\ stored' = stored \ {id}
  /\ forgotten' = forgotten \cup {id}
  /\ UNCHANGED <<configuration, serving, pc, error, chain, loaded, plan, target,
                 lease, filed, telemetry>>

\* A client knows the ids of the responses it has been sent.
Known == {r \in Requests \ Chats : pc[r] \in {"storing", "done"}}

\* POST: a client may continue any response it knows, several times over.
Send(r, p, q, k) ==
  /\ pc[r] = "new"
  /\ p \in IF r \in Chats THEN {None} ELSE Known \cup {None}
  /\ parent' = [parent EXCEPT ![r] = p]
  /\ query' = [query EXCEPT ![r] = q]
  /\ keep' = [keep EXCEPT ![r] = k]
  /\ pc' = [pc EXCEPT ![r] = "queued"]
  /\ UNCHANGED <<configuration, serving, error, loaded, plan, target, lease,
                 storage, telemetry>>

-----------------------------------------------------------------------------
(* Inside the queue: look up, route, create the lease.                     *)

Fail(r, why) ==
  /\ pc' = [pc EXCEPT ![r] = "failed"]
  /\ error' = [error EXCEPT ![r] = why]
  /\ serving' = None

\* A mutant of MayBegin: the request is not made to wait for the queue.
IsQueued(r) == pc[r] = "queued"

MayBegin(r) == pc[r] = "queued" /\ serving = None

\* RESPONSE_STATE.get_stored raises PreviousResponseNotFound.
NotFound(r) ==
  /\ MayBegin(r)
  /\ parent[r] # None
  /\ parent[r] \notin stored
  /\ Fail(r, "not found")
  /\ UNCHANGED <<configuration, chain, loaded, plan, target, lease, storage,
                 telemetry>>

\* A mutant of Inherited: the stored lease is not restored.
InheritedNever(r) == NoLease

Inherited(r) == IF parent[r] = None THEN NoLease ELSE filed[parent[r]]

\* Canary assignment follows the root response of the chain.
InCanary(r) ==
  (IF Inherited(r) = NoLease THEN r ELSE Inherited(r).root) \in Canaries

\* resolve_gateway_route; legacy mode ignores an inherited lease.
UsesLease(r) == settings.mode # "legacy" /\ Inherited(r) # NoLease

LeaseTierGone(r) == UsesLease(r) /\ ~Enabled(settings, Inherited(r).route)

Planned(r) == Plans(settings, query[r], InCanary(r))

\* A mutant of Decision: a continuation is routed anew.
PlannedAnew(r) == IF LeaseTierGone(r) THEN {} ELSE Planned(r)

\* The executed decision, if routing and the lease allow one: the lease decides
\* for a continuation, but its request must be routable too.
Decision(r) ==
  IF LeaseTierGone(r) THEN {}
  ELSE {IF UsesLease(r) THEN LeaseDecision(settings, Inherited(r)) ELSE d :
          d \in Planned(r)}

CreatedLease(r, d) == [root |-> r, route |-> d.tier, model |-> d.model, count |-> 0]

\* The database may fail to take what a step offers to telemetry: record_escalation
\* and record_route_lease swallow OSError and sqlite3.Error.
Lose(lost) ==
  /\ lost # {} => failures < MaxFailures
  /\ failures' = IF lost = {} THEN failures ELSE failures + 1

RowWritten(root, l, lost) ==
  row' = IF "row" \in lost THEN row ELSE [row EXCEPT ![root] = l]

\* Routing, capabilities, the lease's tier or its provider refuse the request.
Refused(r) ==
  /\ MayBegin(r)
  /\ parent[r] = None \/ parent[r] \in stored
  /\ \A d \in Decision(r) : ~CanApply(LegacyTarget(settings), settings, d)
  /\ Fail(r, "refused")
  /\ UNCHANGED <<configuration, chain, loaded, plan, target, lease, storage,
                 telemetry>>

\* The provider is created; a new chain gets a lease, offered to telemetry.
Begin(r) ==
  /\ MayBegin(r)
  /\ parent[r] = None \/ parent[r] \in stored
  /\ \E d \in Decision(r) :
       /\ CanApply(LegacyTarget(settings), settings, d)
       /\ plan' = [plan EXCEPT ![r] = d.tier]
       /\ target' = [target EXCEPT ![r] = Applied(LegacyTarget(settings), settings, d)]
       /\ IF settings.mode # "legacy" /\ Inherited(r) = NoLease
          THEN /\ lease' = [lease EXCEPT ![r] = CreatedLease(r, d)]
               /\ \E lost \in SUBSET {"row"} :
                    Lose(lost) /\ RowWritten(r, CreatedLease(r, d), lost)
          ELSE /\ lease' = [lease EXCEPT ![r] = Inherited(r)]
               /\ UNCHANGED <<row, failures>>
  /\ serving' = r
  /\ pc' = [pc EXCEPT ![r] = "calling"]
  /\ loaded' = [loaded EXCEPT ![r] = settings]
  /\ UNCHANGED <<configuration, error, chain, storage, escalated, unrecorded>>

-----------------------------------------------------------------------------
(* Provider attempts, runtime fallback and escalation.                     *)

NextTier(r, t) == IsFallback(loaded[r], query[r], plan[r], t)

\* The attempt fails and no higher tier is eligible, or the next tier's
\* provider has no endpoint: the client gets an error.
Exhausted(r) ==
  /\ pc[r] = "calling"
  /\ \A t \in Tiers : NextTier(r, t) =>
       ~CanApply(target[r], loaded[r], TierDecision(loaded[r], t))
  /\ Fail(r, "exhausted")
  /\ UNCHANGED <<configuration, chain, loaded, plan, target, lease, storage,
                 telemetry>>

\* The attempt fails and the next tier's provider is created.
SwitchTo(r, t) ==
  LET d == TierDecision(loaded[r], t) IN
  /\ NextTier(r, t)
  /\ CanApply(target[r], loaded[r], d)
  /\ plan' = [plan EXCEPT ![r] = t]
  /\ target' = [target EXCEPT ![r] = Applied(target[r], loaded[r], d)]

\* /v1/chat/completions tries one other tier, then gives up; its lease is
\* telemetry only.
ChatFallback(r, t) ==
  /\ pc[r] = "calling"
  /\ r \in Chats
  /\ SwitchTo(r, t)
  /\ pc' = [pc EXCEPT ![r] = "last call"]
  /\ UNCHANGED <<configuration, serving, error, chain, loaded, lease, storage,
                 telemetry>>

ChatGivesUp(r) ==
  /\ pc[r] = "last call"
  /\ Fail(r, "exhausted")
  /\ UNCHANGED <<configuration, chain, loaded, plan, target, lease, storage,
                 telemetry>>

\* escalate_route_lease raises ValueError for a tier that is not higher than
\* the lease's, and at the escalation limit.
NotHigher(r, t) == Rank[t] <= Rank[lease[r].route]
AtLimit(r) == lease[r].count >= loaded[r].maxEscalations

\* Mutants of Escalated: an escalation counts the rank it reaches, or twice.
EscalatedByRank(r, t) ==
  [lease[r] EXCEPT !.route = t, !.model = t, !.count = @ + Rank[t]]

EscalatedTwice(r, t) ==
  [lease[r] EXCEPT !.route = t, !.model = t, !.count = @ + 2]

Escalated(r, t) ==
  [lease[r] EXCEPT !.route = t, !.model = t, !.count = @ + 1]

\* A mutant of Recorded: the event names the response, not its lease.
RecordedForResponse(r) == [escalated EXCEPT ![r] = @ + 1]

\* record_escalation adds an event to the lease.
Recorded(r) == [escalated EXCEPT ![lease[r].root] = @ + 1]

EventWritten(r, lost) ==
  IF "event" \in lost
  THEN /\ unrecorded' = [unrecorded EXCEPT ![lease[r].root] = @ + 1]
       /\ UNCHANGED escalated
  ELSE escalated' = Recorded(r) /\ UNCHANGED unrecorded

\* /v1/responses keeps falling back while the lease may escalate.
Escalate(r, t) ==
  /\ pc[r] = "calling"
  /\ r \notin Chats
  /\ SwitchTo(r, t)
  /\ IF HasLease(r)
     THEN /\ ~NotHigher(r, t)
          /\ ~AtLimit(r)
          /\ lease' = [lease EXCEPT ![r] = Escalated(r, t)]
          /\ \E lost \in SUBSET {"event", "row"} :
               /\ Lose(lost)
               /\ EventWritten(r, lost)
               /\ RowWritten(lease[r].root, Escalated(r, t), lost)
     ELSE UNCHANGED <<lease, telemetry>>
  /\ UNCHANGED <<configuration, serving, pc, error, chain, loaded, storage>>

EscalationRefused(r, t) ==
  /\ pc[r] = "calling"
  /\ r \notin Chats
  /\ NextTier(r, t)
  /\ CanApply(target[r], loaded[r], TierDecision(loaded[r], t))
  /\ HasLease(r)
  /\ NotHigher(r, t) \/ AtLimit(r)
  /\ Fail(r, IF NotHigher(r, t) THEN "not higher" ELSE "limit")
  /\ UNCHANGED <<configuration, chain, loaded, plan, target, lease, storage,
                 telemetry>>

-----------------------------------------------------------------------------
(* The answer, and after it the stored response.                           *)

\* The attempt succeeds; the plan and the call are recorded, the JSON sent.
Answer(r) ==
  /\ pc[r] \in {"calling", "last call"}
  /\ pc' = [pc EXCEPT ![r] = "storing"]
  /\ UNCHANGED <<configuration, serving, error, chain, loaded, plan, target,
                 lease, storage, telemetry>>

\* An OSError after an attempt: record_model_call cannot write the statistics, of
\* a failed attempt or of an answer not yet sent, or the client of the answer is
\* gone. Nothing is stored.
Interrupted(r) ==
  /\ pc[r] \in {"calling", "last call"}
  /\ Fail(r, "interrupted")
  /\ UNCHANGED <<configuration, chain, loaded, plan, target, lease, storage,
                 telemetry>>

Stores(r) == r \notin Chats /\ keep[r]

\* A mutant of Finish: the queue is not released.
FinishHolding(r) ==
  /\ pc[r] = "storing"
  /\ pc' = [pc EXCEPT ![r] = "done"]
  /\ stored' = IF Stores(r) THEN stored \cup {r} ELSE stored
  /\ filed' = IF Stores(r) THEN [filed EXCEPT ![r] = lease[r]] ELSE filed
  /\ UNCHANGED <<configuration, serving, error, chain, loaded, plan, target,
                 lease, forgotten, telemetry>>

\* RESPONSE_STATE.put, and only then the queue is released.
Finish(r) ==
  /\ pc[r] = "storing"
  /\ pc' = [pc EXCEPT ![r] = "done"]
  /\ serving' = None
  /\ stored' = IF Stores(r) THEN stored \cup {r} ELSE stored
  /\ filed' = IF Stores(r) THEN [filed EXCEPT ![r] = lease[r]] ELSE filed
  /\ UNCHANGED <<configuration, error, chain, loaded, plan, target, lease,
                 forgotten, telemetry>>

RequestStep(r) ==
  \/ NotFound(r)
  \/ Refused(r)
  \/ Begin(r)
  \/ Exhausted(r)
  \/ \E t \in Tiers : ChatFallback(r, t) \/ Escalate(r, t) \/ EscalationRefused(r, t)
  \/ ChatGivesUp(r)
  \/ Answer(r)
  \/ Interrupted(r)
  \/ Finish(r)

Next ==
  \/ \E s \in Settings : ChangeSettings(s)
  \/ \E r \in Requests : Forget(r)
  \/ \E r \in Requests, p \in Requests \cup {None}, q \in Queries, k \in BOOLEAN :
       Send(r, p, q, k)
  \/ \E r \in Requests : RequestStep(r)

Spec == Init /\ [][Next]_vars

\* The queue serves every request (InferenceQueue!EveryRequestServed) and the
\* providers' timeouts end every attempt.
FairSpec == Spec /\ \A r \in Requests : WF_vars(RequestStep(r))

-----------------------------------------------------------------------------

LeaseType ==
  [root : Requests \cup {None}, route : Tiers, model : Tiers \cup {"legacy"},
   count : 0 .. 2]

TargetType ==
  [provider : Providers, model : Tiers \cup {"legacy"},
   endpoint : Tiers \cup {"legacy"}, key : Tiers \cup {"legacy"}]

Causes == {"none", "not found", "refused", "exhausted", "not higher", "limit",
           "interrupted"}

TypeOK ==
  /\ settings \in Settings
  /\ changes \in 0 .. MaxChanges
  /\ serving \in Requests \cup {None}
  /\ pc \in [Requests -> {"new", "queued", "calling", "last call", "storing",
                          "done", "failed"}]
  /\ error \in [Requests -> Causes]
  /\ parent \in [Requests -> Requests \cup {None}]
  /\ query \in [Requests -> Queries \cup {None}]
  /\ keep \in [Requests -> BOOLEAN]
  /\ loaded \in [Requests -> Settings]
  /\ plan \in [Requests -> Tiers]
  /\ target \in [Requests -> TargetType]
  /\ lease \in [Requests -> LeaseType]
  /\ stored \subseteq Requests
  /\ filed \in [Requests -> LeaseType]
  /\ forgotten \subseteq Requests
  /\ escalated \in [Requests -> Nat]
  /\ unrecorded \in [Requests -> Nat]
  /\ failures \in 0 .. MaxFailures
  /\ row \in [Requests -> LeaseType]

Began(r) == pc[r] \in {"calling", "last call", "storing", "done"}

\* A client that continues a response it was sent finds it, although the answer
\* goes out before the response is stored (web_app.py:1125 and 1165): only a
\* dropped entry, or one the client asked not to store, is not found.
ContinuationFindsParent ==
  \A r \in Requests :
    error[r] = "not found" =>
      parent[r] \in forgotten \/ ~keep[parent[r]]

\* "Automatic movement is monotonic (LOCAL -> MID -> STRONG)": along a chain
\* the lease stays the same and its route and count never go back, whatever
\* happens to the settings in between.
LeaseNeverDowngrades ==
  \A r \in Requests :
    LET p == parent[r] IN
    p # None /\ Began(r) /\ filed[p] # NoLease =>
      /\ lease[r].root = filed[p].root
      /\ Rank[filed[p].route] <= Rank[lease[r].route]
      /\ filed[p].count <= lease[r].count

\* The lease tells where a response is really executed: tier and model of the
\* provider in use are the lease's, after any number of fallbacks.
LeaseMatchesCall ==
  \A r \in Requests \ Chats :
    Began(r) /\ HasLease(r) /\ loaded[r].mode # "legacy" =>
      plan[r] = lease[r].route /\ target[r].model = lease[r].model

\* A lease's escalation count is explained by the tiers it has climbed, so a
\* limit of two or more never refuses an escalation.
HopsExplainCount ==
  \A r \in Requests :
    /\ lease[r].count <= Rank[lease[r].route]
    /\ error[r] = "limit" => loaded[r].maxEscalations < 2

\* escalate_route_lease's "must move to a higher tier" is never raised for a
\* request that was routed by its lease; only the rollback to legacy mode in
\* the middle of a chain can reach it.
NotHigherOnlyAfterRollback ==
  \A r \in Requests : error[r] = "not higher" => loaded[r].mode = "legacy"

\* "A tier never borrows another provider's endpoint or credentials": every
\* provider is created with an endpoint and a key configured for that provider,
\* on any path of routing, lease and fallback.
NeverBorrows ==
  \A r \in Requests :
    Began(r) =>
      \A owner \in {target[r].endpoint, target[r].key} :
        ProviderOf(loaded[r], owner) = target[r].provider

\* The first decision of a chain in router mode.
FirstCall(r) ==
  pc[r] = "calling" /\ parent[r] = None /\ lease[r].count = 0
  /\ loaded[r].mode = "router"

\* A forced alias runs on its tier whenever that tier is enabled and capable; an
\* automatic request starts on a cloud STRONG tier only if no eligible LOCAL or MID
\* tier is served by Ollama ("Cloud STRONG is reserved for fallback after local
\* failure", engine.py:113).
FirstTierIsPromised ==
  \A r \in Requests :
    FirstCall(r) =>
      /\ query[r].forced /\ query[r].rule \in Eligible(loaded[r], query[r])
           => plan[r] = query[r].rule
      /\ ~query[r].forced /\ CloudStrong(loaded[r]) /\ plan[r] = "strong"
           => \A t \in {"local", "mid"} \cap Eligible(loaded[r], query[r]) :
                loaded[r].tiers[t].provider # "ollama"

\* Every request the queue accepts is answered or refused.
EveryRequestEnds ==
  \A r \in Requests : pc[r] = "queued" ~> pc[r] \in {"done", "failed"}

\* Telemetry accounts for every escalation: no lease, in use, stored or in its own
\* row, counts more of them than its root has events, but for the events the
\* database failed to take (usage_statistics.py:164), whichever branches and
\* retries of the chain failed after they were recorded.
EscalationsAreRecorded ==
  \A r \in Requests :
    \A l \in {lease[r], filed[r], row[r]} \ {NoLease} :
      l.count <= escalated[l.root] + unrecorded[l.root]

\* README.md: "In legacy mode all four aliases execute on the active
\* LLM_PROVIDER/LLM_MODEL"; docs/v2_architecture.md: "Shadow always executes
\* legacy".
RollbackExecutesLegacy ==
  \A r \in Requests :
    Began(r) /\ loaded[r].mode \in {"legacy", "shadow"} =>
      target[r].provider = loaded[r].legacy /\ target[r].model = "legacy"

=============================================================================
