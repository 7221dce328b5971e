------------------------------- MODULE Routing -------------------------------
(***************************************************************************)
(* src/local_code_worker/routing/: which tier a gateway request is sent to,*)
(* and with whose endpoint and credentials.  Pure definitions, used by the *)
(* request lifecycle of module Gateway.                                    *)
(*                                                                         *)
(* Abstractions: the model of a tier is named by the tier and the model of *)
(* LLM_MODEL is "legacy"; endpoints and credentials are named by who       *)
(* configured them; what a tier's model can do for a request is the set of *)
(* tiers "capable" of it; canary hashing is the set of response ids that   *)
(* fall below GATEWAY_CANARY_PERCENT.                                      *)
(***************************************************************************)
EXTENDS Naturals

Tiers == {"local", "mid", "strong"}
Providers == {"ollama", "openai"}

\* observe_only behaves as shadow, route_llm as router.
Modes == {"legacy", "shadow", "canary", "router"}

\* leases.py: _TIER_RANK
Rank == [local |-> 0, mid |-> 1, strong |-> 2]

\* GatewayRoutingSettings with the legacy LLM_PROVIDER beside it.  hasUrl: the
\* tier has a base_url of its own.
TierConfig == [enabled : BOOLEAN, provider : Providers, hasUrl : BOOLEAN]
SettingsType ==
  [mode : Modes,
   legacy : Providers,
   tiers : UNION {[T -> TierConfig] : T \in SUBSET Tiers},
   maxEscalations : 0 .. 10]

\* What routing reads of a request: the tier of the first deterministic rule
\* (or of the forced alias), whether the rule is ambiguous, RouteLLM's score.
Scores == {"none", "low", "middle", "high"}
QueryType ==
  [rule : Tiers, forced : BOOLEAN, ambiguous : BOOLEAN, score : Scores,
   capable : SUBSET Tiers]

-----------------------------------------------------------------------------
(* Capabilities and the tier a request asks for.                           *)

Configured(s, t) == t \in DOMAIN s.tiers
Enabled(s, t) == Configured(s, t) /\ s.tiers[t].enabled

\* capable_tiers
Eligible(s, q) == {t \in q.capable : Enabled(s, t)}

\* route_request: a forced alias, else the rule, else RouteLLM's band; a
\* backend that fails leaves the rule's tier.
Band == [low |-> "local", middle |-> "mid", high |-> "strong"]
RequestedTier(q) ==
  IF q.forced \/ ~q.ambiguous \/ q.score = "none" THEN q.rule ELSE Band[q.score]

CloudStrong(s) == Configured(s, "strong") /\ s.tiers["strong"].provider # "ollama"
EnabledOllama(s, t) == Enabled(s, t) /\ s.tiers[t].provider = "ollama"

\* A mutant of WantedTier: nothing is deferred.
WantedAtOnce(s, q) == RequestedTier(q)

\* A STRONG tier in the cloud is reserved for fallback, unless it was forced.
WantedTier(s, q) ==
  LET t == RequestedTier(q)
      free == {u \in {"local", "mid"} : EnabledOllama(s, u)}
  IN  IF q.forced \/ t # "strong" \/ ~CloudStrong(s) \/ free = {} THEN t
      ELSE IF "mid" \in free THEN "mid" ELSE "local"

\* _FALLBACK_ORDER, as the position of each tier.
Preference ==
  [local  |-> [local |-> 0, mid |-> 1, strong |-> 2],
   mid    |-> [local |-> 1, mid |-> 0, strong |-> 2],
   strong |-> [local |-> 2, mid |-> 1, strong |-> 0]]

\* _resolve_available_tier: the eligible tier that comes first, if there is one.
Routed(s, q) ==
  {t \in Eligible(s, q) :
     \A u \in Eligible(s, q) :
       Preference[WantedTier(s, q)][t] <= Preference[WantedTier(s, q)][u]}

-----------------------------------------------------------------------------
(* Decisions.                                                              *)

LegacyDecision(s) == [tier |-> "local", provider |-> s.legacy, model |-> "legacy"]
TierDecision(s, t) == [tier |-> t, provider |-> s.tiers[t].provider, model |-> t]

\* apply_route_lease keeps the lease's tier and model and takes the provider
\* from the settings of today.
LeaseDecision(s, l) ==
  [tier |-> l.route, provider |-> s.tiers[l.route].provider, model |-> l.model]

\* The modes in which the routed decision stays hypothetical.
ExecutesLegacy(s, canary) ==
  s.mode \in {"legacy", "shadow"} \/ (s.mode = "canary" /\ ~canary)

\* plan_routing: the decision, if there is one.  Legacy mode does not route at
\* all, so it cannot fail; shadow mode routes and then executes legacy.
Plans(s, q, canary) ==
  IF s.mode = "legacy" THEN {LegacyDecision(s)}
  ELSE {IF ExecutesLegacy(s, canary) THEN LegacyDecision(s) ELSE TierDecision(s, t) :
          t \in Routed(s, q)}

\* A mutant of Higher: the failed tier itself may be tried again.
HigherOrSame(s, q, failed) == {t \in Eligible(s, q) : Rank[failed] <= Rank[t]}

Higher(s, q, failed) == {t \in Eligible(s, q) : Rank[failed] < Rank[t]}

\* resolve_gateway_fallback: t is the next eligible tier above the failed one.
IsFallback(s, q, failed, t) ==
  /\ t \in Higher(s, q, failed)
  /\ \A u \in Higher(s, q, failed) : Rank[t] <= Rank[u]

-----------------------------------------------------------------------------
(* The settings a provider is created from.                                *)

\* WorkerSettings as loaded, before routing.
LegacyTarget(s) ==
  [provider |-> s.legacy, model |-> "legacy", endpoint |-> "legacy",
   key |-> "legacy"]

\* A mutant of CanApply: a missing base_url is not noticed.
CanApplyTier(w, s, d) == d.provider = w.provider \/ Configured(s, d.tier)

\* _apply_decision refuses a provider whose endpoint nobody configured ...
CanApply(w, s, d) ==
  d.provider = w.provider \/ (Configured(s, d.tier) /\ s.tiers[d.tier].hasUrl)

\* A mutant of Applied: the key is not reset.
AppliedKeepingKey(w, s, d) ==
  [provider |-> d.provider,
   model    |-> d.model,
   endpoint |-> IF Configured(s, d.tier) /\ s.tiers[d.tier].hasUrl
                THEN d.tier ELSE w.endpoint,
   key      |-> w.key]

\* ... and otherwise takes what the decision's tier configures.
Applied(w, s, d) ==
  [provider |-> d.provider,
   model    |-> d.model,
   endpoint |-> IF Configured(s, d.tier) /\ s.tiers[d.tier].hasUrl
                THEN d.tier ELSE w.endpoint,
   key      |-> IF Configured(s, d.tier) THEN d.tier ELSE w.key]

\* The provider that the owner of an endpoint or a key configured it for.
ProviderOf(s, owner) ==
  IF owner = "legacy" THEN s.legacy ELSE s.tiers[owner].provider

=============================================================================
