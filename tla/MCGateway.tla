------------------------------ MODULE MCGateway ------------------------------
EXTENDS Gateway, TLC

CONSTANTS r1, r2, r3

One == {r1}
Two == {r1, r2}
Three == {r1, r2, r3}
Nobody == {}
Sym == Permutations(Three)

Tier(enabled, provider, hasUrl) ==
  [enabled |-> enabled, provider |-> provider, hasUrl |-> hasUrl]
Ollama == Tier(TRUE, "ollama", FALSE)
Cloud == Tier(TRUE, "openai", TRUE)
Off == Tier(FALSE, "ollama", FALSE)

Config(mode, tiers, limit) ==
  [mode |-> mode, legacy |-> "ollama", tiers |-> tiers, maxEscalations |-> limit]

\* The usual deployment: two Ollama tiers and one in the cloud.
Usual == [local |-> Ollama, mid |-> Ollama, strong |-> Cloud]
NoMid == [local |-> Ollama, mid |-> Off, strong |-> Cloud]

ChainSettings ==
  {Config("router", Usual, 1), Config("legacy", Usual, 2), Config("router", NoMid, 2)}
CanarySettings == {Config("canary", Usual, 2), Config("shadow", NoMid, 0)}
\* Every table of tiers, absent tiers included, in router mode.
TierTables == UNION {[T -> TierConfig] : T \in SUBSET Tiers}
AllTables == {Config("router", tiers, 2) : tiers \in TierTables}

Query(rule, forced, capable) ==
  [rule |-> rule, forced |-> forced, ambiguous |-> FALSE, score |-> "none",
   capable |-> capable]

ChainQueries == {Query("local", FALSE, Tiers), Query("mid", TRUE, {"mid", "strong"})}
ScoredQueries ==
  {[rule |-> "mid", forced |-> FALSE, ambiguous |-> TRUE, score |-> score,
    capable |-> Tiers] : score \in Scores}
TableQueries ==
  {Query(rule, forced, capable) :
     rule \in Tiers, forced \in BOOLEAN,
     capable \in {Tiers, {"mid"}, {"local", "strong"}}} \cup ScoredQueries

\* Steps of Next: one stored response may be lost, and only the first of a chain may
\* ask not to be stored.
ChainNext ==
  \/ \E s \in Settings : ChangeSettings(s)
  \/ \E r \in Requests : forgotten = {} /\ Forget(r)
  \/ \E r \in Requests, p \in Requests \cup {None}, q \in Queries, k \in BOOLEAN :
       (p # None => k) /\ Send(r, p, q, k)
  \/ \E r \in Requests : RequestStep(r)

ChainSpec == Init /\ [][ChainNext]_vars

\* Every table is tried with one response; in the other modes a chat and a response
\* are, and a change of settings.
TablesAndCanaries == AllTables \cup CanarySettings
AllQueries == TableQueries \cup ChainQueries
Tabled == settings.mode = "router"
TriedSend(r, p, q, k) ==
  /\ IF Tabled
     THEN r \notin Chats /\ p = None /\ ~k /\ q \in TableQueries
     ELSE q \in ChainQueries
  /\ Send(r, p, q, k)

TriedNext ==
  \/ \E s \in CanarySettings : ~Tabled /\ ChangeSettings(s)
  \/ \E r \in Requests : ~Tabled /\ Forget(r)
  \/ \E r \in Requests, p \in Requests \cup {None}, q \in Queries, k \in BOOLEAN :
       TriedSend(r, p, q, k)
  \/ \E r \in Requests : RequestStep(r)

TriedSpec ==
  Init /\ [][TriedNext]_vars /\ \A r \in Requests : WF_vars(RequestStep(r))

=============================================================================
