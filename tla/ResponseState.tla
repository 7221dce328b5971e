---------------------------- MODULE ResponseState ----------------------------
(***************************************************************************)
(* src/local_code_worker/responses/state.py: ResponseStateStore, the       *)
(* process-local memory behind previous_response_id.  It forgets entries   *)
(* when their time to live is over, and the least recently used ones when  *)
(* there are more than MaxEntries.                                         *)
(*                                                                         *)
(* put and get_stored run under one lock, so each is one step; the clock is*)
(* read twice in put and may advance in between.  Ids are fresh (a response*)
(* id is a new uuid), so an id is put once.  A key's place in the          *)
(* OrderedDict is a number that grows towards the end.                     *)
(***************************************************************************)
EXTENDS Naturals, FiniteSets

CONSTANTS
  Ids,          \* response ids
  MaxEntries,   \* max_entries
  TTL,          \* ttl_seconds
  MaxNow,       \* bound on the clock
  MaxUses,      \* bound on the number of puts and hits
  None

ASSUME StoreAssumption ==
  /\ IsFiniteSet(Ids)
  /\ None \notin Ids
  /\ MaxEntries \in Nat \ {0}
  /\ TTL \in Nat \ {0}
  /\ MaxNow \in Nat
  /\ MaxUses \in Nat

VARIABLES
  now,       \* the clock
  items,     \* keys of _items
  place,     \* where each key of _items is in its order
  expires,   \* expires_at of each key of _items
  uses,      \* number of puts and hits so far (bounded by MaxUses)
  used,      \* history: which of the uses was the last of each id; 0 before put
  putAt,     \* history: when each id was put
  hit,       \* history: the id served last
  hitAt      \* history: and when

vars == <<now, items, place, expires, uses, used, putAt, hit, hitAt>>

Init ==
  /\ now = 0
  /\ items = {}
  /\ place = [id \in Ids |-> 0]
  /\ expires = [id \in Ids |-> 0]
  /\ uses = 0
  /\ used = [id \in Ids |-> 0]
  /\ putAt = [id \in Ids |-> 0]
  /\ hit = None
  /\ hitAt = 0

Tick ==
  /\ now < MaxNow
  /\ now' = now + 1
  /\ UNCHANGED <<items, place, expires, uses, used, putAt, hit, hitAt>>

\* _prune_expired
Unexpired == {id \in items : now < expires[id]}

\* A mutant of Newest: nothing is dropped.
Everything(S, order) == S

\* popitem(last=False) while there are more than max_entries.
Newest(S, order) ==
  {x \in S : Cardinality({y \in S : order[x] < order[y]}) < MaxEntries}

\* move_to_end, and the insertion of a new key.
AtEnd(id) == [place EXCEPT ![id] = uses + 1]

Uses(id) ==
  /\ uses < MaxUses
  /\ uses' = uses + 1
  /\ used' = [used EXCEPT ![id] = uses + 1]

\* put: prune, stamp the expiry with a clock that may have moved on, insert at
\* the end, evict.
Put(id, delay) ==
  /\ used[id] = 0
  /\ Uses(id)
  /\ now + delay <= MaxNow
  /\ now' = now + delay
  /\ expires' = [expires EXCEPT ![id] = now + delay + TTL]
  /\ place' = AtEnd(id)
  /\ items' = Newest(Unexpired \cup {id}, AtEnd(id))
  /\ putAt' = [putAt EXCEPT ![id] = now + delay]
  /\ UNCHANGED <<hit, hitAt>>

\* A mutant of Get: being used does not move an entry to the end.
GetInPlace(id) ==
  /\ id \in Unexpired
  /\ items' = Unexpired
  /\ Uses(id)
  /\ hit' = id
  /\ hitAt' = now
  /\ UNCHANGED <<now, place, expires, putAt>>

\* A mutant of Get: being used renews the time to live.
GetRenewing(id) ==
  /\ id \in Unexpired
  /\ items' = Unexpired
  /\ place' = AtEnd(id)
  /\ expires' = [expires EXCEPT ![id] = now + TTL]
  /\ Uses(id)
  /\ hit' = id
  /\ hitAt' = now
  /\ UNCHANGED <<now, putAt>>

\* get_stored of an entry that is there.
Get(id) ==
  /\ id \in Unexpired
  /\ items' = Unexpired
  /\ place' = AtEnd(id)
  /\ Uses(id)
  /\ hit' = id
  /\ hitAt' = now
  /\ UNCHANGED <<now, expires, putAt>>

\* get_stored raises PreviousResponseNotFound, having pruned.
Miss(id) ==
  /\ id \notin Unexpired
  /\ items' = Unexpired
  /\ UNCHANGED <<now, place, expires, uses, used, putAt, hit, hitAt>>

Next ==
  \/ Tick
  \/ \E id \in Ids, delay \in {0, 1} : Put(id, delay)
  \/ \E id \in Ids : Get(id)
  \/ \E id \in Ids : Miss(id)

Spec == Init /\ [][Next]_vars

-----------------------------------------------------------------------------

TypeOK ==
  /\ now \in 0 .. MaxNow
  /\ items \subseteq {id \in Ids : used[id] # 0}
  /\ Cardinality(items) <= MaxEntries
  /\ place \in [Ids -> 0 .. uses]
  /\ expires \in [Ids -> 0 .. MaxNow + TTL]
  /\ uses \in 0 .. MaxUses
  /\ used \in [Ids -> 0 .. uses]
  /\ putAt \in [Ids -> 0 .. MaxNow]
  /\ hit \in Ids \cup {None}
  /\ hitAt \in 0 .. MaxNow

\* Ids put or served after this one was.
UsedSince(id) == {other \in Ids : used[id] < used[other]}

\* What a client may rely on: a response within its time to live is found until
\* max_entries other responses have been stored or continued since it was.
RecentlyUsedIsKept ==
  \A id \in Ids :
    used[id] # 0 /\ now < putAt[id] + TTL /\ id \notin items =>
      Cardinality(UsedSince(id)) >= MaxEntries

\* README.md: "Stored context expires after the configurable
\* GATEWAY_RESPONSE_STATE_TTL_SECONDS": nothing is served that long after it was
\* stored, however often it was continued and although the store prunes lazily.
NeverServesExpired == hit # None => hitAt < putAt[hit] + TTL

=============================================================================
