------------------------- MODULE ResponseStateProofs -------------------------
(***************************************************************************)
(* Theorems about module ResponseState, for any ids, capacity and time to  *)
(* live.  The inductive invariant says that the OrderedDict's order is the *)
(* order of use (InOrder) and that entries keep the expiry of their put    *)
(* (ExpiresFromPut); with them, whatever eviction drops has max_entries    *)
(* entries used after it.                                                  *)
(***************************************************************************)
EXTENDS ResponseState, FiniteSetTheorems, WellFoundedInduction, TLAPS

Types ==
  /\ now \in 0 .. MaxNow
  /\ items \subseteq {id \in Ids : used[id] # 0}
  /\ place \in [Ids -> 0 .. uses]
  /\ expires \in [Ids -> 0 .. MaxNow + TTL]
  /\ uses \in 0 .. MaxUses
  /\ used \in [Ids -> 0 .. uses]
  /\ putAt \in [Ids -> 0 .. MaxNow]
  /\ hit \in Ids \cup {None}
  /\ hitAt \in 0 .. MaxNow

InOrder ==
  /\ \A id \in Ids : place[id] = used[id]
  /\ \A a, b \in Ids : used[a] = used[b] /\ used[a] # 0 => a = b

ExpiresFromPut ==
  \A id \in Ids : used[id] # 0 => expires[id] = putAt[id] + TTL

HitWasPut == hit # None => used[hit] # 0

Bounded == Cardinality(items) <= MaxEntries

IInv ==
  /\ Types
  /\ Bounded
  /\ InOrder
  /\ ExpiresFromPut
  /\ HitWasPut
  /\ RecentlyUsedIsKept
  /\ NeverServesExpired

-----------------------------------------------------------------------------
(* Eviction.                                                               *)

\* A finite set with an order has a first element: the one popitem would take.
LEMMA FirstExists ==
  ASSUME NEW S, S # {}, NEW order, \A x \in S : order[x] \in Nat
  PROVE  \E m \in S : \A y \in S : order[m] <= order[y]
<1> DEFINE Places == {order[x] : x \in S}
<1>1. Places \in SUBSET Nat /\ Places # {}
  OBVIOUS
<1> DEFINE Less == OpToRel(<, Nat)
<1>2. \A j, k \in Nat : <<j, k>> \in Less <=> j < k
  BY DEF OpToRel
<1>3. IsWellFoundedOn(Less, Nat)
  BY NatLessThanWellFounded
<1> HIDE DEF Less, Places
<1>4. PICK n \in Places : \A k \in Places : <<k, n>> \notin Less
  BY <1>1, <1>3, WFMin
<1>5. n \in Nat /\ \A k \in Places : k \in Nat /\ ~ k < n
  BY <1>1, <1>2, <1>4
<1>6. \A k \in Places : n <= k
  BY <1>5
<1> QED
  BY <1>6 DEF Places

\* Eviction after one insertion leaves at most max_entries.
LEMMA NewestBounded ==
  ASSUME NEW S, IsFiniteSet(S), Cardinality(S) <= MaxEntries + 1,
         NEW order, \A x \in S : order[x] \in Nat,
         \A x, y \in S : order[x] = order[y] => x = y
  PROVE  Cardinality(Newest(S, order)) <= MaxEntries
<1> USE StoreAssumption
<1>1. Newest(S, order) \in SUBSET S
  BY DEF Newest
<1>2. Cardinality(S) \in Nat /\ Cardinality(Newest(S, order)) \in Nat
      /\ Cardinality(Newest(S, order)) <= Cardinality(S)
  BY <1>1, FS_CardinalityType, FS_Subset
<1>3. CASE Cardinality(S) <= MaxEntries
  BY <1>2, <1>3
<1>4. CASE Cardinality(S) = MaxEntries + 1
  <2>1. S # {}
    BY <1>4, FS_EmptySet
  <2>2. PICK m \in S : \A y \in S : order[m] <= order[y]
    BY <2>1, FirstExists
  <2>3. {y \in S : order[m] < order[y]} = S \ {m}
    <3>1. ASSUME NEW y \in S PROVE order[m] < order[y] <=> y # m
      <4>1. order[m] \in Nat /\ order[y] \in Nat /\ order[m] <= order[y]
        BY <2>2
      <4>2. order[m] = order[y] => m = y
        OBVIOUS
      <4> QED
        BY <4>1, <4>2
    <3> QED
      BY <3>1
  <2>4. Cardinality(S \ {m}) = MaxEntries /\ IsFiniteSet(S \ {m})
    <3>1. IsFiniteSet(S \ {m}) /\ Cardinality(S \ {m}) = Cardinality(S) - 1
      BY FS_RemoveElement, Zenon
    <3>2. MaxEntries + 1 - 1 = MaxEntries
      OBVIOUS
    <3> QED
      BY <1>4, <3>1, <3>2
  <2>5. Newest(S, order) \in SUBSET (S \ {m})
    <3>1. Cardinality({y \in S : order[m] < order[y]}) = MaxEntries
      BY <2>3, <2>4
    <3>2. m \notin Newest(S, order)
      <4>1. m \in Newest(S, order)
              => Cardinality({y \in S : order[m] < order[y]}) < MaxEntries
        BY Zenon DEF Newest
      <4>2. ~ MaxEntries < MaxEntries
        OBVIOUS
      <4> QED
        BY <3>1, <4>1, <4>2, Zenon
    <3> QED
      BY <1>1, <3>2
  <2> QED
    BY <2>4, <2>5, FS_Subset
<1> QED
  BY <1>2, <1>3, <1>4

\* Forgetting what has expired keeps the bound.
LEMMA UnexpiredBounded ==
  ASSUME Types, Bounded
  PROVE  /\ Unexpired \subseteq items
         /\ IsFiniteSet(Unexpired)
         /\ Cardinality(Unexpired) \in Nat
         /\ Cardinality(Unexpired) <= MaxEntries
<1> USE StoreAssumption
<1>1. items \in SUBSET Ids
  BY DEF Types
<1>2. IsFiniteSet(items) /\ Cardinality(items) \in Nat
  BY <1>1, FS_Subset, FS_CardinalityType
<1>3. Unexpired \in SUBSET items
  BY DEF Unexpired
<1>4. IsFiniteSet(Unexpired) /\ Cardinality(Unexpired) <= Cardinality(items)
  BY <1>2, <1>3, FS_Subset
<1>5. Cardinality(Unexpired) \in Nat
  BY <1>4, FS_CardinalityType
<1> QED
  BY <1>2, <1>3, <1>4, <1>5 DEF Bounded

-----------------------------------------------------------------------------
(* The invariant, action by action.                                        *)

\* The empty store.
LEMMA InitIInv == Init => IInv
<1> SUFFICES ASSUME Init PROVE IInv
  OBVIOUS
<1> USE StoreAssumption
<1>1. Types
  BY DEF Init, Types
<1>2. Bounded
  BY FS_EmptySet DEF Init, Bounded
<1>3. InOrder /\ ExpiresFromPut /\ HitWasPut /\ RecentlyUsedIsKept /\ NeverServesExpired
  BY DEF Init, InOrder, ExpiresFromPut, HitWasPut, RecentlyUsedIsKept, NeverServesExpired
<1> QED
  BY <1>1, <1>2, <1>3 DEF IInv

\* As time passes, and as entries that expired are pruned, every promise to a
\* client only lapses.
LEMMA LapseIInv ==
  ASSUME IInv, now' \in {now, now + 1}, now' \in 0 .. MaxNow,
         \/ items' = items /\ now' = now + 1
         \/ items' = Unexpired /\ now' = now,
         UNCHANGED <<place, expires, uses, used, putAt, hit, hitAt>>
  PROVE  IInv'
<1> USE StoreAssumption
<1>0. Types /\ Bounded
  BY DEF IInv
<1>1. Unexpired \subseteq items /\ Cardinality(Unexpired) <= MaxEntries
  BY <1>0, UnexpiredBounded
<1>2. Types' /\ Bounded'
  BY <1>0, <1>1 DEF Types, Bounded
<1>3. InOrder' /\ ExpiresFromPut' /\ HitWasPut' /\ NeverServesExpired'
  BY DEF IInv, InOrder, ExpiresFromPut, HitWasPut, NeverServesExpired
<1>4. RecentlyUsedIsKept'
  <2> SUFFICES ASSUME NEW id \in Ids, used[id] # 0, now' < putAt[id] + TTL,
                      id \notin items'
               PROVE  Cardinality(UsedSince(id)) >= MaxEntries
    BY DEF RecentlyUsedIsKept, UsedSince
  <2>1. now \in Nat /\ putAt[id] \in Nat /\ expires[id] = putAt[id] + TTL
    BY <1>0 DEF IInv, Types, ExpiresFromPut
  <2>2. now < putAt[id] + TTL
    BY <2>1
  <2>3. id \notin items
    BY <2>1, <2>2 DEF Unexpired
  <2> QED
    BY <2>2, <2>3 DEF IInv, RecentlyUsedIsKept
<1> QED
  BY <1>2, <1>3, <1>4 DEF IInv

\* A use makes an id the last in the order, and only adds to what was used after
\* the others.
LEMMA UseOrder ==
  ASSUME Types, InOrder, NEW id \in Ids, Uses(id), place' = AtEnd(id)
  PROVE  /\ uses' = uses + 1 /\ uses' \in 0 .. MaxUses
         /\ used' \in [Ids -> 0 .. uses'] /\ place' \in [Ids -> 0 .. uses']
         /\ used'[id] = uses + 1
         /\ \A x \in Ids \ {id} : used'[x] = used[x] /\ used[x] <= uses
         /\ InOrder'
         /\ \A x \in Ids \ {id} : UsedSince(x) \subseteq UsedSince(x)'
<1> USE StoreAssumption
<1>1. /\ uses < MaxUses
      /\ uses' = uses + 1
      /\ used' = [used EXCEPT ![id] = uses + 1]
      /\ place' = [place EXCEPT ![id] = uses + 1]
  BY DEF Uses, AtEnd
<1>2. /\ uses \in Nat
      /\ used \in [Ids -> 0 .. uses] /\ place \in [Ids -> 0 .. uses]
  BY DEF Types
<1>3. uses' \in 0 .. MaxUses
  BY <1>1, <1>2
<1>4. used' \in [Ids -> 0 .. uses'] /\ place' \in [Ids -> 0 .. uses']
  BY <1>1, <1>2
<1>5. /\ used'[id] = uses + 1 /\ place'[id] = uses + 1
      /\ \A x \in Ids \ {id} :
           used'[x] = used[x] /\ place'[x] = place[x] /\ used[x] \in 0 .. uses
  BY <1>1, <1>2
<1>6. InOrder'
  BY <1>2, <1>5 DEF InOrder
<1>7. ASSUME NEW x \in Ids \ {id} PROVE UsedSince(x) \subseteq UsedSince(x)'
  <2>1. used'[x] < used'[id]
    BY <1>2, <1>5
  <2> QED
    BY <1>5, <2>1 DEF UsedSince
<1> QED
  BY <1>1, <1>3, <1>4, <1>5, <1>6, <1>7

\* What had enough uses after it still has.
LEMMA UsedSinceGrows ==
  ASSUME NEW x, UsedSince(x) \subseteq UsedSince(x)',
         Cardinality(UsedSince(x)) >= MaxEntries
  PROVE  Cardinality(UsedSince(x)') >= MaxEntries
<1> USE StoreAssumption
<1>1. UsedSince(x)' \in SUBSET Ids
  BY DEF UsedSince
<1>2. IsFiniteSet(UsedSince(x)')
  BY <1>1, FS_Subset
<1>3. /\ Cardinality(UsedSince(x)) <= Cardinality(UsedSince(x)')
      /\ IsFiniteSet(UsedSince(x))
  BY <1>2, FS_Subset
<1>4. Cardinality(UsedSince(x)) \in Nat /\ Cardinality(UsedSince(x)') \in Nat
  BY <1>2, <1>3, FS_CardinalityType
<1> QED
  BY <1>3, <1>4

\* A hit moves its entry to the end and serves it within its time to live.
LEMMA GetIInv ==
  ASSUME IInv, NEW id \in Ids, Get(id)
  PROVE  IInv'
<1> USE StoreAssumption
<1>0. Types /\ Bounded /\ InOrder
  BY DEF IInv
<1>1. /\ id \in items /\ now < expires[id] /\ id \in Unexpired
      /\ items' = Unexpired /\ place' = AtEnd(id) /\ Uses(id)
      /\ hit' = id /\ hitAt' = now
      /\ UNCHANGED <<now, expires, putAt>>
  BY DEF Get, Unexpired
<1>2. /\ uses' = uses + 1 /\ uses' \in 0 .. MaxUses
      /\ used' \in [Ids -> 0 .. uses'] /\ place' \in [Ids -> 0 .. uses']
      /\ used'[id] = uses + 1
      /\ \A x \in Ids \ {id} : used'[x] = used[x] /\ used[x] <= uses
      /\ InOrder'
      /\ \A x \in Ids \ {id} : UsedSince(x) \subseteq UsedSince(x)'
  BY <1>0, <1>1, UseOrder
<1>3. Unexpired \subseteq items /\ Cardinality(Unexpired) <= MaxEntries
  BY <1>0, UnexpiredBounded
<1>4. uses + 1 # 0 /\ used[id] # 0
  BY <1>0, <1>1 DEF Types
<1>5. Types'
  <2>1. items' \subseteq {x \in Ids : used'[x] # 0}
    BY <1>0, <1>1, <1>2, <1>3, <1>4 DEF Types
  <2> QED
    BY <1>0, <1>1, <1>2, <2>1 DEF Types
<1>6. Bounded'
  BY <1>1, <1>3 DEF Bounded
<1>7. ExpiresFromPut'
  BY <1>1, <1>2, <1>4 DEF IInv, ExpiresFromPut
<1>8. HitWasPut' /\ NeverServesExpired'
  BY <1>1, <1>2, <1>4 DEF IInv, ExpiresFromPut, HitWasPut, NeverServesExpired
<1>9. RecentlyUsedIsKept'
  <2> SUFFICES ASSUME NEW x \in Ids, used'[x] # 0, now < putAt[x] + TTL,
                      x \notin items'
               PROVE  Cardinality(UsedSince(x)') >= MaxEntries
    BY <1>1 DEF RecentlyUsedIsKept
  <2>1. x # id
    BY <1>1
  <2>2. used[x] # 0
    BY <1>2, <2>1
  <2>3. x \notin items
    BY <1>1, <2>2 DEF Unexpired, IInv, ExpiresFromPut
  <2>4. Cardinality(UsedSince(x)) >= MaxEntries
    BY <2>2, <2>3 DEF IInv, RecentlyUsedIsKept
  <2> QED
    BY <1>2, <2>1, <2>4, UsedSinceGrows
<1> QED
  BY <1>2, <1>5, <1>6, <1>7, <1>8, <1>9 DEF IInv

\* What a put evicts has max_entries entries used after it.
LEMMA PutIInv ==
  ASSUME IInv, NEW id \in Ids, NEW delay \in {0, 1}, Put(id, delay)
  PROVE  IInv'
<1> USE StoreAssumption
<1>0. Types /\ Bounded /\ InOrder
  BY DEF IInv
<1> DEFINE S == Unexpired \cup {id}
<1>1. /\ used[id] = 0 /\ Uses(id)
      /\ now + delay <= MaxNow /\ now' = now + delay
      /\ expires' = [expires EXCEPT ![id] = now + delay + TTL]
      /\ place' = AtEnd(id)
      /\ items' = Newest(S, place')
      /\ putAt' = [putAt EXCEPT ![id] = now + delay]
      /\ UNCHANGED <<hit, hitAt>>
  BY DEF Put
<1>2. /\ uses' = uses + 1 /\ uses' \in 0 .. MaxUses
      /\ used' \in [Ids -> 0 .. uses'] /\ place' \in [Ids -> 0 .. uses']
      /\ used'[id] = uses + 1
      /\ \A x \in Ids \ {id} : used'[x] = used[x] /\ used[x] <= uses
      /\ InOrder'
      /\ \A x \in Ids \ {id} : UsedSince(x) \subseteq UsedSince(x)'
  BY <1>0, <1>1, UseOrder
<1>3. /\ Unexpired \subseteq items
      /\ IsFiniteSet(Unexpired)
      /\ Cardinality(Unexpired) \in Nat
      /\ Cardinality(Unexpired) <= MaxEntries
  BY <1>0, UnexpiredBounded
<1>4. now \in Nat /\ now' \in 0 .. MaxNow /\ now <= now' /\ uses \in Nat
  BY <1>0, <1>1 DEF Types
<1>5. /\ expires' \in [Ids -> 0 .. MaxNow + TTL] /\ putAt' \in [Ids -> 0 .. MaxNow]
      /\ expires'[id] = now' + TTL /\ putAt'[id] = now'
      /\ \A x \in Ids \ {id} : expires'[x] = expires[x] /\ putAt'[x] = putAt[x]
  <2>1. now + delay + TTL \in 0 .. MaxNow + TTL
    BY <1>1, <1>4
  <2>2. expires \in [Ids -> 0 .. MaxNow + TTL] /\ putAt \in [Ids -> 0 .. MaxNow]
    BY <1>0 DEF Types
  <2>3. expires' \in [Ids -> 0 .. MaxNow + TTL] /\ putAt' \in [Ids -> 0 .. MaxNow]
    BY <1>1, <1>4, <2>1, <2>2
  <2>4. /\ expires'[id] = now' + TTL /\ putAt'[id] = now'
        /\ \A x \in Ids \ {id} : expires'[x] = expires[x] /\ putAt'[x] = putAt[x]
    BY <1>1, <2>2
  <2> QED
    BY <2>3, <2>4
<1>6. S \subseteq Ids /\ \A x \in S : used'[x] # 0
  BY <1>0, <1>2, <1>3, <1>4 DEF Types
<1>7. \A x \in Ids : place'[x] = used'[x] /\ used'[x] \in Nat
  BY <1>2 DEF InOrder, Types
<1>8. items' \subseteq S
  BY <1>1 DEF Newest
<1>9. Types'
  <2>1. items' \subseteq {x \in Ids : used'[x] # 0}
    BY <1>6, <1>8
  <2> QED
    BY <1>0, <1>1, <1>2, <1>4, <1>5, <2>1 DEF Types
<1>10. Bounded'
  <2>1. IsFiniteSet(S) /\ Cardinality(S) <= MaxEntries + 1
    <3>1. /\ IsFiniteSet(S)
          /\ Cardinality(S) = IF id \in Unexpired THEN Cardinality(Unexpired)
                              ELSE Cardinality(Unexpired) + 1
      <4> HIDE DEF S
      <4> QED
        BY <1>3, FS_AddElement, Zenon DEF S
    <3> QED
      BY <1>3, <3>1
  <2>2. \A x, y \in S : place'[x] = place'[y] => x = y
    BY <1>2, <1>6, <1>7 DEF InOrder
  <2>3. \A x \in S : place'[x] \in Nat
    BY <1>6, <1>7
  <2> HIDE DEF S
  <2>4. Cardinality(Newest(S, place')) <= MaxEntries
    BY <2>1, <2>2, <2>3, NewestBounded
  <2> QED
    BY <1>1, <2>4 DEF Bounded
<1>11. ExpiresFromPut'
  BY <1>2, <1>5 DEF IInv, ExpiresFromPut
<1>12. HitWasPut' /\ NeverServesExpired'
  <2>1. hit # None => hit \in Ids \ {id}
    BY <1>0, <1>1 DEF IInv, HitWasPut, Types
  <2> QED
    BY <1>1, <1>2, <1>5, <2>1 DEF IInv, HitWasPut, NeverServesExpired
<1>13. RecentlyUsedIsKept'
  <2> SUFFICES ASSUME NEW x \in Ids, used'[x] # 0, now' < putAt'[x] + TTL,
                      x \notin items'
               PROVE  Cardinality(UsedSince(x)') >= MaxEntries
    BY DEF RecentlyUsedIsKept
  <2>1. CASE x \in S
    <3> DEFINE After == {y \in S : place'[x] < place'[y]}
    <3>1. ~ Cardinality(After) < MaxEntries
      <4>1. Cardinality(After) < MaxEntries => x \in Newest(S, place')
        BY <2>1, Zenon DEF Newest
      <4> QED
        BY <1>1, <4>1
    <3>2. After \in SUBSET UsedSince(x)'
      BY <1>6, <1>7 DEF UsedSince
    <3>3. UsedSince(x)' \in SUBSET Ids
      BY DEF UsedSince
    <3> HIDE DEF After
    <3>4. IsFiniteSet(UsedSince(x)')
      BY <3>3, FS_Subset
    <3>5. IsFiniteSet(After) /\ Cardinality(After) <= Cardinality(UsedSince(x)')
      BY <3>2, <3>4, FS_Subset
    <3>6. Cardinality(After) \in Nat /\ Cardinality(UsedSince(x)') \in Nat
      BY <3>4, <3>5, FS_CardinalityType
    <3> QED
      BY <3>1, <3>5, <3>6
  <2>2. CASE x \notin S
    <3>1. x # id /\ used[x] # 0 /\ putAt'[x] = putAt[x]
      BY <1>2, <1>5, <2>2
    <3>2. putAt[x] \in Nat /\ expires[x] = putAt[x] + TTL
      BY <1>0, <3>1 DEF IInv, ExpiresFromPut, Types
    <3>3. now < putAt[x] + TTL
      BY <1>4, <3>1, <3>2
    <3>4. x \notin items
      BY <2>2, <3>2, <3>3 DEF Unexpired
    <3>5. Cardinality(UsedSince(x)) >= MaxEntries
      BY <3>1, <3>3, <3>4 DEF IInv, RecentlyUsedIsKept
    <3> QED
      BY <1>2, <3>1, <3>5, UsedSinceGrows
  <2> QED
    BY <2>1, <2>2
<1> QED
  BY <1>2, <1>9, <1>10, <1>11, <1>12, <1>13 DEF IInv

-----------------------------------------------------------------------------
(* The theorems.                                                           *)

\* Every step preserves the invariant.
LEMMA NextIInv == IInv /\ [Next]_vars => IInv'
<1> SUFFICES ASSUME IInv, [Next]_vars PROVE IInv'
  OBVIOUS
<1> USE StoreAssumption
<1>1. CASE UNCHANGED vars
  <2>1. Types' /\ Bounded' /\ InOrder'
    BY <1>1 DEF vars, IInv, Types, Bounded, InOrder
  <2>2. ExpiresFromPut' /\ HitWasPut' /\ NeverServesExpired'
    BY <1>1 DEF vars, IInv, ExpiresFromPut, HitWasPut, NeverServesExpired
  <2>3. RecentlyUsedIsKept'
    BY <1>1 DEF vars, IInv, RecentlyUsedIsKept, UsedSince
  <2> QED
    BY <2>1, <2>2, <2>3 DEF IInv
<1>2. CASE Tick
  <2>1. now + 1 \in 0 .. MaxNow
    BY <1>2 DEF Tick, IInv, Types
  <2>2. /\ items' = items /\ now' = now + 1
        /\ UNCHANGED <<place, expires, uses, used, putAt, hit, hitAt>>
    BY <1>2 DEF Tick
  <2>3. now' \in {now, now + 1} /\ now' \in 0 .. MaxNow
    BY <2>1, <2>2
  <2> QED
    BY <2>2, <2>3, LapseIInv
<1>3. CASE \E id \in Ids, delay \in {0, 1} : Put(id, delay)
  BY <1>3, PutIInv
<1>4. CASE \E id \in Ids : Get(id)
  BY <1>4, GetIInv
<1>5. CASE \E id \in Ids : Miss(id)
  <2>1. now \in 0 .. MaxNow
    BY DEF IInv, Types
  <2> QED
    BY <1>5, <2>1, LapseIInv DEF Miss
<1> QED
  BY <1>1, <1>2, <1>3, <1>4, <1>5 DEF Next

\* The invariant holds in every reachable state.
THEOREM InvariantHolds == Spec => []IInv
<1> QED
  BY InitIInv, NextIInv, PTL DEF Spec

\* The types, and never more than max_entries entries (TypeOK).
THEOREM TypeCorrect == Spec => []TypeOK
<1>1. IInv => TypeOK
  BY DEF IInv, Types, Bounded, TypeOK
<1> QED
  BY <1>1, InvariantHolds, PTL

\* A response is found until it expires or max_entries others were used since.
THEOREM RecentlyUsedIsKeptHolds == Spec => []RecentlyUsedIsKept
<1>1. IInv => RecentlyUsedIsKept
  BY DEF IInv
<1> QED
  BY <1>1, InvariantHolds, PTL

\* No response is served a time to live after it was stored.
THEOREM NeverServesExpiredHolds == Spec => []NeverServesExpired
<1>1. IInv => NeverServesExpired
  BY DEF IInv
<1> QED
  BY <1>1, InvariantHolds, PTL

=============================================================================
