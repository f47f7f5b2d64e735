-------------------------- MODULE SiteCacheProofs --------------------------
(***************************************************************************)
(* The site cache is bounded and never stale, for every number of          *)
(* artifacts, readers and slots.                                           *)
(***************************************************************************)
EXTENDS SiteCache, FiniteSetTheorems, TLAPS

\* What the proof carries from step to step: a host selects only artifacts whose files
\* are whole, and readers keep them so.
IInv ==
  /\ TypeOK
  /\ visible \subseteq disk
  /\ RingMatchesMap
  /\ NothingStale
  /\ ReadersProtected

\* The ring's cursor stays within the ring.
LEMMA AdvanceInSlots == ASSUME next \in Slots PROVE Advance \in Slots
  BY CacheAssumption DEF Slots, Advance

LEMMA InitIInv == Init => IInv
  BY CacheAssumption DEF Init, IInv, TypeOK, RingMatchesMap, NothingStale,
     ReadersProtected, Slots

\* Inserting a key that is not in the map keeps map and ring in step: the slot it takes
\* gives its old key up, and no other slot holds either key.
LEMMA InsertKeepsRing ==
  ASSUME IInv, NEW r \in Readers, Insert(r) PROVE RingMatchesMap' /\ NothingStale'
PROOF
  <1>1. CASE ~Miss(want[r])
    BY <1>1 DEF IInv, Insert, cache, RingMatchesMap, NothingStale, Slots
  <1>2. CASE Miss(want[r])
    <2>1. want[r] \in Artifacts /\ want[r] \in disk /\ want[r] # None
      BY CacheAssumption DEF IInv, TypeOK, ReadersProtected, Insert
    <2>2. /\ sites' = (sites \ {order[next]}) \cup {want[r]}
          /\ order' = [order EXCEPT ![next] = want[r]]
          /\ disk' = disk
      BY <1>2 DEF Insert, Evict
    <2>3. next \in Slots /\ order \in [Slots -> Artifacts \cup {None}]
      BY DEF IInv, TypeOK
    <2>4. \A k \in Slots : order'[k] = IF k = next THEN want[r] ELSE order[k]
      BY <2>2, <2>3
    <2>5. \A k \in Slots : order[k] # want[r]
      BY <1>2, <2>1 DEF Miss, IInv, RingMatchesMap
    <2>6. \A j, k \in Slots : order'[j] = order'[k] /\ order'[j] # None => j = k
      BY <2>4, <2>5 DEF IInv, RingMatchesMap
    <2>7. ASSUME NEW x \in sites' PROVE \E k \in Slots : order'[k] = x /\ x # None
      <3>1. CASE x = want[r]
        BY <3>1, <2>1, <2>3, <2>4
      <3>2. CASE x # want[r]
        <4>1. x \in sites /\ x # order[next]
          BY <3>2, <2>2, <2>7
        <4>2. PICK k \in Slots : order[k] = x /\ x # None
          BY <4>1 DEF IInv, RingMatchesMap
        <4> QED BY <4>1, <4>2, <2>4
      <3> QED BY <3>1, <3>2
    <2>8. ASSUME NEW k \in Slots, order'[k] # None PROVE order'[k] \in sites'
      <3>1. CASE k = next
        BY <3>1, <2>2, <2>4
      <3>2. CASE k # next
        BY <3>2, <2>2, <2>3, <2>4, <2>8 DEF IInv, RingMatchesMap
      <3> QED BY <3>1, <3>2
    <2>9. sites' = {order'[k] : k \in Slots} \ {None}
      BY <2>7, <2>8
    <2> QED BY <2>1, <2>2, <2>6, <2>9 DEF IInv, RingMatchesMap, NothingStale
  <1> QED BY <1>1, <1>2

\* Forgetting a key clears it from the map and from the one slot that held it.
LEMMA CollectKeepsRing ==
  ASSUME IInv, NEW id \in Artifacts, Collect(id) PROVE RingMatchesMap' /\ NothingStale'
PROOF
  <1>1. /\ sites' = sites \ {id} /\ disk' = disk \ {id}
        /\ order' = [k \in Slots |-> IF order[k] = id THEN None ELSE order[k]]
    BY DEF Collect, Forget
  <1>2. \A k \in Slots : order'[k] = IF order[k] = id THEN None ELSE order[k]
    BY <1>1
  <1>3. sites' = {order'[k] : k \in Slots} \ {None}
    BY <1>1, <1>2 DEF IInv, RingMatchesMap
  <1>4. \A j, k \in Slots : order'[j] = order'[k] /\ order'[j] # None => j = k
    BY <1>2 DEF IInv, RingMatchesMap
  <1> QED BY <1>1, <1>3, <1>4 DEF IInv, RingMatchesMap, NothingStale

LEMMA NextIInv == IInv /\ [Next]_vars => IInv'
PROOF
  <1> SUFFICES ASSUME IInv, [Next]_vars PROVE IInv'
    OBVIOUS
  <1> USE DEF IInv
  <1>1. ASSUME NEW r \in Readers, NEW id \in Artifacts, Lookup(r, id) PROVE IInv'
    BY <1>1 DEF Lookup, Goto, cache, TypeOK, RingMatchesMap, NothingStale, ReadersProtected
  <1>2. ASSUME NEW r \in Readers, Compile(r) PROVE IInv'
    BY <1>2 DEF Compile, Goto, cache, TypeOK, RingMatchesMap, NothingStale, ReadersProtected
  <1>3. ASSUME NEW r \in Readers, Insert(r) PROVE IInv'
    <2>1. RingMatchesMap' /\ NothingStale'
      BY <1>3, InsertKeepsRing
    <2>2. TypeOK'
      <3>1. want[r] \in Artifacts
        BY <1>3 DEF Insert, TypeOK, ReadersProtected
      <3>2. next' \in Slots
        BY <1>3, AdvanceInSlots DEF Insert, TypeOK, cache
      <3> QED BY <1>3, <3>1, <3>2 DEF Insert, Evict, Goto, cache, TypeOK
    <2>3. ReadersProtected' /\ (visible \subseteq disk)'
      BY <1>3 DEF Insert, Goto, TypeOK, ReadersProtected
    <2> QED BY <2>1, <2>2, <2>3
  <1>4. ASSUME NEW r \in Readers, Leave(r) PROVE IInv'
    BY <1>4 DEF Leave, Goto, cache, TypeOK, RingMatchesMap, NothingStale, ReadersProtected
  <1>5. ASSUME NEW id \in Artifacts, Publish(id) PROVE IInv'
    BY <1>5 DEF Publish, Quiet, cache, readers, TypeOK, RingMatchesMap, NothingStale,
       ReadersProtected
  <1>6. ASSUME NEW id \in Artifacts, Hide(id) PROVE IInv'
    BY <1>6 DEF Hide, Quiet, cache, readers, TypeOK, RingMatchesMap, NothingStale,
       ReadersProtected
  <1>7. ASSUME NEW id \in Artifacts, Collect(id) PROVE IInv'
    <2>1. RingMatchesMap' /\ NothingStale'
      BY <1>7, CollectKeepsRing
    <2>2. TypeOK' /\ (visible \subseteq disk)' /\ ReadersProtected'
      BY <1>7 DEF Collect, Forget, Quiet, readers, TypeOK, ReadersProtected
    <2> QED BY <2>1, <2>2
  <1>8. ASSUME Restart PROVE IInv'
    BY <1>8, CacheAssumption DEF Restart, TypeOK, RingMatchesMap, NothingStale,
       ReadersProtected, Slots
  <1>9. ASSUME UNCHANGED vars PROVE IInv'
    BY <1>9 DEF vars, TypeOK, RingMatchesMap, NothingStale, ReadersProtected
  <1> QED BY <1>1, <1>2, <1>3, <1>4, <1>5, <1>6, <1>7, <1>8, <1>9 DEF Next

\* The inductive invariant holds in every reachable state.
THEOREM Inductive == Spec => []IInv
  BY InitIInv, NextIInv, PTL DEF Spec

\* A compiled site never outlives its files, and readers never lose theirs
\* (site_cache.go: load under the read lock, forget under the write lock).
THEOREM CacheNeverStale == Spec => [](NothingStale /\ ReadersProtected)
  BY Inductive, PTL DEF IInv

\* The ring's cursor, the ring, the map and the readers keep their types.
THEOREM CacheTypes == Spec => []TypeOK
  BY Inductive, PTL DEF IInv

\* The ring and the map hold the same keys, each in one slot, although a miss compiles with
\* no mutex held and inserts later (site_cache.go: load, forget).
THEOREM RingInStep == Spec => []RingMatchesMap
  BY Inductive, PTL DEF IInv

\* What a reader is about to serve is on disk until the response is complete (site.go: the
\* read lock is taken before the lookup and released after the response).
THEOREM ReadersKeepFiles == Spec => []ReadersProtected
  BY Inductive, PTL DEF IInv

\* Each cached key sits in exactly one slot, so the slots count the keys.
LEMMA RingBounds == IInv => Bounded
PROOF
  <1> SUFFICES ASSUME IInv PROVE Bounded
    OBVIOUS
  <1> DEFINE slot == [x \in sites |-> CHOOSE k \in Slots : order[k] = x]
  <1>1. \A x \in sites : slot[x] \in Slots /\ order[slot[x]] = x
    BY DEF IInv, RingMatchesMap
  <1>2. slot \in Injection(sites, Slots)
    BY <1>1 DEF Injection, IsInjective
  <1>3. IsFiniteSet(Slots) /\ Cardinality(Slots) = Capacity
    BY CacheAssumption, FS_Interval DEF Slots
  <1> QED BY <1>2, <1>3, FS_Injection DEF Bounded

\* The map never holds more sites than the ring has slots (siteCacheCapacity).
THEOREM CacheBounded == Spec => []Bounded
  BY Inductive, RingBounds, PTL
=============================================================================
