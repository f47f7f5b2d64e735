----------------------------- MODULE SiteCache -----------------------------
(***************************************************************************)
(* The cache of compiled site configurations (site_cache.go): a map bounded*)
(* by a fixed ring of keys, filled by concurrent readers and emptied by    *)
(* the collector.                                                          *)
(*                                                                         *)
(* A reader looks its artifact up under the cache's mutex, lets the mutex  *)
(* go to compile the configuration, and takes it again to insert, so two   *)
(* misses may compile the same artifact and any number of other insertions *)
(* may come between.  Readers hold the read side of deploymentMu for the   *)
(* whole response.  The collector holds the write side while it retires an *)
(* artifact, makes the cache forget it and removes its files.              *)
(***************************************************************************)
EXTENDS Integers, FiniteSets

CONSTANTS
  Artifacts,   \* artifact ids; one is never used twice
  Readers,     \* concurrent site requests
  Capacity,    \* slots of the ring (siteCacheCapacity)
  None         \* the empty slot

ASSUME CacheAssumption ==
  /\ Capacity \in Nat \ {0}
  /\ None \notin Artifacts

Slots == 0 .. Capacity - 1

VARIABLES
  visible,   \* artifacts a host may select
  disk,      \* artifacts whose files are whole
  fresh,     \* artifacts never published so far
  sites,     \* the keys of the map
  order,     \* the ring: the key inserted at each slot
  next,      \* the slot the next insertion reuses
  pc,        \* where each reader is
  want       \* the artifact each reader serves

vars == <<visible, disk, fresh, sites, order, next, pc, want>>
cache == <<sites, order, next>>
readers == <<pc, want>>

Init ==
  /\ visible = {} /\ disk = {} /\ fresh = Artifacts
  /\ sites = {} /\ order = [k \in Slots |-> None] /\ next = 0
  /\ pc = [r \in Readers |-> "idle"]
  /\ want = [r \in Readers |-> None]

-----------------------------------------------------------------------------
(***************************************************************************)
(* load, called by serveFile under the read lock                           *)
(***************************************************************************)
Goto(r, label) == pc' = [pc EXCEPT ![r] = label]

\* The deployment is selected, and the map looked up.
Lookup(r, id) ==
  /\ pc[r] = "idle" /\ id \in visible
  /\ Goto(r, IF id \in sites THEN "serving" ELSE "compiling")
  /\ want' = [want EXCEPT ![r] = id]
  /\ UNCHANGED <<visible, disk, fresh, cache>>

\* Compilation, with no mutex held; an error is reported and never retained.
Compile(r) ==
  /\ pc[r] = "compiling"
  /\ \E outcome \in {"inserting", "serving"} : Goto(r, outcome)
  /\ UNCHANGED <<visible, disk, fresh, cache, want>>

\* Fault: the slot's old key stays in the map.
KeepAll == sites

\* The slot's old key leaves the map before the new one enters it.
Evict == sites \ {order[next]}
Advance == (next + 1) % Capacity
Miss(id) == id \notin sites

Insert(r) ==
  /\ pc[r] = "inserting"
  /\ IF Miss(want[r])
     THEN /\ sites' = Evict \cup {want[r]}
          /\ order' = [order EXCEPT ![next] = want[r]]
          /\ next' = Advance
     ELSE UNCHANGED cache
  /\ Goto(r, "serving")
  /\ UNCHANGED <<visible, disk, fresh, want>>

\* The response, an error response included, is complete.
Leave(r) ==
  /\ pc[r] = "serving"
  /\ Goto(r, "idle") /\ want' = [want EXCEPT ![r] = None]
  /\ UNCHANGED <<visible, disk, fresh, cache>>

-----------------------------------------------------------------------------
(***************************************************************************)
(* Under the write side of deploymentMu                                    *)
(***************************************************************************)
Quiet == \A r \in Readers : pc[r] = "idle"

Publish(id) ==
  /\ Quiet /\ id \in fresh
  /\ visible' = visible \cup {id} /\ disk' = disk \cup {id} /\ fresh' = fresh \ {id}
  /\ UNCHANGED <<cache, readers>>

\* The artifact is found damaged, or its project is deleted: nobody selects it any
\* more, and the cache is not told.
Hide(id) ==
  /\ Quiet /\ id \in visible
  /\ visible' = visible \ {id}
  /\ UNCHANGED <<disk, fresh, cache, readers>>

\* Fault: the collector does not tell the cache.
ForgetNothing(id) == id \in Artifacts /\ UNCHANGED <<sites, order>>
Forget(id) ==
  /\ sites' = sites \ {id}
  /\ order' = [k \in Slots |-> IF order[k] = id THEN None ELSE order[k]]

\* The tombstone, forget, and then the removal of the files, whole or in part.
Collect(id) ==
  /\ Quiet /\ id \in disk
  /\ visible' = visible \ {id}
  /\ Forget(id)
  /\ disk' = disk \ {id}
  /\ UNCHANGED <<fresh, next, readers>>

\* The process dies: the cache is memory, artifacts stay.
Restart ==
  /\ sites' = {} /\ order' = [k \in Slots |-> None] /\ next' = 0
  /\ pc' = [r \in Readers |-> "idle"] /\ want' = [r \in Readers |-> None]
  /\ UNCHANGED <<visible, disk, fresh>>

Next ==
  \/ \E r \in Readers :
       (\E id \in Artifacts : Lookup(r, id)) \/ Compile(r) \/ Insert(r) \/ Leave(r)
  \/ \E id \in Artifacts : Publish(id) \/ Hide(id) \/ Collect(id)
  \/ Restart

Spec == Init /\ [][Next]_vars

-----------------------------------------------------------------------------
\* Every variable keeps its type.
TypeOK ==
  /\ visible \subseteq Artifacts /\ disk \subseteq Artifacts /\ fresh \subseteq Artifacts
  /\ sites \subseteq Artifacts
  /\ order \in [Slots -> Artifacts \cup {None}]
  /\ next \in Slots
  /\ pc \in [Readers -> {"idle", "compiling", "inserting", "serving"}]
  /\ want \in [Readers -> Artifacts \cup {None}]

\* The map and the ring hold the same keys, each in one slot, whatever misses raced and
\* whatever was forgotten: no key is out of the ring's reach, and an eviction never
\* takes a key that a newer slot still holds.
RingMatchesMap ==
  /\ sites = {order[k] : k \in Slots} \ {None}
  /\ \A j, k \in Slots : order[j] = order[k] /\ order[j] # None => j = k

\* So the map is bounded ("A fixed FIFO bounds memory").
Bounded == Cardinality(sites) <= Capacity

\* A compiled site never outlives its files: a load that began before a collection
\* cannot insert after it.
NothingStale == sites \subseteq disk

\* The files a reader compiles or serves from are whole until its response is complete.
ReadersProtected == \A r \in Readers : pc[r] # "idle" => want[r] \in visible \cap disk
=============================================================================
