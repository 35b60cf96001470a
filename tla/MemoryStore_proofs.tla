-------------------------- MODULE MemoryStore_proofs --------------------------
(***************************************************************************)
(* Safety of the store for every set of keys and clients, every limit, TTL  *)
(* and batch size: its counters, limits and queue, its creators and waiters, *)
(* the promise of its interface, and what a version stands for              *)
(* (MemoryStore); then what its gauges show, however late each actor        *)
(* delivers its events (StoreEvents).                                      *)
(***************************************************************************)
EXTENDS StoreEvents, Data_proofs

----------------------------------------------------------------------------
(* The inductive invariant *)

\* A stored record has a version that was given out.
StoredVersions == \A k \in Stored : entries[k].version \in 1..nextVer

\* Only records that have a deadline have a node in the queue.
HasDeadline(r) == TTL > 0 \/ r.restoredAt # 0

\* ExpiryIndex, node by node and record by record.
NodesMatch ==
  /\ \A n \in expiries : /\ n.key \in Stored
                         /\ HasDeadline(entries[n.key])
                         /\ n.at = RecordExpiry(entries[n.key])
  /\ \A k \in Stored : HasDeadline(entries[k])
                         => Node(k, RecordExpiry(entries[k])) \in expiries

\* The mapped creator of a key works on that key and is between its
\* reservation and its answer; a builder is mapped, and its key is absent.
CreatorsMatch ==
  /\ \A k \in Keys : inflight[k] # NoClient =>
        /\ inflight[k] \in Clients
        /\ KeyOf[inflight[k]] = k
        /\ pc[inflight[k]] \in {"build", "published"}
  /\ CreatorOwnsKey

\* WithinLimits, in the counters the code compares.
CountersWithinLimits ==
  /\ MaxEntries > 0 => Cardinality(Stored) + reservedEntries <= MaxEntries
  /\ MaxBytes > 0 => bytes + reservedBytes <= MaxBytes

IInv ==
  /\ VariableTypes
  /\ StoredVersions
  /\ NodesMatch
  /\ BytesAccounted
  /\ ReservationsAccounted
  /\ CreatorsMatch
  /\ CountersWithinLimits
  /\ NoLostWaiter

----------------------------------------------------------------------------
(* Sets and totals of a state *)

\* Finitely many keys hold records and finitely many clients build.
LEMMA StoredFinite == IsFiniteSet(Stored) /\ IsFiniteSet(Builders)
BY KeysAssumption, FS_Subset DEF Stored, Builders

\* What a creator reserves is a natural number.
LEMMA ReserveType == \A c \in Clients : Reserve(c) \in Nat /\ ReservedBy[c] \in Nat
BY SizesAssumption DEF Reserve, ReservedBy

\* So is the size of every record.
LEMMA SizesType == VariableTypes => \A k \in Keys : Sizes[k] \in Nat
BY DEF VariableTypes, Sizes, Record

\* The byte counter and the size of any part of the store are natural numbers.
LEMMA BytesType ==
  ASSUME VariableTypes
  PROVE  \A K \in SUBSET Keys : IsFiniteSet(K) /\ BytesOf(K) \in Nat
<1> SUFFICES ASSUME NEW K \in SUBSET Keys
             PROVE  IsFiniteSet(K) /\ BytesOf(K) \in Nat
  OBVIOUS
<1>1. IsFiniteSet(K)
  BY KeysAssumption, FS_Subset
<1>2. \A k \in K : Sizes[k] \in Nat
  BY SizesType
<1> QED BY <1>1, <1>2, TotalType DEF BytesOf

\* Only keys are stored.
LEMMA StoredSubset == Stored \subseteq Keys
BY DEF Stored

\* Counters that account for the builders are natural numbers.
LEMMA ReservedType ==
  ASSUME ReservationsAccounted
  PROVE  reservedBytes \in Nat /\ reservedEntries \in Nat
<1>1. \A c \in Builders : ReservedBy[c] \in Nat
  BY ReserveType DEF Builders
<1>2. Total(Builders, ReservedBy) \in Nat
  BY <1>1, StoredFinite, TotalType
<1>3. Cardinality(Builders) \in Nat
  BY StoredFinite, FS_CardinalityType
<1> QED BY <1>2, <1>3 DEF ReservationsAccounted

\* The types of the counters follow from what they account for.
LEMMA CounterTypes ==
  ASSUME VariableTypes, BytesAccounted, ReservationsAccounted
  PROVE  TypeOK
BY BytesType, StoredSubset, ReservedType DEF TypeOK, BytesAccounted

----------------------------------------------------------------------------
(* What an eviction does *)

\* Without the records of K the store holds the others, unchanged, and the byte
\* counter still is their sum.
LEMMA EvictEffect ==
  ASSUME VariableTypes, BytesAccounted, NEW K, K \subseteq Stored, Evict(K)
  PROVE  /\ Stored' = Stored \ K
         /\ \A k \in Stored \ K : entries'[k] = entries[k]
         /\ entries' \in [Keys -> Record]
         /\ BytesAccounted'
         /\ bytes' <= bytes
         /\ bytes' \in Nat
<1>1. entries' = [k \in Keys |-> IF k \in K THEN NoRecord ELSE entries[k]]
  BY DEF Evict, Without
<1>2. NoRecord \in Record
  BY DEF NoRecord, Record
<1>3. entries' \in [Keys -> Record]
  BY <1>1, <1>2 DEF VariableTypes
<1>4. Stored' = Stored \ K
  BY <1>1 DEF Stored
<1>5. \A k \in Stored \ K : entries'[k] = entries[k]
  BY <1>1 DEF Stored
<1>6. \A k \in Stored \ K : Sizes[k] = Sizes'[k]
  BY <1>5 DEF Sizes, Stored
<1>7. Total(Stored \ K, Sizes) = Total(Stored \ K, Sizes')
  BY <1>6, TotalSame
<1>8. \A k \in Stored : Sizes[k] \in Nat
  BY SizesType, StoredSubset
<1>9. /\ Total(Stored \ K, Sizes) = Total(Stored, Sizes) - Total(K, Sizes)
      /\ Total(K, Sizes) \in Nat
      /\ Total(Stored \ K, Sizes) \in Nat
  BY <1>8, StoredFinite, TotalDifference
<1>10. bytes' = bytes - Total(K, Sizes)
  BY DEF Evict, BytesOf
<1>11. bytes = Total(Stored, Sizes)
  BY DEF BytesAccounted, BytesOf
<1>12. bytes \in Nat
  BY BytesType, StoredSubset DEF BytesAccounted
<1>13. bytes' = Total(Stored \ K, Sizes')
  BY <1>7, <1>9, <1>10, <1>11
<1>14. Total(Stored', Sizes') = Total(Stored \ K, Sizes')
  BY <1>4
<1>15. BytesAccounted'
  BY <1>13, <1>14 DEF BytesAccounted, BytesOf
<1>16. bytes' <= bytes /\ bytes' \in Nat
  BY <1>9, <1>10, <1>11, <1>12
<1> QED BY <1>3, <1>4, <1>5, <1>15, <1>16

\* A popped node belongs to a record that is reclaimed with it.
LEMMA BatchOwners ==
  ASSUME NodesMatch, NEW B \in Batches
  PROVE  /\ B \subseteq expiries
         /\ Reclaimed(B) \subseteq Stored
         /\ \A n \in B : n.key \in Reclaimed(B)
         /\ \A k \in Reclaimed(B) : IsExpired(entries[k])
<1>1. Reclaimed(B) \subseteq Stored
  BY DEF Reclaimed
<1>2. CASE TTL = 0
  <2>1. B = {}
    BY <1>2 DEF Batches
  <2> QED BY <1>1, <2>1 DEF Reclaimed
<1>3. CASE TTL # 0
  <2>1. B \subseteq expiries /\ \A n \in B : n.at <= now
    BY <1>3 DEF Batches, EarliestDue, Due
  <2>2. \A n \in B : n.key \in Reclaimed(B)
    BY <2>1 DEF Reclaimed, NodesMatch
  <2>3. \A k \in Reclaimed(B) : IsExpired(entries[k])
    BY <1>3, LimitsAssumption DEF Reclaimed, IsExpired
  <2> QED BY <1>1, <2>1, <2>2, <2>3
<1> QED BY <1>2, <1>3

\* The part of the invariant that is about stored records and their nodes.
StoreInv == StoredVersions /\ NodesMatch /\ BytesAccounted

\* Evicting K together with exactly the nodes of K keeps records, nodes and
\* bytes in agreement.
LEMMA EvictKeepsStore ==
  ASSUME VariableTypes, StoreInv, NEW K, K \subseteq Stored, Evict(K),
         expiries' \subseteq expiries,
         \A n \in expiries : n \in expiries' <=> n.key \notin K,
         nextVer' = nextVer
  PROVE  StoreInv' /\ expiries' \subseteq [key: Keys, at: Nat]
<1>1. /\ Stored' = Stored \ K
      /\ \A k \in Stored \ K : entries'[k] = entries[k]
      /\ BytesAccounted'
  BY EvictEffect DEF StoreInv
<1>2. StoredVersions'
  BY <1>1 DEF StoreInv, StoredVersions
<1>3. ASSUME NEW n \in expiries'
      PROVE  /\ n.key \in Stored'
             /\ HasDeadline(entries'[n.key])
             /\ n.at = RecordExpiry(entries'[n.key])
  <2>1. n \in expiries /\ n.key \notin K
    BY <1>3
  <2>2. n.key \in Stored \ K
    BY <2>1 DEF StoreInv, NodesMatch
  <2> QED BY <1>1, <2>1, <2>2 DEF StoreInv, NodesMatch
<1>4. ASSUME NEW k \in Stored', HasDeadline(entries'[k])
      PROVE  Node(k, RecordExpiry(entries'[k])) \in expiries'
  <2>1. k \in Stored \ K /\ entries'[k] = entries[k]
    BY <1>1, <1>4
  <2>2. Node(k, RecordExpiry(entries[k])) \in expiries
    BY <1>4, <2>1 DEF StoreInv, NodesMatch
  <2>3. Node(k, RecordExpiry(entries[k])).key = k
    BY DEF Node
  <2> QED BY <2>1, <2>2, <2>3
<1>5. NodesMatch'
  BY <1>3, <1>4 DEF NodesMatch, HasDeadline, RecordExpiry
<1> QED BY <1>1, <1>2, <1>5 DEF StoreInv, VariableTypes

\* A drain.
LEMMA DrainKeepsStore ==
  ASSUME VariableTypes, StoreInv, NEW B \in Batches,
         Drain(B, Reclaimed(B)), nextVer' = nextVer
  PROVE  StoreInv' /\ expiries' \subseteq [key: Keys, at: Nat]
<1>1. /\ B \subseteq expiries
      /\ Reclaimed(B) \subseteq Stored
      /\ \A n \in B : n.key \in Reclaimed(B)
  BY BatchOwners DEF StoreInv
<1>2. ASSUME NEW n \in expiries, n.key \in Reclaimed(B)
      PROVE  n \in B
  <2>1. PICK m \in B : m.key = n.key
    BY <1>2 DEF Reclaimed
  <2>2. m \in expiries
    BY <1>1
  <2>3. m.at = n.at
    BY <2>1, <2>2 DEF StoreInv, NodesMatch
  <2>4. m = n
    BY <2>1, <2>2, <2>3 DEF VariableTypes
  <2> QED BY <2>4
<1>3. Evict(Reclaimed(B)) /\ expiries' = expiries \ B
  BY DEF Drain
<1>4. \A n \in expiries : n \in expiries' <=> n.key \notin Reclaimed(B)
  BY <1>1, <1>2, <1>3
<1> QED BY <1>1, <1>3, <1>4, EvictKeepsStore

\* The eviction of one expired record by Get or Create.
LEMMA LookupEvictionKeepsStore ==
  ASSUME VariableTypes, StoreInv, NEW k \in Stored,
         Evict({k}), expiries' = RemoveNode(k), nextVer' = nextVer
  PROVE  StoreInv' /\ expiries' \subseteq [key: Keys, at: Nat]
BY EvictKeepsStore DEF RemoveNode

\* A step that leaves the records, their nodes and the counters alone.
LEMMA SameStore ==
  ASSUME VariableTypes, StoreInv, UNCHANGED storeVars
  PROVE  StoreInv' /\ Stored' = Stored /\ expiries' \subseteq [key: Keys, at: Nat]
<1> USE DEF storeVars
<1>1. Stored' = Stored
  BY DEF Stored
<1>2. StoredVersions'
  BY <1>1 DEF StoreInv, StoredVersions
<1>3. NodesMatch'
  BY <1>1 DEF StoreInv, NodesMatch, HasDeadline, RecordExpiry
<1>4. BytesAccounted'
  <2>1. Sizes' = Sizes
    BY DEF Sizes
  <2> QED BY <1>1, <2>1 DEF StoreInv, BytesAccounted, BytesOf
<1> QED BY <1>1, <1>2, <1>3, <1>4 DEF StoreInv, VariableTypes

\* Publishing a record for an absent key, after a drain.
LEMMA PublishKeepsStore ==
  ASSUME VariableTypes, StoreInv,
         NEW c \in Clients, NEW size \in Nat, KeyOf[c] \notin Stored,
         NEW rec, rec = [version |-> NextVersion, author |-> c, createdAt |-> now,
                         restoredAt |-> 0, size |-> size],
         NEW B \in Batches,
         entries' = [Without(Reclaimed(B)) EXCEPT ![KeyOf[c]] = rec],
         bytes' = bytes - BytesOf(Reclaimed(B)) + size,
         expiries' = IF TTL > 0
                     THEN (expiries \ B) \cup {Node(KeyOf[c], now + TTL)}
                     ELSE expiries,
         nextVer' = NextVersion
  PROVE  /\ StoreInv'
         /\ Stored' = (Stored \ Reclaimed(B)) \cup {KeyOf[c]}
         /\ entries' \in [Keys -> Record]
         /\ expiries' \subseteq [key: Keys, at: Nat]
<1> DEFINE k == KeyOf[c]
           R == Reclaimed(B)
<1>1. k \in Keys /\ rec \in Record /\ rec # NoRecord /\ nextVer \in Nat
  BY KeysAssumption DEF VariableTypes, Record, NoRecord, NextVersion
<1>2. /\ B \subseteq expiries
      /\ R \subseteq Stored
      /\ \A n \in B : n.key \in R
  BY BatchOwners DEF StoreInv
<1>3. entries' = [j \in Keys |-> IF j = k THEN rec
                                 ELSE IF j \in R THEN NoRecord ELSE entries[j]]
  BY <1>1 DEF Without
<1>4. NoRecord \in Record
  BY DEF NoRecord, Record
<1>5. entries' \in [Keys -> Record]
  BY <1>1, <1>3, <1>4 DEF VariableTypes
<1>6. Stored' = (Stored \ R) \cup {k}
  BY <1>1, <1>2, <1>3 DEF Stored
<1>7. entries'[k] = rec /\ \A j \in Stored \ R : entries'[j] = entries[j]
  BY <1>1, <1>3 DEF Stored
<1>8. StoredVersions'
  <2>1. \A j \in Stored \ R : entries[j].version \in 1..nextVer
    BY DEF StoreInv, StoredVersions
  <2> QED BY <1>1, <1>6, <1>7, <2>1 DEF StoredVersions, NextVersion
<1>9. BytesAccounted'
  <2>1. \A j \in Stored \ R : Sizes[j] = Sizes'[j]
    BY <1>7 DEF Sizes, Stored
  <2>2. Total(Stored \ R, Sizes) = Total(Stored \ R, Sizes')
    BY <2>1, TotalSame
  <2>3. \A j \in Stored : Sizes[j] \in Nat
    BY SizesType, StoredSubset
  <2>4. /\ Total(Stored \ R, Sizes) = Total(Stored, Sizes) - Total(R, Sizes)
        /\ Total(R, Sizes) \in Nat
        /\ Total(Stored \ R, Sizes) \in Nat
    BY <1>2, <2>3, StoredFinite, TotalDifference
  <2>5. Sizes'[k] = size
    BY <1>1, <1>7 DEF Sizes
  <2>6. k \notin Stored \ R /\ IsFiniteSet(Stored \ R)
    BY StoredFinite, FS_Subset
  <2>7. \A j \in (Stored \ R) \cup {k} : Sizes'[j] \in Nat
    BY <2>1, <2>3, <2>5
  <2>8. Total((Stored \ R) \cup {k}, Sizes') = Total(Stored \ R, Sizes') + Sizes'[k]
    BY <2>6, <2>7, TotalAdd
  <2>9. bytes = Total(Stored, Sizes) /\ bytes' = bytes - Total(R, Sizes) + size
    BY DEF StoreInv, BytesAccounted, BytesOf
  <2>10. Total(Stored, Sizes) \in Nat
    BY <2>3, StoredFinite, TotalType
  <2>11. bytes' = Total((Stored \ R) \cup {k}, Sizes')
    BY <2>2, <2>4, <2>5, <2>8, <2>9, <2>10
  <2>12. Total(Stored', Sizes') = Total((Stored \ R) \cup {k}, Sizes')
    BY <1>6
  <2> QED BY <2>11, <2>12 DEF BytesAccounted, BytesOf
<1>10. NodesMatch'
  <2>1. RecordExpiry(rec) = now + TTL /\ (HasDeadline(rec) <=> TTL > 0)
    BY DEF RecordExpiry, HasDeadline
  <2>2. ASSUME NEW n \in expiries'
        PROVE  /\ n.key \in Stored'
               /\ HasDeadline(entries'[n.key])
               /\ n.at = RecordExpiry(entries'[n.key])
    <3>1. CASE TTL > 0 /\ n = Node(k, now + TTL)
      BY <1>6, <1>7, <2>1, <3>1 DEF Node
    <3>2. CASE n \in expiries \ B
      <4>1. n.key \in Stored
        BY <3>2 DEF StoreInv, NodesMatch
      <4>2. n.key \notin R
        <5> SUFFICES ASSUME n.key \in R PROVE FALSE
          OBVIOUS
        <5>1. PICK m \in B : m.key = n.key
          BY DEF Reclaimed
        <5>2. m \in expiries /\ n \in expiries /\ m.at = n.at
          BY <1>2, <3>2, <5>1 DEF StoreInv, NodesMatch
        <5>3. m = n
          BY <5>1, <5>2 DEF VariableTypes
        <5> QED BY <3>2, <5>1, <5>3
      <4>3. entries'[n.key] = entries[n.key]
        BY <1>7, <4>1, <4>2
      <4> QED BY <1>6, <3>2, <4>1, <4>2, <4>3 DEF StoreInv, NodesMatch
    <3>3. CASE TTL = 0
      <4>1. n \in expiries /\ B = {}
        BY <2>2, <3>3 DEF Batches
      <4> QED BY <3>2, <4>1
    <3> QED BY <2>2, <3>1, <3>2, <3>3, LimitsAssumption
  <2>3. ASSUME NEW j \in Stored', HasDeadline(entries'[j])
        PROVE  Node(j, RecordExpiry(entries'[j])) \in expiries'
    <3>1. CASE j = k
      BY <1>7, <2>1, <2>3, <3>1
    <3>2. CASE j # k
      <4>1. j \in Stored \ R /\ entries'[j] = entries[j]
        BY <1>6, <1>7, <3>2
      <4>2. Node(j, RecordExpiry(entries[j])) \in expiries
        BY <2>3, <4>1 DEF StoreInv, NodesMatch
      <4>3. Node(j, RecordExpiry(entries[j])) \notin B
        BY <1>2, <4>1 DEF Node
      <4> QED BY <4>1, <4>2, <4>3
    <3> QED BY <3>1, <3>2
  <2> QED BY <2>2, <2>3 DEF NodesMatch, HasDeadline, RecordExpiry
<1>11. expiries' \subseteq [key: Keys, at: Nat]
  <2>1. Node(k, now + TTL) \in [key: Keys, at: Nat]
    BY <1>1, LimitsAssumption DEF Node, VariableTypes
  <2> QED BY <2>1 DEF VariableTypes
<1> QED BY <1>5, <1>6, <1>8, <1>9, <1>10, <1>11 DEF StoreInv

\* The move of a pending record to the replay phase.
LEMMA MarkKeepsStore ==
  ASSUME VariableTypes, StoreInv,
         NEW k \in Stored, entries[k].restoredAt = 0, ReplayTTL > 0,
         entries' = [entries EXCEPT ![k].restoredAt = now],
         expiries' = RemoveNode(k) \cup {Node(k, now + ReplayTTL)},
         UNCHANGED <<bytes, nextVer>>
  PROVE  /\ StoreInv'
         /\ Stored' = Stored
         /\ entries' \in [Keys -> Record]
         /\ expiries' \subseteq [key: Keys, at: Nat]
<1>1. k \in Keys /\ now \in Nat \ {0}
  BY DEF Stored, VariableTypes
<1>2. entries \in [Keys -> Record]
  BY DEF VariableTypes
<1>3. entries' \in [Keys -> Record]
  BY <1>1, <1>2 DEF Record
<1>4. \A j \in Keys \ {k} : entries'[j] = entries[j]
  BY <1>1, <1>2
<1>5. entries'[k] = [entries[k] EXCEPT !.restoredAt = now]
  BY <1>1, <1>2
<1>6. /\ entries'[k].restoredAt = now
      /\ entries'[k].version = entries[k].version
      /\ entries'[k].size = entries[k].size
  BY <1>1, <1>2, <1>5 DEF Record
<1>7. entries'[k] # NoRecord
  BY <1>1, <1>6 DEF NoRecord
<1>8. Stored' = Stored
  BY <1>4, <1>7 DEF Stored
<1>9. StoredVersions'
  <2>1. \A j \in Keys : entries'[j].version = entries[j].version
    BY <1>4, <1>6
  <2> QED BY <1>8, <2>1, StoredSubset DEF StoreInv, StoredVersions
<1>10. BytesAccounted'
  <2>1. \A j \in Stored : Sizes[j] = Sizes'[j]
    BY <1>4, <1>6, StoredSubset DEF Sizes
  <2>2. Total(Stored, Sizes) = Total(Stored, Sizes')
    BY <2>1, TotalSame
  <2>3. Total(Stored', Sizes') = Total(Stored, Sizes')
    BY <1>8
  <2> QED BY <2>2, <2>3 DEF StoreInv, BytesAccounted, BytesOf
<1>11. NodesMatch'
  <2>1. RecordExpiry(entries'[k]) = now + ReplayTTL /\ HasDeadline(entries'[k])
    BY <1>1, <1>6 DEF RecordExpiry, HasDeadline
  <2>2. ASSUME NEW n \in expiries'
        PROVE  /\ n.key \in Stored'
               /\ HasDeadline(entries'[n.key])
               /\ n.at = RecordExpiry(entries'[n.key])
    <3>1. CASE n = Node(k, now + ReplayTTL)
      BY <1>8, <2>1, <3>1 DEF Node
    <3>2. CASE n \in RemoveNode(k)
      <4>1. n \in expiries /\ n.key # k
        BY <3>2 DEF RemoveNode
      <4>2. n.key \in Stored
        BY <4>1 DEF StoreInv, NodesMatch
      <4>3. entries'[n.key] = entries[n.key]
        BY <1>4, <4>1, <4>2, StoredSubset
      <4> QED BY <1>8, <4>1, <4>2, <4>3 DEF StoreInv, NodesMatch
    <3> QED BY <2>2, <3>1, <3>2
  <2>3. ASSUME NEW j \in Stored', HasDeadline(entries'[j])
        PROVE  Node(j, RecordExpiry(entries'[j])) \in expiries'
    <3>1. CASE j = k
      BY <2>1, <3>1
    <3>2. CASE j # k
      <4>1. j \in Stored /\ entries'[j] = entries[j]
        BY <1>4, <1>8, <3>2, StoredSubset
      <4>2. Node(j, RecordExpiry(entries[j])) \in expiries
        BY <2>3, <4>1 DEF StoreInv, NodesMatch
      <4> QED BY <3>2, <4>1, <4>2 DEF RemoveNode, Node
    <3> QED BY <3>1, <3>2
  <2> QED BY <2>2, <2>3 DEF NodesMatch, HasDeadline, RecordExpiry
<1>12. expiries' \subseteq [key: Keys, at: Nat]
  <2>1. Node(k, now + ReplayTTL) \in [key: Keys, at: Nat]
    BY <1>1, LimitsAssumption DEF Node
  <2> QED BY <2>1 DEF VariableTypes, RemoveNode
<1> QED BY <1>3, <1>8, <1>9, <1>10, <1>11, <1>12 DEF StoreInv

----------------------------------------------------------------------------
(* What a step does to the records *)

\* An expired record is evicted by a lookup of its key.
LookupEvicts(k) ==
  /\ k \in Stored /\ IsExpired(entries[k])
  /\ Evict({k}) /\ expiries' = RemoveNode(k)
  /\ nextVer' = nextVer

DrainsBatch == \E B \in Batches : Drain(B, Reclaimed(B)) /\ nextVer' = nextVer

Publishes(c) == \E x \in Extras : Publish(c, MinSize[c] + x)

\* Every step leaves the store alone, evicts, drains, publishes or marks.
LEMMA StoreEffect ==
  ASSUME [Next]_vars
  PROVE  \/ UNCHANGED storeVars
         \/ \E k \in Keys : LookupEvicts(k)
         \/ DrainsBatch
         \/ \E c \in Clients : Publishes(c)
         \/ \E c \in Clients : MarkRestored(c)
<1>1. ASSUME NEW c \in Clients, GetExpired(c) \/ CreateEvicts(c)
      PROVE  LookupEvicts(KeyOf[c]) /\ KeyOf[c] \in Keys
  BY <1>1, KeysAssumption DEF GetExpired, CreateEvicts, LookupEvicts, Stored
<1>2. ASSUME NEW c \in Clients, GetStep(c)
      PROVE  UNCHANGED storeVars \/ \E k \in Keys : LookupEvicts(k)
  BY <1>1, <1>2 DEF GetStep, GetHit
<1>3. ASSUME NEW c \in Clients, EnterStep(c)
      PROVE  UNCHANGED storeVars \/ DrainsBatch \/ \E k \in Keys : LookupEvicts(k)
  BY <1>1, <1>3 DEF EnterStep, CreateCancelled, CreateFindsRecord, CreateWaits,
     BecomeCreator, RefuseReservation, DrainsBatch
<1>4. ASSUME NEW c \in Clients, BuildStep(c)
      PROVE  UNCHANGED storeVars \/ DrainsBatch \/ Publishes(c)
  BY <1>4 DEF BuildStep, BuildFails, RefusePublish, DrainsBatch, Publishes
<1>5. ASSUME NEW c \in Clients,
             \/ Call(c) \/ FinishStep(c) \/ WaitStep(c) \/ WaitCancelled(c)
             \/ WaitTimesOut(c) \/ Cancel(c)
      PROVE  UNCHANGED storeVars
  BY <1>5 DEF Call, FinishStep, FinishPublished, FinishRefused, WaitStep,
     WaitGetsRecord, WaitRetries, WaitGetsError, WaitCancelled, WaitTimesOut,
     WaitEnds, Cancel
<1>6. CASE CleanupTick \/ Tick \/ AllDone \/ UNCHANGED vars
  BY <1>6 DEF CleanupTick, Tick, AllDone, vars, storeVars
<1>7. CASE CleanupBatch
  BY <1>7 DEF CleanupBatch, DrainsBatch
<1> QED BY <1>2, <1>3, <1>4, <1>5, <1>6, <1>7 DEF Next

\* Records, nodes and bytes stay in agreement; only publishing adds a record.
LEMMA StoreStep ==
  ASSUME IInv, [Next]_vars
  PROVE  /\ StoreInv'
         /\ entries' \in [Keys -> Record]
         /\ expiries' \subseteq [key: Keys, at: Nat]
         /\ nextVer' \in Nat
<1> USE DEF IInv
<1>1. StoreInv /\ VariableTypes
  BY DEF StoreInv
<1>2. CASE UNCHANGED storeVars
  BY <1>1, <1>2, SameStore DEF storeVars, VariableTypes
<1>3. CASE \E k \in Keys : LookupEvicts(k)
  <2>1. PICK k \in Keys : LookupEvicts(k)
    BY <1>3
  <2>2. k \in Stored /\ Evict({k}) /\ expiries' = RemoveNode(k) /\ nextVer' = nextVer
    BY <2>1 DEF LookupEvicts
  <2>3. StoreInv' /\ expiries' \subseteq [key: Keys, at: Nat]
    BY <1>1, <2>2, LookupEvictionKeepsStore
  <2>4. entries' \in [Keys -> Record]
    BY <1>1, <2>2, EvictEffect DEF StoreInv
  <2> QED BY <1>1, <2>2, <2>3, <2>4 DEF VariableTypes
<1>4. CASE DrainsBatch
  <2>1. PICK B \in Batches : Drain(B, Reclaimed(B)) /\ nextVer' = nextVer
    BY <1>4 DEF DrainsBatch
  <2>2. StoreInv' /\ expiries' \subseteq [key: Keys, at: Nat]
    BY <1>1, <2>1, DrainKeepsStore
  <2>3. Reclaimed(B) \subseteq Stored /\ Evict(Reclaimed(B))
    BY <2>1 DEF Reclaimed, Drain
  <2>4. entries' \in [Keys -> Record]
    BY <1>1, <2>3, EvictEffect DEF StoreInv
  <2> QED BY <1>1, <2>1, <2>2, <2>4 DEF VariableTypes
<1>5. ASSUME NEW c \in Clients, Publishes(c)
      PROVE  /\ StoreInv'
             /\ entries' \in [Keys -> Record]
             /\ expiries' \subseteq [key: Keys, at: Nat]
             /\ nextVer' \in Nat
  <2>1. PICK x \in Extras : Publish(c, MinSize[c] + x)
    BY <1>5 DEF Publishes
  <2> DEFINE size == MinSize[c] + x
             rec == [version |-> NextVersion, author |-> c, createdAt |-> now,
                     restoredAt |-> 0, size |-> size]
  <2>2. size \in Nat
    BY SizesAssumption
  <2>3. pc[c] = "build"
    BY <2>1 DEF Publish
  <2>4. KeyOf[c] \notin Stored
    BY <2>3 DEF CreatorsMatch, CreatorOwnsKey, Stored
  <2>5. PICK B \in Batches :
          /\ entries' = [Without(Reclaimed(B)) EXCEPT ![KeyOf[c]] = rec]
          /\ bytes' = bytes - BytesOf(Reclaimed(B)) + size
          /\ expiries' = IF TTL > 0
                         THEN (expiries \ B) \cup {Node(KeyOf[c], now + TTL)}
                         ELSE expiries
    BY <2>1 DEF Publish, Queued
  <2>6. nextVer' = NextVersion
    BY <2>1 DEF Publish
  <2>7. rec = [version |-> NextVersion, author |-> c, createdAt |-> now,
               restoredAt |-> 0, size |-> size]
    OBVIOUS
  <2> HIDE DEF rec, size
  <2>8. /\ StoreInv'
        /\ entries' \in [Keys -> Record]
        /\ expiries' \subseteq [key: Keys, at: Nat]
    BY <1>1, <2>2, <2>4, <2>5, <2>6, <2>7, PublishKeepsStore
  <2> QED BY <1>1, <2>6, <2>8 DEF VariableTypes, NextVersion
<1>6. ASSUME NEW c \in Clients, MarkRestored(c)
      PROVE  /\ StoreInv'
             /\ entries' \in [Keys -> Record]
             /\ expiries' \subseteq [key: Keys, at: Nat]
             /\ nextVer' \in Nat
  <2> DEFINE k == KeyOf[c]
  <2>1. /\ k \in Stored /\ entries[k].restoredAt = 0 /\ ReplayTTL > 0
        /\ entries' = [entries EXCEPT ![k].restoredAt = now]
        /\ expiries' = RemoveNode(k) \cup {Node(k, now + ReplayTTL)}
        /\ UNCHANGED <<bytes, nextVer>>
    BY <1>6, KeysAssumption DEF MarkRestored, Marks, Stored
  <2> HIDE DEF k
  <2> QED BY <1>1, <2>1, MarkKeepsStore DEF VariableTypes
<1> QED BY <1>2, <1>3, <1>4, <1>5, <1>6, StoreEffect

----------------------------------------------------------------------------
(* What a step does to the reservations *)

\* A step that neither starts nor ends a build.
KeepsBuilders == Builders' = Builders /\ UNCHANGED reserved

EndsBuild(c) ==
  /\ c \in Builders
  /\ Builders' = Builders \ {c}
  /\ ReleaseReservation(c)

\* Every step keeps who builds, starts one build or ends one.
LEMMA BuilderEffect ==
  ASSUME VariableTypes, [Next]_vars
  PROVE  \/ KeepsBuilders
         \/ \E c \in Clients : BecomeCreator(c)
         \/ \E c \in Clients : EndsBuild(c)
<1> USE DEF KeepsBuilders, Builders, reserved, VariableTypes
<1>1. ASSUME NEW c \in Clients, GetStep(c)
      PROVE  KeepsBuilders
  BY <1>1 DEF GetStep, GetHit, GetExpired, Return, clientVars
<1>2. ASSUME NEW c \in Clients, EnterStep(c)
      PROVE  KeepsBuilders \/ BecomeCreator(c)
  BY <1>2 DEF EnterStep, CreateCancelled, CreateFindsRecord, CreateEvicts,
     CreateWaits, RefuseReservation, Return, clientVars
<1>3. ASSUME NEW c \in Clients, BuildStep(c)
      PROVE  EndsBuild(c)
  BY <1>3 DEF BuildStep, BuildFails, Publish, RefusePublish, Return, Goto, EndsBuild
<1>4. ASSUME NEW c \in Clients, Call(c) \/ FinishStep(c)
      PROVE  KeepsBuilders
  BY <1>4 DEF Call, Goto, FinishStep, FinishPublished, FinishRefused, Return
<1>5. ASSUME NEW c \in Clients,
             WaitStep(c) \/ WaitCancelled(c) \/ WaitTimesOut(c)
      PROVE  KeepsBuilders
  BY <1>5 DEF WaitStep, WaitGetsRecord, WaitRetries, WaitGetsError,
     WaitCancelled, WaitTimesOut, WaitEnds, Return
<1>6. ASSUME NEW c \in Clients, MarkRestored(c) \/ Cancel(c)
      PROVE  KeepsBuilders
  BY <1>6 DEF MarkRestored, Cancel
<1>7. CASE CleanupTick \/ CleanupBatch \/ Tick \/ AllDone \/ UNCHANGED vars
  BY <1>7 DEF CleanupTick, CleanupBatch, Tick, AllDone, vars, clientVars
<1> QED BY <1>1, <1>2, <1>3, <1>4, <1>5, <1>6, <1>7 DEF Next

\* The reservation counters follow the builders.
LEMMA ReserveStep ==
  ASSUME IInv, [Next]_vars
  PROVE  ReservationsAccounted'
<1> USE DEF IInv
<1>0. /\ reservedEntries = Cardinality(Builders)
      /\ reservedBytes = Total(Builders, ReservedBy)
      /\ IsFiniteSet(Builders)
      /\ \A c \in Clients : ReservedBy[c] = Reserve(c) /\ Reserve(c) \in Nat
  BY StoredFinite, ReserveType DEF ReservationsAccounted, ReservedBy
<1>1. CASE KeepsBuilders
  BY <1>0, <1>1 DEF KeepsBuilders, reserved, ReservationsAccounted
<1>2. ASSUME NEW c \in Clients, BecomeCreator(c)
      PROVE  ReservationsAccounted'
  <2>1. c \notin Builders /\ Builders' = Builders \cup {c}
    BY <1>2 DEF BecomeCreator, Goto, Builders, VariableTypes
  <2>2. /\ reservedBytes' = reservedBytes + Reserve(c)
        /\ reservedEntries' = reservedEntries + 1
    BY <1>2 DEF BecomeCreator
  <2>3. Cardinality(Builders \cup {c}) = Cardinality(Builders) + 1
    BY <1>0, <2>1, FS_AddElement
  <2>4. \A d \in Builders \cup {c} : ReservedBy[d] \in Nat
    BY ReserveType DEF Builders
  <2>5. Total(Builders \cup {c}, ReservedBy)
          = Total(Builders, ReservedBy) + ReservedBy[c]
    BY <1>0, <2>1, <2>4, TotalAdd
  <2>6. Total(Builders', ReservedBy) = Total(Builders \cup {c}, ReservedBy)
        /\ Cardinality(Builders') = Cardinality(Builders \cup {c})
    BY <2>1
  <2> QED BY <1>0, <2>2, <2>3, <2>5, <2>6 DEF ReservationsAccounted
<1>3. ASSUME NEW c \in Clients, EndsBuild(c)
      PROVE  ReservationsAccounted'
  <2>1. c \in Builders /\ Builders' = Builders \ {c}
    BY <1>3 DEF EndsBuild
  <2>2. /\ reservedBytes' = reservedBytes - Reserve(c)
        /\ reservedEntries' = reservedEntries - 1
    BY <1>3 DEF EndsBuild, ReleaseReservation
  <2>3. Cardinality(Builders \ {c}) = Cardinality(Builders) - 1
    BY <1>0, <2>1, FS_RemoveElement
  <2>4. \A d \in Builders : ReservedBy[d] \in Nat
    BY ReserveType DEF Builders
  <2>5. Total(Builders \ {c}, ReservedBy)
          = Total(Builders, ReservedBy) - ReservedBy[c]
    BY <1>0, <2>1, <2>4, TotalRemove
  <2>6. Total(Builders', ReservedBy) = Total(Builders \ {c}, ReservedBy)
        /\ Cardinality(Builders') = Cardinality(Builders \ {c})
    BY <2>1
  <2> QED BY <1>0, <2>2, <2>3, <2>5, <2>6 DEF ReservationsAccounted
<1> QED BY <1>1, <1>2, <1>3, BuilderEffect

----------------------------------------------------------------------------
(* What a step does to the creators and the waiters *)

\* A key without a record gets one only from the builder of that key.
LEMMA AbsentKeys ==
  ASSUME IInv, [Next]_vars, NEW k \in Keys, entries[k] = NoRecord
  PROVE  \/ entries'[k] = NoRecord
         \/ \E c \in Clients : KeyOf[c] = k /\ pc[c] = "build" /\ pc'[c] = "published"
<1> USE DEF IInv, VariableTypes
<1>1. CASE UNCHANGED storeVars
  BY <1>1 DEF storeVars
<1>2. CASE \E j \in Keys : LookupEvicts(j)
  BY <1>2 DEF LookupEvicts, Evict, Without
<1>3. CASE DrainsBatch
  BY <1>3 DEF DrainsBatch, Drain, Evict, Without
<1>4. ASSUME NEW c \in Clients, Publishes(c)
      PROVE  \/ entries'[k] = NoRecord
             \/ KeyOf[c] = k /\ pc[c] = "build" /\ pc'[c] = "published"
  BY <1>4 DEF Publishes, Publish, Without
<1>5. ASSUME NEW c \in Clients, MarkRestored(c)
      PROVE  entries'[k] = NoRecord
  BY <1>5 DEF MarkRestored, Marks
<1> QED BY <1>1, <1>2, <1>3, <1>4, <1>5, StoreEffect

\* Steps that change neither the mapping of creators nor who builds, publishes
\* or finishes.
KeepsCreators ==
  /\ UNCHANGED inflight
  /\ \A d \in Clients : \/ pc'[d] = pc[d]
                        \/ /\ pc[d] \notin {"build", "published", "refused"}
                           /\ pc'[d] \notin {"build", "published"}

\* Steps that take the creator c out of the mapping, or out of its build.
EndsCreation(c) ==
  /\ pc[c] \in {"build", "published", "refused"}
  /\ Unmap(c)
  /\ pc'[c] \in {"refused", "done"}
  /\ \A d \in Clients \ {c} : pc'[d] = pc[d]

PublishesAs(c) ==
  /\ pc[c] = "build" /\ pc'[c] = "published"
  /\ UNCHANGED inflight
  /\ \A d \in Clients \ {c} : pc'[d] = pc[d]

\* A request that neither becomes a creator nor is one.
LEMMA OtherSteps ==
  ASSUME VariableTypes, NEW c \in Clients,
         \/ GetStep(c) \/ Call(c) \/ WaitStep(c) \/ WaitCancelled(c)
         \/ WaitTimesOut(c) \/ MarkRestored(c) \/ Cancel(c)
  PROVE  KeepsCreators
<1> USE DEF KeepsCreators, VariableTypes
<1>1. CASE GetStep(c)
  BY <1>1 DEF GetStep, GetHit, GetExpired, Return, clientVars
<1>2. CASE Call(c) \/ WaitStep(c) \/ WaitCancelled(c) \/ WaitTimesOut(c)
  BY <1>2 DEF Call, Goto, WaitStep, WaitGetsRecord, WaitRetries, WaitGetsError,
     WaitCancelled, WaitTimesOut, WaitEnds, Return
<1>3. CASE MarkRestored(c) \/ Cancel(c)
  BY <1>3 DEF MarkRestored, Cancel
<1> QED BY <1>1, <1>2, <1>3

\* The first critical section of Create may make a creator.
LEMMA EnterSteps ==
  ASSUME VariableTypes, NEW c \in Clients, EnterStep(c)
  PROVE  KeepsCreators \/ BecomeCreator(c)
BY DEF KeepsCreators, VariableTypes, EnterStep, CreateCancelled, CreateFindsRecord,
   CreateEvicts, CreateWaits, RefuseReservation, Return, clientVars

\* A creator publishes, or its creation ends.
LEMMA PublishSteps ==
  ASSUME VariableTypes, NEW c \in Clients, NEW size, Publish(c, size)
  PROVE  PublishesAs(c)
BY DEF VariableTypes, Publish, PublishesAs

\* A failed build, a refused record and the wake-up each end a creation.
LEMMA EndingSteps ==
  ASSUME VariableTypes, NEW c \in Clients,
         \/ \E err : BuildFails(c, err)
         \/ \E size : RefusePublish(c, size)
         \/ FinishStep(c)
  PROVE  EndsCreation(c)
<1> USE DEF VariableTypes, EndsCreation
<1>1. ASSUME NEW err, BuildFails(c, err)
      PROVE  EndsCreation(c)
  BY <1>1 DEF BuildFails, Return
<1>2. ASSUME NEW size, RefusePublish(c, size)
      PROVE  EndsCreation(c)
  BY <1>2 DEF RefusePublish, Goto
<1>3. CASE FinishStep(c)
  BY <1>3 DEF FinishStep, FinishPublished, FinishRefused, Return
<1> QED BY <1>1, <1>2, <1>3

\* The cleanup and the clock make no creator.
LEMMA BackgroundSteps ==
  ASSUME CleanupTick \/ CleanupBatch \/ Tick \/ AllDone \/ UNCHANGED vars
  PROVE  KeepsCreators
BY DEF KeepsCreators, CleanupTick, CleanupBatch, Tick, AllDone, vars, clientVars

\* Every step leaves the creators alone, makes one, or takes one out.
LEMMA CreatorEffect ==
  ASSUME VariableTypes, [Next]_vars
  PROVE  \/ KeepsCreators
         \/ \E c \in Clients : BecomeCreator(c)
         \/ \E c \in Clients : PublishesAs(c)
         \/ \E c \in Clients : EndsCreation(c)
<1>1. ASSUME NEW c \in Clients, BuildStep(c)
      PROVE  PublishesAs(c) \/ EndsCreation(c)
  BY <1>1, PublishSteps, EndingSteps DEF BuildStep
<1>2. ASSUME NEW c \in Clients, FinishStep(c)
      PROVE  EndsCreation(c)
  BY <1>2, EndingSteps
<1> QED BY <1>1, <1>2, OtherSteps, EnterSteps, BackgroundSteps DEF Next

\* At most one client works on a key as its creator, and it is the mapped one.
LEMMA CreatorStep ==
  ASSUME IInv, [Next]_vars
  PROVE  CreatorsMatch'
<1> USE DEF IInv, VariableTypes
<1>1. \A k \in Keys : inflight[k] # NoClient =>
        inflight[k] \in Clients /\ KeyOf[inflight[k]] = k
          /\ pc[inflight[k]] \in {"build", "published"}
  BY DEF CreatorsMatch
<1>2. \A c \in Clients : pc[c] = "build" =>
        inflight[KeyOf[c]] = c /\ entries[KeyOf[c]] = NoRecord
  BY DEF CreatorsMatch, CreatorOwnsKey
<1>3. \A c \in Clients : KeyOf[c] \in Keys
  BY KeysAssumption
\* A key whose record is absent before the step stays absent for its builder.
<1>4. ASSUME NEW c \in Clients, pc'[c] = "build", entries[KeyOf[c]] = NoRecord,
             \A d \in Clients : pc[d] = "build" /\ KeyOf[d] = KeyOf[c] => d = c
      PROVE  entries'[KeyOf[c]] = NoRecord
  BY <1>3, <1>4, AbsentKeys
<1>5. \A c, d \in Clients : pc[c] = "build" /\ pc[d] = "build" /\ KeyOf[d] = KeyOf[c]
                              => d = c
  BY <1>2
<1>6. ASSUME NEW c \in Clients, pc[c] = "build", pc'[c] = "build"
      PROVE  entries'[KeyOf[c]] = NoRecord
  BY <1>2, <1>4, <1>5, <1>6
<1>7. CASE KeepsCreators
  <2>1. \A k \in Keys : inflight'[k] # NoClient =>
          inflight'[k] \in Clients /\ KeyOf[inflight'[k]] = k
            /\ pc'[inflight'[k]] \in {"build", "published"}
    BY <1>1, <1>7 DEF KeepsCreators
  <2>2. \A c \in Clients : pc'[c] = "build" =>
          inflight'[KeyOf[c]] = c /\ entries'[KeyOf[c]] = NoRecord
    BY <1>2, <1>6, <1>7 DEF KeepsCreators
  <2> QED BY <2>1, <2>2 DEF CreatorsMatch, CreatorOwnsKey
<1>8. ASSUME NEW c \in Clients, BecomeCreator(c)
      PROVE  CreatorsMatch'
  <2>1. /\ inflight' = [inflight EXCEPT ![KeyOf[c]] = c]
        /\ pc' = [pc EXCEPT ![c] = "build"]
        /\ entries[KeyOf[c]] = NoRecord /\ inflight[KeyOf[c]] = NoClient
        /\ pc[c] = "enter"
    BY <1>8 DEF BecomeCreator, Goto, MayCreate
  <2>2. \A k \in Keys : inflight'[k] # NoClient =>
          inflight'[k] \in Clients /\ KeyOf[inflight'[k]] = k
            /\ pc'[inflight'[k]] \in {"build", "published"}
    BY <1>1, <1>3, <2>1
  <2>3. entries'[KeyOf[c]] = NoRecord
    <3>1. \A d \in Clients : pc[d] = "build" => KeyOf[d] # KeyOf[c]
      BY <1>2, <2>1, KeysAssumption
    <3> QED BY <1>3, <2>1, <3>1, AbsentKeys
  <2>4. \A d \in Clients : pc'[d] = "build" =>
          inflight'[KeyOf[d]] = d /\ entries'[KeyOf[d]] = NoRecord
    BY <1>2, <1>3, <1>6, <2>1, <2>3, KeysAssumption
  <2> QED BY <2>2, <2>4 DEF CreatorsMatch, CreatorOwnsKey
<1>9. ASSUME NEW c \in Clients, PublishesAs(c)
      PROVE  CreatorsMatch'
  <2>1. \A k \in Keys : inflight'[k] # NoClient =>
          inflight'[k] \in Clients /\ KeyOf[inflight'[k]] = k
            /\ pc'[inflight'[k]] \in {"build", "published"}
    BY <1>1, <1>9 DEF PublishesAs
  <2>2. \A d \in Clients : pc'[d] = "build" =>
          inflight'[KeyOf[d]] = d /\ entries'[KeyOf[d]] = NoRecord
    BY <1>2, <1>6, <1>9 DEF PublishesAs
  <2> QED BY <2>1, <2>2 DEF CreatorsMatch, CreatorOwnsKey
<1>10. ASSUME NEW c \in Clients, EndsCreation(c)
       PROVE  CreatorsMatch'
  <2>1. \A k \in Keys : inflight'[k] = IF k = KeyOf[c] /\ inflight[k] = c
                                       THEN NoClient ELSE inflight[k]
    BY <1>3, <1>10 DEF EndsCreation, Unmap
  <2>2. \A k \in Keys : inflight'[k] # NoClient => inflight'[k] # c
    BY <1>1, <2>1
  <2>3. \A k \in Keys : inflight'[k] # NoClient =>
          inflight'[k] \in Clients /\ KeyOf[inflight'[k]] = k
            /\ pc'[inflight'[k]] \in {"build", "published"}
    BY <1>1, <1>10, <2>1, <2>2 DEF EndsCreation
  <2>4. \A d \in Clients : pc'[d] = "build" =>
          inflight'[KeyOf[d]] = d /\ entries'[KeyOf[d]] = NoRecord
    BY <1>2, <1>3, <1>6, <1>10, <2>1 DEF EndsCreation
  <2> QED BY <2>3, <2>4 DEF CreatorsMatch, CreatorOwnsKey
<1> QED BY <1>7, <1>8, <1>9, <1>10, CreatorEffect

\* The creators that still have to close their done channel.
Delivering == {"build", "published", "refused"}

\* A closed done channel stays closed, and no creator stops delivering without
\* closing its own.
LEMMA DeliveryEffect ==
  ASSUME VariableTypes, [Next]_vars, NEW w \in Clients,
         infs[w].done \/ pc[w] \in Delivering
  PROVE  infs'[w].done \/ pc'[w] \in Delivering
<1> USE DEF VariableTypes, Delivering
<1>1. ASSUME NEW c \in Clients, GetStep(c)
      PROVE  infs'[w].done \/ pc'[w] \in Delivering
  BY <1>1 DEF GetStep, GetHit, GetExpired, Return, clientVars
<1>2. ASSUME NEW c \in Clients, EnterStep(c)
      PROVE  infs'[w].done \/ pc'[w] \in Delivering
  BY <1>2 DEF EnterStep, CreateCancelled, CreateFindsRecord, CreateEvicts,
     CreateWaits, BecomeCreator, RefuseReservation, Return, Goto, clientVars
<1>3. ASSUME NEW c \in Clients, BuildStep(c)
      PROVE  infs'[w].done \/ pc'[w] \in Delivering
  <2>1. ASSUME NEW err, BuildFails(c, err)
        PROVE  infs'[w].done \/ pc'[w] \in Delivering
    <3>1. infs' = [infs EXCEPT ![c] = [done |-> TRUE, rec |-> NoRecord, err |-> err]]
          /\ pc' = [pc EXCEPT ![c] = "done"]
      BY <2>1 DEF BuildFails, Wake, Return
    <3> QED BY <3>1
  <2>2. ASSUME NEW size, Publish(c, size) \/ RefusePublish(c, size)
        PROVE  infs'[w].done \/ pc'[w] \in Delivering
    <3>1. infs' = infs
          /\ \/ pc' = [pc EXCEPT ![c] = "published"]
             \/ pc' = [pc EXCEPT ![c] = "refused"]
      BY <2>2 DEF Publish, RefusePublish, Goto
    <3> QED BY <3>1
  <2> QED BY <1>3, <2>1, <2>2 DEF BuildStep
<1>4. ASSUME NEW c \in Clients, FinishStep(c)
      PROVE  infs'[w].done \/ pc'[w] \in Delivering
  BY <1>4 DEF FinishStep, FinishPublished, FinishRefused, Return, Wake, Inflight
<1>5. ASSUME NEW c \in Clients,
             Call(c) \/ WaitStep(c) \/ WaitCancelled(c) \/ WaitTimesOut(c)
      PROVE  infs'[w].done \/ pc'[w] \in Delivering
  BY <1>5 DEF Call, Goto, WaitStep, WaitGetsRecord, WaitRetries, WaitGetsError,
     WaitCancelled, WaitTimesOut, WaitEnds, Return
<1>6. ASSUME NEW c \in Clients, MarkRestored(c) \/ Cancel(c)
      PROVE  infs'[w].done \/ pc'[w] \in Delivering
  BY <1>6 DEF MarkRestored, Cancel
<1>7. CASE CleanupTick \/ CleanupBatch \/ Tick \/ AllDone \/ UNCHANGED vars
  BY <1>7 DEF CleanupTick, CleanupBatch, Tick, AllDone, vars, clientVars
<1> QED BY <1>1, <1>2, <1>3, <1>4, <1>5, <1>6, <1>7 DEF Next

\* A client comes to wait only by finding a mapped creator.
LEMMA WaitEffect ==
  ASSUME VariableTypes, [Next]_vars, NEW d \in Clients, pc'[d] = "wait"
  PROVE  \/ pc[d] = "wait" /\ waitOn'[d] = waitOn[d]
         \/ CreateWaits(d)
<1> USE DEF VariableTypes
<1>1. ASSUME NEW c \in Clients, GetStep(c)
      PROVE  pc[d] = "wait" /\ waitOn'[d] = waitOn[d]
  BY <1>1 DEF GetStep, GetHit, GetExpired, Return, clientVars
<1>2. ASSUME NEW c \in Clients, EnterStep(c)
      PROVE  \/ pc[d] = "wait" /\ waitOn'[d] = waitOn[d]
             \/ CreateWaits(d)
  <2>1. CASE CreateWaits(c)
    BY <2>1 DEF CreateWaits
  <2> QED BY <1>2, <2>1 DEF EnterStep, CreateCancelled, CreateFindsRecord,
     CreateEvicts, BecomeCreator, RefuseReservation, Return, Goto, clientVars
<1>3. ASSUME NEW c \in Clients, BuildStep(c) \/ FinishStep(c)
      PROVE  pc[d] = "wait" /\ waitOn'[d] = waitOn[d]
  BY <1>3 DEF BuildStep, BuildFails, Publish, RefusePublish, Return, Goto,
     FinishStep, FinishPublished, FinishRefused
<1>4. ASSUME NEW c \in Clients,
             Call(c) \/ WaitStep(c) \/ WaitCancelled(c) \/ WaitTimesOut(c)
      PROVE  pc[d] = "wait" /\ waitOn'[d] = waitOn[d]
  BY <1>4 DEF Call, Goto, WaitStep, WaitGetsRecord, WaitRetries, WaitGetsError,
     WaitCancelled, WaitTimesOut, WaitEnds, Return
<1>5. ASSUME NEW c \in Clients, MarkRestored(c) \/ Cancel(c)
      PROVE  pc[d] = "wait" /\ waitOn'[d] = waitOn[d]
  BY <1>5 DEF MarkRestored, Cancel
<1>6. CASE CleanupTick \/ CleanupBatch \/ Tick \/ AllDone \/ UNCHANGED vars
  BY <1>6 DEF CleanupTick, CleanupBatch, Tick, AllDone, vars, clientVars
<1> QED BY <1>1, <1>2, <1>3, <1>4, <1>5, <1>6 DEF Next

\* No step loses a waiter: the creator it blocks on delivers or has delivered.
LEMMA WaiterStep ==
  ASSUME IInv, [Next]_vars
  PROVE  NoLostWaiter'
<1> USE DEF IInv
<1> SUFFICES ASSUME NEW d \in Clients, pc'[d] = "wait"
             PROVE  /\ waitOn'[d] # NoClient
                    /\ \/ infs'[waitOn'[d]].done
                       \/ pc'[waitOn'[d]] \in Delivering
  BY DEF NoLostWaiter, Delivering
<1>1. CASE pc[d] = "wait" /\ waitOn'[d] = waitOn[d]
  <2>1. /\ waitOn[d] \in Clients
        /\ infs[waitOn[d]].done \/ pc[waitOn[d]] \in Delivering
    BY <1>1 DEF NoLostWaiter, Delivering, VariableTypes
  <2> QED BY <1>1, <2>1, DeliveryEffect, KeysAssumption
<1>2. CASE CreateWaits(d)
  <2>1. /\ waitOn'[d] = inflight[KeyOf[d]]
        /\ inflight[KeyOf[d]] # NoClient /\ KeyOf[d] \in Keys
    BY <1>2, KeysAssumption DEF CreateWaits, VariableTypes
  <2>2. inflight[KeyOf[d]] \in Clients /\ pc[inflight[KeyOf[d]]] \in Delivering
    BY <2>1 DEF CreatorsMatch, Delivering
  <2> QED BY <2>1, <2>2, DeliveryEffect, KeysAssumption
<1> QED BY <1>1, <1>2, WaitEffect

----------------------------------------------------------------------------
(* What a step does to the budget *)

\* The stored records are at most those the step started with, and one more for
\* a publication.
LEMMA StoredBound ==
  ASSUME IInv, [Next]_vars
  PROVE  \/ Stored' \subseteq Stored /\ bytes' <= bytes
         \/ \E c \in Clients : Publishes(c)
<1> USE DEF IInv
<1>1. bytes \in Nat
  BY CounterTypes DEF TypeOK
<1>2. CASE UNCHANGED storeVars
  BY <1>1, <1>2 DEF storeVars, Stored
<1>3. CASE \E k \in Keys : LookupEvicts(k)
  BY <1>3, EvictEffect DEF LookupEvicts
<1>4. CASE DrainsBatch
  <2>1. PICK B \in Batches : Drain(B, Reclaimed(B))
    BY <1>4 DEF DrainsBatch
  <2>2. Reclaimed(B) \subseteq Stored /\ Evict(Reclaimed(B))
    BY <2>1 DEF Drain, Reclaimed
  <2>3. Stored' = Stored \ Reclaimed(B) /\ bytes' <= bytes
    BY <2>2, EvictEffect
  <2> QED BY <2>3
<1>5. ASSUME NEW c \in Clients, MarkRestored(c)
      PROVE  Stored' \subseteq Stored /\ bytes' <= bytes
  <2>1. bytes' = bytes
    BY <1>5 DEF MarkRestored
  <2>2. \A k \in Keys : entries[k] = NoRecord => entries'[k] = NoRecord
    BY <1>5 DEF MarkRestored, Marks, VariableTypes
  <2> QED BY <1>1, <2>1, <2>2 DEF Stored
<1> QED BY <1>2, <1>3, <1>4, <1>5, StoreEffect

\* Two parts that do not grow keep their sum below a limit.
LEMMA SumsBelow ==
  \A a, b, c, d, limit \in Nat : a + b <= limit /\ c <= a /\ d <= b => c + d <= limit
OBVIOUS

\* Reserving and publishing look at the limits first, and nothing else adds to
\* what they bound.
LEMMA LimitStep ==
  ASSUME IInv, [Next]_vars
  PROVE  CountersWithinLimits'
<1> USE DEF IInv
<1>0. /\ bytes \in Nat /\ reservedBytes \in Nat /\ reservedEntries \in Nat
      /\ \A c \in Clients : Reserve(c) \in Nat
      /\ IsFiniteSet(Stored) /\ Cardinality(Stored) \in Nat
      /\ MaxEntries \in Nat /\ MaxBytes \in Nat
  BY CounterTypes, ReserveType, StoredFinite, FS_CardinalityType, LimitsAssumption
     DEF TypeOK
<1>1. /\ bytes' \in Nat /\ reservedBytes' \in Nat /\ reservedEntries' \in Nat
  <2>1. ReservationsAccounted'
    BY ReserveStep
  <2>2. reservedBytes' \in Nat /\ reservedEntries' \in Nat
    <3>1. \A c \in Builders' : ReservedBy[c] \in Nat
      BY ReserveType DEF Builders
    <3>2. IsFiniteSet(Builders')
      BY KeysAssumption, FS_Subset DEF Builders
    <3>3. Total(Builders', ReservedBy) \in Nat /\ Cardinality(Builders') \in Nat
      BY <3>1, <3>2, TotalType, FS_CardinalityType
    <3> QED BY <2>1, <3>3 DEF ReservationsAccounted
  <2>3. bytes' \in Nat
    <3>1. BytesAccounted' /\ entries' \in [Keys -> Record]
      BY StoreStep DEF StoreInv
    <3>2. \A k \in Stored' : Sizes'[k] \in Nat
      BY <3>1 DEF Stored, Sizes, Record
    <3>3. IsFiniteSet(Stored')
      BY KeysAssumption, FS_Subset DEF Stored
    <3>4. Total(Stored', Sizes') \in Nat
      BY <3>2, <3>3, TotalType
    <3> QED BY <3>1, <3>4 DEF BytesAccounted, BytesOf
  <2> QED BY <2>2, <2>3
<1>2. ASSUME Stored' \subseteq Stored
      PROVE  Cardinality(Stored') \in Nat /\ Cardinality(Stored') <= Cardinality(Stored)
  BY <1>0, <1>2, FS_Subset, FS_CardinalityType
<1>3. CASE Stored' \subseteq Stored /\ bytes' <= bytes
           /\ ~(\E c \in Clients : BecomeCreator(c))
  <2>1. reservedBytes' <= reservedBytes /\ reservedEntries' <= reservedEntries
    BY <1>0, <1>3, BuilderEffect DEF KeepsBuilders, reserved, EndsBuild,
       ReleaseReservation
  <2>2. Cardinality(Stored') \in Nat /\ Cardinality(Stored') <= Cardinality(Stored)
    BY <1>2, <1>3
  <2>3. ASSUME MaxEntries > 0
        PROVE  Cardinality(Stored') + reservedEntries' <= MaxEntries
    <3>1. Cardinality(Stored) + reservedEntries <= MaxEntries
      BY <2>3 DEF CountersWithinLimits
    <3> QED BY <1>0, <1>1, <2>1, <2>2, <3>1
  <2>4. ASSUME MaxBytes > 0
        PROVE  bytes' + reservedBytes' <= MaxBytes
    <3>1. bytes + reservedBytes <= MaxBytes
      BY <2>4 DEF CountersWithinLimits
    <3>2. bytes \in Nat /\ reservedBytes \in Nat /\ MaxBytes \in Nat
      BY <1>0
    <3>3. bytes' <= bytes
      BY <1>3
    <3>4. bytes' \in Nat /\ reservedBytes' \in Nat /\ reservedBytes' <= reservedBytes
      BY <1>1, <2>1
    <3> QED BY <3>1, <3>2, <3>3, <3>4, SumsBelow
  <2> QED BY <2>3, <2>4 DEF CountersWithinLimits
<1>4. ASSUME NEW c \in Clients, BecomeCreator(c)
      PROVE  CountersWithinLimits'
  <2>1. PICK B \in Batches : RoomToReserve(Reclaimed(B), c) /\ Drain(B, Reclaimed(B))
    BY <1>4 DEF BecomeCreator
  <2>2. /\ reservedBytes' = reservedBytes + Reserve(c)
        /\ reservedEntries' = reservedEntries + 1
    BY <1>4 DEF BecomeCreator
  <2>3. Stored' = Stored \ Reclaimed(B)
    BY <2>1, EvictEffect DEF Drain, Reclaimed
  <2>4. Cardinality(Stored') = Cardinality(Stored \ Reclaimed(B))
    BY <2>3
  <2>5. Cardinality(Stored \ Reclaimed(B)) \in Nat
    BY <1>0, FS_Subset, FS_CardinalityType
  <2>6. bytes' = bytes - BytesOf(Reclaimed(B))
    BY <2>1 DEF Drain, Evict
  <2>7. MaxEntries > 0 => Cardinality(Stored') + reservedEntries' <= MaxEntries
    BY <1>0, <2>1, <2>2, <2>4, <2>5 DEF RoomToReserve
  <2>8. BytesOf(Reclaimed(B)) \in Nat
    <3>1. Reclaimed(B) \in SUBSET Keys
      BY DEF Reclaimed, Stored
    <3> QED BY <3>1, BytesType
  <2>9. MaxBytes > 0 => bytes' + reservedBytes' <= MaxBytes
    BY <1>0, <2>1, <2>2, <2>6, <2>8 DEF RoomToReserve
  <2> QED BY <2>7, <2>9 DEF CountersWithinLimits
<1>5. ASSUME NEW c \in Clients, Publishes(c)
      PROVE  CountersWithinLimits'
  <2>1. PICK x \in Extras : Publish(c, MinSize[c] + x)
    BY <1>5 DEF Publishes
  <2> DEFINE size == MinSize[c] + x
  <2>2. size \in Nat
    BY SizesAssumption
  <2> HIDE DEF size
  <2>3. PICK B \in Batches :
          /\ RoomToPublish(Reclaimed(B), c, size)
          /\ bytes' = bytes - BytesOf(Reclaimed(B)) + size
    BY <2>1 DEF Publish, size
  <2>4. /\ reservedBytes' = reservedBytes - Reserve(c)
        /\ reservedEntries' = reservedEntries - 1
    BY <2>1 DEF Publish, ReleaseReservation
  <2>5. Stored' \subseteq Stored \cup {KeyOf[c]}
    <3>1. pc[c] = "build"
      BY <2>1 DEF Publish
    <3>2. \A k \in Keys : entries[k] = NoRecord /\ k # KeyOf[c] => entries'[k] = NoRecord
      <4>1. \E A \in Batches : \E rec :
              entries' = [Without(Reclaimed(A)) EXCEPT ![KeyOf[c]] = rec]
        BY <2>1 DEF Publish
      <4> QED BY <4>1 DEF Without
    <3> QED BY <3>2 DEF Stored
  <2>6. /\ Cardinality(Stored') \in Nat
        /\ Cardinality(Stored') <= Cardinality(Stored) + 1
    <3>1. IsFiniteSet(Stored \cup {KeyOf[c]})
          /\ Cardinality(Stored \cup {KeyOf[c]}) <= Cardinality(Stored) + 1
          /\ Cardinality(Stored \cup {KeyOf[c]}) \in Nat
      <4>1. CASE KeyOf[c] \in Stored
        <5>1. Stored \cup {KeyOf[c]} = Stored
          BY <4>1
        <5>2. /\ IsFiniteSet(Stored \cup {KeyOf[c]}) = IsFiniteSet(Stored)
              /\ Cardinality(Stored \cup {KeyOf[c]}) = Cardinality(Stored)
          BY <5>1
        <5> QED BY <1>0, <5>2
      <4>2. CASE KeyOf[c] \notin Stored
        BY <1>0, <4>2, FS_AddElement
      <4> QED BY <4>1, <4>2
    <3>2. IsFiniteSet(Stored') /\ Cardinality(Stored') <= Cardinality(Stored \cup {KeyOf[c]})
      BY <2>5, <3>1, FS_Subset
    <3>3. Cardinality(Stored') \in Nat
      BY <3>2, FS_CardinalityType
    <3> QED BY <1>0, <3>1, <3>2, <3>3
  <2>7. BytesOf(Reclaimed(B)) \in Nat
    <3>1. Reclaimed(B) \in SUBSET Keys
      BY DEF Reclaimed, Stored
    <3> QED BY <3>1, BytesType
  <2>8. MaxBytes > 0 => bytes' + reservedBytes' <= MaxBytes
    BY <1>0, <2>2, <2>3, <2>4, <2>7 DEF RoomToPublish
  <2>9. MaxEntries > 0 => Cardinality(Stored') + reservedEntries' <= MaxEntries
    BY <1>0, <2>4, <2>6 DEF CountersWithinLimits
  <2> QED BY <2>8, <2>9 DEF CountersWithinLimits
<1> QED BY <1>3, <1>4, <1>5, StoredBound

----------------------------------------------------------------------------
(* Types *)

\* The part of VariableTypes that is about one request.
ClientTypes ==
  /\ pc \in [Clients -> {"idle", "enter", "wait", "build",
                         "published", "refused", "done"}]
  /\ cancelled \in [Clients -> BOOLEAN]
  /\ waitOn \in [Clients -> Clients \cup {NoClient}]
  /\ ret \in [Clients -> Outcomes]
  /\ held \in [Clients -> Record]

\* The part that is about creators and the cleanup.
StructTypes ==
  /\ now \in Nat \ {0}
  /\ inflight \in [Keys -> Clients \cup {NoClient}]
  /\ infs \in [Clients -> Inflight]
  /\ cleaner \in {"waiting", "draining"}

\* The zero Record is a Record.
LEMMA NoRecordType == NoRecord \in Record
BY DEF NoRecord, Record

\* An answer keeps the types of the client that gets it.
LEMMA ReturnTypes ==
  ASSUME VariableTypes, NEW c \in Clients, NEW outcome \in Outcomes,
         NEW rec \in Record, Return(c, outcome, rec)
  PROVE  ClientTypes'
BY DEF Return, VariableTypes, ClientTypes

\* Closing a done channel keeps the types of the structs.
LEMMA WakeTypes ==
  ASSUME VariableTypes, NEW c \in Clients, NEW rec \in Record, NEW err \in Errors,
         Wake(c, rec, err)
  PROVE  infs' \in [Clients -> Inflight]
BY DEF Wake, VariableTypes, Inflight

\* So does deleting the mapping of a key.
LEMMA UnmapTypes ==
  ASSUME VariableTypes, NEW c \in Clients, Unmap(c)
  PROVE  inflight' \in [Keys -> Clients \cup {NoClient}]
BY DEF Unmap, VariableTypes

\* What every step does to a request has the right type.
LEMMA ClientTypeStep ==
  ASSUME IInv, [Next]_vars
  PROVE  ClientTypes'
<1> USE DEF IInv
<1>0. VariableTypes /\ ClientTypes
  BY DEF VariableTypes, ClientTypes
<1>1. ASSUME NEW c \in Clients, GetStep(c) \/ Call(c)
      PROVE  ClientTypes'
  <2>1. CASE GetHit(c)
    <3>1. entries[KeyOf[c]] \in Record
      BY KeysAssumption DEF VariableTypes
    <3> QED BY <1>0, <2>1, <3>1, ReturnTypes DEF GetHit, Outcomes
  <2>2. CASE GetExpired(c)
    BY <1>0, <2>2 DEF GetExpired, clientVars, ClientTypes
  <2>3. CASE Call(c)
    BY <1>0, <2>3 DEF Call, Goto, ClientTypes
  <2> QED BY <1>1, <2>1, <2>2, <2>3 DEF GetStep
<1>2. ASSUME NEW c \in Clients, EnterStep(c)
      PROVE  ClientTypes'
  <2>1. CASE CreateCancelled(c)
    BY <1>0, <2>1, NoRecordType, ReturnTypes DEF CreateCancelled, Outcomes
  <2>2. CASE CreateFindsRecord(c)
    <3>1. entries[KeyOf[c]] \in Record
      BY KeysAssumption DEF VariableTypes
    <3> QED BY <1>0, <2>2, <3>1, ReturnTypes DEF CreateFindsRecord, Outcomes
  <2>3. CASE CreateEvicts(c)
    BY <1>0, <2>3 DEF CreateEvicts, clientVars, ClientTypes
  <2>4. CASE CreateWaits(c)
    <3>1. inflight[KeyOf[c]] \in Clients \cup {NoClient}
      BY KeysAssumption DEF VariableTypes
    <3> QED BY <1>0, <2>4, <3>1 DEF CreateWaits, ClientTypes
  <2>5. CASE BecomeCreator(c)
    BY <1>0, <2>5 DEF BecomeCreator, Goto, ClientTypes
  <2>6. CASE RefuseReservation(c)
    BY <1>0, <2>6, NoRecordType, ReturnTypes DEF RefuseReservation, Outcomes
  <2> QED BY <1>2, <2>1, <2>2, <2>3, <2>4, <2>5, <2>6 DEF EnterStep
<1>3. ASSUME NEW c \in Clients, BuildStep(c)
      PROVE  ClientTypes'
  <2>1. ASSUME NEW err \in {"build", "context"}, BuildFails(c, err)
        PROVE  ClientTypes'
    <3>1. err \in Outcomes /\ Return(c, err, NoRecord)
      BY <2>1 DEF BuildFails, Outcomes
    <3> QED BY <1>0, <3>1, NoRecordType, ReturnTypes
  <2>2. ASSUME NEW x \in Extras, Publish(c, MinSize[c] + x)
        PROVE  ClientTypes'
    <3> DEFINE rec == [version |-> NextVersion, author |-> c, createdAt |-> now,
                       restoredAt |-> 0, size |-> MinSize[c] + x]
    <3>1. MinSize[c] + x \in Nat
      BY SizesAssumption
    <3>2. rec \in Record
      BY <3>1 DEF Record, NextVersion, VariableTypes
    <3>3. /\ pc' = [pc EXCEPT ![c] = "published"]
          /\ held' = [held EXCEPT ![c] = rec]
          /\ UNCHANGED <<cancelled, waitOn, ret>>
      BY <2>2 DEF Publish
    <3> HIDE DEF rec
    <3> QED BY <1>0, <3>2, <3>3 DEF ClientTypes
  <2>3. ASSUME NEW x \in Extras, RefusePublish(c, MinSize[c] + x)
        PROVE  ClientTypes'
    BY <1>0, <2>3 DEF RefusePublish, Goto, ClientTypes
  <2> QED BY <1>3, <2>1, <2>2, <2>3 DEF BuildStep
<1>4. ASSUME NEW c \in Clients, FinishStep(c)
      PROVE  ClientTypes'
  <2>1. CASE FinishPublished(c)
    <3>1. held[c] \in Record /\ Return(c, "created", held[c])
      BY <2>1 DEF FinishPublished, VariableTypes
    <3> QED BY <1>0, <3>1, ReturnTypes DEF Outcomes
  <2>2. CASE FinishRefused(c)
    BY <1>0, <2>2, NoRecordType, ReturnTypes DEF FinishRefused, Outcomes
  <2> QED BY <1>4, <2>1, <2>2 DEF FinishStep
<1>5. ASSUME NEW c \in Clients, WaitStep(c) \/ WaitCancelled(c) \/ WaitTimesOut(c)
      PROVE  ClientTypes'
  <2>1. CASE WaitGetsRecord(c)
    <3>1. waitOn[c] \in Clients
      BY <2>1 DEF WaitGetsRecord, NoLostWaiter, VariableTypes
    <3>2. infs[waitOn[c]].rec \in Record
      BY <3>1 DEF VariableTypes, Inflight
    <3> QED BY <1>0, <2>1, <3>2, ReturnTypes DEF WaitGetsRecord, WaitEnds, Outcomes
  <2>2. CASE WaitRetries(c)
    BY <1>0, <2>2 DEF WaitRetries, ClientTypes
  <2>3. CASE WaitGetsError(c)
    <3>1. infs[waitOn[c]].err \in Outcomes
      BY <2>3 DEF WaitGetsError, Outcomes
    <3> QED BY <1>0, <2>3, <3>1, NoRecordType, ReturnTypes DEF WaitGetsError, WaitEnds
  <2>4. CASE WaitCancelled(c)
    BY <1>0, <2>4, NoRecordType, ReturnTypes DEF WaitCancelled, WaitEnds, Outcomes
  <2>5. CASE WaitTimesOut(c)
    BY <1>0, <2>5, NoRecordType, ReturnTypes DEF WaitTimesOut, WaitEnds, Outcomes
  <2> QED BY <1>5, <2>1, <2>2, <2>3, <2>4, <2>5 DEF WaitStep
<1>6. ASSUME NEW c \in Clients, MarkRestored(c) \/ Cancel(c)
      PROVE  ClientTypes'
  BY <1>0, <1>6 DEF MarkRestored, Cancel, ClientTypes, Outcomes
<1>7. CASE CleanupTick \/ CleanupBatch \/ Tick \/ AllDone \/ UNCHANGED vars
  BY <1>0, <1>7 DEF CleanupTick, CleanupBatch, Tick, AllDone, vars, clientVars,
     ClientTypes
<1> QED BY <1>1, <1>2, <1>3, <1>4, <1>5, <1>6, <1>7 DEF Next

\* What every step does to the clock, the structs and the cleanup has the right
\* type.
LEMMA StructTypeStep ==
  ASSUME IInv, [Next]_vars
  PROVE  StructTypes'
<1> USE DEF IInv
<1>0. VariableTypes /\ StructTypes
  BY DEF VariableTypes, StructTypes
<1>1. ASSUME NEW c \in Clients, GetStep(c) \/ Call(c)
      PROVE  StructTypes'
  BY <1>0, <1>1 DEF GetStep, GetHit, GetExpired, Call, StructTypes
<1>2. ASSUME NEW c \in Clients, EnterStep(c)
      PROVE  StructTypes'
  <2>1. KeyOf[c] \in Keys
    BY KeysAssumption
  <2> QED BY <1>0, <1>2, <2>1 DEF EnterStep, CreateCancelled, CreateFindsRecord,
     CreateEvicts, CreateWaits, BecomeCreator, RefuseReservation, StructTypes
<1>3. ASSUME NEW c \in Clients, BuildStep(c)
      PROVE  StructTypes'
  <2>1. ASSUME NEW err \in {"build", "context"}, BuildFails(c, err)
        PROVE  StructTypes'
    <3>1. err \in Errors /\ Wake(c, NoRecord, err) /\ Unmap(c)
          /\ UNCHANGED <<now, cleaner>>
      BY <2>1 DEF BuildFails, Errors
    <3> QED BY <1>0, <3>1, NoRecordType, WakeTypes, UnmapTypes DEF StructTypes
  <2>2. ASSUME NEW x \in Extras, Publish(c, MinSize[c] + x)
        PROVE  StructTypes'
    BY <1>0, <2>2 DEF Publish, StructTypes
  <2>3. ASSUME NEW x \in Extras, RefusePublish(c, MinSize[c] + x)
        PROVE  StructTypes'
    BY <1>0, <2>3, UnmapTypes DEF RefusePublish, StructTypes
  <2> QED BY <1>3, <2>1, <2>2, <2>3 DEF BuildStep
<1>4. ASSUME NEW c \in Clients, FinishStep(c)
      PROVE  StructTypes'
  <2>1. ASSUME NEW rec \in Record, NEW err \in Errors, Unmap(c), Wake(c, rec, err),
               UNCHANGED <<now, cleaner>>
        PROVE  StructTypes'
    BY <1>0, <2>1, WakeTypes, UnmapTypes DEF StructTypes
  <2>2. held[c] \in Record
    BY DEF VariableTypes
  <2> QED BY <1>4, <2>1, <2>2, NoRecordType
          DEF FinishStep, FinishPublished, FinishRefused, Errors
<1>5. ASSUME NEW c \in Clients,
             \/ WaitStep(c) \/ WaitCancelled(c) \/ WaitTimesOut(c)
             \/ MarkRestored(c) \/ Cancel(c)
      PROVE  StructTypes'
  BY <1>0, <1>5 DEF WaitStep, WaitGetsRecord, WaitRetries, WaitGetsError,
     WaitCancelled, WaitTimesOut, WaitEnds, MarkRestored, Cancel, StructTypes
<1>6. CASE CleanupTick \/ CleanupBatch \/ Tick \/ AllDone \/ UNCHANGED vars
  BY <1>0, <1>6 DEF CleanupTick, CleanupBatch, Tick, AllDone, vars, StructTypes
<1> QED BY <1>1, <1>2, <1>3, <1>4, <1>5, <1>6 DEF Next

----------------------------------------------------------------------------
(* The invariant is inductive *)

\* The empty store satisfies the invariant ...
LEMMA InitInvariant == Init => IInv
<1> SUFFICES ASSUME Init PROVE IInv
  OBVIOUS
<1>1. Stored = {} /\ Builders = {}
  BY DEF Init, Stored, Builders
<1>2. VariableTypes
  BY KeysAssumption, NoRecordType DEF Init, VariableTypes, Inflight, Errors, Outcomes
<1>3. StoredVersions /\ NodesMatch
  BY <1>1 DEF Init, StoredVersions, NodesMatch
<1>4. Total({}, Sizes) = 0 /\ Total({}, ReservedBy) = 0
  BY TotalEmpty
<1>5. BytesAccounted
  BY <1>1, <1>4 DEF Init, BytesAccounted, BytesOf
<1>6. ReservationsAccounted
  BY <1>1, <1>4, FS_EmptySet DEF Init, ReservationsAccounted
<1>7. CreatorsMatch /\ NoLostWaiter
  BY KeysAssumption DEF Init, CreatorsMatch, CreatorOwnsKey, NoLostWaiter
<1>8. CountersWithinLimits
  <2>1. Cardinality(Stored) = 0
    BY <1>1, FS_EmptySet
  <2> QED BY <2>1, LimitsAssumption DEF Init, CountersWithinLimits
<1> QED BY <1>2, <1>3, <1>5, <1>6, <1>7, <1>8 DEF IInv

\* ... every step preserves it ...
LEMMA InductiveStep == IInv /\ [Next]_vars => IInv'
<1> SUFFICES ASSUME IInv, [Next]_vars PROVE IInv'
  OBVIOUS
<1>1. /\ StoreInv'
      /\ entries' \in [Keys -> Record]
      /\ expiries' \subseteq [key: Keys, at: Nat]
      /\ nextVer' \in Nat
  BY StoreStep
<1>2. ReservationsAccounted'
  BY ReserveStep
<1>3. CreatorsMatch'
  BY CreatorStep
<1>4. NoLostWaiter'
  BY WaiterStep
<1>5. CountersWithinLimits'
  BY LimitStep
<1>6. ClientTypes' /\ StructTypes'
  BY ClientTypeStep, StructTypeStep
<1>7. VariableTypes'
  BY <1>1, <1>6 DEF VariableTypes, ClientTypes, StructTypes
<1> QED BY <1>1, <1>2, <1>3, <1>4, <1>5, <1>7 DEF IInv, StoreInv

\* ... so it holds throughout.
LEMMA Invariant == Spec => []IInv
BY InitInvariant, InductiveStep, PTL DEF Spec

----------------------------------------------------------------------------
(* The theorems *)

\* Whatever the limits, the sizes and the interleaving, every variable keeps its
\* type; in particular the byte and reservation counters never go negative.
THEOREM TypesHold == Spec => []TypeOK
<1>1. IInv => TypeOK
  BY CounterTypes DEF IInv
<1> QED BY <1>1, Invariant, PTL

\* The expiry queue never holds a stale, duplicate or missing node.
THEOREM ExpiryIndexHolds == Spec => []ExpiryIndex
<1>1. ASSUME VariableTypes, NodesMatch PROVE ExpiryIndex
  <2> DEFINE K == {j \in Stored : TTL > 0 \/ entries[j].restoredAt # 0}
  <2> DEFINE N == {Node(k, RecordExpiry(entries[k])) : k \in K}
  <2>1. N \subseteq expiries
    BY <1>1 DEF NodesMatch, HasDeadline
  <2>2. ASSUME NEW n \in expiries PROVE n \in N
    <3>1. n.key \in K /\ n.at = RecordExpiry(entries[n.key])
      BY <1>1 DEF NodesMatch, HasDeadline
    <3>2. n = Node(n.key, n.at)
      BY <1>1 DEF VariableTypes, Node
    <3> QED BY <3>1, <3>2
  <2> QED BY <2>1, <2>2 DEF ExpiryIndex
<1> QED BY <1>1, Invariant, PTL DEF IInv

\* The byte counter is the sum of the sizes of the stored records, and every
\* reservation is held by exactly one building creator.
THEOREM AccountedHolds == Spec => []Accounted
<1>1. IInv => Accounted
  BY DEF IInv, Accounted
<1> QED BY <1>1, Invariant, PTL

\* Records and reservations together never exceed the limits.
THEOREM WithinLimitsHolds == Spec => []WithinLimits
<1>1. IInv => WithinLimits
  <2> SUFFICES ASSUME IInv PROVE WithinLimits
    OBVIOUS
  <2>1. /\ reservedEntries = Cardinality(Builders)
        /\ reservedBytes = Total(Builders, ReservedBy)
        /\ bytes = BytesOf(Stored)
    BY DEF IInv, ReservationsAccounted, BytesAccounted
  <2> QED BY <2>1 DEF IInv, CountersWithinLimits, WithinLimits
<1> QED BY <1>1, Invariant, PTL

\* A builder is the only creator of its key, and the key is absent.
THEOREM CreatorOwnsKeyHolds == Spec => []CreatorOwnsKey
<1>1. IInv => CreatorOwnsKey
  BY DEF IInv, CreatorsMatch
<1> QED BY <1>1, Invariant, PTL

\* No waiter blocks on a done channel that nobody will close.
THEOREM NoLostWaiterHolds == Spec => []NoLostWaiter
<1>1. IInv => NoLostWaiter
  BY DEF IInv
<1> QED BY <1>1, Invariant, PTL

\* Whatever removes or replaces a stored record, its deadline has passed.
LEMMA LeavingStep ==
  ASSUME IInv, [Next]_vars, NEW k \in Stored,
         entries'[k].version # entries[k].version
  PROVE  IsExpired(entries[k])
<1> USE DEF IInv
<1>1. k \in Keys
  BY StoredSubset
<1>2. CASE UNCHANGED storeVars
  BY <1>2 DEF storeVars
<1>3. CASE \E j \in Keys : LookupEvicts(j)
  <2>1. PICK j \in Keys : LookupEvicts(j)
    BY <1>3
  <2>2. k = j
    BY <1>1, <2>1 DEF LookupEvicts, Evict, Without
  <2> QED BY <2>1, <2>2 DEF LookupEvicts
<1>4. CASE DrainsBatch
  <2>1. PICK B \in Batches : Drain(B, Reclaimed(B))
    BY <1>4 DEF DrainsBatch
  <2>2. k \in Reclaimed(B)
    BY <1>1, <2>1 DEF Drain, Evict, Without
  <2> QED BY <2>2, BatchOwners
<1>5. ASSUME NEW c \in Clients, Publishes(c)
      PROVE  IsExpired(entries[k])
  <2>1. PICK x \in Extras : Publish(c, MinSize[c] + x)
    BY <1>5 DEF Publishes
  <2>2. KeyOf[c] \notin Stored
    BY <2>1 DEF Publish, CreatorsMatch, CreatorOwnsKey, Stored
  <2>3. PICK B \in Batches : \E rec :
          entries' = [Without(Reclaimed(B)) EXCEPT ![KeyOf[c]] = rec]
    BY <2>1 DEF Publish
  <2>4. k \in Reclaimed(B)
    BY <1>1, <2>2, <2>3 DEF Without
  <2> QED BY <2>4, BatchOwners
<1>6. ASSUME NEW c \in Clients, MarkRestored(c)
      PROVE  FALSE
  BY <1>1, <1>6, KeysAssumption DEF MarkRestored, VariableTypes, Record
<1> QED BY <1>2, <1>3, <1>4, <1>5, <1>6, StoreEffect

\* No record leaves the store before its own deadline.
THEOREM OnlyExpiredRecordsLeaveHolds == Spec => OnlyExpiredRecordsLeave
<1>1. ASSUME IInv, [Next]_vars
      PROVE  [\A k \in Keys :
                k \in Stored /\ entries'[k].version # entries[k].version
                  => IsExpired(entries[k])]_vars
  BY <1>1, LeavingStep
<1> QED BY <1>1, Invariant, PTL DEF Spec, OnlyExpiredRecordsLeave

----------------------------------------------------------------------------
(* The refinement *)

\* The state the interface shows.
ShownRecords == [k \in Keys |-> Shown(entries[k])]
BuilderMap   == [k \in Keys |-> BuilderOf(k)]

\* A key shows no record exactly when it holds none.
LEMMA ShownAbsent ==
  ASSUME VariableTypes, StoredVersions, NEW k \in Keys
  PROVE  Shown(entries[k]) = Promise!Absent <=> k \notin Stored
<1>1. entries[k] = NoRecord => Shown(entries[k]) = Promise!Absent
  BY DEF Shown, NoRecord, Promise!Absent
<1>2. k \in Stored => entries[k].version # 0
  BY DEF StoredVersions, VariableTypes
<1>3. Shown(entries[k]) = Promise!Absent => entries[k].version = 0
  BY DEF Shown, Promise!Absent
<1> QED BY <1>1, <1>2, <1>3 DEF Stored

\* An expired record is one the interface may forget.
LEMMA ExpiredLapsed ==
  ASSUME VariableTypes, StoredVersions, NEW k \in Stored, IsExpired(entries[k])
  PROVE  k \in Promise!Lapsed
<1>1. k \in Keys /\ Shown(entries[k]) # Promise!Absent
  BY StoredSubset, ShownAbsent
<1>2. Promise!Deadline(Shown(entries[k])) = RecordExpiry(entries[k])
  BY DEF Promise!Deadline, Shown, RecordExpiry
<1> QED BY <1>1, <1>2 DEF Promise!Lapsed, IsExpired

\* The initial state is an initial state of the interface.
LEMMA InitPromise == Init => Promise!AInit
BY KeysAssumption DEF Init, Promise!AInit, Promise!Absent, Shown, NoRecord, BuilderOf

\* Removing expired records is forgetting them.
LEMMA ForgettingStep ==
  ASSUME VariableTypes, StoredVersions, NEW K, K \subseteq Stored,
         \A k \in K : IsExpired(entries[k]),
         entries' = Without(K)
  PROVE  K \in SUBSET Promise!Lapsed /\ ShownRecords' = Promise!Forgetting(K)
<1>1. K \in SUBSET Promise!Lapsed
  BY ExpiredLapsed
<1>2. Shown(NoRecord) = Promise!Absent
  BY DEF Shown, NoRecord, Promise!Absent
<1>3. ShownRecords' = [k \in Keys |-> IF k \in K THEN Shown(NoRecord)
                                      ELSE Shown(entries[k])]
  BY DEF ShownRecords, Without
<1>4. Promise!Forgetting(K) = [k \in Keys |-> IF k \in K THEN Promise!Absent
                                              ELSE Shown(entries[k])]
  BY DEF Promise!Forgetting
<1> QED BY <1>1, <1>2, <1>3, <1>4

\* A drain forgets the records it reclaims.
LEMMA DrainForgets ==
  ASSUME IInv, NEW B \in Batches, Drain(B, Reclaimed(B))
  PROVE  /\ Reclaimed(B) \in SUBSET Promise!Lapsed
         /\ ShownRecords' = Promise!Forgetting(Reclaimed(B))
<1>1. Reclaimed(B) \subseteq Stored /\ \A k \in Reclaimed(B) : IsExpired(entries[k])
  BY BatchOwners DEF IInv
<1>2. entries' = Without(Reclaimed(B))
  BY DEF Drain, Evict
<1> QED BY <1>1, <1>2, ForgettingStep DEF IInv

\* A lookup forgets the expired record it finds.
LEMMA LookupForgets ==
  ASSUME IInv, NEW k \in Stored, IsExpired(entries[k]), Evict({k})
  PROVE  {k} \in SUBSET Promise!Lapsed /\ ShownRecords' = Promise!Forgetting({k})
BY ForgettingStep DEF IInv, Evict

\* Steps that keep the mapped creators keep the builder of every key.
LEMMA SameBuilders ==
  ASSUME VariableTypes, KeepsCreators
  PROVE  BuilderMap' = BuilderMap
<1>1. \A k \in Keys : BuilderOf(k)' = BuilderOf(k)
  BY DEF KeepsCreators, VariableTypes, BuilderOf
<1> QED BY <1>1 DEF BuilderMap

\* A key has a builder exactly when a client builds for it.
LEMMA BuilderIsMapped ==
  ASSUME IInv, NEW c \in Clients
  PROVE  BuilderMap[KeyOf[c]] = c <=> pc[c] = "build"
<1>1. KeyOf[c] \in Keys /\ c # NoClient
  BY KeysAssumption
<1>2. BuilderMap[KeyOf[c]] = BuilderOf(KeyOf[c])
  BY <1>1 DEF BuilderMap
<1>3. pc[c] = "build" => inflight[KeyOf[c]] = c
  BY DEF IInv, CreatorsMatch, CreatorOwnsKey
<1> QED BY <1>1, <1>2, <1>3 DEF BuilderOf

\* The end of a build takes its client out, and nobody else.
LEMMA BuilderLeaves ==
  ASSUME IInv, NEW c \in Clients, EndsCreation(c) \/ PublishesAs(c)
  PROVE  BuilderMap' = IF pc[c] = "build"
                       THEN [BuilderMap EXCEPT ![KeyOf[c]] = NoClient]
                       ELSE BuilderMap
<1>1. KeyOf[c] \in Keys /\ c # NoClient
  BY KeysAssumption
<1>2. \A k \in Keys : /\ inflight[k] \in Clients \cup {NoClient}
                      /\ inflight[k] # NoClient => KeyOf[inflight[k]] = k
  BY DEF IInv, VariableTypes, CreatorsMatch
<1>3. \A k \in Keys : \/ inflight'[k] = inflight[k]
                      \/ inflight[k] = c /\ inflight'[k] = NoClient
  <2>1. CASE UNCHANGED inflight
    BY <2>1
  <2>2. CASE Unmap(c)
    <3>1. inflight \in [Keys -> Clients \cup {NoClient}]
      BY DEF IInv, VariableTypes
    <3> QED BY <1>1, <2>2, <3>1 DEF Unmap
  <2> QED BY <2>1, <2>2 DEF EndsCreation, PublishesAs
<1>4. /\ pc'[c] # "build"
      /\ \A d \in Clients \ {c} : pc'[d] = pc[d]
  BY DEF EndsCreation, PublishesAs
<1>5. \A k \in Keys : k # KeyOf[c] => BuilderOf(k)' = BuilderOf(k)
  BY <1>2, <1>3, <1>4 DEF BuilderOf
<1>6. CASE pc[c] = "build"
  <2>1. inflight[KeyOf[c]] = c
    BY <1>6 DEF IInv, CreatorsMatch, CreatorOwnsKey
  <2>2. BuilderOf(KeyOf[c])' = NoClient
    BY <1>1, <1>3, <1>4, <2>1 DEF BuilderOf
  <2> QED BY <1>5, <1>6, <2>2 DEF BuilderMap
<1>7. CASE pc[c] # "build"
  <2>1. BuilderOf(KeyOf[c])' = BuilderOf(KeyOf[c])
    BY <1>1, <1>2, <1>3, <1>4, <1>7 DEF BuilderOf
  <2> QED BY <1>5, <1>7, <2>1 DEF BuilderMap
<1> QED BY <1>6, <1>7

\* Every step is a step of the interface or invisible in it.
LEMMA PromiseStep ==
  ASSUME IInv, [Next]_vars
  PROVE  [Promise!ANext]_(Promise!avars)
<1> DEFINE Stutter == UNCHANGED <<now, ShownRecords, BuilderMap, nextVer>>
<1>1. ASSUME UNCHANGED <<now, storeVars>>, BuilderMap' = BuilderMap
      PROVE  Stutter
  BY <1>1 DEF storeVars, ShownRecords
<1>2. ASSUME NEW K \in SUBSET Promise!Lapsed, ShownRecords' = Promise!Forgetting(K),
             UNCHANGED <<now, nextVer>>, BuilderMap' = BuilderMap
      PROVE  Promise!ANext
  <2>1. Promise!Forget(K)
    BY <1>2 DEF Promise!Forget, Promise!Forgetting, ShownRecords, BuilderMap
  <2> QED BY <2>1 DEF Promise!ANext
<1>3. ASSUME NEW c \in Clients, GetExpired(c) \/ CreateEvicts(c), KeepsCreators
      PROVE  Promise!ANext
  <2>1. KeyOf[c] \in Stored /\ IsExpired(entries[KeyOf[c]]) /\ Evict({KeyOf[c]})
        /\ UNCHANGED <<now, nextVer>>
    BY <1>3, KeysAssumption DEF GetExpired, CreateEvicts, Stored
  <2>2. BuilderMap' = BuilderMap
    BY <1>3, SameBuilders DEF IInv
  <2> QED BY <1>2, <2>1, <2>2, LookupForgets
<1>4. ASSUME DrainsBatch, UNCHANGED now, KeepsCreators
      PROVE  Promise!ANext
  <2>1. PICK B \in Batches : Drain(B, Reclaimed(B)) /\ nextVer' = nextVer
    BY <1>4 DEF DrainsBatch
  <2>2. BuilderMap' = BuilderMap
    BY <1>4, SameBuilders DEF IInv
  <2> QED BY <1>2, <1>4, <2>1, <2>2, DrainForgets
<1>5. ASSUME NEW c \in Clients, BecomeCreator(c)
      PROVE  Promise!ANext
  <2>1. PICK B \in Batches : Drain(B, Reclaimed(B))
    BY <1>5 DEF BecomeCreator
  <2> DEFINE K == Reclaimed(B)
  <2>2. K \in SUBSET Promise!Lapsed /\ ShownRecords' = Promise!Forgetting(K)
    BY <2>1, DrainForgets
  <2>3. /\ entries[KeyOf[c]] = NoRecord /\ inflight[KeyOf[c]] = NoClient
        /\ inflight' = [inflight EXCEPT ![KeyOf[c]] = c]
        /\ pc' = [pc EXCEPT ![c] = "build"] /\ pc[c] = "enter"
        /\ UNCHANGED <<now, nextVer>>
    BY <1>5 DEF BecomeCreator, MayCreate, Goto
  <2>4. KeyOf[c] \in Keys /\ c # NoClient
    BY KeysAssumption
  <2>5. ShownRecords[KeyOf[c]] = Promise!Absent
    BY <2>3, <2>4 DEF ShownRecords, Shown, NoRecord, Promise!Absent
  <2>6. BuilderMap[KeyOf[c]] = NoClient
    BY <2>3, <2>4 DEF BuilderMap, BuilderOf
  <2>7. BuilderMap' = [BuilderMap EXCEPT ![KeyOf[c]] = c]
    <3>1. inflight \in [Keys -> Clients \cup {NoClient}] /\ DOMAIN pc = Clients
      BY DEF IInv, VariableTypes
    <3>2. \A k \in Keys : inflight[k] # NoClient => KeyOf[inflight[k]] = k
      BY DEF IInv, CreatorsMatch
    <3>3. BuilderOf(KeyOf[c])' = c
      BY <2>3, <2>4, <3>1 DEF BuilderOf
    <3>4. \A k \in Keys : k # KeyOf[c] => BuilderOf(k)' = BuilderOf(k)
      BY <2>3, <2>4, <3>1, <3>2 DEF BuilderOf
    <3> QED BY <3>3, <3>4 DEF BuilderMap
  <2> HIDE DEF K
  <2>8. Promise!Begin(c, K)
    BY <2>2, <2>3, <2>5, <2>6, <2>7
       DEF Promise!Begin, Promise!Forgetting, ShownRecords, BuilderMap
  <2> QED BY <2>2, <2>8 DEF Promise!ANext
<1>6. ASSUME NEW c \in Clients, NEW K \in SUBSET Promise!Lapsed,
             ShownRecords' = Promise!Forgetting(K), UNCHANGED <<now, nextVer>>,
             pc[c] = "build", EndsCreation(c)
      PROVE  Promise!ANext
  <2>1. BuilderMap[KeyOf[c]] = c
    BY <1>6, BuilderIsMapped
  <2>2. BuilderMap' = [BuilderMap EXCEPT ![KeyOf[c]] = NoClient]
    BY <1>6, BuilderLeaves
  <2>3. Promise!Abandon(c, K)
    BY <1>6, <2>1, <2>2 DEF Promise!Abandon, Promise!Forgetting, ShownRecords, BuilderMap
  <2> QED BY <1>6, <2>3 DEF Promise!ANext
<1>7. ASSUME NEW c \in Clients, NEW err, BuildFails(c, err), EndsCreation(c)
      PROVE  Promise!ANext
  <2>1. pc[c] = "build" /\ UNCHANGED <<now, storeVars>>
    BY <1>7 DEF BuildFails
  <2>2. ShownRecords' = Promise!Forgetting({})
    BY <2>1 DEF storeVars, ShownRecords, Promise!Forgetting
  <2> QED BY <1>6, <1>7, <2>1, <2>2 DEF storeVars
<1>8. ASSUME NEW c \in Clients, NEW size, RefusePublish(c, size), EndsCreation(c)
      PROVE  Promise!ANext
  <2>1. PICK B \in Batches : Drain(B, Reclaimed(B))
    BY <1>8 DEF RefusePublish
  <2>2. pc[c] = "build" /\ UNCHANGED <<now, nextVer>>
    BY <1>8 DEF RefusePublish
  <2> QED BY <1>6, <1>8, <2>1, <2>2, DrainForgets
<1>9. ASSUME NEW c \in Clients, NEW size, Publish(c, size), PublishesAs(c)
      PROVE  Promise!ANext
  <2> DEFINE k == KeyOf[c]
             rec == [version |-> NextVersion, author |-> c, createdAt |-> now,
                     restoredAt |-> 0, size |-> size]
  <2>1. PICK B \in Batches : entries' = [Without(Reclaimed(B)) EXCEPT ![k] = rec]
    BY <1>9 DEF Publish
  <2> DEFINE K == Reclaimed(B)
  <2>2. pc[c] = "build" /\ nextVer' = nextVer + 1 /\ now' = now
    BY <1>9 DEF Publish, NextVersion
  <2>3. k \in Keys
    BY KeysAssumption
  <2>4. ShownRecords[k] = Promise!Absent
    <3>1. entries[k] = NoRecord
      BY <2>2 DEF IInv, CreatorsMatch, CreatorOwnsKey
    <3> QED BY <2>3, <3>1 DEF ShownRecords, Shown, NoRecord, Promise!Absent
  <2>5. BuilderMap[k] = c
    BY <2>2, BuilderIsMapped
  <2>6. BuilderMap' = [BuilderMap EXCEPT ![k] = NoClient]
    BY <1>9, <2>2, BuilderLeaves
  <2>7. K \in SUBSET Promise!Lapsed
    <3>1. K \subseteq Stored /\ \A j \in K : IsExpired(entries[j])
      BY BatchOwners DEF IInv
    <3> QED BY <3>1, ExpiredLapsed DEF IInv
  <2>8. ShownRecords' = [Promise!Forgetting(K) EXCEPT ![k] =
                           [version |-> nextVer + 1, author |-> c,
                            createdAt |-> now, restoredAt |-> 0]]
    <3>1. Shown(NoRecord) = Promise!Absent
      BY DEF Shown, NoRecord, Promise!Absent
    <3>2. Shown(rec) = [version |-> nextVer + 1, author |-> c,
                        createdAt |-> now, restoredAt |-> 0]
      BY DEF Shown, NextVersion
    <3> HIDE DEF rec, K
    <3>3. ShownRecords' = [j \in Keys |-> IF j = k THEN Shown(rec)
                                          ELSE IF j \in K THEN Shown(NoRecord)
                                          ELSE Shown(entries[j])]
      BY <2>1, <2>3 DEF ShownRecords, Without, K
    <3>4. Promise!Forgetting(K) = [j \in Keys |-> IF j \in K THEN Promise!Absent
                                                  ELSE Shown(entries[j])]
      BY DEF Promise!Forgetting
    <3> QED BY <2>3, <3>1, <3>2, <3>3, <3>4
  <2> HIDE DEF K, k, rec
  <2>9. Promise!APublish(c, K)
    BY <2>2, <2>4, <2>5, <2>6, <2>8
       DEF Promise!APublish, Promise!Forgetting, ShownRecords, BuilderMap, k
  <2> QED BY <2>7, <2>9 DEF Promise!ANext
<1>10. ASSUME NEW c \in Clients, MarkRestored(c), KeepsCreators
       PROVE  Promise!ANext
  <2> DEFINE k == KeyOf[c]
  <2>1. /\ k \in Stored /\ entries[k].restoredAt = 0 /\ ReplayTTL > 0
        /\ entries' = [entries EXCEPT ![k].restoredAt = now]
        /\ UNCHANGED <<now, nextVer>>
    BY <1>10, KeysAssumption DEF MarkRestored, Marks, Stored
  <2> HIDE DEF k
  <2>2. k \in Keys
    BY <2>1, StoredSubset
  <2>3. entries \in [Keys -> Record]
    BY DEF IInv, VariableTypes
  <2>4. ShownRecords[k] # Promise!Absent
    BY <2>1, <2>2, ShownAbsent DEF IInv, ShownRecords
  <2>5. ShownRecords' = [ShownRecords EXCEPT ![k].restoredAt = now]
    <3>1. Shown(entries'[k]) = [Shown(entries[k]) EXCEPT !.restoredAt = now]
      BY <2>1, <2>2, <2>3 DEF Shown, Record
    <3>2. \A j \in Keys \ {k} : entries'[j] = entries[j]
      BY <2>1, <2>2, <2>3
    <3> QED BY <2>2, <3>1, <3>2 DEF ShownRecords
  <2>6. ShownRecords[k].restoredAt = 0
    BY <2>1, <2>2 DEF ShownRecords, Shown
  <2>7. BuilderMap' = BuilderMap
    BY <1>10, SameBuilders DEF IInv
  <2>8. Promise!Restore(k)
    BY <2>1, <2>4, <2>5, <2>6, <2>7 DEF Promise!Restore, ShownRecords, BuilderMap
  <2> QED BY <2>2, <2>8 DEF Promise!ANext
<1>11. ASSUME NEW c \in Clients, EnterStep(c)
       PROVE  Promise!ANext \/ Stutter
  <2>1. CASE BecomeCreator(c)
    BY <1>5, <2>1
  <2>2. CASE KeepsCreators
    <3>1. BuilderMap' = BuilderMap
      BY <2>2, SameBuilders DEF IInv
    <3>2. CASE CreateEvicts(c)
      BY <1>3, <2>2, <3>2
    <3>3. CASE RefuseReservation(c)
      <4>1. DrainsBatch /\ UNCHANGED now
        BY <3>3 DEF RefuseReservation, DrainsBatch
      <4> QED BY <1>4, <2>2, <4>1
    <3>4. CASE CreateCancelled(c) \/ CreateFindsRecord(c) \/ CreateWaits(c)
      <4>1. UNCHANGED <<now, storeVars>>
        BY <3>4 DEF CreateCancelled, CreateFindsRecord, CreateWaits
      <4> QED BY <1>1, <3>1, <4>1
    <3> QED BY <1>11, <2>1, <3>2, <3>3, <3>4 DEF EnterStep
  <2> QED BY <1>11, <2>1, <2>2, EnterSteps DEF IInv
<1>12. ASSUME NEW c \in Clients, BuildStep(c)
       PROVE  Promise!ANext
  <2>1. ASSUME NEW err, BuildFails(c, err)
        PROVE  Promise!ANext
    BY <1>7, <2>1, EndingSteps DEF IInv
  <2>2. ASSUME NEW size, Publish(c, size)
        PROVE  Promise!ANext
    BY <1>9, <2>2, PublishSteps DEF IInv
  <2>3. ASSUME NEW size, RefusePublish(c, size)
        PROVE  Promise!ANext
    BY <1>8, <2>3, EndingSteps DEF IInv
  <2> QED BY <1>12, <2>1, <2>2, <2>3 DEF BuildStep
<1>13. ASSUME NEW c \in Clients, FinishStep(c)
       PROVE  Stutter
  <2>1. UNCHANGED <<now, storeVars>> /\ pc[c] # "build"
    BY <1>13 DEF FinishStep, FinishPublished, FinishRefused
  <2>2. BuilderMap' = BuilderMap
    BY <1>13, <2>1, EndingSteps, BuilderLeaves DEF IInv
  <2> QED BY <1>1, <2>1, <2>2
<1>14. ASSUME NEW c \in Clients,
              \/ GetStep(c) \/ Call(c) \/ WaitStep(c) \/ WaitCancelled(c)
              \/ WaitTimesOut(c) \/ MarkRestored(c) \/ Cancel(c)
       PROVE  Promise!ANext \/ Stutter
  <2>1. KeepsCreators
    BY <1>14, OtherSteps DEF IInv
  <2>2. BuilderMap' = BuilderMap
    BY <2>1, SameBuilders DEF IInv
  <2>3. CASE GetExpired(c)
    BY <1>3, <2>1, <2>3
  <2>4. CASE MarkRestored(c)
    BY <1>10, <2>1, <2>4
  <2>5. CASE \/ GetHit(c) \/ Call(c) \/ WaitStep(c) \/ WaitCancelled(c)
             \/ WaitTimesOut(c) \/ Cancel(c)
    <3>1. UNCHANGED <<now, storeVars>>
      BY <2>5 DEF GetHit, Call, WaitStep, WaitGetsRecord, WaitRetries, WaitGetsError,
         WaitCancelled, WaitTimesOut, WaitEnds, Cancel
    <3> QED BY <1>1, <2>2, <3>1
  <2> QED BY <1>14, <2>3, <2>4, <2>5 DEF GetStep
<1>15. ASSUME CleanupTick \/ CleanupBatch \/ Tick \/ AllDone \/ UNCHANGED vars
       PROVE  Promise!ANext \/ Stutter
  <2>1. KeepsCreators
    BY <1>15, BackgroundSteps
  <2>2. BuilderMap' = BuilderMap
    BY <2>1, SameBuilders DEF IInv
  <2>3. CASE CleanupBatch
    <3>1. DrainsBatch /\ UNCHANGED now
      BY <2>3 DEF CleanupBatch, DrainsBatch
    <3> QED BY <1>4, <2>1, <3>1
  <2>4. CASE Tick
    <3>1. Promise!Advance
      BY <2>2, <2>4 DEF Tick, storeVars, Promise!Advance, BuilderMap
    <3> QED BY <3>1 DEF Promise!ANext
  <2>5. CASE CleanupTick \/ AllDone \/ UNCHANGED vars
    <3>1. UNCHANGED <<now, storeVars>>
      BY <2>5 DEF CleanupTick, AllDone, vars, storeVars
    <3> QED BY <1>1, <2>2, <3>1
  <2> QED BY <1>15, <2>3, <2>4, <2>5
<1> HIDE DEF Stutter
<1>16. Promise!ANext \/ Stutter
  BY <1>11, <1>12, <1>13, <1>14, <1>15 DEF Next
<1> QED BY <1>16 DEF Stutter, Promise!avars, ShownRecords, BuilderMap

\* The store keeps the promise of its interface: with the lock, the waiters, the
\* reservations and the queue left out, its steps are steps of Correspondence.
THEOREM PromiseKept == Spec => KeepsPromise
BY InitPromise, PromiseStep, Invariant, PTL DEF Spec, KeepsPromise, Promise!ASpec

----------------------------------------------------------------------------
(* Versions: which record a version stands for *)

\* The records that someone holds, waits to be handed, or would look up.
Copies ==
  {held[c] : c \in Clients} \cup {infs[c].rec : c \in Clients}
    \cup {entries[k] : k \in Keys} \cup {NoRecord}

\* What of a record never changes.
Origin(r) == <<r.version, r.author, r.createdAt, r.size>>

VersionInv ==
  /\ \A r \in Copies : r.version \in 0 .. nextVer
  /\ \A r, s \in Copies : r.version = s.version => Origin(r) = Origin(s)
  /\ \A j, k \in Keys : j # k /\ entries[j].version # 0
                          => entries[j].version # entries[k].version

\* Who marked a record was done with its call, and whatever the key holds under
\* the record's version has stayed restored.
RestoredStays ==
  \A c \in Clients :
    ret[c] = "restored" =>
      /\ pc[c] = "done"
      /\ entries[KeyOf[c]] # NoRecord /\ entries[KeyOf[c]].version = held[c].version
           => entries[KeyOf[c]].restoredAt # 0

----------------------------------------------------------------------------
(* Where the records of the next state come from *)

Derived(r) == \E s \in Copies : Origin(r) = Origin(s)

\* Whatever is held, handed on or stored is a copy.
LEMMA CopiesHas ==
  /\ \A c \in Clients : held[c] \in Copies /\ infs[c].rec \in Copies
  /\ \A k \in Keys : entries[k] \in Copies
  /\ NoRecord \in Copies
BY DEF Copies

\* A copy has the origin of a copy, its own.
LEMMA CopiesDerived == \A r \in Copies : Derived(r)
BY DEF Derived

\* A step that hands out records gives those that are there, or none.
LEMMA ReturnDerived ==
  ASSUME VariableTypes, NEW c \in Clients, NEW rec \in Copies, NEW outcome,
         Return(c, outcome, rec)
  PROVE  \A d \in Clients : Derived(held'[d])
BY CopiesHas, CopiesDerived DEF Return, VariableTypes

\* Waking with a copy hands on no other origins.
LEMMA WakeDerived ==
  ASSUME VariableTypes, NEW c \in Clients, NEW rec \in Copies, NEW err,
         Wake(c, rec, err)
  PROVE  \A d \in Clients : Derived(infs'[d].rec)
<1>1. ASSUME NEW d \in Clients PROVE infs'[d].rec \in Copies
  BY CopiesHas DEF Wake, VariableTypes
<1> QED BY <1>1, CopiesDerived

Publication == \E c \in Clients : Publishes(c)

\* Only a publication makes a record of a new origin.
LEMMA HandedDerived ==
  ASSUME IInv, [Next]_vars, ~ Publication
  PROVE  \A d \in Clients : Derived(held'[d]) /\ Derived(infs'[d].rec)
<1> USE CopiesHas, CopiesDerived
<1>0. VariableTypes /\ KeyOf \in [Clients -> Keys]
  BY KeysAssumption DEF IInv
<1>1. CASE UNCHANGED <<held, infs>>
  BY <1>1
<1>2. ASSUME NEW c \in Clients, NEW rec \in Copies, NEW outcome, Return(c, outcome, rec),
             UNCHANGED infs
      PROVE  \A d \in Clients : Derived(held'[d]) /\ Derived(infs'[d].rec)
  BY <1>0, <1>2, ReturnDerived
<1>3. ASSUME NEW c \in Clients, NEW rec \in Copies, NEW outcome, NEW err,
             Return(c, outcome, rec), Wake(c, rec, err)
      PROVE  \A d \in Clients : Derived(held'[d]) /\ Derived(infs'[d].rec)
  BY <1>0, <1>3, ReturnDerived, WakeDerived
<1> HIDE CopiesDerived
<1>4. ASSUME NEW c \in Clients, GetStep(c) \/ Call(c) \/ EnterStep(c)
      PROVE  \A d \in Clients : Derived(held'[d]) /\ Derived(infs'[d].rec)
  BY <1>0, <1>1, <1>2, <1>4 DEF GetStep, GetHit, GetExpired, Call, Goto, EnterStep,
     CreateCancelled, CreateFindsRecord, CreateEvicts, CreateWaits, BecomeCreator,
     RefuseReservation, clientVars
<1>5. ASSUME NEW c \in Clients, BuildStep(c) \/ FinishStep(c)
      PROVE  \A d \in Clients : Derived(held'[d]) /\ Derived(infs'[d].rec)
  <2>1. ASSUME NEW err, BuildFails(c, err)
        PROVE  \A d \in Clients : Derived(held'[d]) /\ Derived(infs'[d].rec)
    BY <1>3, <2>1 DEF BuildFails
  <2>2. CASE \E x \in Extras : RefusePublish(c, MinSize[c] + x)
    BY <1>1, <2>2 DEF RefusePublish, Goto
  <2>3. CASE FinishPublished(c)
    BY <1>3, <2>3 DEF FinishPublished
  <2>4. CASE FinishRefused(c)
    BY <1>3, <2>4 DEF FinishRefused
  <2> QED BY <1>5, <2>1, <2>2, <2>3, <2>4
          DEF BuildStep, FinishStep, Publication, Publishes
<1>6. ASSUME NEW c \in Clients, WaitStep(c) \/ WaitCancelled(c) \/ WaitTimesOut(c)
      PROVE  \A d \in Clients : Derived(held'[d]) /\ Derived(infs'[d].rec)
  <2>1. CASE WaitGetsRecord(c)
    <3>1. waitOn[c] \in Clients
      BY <2>1 DEF WaitGetsRecord, IInv, NoLostWaiter, VariableTypes
    <3> QED BY <1>2, <2>1, <3>1 DEF WaitGetsRecord, WaitEnds
  <2>2. CASE ~ WaitGetsRecord(c)
    BY <1>1, <1>2, <1>6, <2>2 DEF WaitStep, WaitRetries, WaitGetsError, WaitCancelled,
       WaitTimesOut, WaitEnds
  <2> QED BY <2>1, <2>2
<1>7. ASSUME NEW c \in Clients, MarkRestored(c) \/ Cancel(c)
      PROVE  \A d \in Clients : Derived(held'[d]) /\ Derived(infs'[d].rec)
  BY <1>1, <1>7 DEF MarkRestored, Cancel
<1>8. CASE CleanupTick \/ CleanupBatch \/ Tick \/ AllDone \/ UNCHANGED vars
  BY <1>1, <1>8 DEF CleanupTick, CleanupBatch, Tick, AllDone, vars, clientVars
<1> QED BY <1>4, <1>5, <1>6, <1>7, <1>8 DEF Next

\* Without a publication a key's record keeps its origin or is gone.
LEMMA StoredDerived ==
  ASSUME IInv, [Next]_vars, ~ Publication
  PROVE  /\ nextVer' = nextVer
         /\ \A k \in Keys : \/ entries'[k] = NoRecord
                            \/ Origin(entries'[k]) = Origin(entries[k])
<1>0. VariableTypes /\ KeyOf \in [Clients -> Keys]
  BY KeysAssumption DEF IInv
<1>1. CASE UNCHANGED storeVars
  BY <1>1 DEF storeVars
<1>2. CASE (\E k \in Keys : LookupEvicts(k)) \/ DrainsBatch
  BY <1>2 DEF LookupEvicts, DrainsBatch, Drain, Evict, Without
<1>3. ASSUME NEW c \in Clients, MarkRestored(c)
      PROVE  /\ nextVer' = nextVer
             /\ \A k \in Keys : Origin(entries'[k]) = Origin(entries[k])
  BY <1>0, <1>3 DEF MarkRestored, VariableTypes, Record, Origin
<1> QED BY <1>1, <1>2, <1>3, StoreEffect DEF Publication

\* A step that publishes nothing keeps what is said of versions.
LEMMA QuietStep ==
  ASSUME IInv, VersionInv, [Next]_vars, ~ Publication
  PROVE  VersionInv'
<1>1. nextVer' = nextVer /\ \A r \in Copies' : Derived(r)
  <2>1. NoRecord \in Copies /\ Derived(NoRecord) /\ \A k \in Keys : entries[k] \in Copies
    BY CopiesHas, CopiesDerived
  <2>2. \A k \in Keys : Derived(entries'[k])
    BY <2>1, StoredDerived DEF Derived
  <2> QED BY <2>1, <2>2, HandedDerived, StoredDerived DEF Copies
<1>2. \A r \in Copies' : \E s \in Copies : r.version = s.version /\ Origin(r) = Origin(s)
  BY <1>1 DEF Derived, Origin
<1>3. \A k \in Keys : entries'[k].version \in {0, entries[k].version}
  BY StoredDerived DEF Origin, NoRecord
<1>4. \A r \in Copies' : r.version \in 0 .. nextVer'
  BY <1>1, <1>2 DEF VersionInv
<1>5. \A r, s \in Copies' : r.version = s.version => Origin(r) = Origin(s)
  BY <1>2 DEF VersionInv
<1>6. \A j, k \in Keys : j # k /\ entries'[j].version # 0
                          => entries'[j].version # entries'[k].version
  BY <1>3 DEF VersionInv
<1> QED BY <1>4, <1>5, <1>6 DEF VersionInv

\* A publication adds one record, under a version nobody has.
LEMMA PublicationStep ==
  ASSUME IInv, VersionInv, NEW c \in Clients, Publishes(c)
  PROVE  VersionInv'
<1>1. PICK x \in Extras : Publish(c, MinSize[c] + x)
  BY DEF Publishes
<1> DEFINE rec == [version |-> nextVer + 1, author |-> c, createdAt |-> now,
                   restoredAt |-> 0, size |-> MinSize[c] + x]
<1>2. PICK B \in Batches : entries' = [Without(Reclaimed(B)) EXCEPT ![KeyOf[c]] = rec]
  BY <1>1 DEF Publish, NextVersion
<1>3. /\ nextVer' = nextVer + 1 /\ held' = [held EXCEPT ![c] = rec]
      /\ infs' = infs /\ nextVer \in Nat
      /\ held \in [Clients -> Record] /\ entries \in [Keys -> Record]
      /\ KeyOf[c] \in Keys
  BY <1>1, KeysAssumption DEF Publish, NextVersion, IInv, VariableTypes
<1>4. rec.version = nextVer + 1
  OBVIOUS
<1> HIDE DEF rec
<1>5. \A r \in Copies' : r = rec \/ r \in Copies
  <2>1. \A k \in Keys : entries'[k] \in {rec, NoRecord, entries[k]}
    BY <1>2 DEF Without
  <2> QED BY <1>3, <2>1, CopiesHas DEF Copies
<1>6. \A r \in Copies : r.version \in 0 .. nextVer /\ r.version # rec.version
  BY <1>3, <1>4 DEF VersionInv
<1>7. \A r \in Copies' : r.version \in 0 .. nextVer'
  BY <1>3, <1>4, <1>5, <1>6
<1>8. \A r, s \in Copies' : r.version = s.version => Origin(r) = Origin(s)
  BY <1>5, <1>6 DEF VersionInv
<1>9. ASSUME NEW j \in Keys, NEW k \in Keys, j # k, entries'[j].version # 0
      PROVE  entries'[j].version # entries'[k].version
  <2>1. \A i \in Keys : i # KeyOf[c] => entries'[i].version \in {0, entries[i].version}
    BY <1>2 DEF Without, NoRecord
  <2>2. entries'[KeyOf[c]].version = nextVer + 1
    BY <1>2, <1>3, <1>4 DEF Without
  <2>3. \A i \in Keys : entries[i].version \in 0 .. nextVer
    BY <1>6, CopiesHas
  <2> QED BY <1>3, <1>9, <2>1, <2>2, <2>3 DEF VersionInv
<1> QED BY <1>7, <1>8, <1>9 DEF VersionInv

----------------------------------------------------------------------------
(* Restoring *)

\* Every step keeps a record restored once it is.
LEMMA RestoredStep ==
  ASSUME IInv, VersionInv, RestoredStays, [Next]_vars
  PROVE  RestoredStays'
<1> USE DEF RestoredStays
<1>0. /\ VariableTypes /\ KeyOf \in [Clients -> Keys]
      /\ \A c \in Clients : held[c].version \in 0 .. nextVer
  BY KeysAssumption, CopiesHas DEF IInv, VersionInv
<1>1. CASE ~ \E c \in Clients : MarkRestored(c) \/ Publishes(c)
  <2>1. \A k \in Keys : entries'[k] \in {NoRecord, entries[k]}
    BY <1>1, StoreEffect DEF LookupEvicts, DrainsBatch, Drain, Evict, Without, storeVars,
       IInv, VariableTypes
  <2>2. ASSUME NEW c \in Clients, ret'[c] = "restored"
        PROVE  ret[c] = "restored" /\ pc'[c] = pc[c] /\ held'[c] = held[c]
    <3> USE DEF Goto, Return, clientVars, VariableTypes
    <3>1. ASSUME NEW d \in Clients, GetStep(d) \/ Call(d) \/ EnterStep(d)
          PROVE  ret[c] = "restored" /\ pc'[c] = pc[c] /\ held'[c] = held[c]
      BY <1>0, <2>2, <3>1 DEF GetStep, GetHit, GetExpired, Call, EnterStep,
         CreateCancelled, CreateFindsRecord, CreateEvicts, CreateWaits, BecomeCreator,
         RefuseReservation
    <3>2. ASSUME NEW d \in Clients, BuildStep(d) \/ FinishStep(d)
          PROVE  ret[c] = "restored" /\ pc'[c] = pc[c] /\ held'[c] = held[c]
      BY <1>0, <1>1, <2>2, <3>2 DEF BuildStep, BuildFails, RefusePublish, FinishStep,
         FinishPublished, FinishRefused, Publishes
    <3>3. ASSUME NEW d \in Clients, WaitStep(d) \/ WaitCancelled(d) \/ WaitTimesOut(d)
          PROVE  ret[c] = "restored" /\ pc'[c] = pc[c] /\ held'[c] = held[c]
      BY <1>0, <2>2, <3>3 DEF WaitStep, WaitGetsRecord, WaitRetries, WaitGetsError,
         WaitCancelled, WaitTimesOut, WaitEnds
    <3>4. CASE \E d \in Clients : Cancel(d)
      BY <2>2, <3>4 DEF Cancel
    <3>5. CASE CleanupTick \/ CleanupBatch \/ Tick \/ AllDone \/ UNCHANGED vars
      BY <2>2, <3>5 DEF CleanupTick, CleanupBatch, Tick, AllDone, vars
    <3> QED BY <1>1, <3>1, <3>2, <3>3, <3>4, <3>5 DEF Next
  <2> QED BY <1>0, <2>1, <2>2
<1>2. ASSUME NEW c \in Clients, Publishes(c)
      PROVE  RestoredStays'
  <2>1. PICK x \in Extras : Publish(c, MinSize[c] + x)
    BY <1>2 DEF Publishes
  <2>2. /\ ret' = ret /\ pc[c] = "build"
        /\ pc' = [pc EXCEPT ![c] = "published"]
        /\ \A d \in Clients : d # c => held'[d] = held[d]
    BY <1>0, <2>1 DEF Publish, VariableTypes
  <2>3. /\ entries'[KeyOf[c]].version = nextVer + 1
        /\ \A k \in Keys : k # KeyOf[c] => entries'[k] \in {NoRecord, entries[k]}
    BY <1>0, <2>1 DEF Publish, NextVersion, Without
  <2>4. \A d \in Clients : ret[d] = "restored" => d # c
    BY <2>2
  <2>5. ASSUME NEW d \in Clients, ret'[d] = "restored"
        PROVE  /\ pc'[d] = "done"
               /\ entries'[KeyOf[d]] # NoRecord
                    /\ entries'[KeyOf[d]].version = held'[d].version
                  => entries'[KeyOf[d]].restoredAt # 0
    <3>1. d # c /\ ret[d] = "restored" /\ held'[d] = held[d] /\ pc'[d] = pc[d]
      BY <1>0, <2>2, <2>4, <2>5 DEF VariableTypes
    <3>2. CASE KeyOf[d] = KeyOf[c]
      <4>1. held[d].version # nextVer + 1
        BY <1>0 DEF VariableTypes
      <4> QED BY <2>3, <3>1, <3>2, <4>1
    <3>3. CASE KeyOf[d] # KeyOf[c]
      BY <1>0, <2>3, <3>1, <3>3
    <3> QED BY <3>2, <3>3
  <2> QED BY <2>5
<1>3. ASSUME NEW c \in Clients, MarkRestored(c)
      PROVE  RestoredStays'
  <2>1. /\ pc' = pc /\ held' = held /\ pc[c] = "done"
        /\ ret' = [ret EXCEPT ![c] = "restored"]
        /\ now # 0
        /\ entries' = [entries EXCEPT ![KeyOf[c]].restoredAt = now]
    BY <1>0, <1>3 DEF MarkRestored, VariableTypes
  <2>2. \A k \in Keys : k # KeyOf[c] => entries'[k] = entries[k]
    BY <1>0, <2>1 DEF VariableTypes
  <2>3. entries'[KeyOf[c]].restoredAt # 0
    BY <1>0, <2>1 DEF VariableTypes, Record
  <2> QED BY <1>0, <2>1, <2>2, <2>3 DEF VariableTypes
<1> QED BY <1>1, <1>2, <1>3

\* The invariants of versions hold of every run of the store.
LEMMA VersionInvariant == Spec => [](IInv /\ VersionInv /\ RestoredStays)
<1>1. Init => VersionInv /\ RestoredStays
  BY DEF Init, VersionInv, RestoredStays, Copies, NoRecord
<1>2. IInv /\ VersionInv /\ RestoredStays /\ [Next]_vars => (VersionInv /\ RestoredStays)'
  BY QuietStep, PublicationStep, RestoredStep DEF Publication
<1> QED BY <1>1, <1>2, Invariant, PTL DEF Spec

----------------------------------------------------------------------------
(* The theorems about versions *)

\* Whoever holds a version, and whatever is stored under it, mean one record.
THEOREM VersionsIdentifyHolds == Spec => []VersionsIdentify
<1>1. VersionInv => VersionsIdentify
  BY CopiesHas DEF VersionInv, VersionsIdentify, Origin
<1> QED BY <1>1, VersionInvariant, PTL

\* A record is restored in the call of a client that was given that very record,
\* however often its key was re-created meanwhile.
THEOREM RestoredByItsReaderHolds == Spec => RestoredByItsReader
<1>1. ASSUME IInv, VersionInv, RestoredStays, [Next]_vars, NEW k \in Keys,
             entries[k].restoredAt = 0, entries'[k].restoredAt # 0
      PROVE  \E c \in Clients :
               /\ ret[c] # "restored" /\ ret'[c] = "restored"
               /\ held[c].author = entries[k].author
               /\ held[c].createdAt = entries[k].createdAt
  <2>0. VariableTypes /\ KeyOf \in [Clients -> Keys]
    BY <1>1, KeysAssumption DEF IInv
  <2>1. ASSUME NEW c \in Clients, Publishes(c) PROVE FALSE
    <3>1. PICK x \in Extras : Publish(c, MinSize[c] + x)
      BY <2>1 DEF Publishes
    <3>2. entries'[k] \in {NoRecord, entries[k]} \/ entries'[k].restoredAt = 0
      BY <2>0, <3>1 DEF Publish, Without
    <3> QED BY <1>1, <3>2 DEF NoRecord
  <2>2. PICK c \in Clients : MarkRestored(c)
    <3>1. entries'[k] \notin {NoRecord, entries[k]}
      BY <1>1 DEF NoRecord
    <3>2. CASE UNCHANGED storeVars
      BY <3>1, <3>2 DEF storeVars
    <3>3. CASE (\E j \in Keys : LookupEvicts(j)) \/ DrainsBatch
      BY <3>1, <3>3 DEF LookupEvicts, DrainsBatch, Drain, Evict, Without
    <3> QED BY <1>1, <2>1, <3>2, <3>3, StoreEffect
  <2>3. k = KeyOf[c]
    BY <1>1, <2>0, <2>2 DEF MarkRestored, VariableTypes
  <2>4. entries[k].version = held[c].version /\ entries[k] # NoRecord
    BY <2>2, <2>3 DEF MarkRestored, Marks
  <2>5. ret[c] # "restored" /\ ret'[c] = "restored"
    BY <1>1, <2>0, <2>2, <2>3, <2>4 DEF MarkRestored, RestoredStays, VariableTypes
  <2>6. Origin(held[c]) = Origin(entries[k])
    BY <1>1, <2>4, CopiesHas DEF VersionInv
  <2> QED BY <2>5, <2>6 DEF Origin
<1>2. ASSUME IInv /\ VersionInv /\ RestoredStays, [Next]_vars
      PROVE  [\A k \in Keys :
                entries[k].restoredAt = 0 /\ entries'[k].restoredAt # 0 =>
                  \E c \in Clients :
                    /\ ret[c] # "restored" /\ ret'[c] = "restored"
                    /\ held[c].author = entries[k].author
                    /\ held[c].createdAt = entries[k].createdAt]_vars
  BY <1>1, <1>2
<1> QED BY <1>2, VersionInvariant, PTL DEF Spec, RestoredByItsReader
----------------------------------------------------------------------------
(* The observed store is the store *)

\* A step of the observed store is a step of the store.
LEMMA ObservedStep ==
  ASSUME [ObservedNext]_observed
  PROVE  [Next]_vars
<1>1. ASSUME NEW c \in Clients, ClientActs(c)
      PROVE  Next
  BY <1>1 DEF ClientActs, Reports, Silent, Next, GetStep, EnterStep, BuildStep, FinishStep
<1>2. ASSUME NEW a \in Actors, Delivers(a)
      PROVE  UNCHANGED vars
  BY <1>2 DEF Delivers
<1>3. CASE CleanupActs \/ Surroundings
  BY <1>3 DEF CleanupActs, Surroundings, Next
<1> QED BY <1>1, <1>2, <1>3 DEF ObservedNext, observed

\* Reporting late changes nothing in the store: everything that is proved of it
\* holds of the store that reports.
THEOREM ObservedStore == ObservedSpec => Spec
<1>1. ObservedInit => Init
  BY DEF ObservedInit
<1>2. [ObservedNext]_observed => [Next]_vars
  BY ObservedStep
<1> QED BY <1>1, <1>2, PTL DEF ObservedSpec, Spec

----------------------------------------------------------------------------
(* The books: contents, debts and publications that are not reported yet *)

Counts == Phases \X {"records", "bytes"}

ExpiredOf(f) == f[<<"pending", "expired">>] + f[<<"replay", "expired">>]

\* The store's contents as the gauges count them.
Contents == [m \in Meters |-> Volume(Stored, m)]

\* What the actors owe, and what is published and not even owed yet.
Owed          == [m \in Meters |-> Balance(Actors, [a \in Actors |-> owed[a][m]])]
UnreportedBy  == [c \in Clients |-> Unreported(c)]
UnreportedSum == [m \in Meters |-> Total(Clients, [c \in Clients |-> UnreportedBy[c][m]])]

\* What the gauges will show when everything is delivered.
Final == [m \in Meters |-> gauges[m] + (Owed[m] + UnreportedSum[m])]

Books ==
  /\ \A m \in Counts : Final[m] = Contents[m]
  /\ nextVer = Cardinality(Stored) + ExpiredOf(Final)

EventTypes ==
  /\ gauges \in [Meters -> Int]
  /\ owed \in [Actors -> [Meters -> Int]]

\* What is counted is metered.
LEMMA MetersOf ==
  /\ Counts \subseteq Meters
  /\ <<"pending", "expired">> \in Meters /\ <<"replay", "expired">> \in Meters
BY DEF Counts, Meters, Phases

\* There are finitely many actors and clients.
LEMMA ActorsFinite == IsFiniteSet(Actors) /\ IsFiniteSet(Clients)
<1>1. IsFiniteSet({NoClient})
  BY FS_Singleton
<1> QED BY <1>1, KeysAssumption, FS_Union DEF Actors

\* What is owed to a meter is an integer.
LEMMA OwedType ==
  ASSUME EventTypes
  PROVE  Owed \in [Meters -> Int]
<1>1. ASSUME NEW m \in Meters
      PROVE  Balance(Actors, [a \in Actors |-> owed[a][m]]) \in Int
  <2> DEFINE f == [a \in Actors |-> owed[a][m]]
  <2>1. \A a \in Actors : f[a] \in Int
    BY DEF EventTypes
  <2> HIDE DEF f
  <2> QED BY <2>1, ActorsFinite, BalanceType DEF f
<1> QED BY <1>1 DEF Owed

\* What is not reported yet is a natural number.
LEMMA UnreportedType ==
  ASSUME VariableTypes
  PROVE  /\ UnreportedBy \in [Clients -> [Meters -> Nat]]
         /\ UnreportedSum \in [Meters -> Nat]
<1>1. UnreportedBy \in [Clients -> [Meters -> Nat]]
  BY DEF UnreportedBy, Unreported, Addition, NoEvents, VariableTypes, Record
<1>2. ASSUME NEW m \in Meters
      PROVE  Total(Clients, [c \in Clients |-> UnreportedBy[c][m]]) \in Nat
  <2> DEFINE f == [c \in Clients |-> UnreportedBy[c][m]]
  <2>1. \A c \in Clients : f[c] \in Nat
    BY <1>1
  <2> HIDE DEF f
  <2> QED BY <2>1, ActorsFinite, TotalType DEF f
<1> QED BY <1>1, <1>2 DEF UnreportedSum

\* What the meters will show in the end is an integer.
LEMMA FinalType ==
  ASSUME VariableTypes, EventTypes
  PROVE  Final \in [Meters -> Int]
<1>1. Owed \in [Meters -> Int] /\ UnreportedSum \in [Meters -> Nat]
  BY OwedType, UnreportedType
<1> QED BY <1>1 DEF Final, EventTypes

\* GaugesAgree, with the sums named.
LEMMA BooksAgree ==
  ASSUME VariableTypes, EventTypes
  PROVE  Books <=> GaugesAgree
<1>1. \A m \in Meters : Final[m] = gauges[m] + Outstanding(m)
  <2>1. ASSUME NEW m \in Meters
        PROVE  [c \in Clients |-> UnreportedBy[c][m]] = [c \in Clients |-> Unreported(c)[m]]
    BY DEF UnreportedBy
  <2> QED BY <2>1 DEF Final, Owed, UnreportedSum, Outstanding
<1> HIDE DEF Final
<1>2. \A m \in Counts : Final[m] = gauges[m] + Outstanding(m) /\ Contents[m] = Volume(Stored, m)
  BY <1>1, MetersOf DEF Contents
<1>3. ExpiredOf(Final) =
        (gauges[<<"pending", "expired">>] + Outstanding(<<"pending", "expired">>))
          + (gauges[<<"replay", "expired">>] + Outstanding(<<"replay", "expired">>))
  BY <1>1, MetersOf DEF ExpiredOf
<1>4. /\ Final[<<"pending", "expired">>] \in Int
      /\ Final[<<"replay", "expired">>] \in Int
  BY MetersOf, FinalType
<1>5. Cardinality(Stored) \in Nat
  BY StoredFinite, FS_CardinalityType
<1>6. GaugesAgree <=>
        /\ \A m \in Counts : gauges[m] + Outstanding(m) = Volume(Stored, m)
        /\ nextVer = Cardinality(Stored)
                       + (gauges[<<"pending", "expired">>] + Outstanding(<<"pending", "expired">>))
                       + (gauges[<<"replay", "expired">>] + Outstanding(<<"replay", "expired">>))
  BY DEF GaugesAgree, Counts
<1> QED BY <1>1, <1>2, <1>3, <1>4, <1>5, <1>6, MetersOf DEF Books

----------------------------------------------------------------------------
(* How the books change *)

\* An actor comes to owe e instead of what it owed.
LEMMA OwedUpdate ==
  ASSUME EventTypes, NEW a \in Actors, NEW e \in [Meters -> Int], Owes(a, e)
  PROVE  /\ owed' \in [Actors -> [Meters -> Int]]
         /\ Owed' \in [Meters -> Int]
         /\ \A m \in Meters : Owed'[m] = Owed[m] - owed[a][m] + e[m]
<1>1. owed' \in [Actors -> [Meters -> Int]]
  BY DEF EventTypes, Owes
<1>2. ASSUME NEW m \in Meters
      PROVE  /\ Owed'[m] \in Int
             /\ Owed'[m] = Owed[m] - owed[a][m] + e[m]
  <2> DEFINE f == [b \in Actors |-> owed[b][m]]
             g == [b \in Actors |-> owed'[b][m]]
  <2>1. /\ \A b \in Actors : f[b] \in Int /\ g[b] \in Int
        /\ \A b \in Actors \ {a} : f[b] = g[b]
        /\ f[a] = owed[a][m] /\ g[a] = e[m]
    BY <1>1 DEF EventTypes, Owes
  <2>2. Owed[m] = Balance(Actors, f) /\ Owed'[m] = Balance(Actors, g)
    BY DEF Owed
  <2> HIDE DEF f, g
  <2> QED BY <2>1, <2>2, ActorsFinite, BalanceUpdate, BalanceType
<1> QED BY <1>1, <1>2 DEF Owed

\* A creator publishes, or reports what it published.
LEMMA UnreportedUpdate ==
  ASSUME VariableTypes, NEW c \in Clients, NEW u \in [Meters -> Nat],
         UnreportedBy' = [UnreportedBy EXCEPT ![c] = u]
  PROVE  /\ UnreportedSum' \in [Meters -> Nat]
         /\ \A m \in Meters :
              UnreportedSum'[m] = UnreportedSum[m] - UnreportedBy[c][m] + u[m]
<1>0. UnreportedBy \in [Clients -> [Meters -> Nat]]
  BY UnreportedType
<1> SUFFICES ASSUME NEW m \in Meters
             PROVE  /\ UnreportedSum'[m] \in Nat
                    /\ UnreportedSum'[m] = UnreportedSum[m] - UnreportedBy[c][m] + u[m]
  BY DEF UnreportedSum
<1> DEFINE f == [d \in Clients |-> UnreportedBy[d][m]]
           g == [d \in Clients |-> UnreportedBy'[d][m]]
<1>1. /\ \A d \in Clients : f[d] \in Nat /\ g[d] \in Nat
      /\ \A d \in Clients \ {c} : f[d] = g[d]
      /\ f[c] = UnreportedBy[c][m] /\ g[c] = u[m]
  BY <1>0
<1>2. UnreportedSum[m] = Total(Clients, f) /\ UnreportedSum'[m] = Total(Clients, g)
  BY DEF UnreportedSum
<1> HIDE DEF f, g
<1> QED BY <1>1, <1>2, ActorsFinite, TotalUpdate, TotalType

\* Nobody publishes or reports.
LEMMA UnreportedSame ==
  ASSUME VariableTypes, UnreportedBy' = UnreportedBy
  PROVE  UnreportedSum' = UnreportedSum /\ UnreportedSum' \in [Meters -> Nat]
<1>1. UnreportedSum' = UnreportedSum
  BY DEF UnreportedSum
<1> QED BY <1>1, UnreportedType

\* A step that reports e keeps the books when the contents change by e and by
\* what its actor published or reported.
LEMMA BooksStep ==
  ASSUME VariableTypes, VariableTypes', EventTypes, Books,
         NEW a \in Actors, owed[a] = NoEvents, NEW e \in [Meters -> Int],
         Owes(a, e), UNCHANGED gauges,
         \A m \in Counts :
           Contents'[m] = Contents[m] + e[m] + (UnreportedSum'[m] - UnreportedSum[m]),
         UnreportedSum' \in [Meters -> Nat],
         \A m \in Meters \ Counts : UnreportedSum'[m] = UnreportedSum[m],
         nextVer' - Cardinality(Stored') = nextVer - Cardinality(Stored) + ExpiredOf(e)
  PROVE  EventTypes' /\ Books'
<1>1. /\ owed' \in [Actors -> [Meters -> Int]]
      /\ Owed' \in [Meters -> Int] /\ Owed \in [Meters -> Int]
      /\ \A m \in Meters : Owed'[m] = Owed[m] + e[m]
  <2>1. \A m \in Meters : owed[a][m] = 0
    BY DEF NoEvents
  <2> QED BY <2>1, OwedUpdate, OwedType
<1>2. UnreportedSum \in [Meters -> Nat] /\ UnreportedSum' \in [Meters -> Nat]
  BY UnreportedType
<1>3. EventTypes'
  BY <1>1 DEF EventTypes
<1>4. \A m \in Meters : /\ Final[m] \in Int /\ Final'[m] \in Int
                        /\ Final'[m] = Final[m] + e[m] + (UnreportedSum'[m] - UnreportedSum[m])
  BY <1>1, <1>2 DEF Final, EventTypes
<1> HIDE DEF Final, Contents, UnreportedSum
<1>5. \A m \in Counts : Final'[m] = Contents'[m]
  BY <1>2, <1>4, MetersOf DEF Books
<1>6. ExpiredOf(Final') = ExpiredOf(Final) + ExpiredOf(e) /\ ExpiredOf(Final) \in Int
  <2>1. /\ <<"pending", "expired">> \in Meters \ Counts
        /\ <<"replay", "expired">> \in Meters \ Counts
    BY DEF Phases, Meters, Counts
  <2>2. \A m \in Meters \ Counts : /\ Final'[m] = Final[m] + e[m]
                                   /\ Final[m] \in Int /\ e[m] \in Int
    BY <1>2, <1>4
  <2> QED BY <2>1, <2>2 DEF ExpiredOf
<1>7. /\ Cardinality(Stored) \in Nat /\ Cardinality(Stored') \in Nat
      /\ nextVer \in Nat /\ nextVer' \in Nat
  <2>1. IsFiniteSet(Stored')
    BY KeysAssumption, FS_Subset DEF Stored
  <2> QED BY <2>1, StoredFinite, FS_CardinalityType DEF VariableTypes
<1>8. ExpiredOf(e) \in Int
  BY MetersOf DEF ExpiredOf
<1> QED BY <1>3, <1>5, <1>6, <1>7, <1>8 DEF Books

----------------------------------------------------------------------------
(* Contents as totals *)

\* What one record adds to a gauge.
Weight(r, m) == IF PhaseOf(r) # m[1] THEN 0
                ELSE IF m[2] = "bytes" THEN r.size ELSE 1

Weights(records, m) == [k \in Keys |-> Weight(records[k], m)]

\* A record weighs a natural number on each meter.
LEMMA WeightType ==
  ASSUME NEW records \in [Keys -> Record], NEW m
  PROVE  \A k \in Keys : Weight(records[k], m) \in Nat /\ Weights(records, m)[k] \in Nat
BY DEF Weight, Weights, Record

\* Members of value 0 do not count.
LEMMA TotalDropsZeros ==
  ASSUME NEW K, NEW L, L \subseteq K, NEW f, NEW g,
         \A k \in L : f[k] = g[k],
         \A k \in K \ L : f[k] = 0
  PROVE  Total(K, f) = Total(L, g)
<1>1. Cells(K, f) = Cells(L, g)
  <2>1. \A k \in K \ L : 1..f[k] = {}
    OBVIOUS
  <2> QED BY <2>1 DEF Cells
<1> QED BY <1>1 DEF Total

\* A set has as many members as ones.
LEMMA TotalOnes ==
  ASSUME NEW K, IsFiniteSet(K), NEW f, \A k \in K : f[k] = 1
  PROVE  Total(K, f) = Cardinality(K)
<1>1. Cells(K, f) = K \X {1}
  <2>1. \A k \in K : 1..f[k] = {1}
    OBVIOUS
  <2> QED BY <2>1 DEF Cells
<1>2. IsFiniteSet({1}) /\ Cardinality({1}) = 1
  BY FS_Singleton
<1>3. Cardinality(K \X {1}) = Cardinality(K) * Cardinality({1})
  BY <1>2, FS_Product
<1>4. Cardinality(K) \in Nat
  BY FS_CardinalityType
<1> QED BY <1>1, <1>2, <1>3, <1>4 DEF Total

\* The volume of K is the total of the weights of its records.
LEMMA VolumeIsTotal ==
  ASSUME NEW records \in [Keys -> Record], NEW K \in SUBSET Keys, NEW m,
         NEW L, L = {k \in K : PhaseOf(records[k]) = m[1]}
  PROVE  (IF m[2] = "bytes" THEN Total(L, [k \in Keys |-> records[k].size])
                            ELSE Cardinality(L))
           = Total(K, Weights(records, m))
<1>1. \A k \in K \ L : Weights(records, m)[k] = 0
  BY DEF Weights, Weight
<1>2. CASE m[2] = "bytes"
  <2>1. \A k \in L : Weights(records, m)[k] = [j \in Keys |-> records[j].size][k]
    BY <1>2 DEF Weights, Weight
  <2> QED BY <1>1, <1>2, <2>1, TotalDropsZeros
<1>3. CASE m[2] # "bytes"
  <2>1. \A k \in L : Weights(records, m)[k] = 1
    BY <1>3 DEF Weights, Weight
  <2>2. Total(K, Weights(records, m)) = Total(L, Weights(records, m))
    BY <1>1, TotalDropsZeros
  <2>3. IsFiniteSet(L)
    BY KeysAssumption, FS_Subset
  <2> QED BY <1>3, <2>1, <2>2, <2>3, TotalOnes
<1> QED BY <1>2, <1>3

\* A volume is a total of weights.
LEMMA VolumeTotal ==
  ASSUME VariableTypes, NEW K \in SUBSET Keys, NEW m
  PROVE  Volume(K, m) = Total(K, Weights(entries, m)) /\ Volume(K, m) \in Nat
<1>1. entries \in [Keys -> Record] /\ IsFiniteSet(K)
  BY KeysAssumption, FS_Subset DEF VariableTypes
<1>2. Volume(K, m) = Total(K, Weights(entries, m))
  BY <1>1, VolumeIsTotal DEF Volume, InPhase, BytesOf, Sizes
<1>3. Total(K, Weights(entries, m)) \in Nat
  <2>1. \A k \in K : Weights(entries, m)[k] \in Nat
    BY <1>1, WeightType
  <2> QED BY <1>1, <2>1, TotalType
<1> QED BY <1>2, <1>3

\* The contents before and after a step.
LEMMA ContentsTotal ==
  ASSUME VariableTypes, entries' \in [Keys -> Record], NEW m \in Meters
  PROVE  /\ Contents[m] = Total(Stored, Weights(entries, m))
         /\ Contents'[m] = Total(Stored', Weights(entries', m))
<1>1. Contents[m] = Total(Stored, Weights(entries, m))
  BY VolumeTotal, StoredSubset DEF Contents
<1>2. Stored' \in SUBSET Keys
  BY DEF Stored
<1>3. Contents'[m] = Total(Stored', Weights(entries', m))
  BY <1>2, VolumeIsTotal DEF Contents, Volume, InPhase, BytesOf, Sizes
<1> QED BY <1>1, <1>3

\* Every record is in one of the two phases.
LEMMA PhasesPartition ==
  ASSUME VariableTypes, NEW K \in SUBSET Keys
  PROVE  /\ Cardinality(K) = Volume(K, <<"pending", "expired">>)
                              + Volume(K, <<"replay", "expired">>)
         /\ Cardinality(K) \in Nat
<1> DEFINE P == InPhase(K, "pending")
           Q == InPhase(K, "replay")
<1>1. K = P \cup Q /\ P \cap Q = {}
  BY DEF InPhase, PhaseOf
<1>2. IsFiniteSet(P) /\ IsFiniteSet(Q) /\ IsFiniteSet(K)
  BY KeysAssumption, FS_Subset DEF InPhase
<1>3. Cardinality(P \cup Q) = Cardinality(P) + Cardinality(Q)
  <2>1. Cardinality(P \cup Q) = Cardinality(P) + Cardinality(Q) - Cardinality(P \cap Q)
    BY <1>2, FS_Union
  <2>2. Cardinality(P \cap Q) = 0
    BY <1>1, FS_EmptySet
  <2>3. Cardinality(P) \in Nat /\ Cardinality(Q) \in Nat
    BY <1>2, FS_CardinalityType
  <2> HIDE DEF P, Q
  <2> QED BY <2>1, <2>2, <2>3
<1>4. /\ Volume(K, <<"pending", "expired">>) = Cardinality(P)
      /\ Volume(K, <<"replay", "expired">>) = Cardinality(Q)
  BY DEF Volume
<1> QED BY <1>1, <1>2, <1>3, <1>4, FS_CardinalityType

----------------------------------------------------------------------------
(* How the contents change *)

\* The records of R leave, as nodes are drained or one lookup evicts.
LEMMA EvictionLedger ==
  ASSUME VariableTypes, entries' \in [Keys -> Record], NEW R \in SUBSET Stored,
         NEW kept, kept = Stored \ R, \A k \in kept : entries'[k] = entries[k]
  PROVE  \A m \in Meters :
           /\ Total(kept, Weights(entries', m)) = Contents[m] - Volume(R, m)
           /\ Volume(R, m) \in Nat /\ Contents[m] \in Nat
<1> SUFFICES ASSUME NEW m \in Meters
             PROVE  /\ Total(kept, Weights(entries', m)) = Contents[m] - Volume(R, m)
                    /\ Volume(R, m) \in Nat /\ Contents[m] \in Nat
  OBVIOUS
<1>1. Contents[m] = Total(Stored, Weights(entries, m))
  BY ContentsTotal
<1>2. R \in SUBSET Keys /\ Stored \in SUBSET Keys
  BY DEF Stored
<1>3. Volume(R, m) = Total(R, Weights(entries, m))
  BY <1>2, VolumeTotal
<1>4. \A k \in Stored : Weights(entries, m)[k] \in Nat
  BY <1>2, WeightType DEF VariableTypes
<1>5. /\ Total(kept, Weights(entries, m)) = Total(Stored, Weights(entries, m)) - Total(R, Weights(entries, m))
      /\ Total(R, Weights(entries, m)) \in Nat
  BY <1>4, StoredFinite, TotalDifference
<1>6. Total(kept, Weights(entries, m)) = Total(kept, Weights(entries', m))
  <2>1. \A k \in kept : Weights(entries, m)[k] = Weights(entries', m)[k]
    BY <1>2 DEF Weights
  <2> QED BY <2>1, TotalSame
<1>7. Total(Stored, Weights(entries, m)) \in Nat
  BY <1>4, StoredFinite, TotalType
<1> QED BY <1>1, <1>3, <1>5, <1>6, <1>7

\* Evicted records are the ones that are gone.
LEMMA EvictionDrains ==
  ASSUME NEW R \in SUBSET Stored,
         \A k \in R : entries'[k] = NoRecord,
         \A k \in Stored \ R : entries'[k] = entries[k]
  PROVE  Drained = R
BY DEF Drained, Stored

\* Evictions lower the meters by the volume they free and count what expired.
LEMMA EvictionsType ==
  ASSUME VariableTypes, NEW R \in SUBSET Keys
  PROVE  /\ Evictions(R) \in [Meters -> Int]
         /\ \A m \in Counts : Evictions(R)[m] = -Volume(R, m)
         /\ ExpiredOf(Evictions(R)) = Cardinality(R)
<1>1. \A m \in Meters : Volume(R, m) \in Nat
  BY VolumeTotal
<1>2. Evictions(R) \in [Meters -> Int] /\ \A m \in Counts : Evictions(R)[m] = -Volume(R, m)
  BY <1>1 DEF Evictions, Counts, Meters
<1>3. /\ Evictions(R)[<<"pending", "expired">>] = Volume(R, <<"pending", "expired">>)
      /\ Evictions(R)[<<"replay", "expired">>] = Volume(R, <<"replay", "expired">>)
  BY MetersOf DEF Evictions
<1> QED BY <1>2, <1>3, PhasesPartition DEF ExpiredOf

\* An eviction keeps the books.
LEMMA EvictionBooks ==
  ASSUME IInv, VariableTypes', EventTypes, Books,
         NEW a \in Actors, owed[a] = NoEvents, NEW R \in SUBSET Stored, Evict(R),
         Owes(a, Evictions(R)), UNCHANGED <<gauges, nextVer, UnreportedBy>>
  PROVE  EventTypes' /\ Books'
<1>0. VariableTypes /\ R \in SUBSET Keys /\ IsFiniteSet(R)
  BY KeysAssumption, FS_Subset DEF IInv, Stored
<1>1. /\ Stored' = Stored \ R
      /\ \A k \in Stored \ R : entries'[k] = entries[k]
      /\ entries' \in [Keys -> Record]
  BY EvictEffect DEF IInv
<1>2. \A m \in Meters : /\ Contents'[m] = Contents[m] - Volume(R, m)
                        /\ Volume(R, m) \in Nat /\ Contents[m] \in Nat
  BY <1>0, <1>1, EvictionLedger, ContentsTotal
<1>3. /\ UnreportedSum' = UnreportedSum
      /\ UnreportedSum' \in [Meters -> Nat]
  BY <1>0, UnreportedSame
<1>4. /\ Evictions(R) \in [Meters -> Int]
      /\ \A m \in Counts : Evictions(R)[m] = -Volume(R, m)
      /\ ExpiredOf(Evictions(R)) = Cardinality(R)
  BY <1>0, EvictionsType
<1>5. Cardinality(Stored \ R) = Cardinality(Stored) - Cardinality(R)
  <2>1. Cardinality(Stored \ R) = Cardinality(Stored) - Cardinality(Stored \cap R)
    BY StoredFinite, FS_Difference
  <2>2. Stored \cap R = R
    OBVIOUS
  <2> QED BY <2>1, <2>2
<1>6. /\ Cardinality(Stored) \in Nat /\ Cardinality(R) \in Nat
      /\ nextVer \in Nat
  BY <1>0, StoredFinite, FS_CardinalityType DEF VariableTypes
<1>7. nextVer' - Cardinality(Stored') = nextVer - Cardinality(Stored) + ExpiredOf(Evictions(R))
  BY <1>1, <1>4, <1>5, <1>6
<1>8. \A m \in Counts :
        Contents'[m] = Contents[m] + Evictions(R)[m] + (UnreportedSum'[m] - UnreportedSum[m])
  BY <1>2, <1>3, <1>4, MetersOf
<1> HIDE DEF Books, Contents, UnreportedSum, UnreportedBy
<1> QED BY <1>0, <1>3, <1>4, <1>7, <1>8, BooksStep

\* What a new record is to the gauges.
LEMMA AdditionType ==
  ASSUME NEW rec \in Record
  PROVE  /\ Addition(rec) \in [Meters -> Nat]
         /\ rec.restoredAt = 0 => \A m \in Counts : Addition(rec)[m] = Weight(rec, m)
         /\ \A m \in Meters \ Counts : Addition(rec)[m] = 0
         /\ ExpiredOf(Addition(rec)) = 0
<1>1. Addition(rec) \in [Meters -> Nat]
  BY DEF Addition, Record
<1>2. rec.restoredAt = 0 => \A m \in Counts : Addition(rec)[m] = Weight(rec, m)
  BY MetersOf DEF Addition, Weight, PhaseOf, Counts, Phases
<1>3. \A m \in Meters \ Counts : Addition(rec)[m] = 0
  BY DEF Addition, Meters, Counts, Phases
<1>4. /\ <<"pending", "expired">> \in Meters \ Counts
      /\ <<"replay", "expired">> \in Meters \ Counts
  BY DEF Phases, Meters, Counts
<1> QED BY <1>1, <1>2, <1>3, <1>4 DEF ExpiredOf

\* Who is between its publication and its report, and with what.
KeepsPublished ==
  \A d \in Clients : /\ pc'[d] = "published" <=> pc[d] = "published"
                     /\ pc[d] = "published" => held'[d] = held[d]

\* What a client has published and not reported, after a step.
LEMMA UnreportedNext ==
  /\ UnreportedBy' = [d \in Clients |-> UnreportedBy'[d]]
  /\ \A d \in Clients :
       /\ pc[d] = "published" => UnreportedBy[d] = Addition(held[d])
       /\ pc[d] # "published" => UnreportedBy[d] = NoEvents
       /\ pc'[d] = "published" => UnreportedBy'[d] = Addition(held'[d])
       /\ pc'[d] # "published" => UnreportedBy'[d] = NoEvents
<1>1. \A d \in Clients :
        /\ UnreportedBy'[d] = Unreported(d)'
        /\ UnreportedBy[d] = Unreported(d)
  BY DEF UnreportedBy
<1>2. UnreportedBy' = [d \in Clients |-> UnreportedBy'[d]]
  BY DEF UnreportedBy
<1> HIDE DEF UnreportedBy
<1> QED BY <1>1, <1>2 DEF Unreported, Addition

\* A step that publishes and reports nothing leaves the same unreported.
LEMMA PublishedKept ==
  ASSUME KeepsPublished
  PROVE  UnreportedBy' = UnreportedBy
BY DEF KeepsPublished, UnreportedBy, Unreported, Addition

\* A publication keeps the books: the new record is in the store and on its way to
\* the gauges, and what the drain before it removed is owed.
LEMMA PublishBooks ==
  ASSUME IInv, VariableTypes', EventTypes, Books, NEW c \in Clients, NEW x \in Extras,
         owed[c] = NoEvents, Publish(c, MinSize[c] + x),
         Owes(c, Evictions(Drained)), UNCHANGED gauges
  PROVE  EventTypes' /\ Books'
<1> DEFINE k == KeyOf[c]
           rec == [version |-> NextVersion, author |-> c, createdAt |-> now,
                   restoredAt |-> 0, size |-> MinSize[c] + x]
<1>0. VariableTypes /\ k \in Keys /\ c \in Actors /\ pc[c] = "build"
  BY KeysAssumption DEF IInv, Publish, Actors
<1>1. rec \in Record /\ rec.restoredAt = 0 /\ rec # NoRecord
  BY <1>0, SizesAssumption DEF VariableTypes, Record, NextVersion, NoRecord
<1>2. k \notin Stored
  BY <1>0 DEF IInv, CreatorsMatch, CreatorOwnsKey, Stored
<1>3. PICK B \in Batches : entries' = [Without(Reclaimed(B)) EXCEPT ![k] = rec]
  BY DEF Publish
<1>4. /\ nextVer' = nextVer + 1 /\ held' = [held EXCEPT ![c] = rec]
      /\ pc' = [pc EXCEPT ![c] = "published"]
  BY DEF Publish, NextVersion
<1> HIDE DEF rec
<1> DEFINE R == Reclaimed(B)
           kept == Stored \ R
<1>5. R \in SUBSET Stored /\ R \in SUBSET Keys
  BY DEF Reclaimed, Stored
<1>6. /\ entries' = [j \in Keys |-> IF j = k THEN rec ELSE IF j \in R THEN NoRecord ELSE entries[j]]
      /\ entries' \in [Keys -> Record]
  BY <1>0, <1>1, <1>3 DEF Without, VariableTypes
<1>7. /\ Stored' = kept \cup {k} /\ k \notin kept
      /\ \A j \in kept : entries'[j] = entries[j]
      /\ entries'[k] = rec
  BY <1>0, <1>1, <1>2, <1>5, <1>6 DEF Stored
<1>8. Drained = R
  BY <1>2, <1>5, <1>6, EvictionDrains DEF Stored
<1> HIDE DEF R, k
<1>9. ASSUME NEW m \in Meters
      PROVE  /\ Contents'[m] = Contents[m] - Volume(R, m) + Weight(rec, m)
             /\ Volume(R, m) \in Nat /\ Contents[m] \in Nat /\ Weight(rec, m) \in Nat
  <2>1. /\ Total(kept, Weights(entries', m)) = Contents[m] - Volume(R, m)
        /\ Volume(R, m) \in Nat /\ Contents[m] \in Nat
    BY <1>0, <1>5, <1>6, <1>7, EvictionLedger
  <2>2. Contents'[m] = Total(kept \cup {k}, Weights(entries', m))
    BY <1>0, <1>6, <1>7, ContentsTotal
  <2>3. \A j \in kept \cup {k} : Weights(entries', m)[j] \in Nat
    BY <1>0, <1>6, WeightType DEF Stored
  <2>4. Weights(entries', m)[k] = Weight(rec, m)
    BY <1>0, <1>7 DEF Weights
  <2>5. IsFiniteSet(kept)
    BY StoredFinite, FS_Subset
  <2>6. Total(kept \cup {k}, Weights(entries', m)) = Total(kept, Weights(entries', m)) + Weights(entries', m)[k]
    BY <1>7, <2>3, <2>5, TotalAdd
  <2>7. Weight(rec, m) \in Nat
    BY <2>3, <2>4
  <2> QED BY <2>1, <2>2, <2>4, <2>6, <2>7
<1>10. /\ Addition(rec) \in [Meters -> Nat]
       /\ \A m \in Counts : Addition(rec)[m] = Weight(rec, m)
       /\ \A m \in Meters \ Counts : Addition(rec)[m] = 0
  BY <1>1, AdditionType
<1>11. UnreportedBy' = [UnreportedBy EXCEPT ![c] = Addition(rec)] /\ UnreportedBy[c] = NoEvents
  <2>1. \A d \in Clients : /\ pc'[d] = IF d = c THEN "published" ELSE pc[d]
                           /\ held'[d] = IF d = c THEN rec ELSE held[d]
    BY <1>0, <1>4 DEF VariableTypes
  <2>2. UnreportedBy[c] = NoEvents
    BY <1>0, UnreportedNext
  <2>3. UnreportedBy'[c] = Addition(rec)
    BY <2>1, UnreportedNext
  <2>4. ASSUME NEW d \in Clients, d # c
        PROVE  UnreportedBy'[d] = UnreportedBy[d]
    BY <2>1, <2>4, UnreportedNext
  <2>5. UnreportedBy = [d \in Clients |-> UnreportedBy[d]]
    BY DEF UnreportedBy
  <2> HIDE DEF UnreportedBy
  <2> QED BY <2>2, <2>3, <2>4, <2>5, UnreportedNext
<1>12. UnreportedSum \in [Meters -> Nat] /\ UnreportedSum' \in [Meters -> Nat]
       /\ \A m \in Meters : UnreportedSum'[m] = UnreportedSum[m] + Addition(rec)[m]
  <2>1. \A m \in Meters : UnreportedBy[c][m] = 0
    BY <1>11 DEF NoEvents
  <2>2. UnreportedSum \in [Meters -> Nat]
    BY <1>0, UnreportedType
  <2>3. UnreportedSum' \in [Meters -> Nat]
        /\ \A m \in Meters : UnreportedSum'[m] = UnreportedSum[m] - UnreportedBy[c][m] + Addition(rec)[m]
    BY <1>0, <1>10, <1>11, UnreportedUpdate
  <2> HIDE DEF UnreportedSum, UnreportedBy
  <2> QED BY <1>10, <2>1, <2>2, <2>3
<1>13. /\ Evictions(R) \in [Meters -> Int]
       /\ \A m \in Counts : Evictions(R)[m] = -Volume(R, m)
       /\ ExpiredOf(Evictions(R)) = Cardinality(R)
  BY <1>0, <1>5, EvictionsType
<1>14. /\ Cardinality(Stored') = Cardinality(Stored) - Cardinality(R) + 1
       /\ Cardinality(Stored) \in Nat /\ Cardinality(R) \in Nat
  <2>1. IsFiniteSet(R) /\ IsFiniteSet(kept)
    BY <1>5, StoredFinite, FS_Subset
  <2>2. Cardinality(kept) = Cardinality(Stored) - Cardinality(Stored \cap R)
    BY StoredFinite, FS_Difference
  <2>3. Stored \cap R = R
    BY <1>5
  <2>4. Cardinality(kept \cup {k}) = Cardinality(kept) + 1
    BY <1>7, <2>1, FS_AddElement
  <2>5. Cardinality(Stored) \in Nat /\ Cardinality(R) \in Nat
    BY <2>1, StoredFinite, FS_CardinalityType
  <2> QED BY <1>7, <2>2, <2>3, <2>4, <2>5
<1>15. nextVer' - Cardinality(Stored') = nextVer - Cardinality(Stored) + ExpiredOf(Evictions(R))
  BY <1>0, <1>4, <1>13, <1>14 DEF VariableTypes
<1> HIDE DEF kept, Contents, UnreportedSum, UnreportedBy, Books
<1>16. \A m \in Counts :
        Contents'[m] = Contents[m] + Evictions(R)[m] + (UnreportedSum'[m] - UnreportedSum[m])
  BY <1>9, <1>10, <1>12, <1>13, MetersOf
<1>17. \A m \in Meters \ Counts : UnreportedSum'[m] = UnreportedSum[m]
  BY <1>10, <1>12
<1> QED BY <1>0, <1>8, <1>12, <1>13, <1>15, <1>16, <1>17, BooksStep

\* The creator reports what it published.
LEMMA FinishBooks ==
  ASSUME IInv, VariableTypes', EventTypes, Books, NEW c \in Clients,
         owed[c] = NoEvents, FinishPublished(c),
         Owes(c, Addition(held[c])), UNCHANGED gauges
  PROVE  EventTypes' /\ Books'
<1>0. VariableTypes /\ c \in Actors /\ held[c] \in Record /\ pc[c] = "published"
  BY DEF IInv, FinishPublished, Actors, VariableTypes
<1>1. entries' = entries /\ nextVer' = nextVer
  BY DEF FinishPublished, storeVars
<1>2. /\ Addition(held[c]) \in [Meters -> Nat]
      /\ \A m \in Meters \ Counts : Addition(held[c])[m] = 0
      /\ ExpiredOf(Addition(held[c])) = 0
  BY <1>0, AdditionType
<1>3. /\ UnreportedBy' = [UnreportedBy EXCEPT ![c] = NoEvents]
      /\ UnreportedBy[c] = Addition(held[c])
  <2>1. \A d \in Clients : /\ pc'[d] = IF d = c THEN "done" ELSE pc[d]
                           /\ d # c => held'[d] = held[d]
    BY <1>0 DEF FinishPublished, Return, VariableTypes
  <2>2. UnreportedBy[c] = Addition(held[c])
    BY <1>0, UnreportedNext
  <2>3. UnreportedBy'[c] = NoEvents
    BY <2>1, UnreportedNext
  <2>4. ASSUME NEW d \in Clients, d # c
        PROVE  UnreportedBy'[d] = UnreportedBy[d]
    BY <2>1, <2>4, UnreportedNext
  <2>5. UnreportedBy = [d \in Clients |-> UnreportedBy[d]]
    BY DEF UnreportedBy
  <2> HIDE DEF UnreportedBy
  <2> QED BY <2>2, <2>3, <2>4, <2>5, UnreportedNext
<1>4. NoEvents \in [Meters -> Nat] /\ \A m \in Meters : NoEvents[m] = 0
  BY DEF NoEvents
<1>5. UnreportedSum \in [Meters -> Nat]
  BY <1>0, UnreportedType
<1>6. UnreportedSum' \in [Meters -> Nat]
      /\ \A m \in Meters :
           UnreportedSum'[m] = UnreportedSum[m] - UnreportedBy[c][m] + NoEvents[m]
  BY <1>0, <1>3, <1>4, UnreportedUpdate
<1>7. Stored' = Stored /\ Contents' = Contents
  BY <1>1 DEF Stored, Contents, Volume, InPhase, BytesOf, Sizes
<1>8. \A m \in Meters : Contents[m] \in Nat
  BY <1>0, VolumeTotal, StoredSubset DEF Contents
<1>9. /\ nextVer \in Nat /\ Cardinality(Stored) \in Nat
      /\ Cardinality(Stored') = Cardinality(Stored)
  BY <1>0, <1>7, StoredFinite, FS_CardinalityType DEF VariableTypes
<1> HIDE DEF Contents, UnreportedSum, UnreportedBy, Books
<1>10. \A m \in Counts :
        Contents'[m] = Contents[m] + Addition(held[c])[m] + (UnreportedSum'[m] - UnreportedSum[m])
  BY <1>2, <1>3, <1>4, <1>5, <1>6, <1>7, <1>8, MetersOf
<1>11. \A m \in Meters \ Counts : UnreportedSum'[m] = UnreportedSum[m]
  BY <1>2, <1>3, <1>4, <1>5, <1>6
<1>12. nextVer' - Cardinality(Stored') = nextVer - Cardinality(Stored) + ExpiredOf(Addition(held[c]))
  BY <1>1, <1>2, <1>9
<1>13. Addition(held[c]) \in [Meters -> Int]
  BY <1>2
<1> QED BY <1>0, <1>6, <1>10, <1>11, <1>12, <1>13, BooksStep

\* What the change of phase is to the gauges.
LEMMA MoveType ==
  ASSUME NEW rec \in Record, NEW at \in Nat \ {0}, rec.restoredAt = 0
  PROVE  /\ Move(rec) \in [Meters -> Int]
         /\ \A m \in Counts :
              Move(rec)[m] = Weight([rec EXCEPT !.restoredAt = at], m) - Weight(rec, m)
         /\ ExpiredOf(Move(rec)) = 0
<1> DEFINE new == [rec EXCEPT !.restoredAt = at]
<1>1. Move(rec) \in [Meters -> Int]
  BY DEF Move, Record
<1>2. /\ PhaseOf(rec) = "pending" /\ PhaseOf(new) = "replay"
      /\ rec.size \in Nat /\ new.size = rec.size
  BY DEF Record, PhaseOf
<1> HIDE DEF new
<1>3. ASSUME NEW m \in Counts
      PROVE  Move(rec)[m] = Weight(new, m) - Weight(rec, m)
  <2>1. \/ m = <<"pending", "records">> \/ m = <<"pending", "bytes">>
        \/ m = <<"replay", "records">> \/ m = <<"replay", "bytes">>
    BY <1>3 DEF Counts, Phases
  <2>2. m \in Meters
    BY <1>3, MetersOf
  <2> QED BY <1>2, <2>1, <2>2 DEF Move, Weight
<1>4. /\ Move(rec)[<<"pending", "expired">>] = 0
      /\ Move(rec)[<<"replay", "expired">>] = 0
  BY MetersOf DEF Move
<1> QED BY <1>1, <1>3, <1>4 DEF ExpiredOf, new

\* A restore moves the record between the gauges of the two phases.
LEMMA MarkBooks ==
  ASSUME IInv, VariableTypes', EventTypes, Books, NEW c \in Clients,
         owed[c] = NoEvents, MarkRestored(c),
         Owes(c, Move(entries[KeyOf[c]])), UNCHANGED gauges
  PROVE  EventTypes' /\ Books'
<1> DEFINE k == KeyOf[c]
           old == entries[k]
           new == [old EXCEPT !.restoredAt = now]
<1>0. VariableTypes /\ c \in Actors /\ k \in Keys
  BY KeysAssumption DEF IInv, Actors
<1>1. /\ old \in Record /\ old # NoRecord /\ old.restoredAt = 0
      /\ now \in Nat \ {0}
  BY <1>0 DEF MarkRestored, Marks, VariableTypes
<1>2. /\ entries' = [entries EXCEPT ![k] = new]
      /\ nextVer' = nextVer
      /\ pc' = pc /\ held' = held
  BY <1>0 DEF MarkRestored, VariableTypes
<1>3. /\ new \in Record /\ new # NoRecord
  BY <1>1 DEF Record, NoRecord
<1>4. /\ \A m \in Counts : Move(old)[m] = Weight(new, m) - Weight(old, m)
      /\ Move(old) \in [Meters -> Int]
      /\ ExpiredOf(Move(old)) = 0
  BY <1>1, MoveType
<1> HIDE DEF new, old, k
<1>5. /\ entries' \in [Keys -> Record]
      /\ \A j \in Keys \ {k} : entries'[j] = entries[j]
      /\ entries'[k] = new /\ entries[k] = old
  BY <1>0, <1>2, <1>3 DEF VariableTypes, old
<1>6. Stored' = Stored /\ k \in Stored
  BY <1>0, <1>1, <1>3, <1>5 DEF Stored
<1>7. ASSUME NEW m \in Counts
      PROVE  Contents'[m] = Contents[m] + Move(old)[m] /\ Contents[m] \in Nat
  <2> DEFINE f == Weights(entries, m)
             g == Weights(entries', m)
  <2>0. m \in Meters
    BY <1>7, MetersOf
  <2>1. Contents[m] = Total(Stored, f) /\ Contents'[m] = Total(Stored, g)
    BY <1>0, <1>5, <1>6, <2>0, ContentsTotal
  <2>2. /\ \A j \in Stored : f[j] \in Nat /\ g[j] \in Nat
    BY <1>0, <1>5, WeightType, StoredSubset DEF VariableTypes
  <2>3. /\ \A j \in Stored \ {k} : f[j] = g[j]
        /\ f[k] = Weight(old, m) /\ g[k] = Weight(new, m)
    BY <1>0, <1>5, StoredSubset DEF Weights
  <2> HIDE DEF f, g
  <2>4. Total(Stored, g) = Total(Stored, f) - f[k] + g[k] /\ Total(Stored, f) \in Nat
    BY <1>6, <2>2, <2>3, StoredFinite, TotalUpdate, TotalType
  <2>5. f[k] \in Nat /\ g[k] \in Nat
    BY <1>6, <2>2
  <2>6. Move(old)[m] = g[k] - f[k]
    BY <1>4, <1>7, <2>3
  <2> QED BY <2>1, <2>4, <2>5, <2>6
<1>8. /\ UnreportedSum' = UnreportedSum
      /\ UnreportedSum' \in [Meters -> Nat]
  BY <1>0, <1>2, PublishedKept, UnreportedSame DEF KeepsPublished
<1>9. /\ nextVer \in Nat /\ Cardinality(Stored) \in Nat
      /\ Cardinality(Stored') = Cardinality(Stored)
  BY <1>0, <1>6, StoredFinite, FS_CardinalityType DEF VariableTypes
<1> HIDE DEF Contents, UnreportedSum, UnreportedBy, Books
<1>10. \A m \in Counts :
        Contents'[m] = Contents[m] + Move(old)[m] + (UnreportedSum'[m] - UnreportedSum[m])
  BY <1>4, <1>7, <1>8, MetersOf
<1>11. nextVer' - Cardinality(Stored') = nextVer - Cardinality(Stored) + ExpiredOf(Move(old))
  BY <1>2, <1>4, <1>9
<1>12. Owes(c, Move(old))
  BY DEF old, k
<1> QED BY <1>0, <1>4, <1>8, <1>10, <1>11, <1>12, BooksStep

\* A drain owes what it reclaimed.
LEMMA DrainBooks ==
  ASSUME IInv, VariableTypes', EventTypes, Books, KeepsPublished,
         NEW a \in Actors, owed[a] = NoEvents,
         NEW B \in Batches, Drain(B, Reclaimed(B)),
         Owes(a, Evictions(Drained)), UNCHANGED <<gauges, nextVer>>
  PROVE  EventTypes' /\ Books'
<1> DEFINE R == Reclaimed(B)
<1>1. R \in SUBSET Stored /\ Evict(R)
  BY DEF Drain, Reclaimed
<1>2. /\ \A k \in R : entries'[k] = NoRecord
      /\ \A k \in Stored \ R : entries'[k] = entries[k]
  BY <1>1 DEF Evict, Without, Stored
<1> HIDE DEF R
<1>3. Drained = R
  BY <1>1, <1>2, EvictionDrains
<1> QED BY <1>1, <1>3, PublishedKept, EvictionBooks

\* A lookup owes the expired record it removed.
LEMMA LookupBooks ==
  ASSUME IInv, VariableTypes', EventTypes, Books, NEW c \in Clients,
         owed[c] = NoEvents, GetExpired(c) \/ CreateEvicts(c),
         Owes(c, Evictions({KeyOf[c]})), UNCHANGED gauges
  PROVE  EventTypes' /\ Books'
<1>1. /\ {KeyOf[c]} \in SUBSET Stored /\ Evict({KeyOf[c]})
      /\ UNCHANGED <<nextVer, pc, held>>
  BY KeysAssumption DEF GetExpired, CreateEvicts, Stored, clientVars
<1>2. UnreportedBy' = UnreportedBy
  BY <1>1, PublishedKept DEF KeepsPublished
<1> QED BY <1>1, <1>2, EvictionBooks DEF Actors

\* A step that neither stores, removes, publishes nor owes.
LEMMA QuietBooks ==
  ASSUME EventTypes, Books, KeepsPublished,
         UNCHANGED <<entries, nextVer, gauges, owed>>
  PROVE  EventTypes' /\ Books'
<1>1. Stored' = Stored /\ Contents' = Contents
  BY DEF Stored, Contents, Volume, InPhase, BytesOf, Sizes
<1>2. UnreportedSum' = UnreportedSum
  BY PublishedKept DEF UnreportedSum
<1>3. Owed' = Owed
  BY DEF Owed
<1>4. EventTypes'
  BY DEF EventTypes
<1> HIDE DEF Contents, UnreportedSum, Owed
<1>5. Final' = Final
  BY <1>2, <1>3 DEF Final
<1> QED BY <1>1, <1>4, <1>5 DEF Books, ExpiredOf

\* A delivery moves events from the debts to the gauges.
LEMMA DeliveryBooks ==
  ASSUME VariableTypes, EventTypes, Books, NEW a \in Actors, Delivers(a)
  PROVE  EventTypes' /\ Books'
<1>1. NoEvents \in [Meters -> Int] /\ \A m \in Meters : NoEvents[m] = 0
  BY DEF NoEvents
<1>2. Owes(a, NoEvents) /\ gauges' = [m \in Meters |-> gauges[m] + owed[a][m]]
  BY DEF Delivers
<1>3. /\ owed' \in [Actors -> [Meters -> Int]]
      /\ Owed \in [Meters -> Int] /\ Owed' \in [Meters -> Int]
      /\ \A m \in Meters : Owed'[m] = Owed[m] - owed[a][m]
  <2>1. /\ owed' \in [Actors -> [Meters -> Int]]
        /\ Owed' \in [Meters -> Int]
        /\ \A m \in Meters : Owed'[m] = Owed[m] - owed[a][m] + NoEvents[m]
    BY <1>1, <1>2, OwedUpdate
  <2>2. Owed \in [Meters -> Int]
    BY OwedType
  <2>3. \A m \in Meters : owed[a][m] \in Int
    BY DEF EventTypes
  <2> HIDE DEF Owed
  <2> QED BY <1>1, <2>1, <2>2, <2>3
<1>4. /\ UnreportedSum' = UnreportedSum /\ Contents' = Contents /\ Stored' = Stored
      /\ nextVer' = nextVer
  BY DEF Delivers, vars, UnreportedSum, UnreportedBy, Unreported, Addition, Contents,
     Stored, Volume, InPhase, BytesOf, Sizes
<1>5. UnreportedSum \in [Meters -> Nat]
  BY UnreportedType
<1>6. EventTypes'
  BY <1>2, <1>3 DEF EventTypes
<1> HIDE DEF Contents, UnreportedSum, Owed
<1>7. ASSUME NEW m \in Meters
      PROVE  gauges'[m] + (Owed'[m] + UnreportedSum'[m]) = gauges[m] + (Owed[m] + UnreportedSum[m])
  <2>1. /\ gauges[m] \in Int /\ owed[a][m] \in Int
        /\ gauges'[m] = gauges[m] + owed[a][m]
    BY <1>2 DEF EventTypes
  <2>2. Owed[m] \in Int /\ Owed'[m] = Owed[m] - owed[a][m]
    BY <1>3
  <2>3. UnreportedSum[m] \in Int /\ UnreportedSum'[m] = UnreportedSum[m]
    BY <1>4, <1>5
  <2> QED BY <2>1, <2>2, <2>3
<1>8. Final' = Final
  BY <1>7 DEF Final
<1> QED BY <1>4, <1>6, <1>8 DEF Books, ExpiredOf

----------------------------------------------------------------------------
(* The invariant *)

\* A client's step keeps the books.
LEMMA ClientBooks ==
  ASSUME IInv, VariableTypes', EventTypes, Books, NEW c \in Clients, ClientActs(c)
  PROVE  EventTypes' /\ Books'
<1>0. c \in Actors /\ owed[c] = NoEvents /\ UNCHANGED gauges
  BY DEF ClientActs, Actors
<1>1. CASE /\ GetExpired(c) \/ CreateEvicts(c)
           /\ Owes(c, Evictions({KeyOf[c]}))
  BY <1>0, <1>1, LookupBooks
<1>2. CASE (BecomeCreator(c) \/ RefuseReservation(c)) /\ Owes(c, Evictions(Drained))
  <2>1. PICK B \in Batches : Drain(B, Reclaimed(B))
    BY <1>2 DEF BecomeCreator, RefuseReservation
  <2>2. KeepsPublished /\ nextVer' = nextVer
    BY <1>2 DEF BecomeCreator, RefuseReservation, Goto, Return, KeepsPublished, IInv, VariableTypes
  <2> QED BY <1>0, <1>2, <2>1, <2>2, DrainBooks
<1>3. CASE \E x \in Extras : RefusePublish(c, MinSize[c] + x) /\ Owes(c, Evictions(Drained))
  <2>1. PICK x \in Extras : RefusePublish(c, MinSize[c] + x) /\ Owes(c, Evictions(Drained))
    BY <1>3
  <2>2. PICK B \in Batches : Drain(B, Reclaimed(B))
    BY <2>1 DEF RefusePublish
  <2>3. KeepsPublished /\ nextVer' = nextVer
    BY <2>1 DEF RefusePublish, Goto, KeepsPublished, IInv, VariableTypes
  <2> QED BY <1>0, <2>1, <2>2, <2>3, DrainBooks
<1>4. CASE \E x \in Extras : Publish(c, MinSize[c] + x) /\ Owes(c, Evictions(Drained))
  BY <1>0, <1>4, PublishBooks
<1>5. CASE FinishPublished(c) /\ Owes(c, Addition(held[c]))
  BY <1>0, <1>5, FinishBooks
<1>6. CASE MarkRestored(c) /\ Owes(c, Move(entries[KeyOf[c]]))
  BY <1>0, <1>6, MarkBooks
<1>7. CASE Silent(c) /\ UNCHANGED owed
  <2>1. UNCHANGED <<entries, nextVer>>
    BY <1>7 DEF Silent, GetHit, Call, CreateCancelled, CreateFindsRecord, CreateWaits,
       BuildFails, FinishRefused, WaitStep, WaitGetsRecord, WaitRetries, WaitGetsError,
       WaitCancelled, WaitTimesOut, WaitEnds, storeVars
  <2>2. KeepsPublished
    BY <1>7 DEF Silent, GetHit, Call, CreateCancelled, CreateFindsRecord, CreateWaits,
       BuildFails, FinishRefused, WaitStep, WaitGetsRecord, WaitRetries, WaitGetsError,
       WaitCancelled, WaitTimesOut, WaitEnds, Return, Goto, KeepsPublished, IInv, VariableTypes
  <2> QED BY <1>0, <1>7, <2>1, <2>2, QuietBooks
<1> QED BY <1>1, <1>2, <1>3, <1>4, <1>5, <1>6, <1>7 DEF ClientActs, Reports

\* Every step does.
LEMMA BooksKept ==
  ASSUME IInv, IInv', EventTypes, Books, [ObservedNext]_observed
  PROVE  EventTypes' /\ Books'
<1>0. VariableTypes /\ VariableTypes'
  BY DEF IInv
<1>1. ASSUME NEW c \in Clients, ClientActs(c)
      PROVE  EventTypes' /\ Books'
  BY <1>0, <1>1, ClientBooks
<1>2. CASE CleanupActs
  <2>0. NoClient \in Actors /\ owed[NoClient] = NoEvents /\ UNCHANGED gauges
    BY <1>2 DEF CleanupActs, Actors
  <2>1. CASE CleanupTick /\ UNCHANGED owed
    BY <2>0, <2>1, QuietBooks DEF CleanupTick, storeVars, clientVars, KeepsPublished
  <2>2. CASE CleanupBatch /\ Owes(NoClient, Evictions(Drained))
    <3>1. PICK B \in Batches : Drain(B, Reclaimed(B))
      BY <2>2 DEF CleanupBatch
    <3>2. KeepsPublished /\ nextVer' = nextVer
      BY <2>2 DEF CleanupBatch, clientVars, KeepsPublished
    <3> QED BY <1>0, <2>0, <2>2, <3>1, <3>2, DrainBooks
  <2> QED BY <1>2, <2>1, <2>2 DEF CleanupActs
<1>3. ASSUME NEW a \in Actors, Delivers(a)
      PROVE  EventTypes' /\ Books'
  BY <1>0, <1>3, DeliveryBooks
<1>4. CASE Surroundings
  BY <1>4, QuietBooks DEF Surroundings, Tick, AllDone, Cancel, vars, storeVars,
     clientVars, KeepsPublished
<1>5. CASE UNCHANGED observed
  BY <1>5, QuietBooks DEF observed, vars, KeepsPublished
<1> QED BY <1>1, <1>2, <1>3, <1>4, <1>5 DEF ObservedNext

\* The books are empty at the start ...
LEMMA InitBooks == ObservedInit => IInv /\ EventTypes /\ Books
<1> SUFFICES ASSUME ObservedInit PROVE IInv /\ EventTypes /\ Books
  OBVIOUS
<1>1. Init /\ IInv /\ VariableTypes
  BY InitInvariant DEF ObservedInit, IInv
<1>2. \A m \in Meters : NoEvents[m] = 0
  BY DEF NoEvents
<1>3. EventTypes
  BY DEF ObservedInit, EventTypes, NoEvents
<1>4. \A m \in Meters : gauges[m] = 0 /\ \A a \in Actors : owed[a][m] = 0
  BY <1>2 DEF ObservedInit
<1>5. ASSUME NEW m \in Meters
      PROVE  Balance(Actors, [a \in Actors |-> owed[a][m]]) = 0
  <2> DEFINE f == [a \in Actors |-> owed[a][m]]
  <2>1. \A a \in Actors : f[a] = 0
    BY <1>4
  <2> HIDE DEF f
  <2> QED BY <2>1, ActorsFinite, BalanceZero DEF f
<1>6. ASSUME NEW m \in Meters
      PROVE  Total(Clients, [c \in Clients |-> UnreportedBy[c][m]]) = 0
  <2> DEFINE f == [c \in Clients |-> UnreportedBy[c][m]]
             g == [c \in {} |-> 0]
  <2>1. \A c \in Clients : f[c] = 0
    BY <1>1, <1>2 DEF Init, UnreportedBy, Unreported
  <2> HIDE DEF f, g
  <2>2. Total(Clients, f) = Total({}, g)
    BY <2>1, TotalDropsZeros
  <2> QED BY <2>2, TotalEmpty DEF f
<1>7. Stored = {}
  BY <1>1 DEF Init, Stored
<1>8. ASSUME NEW m \in Meters
      PROVE  Contents[m] = 0
  <2>1. Volume({}, m) = Total({}, Weights(entries, m))
    BY <1>1, VolumeTotal
  <2> QED BY <1>7, <2>1, TotalEmpty DEF Contents
<1>9. \A m \in Meters : Final[m] = 0
  BY <1>4, <1>5, <1>6 DEF Final, Owed, UnreportedSum
<1>10. nextVer = 0 /\ Cardinality(Stored) = 0
  BY <1>1, <1>7, FS_EmptySet DEF Init
<1> HIDE DEF Final, Contents
<1>11. Books
  BY <1>8, <1>9, <1>10, MetersOf DEF Books, ExpiredOf
<1> QED BY <1>1, <1>3, <1>11

\* ... and kept throughout.
LEMMA BooksInvariant == ObservedSpec => [](IInv /\ EventTypes /\ Books)
<1>1. ASSUME IInv, EventTypes, Books, [ObservedNext]_observed
      PROVE  IInv' /\ EventTypes' /\ Books'
  <2>1. IInv'
    BY <1>1, ObservedStep, InductiveStep
  <2> QED BY <1>1, <2>1, BooksKept
<1> QED BY InitBooks, <1>1, PTL DEF ObservedSpec

\* Whatever the interleaving, the limits and the sizes, and however late each
\* goroutine reports: once everything owed is delivered the gauges show the
\* records and bytes stored in each phase, and every record ever published is
\* stored or counted as expired.
THEOREM GaugesAgreeHolds == ObservedSpec => []GaugesAgree
<1>1. IInv /\ EventTypes /\ Books => GaugesAgree
  BY BooksAgree DEF IInv
<1> QED BY <1>1, BooksInvariant, PTL
=============================================================================
