---------------------------- MODULE MemoryStore -----------------------------
(***************************************************************************)
(* The in-memory correspondence store, store.Memory                        *)
(* (src/internal/store/store.go).                                          *)
(*                                                                         *)
(* Every client is one request goroutine.  It looks its key up with Get,   *)
(* it may run one Create for the key, and it may call MarkRestored with    *)
(* the record it was given, however late.  An action is one critical       *)
(* section of the store's mutex together with the goroutine-local code     *)
(* around it; what the code does in two critical sections (publish a       *)
(* record, then wake the waiters) is two actions.  Build runs between two  *)
(* critical sections, so the other clients, the clock and the cleanup      *)
(* goroutine all move while it runs.                                       *)
(*                                                                         *)
(* Texts, masks and replacement tables are abstracted to the client that   *)
(* built them ("author") and to the size the store accounts for.  A time   *)
(* of 0 is Go's zero time.Time, version 0 is the zero Record.              *)
(*                                                                         *)
(* A definition named Bug... is no part of the model: it is a mistake one   *)
(* could make in the definition that follows it, kept to show that the      *)
(* properties notice.                                                       *)
(***************************************************************************)
EXTENDS Integers, FiniteSets, Totals

CONSTANTS
  Keys,              \* scoped payload ids
  Clients,           \* request goroutines, each making at most one Create
  NoClient,          \* the nil *inflight
  KeyOf,             \* [Clients -> Keys]: the key of each request
  TTL,               \* limits.TTL; 0 disables expiry
  ReplayTTL,         \* limits.ReplayTTL; 0 disables the replay phase
  MaxEntries,        \* limits.MaxEntries; 0 is "no limit"
  MaxBytes,          \* limits.MaxBytes; 0 is "no limit"
  MaxRecordBytes,    \* limits.MaxRecordBytes; 0 is "no limit"
  CreateWait,        \* limits.CreateWait; 0 waits without a timeout
  CleanupInterval,   \* limits.CleanupInterval; 0 means no background cleanup
  MinSize,           \* [Clients -> Nat]: MinRecordSize of each request
  InflightOverhead,  \* inflightOverhead
  Extras,            \* what the mask and the table may add to MinSize
  DrainBatch,        \* drainBatchSize
  MaxClock           \* bound: the clock stops here

ASSUME KeysAssumption ==
  /\ IsFiniteSet(Keys)
  /\ IsFiniteSet(Clients)
  /\ NoClient \notin Clients
  /\ KeyOf \in [Clients -> Keys]

ASSUME LimitsAssumption ==
  /\ TTL \in Nat /\ ReplayTTL \in Nat
  /\ MaxEntries \in Nat /\ MaxBytes \in Nat /\ MaxRecordBytes \in Nat
  /\ CreateWait \in Nat /\ CleanupInterval \in Nat

ASSUME SizesAssumption ==
  /\ MinSize \in [Clients -> Nat]
  /\ InflightOverhead \in Nat
  /\ Extras \subseteq Nat
  /\ DrainBatch \in Nat \ {0}
  /\ MaxClock \in Nat \ {0}

VARIABLES
  now,              \* the store's clock
  entries,          \* [Keys -> Record]; NoRecord where the map has no entry
  bytes,            \* s.bytes
  expiries,         \* the nodes of the expiry heap
  inflight,         \* [Keys -> the client whose inflight struct is mapped]
  infs,             \* [Clients -> the inflight struct the client created]
  nextVer,          \* s.nextVer
  reservedBytes,    \* s.reservedBytes
  reservedEntries,  \* s.reservedEntries
  cleaner,          \* the cleanup goroutine: "waiting" or "draining"
  pc,               \* where each client is in its request
  cancelled,        \* whether the client's context is done
  waitOn,           \* the inflight struct a waiting client blocks on
  ret,              \* what the client's last call returned
  held              \* the record the client was given

storeVars  == <<entries, bytes, expiries, nextVer>>
reserved   == <<reservedBytes, reservedEntries>>
clientVars == <<pc, cancelled, waitOn, ret, held>>
vars == <<now, entries, bytes, expiries, inflight, infs, nextVer,
          reservedBytes, reservedEntries, cleaner,
          pc, cancelled, waitOn, ret, held>>

----------------------------------------------------------------------------
(* Records, deadlines and sizes *)

Record == [version: Nat, author: Clients \cup {NoClient},
           createdAt: Nat, restoredAt: Nat, size: Nat]

\* Record{}: what a lookup of an absent key yields.
NoRecord == [version |-> 0, author |-> NoClient,
             createdAt |-> 0, restoredAt |-> 0, size |-> 0]

Errors == {"nil", "context", "build", "capacity"}

Inflight == [done: BOOLEAN, rec: Record, err: Errors]

Stored == {k \in Keys : entries[k] # NoRecord}

RecordExpiry(r) == IF r.restoredAt # 0 THEN r.restoredAt + ReplayTTL
                                       ELSE r.createdAt + TTL

IsExpired(r) == TTL > 0 /\ RecordExpiry(r) <= now

\* The heap node of a record of key k.
Node(k, at) == [key |-> k, at |-> at]

\* The entries without the records of K, and the bytes they account for.
Without(K)  == [k \in Keys |-> IF k \in K THEN NoRecord ELSE entries[k]]
Sizes       == [k \in Keys |-> entries[k].size]
BytesOf(K)  == Total(K, Sizes)

\* The queue after the node the index holds for k is deleted.
BugKeepNode(k)   == expiries
RemoveNode(k) == {n \in expiries : n.key # k}

\* What a creator reserves before it builds.
Reserve(c) == MinSize[c] + InflightOverhead

----------------------------------------------------------------------------
(* The bounded expiry drain *)

Due == {n \in expiries : n.at <= now}

\* The nodes one drain pops: the earliest DrainBatch due ones, ties in the
\* order the heap happens to hold them.
EarliestDue ==
  {B \in SUBSET Due :
     /\ Cardinality(B) <= DrainBatch
     /\ Cardinality(B) < DrainBatch => B = Due
     /\ \A n \in B, m \in Due \ B : n.at <= m.at}

\* Without a TTL nothing is drained.
Batches == IF TTL = 0 THEN {{}} ELSE EarliestDue

\* The keys whose records go when the nodes of B are popped: a node whose key
\* is gone, or whose record has a later deadline, removes nothing.
Reclaimed(B) ==
  {k \in Stored : RecordExpiry(entries[k]) <= now /\ \E n \in B : n.key = k}

----------------------------------------------------------------------------
(* Capacity *)

BugRoomIgnoresReservations(R, c) ==
  /\ MaxEntries > 0 => Cardinality(Stored \ R) < MaxEntries
  /\ MaxBytes > 0 => bytes - BytesOf(R) + Reserve(c) <= MaxBytes

\* reserveCapacityLocked, after a drain that reclaimed the keys of R.
RoomToReserve(R, c) ==
  /\ MaxEntries > 0 => Cardinality(Stored \ R) + reservedEntries < MaxEntries
  /\ MaxBytes > 0 =>
       bytes - BytesOf(R) + reservedBytes + Reserve(c) <= MaxBytes

\* publishCapacityLocked, after a drain that reclaimed the keys of R.
RoomToPublish(R, c, size) ==
  /\ MaxRecordBytes > 0 => size <= MaxRecordBytes
  /\ MaxBytes > 0 =>
       bytes - BytesOf(R) + reservedBytes - Reserve(c) + size <= MaxBytes

----------------------------------------------------------------------------
(* Pieces of the actions *)

\* The records of K leave the store.
Evict(K) ==
  /\ entries' = Without(K)
  /\ bytes' = bytes - BytesOf(K)

\* A drain pops the nodes of B; R are the keys whose records it reclaims.
Drain(B, R) == Evict(R) /\ expiries' = expiries \ B

\* The call of c returns: Create and Get set what it was given.
Return(c, outcome, rec) ==
  /\ pc'     = [pc EXCEPT ![c] = "done"]
  /\ ret'    = [ret EXCEPT ![c] = outcome]
  /\ held'   = [held EXCEPT ![c] = rec]
  /\ waitOn' = [waitOn EXCEPT ![c] = NoClient]
  /\ UNCHANGED cancelled

\* c moves on inside its call.
Goto(c, label) ==
  /\ pc' = [pc EXCEPT ![c] = label]
  /\ UNCHANGED <<cancelled, waitOn, ret, held>>

\* c's reservation goes back to the budget.
BugReleaseBytesOnly(c) ==
  reservedBytes' = reservedBytes - Reserve(c) /\ UNCHANGED reservedEntries

ReleaseReservation(c) ==
  /\ reservedBytes' = reservedBytes - Reserve(c)
  /\ reservedEntries' = reservedEntries - 1

\* The mapping of c's key is deleted, but only if it still is c's struct.
BugUnmapBlindly(c) == inflight' = [inflight EXCEPT ![KeyOf[c]] = NoClient]

Unmap(c) ==
  inflight' = [inflight EXCEPT ![KeyOf[c]] = IF @ = c THEN NoClient ELSE @]

\* c's struct gets its result and its done channel is closed.
BugWakeNobody(c, rec, err) == UNCHANGED infs

Wake(c, rec, err) ==
  infs' = [infs EXCEPT ![c] = [done |-> TRUE, rec |-> rec, err |-> err]]

----------------------------------------------------------------------------
(* Get *)

\* The key holds a live record.
GetHit(c) ==
  LET rec == entries[KeyOf[c]] IN
  /\ pc[c] = "idle"
  /\ rec # NoRecord /\ ~IsExpired(rec)
  /\ Return(c, "hit", rec)
  /\ UNCHANGED <<now, storeVars, reserved, inflight, infs, cleaner>>

\* The key holds an expired record: it is removed and the lookup misses.
GetExpired(c) ==
  LET k == KeyOf[c] IN
  /\ pc[c] = "idle"
  /\ entries[k] # NoRecord /\ IsExpired(entries[k])
  /\ Evict({k})
  /\ expiries' = RemoveNode(k)
  /\ UNCHANGED <<now, nextVer, reserved, inflight, infs, cleaner, clientVars>>

----------------------------------------------------------------------------
(* Create, up to the end of its first critical section *)

Call(c) ==
  /\ pc[c] = "idle"
  /\ Goto(c, "enter")
  /\ UNCHANGED <<now, storeVars, reserved, inflight, infs, cleaner>>

\* The loop starts with a check of the context.
CreateCancelled(c) ==
  /\ pc[c] = "enter"
  /\ cancelled[c]
  /\ Return(c, "context", NoRecord)
  /\ UNCHANGED <<now, storeVars, reserved, inflight, infs, cleaner>>

CreateFindsRecord(c) ==
  LET rec == entries[KeyOf[c]] IN
  /\ pc[c] = "enter" /\ ~cancelled[c]
  /\ rec # NoRecord /\ ~IsExpired(rec)
  /\ Return(c, "existing", rec)
  /\ UNCHANGED <<now, storeVars, reserved, inflight, infs, cleaner>>

\* An expired record is evicted and the loop starts again.
CreateEvicts(c) ==
  LET k == KeyOf[c] IN
  /\ pc[c] = "enter" /\ ~cancelled[c]
  /\ entries[k] # NoRecord /\ IsExpired(entries[k])
  /\ Evict({k})
  /\ expiries' = RemoveNode(k)
  /\ UNCHANGED <<now, nextVer, reserved, inflight, infs, cleaner, clientVars>>

CreateWaits(c) ==
  LET k == KeyOf[c] IN
  /\ pc[c] = "enter" /\ ~cancelled[c]
  /\ entries[k] = NoRecord
  /\ inflight[k] # NoClient
  /\ pc' = [pc EXCEPT ![c] = "wait"]
  /\ waitOn' = [waitOn EXCEPT ![c] = inflight[k]]
  /\ UNCHANGED <<now, storeVars, reserved, inflight, infs, cleaner,
                 cancelled, ret, held>>

\* The key holds no record and nobody creates it.
BugMayCreateTwice(c) == entries[KeyOf[c]] = NoRecord
MayCreate(c) == entries[KeyOf[c]] = NoRecord /\ inflight[KeyOf[c]] = NoClient

\* c becomes the creator of the key: it drains a batch and takes a reservation ...
BecomeCreator(c) ==
  /\ pc[c] = "enter" /\ ~cancelled[c]
  /\ MayCreate(c)
  /\ \E B \in Batches :
       /\ RoomToReserve(Reclaimed(B), c)
       /\ Drain(B, Reclaimed(B))
  /\ inflight' = [inflight EXCEPT ![KeyOf[c]] = c]
  /\ reservedBytes' = reservedBytes + Reserve(c)
  /\ reservedEntries' = reservedEntries + 1
  /\ Goto(c, "build")
  /\ UNCHANGED <<now, nextVer, infs, cleaner>>

\* ... or finds that not even the lower bound of its record fits.
RefuseReservation(c) ==
  /\ pc[c] = "enter" /\ ~cancelled[c]
  /\ MayCreate(c)
  /\ \E B \in Batches :
       /\ ~RoomToReserve(Reclaimed(B), c)
       /\ Drain(B, Reclaimed(B))
  /\ Return(c, "capacity", NoRecord)
  /\ UNCHANGED <<now, nextVer, reserved, inflight, infs, cleaner>>

----------------------------------------------------------------------------
(* Create, the creator's side *)

\* build fails, or the context is done when it returns: failInflight.
BuildFails(c, err) ==
  /\ pc[c] = "build"
  /\ err = "context" => cancelled[c]
  /\ ReleaseReservation(c)
  /\ Unmap(c)
  /\ Wake(c, NoRecord, err)
  /\ Return(c, err, NoRecord)
  /\ UNCHANGED <<now, storeVars, cleaner>>

\* The version a published record gets.
BugCountedVersion == Cardinality(Stored) + 1
NextVersion    == nextVer + 1

\* The queue after a drain of B and the publication of a record of k.
BugUnqueued(B, k) == expiries \ B
Queued(B, k) ==
  IF TTL > 0 THEN (expiries \ B) \cup {Node(k, now + TTL)} ELSE expiries

\* The record replaces the reservation.
Publish(c, size) ==
  LET k   == KeyOf[c]
      rec == [version |-> NextVersion, author |-> c,
              createdAt |-> now, restoredAt |-> 0, size |-> size]
  IN
  /\ pc[c] = "build" /\ ~cancelled[c]
  /\ \E B \in Batches :
       LET R == Reclaimed(B) IN
       /\ RoomToPublish(R, c, size)
       /\ entries' = [Without(R) EXCEPT ![k] = rec]
       /\ bytes' = bytes - BytesOf(R) + size
       /\ expiries' = Queued(B, k)
  /\ nextVer' = NextVersion
  /\ ReleaseReservation(c)
  /\ pc' = [pc EXCEPT ![c] = "published"]
  /\ held' = [held EXCEPT ![c] = rec]
  /\ UNCHANGED <<now, inflight, infs, cleaner, cancelled, waitOn, ret>>

\* The finished record does not fit: the reservation and the mapping go in
\* this critical section, the waiters are woken in the next one.
RefusePublish(c, size) ==
  /\ pc[c] = "build" /\ ~cancelled[c]
  /\ \E B \in Batches :
       /\ ~RoomToPublish(Reclaimed(B), c, size)
       /\ Drain(B, Reclaimed(B))
  /\ ReleaseReservation(c)
  /\ Unmap(c)
  /\ Goto(c, "refused")
  /\ UNCHANGED <<now, nextVer, infs, cleaner>>

\* finishInflight: the waiters are woken with the record ...
FinishPublished(c) ==
  /\ pc[c] = "published"
  /\ Unmap(c)
  /\ Wake(c, held[c], "nil")
  /\ Return(c, "created", held[c])
  /\ UNCHANGED <<now, storeVars, reserved, cleaner>>

\* ... or with the refusal.
BugFinishReleases(c) ==
  /\ pc[c] = "refused"
  /\ ReleaseReservation(c)
  /\ Unmap(c)
  /\ Wake(c, NoRecord, "capacity")
  /\ Return(c, "capacity", NoRecord)
  /\ UNCHANGED <<now, storeVars, cleaner>>

FinishRefused(c) ==
  /\ pc[c] = "refused"
  /\ Unmap(c)
  /\ Wake(c, NoRecord, "capacity")
  /\ Return(c, "capacity", NoRecord)
  /\ UNCHANGED <<now, storeVars, reserved, cleaner>>

----------------------------------------------------------------------------
(* Create, the waiter's side: waitInflight and what the loop does with it *)

WaitEnds(c, outcome, rec) ==
  /\ Return(c, outcome, rec)
  /\ UNCHANGED <<now, storeVars, reserved, inflight, infs, cleaner>>

WaitGetsRecord(c) ==
  /\ pc[c] = "wait"
  /\ infs[waitOn[c]].done /\ infs[waitOn[c]].err = "nil"
  /\ WaitEnds(c, "existing", infs[waitOn[c]].rec)

\* The creator was cancelled by its own context: the loop starts again.
WaitRetries(c) ==
  /\ pc[c] = "wait"
  /\ infs[waitOn[c]].done /\ infs[waitOn[c]].err = "context"
  /\ pc' = [pc EXCEPT ![c] = "enter"]
  /\ waitOn' = [waitOn EXCEPT ![c] = NoClient]
  /\ UNCHANGED <<now, storeVars, reserved, inflight, infs, cleaner,
                 cancelled, ret, held>>

WaitGetsError(c) ==
  /\ pc[c] = "wait"
  /\ infs[waitOn[c]].done
  /\ infs[waitOn[c]].err \in {"build", "capacity"}
  /\ WaitEnds(c, infs[waitOn[c]].err, NoRecord)

WaitCancelled(c) ==
  /\ pc[c] = "wait"
  /\ cancelled[c]
  /\ WaitEnds(c, "context", NoRecord)

WaitTimesOut(c) ==
  /\ pc[c] = "wait"
  /\ CreateWait > 0
  /\ WaitEnds(c, "busy", NoRecord)

----------------------------------------------------------------------------
(* MarkRestored: the pending record the client was given enters its replay
   phase.  The deadline of the record is not looked at.  Every other outcome
   returns false and changes nothing. *)

BugMarksAnyVersion(rec, version) == rec # NoRecord /\ rec.restoredAt = 0 /\ ReplayTTL > 0
Marks(rec, version) ==
  rec # NoRecord /\ rec.version = version /\ rec.restoredAt = 0 /\ ReplayTTL > 0

MarkRestored(c) ==
  LET k == KeyOf[c] IN
  /\ pc[c] = "done"
  /\ held[c] # NoRecord
  /\ Marks(entries[k], held[c].version)
  /\ entries' = [entries EXCEPT ![k].restoredAt = now]
  /\ expiries' = RemoveNode(k) \cup {Node(k, now + ReplayTTL)}
  /\ ret' = [ret EXCEPT ![c] = "restored"]
  /\ UNCHANGED <<now, bytes, nextVer, reserved, inflight, infs, cleaner,
                 pc, cancelled, waitOn, held>>

----------------------------------------------------------------------------
(* The cleanup goroutine: a tick starts drainAll, which drains batch after
   batch, releasing the mutex in between, until one reclaims nothing. *)

CleanupTick ==
  /\ CleanupInterval > 0
  /\ cleaner = "waiting"
  /\ cleaner' = "draining"
  /\ UNCHANGED <<now, storeVars, reserved, inflight, infs, clientVars>>

CleanupBatch ==
  /\ cleaner = "draining"
  /\ \E B \in Batches :
       /\ Drain(B, Reclaimed(B))
       /\ cleaner' = IF Reclaimed(B) = {} THEN "waiting" ELSE "draining"
  /\ UNCHANGED <<now, nextVer, reserved, inflight, infs, clientVars>>

----------------------------------------------------------------------------
(* The environment *)

Tick ==
  /\ now < MaxClock
  /\ now' = now + 1
  /\ UNCHANGED <<storeVars, reserved, inflight, infs, cleaner, clientVars>>

\* The client goes away; its context is done from then on.
Cancel(c) ==
  /\ pc[c] \in {"enter", "wait", "build"}
  /\ ~cancelled[c]
  /\ cancelled' = [cancelled EXCEPT ![c] = TRUE]
  /\ UNCHANGED <<now, storeVars, reserved, inflight, infs, cleaner,
                 pc, waitOn, ret, held>>

\* Every request was answered.
AllDone == (\A c \in Clients : pc[c] = "done") /\ UNCHANGED vars

----------------------------------------------------------------------------
(* Specification *)

Init ==
  /\ now = 1
  /\ entries = [k \in Keys |-> NoRecord]
  /\ bytes = 0
  /\ expiries = {}
  /\ inflight = [k \in Keys |-> NoClient]
  /\ infs = [c \in Clients |-> [done |-> FALSE, rec |-> NoRecord, err |-> "nil"]]
  /\ nextVer = 0
  /\ reservedBytes = 0
  /\ reservedEntries = 0
  /\ cleaner = "waiting"
  /\ pc = [c \in Clients |-> "idle"]
  /\ cancelled = [c \in Clients |-> FALSE]
  /\ waitOn = [c \in Clients |-> NoClient]
  /\ ret = [c \in Clients |-> "none"]
  /\ held = [c \in Clients |-> NoRecord]

GetStep(c) == GetHit(c) \/ GetExpired(c)

EnterStep(c) ==
  \/ CreateCancelled(c)
  \/ CreateFindsRecord(c)
  \/ CreateEvicts(c)
  \/ CreateWaits(c)
  \/ BecomeCreator(c)
  \/ RefuseReservation(c)

BuildStep(c) ==
  \/ \E err \in {"build", "context"} : BuildFails(c, err)
  \/ \E x \in Extras : Publish(c, MinSize[c] + x)
  \/ \E x \in Extras : RefusePublish(c, MinSize[c] + x)

FinishStep(c) == FinishPublished(c) \/ FinishRefused(c)

WaitStep(c) == WaitGetsRecord(c) \/ WaitRetries(c) \/ WaitGetsError(c)

Next ==
  \/ \E c \in Clients :
       \/ GetStep(c)
       \/ Call(c)
       \/ EnterStep(c)
       \/ BuildStep(c)
       \/ FinishStep(c)
       \/ WaitStep(c)
       \/ WaitCancelled(c)
       \/ WaitTimesOut(c)
       \/ MarkRestored(c)
       \/ Cancel(c)
  \/ CleanupTick
  \/ CleanupBatch
  \/ Tick
  \/ AllDone

Spec == Init /\ [][Next]_vars

----------------------------------------------------------------------------
(* Invariants *)

Outcomes == {"none", "hit", "existing", "created", "restored",
             "context", "build", "capacity", "busy"}

VariableTypes ==
  /\ now \in Nat \ {0}
  /\ entries \in [Keys -> Record]
  /\ expiries \subseteq [key: Keys, at: Nat]
  /\ inflight \in [Keys -> Clients \cup {NoClient}]
  /\ infs \in [Clients -> Inflight]
  /\ nextVer \in Nat
  /\ cleaner \in {"waiting", "draining"}
  /\ pc \in [Clients -> {"idle", "enter", "wait", "build",
                         "published", "refused", "done"}]
  /\ cancelled \in [Clients -> BOOLEAN]
  /\ waitOn \in [Clients -> Clients \cup {NoClient}]
  /\ ret \in [Clients -> Outcomes]
  /\ held \in [Clients -> Record]

\* Every variable has its type; the counters of store.go:258, :272 and :273,
\* which only additions and subtractions maintain, never go negative.
TypeOK ==
  /\ VariableTypes
  /\ bytes \in Nat
  /\ reservedBytes \in Nat
  /\ reservedEntries \in Nat

Builders == {c \in Clients : pc[c] = "build"}

ReservedBy == [c \in Clients |-> Reserve(c)]

\* Each record that can expire has exactly one node in the expiry queue, at the
\* deadline of its current phase, and the queue holds nothing else: eviction,
\* re-creation and the move to the replay phase leave no stale node behind.
ExpiryIndex ==
  expiries = {Node(k, RecordExpiry(entries[k])) :
                k \in {j \in Stored : TTL > 0 \/ entries[j].restoredAt # 0}}

\* The byte counter is the sum of the sizes of the stored records, on whatever
\* path records came and went.
BytesAccounted == bytes = BytesOf(Stored)

\* A reservation is held by exactly the creators that are building, in the
\* amount each took: every outcome of a build releases it exactly once.
ReservationsAccounted ==
  /\ reservedEntries = Cardinality(Builders)
  /\ reservedBytes = Total(Builders, ReservedBy)

\* The counters that the limits are compared with are exact.
Accounted == BytesAccounted /\ ReservationsAccounted

\* Stored records and the reservations of creators together never exceed the
\* limits, so concurrent creators cannot collectively overrun them.
WithinLimits ==
  /\ MaxEntries > 0 => Cardinality(Stored) + Cardinality(Builders) <= MaxEntries
  /\ MaxBytes > 0 =>
       BytesOf(Stored) + Total(Builders, ReservedBy) <= MaxBytes

\* A client that builds is the mapped creator of its key and the key holds no
\* record: nobody else builds for the key, and publishing overwrites nothing.
CreatorOwnsKey ==
  \A c \in Clients :
    pc[c] = "build" => /\ inflight[KeyOf[c]] = c
                       /\ entries[KeyOf[c]] = NoRecord

\* A waiting client blocks on a struct whose result is there, or whose creator
\* still has to deliver it: no waiter is left with a channel nobody closes.
NoLostWaiter ==
  \A c \in Clients :
    pc[c] = "wait" =>
      LET w == waitOn[c] IN
      /\ w # NoClient
      /\ infs[w].done \/ pc[w] \in {"build", "published", "refused"}

\* A version stands for one record: whoever holds it, and whatever is stored
\* under it, agree on who built it, when and how large it is.
VersionsIdentify ==
  LET Same(r, s) == r.version = s.version /\ r.version # 0 =>
                      /\ r.author = s.author
                      /\ r.createdAt = s.createdAt
                      /\ r.size = s.size
  IN
  /\ \A c, d \in Clients : Same(held[c], held[d])
  /\ \A c \in Clients, k \in Keys : Same(held[c], entries[k])
  /\ \A j, k \in Keys : j # k /\ entries[j].version # 0
                          => entries[j].version # entries[k].version

----------------------------------------------------------------------------
(* Action properties *)

\* A record leaves the store only after its own deadline, whichever of Get,
\* Create, the capacity drain and the cleanup removes it.
OnlyExpiredRecordsLeave ==
  [][\A k \in Keys :
       k \in Stored /\ entries'[k].version # entries[k].version
         => IsExpired(entries[k])]_vars

\* The move to the replay phase happens to the record some client was given,
\* in the call of that client: a late MarkRestored never completes the record
\* that was re-created for the same key.
RestoredByItsReader ==
  [][\A k \in Keys :
       entries[k].restoredAt = 0 /\ entries'[k].restoredAt # 0 =>
         \E c \in Clients :
           /\ ret[c] # "restored" /\ ret'[c] = "restored"
           /\ held[c].author = entries[k].author
           /\ held[c].createdAt = entries[k].createdAt]_vars

----------------------------------------------------------------------------
(* Liveness *)

\* With the background cleanup, an expired record does not stay: it is removed,
\* or a restore that was under way moves it to the replay phase.
ExpiredReclaimed ==
  \A k \in Keys :
    (k \in Stored /\ IsExpired(entries[k])) ~>
      ~(k \in Stored /\ IsExpired(entries[k]))

----------------------------------------------------------------------------
(* Refinement *)

\* A stored record as the interface shows it: without its accounted size.
Shown(r) == [version |-> r.version, author |-> r.author,
             createdAt |-> r.createdAt, restoredAt |-> r.restoredAt]

\* The client that builds for k: the mapped creator until it has published.
BuilderOf(k) == IF inflight[k] # NoClient /\ pc[inflight[k]] = "build"
                THEN inflight[k] ELSE NoClient

Promise == INSTANCE Correspondence WITH
  record  <- [k \in Keys |-> Shown(entries[k])],
  builder <- [k \in Keys |-> BuilderOf(k)],
  latest  <- nextVer

\* The store keeps the promise of its interface.
KeepsPromise == Promise!ASpec

----------------------------------------------------------------------------
(* What comments and documents of the code say and the code does not do *)

\* README.md:360: once its TTL has passed, the key of a pending record is a new
\* key; the record does not come back to life.
ExpiredStaysExpired ==
  [][\A k \in Stored :
       /\ IsExpired(entries[k])
       /\ entries'[k].version = entries[k].version
       => TTL > 0 /\ RecordExpiry(entries'[k]) <= now']_vars
=============================================================================
