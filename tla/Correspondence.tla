--------------------------- MODULE Correspondence ---------------------------
(***************************************************************************)
(* What the Store interface promises (src/internal/store/store.go:87-117), *)
(* without capacity, heap, reservations, waiters or locks: the life of the *)
(* correspondence of each key.                                             *)
(*                                                                         *)
(*   absent --Begin--> being built --Publish--> pending --Restore--> replay *)
(*      ^                  |                       |                   |    *)
(*      +-----Abandon------+                       +------Forget-------+    *)
(*                                                                         *)
(* At most one client builds for a key, only while the key has no record.  *)
(* Records are forgotten only after their deadline, in any step and any    *)
(* number at a time.  MemoryStore implements this specification.           *)
(***************************************************************************)
EXTENDS Integers

CONSTANTS Keys, Clients, NoClient, KeyOf, TTL, ReplayTTL

VARIABLES
  now,      \* the clock
  record,   \* [Keys -> Record]; Absent where the key has no record
  builder,  \* [Keys -> the client that builds for the key, or NoClient]
  latest    \* the version of the latest record

avars == <<now, record, builder, latest>>

Absent == [version |-> 0, author |-> NoClient, createdAt |-> 0, restoredAt |-> 0]

Deadline(r) == IF r.restoredAt = 0 THEN r.createdAt + TTL
                                   ELSE r.restoredAt + ReplayTTL

\* The keys whose records may be forgotten.
Lapsed == {k \in Keys : record[k] # Absent /\ TTL > 0 /\ Deadline(record[k]) <= now}

Forgetting(S) == [k \in Keys |-> IF k \in S THEN Absent ELSE record[k]]

AInit ==
  /\ now = 1
  /\ record = [k \in Keys |-> Absent]
  /\ builder = [k \in Keys |-> NoClient]
  /\ latest = 0

Advance ==
  /\ now' = now + 1
  /\ UNCHANGED <<record, builder, latest>>

Forget(S) ==
  /\ record' = Forgetting(S)
  /\ UNCHANGED <<now, builder, latest>>

Begin(c, S) ==
  /\ record[KeyOf[c]] = Absent
  /\ builder[KeyOf[c]] = NoClient
  /\ builder' = [builder EXCEPT ![KeyOf[c]] = c]
  /\ record' = Forgetting(S)
  /\ UNCHANGED <<now, latest>>

Abandon(c, S) ==
  /\ builder[KeyOf[c]] = c
  /\ builder' = [builder EXCEPT ![KeyOf[c]] = NoClient]
  /\ record' = Forgetting(S)
  /\ UNCHANGED <<now, latest>>

APublish(c, S) ==
  /\ builder[KeyOf[c]] = c
  /\ record[KeyOf[c]] = Absent
  /\ latest' = latest + 1
  /\ builder' = [builder EXCEPT ![KeyOf[c]] = NoClient]
  /\ record' = [Forgetting(S) EXCEPT ![KeyOf[c]] =
                  [version |-> latest + 1, author |-> c,
                   createdAt |-> now, restoredAt |-> 0]]
  /\ UNCHANGED now

Restore(k) ==
  /\ record[k] # Absent
  /\ record[k].restoredAt = 0
  /\ ReplayTTL > 0
  /\ record' = [record EXCEPT ![k].restoredAt = now]
  /\ UNCHANGED <<now, builder, latest>>

ANext ==
  \/ Advance
  \/ \E S \in SUBSET Lapsed :
       \/ Forget(S)
       \/ \E c \in Clients : Begin(c, S) \/ Abandon(c, S) \/ APublish(c, S)
  \/ \E k \in Keys : Restore(k)

ASpec == AInit /\ [][ANext]_avars
=============================================================================
