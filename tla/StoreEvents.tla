----------------------------- MODULE StoreEvents -----------------------------
(***************************************************************************)
(* The store's events and the gauges they drive (src/internal/store/        *)
(* store.go, src/internal/metrics/metrics.go).  The store works out its      *)
(* events under the mutex and reports them after it has let go of it, so    *)
(* whoever made a step still owes its events while the others move on; it    *)
(* delivers them before its own next step.  The calls of one delivery only   *)
(* add to the gauges and are one step here.  Refusals, which only count up,  *)
(* are left out.                                                            *)
(***************************************************************************)
EXTENDS MemoryStore

VARIABLES
  gauges,  \* the store's metrics by phase: records, bytes, expired records
  owed     \* events that an actor has not delivered yet

observed == <<vars, gauges, owed>>

\* The cleanup goroutine reports as NoClient does.
Actors == Clients \cup {NoClient}
Phases == {"pending", "replay"}
Meters == Phases \X {"records", "bytes", "expired"}
NoEvents == [m \in Meters |-> 0]

PhaseOf(rec) == IF rec.restoredAt # 0 THEN "replay" ELSE "pending"

InPhase(K, p) == {k \in K : PhaseOf(entries[k]) = p}

\* What the records of K, as they are stored, are to the gauges of a phase.
Volume(K, m) == IF m[2] = "bytes" THEN BytesOf(InPhase(K, m[1]))
                                  ELSE Cardinality(InPhase(K, m[1]))

\* pendingEvents.remove for the records of K.
Evictions(K) ==
  [m \in Meters |-> IF m[2] = "expired" THEN Volume(K, m) ELSE -Volume(K, m)]

\* reportAdded
Addition(rec) ==
  [m \in Meters |-> CASE m = <<"pending", "records">> -> 1
                      [] m = <<"pending", "bytes">>   -> rec.size
                      [] OTHER                        -> 0]

BugMove(rec) ==
  [m \in Meters |-> CASE m = <<"replay", "records">> -> 1
                      [] m = <<"replay", "bytes">>   -> rec.size
                      [] OTHER                       -> 0]

\* MarkRestored: the record changes its phase.
Move(rec) ==
  [m \in Meters |-> CASE m = <<"pending", "records">> -> -1
                      [] m = <<"pending", "bytes">>   -> -rec.size
                      [] m = <<"replay", "records">>  -> 1
                      [] m = <<"replay", "bytes">>    -> rec.size
                      [] OTHER                        -> 0]

Owes(a, events) == owed' = [owed EXCEPT ![a] = events]
Drained == {k \in Stored : entries'[k] = NoRecord}

\* The steps that report something.
Reports(c) ==
  \/ GetExpired(c) /\ Owes(c, Evictions({KeyOf[c]}))
  \/ CreateEvicts(c) /\ Owes(c, Evictions({KeyOf[c]}))
  \/ BecomeCreator(c) /\ Owes(c, Evictions(Drained))
  \/ RefuseReservation(c) /\ Owes(c, Evictions(Drained))
  \/ \E x \in Extras : Publish(c, MinSize[c] + x) /\ Owes(c, Evictions(Drained))
  \/ \E x \in Extras : RefusePublish(c, MinSize[c] + x) /\ Owes(c, Evictions(Drained))
  \/ FinishPublished(c) /\ Owes(c, Addition(held[c]))
  \/ MarkRestored(c) /\ Owes(c, Move(entries[KeyOf[c]]))

Silent(c) ==
  \/ GetHit(c) \/ Call(c)
  \/ CreateCancelled(c) \/ CreateFindsRecord(c) \/ CreateWaits(c)
  \/ \E err \in {"build", "context"} : BuildFails(c, err)
  \/ FinishRefused(c)
  \/ WaitStep(c) \/ WaitCancelled(c) \/ WaitTimesOut(c)

\* The actor calls the observer with what it owes.
Delivers(a) ==
  /\ owed[a] # NoEvents
  /\ gauges' = [m \in Meters |-> gauges[m] + owed[a][m]]
  /\ Owes(a, NoEvents)
  /\ UNCHANGED vars

ClientActs(c) ==
  /\ owed[c] = NoEvents
  /\ Reports(c) \/ (Silent(c) /\ UNCHANGED owed)
  /\ UNCHANGED gauges

CleanupActs ==
  /\ owed[NoClient] = NoEvents
  /\ \/ CleanupTick /\ UNCHANGED owed
     \/ CleanupBatch /\ Owes(NoClient, Evictions(Drained))
  /\ UNCHANGED gauges

Surroundings ==
  /\ Tick \/ AllDone \/ \E c \in Clients : Cancel(c)
  /\ UNCHANGED <<gauges, owed>>

ObservedInit == Init /\ gauges = NoEvents /\ owed = [a \in Actors |-> NoEvents]

ObservedNext ==
  \/ \E c \in Clients : ClientActs(c)
  \/ CleanupActs
  \/ \E a \in Actors : Delivers(a)
  \/ Surroundings

ObservedSpec == ObservedInit /\ [][ObservedNext]_observed

----------------------------------------------------------------------------
(* Properties *)

\* What is due to a gauge: what the actors owe it, and the records that were
\* published and whose creators have not reported them.
Unreported(c) == IF pc[c] = "published" THEN Addition(held[c]) ELSE NoEvents
Outstanding(m) ==
  Balance(Actors, [a \in Actors |-> owed[a][m]])
    + Total(Clients, [c \in Clients |-> Unreported(c)[m]])

\* The gauges and what is still on its way to them give the store's contents by
\* phase, whoever removed, moved or replaced a record and however late its
\* events arrive; and every published record is stored or counted as expired.
GaugesAgree ==
  /\ \A m \in Phases \X {"records", "bytes"} :
       gauges[m] + Outstanding(m) = Volume(Stored, m)
  /\ LET Expired(p) == gauges[<<p, "expired">>] + Outstanding(<<p, "expired">>)
     IN nextVer = Cardinality(Stored) + Expired("pending") + Expired("replay")
=============================================================================
