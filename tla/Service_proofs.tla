--------------------------- MODULE Service_proofs ----------------------------
(***************************************************************************)
(* The application service over the store, for every set of requests, every *)
(* policy, every text and every limit of the store: who gets which mask,    *)
(* which text is restored to whom, and what completes a correspondence.     *)
(***************************************************************************)
EXTENDS Service, MemoryStore_proofs

----------------------------------------------------------------------------
(* The invariant *)

\* rec is no record, or was built by a request for k.
AuthoredFor(rec, k) ==
  rec # NoRecord => rec.author \in Clients /\ KeyOf[rec.author] = k

\* Records stay with the key of the request that built them, whichever way they
\* reach another request: stored, handed to a waiter, or returned by a lookup.
Authors ==
  /\ \A k \in Keys : AuthoredFor(entries[k], k)
  /\ \A c \in Clients : /\ AuthoredFor(held[c], KeyOf[c])
                        /\ AuthoredFor(infs[c].rec, KeyOf[c])
                        /\ waitOn[c] # NoClient => KeyOf[waitOn[c]] = KeyOf[c]

\* A call that succeeded was given a record; its creator was given its own.
Given ==
  \A c \in Clients :
    /\ pc[c] = "published" => held[c].author = c
    /\ pc[c] = "done" /\ ret[c] = "created" => held[c].author = c
    /\ pc[c] = "done" /\ ret[c] \in {"hit", "existing"} => held[c] # NoRecord
    /\ infs[c].done /\ infs[c].err = "nil" => infs[c].rec # NoRecord

\* The requests that may be the author of a record.
MayAuthor == {c \in Clients : Op(c) # "restore" /\ Allowed(c)}

\* Where a request is in its handler says where it is in the store, and only
\* requests that may store a record come to Create.
StageOf(c) ==
  /\ stage[c] \in {"start", "missed"} => pc[c] = "idle"
  /\ stage[c] = "found" => pc[c] = "done" /\ held[c] # NoRecord
  /\ stage[c] = "creating" => pc[c] # "idle"
  /\ stage[c] = "answered" => pc[c] \in {"idle", "done"}
  /\ stage[c] \in {"found", "missed", "creating"} => Allowed(c)
  /\ stage[c] \in {"missed", "creating"} => Op(c) # "restore"

StagesMatch == \A c \in Clients : StageOf(c)

AuthorsMask == \A r \in Copies : r.author # NoClient => r.author \in MayAuthor

\* What a request was answered follows from the record it still holds.
AnswerOf(c) ==
  /\ Answered(c, {"mask", "repeat", "restore"}) =>
       Allowed(c) /\ held[c] # NoRecord /\ pc[c] = "done"
  /\ Answered(c, {"mask"}) =>
       Op(c) # "restore" /\ held[c].author = c /\ answer[c].text = Masked(held[c])
  /\ Answered(c, {"repeat"}) =>
       AsksForMask(c) /\ answer[c].text = Masked(held[c])
  /\ Answered(c, {"restore"}) =>
       \/ IsMask(c) /\ answer[c].text = Original(held[c])
       \/ /\ Op(c) = "restore" /\ Format(held[c].author) = "marker"
          /\ answer[c].text = Substituted(c)

AnswersMatch == \A c \in Clients : AnswerOf(c)

SInv ==
  /\ request \in Workloads
  /\ ServiceTypeOK
  /\ StagesMatch
  /\ AuthorsMask
  /\ AnswersMatch
  /\ CompletedByRestore

----------------------------------------------------------------------------
(* Records keep their author and their key *)

\* What a key holds after a step: nothing, the record it held, or the one that
\* a request for the key publishes.
LEMMA StoredOrigin ==
  ASSUME IInv, [Next]_vars, NEW k \in Keys
  PROVE  \/ entries'[k] = NoRecord
         \/ entries[k] # NoRecord /\ Origin(entries'[k]) = Origin(entries[k])
         \/ \E c \in Clients : Publishes(c) /\ KeyOf[c] = k /\ entries'[k].author = c
<1>0. VariableTypes /\ KeyOf \in [Clients -> Keys]
  BY KeysAssumption DEF IInv
<1>1. CASE UNCHANGED storeVars \/ (\E j \in Keys : LookupEvicts(j)) \/ DrainsBatch
  BY <1>1 DEF storeVars, LookupEvicts, DrainsBatch, Drain, Evict, Without
<1>2. ASSUME NEW c \in Clients, Publishes(c)
      PROVE  \/ entries'[k] \in {NoRecord, entries[k]}
             \/ KeyOf[c] = k /\ entries'[k].author = c
  BY <1>0, <1>2 DEF Publishes, Publish, Without, VariableTypes
<1>3. ASSUME NEW c \in Clients, MarkRestored(c)
      PROVE  \/ entries'[k] = entries[k]
             \/ entries[k] # NoRecord /\ Origin(entries'[k]) = Origin(entries[k])
  BY <1>0, <1>3 DEF MarkRestored, Marks, VariableTypes, Record, Origin
<1> QED BY <1>1, <1>2, <1>3, StoreEffect

\* The invariant of the store's part: Authors and Given.
LEMMA AuthorsStep ==
  ASSUME IInv, Authors, Given, [Next]_vars
  PROVE  Authors' /\ Given'
<1> USE DEF Authors, Given
<1>0. VariableTypes /\ KeyOf \in [Clients -> Keys] /\ NoClient \notin Clients
  BY KeysAssumption DEF IInv
<1>1. \A k \in Keys : AuthoredFor(entries'[k], k)
  BY StoredOrigin DEF AuthoredFor, Origin
<1> DEFINE Handed == \A d \in Clients :
             /\ AuthoredFor(held'[d], KeyOf[d])
             /\ AuthoredFor(infs'[d].rec, KeyOf[d])
             /\ waitOn'[d] # NoClient => KeyOf[waitOn'[d]] = KeyOf[d]
             /\ pc'[d] = "published" => held'[d].author = d
             /\ pc'[d] = "done" /\ ret'[d] = "created" => held'[d].author = d
             /\ pc'[d] = "done" /\ ret'[d] \in {"hit", "existing"} => held'[d] # NoRecord
             /\ infs'[d].done /\ infs'[d].err = "nil" => infs'[d].rec # NoRecord
<1>2. AuthoredFor(NoRecord, KeyOf[NoClient]) /\ \A k : AuthoredFor(NoRecord, k)
  BY DEF AuthoredFor
<1>3. ASSUME UNCHANGED <<held, infs, waitOn, pc, ret>>
      PROVE  Handed
  BY <1>3
<1>4. ASSUME NEW c \in Clients, NEW rec, NEW outcome,
             Return(c, outcome, rec), UNCHANGED infs,
             AuthoredFor(rec, KeyOf[c]),
             outcome = "created" => rec.author = c,
             outcome \in {"hit", "existing"} => rec # NoRecord
      PROVE  Handed
  BY <1>0, <1>4 DEF Return, VariableTypes
<1>5. ASSUME NEW c \in Clients, NEW label \in {"enter", "build", "refused"}, Goto(c, label), UNCHANGED infs
      PROVE  Handed
  BY <1>0, <1>5 DEF Goto, VariableTypes
<1>6. ASSUME NEW c \in Clients, GetStep(c)
      PROVE  Handed
  <2>1. CASE GetHit(c)
    BY <1>0, <1>4, <2>1 DEF GetHit
  <2>2. CASE GetExpired(c)
    BY <1>3, <2>2 DEF GetExpired, clientVars
  <2> QED BY <1>6, <2>1, <2>2 DEF GetStep
<1>7. ASSUME NEW c \in Clients, Call(c) \/ EnterStep(c)
      PROVE  Handed
  <2>1. CASE CreateWaits(c)
    <3>1. KeyOf[inflight[KeyOf[c]]] = KeyOf[c]
      BY <1>0, <2>1 DEF CreateWaits, IInv, CreatorsMatch
    <3> QED BY <1>0, <2>1, <3>1 DEF CreateWaits, VariableTypes
  <2>2. CASE CreateEvicts(c)
    BY <1>3, <2>2 DEF CreateEvicts, clientVars
  <2>3. CASE CreateCancelled(c) \/ RefuseReservation(c)
    BY <1>2, <1>4, <2>3 DEF CreateCancelled, RefuseReservation
  <2>4. CASE CreateFindsRecord(c)
    BY <1>0, <1>4, <2>4 DEF CreateFindsRecord
  <2>5. CASE Call(c) \/ BecomeCreator(c)
    BY <1>5, <2>5 DEF Call, BecomeCreator
  <2> QED BY <1>7, <2>1, <2>2, <2>3, <2>4, <2>5 DEF EnterStep
<1>8. ASSUME NEW c \in Clients, BuildStep(c) \/ FinishStep(c)
      PROVE  Handed
  <2>1. ASSUME NEW err \in {"build", "context", "capacity"},
               Wake(c, NoRecord, err), Return(c, err, NoRecord)
        PROVE  Handed
    BY <1>0, <1>2, <2>1 DEF Wake, Return, VariableTypes
  <2>2. ASSUME NEW x \in Extras, Publish(c, MinSize[c] + x)
        PROVE  Handed
    <3>1. held' = [held EXCEPT ![c] = held'[c]] /\ held'[c].author = c
          /\ pc' = [pc EXCEPT ![c] = "published"]
          /\ UNCHANGED <<infs, waitOn, ret>>
      BY <1>0, <2>2 DEF Publish, VariableTypes
    <3> QED BY <1>0, <3>1 DEF AuthoredFor, VariableTypes
  <2>3. CASE \E x \in Extras : RefusePublish(c, MinSize[c] + x)
    BY <1>5, <2>3 DEF RefusePublish
  <2>4. CASE FinishPublished(c)
    <3>1. held[c].author = c /\ held[c] # NoRecord
      BY <1>0, <2>4 DEF FinishPublished, NoRecord
    <3> QED BY <1>0, <2>4, <3>1 DEF FinishPublished, Wake, Return, VariableTypes
  <2> QED BY <1>8, <2>1, <2>2, <2>3, <2>4 DEF BuildStep, BuildFails, FinishStep, FinishRefused
<1>9. ASSUME NEW c \in Clients, WaitStep(c) \/ WaitCancelled(c) \/ WaitTimesOut(c)
      PROVE  Handed
  <2>1. CASE WaitGetsRecord(c)
    <3>1. waitOn[c] \in Clients /\ KeyOf[waitOn[c]] = KeyOf[c]
      BY <1>0, <2>1 DEF WaitGetsRecord, IInv, NoLostWaiter, VariableTypes
    <3> QED BY <1>4, <2>1, <3>1 DEF WaitGetsRecord, WaitEnds
  <2>2. CASE WaitRetries(c)
    BY <1>0, <2>2 DEF WaitRetries, VariableTypes
  <2>3. CASE WaitGetsError(c) \/ WaitCancelled(c) \/ WaitTimesOut(c)
    BY <1>2, <1>4, <2>3 DEF WaitGetsError, WaitCancelled, WaitTimesOut, WaitEnds
  <2> QED BY <1>9, <2>1, <2>2, <2>3 DEF WaitStep
<1>10. ASSUME NEW c \in Clients, MarkRestored(c) \/ Cancel(c)
       PROVE  Handed
  BY <1>0, <1>10 DEF MarkRestored, Cancel, VariableTypes
<1>11. ASSUME CleanupTick \/ CleanupBatch \/ Tick \/ AllDone \/ UNCHANGED vars
       PROVE  Handed
  BY <1>3, <1>11 DEF CleanupTick, CleanupBatch, Tick, AllDone, vars, clientVars
<1>12. Handed
  BY <1>6, <1>7, <1>8, <1>9, <1>10, <1>11 DEF Next
<1> HIDE DEF Handed
<1>13. Authors'
  BY <1>1, <1>12 DEF Handed, AuthoredFor
<1>14. Given'
  BY <1>12 DEF Handed
<1> QED BY <1>13, <1>14

\* The invariants of the store, with the authors of its records.
LEMMA AuthorsInvariant == Spec => [](IInv /\ VersionInv /\ Authors /\ Given)
<1>1. Init => Authors /\ Given
  BY DEF Init, Authors, Given, AuthoredFor
<1>2. IInv /\ Authors /\ Given /\ [Next]_vars => (Authors /\ Given)'
  BY AuthorsStep
<1> QED BY <1>1, <1>2, VersionInvariant, PTL DEF Spec
----------------------------------------------------------------------------
(* The service runs the store *)

\* What a request itself does: its handler's steps, its timer and its context.
Mine(c) == RequestStep(c) \/ GiveUpWaiting(c) \/ Disconnect(c)

\* Every step of the service is one step of the store or none.
LEMMA ServiceStep ==
  ASSUME [ServiceNext]_svars
  PROVE  [Next]_vars
<1>1. ASSUME NEW c \in Clients, RequestStep(c)
      PROVE  [Next]_vars
  BY <1>1 DEF RequestStep, Deny, Lookup, LookupMisses, CallCreate, InCreate, CreateFailed,
     CreateSucceeded, RepeatMask, RestoreExact, RestoreMarkers, Conflict, Completes,
     MarksRecord, Next, GetStep
<1>2. ASSUME NEW c \in Clients, GiveUpWaiting(c) \/ Disconnect(c)
      PROVE  Next
  BY <1>2 DEF GiveUpWaiting, Disconnect, Next
<1>3. CASE Background \/ Clock
  BY <1>3 DEF Background, Clock, Next
<1>4. CASE AllAnswered \/ UNCHANGED svars
  BY <1>4 DEF AllAnswered, svars
<1> QED BY <1>1, <1>2, <1>3, <1>4 DEF ServiceNext

\* The behaviours of the service are behaviours of the store, so everything that
\* is proved of the store holds of the store the service uses.
THEOREM ServiceUsesStore == ServiceSpec => Spec
<1>1. ServiceInit => Init
  BY DEF ServiceInit
<1>2. [ServiceNext]_svars => [Next]_vars
  BY ServiceStep
<1> QED BY <1>1, <1>2, PTL DEF ServiceSpec, Spec

\* The store below the service keeps its abstract promise.
THEOREM ServiceKeepsPromise == ServiceSpec => KeepsPromise
BY ServiceUsesStore, PromiseKept

----------------------------------------------------------------------------
(* What a step of the service leaves alone *)

\* The requests stay what they are, and so do rights, formats and contents.
LEMMA SameRights ==
  ASSUME request' = request
  PROVE  /\ \A c \in Clients : /\ Allowed(c)' <=> Allowed(c)
                               /\ Op(c)' = Op(c) /\ Payload(c)' = Payload(c)
         /\ MayAuthor' = MayAuthor
BY DEF Allowed, Denies, Managed, Known, Enabled, Op, Scope, Payload, MayAuthor

\* What a client holds means the same after a step that leaves it alone.
LEMMA SameContents ==
  ASSUME request' = request, NEW c \in Clients, held'[c] = held[c]
  PROVE  /\ Masked(held[c])' = Masked(held[c])
         /\ Original(held[c])' = Original(held[c])
         /\ Format(held[c].author)' = Format(held[c].author)
         /\ Substituted(c)' = Substituted(c)
         /\ IsMask(c)' <=> IsMask(c)
         /\ AsksForMask(c)' <=> AsksForMask(c)
BY DEF Masked, Original, Format, Substituted, IsMask, IsOriginal, AsksForMask, Op, Scope, Payload

\* No step changes what was asked.
LEMMA RequestsStay ==
  ASSUME [ServiceNext]_svars
  PROVE  request' = request
BY DEF ServiceNext, svars, requestVars, RequestStep, Deny, Lookup, LookupMisses, CallCreate,
   InCreate, CreateFailed, CreateSucceeded, RepeatMask, RestoreExact, RestoreMarkers,
   Conflict, GiveUpWaiting, Disconnect, Background, Clock, AllAnswered, Answer, Proceed

\* A store action of c on the variables of another client.
LEMMA OthersInStore ==
  ASSUME VariableTypes, NEW c \in Clients, NEW d \in Clients, d # c,
         \/ GetStep(c) \/ Call(c) \/ EnterStep(c) \/ BuildStep(c) \/ FinishStep(c)
         \/ WaitStep(c) \/ WaitCancelled(c) \/ WaitTimesOut(c) \/ MarkRestored(c)
         \/ Cancel(c) \/ UNCHANGED vars
  PROVE  pc'[d] = pc[d] /\ held'[d] = held[d]
<1> USE DEF VariableTypes, Return, Goto, clientVars
<1>1. CASE GetStep(c) \/ Call(c) \/ EnterStep(c)
  BY <1>1 DEF GetStep, GetHit, GetExpired, Call, EnterStep, CreateCancelled,
     CreateFindsRecord, CreateEvicts, CreateWaits, BecomeCreator, RefuseReservation
<1>2. CASE BuildStep(c) \/ FinishStep(c)
  BY <1>2 DEF BuildStep, BuildFails, Publish, RefusePublish, FinishStep, FinishPublished,
     FinishRefused
<1>3. CASE WaitStep(c) \/ WaitCancelled(c) \/ WaitTimesOut(c)
  BY <1>3 DEF WaitStep, WaitGetsRecord, WaitRetries, WaitGetsError, WaitCancelled,
     WaitTimesOut, WaitEnds
<1>4. CASE MarkRestored(c) \/ Cancel(c) \/ UNCHANGED vars
  BY <1>4 DEF MarkRestored, Cancel, vars
<1> QED BY <1>1, <1>2, <1>3, <1>4

Stays(d) == /\ pc'[d] = pc[d] /\ held'[d] = held[d]
            /\ stage'[d] = stage[d] /\ answer'[d] = answer[d]

\* A request's own steps do not touch another request.
LEMMA OthersStay ==
  ASSUME VariableTypes, ServiceTypeOK, NEW c \in Clients, Mine(c), NEW d \in Clients, d # c
  PROVE  Stays(d)
<1>1. pc'[d] = pc[d] /\ held'[d] = held[d]
  <2>1. \/ GetStep(c) \/ Call(c) \/ EnterStep(c) \/ BuildStep(c) \/ FinishStep(c)
        \/ WaitStep(c) \/ WaitCancelled(c) \/ WaitTimesOut(c) \/ MarkRestored(c)
        \/ Cancel(c) \/ UNCHANGED vars
    BY DEF Mine, RequestStep, Deny, Lookup, LookupMisses, CallCreate, InCreate, CreateFailed,
       CreateSucceeded, RepeatMask, RestoreExact, RestoreMarkers, Conflict, Completes,
       MarksRecord, GetStep, GiveUpWaiting, Disconnect
  <2> QED BY <2>1, OthersInStore
<1>2. stage'[d] = stage[d] /\ answer'[d] = answer[d]
  BY DEF Mine, RequestStep, Deny, Lookup, LookupMisses, CallCreate, InCreate, CreateFailed,
     CreateSucceeded, RepeatMask, RestoreExact, RestoreMarkers, Conflict, GiveUpWaiting,
     Disconnect, Answer, Proceed, requestVars, ServiceTypeOK
<1> QED BY <1>1, <1>2 DEF Stays

\* The cleanup, the clock and the end touch no request.
LEMMA NobodyMoves ==
  ASSUME Background \/ Clock \/ AllAnswered \/ UNCHANGED svars
  PROVE  \A d \in Clients : Stays(d)
BY DEF Background, Clock, AllAnswered, svars, requestVars, vars, CleanupTick, CleanupBatch,
   Tick, clientVars, Stays
----------------------------------------------------------------------------
(* Each part of the invariant is kept *)

\* Whoever holds a record holds it for its own key, from a request that may mask.
LEMMA HeldAuthor ==
  ASSUME Authors, AuthorsMask, NEW c \in Clients, held[c] # NoRecord
  PROVE  /\ held[c].author \in Clients
         /\ KeyOf[held[c].author] = KeyOf[c]
         /\ held[c].author \in MayAuthor
<1>1. held[c].author \in Clients /\ KeyOf[held[c].author] = KeyOf[c]
  BY DEF Authors, AuthoredFor
<1>2. held[c].author # NoClient
  BY <1>1, KeysAssumption
<1> QED BY <1>1, <1>2, CopiesHas DEF AuthorsMask

\* Who compares its text with a record holds one and may.
LEMMA ComparesHeld ==
  ASSUME Given, StagesMatch, NEW c \in Clients, Compares(c)
  PROVE  /\ held[c] # NoRecord /\ pc[c] = "done" /\ Allowed(c)
         /\ stage[c] \in {"found", "creating"}
BY DEF Given, StagesMatch, StageOf, Compares, Returned

\* Nobody who has entered Create is idle again.
LEMMA InCreateStays ==
  ASSUME VariableTypes, NEW c \in Clients, pc[c] # "idle",
         \/ EnterStep(c) \/ BuildStep(c) \/ FinishStep(c) \/ WaitStep(c)
         \/ WaitCancelled(c) \/ WaitTimesOut(c) \/ Cancel(c)
  PROVE  pc'[c] # "idle"
<1> USE DEF VariableTypes, Return, Goto, clientVars
<1>1. CASE EnterStep(c)
  BY <1>1 DEF EnterStep, CreateCancelled, CreateFindsRecord, CreateEvicts, CreateWaits,
     BecomeCreator, RefuseReservation
<1>2. CASE BuildStep(c) \/ FinishStep(c)
  BY <1>2 DEF BuildStep, BuildFails, Publish, RefusePublish, FinishStep, FinishPublished,
     FinishRefused
<1>3. CASE WaitStep(c) \/ WaitCancelled(c) \/ WaitTimesOut(c) \/ Cancel(c)
  BY <1>3 DEF WaitStep, WaitGetsRecord, WaitRetries, WaitGetsError, WaitCancelled,
     WaitTimesOut, WaitEnds, Cancel
<1> QED BY <1>1, <1>2, <1>3

\* The steps that answer a request leave its call and its record as they are.
AnswerStep(c) ==
  \/ Deny(c)
  \/ LookupMisses(c) /\ Op(c) = "restore"
  \/ CreateFailed(c) \/ CreateSucceeded(c)
  \/ RepeatMask(c) \/ RestoreExact(c) \/ RestoreMarkers(c) \/ Conflict(c)

\* An answer moves nothing in the store.
LEMMA AnswerEffect ==
  ASSUME ServiceTypeOK, NEW c \in Clients, AnswerStep(c)
  PROVE  pc' = pc /\ held' = held /\ stage'[c] = "answered"
<1>1. CASE LookupMisses(c) /\ Op(c) = "restore"
  BY <1>1 DEF LookupMisses, Answer, GetExpired, clientVars, vars, ServiceTypeOK
<1>2. CASE RestoreExact(c) \/ RestoreMarkers(c)
  BY <1>2 DEF RestoreExact, RestoreMarkers, Completes, MarksRecord, MarkRestored, Answer,
     vars, ServiceTypeOK
<1>3. CASE Deny(c) \/ CreateFailed(c) \/ CreateSucceeded(c) \/ RepeatMask(c) \/ Conflict(c)
  BY <1>3 DEF Deny, CreateFailed, CreateSucceeded, RepeatMask, Conflict, Answer, vars,
     ServiceTypeOK
<1> QED BY <1>1, <1>2, <1>3 DEF AnswerStep

\* A step of a request answers it, or is one of the steps on the way.
LEMMA MineSplit ==
  ASSUME NEW c \in Clients, Mine(c)
  PROVE  \/ AnswerStep(c)
         \/ Lookup(c)
         \/ LookupMisses(c) /\ Op(c) # "restore"
         \/ CallCreate(c)
         \/ InCreate(c) \/ GiveUpWaiting(c) \/ Disconnect(c)
BY DEF Mine, RequestStep, AnswerStep

\* Every step keeps the stages of the service and of the store together.
LEMMA StageStep ==
  ASSUME VariableTypes, Given, ServiceTypeOK, StagesMatch, [ServiceNext]_svars
  PROVE  StagesMatch'
<1>0. request' = request
  BY RequestsStay
<1>1. \A d \in Clients : Stays(d) => StageOf(d)'
  BY <1>0, SameRights DEF Stays, StagesMatch, StageOf
<1>2. ASSUME NEW c \in Clients, Mine(c)
      PROVE  StageOf(c)'
  <2>1. CASE AnswerStep(c)
    <3>1. pc'[c] = pc[c] /\ stage'[c] = "answered"
      BY <2>1, AnswerEffect
    <3>2. pc[c] \in {"idle", "done"}
      BY <2>1, ComparesHeld DEF AnswerStep, Deny, LookupMisses, CreateFailed, CreateSucceeded,
         MadeTheRecord, Returned, RepeatMask, RestoreExact, RestoreMarkers, Conflict,
         StagesMatch, StageOf
    <3> QED BY <3>1, <3>2 DEF StageOf
  <2>2. CASE Lookup(c)
    <3>1. /\ stage'[c] = "found" /\ pc'[c] = "done"
          /\ held'[c] # NoRecord /\ Allowed(c)
      BY <2>2 DEF Lookup, GetHit, Return, Proceed, ServiceTypeOK, VariableTypes
    <3> QED BY <1>0, <3>1, SameRights DEF StageOf
  <2>3. CASE LookupMisses(c) /\ Op(c) # "restore"
    <3>1. stage'[c] = "missed" /\ pc'[c] = pc[c] /\ pc[c] = "idle" /\ Allowed(c)
      BY <2>3 DEF LookupMisses, GetExpired, clientVars, vars, Proceed, ServiceTypeOK,
         StagesMatch, StageOf
    <3> QED BY <1>0, <2>3, <3>1, SameRights DEF StageOf
  <2>4. CASE CallCreate(c)
    <3>1. stage'[c] = "creating" /\ pc'[c] = "enter" /\ Allowed(c) /\ Op(c) # "restore"
      BY <2>4 DEF CallCreate, Call, Goto, Proceed, ServiceTypeOK, VariableTypes,
         StagesMatch, StageOf
    <3> QED BY <1>0, <3>1, SameRights DEF StageOf
  <2>5. CASE InCreate(c) \/ GiveUpWaiting(c) \/ Disconnect(c)
    <3>1. /\ stage'[c] = "creating" /\ stage[c] = "creating"
          /\ pc[c] # "idle" /\ Allowed(c) /\ Op(c) # "restore"
      BY <2>5 DEF InCreate, GiveUpWaiting, Disconnect, requestVars, StagesMatch, StageOf
    <3>2. pc'[c] # "idle"
      BY <2>5, <3>1, InCreateStays DEF InCreate, GiveUpWaiting, Disconnect
    <3> QED BY <1>0, <3>1, <3>2, SameRights DEF StageOf
  <2> QED BY <1>2, <2>1, <2>2, <2>3, <2>4, <2>5, MineSplit
<1>3. ASSUME NEW c \in Clients, Mine(c)
      PROVE  StagesMatch'
  BY <1>1, <1>2, <1>3, OthersStay DEF StagesMatch
<1>4. CASE Background \/ Clock \/ AllAnswered \/ UNCHANGED svars
  BY <1>1, <1>4, NobodyMoves DEF StagesMatch
<1> QED BY <1>3, <1>4 DEF ServiceNext, Mine
\* Only a request that may mask publishes.
LEMMA PublisherMasks ==
  ASSUME ServiceTypeOK, StagesMatch, NEW c \in Clients, Publishes(c)
  PROVE  c \in MayAuthor
<1>1. PICK x \in Extras : Publish(c, MinSize[c] + x)
  BY DEF Publishes
<1>2. pc[c] = "build"
  BY <1>1 DEF Publish
<1>3. stage[c] = "creating"
  BY <1>2 DEF StagesMatch, StageOf, ServiceTypeOK
<1> QED BY <1>3 DEF StagesMatch, StageOf, MayAuthor

\* No step makes a record of an author who may not mask.
LEMMA AuthorsMaskStep ==
  ASSUME IInv, StagesMatch, AuthorsMask, ServiceTypeOK, [ServiceNext]_svars
  PROVE  AuthorsMask'
<1>0. request' = request /\ [Next]_vars
  BY RequestsStay, ServiceStep
<1>1. CASE ~ Publication
  <2>1. \A r \in Copies' : Derived(r)
    <3>1. NoRecord \in Copies /\ \A k \in Keys : entries[k] \in Copies
      BY CopiesHas
    <3>2. \A k \in Keys : Derived(entries'[k])
      BY <1>0, <1>1, <3>1, CopiesDerived, StoredDerived DEF Derived
    <3> QED BY <1>0, <1>1, <3>1, <3>2, CopiesDerived, HandedDerived DEF Copies
  <2>2. \A r \in Copies' : \E q \in Copies : q.author = r.author
    BY <2>1 DEF Derived, Origin
  <2> QED BY <1>0, <2>2, SameRights DEF AuthorsMask
<1>2. ASSUME NEW c \in Clients, Publishes(c)
      PROVE  AuthorsMask'
  <2>1. c \in MayAuthor
    BY <1>2, PublisherMasks
  <2>2. PICK x \in Extras : Publish(c, MinSize[c] + x)
    BY <1>2 DEF Publishes
  <2>3. \A r \in Copies' : r \in Copies \/ r.author = c
    <3>1. /\ infs' = infs /\ \A d \in Clients : held'[d] = held[d] \/ held'[d].author = c
          /\ \A k \in Keys : entries'[k] \in {NoRecord, entries[k]} \/ entries'[k].author = c
      BY <2>2, KeysAssumption DEF Publish, Without, IInv, VariableTypes
    <3> QED BY <3>1, CopiesHas DEF Copies
  <2> QED BY <1>0, <2>1, <2>3, SameRights DEF AuthorsMask
<1> QED BY <1>1, <1>2 DEF Publication

\* The answer of a record's contents is a text: its author may mask, so it has a
\* format.
LEMMA ContentTypes ==
  ASSUME ServiceTypeOK, NEW d \in MayAuthor
  PROVE  /\ Format(d) \in Formats /\ Payload(d) \in Texts
         /\ MaskWith[Format(d)][Payload(d)] \in Texts
<1>1. Payload(d) \in Texts /\ Op(d) \in {"process", "mask", "restore"}
  BY DEF ServiceTypeOK, Request, Payload, Op, MayAuthor
<1>2. Managed(d) => Known(d)
  BY DEF MayAuthor, Allowed, Denies, Denials
<1>3. Format(d) \in Formats
  BY <1>1, <1>2, RequestsAssumption DEF Format, Formats, Known, Consumer, Managed
<1> QED BY <1>1, <1>3, TextsAssumption

\* Every step keeps the types of the service.
LEMMA TypeStep ==
  ASSUME IInv, Given, Authors, SInv, [ServiceNext]_svars
  PROVE  ServiceTypeOK'
<1> USE DEF SInv
<1>0. VariableTypes
  BY DEF IInv
<1>1. request' = request /\ request \in [Clients -> Request]
  BY RequestsStay DEF ServiceTypeOK
<1>2. CASE UNCHANGED <<stage, answer>>
  BY <1>1, <1>2 DEF ServiceTypeOK, Answered
<1>3. ASSUME NEW c \in Clients, NEW outcome \in Outcome \ {"none"},
             NEW text \in Texts \cup {NoText}, Answer(c, outcome, text)
      PROVE  ServiceTypeOK'
  BY <1>3, <1>1 DEF Answer, ServiceTypeOK, Answered
<1>4. ASSUME NEW c \in Clients, NEW where \in {"found", "missed", "creating"},
             stage[c] # "answered", Proceed(c, where)
      PROVE  ServiceTypeOK'
  BY <1>4, <1>1 DEF Proceed, ServiceTypeOK, Answered
<1>5. ASSUME NEW c \in Clients, AnswerStep(c)
      PROVE  ServiceTypeOK'
  <2> DEFINE rec == held[c]
  <2>0. held[c] # NoRecord => Masked(held[c]) \in Texts /\ Original(held[c]) \in Texts
    BY HeldAuthor, ContentTypes DEF Masked, Original
  <2>1. CASE Deny(c) \/ Conflict(c) \/ (LookupMisses(c) /\ Op(c) = "restore") \/ CreateFailed(c)
    BY <1>3, <2>1 DEF Deny, Conflict, LookupMisses, CreateFailed, Returned, Outcome, Denials
  <2>2. CASE CreateSucceeded(c)
    <3>1. held[c] # NoRecord
      BY <2>2, KeysAssumption DEF CreateSucceeded, MadeTheRecord, Returned, Given, NoRecord
    <3> QED BY <1>3, <2>0, <2>2, <3>1 DEF CreateSucceeded, Outcome
  <2>3. CASE RepeatMask(c) \/ RestoreExact(c)
    BY <1>3, <2>0, <2>3, ComparesHeld DEF RepeatMask, RestoreExact, Outcome
  <2>4. CASE RestoreMarkers(c)
    <3>1. Original(held[c]) \in Texts /\ Payload(c) \in Texts
      BY <1>1, <2>0, <2>4, ComparesHeld DEF RestoreMarkers, Payload, Request
    <3>2. Substituted(c) \in Texts
      BY <3>1, TextsAssumption DEF Substituted
    <3> QED BY <1>3, <2>4, <3>2 DEF RestoreMarkers, Outcome
  <2> QED BY <1>5, <2>1, <2>2, <2>3, <2>4 DEF AnswerStep
<1>6. ASSUME NEW c \in Clients, Mine(c), ~ AnswerStep(c)
      PROVE  ServiceTypeOK'
  BY <1>2, <1>4, <1>6, MineSplit DEF Lookup, LookupMisses, CallCreate, InCreate, GiveUpWaiting,
     Disconnect, requestVars
<1>7. CASE Background \/ Clock \/ AllAnswered \/ UNCHANGED svars
  BY <1>2, <1>7 DEF Background, Clock, AllAnswered, svars, requestVars
<1> QED BY <1>5, <1>6, <1>7 DEF ServiceNext, Mine
\* The answer of a request agrees with its record when it is given, and neither
\* changes afterwards.
LEMMA AnswersStep ==
  ASSUME IInv, Given, Authors, SInv, [ServiceNext]_svars
  PROVE  AnswersMatch'
<1> USE DEF SInv
<1>0. VariableTypes /\ request' = request
  BY RequestsStay DEF IInv
<1>1. ASSUME NEW d \in Clients, Stays(d)
      PROVE  AnswerOf(d)'
  BY <1>0, <1>1, SameRights, SameContents DEF Stays, AnswersMatch, AnswerOf, Answered
<1>2. ASSUME NEW c \in Clients, AnswerStep(c)
      PROVE  AnswerOf(c)'
  <2>0. pc' = pc /\ held' = held /\ held'[c] = held[c]
    BY <1>2, AnswerEffect
  <2> DEFINE Now == answer'[c]
  <2>1. ASSUME Now.outcome \notin {"mask", "repeat", "restore"}
        PROVE  AnswerOf(c)'
    BY <2>1 DEF AnswerOf, Answered
  <2>2. CASE Deny(c) \/ Conflict(c) \/ (LookupMisses(c) /\ Op(c) = "restore")
    BY <2>1, <2>2 DEF Deny, Denials, Conflict, LookupMisses, Answer, ServiceTypeOK
  <2>3. CASE CreateFailed(c)
    BY <2>1, <2>3 DEF CreateFailed, Returned, Answer, ServiceTypeOK
  <2>4. CASE CreateSucceeded(c)
    <3>1. /\ held[c].author = c /\ held[c] # NoRecord /\ pc[c] = "done"
          /\ Allowed(c) /\ Op(c) # "restore"
      BY <2>4, KeysAssumption DEF CreateSucceeded, MadeTheRecord, Returned, Given, NoRecord,
         StagesMatch, StageOf
    <3>2. Now.outcome = "mask" /\ Now.text = Masked(held[c])
      BY <2>4 DEF CreateSucceeded, Answer, ServiceTypeOK
    <3> QED BY <1>0, <2>0, <3>1, <3>2, SameRights, SameContents DEF AnswerOf, Answered
  <2>5. CASE RepeatMask(c)
    <3>1. held[c] # NoRecord /\ pc[c] = "done" /\ Allowed(c) /\ AsksForMask(c)
      BY <2>5, ComparesHeld DEF RepeatMask
    <3>2. Now.outcome = "repeat" /\ Now.text = Masked(held[c])
      BY <2>5 DEF RepeatMask, Answer, ServiceTypeOK
    <3> QED BY <1>0, <2>0, <3>1, <3>2, SameRights, SameContents DEF AnswerOf, Answered
  <2>6. CASE RestoreExact(c)
    <3>1. held[c] # NoRecord /\ pc[c] = "done" /\ Allowed(c) /\ IsMask(c)
      BY <2>6, ComparesHeld DEF RestoreExact
    <3>2. Now.outcome = "restore" /\ Now.text = Original(held[c])
      BY <2>6 DEF RestoreExact, Answer, ServiceTypeOK
    <3> QED BY <1>0, <2>0, <3>1, <3>2, SameRights, SameContents DEF AnswerOf, Answered
  <2>7. CASE RestoreMarkers(c)
    <3>1. /\ held[c] # NoRecord /\ pc[c] = "done" /\ Allowed(c)
          /\ Op(c) = "restore" /\ Format(held[c].author) = "marker"
      BY <2>7, ComparesHeld DEF RestoreMarkers
    <3>2. Now.outcome = "restore" /\ Now.text = Substituted(c)
      BY <2>7 DEF RestoreMarkers, Answer, ServiceTypeOK
    <3> QED BY <1>0, <2>0, <3>1, <3>2, SameRights, SameContents DEF AnswerOf, Answered
  <2> QED BY <1>2, <2>2, <2>3, <2>4, <2>5, <2>6, <2>7 DEF AnswerStep
<1>3. ASSUME NEW c \in Clients, Mine(c), ~ AnswerStep(c)
      PROVE  AnswerOf(c)'
  <2>1. answer' = answer /\ stage[c] # "answered"
    BY <1>3, MineSplit DEF Lookup, LookupMisses, CallCreate, InCreate, GiveUpWaiting,
       Disconnect, requestVars, Proceed
  <2>2. answer[c].outcome = "none"
    BY <2>1 DEF ServiceTypeOK, Answered
  <2> QED BY <2>1, <2>2 DEF AnswerOf, Answered
<1>4. ASSUME NEW c \in Clients, Mine(c)
      PROVE  AnswersMatch'
  BY <1>0, <1>1, <1>2, <1>3, <1>4, OthersStay DEF AnswersMatch
<1>5. CASE Background \/ Clock \/ AllAnswered \/ UNCHANGED svars
  BY <1>1, <1>5, NobodyMoves DEF AnswersMatch
<1> QED BY <1>4, <1>5 DEF ServiceNext, Mine
\* Requests for one key are of one consumer, so they use one format.
LEMMA SameFormat ==
  ASSUME request \in Workloads, NEW c \in Clients, NEW d \in Clients, KeyOf[c] = KeyOf[d]
  PROVE  /\ Op(c) = "process" <=> Op(d) = "process"
         /\ Format(c) = Format(d)
<1>1. Scope(c) = Scope(d)
  BY RequestsAssumption DEF Scope
<1>2. \A e \in Clients : Scope(e) = "process" <=> Op(e) = "process"
  BY RequestsAssumption DEF Scope, Op
<1> QED BY <1>1, <1>2 DEF Format

\* Only MarkRestored puts a record into the replay phase.
LEMMA Unmarked ==
  ASSUME VariableTypes, NEW c \in Clients,
         \/ GetStep(c) \/ Call(c) \/ EnterStep(c) \/ BuildStep(c) \/ FinishStep(c)
         \/ WaitStep(c) \/ WaitCancelled(c) \/ WaitTimesOut(c) \/ Cancel(c)
         \/ CleanupTick \/ CleanupBatch \/ Tick \/ UNCHANGED vars
  PROVE  \A k \in Keys : entries'[k] = entries[k] \/ entries'[k].restoredAt = 0
<1> USE DEF Drain, Evict, Without, NoRecord, storeVars
<1>1. CASE GetStep(c) \/ Call(c) \/ EnterStep(c)
  BY <1>1 DEF GetStep, GetHit, GetExpired, Call, EnterStep, CreateCancelled,
     CreateFindsRecord, CreateEvicts, CreateWaits, BecomeCreator, RefuseReservation
<1>2. CASE BuildStep(c) \/ FinishStep(c)
  <2>1. ASSUME NEW x \in Extras, Publish(c, MinSize[c] + x)
        PROVE  \A k \in Keys : entries'[k] = entries[k] \/ entries'[k].restoredAt = 0
    BY <2>1 DEF Publish
  <2> QED BY <1>2, <2>1 DEF BuildStep, BuildFails, RefusePublish, FinishStep,
     FinishPublished, FinishRefused
<1>3. CASE WaitStep(c) \/ WaitCancelled(c) \/ WaitTimesOut(c) \/ Cancel(c)
  BY <1>3 DEF WaitStep, WaitGetsRecord, WaitRetries, WaitGetsError, WaitCancelled,
     WaitTimesOut, WaitEnds, Cancel
<1>4. CASE CleanupTick \/ CleanupBatch \/ Tick \/ UNCHANGED vars
  BY <1>4 DEF CleanupTick, CleanupBatch, Tick, vars
<1> QED BY <1>1, <1>2, <1>3, <1>4

\* c was answered with a restored text of the record that has this version.
Completed(c, k, version) ==
  /\ KeyOf[c] = k /\ Allowed(c) /\ Answered(c, {"restore"})
  /\ held[c].version = version
  /\ \/ answer[c].text # Payload(c)
     \/ Op(c) = "restore" /\ Format(c) = "stars"

\* The request that marks a record is answered with its text in the same step.
LEMMA MarkAnswers ==
  ASSUME IInv, Given, Authors, SInv, NEW c \in Clients, MarkRestored(c),
         RestoreExact(c) \/ RestoreMarkers(c)
  PROVE  /\ \A k \in Keys : k # KeyOf[c] => entries'[k] = entries[k]
         /\ Completed(c, KeyOf[c], entries[KeyOf[c]].version)'
<1> USE DEF SInv
<1>0. /\ VariableTypes /\ KeyOf[c] \in Keys
      /\ held[c] # NoRecord /\ Allowed(c)
  BY ComparesHeld, KeysAssumption DEF IInv, RestoreExact, RestoreMarkers
<1>1. request' = request
  BY DEF RestoreExact, RestoreMarkers, Answer
<1>2. /\ held' = held
      /\ entries'[KeyOf[c]].version = held[c].version
      /\ \A k \in Keys : k # KeyOf[c] => entries'[k] = entries[k]
  BY <1>0 DEF MarkRestored, Marks, VariableTypes, Record
<1>3. /\ held[c].author \in Clients
      /\ Op(held[c].author) = "process" <=> Op(c) = "process"
      /\ Format(held[c].author) = Format(c)
  BY <1>0, HeldAuthor, SameFormat
<1>4. CASE RestoreExact(c)
  <2>1. answer'[c] = [outcome |-> "restore", text |-> Original(held[c])]
    BY <1>4 DEF RestoreExact, Answer, ServiceTypeOK
  <2>2. \/ Original(held[c]) # Payload(c)
        \/ Op(c) = "restore" /\ Format(c) = "stars"
    BY <1>3, <1>4 DEF RestoreExact, IsOriginal
  <2> QED BY <1>0, <1>1, <1>2, <2>1, <2>2 DEF Completed, Answered, Op, Payload, Format, Scope,
      Allowed, Denies, Managed, Known, Enabled
<1>5. CASE RestoreMarkers(c)
  <2>1. answer'[c] = [outcome |-> "restore", text |-> Substituted(c)]
    BY <1>5 DEF RestoreMarkers, Answer, ServiceTypeOK
  <2>2. Substituted(c) # Payload(c)
    <3>1. entries' # entries
      BY <1>0 DEF MarkRestored, Marks, VariableTypes, Record
    <3> QED BY <1>5, <3>1 DEF RestoreMarkers, Completes, vars
  <2> QED BY <1>0, <1>1, <1>2, <2>1, <2>2 DEF Completed, Answered, Op, Payload, Format, Scope,
      Allowed, Denies, Managed, Known, Enabled
<1> QED BY <1>2, <1>4, <1>5

\* A record that is restored had a request answered with its text, and still has.
LEMMA CompletedStep ==
  ASSUME IInv, Given, Authors, SInv, [ServiceNext]_svars
  PROVE  CompletedByRestore'
<1> USE DEF SInv
<1>0. VariableTypes /\ request' = request
  BY RequestsStay DEF IInv
<1>1. \A k \in Keys : entries[k].restoredAt # 0 =>
        \E c \in Clients : Completed(c, k, entries[k].version)
  BY DEF CompletedByRestore, Completed
<1>2. ASSUME NEW d \in Clients, Answered(d, {"restore"})
      PROVE  Stays(d)
  <2>1. stage[d] = "answered"
    BY <1>2 DEF ServiceTypeOK, Answered
  <2>2. ~ Mine(d)
    <3>1. pc[d] = "done"
      BY <1>2 DEF AnswersMatch, AnswerOf, Answered
    <3> QED BY <2>1 DEF Mine, RequestStep, Deny, Lookup, LookupMisses, CallCreate, InCreate,
       CreateFailed, CreateSucceeded, MadeTheRecord, RepeatMask, RestoreExact, RestoreMarkers,
       Conflict, Compares, Returned, GiveUpWaiting, Disconnect
  <2> QED BY <1>0, <2>2, OthersStay, NobodyMoves DEF ServiceNext, Mine
<1>3. ASSUME NEW c \in Clients, NEW k \in Keys, Completed(c, k, entries[k].version),
             entries'[k] = entries[k]
      PROVE  Completed(c, k, entries[k].version)'
  <2>1. Stays(c)
    BY <1>2, <1>3 DEF Completed
  <2> QED BY <1>0, <1>3, <2>1 DEF Stays, Completed, Answered, Op, Payload, Format, Scope,
      Allowed, Denies, Managed, Known, Enabled
<1>4. ASSUME NEW k \in Keys, entries'[k] = entries[k], entries'[k].restoredAt # 0
      PROVE  \E c \in Clients : Completed(c, k, entries[k].version)'
  BY <1>1, <1>3, <1>4
<1>5. ASSUME \A k \in Keys : entries'[k] = entries[k] \/ entries'[k].restoredAt = 0
      PROVE  CompletedByRestore'
  BY <1>4, <1>5 DEF CompletedByRestore, Completed
<1>6. ASSUME NEW c \in Clients, RestoreExact(c) \/ RestoreMarkers(c)
      PROVE  CompletedByRestore'
  <2>1. CASE MarkRestored(c)
    <3>1. /\ \A k \in Keys : k # KeyOf[c] => entries'[k] = entries[k]
          /\ Completed(c, KeyOf[c], entries[KeyOf[c]].version)'
      BY <1>6, <2>1, MarkAnswers
    <3> QED BY <1>4, <3>1 DEF CompletedByRestore, Completed
  <2>2. CASE UNCHANGED vars
    BY <1>5, <2>2 DEF vars
  <2> QED BY <1>6, <2>1, <2>2 DEF RestoreExact, RestoreMarkers, Completes, MarksRecord
<1>7. ASSUME NEW c \in Clients, Mine(c), ~ (RestoreExact(c) \/ RestoreMarkers(c))
      PROVE  CompletedByRestore'
  <2>1. \/ GetStep(c) \/ Call(c) \/ EnterStep(c) \/ BuildStep(c) \/ FinishStep(c)
        \/ WaitStep(c) \/ WaitCancelled(c) \/ WaitTimesOut(c)
        \/ Cancel(c) \/ UNCHANGED vars
    BY <1>7 DEF Mine, RequestStep, Deny, Lookup, LookupMisses, CallCreate, InCreate,
       CreateFailed, CreateSucceeded, RepeatMask, Conflict, GetStep, GiveUpWaiting, Disconnect
  <2> QED BY <1>0, <1>5, <2>1, Unmarked
<1>8. CASE Background \/ Clock \/ AllAnswered \/ UNCHANGED svars
  <2>1. entries' = entries \/ CleanupBatch
    BY <1>8 DEF Background, Clock, AllAnswered, svars, vars, CleanupTick, Tick, storeVars
  <2>2. \A k \in Keys : entries'[k] = entries[k] \/ entries'[k].restoredAt = 0
    BY <2>1 DEF CleanupBatch, Drain, Evict, Without, NoRecord
  <2> QED BY <1>5, <2>2
<1> QED BY <1>6, <1>7, <1>8 DEF ServiceNext, Mine

\* The invariant of the service holds of all it does.
LEMMA ServiceInvariant == ServiceSpec => [](IInv /\ VersionInv /\ Authors /\ Given /\ SInv)
<1>1. ServiceInit => SInv
  <2> SUFFICES ASSUME ServiceInit PROVE SInv
    OBVIOUS
  <2>1. request \in [Clients -> Request]
    BY RequestsAssumption DEF ServiceInit
  <2>2. ServiceTypeOK
    BY <2>1 DEF ServiceInit, ServiceTypeOK, Answered, Pending, Outcome
  <2>3. StagesMatch /\ AnswersMatch
    BY DEF ServiceInit, Init, StagesMatch, StageOf, AnswersMatch, AnswerOf, Answered, Pending
  <2>4. AuthorsMask /\ CompletedByRestore
    BY DEF ServiceInit, Init, AuthorsMask, Copies, NoRecord, CompletedByRestore
  <2> QED BY <2>2, <2>3, <2>4 DEF SInv, ServiceInit
<1>2. IInv /\ Given /\ Authors /\ SInv /\ [ServiceNext]_svars => SInv'
  <2> SUFFICES ASSUME IInv, Given, Authors, SInv, [ServiceNext]_svars PROVE SInv'
    OBVIOUS
  <2>1. (request \in Workloads)'
    BY RequestsStay DEF SInv
  <2>2. ServiceTypeOK'
    BY TypeStep
  <2>3. StagesMatch' /\ AuthorsMask'
    BY StageStep, AuthorsMaskStep DEF SInv, IInv
  <2>4. AnswersMatch' /\ CompletedByRestore'
    BY AnswersStep, CompletedStep
  <2> QED BY <2>1, <2>2, <2>3, <2>4 DEF SInv
<1> QED BY <1>1, <1>2, ServiceUsesStore, AuthorsInvariant, PTL DEF ServiceSpec

----------------------------------------------------------------------------
(* The theorems *)

\* Every request is in a stage of its handler and has a typed answer exactly when
\* it has been answered.
THEOREM ServiceTypes == ServiceSpec => []ServiceTypeOK
<1>1. SInv => ServiceTypeOK
  BY DEF SInv
<1> QED BY <1>1, ServiceInvariant, PTL

\* A mask that Process or Mask answers is the mask of the request's own text,
\* whoever built the record and however the answer came about.
THEOREM MasksOwnTextHolds == ServiceSpec => []MasksOwnText
<1>1. ASSUME IInv, Authors, SInv, NEW c \in Clients, Answered(c, {"mask", "repeat"})
      PROVE  \/ answer[c].text = MaskWith[Format(c)][Payload(c)]
             \/ Op(c) = "mask" /\ answer[c].text = Payload(c)
  <2>1. held[c] # NoRecord /\ answer[c].text = Masked(held[c])
    BY <1>1 DEF SInv, AnswersMatch, AnswerOf, Answered
  <2>2. held[c].author \in Clients /\ Format(held[c].author) = Format(c)
    BY <1>1, <2>1, HeldAuthor, SameFormat DEF SInv
  <2>3. CASE Answered(c, {"mask"})
    BY <1>1, <2>1, <2>3 DEF SInv, AnswersMatch, AnswerOf, Masked
  <2>4. CASE Answered(c, {"repeat"})
    <3>1. AsksForMask(c)
      BY <1>1, <2>4 DEF SInv, AnswersMatch, AnswerOf
    <3> QED BY <2>1, <2>2, <3>1 DEF AsksForMask, IsOriginal, IsMask, Masked, Original
  <2> QED BY <1>1, <2>3, <2>4 DEF Answered
<1>2. IInv /\ Authors /\ SInv => MasksOwnText
  BY <1>1 DEF MasksOwnText
<1> QED BY <1>2, ServiceInvariant, PTL

\* A text that Restore or Process gives back was masked for the same key by a
\* request that was allowed to, and the mask presented was the mask of it.
THEOREM RestoresWhatWasMaskedHolds == ServiceSpec => []RestoresWhatWasMasked
<1>1. ASSUME IInv, Authors, SInv, NEW c \in Clients, Answered(c, {"restore"})
      PROVE  /\ Allowed(c)
             /\ \E d \in Clients :
                  /\ KeyOf[d] = KeyOf[c] /\ Op(d) # "restore" /\ Allowed(d)
                  /\ \/ /\ Payload(c) = MaskWith[Format(d)][Payload(d)]
                        /\ answer[c].text = Payload(d)
                     \/ /\ Op(c) = "restore" /\ Format(d) = "marker"
                        /\ answer[c].text = Substitute[Payload(d)][Payload(c)]
  <2>1. AnswerOf(c)
    BY <1>1 DEF SInv, AnswersMatch
  <2>2. Allowed(c) /\ held[c] # NoRecord
    BY <1>1, <2>1 DEF AnswerOf, Answered
  <2> DEFINE d == held[c].author
  <2>3. d \in Clients /\ KeyOf[d] = KeyOf[c] /\ Op(d) # "restore" /\ Allowed(d)
    BY <1>1, <2>2, HeldAuthor DEF SInv, MayAuthor
  <2>4. \/ /\ Payload(c) = MaskWith[Format(d)][Payload(d)]
           /\ answer[c].text = Payload(d)
        \/ /\ Op(c) = "restore" /\ Format(d) = "marker"
           /\ answer[c].text = Substitute[Payload(d)][Payload(c)]
    BY <1>1, <2>1 DEF AnswerOf, IsMask, Masked, Original, Substituted
  <2> QED BY <2>2, <2>3, <2>4
<1>2. IInv /\ Authors /\ SInv => RestoresWhatWasMasked
  BY <1>1 DEF RestoresWhatWasMasked
<1> QED BY <1>2, ServiceInvariant, PTL

\* Requests of Process that were given masks of one record sent one text.
THEOREM OneOriginalPerRecordHolds == ServiceSpec => []OneOriginalPerRecord
<1>1. ASSUME SInv, NEW c \in Clients, Op(c) = "process", Answered(c, {"mask", "repeat"})
      PROVE  Payload(c) = Original(held[c])
  BY <1>1 DEF SInv, AnswersMatch, AnswerOf, Answered, AsksForMask, IsOriginal, Original
<1>2. ASSUME VersionInv, NEW c \in Clients, NEW d \in Clients,
             held[c].version = held[d].version
      PROVE  Original(held[c]) = Original(held[d])
  BY <1>2, CopiesHas DEF VersionInv, Origin, Original
<1>3. VersionInv /\ SInv => OneOriginalPerRecord
  BY <1>1, <1>2 DEF OneOriginalPerRecord
<1> QED BY <1>3, ServiceInvariant, PTL

\* A correspondence is completed only together with the answer that restores it.
THEOREM CompletedByRestoreHolds == ServiceSpec => []CompletedByRestore
<1>1. SInv => CompletedByRestore
  BY DEF SInv
<1> QED BY <1>1, ServiceInvariant, PTL
=============================================================================
