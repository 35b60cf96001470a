-------------------------- MODULE Admission_proofs ---------------------------
(***************************************************************************)
(* Theorems about Admission for every number of connections, every limit    *)
(* and every machine word.  Slots, gauge and answers need no hypothesis;    *)
(* the shares of the working budget need LengthsFit, and the run            *)
(* admission_wrap shows what happens without it.                           *)
(***************************************************************************)
EXTENDS Admission, Data_proofs, FiniteSetTheorems, TLAPS

\* No estimate, and no estimate added to a full budget, leaves the machine
\* integers.
LengthsFit ==
  /\ 4 * MaxBody < Word
  /\ 4 * MaxBody + TotalBudget < Word
  /\ \A l \in Lengths : 4 * l < Word /\ 4 * l + TotalBudget < Word

----------------------------------------------------------------------------
(* Machine integers *)

\* A machine operation yields an integer.
LEMMA WrapType ==
  ASSUME NEW n \in Int
  PROVE  Wrap(n) \in Int
<1>1. Word \in Nat /\ Word > 0
  BY HandlerAssumption
<1>2. (n + Word) % (2 * Word) \in Int
  BY <1>1
<1> QED BY <1>1, <1>2 DEF Wrap

\* A sum that is a machine integer is not changed.
LEMMA WrapFits ==
  ASSUME NEW n \in Nat, n < Word
  PROVE  Wrap(n) = n
<1>1. Word \in Nat /\ Word > 0
  BY HandlerAssumption
<1>2. n + Word \in 0 .. 2 * Word - 1
  BY <1>1
<1>3. (n + Word) % (2 * Word) = n + Word
  BY <1>1, <1>2
<1> QED BY <1>1, <1>3 DEF Wrap

\* The estimate of a length that fits is a natural number, and so is its sum
\* with any part of the budget.
LEMMA EstimateFits ==
  ASSUME LengthsFit, NEW l \in Lengths \cup {0}
  PROVE  /\ Estimate(l) \in Nat
         /\ Estimate(l) < Word
         /\ Estimate(l) + TotalBudget < Word
<1> DEFINE b == IF l <= 0 THEN MaxBody ELSE l
<1>1. /\ Word \in Nat /\ MaxBody \in Nat /\ TotalBudget \in Int
      /\ l \in Int
  BY HandlerAssumption
<1>2. b \in Nat /\ 4 * b < Word /\ 4 * b + TotalBudget < Word
  BY <1>1 DEF LengthsFit
<1>3. Wrap(4 * b) = 4 * b
  BY <1>2, WrapFits
<1> QED BY <1>1, <1>2, <1>3 DEF Estimate

----------------------------------------------------------------------------
(* Moving one connection *)

\* What a move of one connection does to the three sets the invariants count.
LEMMA MoveSets ==
  ASSUME NEW c \in Conns, NEW w \in Places,
         at \in [Conns -> Places], Goes(c, w)
  PROVE  /\ Holding' = IF w \in {"idle", "accepted"}
                       THEN Holding \ {c} ELSE Holding \cup {c}
         /\ Counted' = IF w \in {"idle", "accepted", "slot", "leave_slot"}
                       THEN Counted \ {c} ELSE Counted \cup {c}
         /\ Working' = IF w \in {"decode", "call", "leave_share"}
                       THEN Working \cup {c} ELSE Working \ {c}
BY DEF Goes, Holding, Counted, Working

\* The sets are finite.
LEMMA SetsFinite ==
  /\ IsFiniteSet(Holding)
  /\ IsFiniteSet(Counted)
  /\ IsFiniteSet(Working)
  /\ Cardinality(Counted) <= Cardinality(Holding)
  /\ Cardinality(Counted) \in Nat
  /\ Cardinality(Holding) \in Nat
<1>1. /\ Counted \subseteq Holding /\ Holding \subseteq Conns
      /\ Working \subseteq Conns
  BY DEF Counted, Holding, Working
<1>2. IsFiniteSet(Holding) /\ IsFiniteSet(Counted) /\ IsFiniteSet(Working)
  BY <1>1, HandlerAssumption, FS_Subset
<1>3. Cardinality(Counted) <= Cardinality(Holding)
  BY <1>1, <1>2, FS_Subset
<1> QED BY <1>2, <1>3, FS_CardinalityType

----------------------------------------------------------------------------
(* The steps keep types and counts *)

HandlerInv == HandlerTypes /\ SlotsAccounted /\ GaugeAccounted

\* A connection that holds a slot is one of those counted.
LEMMA HolderCounts ==
  ASSUME SlotsAccounted, NEW c \in Holding
  PROVE  active >= 1 /\ active \in Nat
<1>1. Cardinality(Holding) # 0
  BY SetsFinite, FS_EmptySet
<1> QED BY <1>1, SetsFinite DEF SlotsAccounted

\* Every variable keeps its type.
LEMMA TypesStep ==
  ASSUME HandlerTypes, SlotsAccounted, [HandlerNext]_hvars
  PROVE  HandlerTypes'
<1> USE DEF HandlerTypes
<1>1. CASE UNCHANGED hvars
  BY <1>1 DEF hvars
<1>2. ASSUME NEW c \in Conns, Accept(c) PROVE HandlerTypes'
  BY <1>2 DEF Accept, Goes, Places, Kinds
<1>3. ASSUME NEW c \in Conns, Refuse(c) PROVE HandlerTypes'
  BY <1>3 DEF Refuse, RefuseMethod, RefuseSlot, RefuseKey, RefuseShare,
              Finish, Goes, Places
<1>4. ASSUME NEW c \in Conns, TakeSlot(c) PROVE HandlerTypes'
  BY <1>4, HandlerAssumption DEF TakeSlot, Goes, Places
<1>5. ASSUME NEW c \in Conns, CountActive(c) PROVE HandlerTypes'
  BY <1>5 DEF CountActive, Goes, Places
<1>6. ASSUME NEW c \in Conns, TakeShare(c) PROVE HandlerTypes'
  <2>1. length[c] \in Int /\ MaxBody \in Int
    <3>1. length[c] \in Lengths \cup {0}
      OBVIOUS
    <3>2. \A l \in Lengths : l \in Int
      BY HandlerAssumption
    <3>3. MaxBody \in Int
      BY HandlerAssumption
    <3> HIDE DEF HandlerTypes
    <3> QED BY <3>1, <3>2, <3>3
  <2>2. Estimate(length[c]) \in Int
    BY <2>1, WrapType DEF Estimate
  <2>3. Wrap(used + Estimate(length[c])) \in Int
    BY <2>2, WrapType
  <2> QED BY <1>6, <2>2, <2>3 DEF TakeShare, Goes, Places
<1>7. ASSUME NEW c \in Conns, Decode(c) \/ DecodeFails(c) PROVE HandlerTypes'
  BY <1>7 DEF Decode, DecodeFails, Finish, Goes, Places
<1>8. ASSUME NEW c \in Conns, Serve(c) PROVE HandlerTypes'
  BY <1>8 DEF Serve, Finish, Goes, Places
<1>9. ASSUME NEW c \in Conns, ServeFails(c) PROVE HandlerTypes'
  BY <1>9 DEF ServeFails, Finish, Goes, Places, StatusForError,
              OutcomeForError, ServiceErrors
<1>10. ASSUME NEW c \in Conns, ReleaseShare(c) PROVE HandlerTypes'
  <2>1. Wrap(used - share[c]) \in Int
    BY WrapType
  <2> QED BY <1>10, <2>1 DEF ReleaseShare, Goes, Places
<1>11. ASSUME NEW c \in Conns, CountLeft(c) PROVE HandlerTypes'
  BY <1>11 DEF CountLeft, Goes, Places
<1>12. ASSUME NEW c \in Conns, ReleaseSlot(c) PROVE HandlerTypes'
  <2>1. c \in Holding
    BY <1>12 DEF ReleaseSlot, Holding
  <2>2. active - 1 \in 0 .. MaxActive
    BY <2>1, HolderCounts, HandlerAssumption
  <2> QED BY <1>12, <2>2 DEF ReleaseSlot, Goes, Places
<1> QED BY <1>1, <1>2, <1>3, <1>4, <1>5, <1>6, <1>7, <1>8, <1>9, <1>10, <1>11, <1>12
        DEF HandlerNext, Handle, Advance, Leave

\* Steps that move a connection without entering or leaving a set keep the
\* counts; the four that enter or leave one change the number with it.
LEMMA CountsStep ==
  ASSUME HandlerInv, [HandlerNext]_hvars
  PROVE  SlotsAccounted' /\ GaugeAccounted'
<1> USE DEF HandlerInv
<1> DEFINE Kept == Holding' = Holding /\ Counted' = Counted
<1>a. /\ at \in [Conns -> Places] /\ active \in Nat /\ gauge \in Int
      /\ MaxActive \in Nat /\ active <= MaxActive
  BY HandlerAssumption DEF HandlerTypes
<1>b. /\ active = Cardinality(Holding) /\ gauge = Cardinality(Counted)
      /\ Cardinality(Holding) <= MaxActive
  BY DEF SlotsAccounted, GaugeAccounted
<1>c. ASSUME Kept, UNCHANGED <<active, gauge>>
      PROVE  SlotsAccounted' /\ GaugeAccounted'
  BY <1>c, <1>b, SetsFinite DEF SlotsAccounted, GaugeAccounted
<1>1. CASE UNCHANGED hvars
  BY <1>1, <1>c DEF hvars, Holding, Counted
<1>2. ASSUME NEW c \in Conns, Accept(c) PROVE SlotsAccounted' /\ GaugeAccounted'
  <2>1. Kept
    BY <1>2, <1>a, MoveSets DEF Accept, Places, Holding, Counted
  <2> QED BY <1>2, <2>1, <1>c DEF Accept
<1>3. ASSUME NEW c \in Conns, Refuse(c) PROVE SlotsAccounted' /\ GaugeAccounted'
  <2>1. Kept
    BY <1>3, <1>a, MoveSets DEF Refuse, RefuseMethod, RefuseSlot, RefuseKey,
       RefuseShare, Finish, Places, Holding, Counted
  <2> QED BY <1>3, <2>1, <1>c DEF Refuse, RefuseMethod, RefuseSlot, RefuseKey,
       RefuseShare
<1>4. ASSUME NEW c \in Conns, TakeSlot(c) PROVE SlotsAccounted' /\ GaugeAccounted'
  <2>1. c \notin Holding /\ Holding' = Holding \cup {c} /\ Counted' = Counted
    BY <1>4, <1>a, MoveSets DEF TakeSlot, Places, Holding, Counted
  <2>2. Cardinality(Holding') = Cardinality(Holding) + 1
    BY <2>1, SetsFinite, FS_AddElement
  <2>3. active' = active + 1 /\ active < MaxActive /\ gauge' = gauge
    BY <1>4 DEF TakeSlot
  <2> QED BY <2>1, <2>2, <2>3, <1>a, <1>b, SetsFinite DEF SlotsAccounted, GaugeAccounted
<1>5. ASSUME NEW c \in Conns, CountActive(c) PROVE SlotsAccounted' /\ GaugeAccounted'
  <2>1. /\ c \notin Counted /\ c \in Holding
        /\ Holding' = Holding \cup {c} /\ Counted' = Counted \cup {c}
    BY <1>5, <1>a, MoveSets DEF CountActive, Places, Holding, Counted
  <2>2. Holding' = Holding
    BY <2>1
  <2>3. Cardinality(Counted') = Cardinality(Counted) + 1
    BY <2>1, SetsFinite, FS_AddElement
  <2>4. Cardinality(Counted') <= Cardinality(Holding')
    <3>1. Counted' \subseteq Holding'
      BY DEF Counted, Holding
    <3> QED BY <3>1, <2>2, SetsFinite, FS_Subset
  <2>5. active' = active /\ gauge' = gauge + 1
    BY <1>5 DEF CountActive
  <2> QED BY <2>2, <2>3, <2>4, <2>5, <1>a, <1>b DEF SlotsAccounted, GaugeAccounted
<1>6. ASSUME NEW c \in Conns, TakeShare(c) \/ Decode(c) \/ DecodeFails(c)
                              \/ Serve(c) \/ ServeFails(c) \/ ReleaseShare(c)
      PROVE  SlotsAccounted' /\ GaugeAccounted'
  <2>1. Kept
    BY <1>6, <1>a, MoveSets DEF TakeShare, Decode, DecodeFails, Serve, ServeFails,
       ReleaseShare, Finish, Places, Holding, Counted
  <2> QED BY <1>6, <2>1, <1>c DEF TakeShare, Decode, DecodeFails, Serve, ServeFails,
       ReleaseShare
<1>7. ASSUME NEW c \in Conns, CountLeft(c) PROVE SlotsAccounted' /\ GaugeAccounted'
  <2>1. /\ c \in Counted /\ c \in Holding
        /\ Holding' = Holding \cup {c} /\ Counted' = Counted \ {c}
    BY <1>7, <1>a, MoveSets DEF CountLeft, Places, Holding, Counted
  <2>2. Holding' = Holding
    BY <2>1
  <2>3. Cardinality(Counted') = Cardinality(Counted) - 1
    BY <2>1, SetsFinite, FS_RemoveElement
  <2>4. active' = active /\ gauge' = gauge - 1
    BY <1>7 DEF CountLeft
  <2> QED BY <2>2, <2>3, <2>4, <1>a, <1>b, SetsFinite DEF SlotsAccounted, GaugeAccounted
<1>8. ASSUME NEW c \in Conns, ReleaseSlot(c) PROVE SlotsAccounted' /\ GaugeAccounted'
  <2>1. /\ c \in Holding /\ c \notin Counted
        /\ Holding' = Holding \ {c} /\ Counted' = Counted \ {c}
    BY <1>8, <1>a, MoveSets DEF ReleaseSlot, Places, Holding, Counted
  <2>2. Counted' = Counted
    BY <2>1
  <2>3. Cardinality(Holding') = Cardinality(Holding) - 1
    BY <2>1, SetsFinite, FS_RemoveElement
  <2>4. Cardinality(Counted') <= Cardinality(Holding')
    <3>1. Counted' \subseteq Holding'
      BY DEF Counted, Holding
    <3>2. IsFiniteSet(Holding')
      BY <2>1, SetsFinite, FS_RemoveElement
    <3> QED BY <3>1, <3>2, FS_Subset
  <2>5. active' = active - 1 /\ gauge' = gauge
    BY <1>8 DEF ReleaseSlot
  <2> QED BY <2>2, <2>3, <2>4, <2>5, <1>a, <1>b, SetsFinite
          DEF SlotsAccounted, GaugeAccounted
<1> QED BY <1>1, <1>2, <1>3, <1>4, <1>5, <1>6, <1>7, <1>8
        DEF HandlerNext, Handle, Advance, Leave

\* The invariant holds in every reachable state.
LEMMA HandlerInvHolds == HandlerSpec => []HandlerInv
<1>1. HandlerInit => HandlerInv
  <2> SUFFICES ASSUME HandlerInit PROVE HandlerInv
    OBVIOUS
  <2>1. Holding = {} /\ Counted = {}
    BY DEF HandlerInit, Holding, Counted
  <2>2. Cardinality({}) = 0
    BY FS_EmptySet
  <2>3. HandlerTypes
    BY HandlerAssumption DEF HandlerInit, HandlerTypes, Places, Kinds
  <2>4. SlotsAccounted /\ GaugeAccounted
    BY <2>1, <2>2, HandlerAssumption DEF HandlerInit, SlotsAccounted, GaugeAccounted
  <2> QED BY <2>3, <2>4 DEF HandlerInv
<1>2. HandlerInv /\ [HandlerNext]_hvars => HandlerInv'
  BY TypesStep, CountsStep DEF HandlerInv
<1> QED BY <1>1, <1>2, PTL DEF HandlerSpec

\* Every variable keeps its type, and the channel of slots its capacity.
THEOREM HandlerTypesHold == HandlerSpec => []HandlerTypes
<1>1. HandlerInv => HandlerTypes
  BY DEF HandlerInv
<1> QED BY <1>1, HandlerInvHolds, PTL

\* The slots taken are those of the requests being handled, and the gauge counts
\* those of them that count themselves.
THEOREM CapacityAccountedHolds == HandlerSpec => []CapacityAccounted
<1>1. HandlerInv => CapacityAccounted
  BY DEF HandlerInv, CapacityAccounted
<1> QED BY <1>1, HandlerInvHolds, PTL

----------------------------------------------------------------------------
(* Shares of the working budget *)

\* What a working request holds is the estimate of its declared length, and the
\* budget in use is their sum.
SharesInv ==
  /\ \A c \in Working : share[c] = Estimate(length[c])
  /\ TotalBudget > 0 => /\ used = Total(Working, share)
                        /\ used <= TotalBudget

\* A declared length that fits gives a share that is a natural number.
LEMMA SharesAreNat ==
  ASSUME LengthsFit, HandlerTypes, SharesInv
  PROVE  \A c \in Working : share[c] \in Nat /\ share[c] < Word
BY EstimateFits DEF HandlerTypes, SharesInv, Working

\* A step that moves no connection into or out of the working ones, and leaves
\* their shares alone, keeps the account.
LEMMA SharesKept ==
  ASSUME SharesInv, Working' = Working, used' = used,
         \A c \in Working : share'[c] = share[c] /\ length'[c] = length[c]
  PROVE  SharesInv'
<1>1. Total(Working', share') = Total(Working, share)
  BY TotalSame
<1>2. \A c \in Working : Estimate(length[c])' = Estimate(length[c])
  BY DEF Estimate, Wrap
<1> QED BY <1>1, <1>2 DEF SharesInv

\* Every step keeps the account: a share is added when it fits, and given back
\* by whoever holds it.
LEMMA SharesStep ==
  ASSUME LengthsFit, HandlerTypes, SharesInv, [HandlerNext]_hvars
  PROVE  SharesInv'
<1>a. at \in [Conns -> Places] /\ share \in [Conns -> Int] /\ used \in Int
      /\ length \in [Conns -> Lengths \cup {0}]
  BY DEF HandlerTypes
<1>b. \A c \in Working : share[c] \in Nat /\ share[c] < Word
  BY SharesAreNat
<1>1. CASE UNCHANGED hvars
  BY <1>1, SharesKept DEF hvars, Working
<1>2. ASSUME NEW c \in Conns, Accept(c) PROVE SharesInv'
  <2>1. Working' = Working /\ c \notin Working
    BY <1>2, <1>a, MoveSets DEF Accept, Places, Working
  <2>2. \A d \in Working : share'[d] = share[d] /\ length'[d] = length[d]
    BY <1>2, <1>a, <2>1 DEF Accept, Working
  <2> QED BY <1>2, <2>1, <2>2, SharesKept DEF Accept
<1>3. ASSUME NEW c \in Conns,
             \/ Refuse(c)
             \/ TakeSlot(c) \/ CountActive(c) \/ Decode(c) \/ DecodeFails(c)
             \/ Serve(c) \/ ServeFails(c) \/ CountLeft(c) \/ ReleaseSlot(c)
      PROVE  SharesInv'
  <2>1. Working' = Working
    BY <1>3, <1>a, MoveSets DEF Refuse, RefuseMethod, RefuseSlot, RefuseKey,
       RefuseShare, TakeSlot, CountActive, Decode, DecodeFails, Serve, ServeFails,
       CountLeft, ReleaseSlot, Finish, Places, Working
  <2>2. UNCHANGED <<length, share, used>>
    BY <1>3 DEF Refuse, RefuseMethod, RefuseSlot, RefuseKey,
       RefuseShare, TakeSlot, CountActive, Decode, DecodeFails, Serve, ServeFails,
       CountLeft, ReleaseSlot
  <2> QED BY <2>1, <2>2, SharesKept
<1>4. ASSUME NEW c \in Conns, TakeShare(c) PROVE SharesInv'
  <2> DEFINE n == Estimate(length[c])
  <2>1. c \notin Working /\ Working' = Working \cup {c}
    BY <1>4, <1>a, MoveSets DEF TakeShare, Places, Working
  <2>2. n \in Nat /\ n < Word /\ n + TotalBudget < Word
    BY <1>a, EstimateFits
  <2>3. share' = [share EXCEPT ![c] = n] /\ length' = length
    BY <1>4 DEF TakeShare
  <2> HIDE DEF n
  <2>4. \A d \in Working : share'[d] = share[d]
    BY <1>a, <2>1, <2>3
  <2>5. share'[c] = n
    BY <1>a, <2>3
  <2>6. \A d \in Working' : share'[d] = Estimate(length'[d])
    BY <2>1, <2>3, <2>4, <2>5 DEF SharesInv, n
  <2>7. \A d \in Working \cup {c} : share'[d] \in Nat
    BY <1>b, <2>2, <2>4, <2>5
  <2>8. /\ Total(Working', share') = Total(Working, share) + n
        /\ Total(Working, share) \in Nat
    <3>1. /\ Total(Working \cup {c}, share') = Total(Working, share') + share'[c]
          /\ Total(Working, share') \in Nat
      BY <2>1, <2>7, SetsFinite, TotalAdd
    <3>2. Total(Working, share') = Total(Working, share)
      BY <2>4, TotalSame
    <3> QED BY <2>1, <2>5, <3>1, <3>2
  <2>9. ASSUME TotalBudget > 0
        PROVE  used' = Total(Working', share') /\ used' <= TotalBudget
    <3>1. used = Total(Working, share) /\ used <= TotalBudget
      BY <2>9 DEF SharesInv
    <3>2. Wrap(used + n) = used + n
      <4>1. used + n \in Nat /\ used + n < Word
        BY <2>2, <2>8, <3>1, HandlerAssumption
      <4> QED BY <4>1, WrapFits
    <3>3. ~(TotalBudget <= 0)
      BY <2>9, HandlerAssumption
    <3>4. used' = Wrap(used + n) /\ Wrap(used + n) <= TotalBudget
      BY <1>4, <3>3 DEF TakeShare, Fits, n
    <3> QED BY <2>8, <3>1, <3>2, <3>4
  <2> QED BY <2>3, <2>6, <2>9 DEF SharesInv, Estimate, Wrap
<1>5. ASSUME NEW c \in Conns, ReleaseShare(c) PROVE SharesInv'
  <2>1. c \in Working /\ Working' = Working \ {c}
    BY <1>5, <1>a, MoveSets DEF ReleaseShare, Places, Working
  <2>2. share' = share /\ length' = length
    BY <1>5 DEF ReleaseShare
  <2>3. \A d \in Working' : share'[d] = Estimate(length'[d])
    BY <2>1, <2>2 DEF SharesInv
  <2>4. /\ Total(Working \ {c}, share) = Total(Working, share) - share[c]
        /\ Total(Working, share) \in Nat
    BY <1>b, <2>1, SetsFinite, TotalRemove
  <2>5. Total(Working \ {c}, share) \in Nat
    BY <1>b, <2>1, SetsFinite, TotalType, FS_RemoveElement
  <2>6. ASSUME TotalBudget > 0
        PROVE  used' = Total(Working', share') /\ used' <= TotalBudget
    <3>1. used = Total(Working, share) /\ used <= TotalBudget
      BY <2>6 DEF SharesInv
    <3>2. used - share[c] \in Nat /\ used - share[c] < Word /\ share[c] \in Nat
      <4>1. used < Word
        BY <1>a, <3>1, HandlerAssumption
      <4> QED BY <1>b, <2>1, <2>4, <2>5, <3>1, <4>1, HandlerAssumption
    <3>3. Wrap(used - share[c]) = used - share[c]
      BY <3>2, WrapFits
    <3>4. ~(TotalBudget <= 0)
      BY <2>6, HandlerAssumption
    <3>5. used' = used - share[c]
      BY <1>5, <3>3, <3>4 DEF ReleaseShare
    <3> QED BY <1>a, <2>1, <2>2, <2>4, <3>1, <3>2, <3>5, HandlerAssumption
  <2> QED BY <2>2, <2>3, <2>6 DEF SharesInv, Estimate, Wrap
<1> QED BY <1>1, <1>2, <1>3, <1>4, <1>5 DEF HandlerNext, Handle, Advance, Leave

\* The account of the shares holds in every reachable state, when no length
\* is so large that its estimate wraps around.
LEMMA SharesInvHolds ==
  ASSUME LengthsFit
  PROVE  HandlerSpec => []SharesInv
<1>1. HandlerInit => SharesInv
  <2> SUFFICES ASSUME HandlerInit PROVE SharesInv
    OBVIOUS
  <2>1. Working = {}
    BY DEF HandlerInit, Working
  <2>2. Total({}, share) = 0
    BY TotalEmpty
  <2> QED BY <2>1, <2>2, HandlerAssumption DEF HandlerInit, SharesInv
<1>2. HandlerTypes /\ SharesInv /\ [HandlerNext]_hvars => SharesInv'
  BY SharesStep
<1> QED BY <1>1, <1>2, HandlerTypesHold, PTL DEF HandlerSpec

\* The budget in use is the sum of the shares of the working requests.
THEOREM SharesAccountedHolds ==
  ASSUME LengthsFit
  PROVE  HandlerSpec => []SharesAccounted
<1>1. SharesInv => SharesAccounted
  BY DEF SharesInv, SharesAccounted
<1> QED BY <1>1, SharesInvHolds, PTL

\* Under the same hypothesis the comment of handle is right: the true sum of
\* the estimates stays within the budget.
THEOREM LengthsBoundedHolds ==
  ASSUME LengthsFit
  PROVE  HandlerSpec => []LengthsBounded
<1>1. SharesInv /\ HandlerTypes => LengthsBounded
  <2> SUFFICES ASSUME SharesInv, HandlerTypes PROVE LengthsBounded
    OBVIOUS
  <2>1. \A c \in Working : share[c] = DeclaredBytes[c]
    <3> SUFFICES ASSUME NEW c \in Working PROVE share[c] = DeclaredBytes[c]
      OBVIOUS
    <3> DEFINE b == IF length[c] <= 0 THEN MaxBody ELSE length[c]
    <3>1. c \in Conns /\ length[c] \in Lengths \cup {0} /\ share[c] = Estimate(length[c])
      BY DEF HandlerTypes, SharesInv, Working
    <3>2. /\ MaxBody \in Nat /\ \A l \in Lengths : l \in Int
          /\ 4 * MaxBody < Word /\ \A l \in Lengths : 4 * l < Word
      BY HandlerAssumption DEF LengthsFit
    <3>3. b \in Nat /\ 4 * b < Word
      BY <3>1, <3>2
    <3>4. Wrap(4 * b) = 4 * b
      BY <3>3, WrapFits
    <3> QED BY <3>1, <3>4 DEF Estimate, DeclaredBytes
  <2>2. Total(Working, share) = Total(Working, DeclaredBytes)
    BY <2>1, TotalSame
  <2> QED BY <2>2 DEF SharesInv, LengthsBounded
<1> QED BY <1>1, SharesInvHolds, HandlerTypesHold, PTL

----------------------------------------------------------------------------
(* Answers *)

\* The two switches over the errors agree.
LEMMA SwitchesAgree ==
  ASSUME NEW err \in ServiceErrors
  PROVE  /\ OutcomeForError(err) \in OutcomeOf(StatusForError(err))
         /\ StatusForError(err) # 0
BY DEF ServiceErrors, OutcomeForError, StatusForError, OutcomeOf

\* Clients and metrics tell the same story.
THEOREM AnswersRecordedHolds == HandlerSpec => []AnswersRecorded
<1>1. HandlerInit => AnswersRecorded
  BY DEF HandlerInit, AnswersRecorded, OutcomeOf
<1>2. HandlerTypes /\ AnswersRecorded /\ [HandlerNext]_hvars => AnswersRecorded'
  <2> SUFFICES ASSUME HandlerTypes, AnswersRecorded, [HandlerNext]_hvars
               PROVE  AnswersRecorded'
    OBVIOUS
  <2> USE DEF AnswersRecorded, OutcomeOf, HandlerTypes, Goes, Finish
  <2>1. CASE UNCHANGED hvars
    BY <2>1 DEF hvars
  <2>2. ASSUME NEW c \in Conns, Accept(c) PROVE AnswersRecorded'
    BY <2>2 DEF Accept
  <2>3. ASSUME NEW c \in Conns, Refuse(c) PROVE AnswersRecorded'
    BY <2>3 DEF Refuse, RefuseMethod, RefuseSlot, RefuseKey, RefuseShare
  <2>4. ASSUME NEW c \in Conns, TakeSlot(c) \/ CountActive(c) \/ TakeShare(c)
                                \/ Decode(c)
        PROVE  AnswersRecorded'
    BY <2>4 DEF TakeSlot, CountActive, TakeShare, Decode
  <2>5. ASSUME NEW c \in Conns, DecodeFails(c) PROVE AnswersRecorded'
    BY <2>5 DEF DecodeFails
  <2>6. ASSUME NEW c \in Conns, Serve(c) PROVE AnswersRecorded'
    BY <2>6 DEF Serve
  <2>7. ASSUME NEW c \in Conns, ServeFails(c) PROVE AnswersRecorded'
    <3> HIDE DEF OutcomeOf
    <3>1. PICK err \in ServiceErrors :
            Finish(c, StatusForError(err), OutcomeForError(err), "leave_share")
      BY <2>7 DEF ServeFails
    <3>2. /\ OutcomeForError(err) \in OutcomeOf(StatusForError(err))
          /\ StatusForError(err) # 0
      BY SwitchesAgree
    <3> QED BY <3>1, <3>2
  <2>8. ASSUME NEW c \in Conns, Leave(c) PROVE AnswersRecorded'
    BY <2>8 DEF Leave, ReleaseShare, CountLeft, ReleaseSlot
  <2> HIDE DEF AnswersRecorded, OutcomeOf, HandlerTypes, Goes, Finish
  <2> QED BY <2>1, <2>2, <2>3, <2>4, <2>5, <2>6, <2>7, <2>8
          DEF HandlerNext, Handle, Advance
<1> QED BY <1>1, <1>2, HandlerTypesHold, PTL DEF HandlerSpec
=============================================================================
