--------------------------- MODULE LoadTest_proofs ---------------------------
(***************************************************************************)
(* LoadTest for every number of workers and pairs, every scenario and       *)
(* configuration, every pacer and whatever the service answers.             *)
(***************************************************************************)
EXTENDS LoadTest, FiniteSetTheorems, WellFoundedInduction, SequenceTheorems, TLAPS

----------------------------------------------------------------------------
(* Lists *)

\* A set of numbers that is not empty has a least member.
LEMMA Least ==
  ASSUME NEW I, I \subseteq Nat, I # {}
  PROVE  Min(I) \in I
<1> DEFINE Less == {ss \in Nat \X Nat : ss[1] < ss[2]}
<1>1. IsWellFoundedOn(Less, Nat)
  BY NatLessThanWellFounded DEF OpToRel
<1>2. \E x \in I : \A y \in I : x <= y
  <2>1. PICK x \in I : \A y \in I : <<y, x>> \notin Less
    <3> HIDE DEF Less
    <3> QED BY <1>1, WFMin
  <2>2. ASSUME NEW y \in I PROVE x <= y
    <3>1. x \in Nat /\ y \in Nat /\ <<y, x>>[1] = y /\ <<y, x>>[2] = x
      OBVIOUS
    <3>2. y < x => <<y, x>> \in Less
      BY <3>1
    <3> QED BY <2>1, <3>1, <3>2
  <2> QED BY <2>2
<1> QED BY <1>2 DEF Min

\* Appending, taking away in front, and the empty list.
LEMMA ListMembers ==
  ASSUME NEW T, NEW list \in Seq(T)
  PROVE  /\ ToSet(list) \subseteq T /\ DOMAIN list = 1 .. Len(list) /\ Len(list) \in Nat
         /\ list = <<>> <=> ToSet(list) = {}
         /\ \A e \in T : /\ Append(list, e) \in Seq(T)
                         /\ ToSet(Append(list, e)) = ToSet(list) \cup {e}
                         /\ IsInjective(list) /\ e \notin ToSet(list)
                              => IsInjective(Append(list, e))
<1>1. ToSet(list) \subseteq T /\ DOMAIN list = 1 .. Len(list) /\ Len(list) \in Nat
  BY DEF ToSet
<1>2. list = <<>> <=> ToSet(list) = {}
  <2>1. list = <<>> <=> Len(list) = 0
    BY EmptySeq
  <2>2. Len(list) > 0 => list[1] \in ToSet(list)
    BY <1>1 DEF ToSet
  <2>3. Len(list) = 0 => ToSet(list) = {}
    BY <1>1 DEF ToSet
  <2>4. Len(list) > 0 => ToSet(list) # {}
    BY <2>2
  <2> QED BY <1>1, <2>1, <2>3, <2>4
<1>3. ASSUME NEW e \in T
      PROVE  /\ Append(list, e) \in Seq(T)
             /\ ToSet(Append(list, e)) = ToSet(list) \cup {e}
             /\ IsInjective(list) /\ e \notin ToSet(list) => IsInjective(Append(list, e))
  <2> DEFINE longer == Append(list, e)
  <2>1. /\ longer \in Seq(T) /\ DOMAIN longer = 1 .. (Len(list) + 1)
        /\ longer[Len(list) + 1] = e
        /\ \A i \in 1 .. Len(list) : longer[i] = list[i]
    BY AppendProperties
  <2>2. ToSet(longer) = ToSet(list) \cup {e}
    BY <1>1, <2>1 DEF ToSet
  <2>3. IsInjective(list) /\ e \notin ToSet(list) => IsInjective(longer)
    BY <1>1, <2>1 DEF IsInjective, ToSet
  <2> QED BY <2>1, <2>2, <2>3
<1> QED BY <1>1, <1>2, <1>3

\* What is left of a list without its head.
LEMMA TailMembers ==
  ASSUME NEW T, NEW list \in Seq(T), list # <<>>
  PROVE  /\ Head(list) \in T /\ Tail(list) \in Seq(T) /\ Len(Tail(list)) = Len(list) - 1
         /\ Head(list) = list[1] /\ 1 \in DOMAIN list
         /\ \A i \in DOMAIN Tail(list) : i + 1 \in DOMAIN list /\ Tail(list)[i] = list[i + 1]
         /\ ToSet(list) = {Head(list)} \cup ToSet(Tail(list))
<1>1. /\ Head(list) \in T /\ Tail(list) \in Seq(T) /\ Len(Tail(list)) = Len(list) - 1
      /\ \A i \in 1 .. Len(Tail(list)) : Tail(list)[i] = list[i + 1]
  BY HeadTailProperties
<1>2. Len(list) \in Nat \ {0} /\ DOMAIN list = 1 .. Len(list) /\ Head(list) = list[1]
  BY EmptySeq
<1>3. DOMAIN Tail(list) = 1 .. (Len(list) - 1)
  BY <1>1
<1>4. ToSet(list) = {Head(list)} \cup ToSet(Tail(list))
  <2>1. ASSUME NEW i \in DOMAIN list
        PROVE  list[i] \in {Head(list)} \cup ToSet(Tail(list))
    <3>1. CASE i = 1
      BY <1>2, <3>1
    <3>2. CASE i # 1
      <4>1. i - 1 \in DOMAIN Tail(list) /\ Tail(list)[i - 1] = list[i]
        BY <1>1, <1>2, <1>3, <3>2
      <4> QED BY <4>1 DEF ToSet
    <3> QED BY <3>1, <3>2
  <2>2. ASSUME NEW i \in DOMAIN Tail(list) PROVE Tail(list)[i] \in ToSet(list)
    BY <1>1, <1>2, <1>3 DEF ToSet
  <2>3. Head(list) \in ToSet(list)
    BY <1>2 DEF ToSet
  <2> QED BY <2>1, <2>2, <2>3 DEF ToSet
<1> QED BY <1>1, <1>2, <1>3, <1>4

\* What is left of a list holds what was not taken, once each if the list did.
LEMMA RemainingMembers ==
  ASSUME NEW T, NEW list \in Seq(T), NEW S
  PROVE  /\ Remaining(list, S) \in Seq(T)
         /\ ToSet(Remaining(list, S)) = ToSet(list) \ S
         /\ IsInjective(list) => IsInjective(Remaining(list, S))
<1> DEFINE Kept == {i \in DOMAIN list : list[i] \notin S}
           Rank(i) == Cardinality({j \in Kept : j <= i})
           n == Cardinality(Kept)
           rank == [i \in Kept |-> Rank(i)]
           Pick(r) == CHOOSE i \in Kept : Rank(i) = r
<1>1. DOMAIN list = 1 .. Len(list) /\ Len(list) \in Nat
  OBVIOUS
<1>2. IsFiniteSet(Kept) /\ Kept \subseteq Nat
  <2>1. IsFiniteSet(1 .. Len(list))
    BY <1>1, FS_Interval
  <2> QED BY <1>1, <2>1, FS_Subset
<1>3. n \in Nat /\ IsFiniteSet(1 .. n) /\ Cardinality(1 .. n) = n
  <2>1. n \in Nat
    BY <1>2, FS_CardinalityType
  <2> QED BY <2>1, FS_Interval
<1>4. ASSUME NEW i \in Kept PROVE Rank(i) \in 1 .. n
  <2>1. {j \in Kept : j <= i} \subseteq Kept /\ i \in {j \in Kept : j <= i}
    BY <1>2
  <2>2. IsFiniteSet({j \in Kept : j <= i}) /\ Rank(i) <= n
    BY <1>2, <2>1, FS_Subset
  <2>3. Rank(i) \in Nat /\ Rank(i) # 0
    BY <2>1, <2>2, FS_CardinalityType, FS_EmptySet
  <2> QED BY <1>3, <2>2, <2>3
<1>5. ASSUME NEW i \in Kept, NEW j \in Kept, i < j PROVE Rank(i) < Rank(j)
  <2> DEFINE A == {k \in Kept : k <= i}
             B == {k \in Kept : k <= j}
  <2>1. A \subseteq B /\ j \in B /\ j \notin A
    BY <1>2, <1>5
  <2>2. IsFiniteSet(B) /\ B \subseteq Kept
    BY <1>2, FS_Subset
  <2>3. Cardinality(A) <= Cardinality(B) /\ (Cardinality(A) = Cardinality(B) => A = B)
    <3> HIDE DEF A, B
    <3> QED BY <2>1, <2>2, FS_Subset
  <2>4. Cardinality(A) = Rank(i) /\ Cardinality(B) = Rank(j)
    OBVIOUS
  <2>5. Rank(i) \in Nat /\ Rank(j) \in Nat
    <3> HIDE DEF Rank, Kept, n
    <3> QED BY <1>3, <1>4
  <2> HIDE DEF A, B, Rank
  <2> QED BY <2>1, <2>3, <2>4, <2>5
<1>6. ASSUME NEW i \in Kept, NEW j \in Kept, Rank(i) = Rank(j) PROVE i = j
  <2> HIDE DEF Rank, Kept, n
  <2>1. i \in Nat /\ j \in Nat /\ Rank(i) \in Nat
    BY <1>2, <1>3, <1>4
  <2> QED BY <1>5, <1>6, <2>1
<1>7. rank \in Injection(Kept, 1 .. n)
  <2> HIDE DEF Rank, Kept, n
  <2>1. rank \in [Kept -> 1 .. n]
    BY <1>4
  <2>2. IsInjective(rank)
    BY <1>6 DEF IsInjective
  <2> QED BY <2>1, <2>2 DEF Injection
<1>8. rank \in Surjection(Kept, 1 .. n)
  BY <1>3, <1>7, FS_Injection
<1>9. ASSUME NEW r \in 1 .. n PROVE Pick(r) \in Kept /\ Rank(Pick(r)) = r
  <2> HIDE DEF Rank, Kept, n
  <2>1. \E i \in Kept : Rank(i) = r
    BY <1>8 DEF Surjection
  <2> QED BY <2>1
<1>10. ASSUME NEW i \in Kept PROVE Pick(Rank(i)) = i
  <2>1. Rank(i) \in 1 .. n
    BY <1>4
  <2>2. Pick(Rank(i)) \in Kept /\ Rank(Pick(Rank(i))) = Rank(i)
    BY <1>9, <2>1
  <2> HIDE DEF Rank, Kept, Pick, n
  <2> QED BY <1>6, <2>2
<1>11. Remaining(list, S) = [r \in 1 .. n |-> list[Pick(r)]]
  BY DEF Remaining
<1>12. \A i \in Kept : i \in DOMAIN list /\ list[i] \notin S
  OBVIOUS
<1>13. \A i \in DOMAIN list : list[i] \notin S => i \in Kept
  OBVIOUS
<1> HIDE DEF Rank, Kept, Pick, n
<1>14. \A r \in 1 .. n : list[Pick(r)] \in T
  BY <1>9, <1>12
<1>15. Remaining(list, S) \in Seq(T)
  BY <1>3, <1>11, <1>14, IsASeq
<1>16. ToSet(Remaining(list, S)) = ToSet(list) \ S
  <2>1. ASSUME NEW r \in 1 .. n PROVE list[Pick(r)] \in ToSet(list) \ S
    BY <1>9, <1>12 DEF ToSet
  <2>2. ASSUME NEW i \in DOMAIN list, list[i] \notin S
        PROVE  \E r \in 1 .. n : list[Pick(r)] = list[i]
    BY <1>4, <1>10, <1>13, <2>2
  <2> QED BY <1>11, <2>1, <2>2 DEF ToSet
<1>17. ASSUME IsInjective(list) PROVE IsInjective(Remaining(list, S))
  <2> SUFFICES ASSUME NEW q \in 1 .. n, NEW r \in 1 .. n, list[Pick(q)] = list[Pick(r)]
               PROVE  q = r
    BY <1>11 DEF IsInjective
  <2>1. Pick(q) = Pick(r)
    BY <1>9, <1>12, <1>17 DEF IsInjective
  <2> QED BY <1>9, <2>1
<1> QED BY <1>15, <1>16, <1>17

----------------------------------------------------------------------------
(* The invariant *)

Free == {"slot", "take"}
AtWork == {"send", "backoff", "pay", "finish"}
Between == {"backoff", "pay", "finish", "check"}

Creates == config.mode # "restore_dominant"
Sequential == config.mode = "sequential"
Known == (-Len(budgets)) .. (2 * Total - 1)
KnownSteps == [pair : Known \cup {0}, isMask : BOOLEAN]
Replies == Answers \cup BrokenBodies \cup {Canceled, RunEnded}

\* The scenario's tables of pairs,
TableTypes ==
  /\ nextPair \in 0 .. Total
  /\ pending \in Seq(Pairs) /\ inFlight \subseteq Pairs /\ delays \in Seq(Pairs)
  /\ data \in [Pairs -> {"none", "text", "mask"}]
  /\ retries \in [Pairs -> 0 .. RestoreBudget]

\* its other variables, and what stays empty in a scenario that does not use it.
ScenarioTypes ==
  /\ config \in Configs /\ TableTypes
  /\ budgets \in Seq(Int) /\ (Creates => budgets = <<>>)
  /\ ~Creates => pending = <<>> /\ \A p \in Pairs : data[p] = "none"
  /\ signalled \subseteq asleep /\ asleep \subseteq Callers
  /\ timer \in [Callers -> Pairs \cup {NoTimer}]

\* The variables of the drivers: only the open loop has a queue.
RunTypes ==
  /\ ctx \in {"open", "deadline", "canceled"}
  /\ hard \in BOOLEAN /\ stopped \in BOOLEAN /\ producing \in BOOLEAN
  /\ pc \in [Workers -> Free \cup Between \cup {"next", "send", "done"}]
  /\ step \in [Workers -> KnownSteps] /\ resp \in [Workers -> Replies]
  /\ attempts \in [Workers -> Nat] /\ taken \in [Workers -> Nat]
  /\ invalid \in Nat /\ restored \in [Known -> Nat]
  /\ slots \in 0 .. SlotQueue /\ due \in 0 .. (Unit - 1) /\ emitting \in 0 .. MaxBurst
  /\ queue \in Seq(KnownSteps) /\ Len(queue) <= QueueSize /\ skipped \subseteq KnownSteps
  /\ Driver("runner") => queue = <<>> /\ skipped = {} /\ ~producing

\* The requests of an operation and the slots it paid with, at each place.
PaidAt(w) ==
  /\ pc[w] \in Free \cup {"next", "done"} => attempts[w] = 0
  /\ pc[w] \in Free => taken[w] = 0
  /\ pc[w] = "next" => taken[w] = 1
  /\ pc[w] = "done" => taken[w] <= 1
  /\ pc[w] = "send" => taken[w] = attempts[w] + 1
  /\ pc[w] \in Between => taken[w] = attempts[w]
  /\ pc[w] \in {"send", "backoff", "pay"} => attempts[w] < MaxAttempts
  /\ pc[w] \in {"finish", "check"} => attempts[w] <= MaxAttempts

\* Only a worker that ends with it counts an invalid answer beyond the threshold.
Gone == {w \in Workers : pc[w] = "done"}
InvalidBounded == invalid < MaxInvalid + Cardinality(Gone)

\* The steps that nobody completed yet.
Handed == {step[w] : w \in {v \in Workers : pc[v] \in AtWork}} \cup ToSet(queue) \cup skipped

\* No two of them are of one pair.
OneHolder ==
  /\ \A v, w \in Workers :
       pc[v] \in AtWork /\ pc[w] \in AtWork /\ step[v].pair = step[w].pair => v = w
  /\ \A i, j \in DOMAIN queue : queue[i].pair = queue[j].pair => i = j
  /\ \A s, t \in skipped : s.pair = t.pair => s = t
  /\ \A w \in Workers : pc[w] \in AtWork =>
       /\ \A i \in DOMAIN queue : queue[i].pair # step[w].pair
       /\ \A s \in skipped : s.pair # step[w].pair
  /\ \A i \in DOMAIN queue, s \in skipped : queue[i].pair # s.pair

\* A pair and its uncompleted step fit together,
HandedFits(st) ==
  LET p == st.pair IN
  /\ p \in Pairs /\ p < nextPair /\ restored[p] = 0
  /\ st.isMask => /\ data[p] = IF Sequential THEN "text" ELSE "none"
                  /\ p \notin inFlight /\ p \notin ToSet(pending)
  /\ ~st.isMask => /\ data[p] = "mask" /\ p \in inFlight
                   /\ p \in ToSet(pending) <=> ~Sequential

\* and so do the tables of the scenario, for a pair that waits for its restore
\* and for every other.
PairFits(p) ==
  /\ p \in ToSet(pending) => data[p] = "mask" /\ (Sequential => p \notin inFlight)
  /\ data[p] # "none" => p < nextPair /\ (p \in ToSet(pending) \/ \E st \in Handed : st.pair = p)
  /\ p \in inFlight => RestoreStep(p) \in Handed
  /\ restored[p] > 0 => restored[p] = 1 /\ p < nextPair /\ data[p] = "none"

PairsFit ==
  /\ IsInjective(pending)
  /\ \A st \in Handed : HandedFits(st)
  /\ \A p \in Pairs : PairFits(p)
  /\ \A p \in Known \ Pairs : restored[p] = 0

\* Restores of a prepared pair: done, under way and left.
Restoring(i) == {w \in Workers : pc[w] \in AtWork /\ step[w] = RestoreStep(-i)}
Allowance == IF config.budget > 0 THEN config.budget ELSE 0
Left(i) == IF budgets[i] > 0 THEN budgets[i] ELSE 0

BudgetsKept ==
  /\ \A i \in DOMAIN budgets : restored[-i] + Cardinality(Restoring(i)) + Left(i) <= Allowance
  /\ \A p \in Known : p >= 0 => restored[p] = 0
  /\ \A w \in Workers : pc[w] \in AtWork /\ ~step[w].isMask => step[w].pair < 0

\* How a run of the closed loop comes to an end.
EndInv ==
  /\ Driver("runner") /\ config.workers > 0 /\ ctx = "open" /\ ~stopped /\ Gone = Workers
       => nextPair = Total /\ pending = <<>>
  /\ Driver("runner") /\ returned = "exhausted" => ctx = "open" /\ ~stopped /\ Gone = Workers

LoadInv ==
  /\ ScenarioTypes /\ RunTypes
  /\ \A w \in Workers : PaidAt(w)
  /\ InvalidBounded
  /\ Creates => OneHolder /\ PairsFit
  /\ ~Creates => BudgetsKept
  /\ EndInv

----------------------------------------------------------------------------
(* A turn of the scenario *)

\* What the command line lets a run be.
LEMMA ConfigFacts ==
  ASSUME config \in Configs
  PROVE  /\ Total \in Nat /\ Pairs \subseteq Nat /\ RestoreBudget \in Nat \ {0}
         /\ config.budget \in Int /\ config.workers \in Nat /\ 1 .. config.workers \subseteq Workers
         /\ config.mode \in {"sequential", "mask_dominant", "restore_dominant"}
         /\ Driver("runner") <=> ~Driver("scheduler")
         /\ Driver("scheduler") => config.mode = "mask_dominant"
<1>1. Configuration(config) /\ 1 .. config.workers \subseteq Workers
  BY ConfigAssumption
<1> QED BY <1>1 DEF Configuration, Total, Pairs, RestoreBudget, Driver

\* The pairs that the loop of sequential.Next passes, takes, and leaves.
LEMMA Passes ==
  ASSUME pending \in Seq(Pairs), IsInjective(pending)
  PROVE  /\ First # 0 => pending[First] \in ToSet(pending) /\ Alive(pending[First])
         /\ Behind \in Seq(Pairs) /\ IsInjective(Behind)
         /\ ToSet(Behind) \cap Passed = {}
         /\ First # 0 => pending[First] \notin Passed \cup ToSet(Behind)
         /\ ToSet(pending) = Passed \cup ToSet(Behind)
                               \cup (IF First = 0 THEN {} ELSE {pending[First]})
<1> DEFINE I == {i \in 1 .. Len(pending) : Alive(pending[i])}
           n == Len(pending)
<1>1. n \in Nat /\ DOMAIN pending = 1 .. n
  OBVIOUS
<1>2. First = IF I # {} THEN Min(I) ELSE 0
  BY DEF First, SelectInSeq
<1>3. CASE First = 0
  <2>1. Passed = ToSet(pending) /\ Behind = <<>>
    BY <1>3 DEF Passed, Behind
  <2>2. ToSet(<<>>) = {} /\ <<>> \in Seq(Pairs) /\ IsInjective(<<>>)
    BY DEF ToSet, IsInjective
  <2> QED BY <1>3, <2>1, <2>2
<1>4. CASE First # 0
  <2>1. First \in I
    <3>1. I # {} /\ I \subseteq Nat
      BY <1>2, <1>4
    <3> QED BY <1>2, <3>1, Least
  <2>2. First \in 1 .. n /\ Alive(pending[First])
    BY <2>1
  <2>3. /\ Passed = ToSet(SubSeq(pending, 1, First - 1))
        /\ Behind = SubSeq(pending, First + 1, n)
    BY <1>4 DEF Passed, Behind
  <2>4. /\ DOMAIN SubSeq(pending, 1, First - 1) = 1 .. (First - 1)
        /\ \A i \in 1 .. (First - 1) : SubSeq(pending, 1, First - 1)[i] = pending[i]
    BY <1>1, <2>2
  <2>5. /\ Behind \in Seq(Pairs) /\ DOMAIN Behind = 1 .. (n - First)
        /\ \A i \in 1 .. (n - First) : Behind[i] = pending[First + i]
    BY <1>1, <2>2, <2>3
  <2>6. Passed = {pending[i] : i \in 1 .. (First - 1)}
    BY <2>3, <2>4 DEF ToSet
  <2>7. ToSet(Behind) = {pending[i] : i \in (First + 1) .. n}
    <3>1. ASSUME NEW i \in (First + 1) .. n
          PROVE  i - First \in 1 .. (n - First) /\ Behind[i - First] = pending[i]
      BY <1>1, <2>2, <2>5
    <3>2. ASSUME NEW i \in 1 .. (n - First)
          PROVE  First + i \in (First + 1) .. n
      BY <1>1, <2>2
    <3> HIDE DEF n
    <3> QED BY <2>5, <3>1, <3>2 DEF ToSet
  <2>8. ToSet(pending) = {pending[i] : i \in 1 .. n}
    BY <1>1 DEF ToSet
  <2>9. IsInjective(Behind)
    <3> SUFFICES ASSUME NEW i \in 1 .. (n - First), NEW j \in 1 .. (n - First),
                        Behind[i] = Behind[j]
                 PROVE  i = j
      BY <2>5 DEF IsInjective
    <3>1. First + i \in 1 .. n /\ First + j \in 1 .. n
      BY <1>1, <2>2
    <3>2. First + i = First + j
      BY <1>1, <2>5, <3>1 DEF IsInjective
    <3> QED BY <1>1, <2>2, <3>2
  <2>10. \A i, j \in 1 .. n : pending[i] = pending[j] => i = j
    BY <1>1 DEF IsInjective
  <2>11. \A i \in 1 .. n : i \in 1 .. (First - 1) \/ i = First \/ i \in (First + 1) .. n
    BY <1>1, <2>2
  <2>12. \A i \in 1 .. (First - 1) : i \in 1 .. n /\ i # First /\ i \notin (First + 1) .. n
    BY <1>1, <2>2
  <2>13. \A i \in (First + 1) .. n : i \in 1 .. n /\ i # First
    BY <1>1, <2>2
  <2> HIDE DEF n, I
  <2>14. ToSet(Behind) \cap Passed = {}
    BY <2>6, <2>7, <2>10, <2>12, <2>13
  <2>15. pending[First] \notin Passed \cup ToSet(Behind)
    BY <2>2, <2>6, <2>7, <2>10, <2>12, <2>13
  <2>16. ToSet(pending) = Passed \cup ToSet(Behind) \cup {pending[First]}
    BY <2>2, <2>6, <2>7, <2>8, <2>11, <2>12, <2>13
  <2>17. pending[First] \in ToSet(pending)
    BY <2>2, <2>8
  <2> QED BY <1>4, <2>2, <2>5, <2>9, <2>14, <2>15, <2>16, <2>17
<1> QED BY <1>3, <1>4

\* A timer is for a delayed pair.
LEMMA AlarmType ==
  ASSUME delays \in Seq(Pairs), NEW list
  PROVE  Alarm(list) \in Pairs \cup {NoTimer}
<1> DEFINE I == {i \in 1 .. Len(delays) : delays[i] \in ToSet(list) \ inFlight}
           Late == IF I # {} THEN Min(I) ELSE 0
<1>1. Late # 0 => Late \in 1 .. Len(delays)
  <2>1. I \subseteq Nat /\ I \subseteq 1 .. Len(delays)
    OBVIOUS
  <2>2. I # {} => Min(I) \in I
    <3> HIDE DEF I
    <3> QED BY <2>1, Least
  <2> QED BY <2>1, <2>2
<1>2. Alarm(list) = NoTimer \/ (Late # 0 /\ Alarm(list) = delays[Late])
  BY DEF Alarm, SelectInSeq
<1>3. Late # 0 => delays[Late] \in Pairs
  <2> HIDE DEF Late
  <2> QED BY <1>1
<1> QED BY <1>2, <1>3

\* What a turn does to the tables, whatever the scenario: it forgets the pairs
\* in D, and issues a restore, the next mask, or nothing.
Forgets(D) ==
  /\ D \subseteq ToSet(pending) \ inFlight /\ IsInjective(pending')
  /\ TableTypes'

RestoreIssued(st, D) ==
  /\ Forgets(D)
  /\ st = RestoreStep(st.pair) /\ st.pair \in ToSet(pending) \ (inFlight \cup D)
  /\ ToSet(pending') = ToSet(pending) \ (D \cup IF Sequential THEN {st.pair} ELSE {})
  /\ data' = Dropped(D) /\ inFlight' = inFlight \cup {st.pair} /\ nextPair' = nextPair

MaskIssued(st, D) ==
  /\ Forgets(D)
  /\ nextPair < Total /\ st = MaskStep(nextPair) /\ nextPair' = nextPair + 1
  /\ ToSet(pending') = ToSet(pending) \ D /\ inFlight' = inFlight
  /\ data' = IF Sequential THEN [Dropped(D) EXCEPT ![nextPair] = "text"] ELSE Dropped(D)

NoneIssued(D) ==
  /\ Forgets(D)
  /\ ToSet(pending') = ToSet(pending) \ D /\ inFlight' = inFlight
  /\ data' = Dropped(D) /\ nextPair' = nextPair

\* The scenarios that create pairs between two turns.
Tables ==
  /\ config \in Configs /\ TableTypes /\ IsInjective(pending)
  /\ Sequential => ToSet(pending) \cap inFlight = {}

\* Dropping pairs leaves the data in its range.
LEMMA DroppedType ==
  ASSUME TableTypes, NEW D
  PROVE  Dropped(D) \in [Pairs -> {"none", "text", "mask"}]
BY DEF TableTypes, Dropped

\* The turns of sequential.Next.
LEMMA SequentialTurn ==
  ASSUME Tables, Sequential, config' = config, NEW st
  PROVE  /\ SequentialRestores(st) => RestoreIssued(st, Passed)
         /\ SequentialMasks(st) => MaskIssued(st, Passed)
         /\ SequentialIdles => NoneIssued(Passed)
<1> USE DEF Tables
<1>1. TableTypes /\ pending \in Seq(Pairs) /\ Total' = Total /\ Pairs' = Pairs
      /\ RestoreBudget' = RestoreBudget
  BY DEF TableTypes, Total, Pairs, RestoreBudget
<1>2. /\ First # 0 => pending[First] \in ToSet(pending) /\ Alive(pending[First])
      /\ Behind \in Seq(Pairs) /\ IsInjective(Behind)
      /\ ToSet(Behind) \cap Passed = {}
      /\ First # 0 => pending[First] \notin Passed \cup ToSet(Behind)
      /\ ToSet(pending) = Passed \cup ToSet(Behind)
                            \cup (IF First = 0 THEN {} ELSE {pending[First]})
  BY <1>1, Passes
<1>3. Exhausted = Passed /\ Passed \subseteq ToSet(pending) \ inFlight
  BY <1>2 DEF Exhausted
<1>4. Undelayed(Passed) \in Seq(Pairs)
  BY <1>1, RemainingMembers DEF TableTypes, Undelayed
<1>5. Dropped(Passed) \in [Pairs -> {"none", "text", "mask"}]
  BY <1>1, DroppedType
<1>6. ToSet(pending) \subseteq Pairs
  BY <1>1, ListMembers
<1>7. Total \in Nat /\ RestoreBudget \in Nat \ {0}
  BY ConfigFacts
<1>8. First # 0 => pending[First] \in Pairs
  BY <1>2, <1>6
<1>9. ASSUME SequentialRestores(st) PROVE RestoreIssued(st, Passed)
  <2>1. /\ First # 0 /\ st = RestoreStep(pending[First]) /\ st.pair = pending[First]
        /\ pending' = Behind /\ inFlight' = inFlight \cup {st.pair}
        /\ retries' = [retries EXCEPT ![st.pair] = @ - 1]
        /\ data' = Dropped(Passed) /\ delays' = Undelayed(Passed) /\ nextPair' = nextPair
    BY <1>3, <1>9 DEF SequentialRestores, RestoreStep
  <2>2. retries[st.pair] > 0 /\ st.pair \notin inFlight /\ st.pair \in Pairs
    BY <1>2, <1>8, <2>1 DEF Alive
  <2>3. retries' \in [Pairs -> 0 .. RestoreBudget]
    BY <1>1, <1>7, <2>1, <2>2 DEF TableTypes
  <2>4. TableTypes'
    BY <1>1, <1>2, <1>4, <1>5, <2>1, <2>2, <2>3 DEF TableTypes
  <2>5. ToSet(pending') = ToSet(pending) \ (Passed \cup {st.pair})
    BY <1>2, <2>1
  <2> QED BY <1>2, <1>3, <2>1, <2>2, <2>4, <2>5 DEF RestoreIssued, Forgets
<1>10. ASSUME NothingReady
       PROVE  /\ pending' \in Seq(Pairs) /\ IsInjective(pending')
              /\ ToSet(pending') = ToSet(pending) \ Passed
              /\ delays' \in Seq(Pairs) /\ inFlight' = inFlight
  <2>1. pending' = (IF First = 0 THEN <<>> ELSE Append(Behind, pending[First]))
        /\ delays' = Undelayed(Passed) /\ inFlight' = inFlight
    BY <1>3, <1>10 DEF NothingReady
  <2>2. CASE First = 0
    <3>1. Behind = <<>>
      BY <2>2 DEF Behind
    <3> QED BY <1>2, <1>4, <2>1, <2>2, <3>1
  <2>3. CASE First # 0
    BY <1>2, <1>4, <1>8, <2>1, <2>3, ListMembers
  <2> QED BY <2>2, <2>3
<1>11. ASSUME SequentialMasks(st) PROVE MaskIssued(st, Passed)
  <2>1. /\ NothingReady /\ nextPair < Total /\ st = MaskStep(nextPair)
        /\ nextPair' = nextPair + 1
        /\ data' = [Dropped(Passed) EXCEPT ![nextPair] = "text"]
        /\ retries' = [retries EXCEPT ![nextPair] = RestoreBudget]
    BY <1>3, <1>11 DEF SequentialMasks
  <2>2. nextPair \in 0 .. Total /\ nextPair' \in 0 .. Total
    BY <1>1, <1>7, <2>1 DEF TableTypes
  <2>3. retries' \in [Pairs -> 0 .. RestoreBudget]
    <3>1. RestoreBudget \in 0 .. RestoreBudget
      BY <1>7
    <3>2. retries \in [Pairs -> 0 .. RestoreBudget]
      BY <1>1 DEF TableTypes
    <3> QED BY <2>1, <3>1, <3>2
  <2>4. data' \in [Pairs -> {"none", "text", "mask"}]
    BY <1>5, <2>1
  <2>5. TableTypes'
    BY <1>1, <1>10, <2>1, <2>2, <2>3, <2>4 DEF TableTypes
  <2> QED BY <1>3, <1>10, <2>1, <2>5 DEF MaskIssued, Forgets
<1>12. ASSUME SequentialIdles PROVE NoneIssued(Passed)
  <2>1. NothingReady /\ data' = Dropped(Passed) /\ nextPair' = nextPair /\ retries' = retries
    BY <1>3, <1>12 DEF SequentialIdles
  <2>2. TableTypes'
    BY <1>1, <1>5, <1>10, <2>1 DEF TableTypes
  <2> QED BY <1>3, <1>10, <2>1, <2>2 DEF NoneIssued, Forgets
<1> QED BY <1>9, <1>11, <1>12

IsStep(st) == st.isMask \in BOOLEAN /\ st = [pair |-> st.pair, isMask |-> st.isMask]

\* A candidate has a pair and a direction.
LEMMA CandidatesAreSteps ==
  ASSUME NEW st \in Candidates
  PROVE  IsStep(st)
<1>1. (\E p : st = MaskStep(p)) \/ (\E p : st = RestoreStep(p))
  BY DEF Candidates
<1>2. \A p : IsStep(MaskStep(p)) /\ IsStep(RestoreStep(p))
  BY DEF IsStep, MaskStep, RestoreStep
<1> QED BY <1>1, <1>2

\* The turns of maskDominant.Next.
LEMMA DominantTurn ==
  ASSUME Tables, ~Sequential, config' = config, NEW st, IsStep(st)
  PROVE  /\ TryRestore(st) => \E D : RestoreIssued(st, D)
         /\ DominantMasks(st) => \E D : MaskIssued(st, D)
         /\ DominantIdles => \E D : NoneIssued(D)
<1> USE DEF Tables
<1>1. TableTypes /\ pending \in Seq(Pairs) /\ delays \in Seq(Pairs) /\ Total' = Total
      /\ Pairs' = Pairs /\ RestoreBudget' = RestoreBudget
  BY DEF TableTypes, Total, Pairs, RestoreBudget
<1>2. ToSet(pending) \subseteq Pairs /\ Total \in Nat /\ RestoreBudget \in Nat \ {0}
  BY <1>1, ListMembers, ConfigFacts
<1>3. ASSUME NEW D \in SUBSET Spent, RemovePending(D)
      PROVE  /\ D \subseteq ToSet(pending) \ inFlight
             /\ pending' \in Seq(Pairs) /\ IsInjective(pending')
             /\ ToSet(pending') = ToSet(pending) \ D
             /\ data' = Dropped(D) /\ data' \in [Pairs -> {"none", "text", "mask"}]
             /\ delays' \in Seq(Pairs)
  <2>1. D \subseteq ToSet(pending) \ inFlight /\ D \cap ToSet(pending) = D
    BY DEF Spent, Waiting
  <2>2. pending' = Remaining(pending, D) /\ data' = Dropped(D) /\ delays' = Remaining(delays, D)
    BY <1>3, <2>1 DEF RemovePending, Undelayed
  <2>3. data' \in [Pairs -> {"none", "text", "mask"}]
    BY <1>1, <2>2, DroppedType
  <2> QED BY <1>1, <2>1, <2>2, <2>3, RemainingMembers
<1>4. ASSUME TryRestore(st) PROVE \E D : RestoreIssued(st, D)
  <2>1. PICK D \in SUBSET Spent : RemovePending(D)
    BY <1>4 DEF TryRestore
  <2>2. /\ ~st.isMask /\ st.pair \in ToSet(pending) \ inFlight /\ st.pair \notin D
        /\ retries[st.pair] > 0 /\ inFlight' = inFlight \cup {st.pair}
        /\ retries' = [retries EXCEPT ![st.pair] = @ - 1] /\ nextPair' = nextPair
    <3>1. st.pair \in Waiting \ Spent
      BY <1>4 DEF TryRestore, Restorable
    <3>2. st.pair \in Pairs
      BY <1>2, <3>1 DEF Waiting
    <3>3. retries[st.pair] \in Nat
      BY <1>1, <1>2, <3>2 DEF TableTypes
    <3>4. retries[st.pair] > 0
      BY <3>1, <3>3 DEF Spent
    <3> QED BY <1>4, <3>1, <3>4 DEF TryRestore, Waiting
  <2>3. st.pair \in Pairs /\ retries' \in [Pairs -> 0 .. RestoreBudget]
    BY <1>1, <1>2, <2>2 DEF TableTypes
  <2>4. TableTypes'
    BY <1>1, <1>3, <2>1, <2>2, <2>3 DEF TableTypes
  <2>5. st = RestoreStep(st.pair)
    BY <1>4 DEF TryRestore, IsStep, RestoreStep
  <2>6. RestoreIssued(st, D)
    BY <1>3, <2>1, <2>2, <2>4, <2>5 DEF RestoreIssued, Forgets
  <2> QED BY <2>6
<1>5. ASSUME Misses \/ UNCHANGED <<pending, data, delays, inFlight, retries>>
      PROVE  \E D : /\ D \subseteq ToSet(pending) \ inFlight /\ IsInjective(pending')
                    /\ pending' \in Seq(Pairs) /\ ToSet(pending') = ToSet(pending) \ D
                    /\ data' = Dropped(D) /\ data' \in [Pairs -> {"none", "text", "mask"}]
                    /\ delays' \in Seq(Pairs) /\ UNCHANGED <<inFlight, retries>>
  <2>1. CASE Misses
    <3>1. PICK D \in SUBSET Spent : RemovePending(D)
      BY <2>1 DEF Misses
    <3> QED BY <1>3, <2>1, <3>1 DEF Misses
  <2>2. CASE UNCHANGED <<pending, data, delays, inFlight, retries>>
    <3>1. data = Dropped({}) /\ data \in [Pairs -> {"none", "text", "mask"}]
      BY <1>1 DEF TableTypes, Dropped
    <3>2. {} \subseteq ToSet(pending) \ inFlight /\ ToSet(pending) = ToSet(pending) \ {}
      OBVIOUS
    <3> QED BY <1>1, <2>2, <3>1, <3>2
  <2> QED BY <1>5, <2>1, <2>2
<1>6. ASSUME DominantMasks(st) PROVE \E D : MaskIssued(st, D)
  <2>1. PICK D : /\ D \subseteq ToSet(pending) \ inFlight /\ IsInjective(pending')
                 /\ pending' \in Seq(Pairs) /\ ToSet(pending') = ToSet(pending) \ D
                 /\ data' = Dropped(D) /\ data' \in [Pairs -> {"none", "text", "mask"}]
                 /\ delays' \in Seq(Pairs) /\ UNCHANGED <<inFlight, retries>>
    BY <1>5, <1>6 DEF DominantMasks
  <2>2. nextPair < Total /\ st = MaskStep(nextPair) /\ nextPair' = nextPair + 1
    BY <1>6 DEF DominantMasks
  <2>3. TableTypes'
    BY <1>1, <1>2, <2>1, <2>2 DEF TableTypes
  <2> QED BY <2>1, <2>2, <2>3 DEF MaskIssued, Forgets
<1>7. ASSUME DominantIdles PROVE \E D : NoneIssued(D)
  <2>1. PICK D : /\ D \subseteq ToSet(pending) \ inFlight /\ IsInjective(pending')
                 /\ pending' \in Seq(Pairs) /\ ToSet(pending') = ToSet(pending) \ D
                 /\ data' = Dropped(D) /\ data' \in [Pairs -> {"none", "text", "mask"}]
                 /\ delays' \in Seq(Pairs) /\ UNCHANGED <<inFlight, retries>>
    BY <1>5, <1>7 DEF DominantIdles
  <2>2. nextPair' = nextPair
    BY <1>7 DEF DominantIdles
  <2>3. TableTypes'
    BY <1>1, <1>2, <2>1, <2>2 DEF TableTypes
  <2> QED BY <2>1, <2>2, <2>3 DEF NoneIssued, Forgets
<1> QED BY <1>4, <1>6, <1>7

\* Next, for a scenario that creates its pairs.
LEMMA Turn ==
  ASSUME Tables, Creates, config' = config, NEW st, IsStep(st), NEW w
  PROVE  /\ Gives(w, st) => \E D : RestoreIssued(st, D) \/ MaskIssued(st, D)
         /\ Ends(w) \/ Waits(w) => \E D : NoneIssued(D)
         /\ Ends(w) => nextPair' = Total /\ pending' = <<>>
<1>1. config.mode \in {"sequential", "mask_dominant"}
  BY ConfigFacts DEF Tables, Creates
<1>2. CASE Sequential
  <2>1. Gives(w, st) => SequentialRestores(st) \/ SequentialMasks(st)
    BY <1>2 DEF Gives, Mode, Sequential
  <2>2. Ends(w) \/ Waits(w) => SequentialIdles
    BY <1>2 DEF Ends, Waits, Mode, Sequential
  <2>3. Ends(w) => nextPair' = Total /\ pending' = <<>>
    BY <1>2 DEF Ends, Mode, Sequential, SequentialIdles
  <2> QED BY <1>2, <2>1, <2>2, <2>3, SequentialTurn
<1>3. CASE config.mode = "mask_dominant"
  <2>1. ~Sequential
    BY <1>3 DEF Sequential
  <2>2. Gives(w, st) => TryRestore(st) \/ DominantMasks(st)
    BY <1>3 DEF Gives, Mode
  <2>3. Ends(w) \/ Waits(w) => DominantIdles
    BY <1>3 DEF Ends, Waits, Mode
  <2>4. Ends(w) => nextPair' = Total /\ pending' = <<>>
    BY <1>3 DEF Ends, Mode, DominantIdles
  <2> QED BY <2>1, <2>2, <2>3, <2>4, DominantTurn
<1> QED BY <1>1, <1>2, <1>3 DEF Sequential

\* What a completion does to the tables: its pair gets a mask and waits, is
\* forgotten, or waits again.
Arrives(st) ==
  /\ st.isMask /\ data' = [data EXCEPT ![st.pair] = "mask"]
  /\ ToSet(pending') = ToSet(pending) \cup {st.pair} /\ inFlight' = inFlight

Forgotten(st) ==
  /\ data' = Dropped({st.pair})
  /\ ToSet(pending') = ToSet(pending) \ {st.pair} /\ inFlight' = inFlight \ {st.pair}

Requeued(st) ==
  /\ ~st.isMask /\ data' = data
  /\ ToSet(pending') = ToSet(pending) \cup {st.pair} /\ inFlight' = inFlight \ {st.pair}

Completed(st, restores) ==
  /\ TableTypes' /\ IsInjective(pending') /\ nextPair' = nextPair
  /\ Forgotten(st) \/ (~restores /\ (Arrives(st) \/ Requeued(st)))

\* sequential.Complete.
LEMMA SequentialCompletion ==
  ASSUME Tables, Sequential, config' = config, nextPair' = nextPair,
         NEW st, IsStep(st), HandedFits(st), NEW valid, NEW right,
         SequentialCompletes(st, valid, right)
  PROVE  Completed(st, ~st.isMask /\ valid /\ right)
<1> DEFINE p == st.pair
<1>1. TableTypes /\ pending \in Seq(Pairs) /\ delays \in Seq(Pairs) /\ IsInjective(pending)
      /\ Total' = Total /\ Pairs' = Pairs /\ RestoreBudget' = RestoreBudget
  BY DEF Tables, TableTypes, Total, Pairs, RestoreBudget
<1>2. /\ p \in Pairs /\ p \notin ToSet(pending)
      /\ st.isMask => data[p] # "mask" /\ p \notin inFlight
      /\ st.isMask \in BOOLEAN
  BY DEF HandedFits, IsStep
<1>3. /\ Append(pending, p) \in Seq(Pairs) /\ IsInjective(Append(pending, p))
      /\ ToSet(Append(pending, p)) = ToSet(pending) \cup {p}
      /\ Append(delays, p) \in Seq(Pairs)
      /\ Undelayed({p}) \in Seq(Pairs)
  BY <1>1, <1>2, ListMembers, RemainingMembers DEF Undelayed
<1>4. RestoreBudget \in Nat \ {0} /\ Dropped({p}) \in [Pairs -> {"none", "text", "mask"}]
  BY <1>1, ConfigFacts, DroppedType DEF Tables
<1>5. /\ [data EXCEPT ![p] = "mask"] \in [Pairs -> {"none", "text", "mask"}]
      /\ \A n \in 0 .. RestoreBudget : [retries EXCEPT ![p] = n] \in [Pairs -> 0 .. RestoreBudget]
      /\ retries[p] \in 0 .. RestoreBudget /\ 0 \in 0 .. RestoreBudget
  BY <1>1, <1>2, <1>4 DEF TableTypes
<1>6. CASE st.isMask /\ valid /\ MaskArrives(p, retries[p]) /\ UNCHANGED inFlight
  <2>1. /\ data' = [data EXCEPT ![p] = "mask"] /\ pending' = Append(pending, p)
        /\ retries' = [retries EXCEPT ![p] = retries[p]] /\ inFlight' = inFlight
        /\ delays' = Append(delays, p) \/ delays' = delays
    BY <1>2, <1>6 DEF MaskArrives
  <2>2. TableTypes'
    BY <1>1, <1>3, <1>5, <2>1 DEF TableTypes
  <2>3. Arrives(st)
    BY <1>3, <1>6, <2>1 DEF Arrives
  <2> QED BY <1>3, <1>6, <2>1, <2>2, <2>3 DEF Completed
<1>7. ASSUME DropPair(p) PROVE Completed(st, TRUE)
  <2>1. /\ data' = Dropped({p}) /\ delays' = Undelayed({p}) /\ inFlight' = inFlight \ {p}
        /\ retries' = [retries EXCEPT ![p] = 0] /\ pending' = pending
    BY <1>7 DEF DropPair
  <2>2. TableTypes'
    BY <1>1, <1>3, <1>4, <1>5, <2>1 DEF TableTypes
  <2>3. Forgotten(st)
    BY <1>2, <2>1 DEF Forgotten
  <2> QED BY <1>1, <2>1, <2>2, <2>3 DEF Completed
<1>8. ASSUME ~st.isMask, ~(valid /\ right), Requeue(p)
      PROVE  Completed(st, ~st.isMask /\ valid /\ right)
  <2>1. /\ data' = data /\ delays' = delays /\ retries' = retries
        /\ pending' = Append(pending, p) /\ inFlight' = inFlight \ {p}
    BY <1>8 DEF Requeue
  <2>2. TableTypes'
    BY <1>1, <1>3, <2>1 DEF TableTypes
  <2>3. Requeued(st)
    BY <1>3, <1>8, <2>1 DEF Requeued
  <2> QED BY <1>3, <1>8, <2>1, <2>2, <2>3 DEF Completed
<1>9. Completed(st, TRUE) => Completed(st, ~st.isMask /\ valid /\ right)
  BY DEF Completed
<1> QED BY <1>6, <1>7, <1>8, <1>9 DEF SequentialCompletes

\* maskDominant.Complete.
LEMMA DominantCompletion ==
  ASSUME Tables, ~Sequential, config' = config, nextPair' = nextPair,
         NEW st, IsStep(st), HandedFits(st), NEW valid, NEW right,
         DominantCompletes(st, valid, right)
  PROVE  Completed(st, ~st.isMask /\ valid /\ right)
<1> DEFINE p == st.pair
<1>1. TableTypes /\ pending \in Seq(Pairs) /\ delays \in Seq(Pairs) /\ IsInjective(pending)
      /\ Total' = Total /\ Pairs' = Pairs /\ RestoreBudget' = RestoreBudget
  BY DEF Tables, TableTypes, Total, Pairs, RestoreBudget
<1>2. /\ p \in Pairs /\ st.isMask \in BOOLEAN
      /\ st.isMask => data[p] = "none" /\ p \notin inFlight /\ p \notin ToSet(pending)
      /\ ~st.isMask => data[p] = "mask" /\ p \in ToSet(pending)
  BY DEF HandedFits, IsStep
<1>3. /\ p \notin ToSet(pending) =>
           /\ Append(pending, p) \in Seq(Pairs) /\ IsInjective(Append(pending, p))
           /\ ToSet(Append(pending, p)) = ToSet(pending) \cup {p}
      /\ Append(delays, p) \in Seq(Pairs)
  BY <1>1, <1>2, ListMembers
<1>4. RestoreBudget \in Nat \ {0} /\ Dropped({p}) \in [Pairs -> {"none", "text", "mask"}]
  BY <1>1, ConfigFacts, DroppedType DEF Tables
<1>5. /\ [data EXCEPT ![p] = "mask"] \in [Pairs -> {"none", "text", "mask"}]
      /\ \A n \in 0 .. RestoreBudget : [retries EXCEPT ![p] = n] \in [Pairs -> 0 .. RestoreBudget]
      /\ RestoreBudget \in 0 .. RestoreBudget /\ 0 \in 0 .. RestoreBudget
  BY <1>1, <1>2, <1>4 DEF TableTypes
<1>6. ASSUME RemovePending({p})
      PROVE  /\ pending' \in Seq(Pairs) /\ IsInjective(pending') /\ delays' \in Seq(Pairs)
             /\ ToSet(pending') = ToSet(pending) \ {p} /\ data' = Dropped({p})
  <2>1. /\ pending' = Remaining(pending, {p}) /\ delays' = Remaining(delays, {p} \cap ToSet(pending))
        /\ data' = Dropped({p} \cap ToSet(pending))
    BY <1>6 DEF RemovePending, Undelayed
  <2>2. CASE p \in ToSet(pending)
    <3>1. {p} \cap ToSet(pending) = {p}
      BY <2>2
    <3> QED BY <1>1, <2>1, <3>1, RemainingMembers
  <2>3. CASE p \notin ToSet(pending)
    <3>1. {p} \cap ToSet(pending) = {}
      BY <2>3
    <3>2. Dropped({}) = Dropped({p})
      BY <1>2, <2>3 DEF Dropped
    <3> QED BY <1>1, <2>1, <3>1, <3>2, RemainingMembers
  <2> QED BY <2>2, <2>3
<1>7. CASE st.isMask /\ valid /\ MaskArrives(p, RestoreBudget) /\ UNCHANGED inFlight
  <2>1. /\ data' = [data EXCEPT ![p] = "mask"] /\ pending' = Append(pending, p)
        /\ retries' = [retries EXCEPT ![p] = RestoreBudget] /\ inFlight' = inFlight
        /\ delays' = Append(delays, p) \/ delays' = delays
    BY <1>2, <1>7 DEF MaskArrives
  <2>2. TableTypes'
    BY <1>1, <1>2, <1>3, <1>5, <1>7, <2>1 DEF TableTypes
  <2>3. Arrives(st)
    BY <1>2, <1>3, <1>7, <2>1 DEF Arrives
  <2> QED BY <1>2, <1>3, <1>7, <2>1, <2>2, <2>3 DEF Completed
<1>8. CASE st.isMask /\ ~valid /\ RemovePending({p}) /\ UNCHANGED <<inFlight, retries>>
  <2>1. TableTypes'
    BY <1>1, <1>4, <1>6, <1>8 DEF TableTypes
  <2>2. Forgotten(st)
    BY <1>2, <1>6, <1>8 DEF Forgotten
  <2> QED BY <1>6, <1>8, <2>1, <2>2 DEF Completed
<1>9. CASE /\ ~st.isMask /\ inFlight' = inFlight \ {p}
           /\ RemovePending({p}) /\ retries' = [retries EXCEPT ![p] = 0]
  <2>1. TableTypes'
    BY <1>1, <1>4, <1>5, <1>6, <1>9 DEF TableTypes
  <2>2. Forgotten(st)
    BY <1>2, <1>6, <1>9 DEF Forgotten
  <2> QED BY <1>6, <1>9, <2>1, <2>2 DEF Completed
<1>10. CASE /\ ~st.isMask /\ inFlight' = inFlight \ {p} /\ ~(valid /\ right)
            /\ UNCHANGED <<pending, data, delays, retries>>
  <2>1. TableTypes'
    BY <1>1, <1>10 DEF TableTypes
  <2>2. Requeued(st)
    BY <1>2, <1>10 DEF Requeued
  <2> QED BY <1>1, <1>10, <2>1, <2>2 DEF Completed
<1> QED BY <1>7, <1>8, <1>9, <1>10 DEF DominantCompletes

----------------------------------------------------------------------------
(* Pairs and their steps *)

\* The sets that the proofs below speak of.
LEMMA SetsOfTables ==
  ASSUME Tables
  PROVE  /\ ToSet(pending) \subseteq Pairs /\ inFlight \subseteq Pairs /\ Pairs \subseteq Nat
         /\ nextPair \in Nat /\ Total \in Nat /\ \A p \in Pairs : p < Total /\ p >= 0
         /\ \A n \in Nat : n < Total => n \in Pairs
         /\ data \in [Pairs -> {"none", "text", "mask"}]
<1>1. ToSet(pending) \subseteq Pairs
  BY ListMembers DEF Tables, TableTypes
<1>2. Total \in Nat
  BY ConfigFacts DEF Tables
<1> QED BY <1>1, <1>2 DEF Tables, TableTypes, Pairs

\* Issuing a restore hands out the step of a pair that had none.
LEMMA RestoreFits ==
  ASSUME Tables, PairsFit, \A p \in Pairs : restored[p] \in Nat,
         config' = config, restored' = restored, budgets' = budgets,
         NEW st, NEW D, RestoreIssued(st, D), Handed' = Handed \cup {st}
  PROVE  PairsFit' /\ (\A s \in Handed : s.pair # st.pair) /\ st.pair \in Pairs
<1> DEFINE p == st.pair
<1>1. /\ Pairs' = Pairs /\ Known' = Known /\ (Sequential' <=> Sequential)
      /\ nextPair' = nextPair /\ IsInjective(pending')
  BY DEF RestoreIssued, Forgets, Pairs, Total, Known, Sequential
<1>2. /\ p \in ToSet(pending) /\ p \notin inFlight /\ p \notin D /\ p \in Pairs
      /\ st = RestoreStep(p) /\ ~st.isMask
      /\ inFlight' = inFlight \cup {p}
      /\ ToSet(pending') = ToSet(pending) \ (D \cup IF Sequential THEN {p} ELSE {})
      /\ data' = [q \in Pairs |-> IF q \in D THEN "none" ELSE data[q]]
      /\ D \subseteq ToSet(pending) \ inFlight
  BY SetsOfTables DEF RestoreIssued, Forgets, Dropped, RestoreStep
<1>3. \A s \in Handed : s.pair # p /\ s.pair \notin D
  <2> SUFFICES ASSUME NEW s \in Handed, s.pair \in ToSet(pending) \ inFlight PROVE FALSE
    BY <1>2
  <2>1. HandedFits(s)
    BY DEF PairsFit
  <2> QED BY <2>1 DEF HandedFits
<1>4. PairFits(p) /\ data[p] = "mask" /\ p < nextPair /\ restored[p] = 0
  <2>1. PairFits(p)
    BY <1>2 DEF PairsFit
  <2>2. data[p] = "mask" /\ p < nextPair
    BY <1>2, <2>1 DEF PairFits
  <2>3. restored[p] \in Nat /\ ~(restored[p] > 0)
    BY <1>2, <2>1, <2>2 DEF PairFits
  <2> QED BY <2>1, <2>2, <2>3
<1>5. \A s \in Handed' : HandedFits(s)'
  <2>1. ASSUME NEW s \in Handed PROVE HandedFits(s)'
    <3>1. HandedFits(s) /\ s.pair # p /\ s.pair \notin D
      BY <1>3 DEF PairsFit
    <3> QED BY <1>1, <1>2, <3>1 DEF HandedFits
  <2>2. HandedFits(st)'
    BY <1>1, <1>2, <1>4 DEF HandedFits
  <2> QED BY <2>1, <2>2
<1>6. ASSUME NEW q \in Pairs PROVE PairFits(q)'
  <2>1. PairFits(q)
    BY DEF PairsFit
  <2>2. q \in ToSet(pending') => data'[q] = "mask" /\ (Sequential' => q \notin inFlight')
    BY <1>1, <1>2, <2>1 DEF PairFits
  <2>3. data'[q] # "none" => q < nextPair' /\ (q \in ToSet(pending') \/ \E s \in Handed' : s.pair = q)
    BY <1>1, <1>2, <2>1 DEF PairFits
  <2>4. q \in inFlight' => RestoreStep(q) \in Handed'
    BY <1>2, <2>1 DEF PairFits
  <2>5. restored'[q] > 0 => restored'[q] = 1 /\ q < nextPair' /\ data'[q] = "none"
    BY <1>1, <1>2, <2>1 DEF PairFits
  <2> QED BY <2>2, <2>3, <2>4, <2>5 DEF PairFits
<1>7. \A q \in Known' \ Pairs' : restored'[q] = 0
  BY <1>1 DEF PairsFit
<1> QED BY <1>1, <1>2, <1>3, <1>5, <1>6, <1>7 DEF PairsFit

\* So does the next mask, for a pair that was nowhere.
LEMMA MaskFits ==
  ASSUME Tables, PairsFit, \A p \in Pairs : restored[p] \in Nat,
         config' = config, restored' = restored, budgets' = budgets,
         NEW st, NEW D, MaskIssued(st, D), Handed' = Handed \cup {st}
  PROVE  PairsFit' /\ (\A s \in Handed : s.pair # st.pair) /\ st.pair \in Pairs
<1>1. /\ Pairs' = Pairs /\ Known' = Known /\ (Sequential' <=> Sequential)
      /\ IsInjective(pending')
  BY DEF MaskIssued, Forgets, Pairs, Total, Known, Sequential
<1>2. /\ st = MaskStep(nextPair) /\ st.pair = nextPair /\ st.isMask /\ nextPair \in Pairs
      /\ nextPair' = nextPair + 1 /\ inFlight' = inFlight
      /\ ToSet(pending') = ToSet(pending) \ D /\ D \subseteq ToSet(pending) \ inFlight
  <2>1. st.pair = nextPair /\ st.isMask
    BY DEF MaskIssued, MaskStep
  <2>2. nextPair \in Pairs
    BY SetsOfTables DEF MaskIssued
  <2> QED BY <2>1, <2>2 DEF MaskIssued, Forgets
<1>3. \A q \in Pairs : data'[q] = IF q = nextPair /\ Sequential THEN "text"
                                  ELSE IF q \in D THEN "none" ELSE data[q]
  BY <1>2 DEF MaskIssued, Dropped
<1>4. \A s \in Handed : s.pair # nextPair /\ s.pair \notin D
  <2> SUFFICES ASSUME NEW s \in Handed PROVE s.pair # nextPair /\ s.pair \notin D
    OBVIOUS
  <2>1. HandedFits(s) /\ nextPair \in Nat
    BY SetsOfTables DEF PairsFit
  <2>2. s.pair # nextPair
    BY <2>1, SetsOfTables DEF HandedFits
  <2>3. s.pair \notin D
    BY <1>2, <2>1 DEF HandedFits
  <2> QED BY <2>2, <2>3
<1>5. /\ nextPair \notin ToSet(pending) /\ nextPair \notin inFlight
      /\ data[nextPair] = "none" /\ restored[nextPair] = 0
  <2>1. PairFits(nextPair) /\ nextPair \in Nat /\ restored[nextPair] \in Nat
    BY <1>2, SetsOfTables DEF PairsFit
  <2>2. data[nextPair] = "none" /\ ~(restored[nextPair] > 0)
    BY <2>1 DEF PairFits
  <2>3. nextPair \notin ToSet(pending)
    BY <2>1, <2>2 DEF PairFits
  <2>4. nextPair \notin inFlight
    BY <1>4, <2>1 DEF PairFits, RestoreStep
  <2> QED BY <2>1, <2>2, <2>3, <2>4
<1>6. \A s \in Handed' : HandedFits(s)'
  <2>1. ASSUME NEW s \in Handed PROVE HandedFits(s)'
    <3>1. HandedFits(s) /\ s.pair # nextPair /\ s.pair \notin D
      BY <1>4 DEF PairsFit
    <3>2. s.pair \in Pairs /\ s.pair < nextPair'
      BY <1>2, <3>1, SetsOfTables DEF HandedFits
    <3>3. data'[s.pair] = data[s.pair]
      BY <1>3, <3>1, <3>2
    <3> QED BY <1>1, <1>2, <3>1, <3>2, <3>3 DEF HandedFits
  <2>2. HandedFits(st)'
    <3>1. nextPair < nextPair' /\ nextPair \notin D
      BY <1>2, <1>5, SetsOfTables
    <3>2. data'[nextPair] = IF Sequential THEN "text" ELSE "none"
      BY <1>2, <1>3, <1>5, <3>1
    <3> QED BY <1>1, <1>2, <1>5, <3>1, <3>2 DEF HandedFits
  <2> QED BY <2>1, <2>2
<1>7. ASSUME NEW q \in Pairs PROVE PairFits(q)'
  <2>1. PairFits(q)
    BY DEF PairsFit
  <2>2. nextPair < nextPair' /\ \A n \in Pairs : n < nextPair => n < nextPair'
    BY <1>2, SetsOfTables
  <2>3. q \in ToSet(pending') => data'[q] = "mask" /\ (Sequential' => q \notin inFlight')
    BY <1>1, <1>2, <1>3, <1>5, <2>1 DEF PairFits
  <2>4. data'[q] # "none" => q < nextPair' /\ (q \in ToSet(pending') \/ \E s \in Handed' : s.pair = q)
    <3>1. CASE q = nextPair
      BY <1>2, <2>2, <3>1
    <3>2. CASE q # nextPair
      BY <1>2, <1>3, <2>1, <2>2, <3>2 DEF PairFits
    <3> QED BY <3>1, <3>2
  <2>5. q \in inFlight' => RestoreStep(q) \in Handed'
    BY <1>2, <2>1 DEF PairFits
  <2>6. restored'[q] > 0 => restored'[q] = 1 /\ q < nextPair' /\ data'[q] = "none"
    <3>1. CASE q = nextPair
      BY <1>5, <3>1
    <3>2. CASE q # nextPair
      BY <1>3, <2>1, <2>2, <3>2 DEF PairFits
    <3> QED BY <3>1, <3>2
  <2> QED BY <2>3, <2>4, <2>5, <2>6 DEF PairFits
<1>8. \A q \in Known' \ Pairs' : restored'[q] = 0
  BY <1>1 DEF PairsFit
<1> QED BY <1>1, <1>2, <1>4, <1>6, <1>7, <1>8 DEF PairsFit

\* A turn without a step only forgets pairs that nobody has.
LEMMA IdleFits ==
  ASSUME Tables, PairsFit, config' = config, restored' = restored, budgets' = budgets,
         NEW D, NoneIssued(D), Handed' = Handed
  PROVE  PairsFit'
<1>1. /\ Pairs' = Pairs /\ Known' = Known /\ (Sequential' <=> Sequential)
      /\ IsInjective(pending') /\ nextPair' = nextPair /\ inFlight' = inFlight
      /\ ToSet(pending') = ToSet(pending) \ D /\ D \subseteq ToSet(pending) \ inFlight
      /\ data' = [q \in Pairs |-> IF q \in D THEN "none" ELSE data[q]]
  BY DEF NoneIssued, Forgets, Pairs, Total, Known, Sequential, Dropped
<1>2. ASSUME NEW s \in Handed PROVE HandedFits(s)'
  <2>1. HandedFits(s)
    BY DEF PairsFit
  <2>2. s.pair \notin D
    BY <1>1, <2>1 DEF HandedFits
  <2> QED BY <1>1, <2>1, <2>2 DEF HandedFits
<1>3. ASSUME NEW q \in Pairs PROVE PairFits(q)'
  <2>1. PairFits(q)
    BY DEF PairsFit
  <2> QED BY <1>1, <2>1 DEF PairFits
<1>4. \A q \in Known' \ Pairs' : restored'[q] = 0
  BY <1>1 DEF PairsFit
<1> QED BY <1>1, <1>2, <1>3, <1>4 DEF PairsFit

\* A completion takes the pair from where its step put it.
LEMMA CompletionFits ==
  ASSUME Tables, PairsFit, \A p \in Pairs : restored[p] \in Nat,
         config' = config, budgets' = budgets,
         NEW st \in Handed, IsStep(st), NEW restores \in BOOLEAN,
         \A s \in Handed : s.pair = st.pair => s = st,
         Completed(st, restores), Handed' = Handed \ {st}, restores => ~st.isMask,
         restored \in [Known -> Nat],
         restored' = IF restores THEN [restored EXCEPT ![st.pair] = @ + 1] ELSE restored
  PROVE  PairsFit'
<1> DEFINE p == st.pair
<1>1. /\ Pairs' = Pairs /\ Known' = Known /\ (Sequential' <=> Sequential)
      /\ IsInjective(pending') /\ nextPair' = nextPair
  BY DEF Completed, Pairs, Total, Known, Sequential
<1>2. HandedFits(st) /\ p \in Pairs /\ p < nextPair /\ restored[p] = 0
  BY DEF PairsFit, HandedFits
<1>3. \A s \in Handed' : s \in Handed /\ s.pair # p
  OBVIOUS
<1>4. \A q \in Pairs : q # p => data'[q] = data[q]
  BY <1>2, SetsOfTables DEF Completed, Forgotten, Arrives, Requeued, Dropped
<1>5. \A q : q # p => /\ q \in ToSet(pending') <=> q \in ToSet(pending)
                      /\ q \in inFlight' <=> q \in inFlight
  BY DEF Completed, Forgotten, Arrives, Requeued
<1>6. \A q : q # p => restored'[q] = restored[q]
  OBVIOUS
<1>7. ASSUME NEW s \in Handed' PROVE HandedFits(s)'
  <2>1. HandedFits(s) /\ s.pair # p
    BY <1>3 DEF PairsFit
  <2> QED BY <1>1, <1>4, <1>5, <1>6, <2>1 DEF HandedFits
<1>8. ASSUME NEW q \in Pairs, q # p PROVE PairFits(q)'
  <2>1. PairFits(q)
    BY DEF PairsFit
  <2>2. \A s \in Handed : s.pair = q => s \in Handed'
    BY <1>8
  <2>3. RestoreStep(q).pair = q
    BY DEF RestoreStep
  <2> QED BY <1>1, <1>4, <1>5, <1>6, <1>8, <2>1, <2>2, <2>3 DEF PairFits
<1>9. PairFits(p)'
  <2>1. CASE Forgotten(st)
    <3>1. data'[p] = "none" /\ p \notin ToSet(pending') /\ p \notin inFlight'
      BY <1>2, <2>1 DEF Forgotten, Dropped
    <3>2. restored'[p] = 0 \/ restored'[p] = 1
      BY <1>2, SetsOfTables DEF Known
    <3> QED BY <1>1, <1>2, <3>1, <3>2 DEF PairFits
  <2>2. CASE ~restores /\ Arrives(st)
    <3>1. data'[p] = "mask" /\ p \in ToSet(pending') /\ p \notin inFlight'
      BY <1>2, <2>2, SetsOfTables DEF Arrives, HandedFits
    <3> QED BY <1>1, <1>2, <2>2, <3>1 DEF PairFits
  <2>3. CASE ~restores /\ Requeued(st)
    <3>1. data'[p] = "mask" /\ p \in ToSet(pending') /\ p \notin inFlight'
      BY <1>2, <2>3 DEF Requeued, HandedFits
    <3> QED BY <1>1, <1>2, <2>3, <3>1 DEF PairFits
  <2> QED BY <2>1, <2>2, <2>3 DEF Completed
<1>10. \A q \in Known' \ Pairs' : restored'[q] = 0
  BY <1>1, <1>2, <1>6 DEF PairsFit
<1> QED BY <1>1, <1>7, <1>8, <1>9, <1>10 DEF PairsFit

----------------------------------------------------------------------------
(* Steps and their holders *)

\* Who has a step, one by one.
LEMMA HandedMembers ==
  \A st : st \in Handed <=> \/ \E w \in Workers : pc[w] \in AtWork /\ step[w] = st
                            \/ \E i \in DOMAIN queue : queue[i] = st
                            \/ st \in skipped
BY DEF Handed, ToSet

\* Nobody takes a step or gives one up.
LEMMA HandsStill ==
  ASSUME \A v \in Workers : /\ pc'[v] \in AtWork <=> pc[v] \in AtWork
                            /\ pc[v] \in AtWork => step'[v] = step[v],
         queue' = queue, skipped' = skipped
  PROVE  Handed' = Handed /\ (OneHolder => OneHolder')
<1>1. Handed' = Handed
  BY DEF Handed
<1>2. ASSUME OneHolder PROVE OneHolder'
  BY <1>2 DEF OneHolder
<1> QED BY <1>1, <1>2

\* A worker gets a step from the scenario,
LEMMA HandedToWorker ==
  ASSUME pc \in [Workers -> Free \cup Between \cup {"next", "send", "done"}],
         step \in [Workers -> KnownSteps],
         NEW w \in Workers, pc[w] \notin AtWork, NEW st, pc' = [pc EXCEPT ![w] = "send"],
         step' = [step EXCEPT ![w] = st], queue' = queue, skipped' = skipped
  PROVE  /\ Handed' = Handed \cup {st}
         /\ OneHolder /\ (\A s \in Handed : s.pair # st.pair) => OneHolder'
<1>1. /\ pc'[w] \in AtWork /\ step'[w] = st
      /\ \A v \in Workers : v # w => pc'[v] = pc[v] /\ step'[v] = step[v]
  BY DEF AtWork
<1>2. Handed' = Handed \cup {st}
  BY <1>1 DEF Handed
<1>3. ASSUME OneHolder, \A s \in Handed : s.pair # st.pair PROVE OneHolder'
  <2>1. /\ \A v \in Workers : v # w /\ pc'[v] \in AtWork => step'[v].pair # st.pair
        /\ \A i \in DOMAIN queue : queue[i].pair # st.pair
        /\ \A s \in skipped : s.pair # st.pair
    BY <1>1, <1>3, HandedMembers
  <2>2. \A v, u \in Workers :
          pc'[v] \in AtWork /\ pc'[u] \in AtWork /\ step'[v].pair = step'[u].pair => v = u
    BY <1>1, <1>3, <2>1 DEF OneHolder
  <2>3. \A v \in Workers : pc'[v] \in AtWork =>
          /\ \A i \in DOMAIN queue : queue[i].pair # step'[v].pair
          /\ \A s \in skipped : s.pair # step'[v].pair
    BY <1>1, <1>3, <2>1 DEF OneHolder
  <2> QED BY <1>3, <2>2, <2>3 DEF OneHolder
<1> QED BY <1>2, <1>3

\* the schedule does,
LEMMA HandedToQueue ==
  ASSUME queue \in Seq(KnownSteps), NEW st \in KnownSteps, queue' = Append(queue, st),
         pc' = pc, step' = step, skipped' = skipped
  PROVE  /\ Handed' = Handed \cup {st}
         /\ OneHolder /\ (\A s \in Handed : s.pair # st.pair) => OneHolder'
<1> DEFINE n == Len(queue)
<1>1. /\ n \in Nat /\ DOMAIN queue = 1 .. n /\ DOMAIN queue' = 1 .. (n + 1)
      /\ queue'[n + 1] = st /\ \A i \in 1 .. n : queue'[i] = queue[i]
  BY AppendProperties
<1>2. Handed' = Handed \cup {st}
  <2>1. ToSet(queue') = ToSet(queue) \cup {st}
    BY ListMembers
  <2> QED BY <2>1 DEF Handed
<1>3. ASSUME OneHolder, \A s \in Handed : s.pair # st.pair PROVE OneHolder'
  <2>1. /\ \A v \in Workers : pc[v] \in AtWork => step[v].pair # st.pair
        /\ \A i \in 1 .. n : queue[i].pair # st.pair
        /\ \A s \in skipped : s.pair # st.pair
    BY <1>1, <1>3, HandedMembers
  <2>2. \A i \in DOMAIN queue' : i = n + 1 \/ i \in 1 .. n
    BY <1>1
  <2> HIDE DEF n
  <2>3. \A i, j \in DOMAIN queue' : queue'[i].pair = queue'[j].pair => i = j
    BY <1>1, <1>3, <2>1, <2>2 DEF OneHolder
  <2>4. \A w \in Workers : pc[w] \in AtWork =>
          \A i \in DOMAIN queue' : queue'[i].pair # step[w].pair
    BY <1>1, <1>3, <2>1, <2>2 DEF OneHolder
  <2>5. \A i \in DOMAIN queue', s \in skipped : queue'[i].pair # s.pair
    BY <1>1, <1>3, <2>1, <2>2 DEF OneHolder
  <2> QED BY <1>3, <2>3, <2>4, <2>5 DEF OneHolder
<1> QED BY <1>2, <1>3

\* or it is dropped.
LEMMA HandedToNobody ==
  ASSUME NEW st, skipped' = skipped \cup {st}, pc' = pc, step' = step, queue' = queue
  PROVE  /\ Handed' = Handed \cup {st}
         /\ OneHolder /\ (\A s \in Handed : s.pair # st.pair) => OneHolder'
<1>1. Handed' = Handed \cup {st}
  BY DEF Handed
<1>2. ASSUME OneHolder, \A s \in Handed : s.pair # st.pair PROVE OneHolder'
  <2>1. /\ \A v \in Workers : pc[v] \in AtWork => step[v].pair # st.pair
        /\ \A i \in DOMAIN queue : queue[i].pair # st.pair
        /\ \A s \in skipped : s.pair # st.pair
    BY <1>2, HandedMembers
  <2> QED BY <1>2, <2>1 DEF OneHolder
<1> QED BY <1>1, <1>2

\* A queued step changes hands.
LEMMA HandedOver ==
  ASSUME queue \in Seq(KnownSteps), queue # <<>>,
         pc \in [Workers -> Free \cup Between \cup {"next", "send", "done"}],
         step \in [Workers -> KnownSteps],
         NEW w \in Workers, pc[w] \notin AtWork, pc' = [pc EXCEPT ![w] = "pay"],
         step' = [step EXCEPT ![w] = Head(queue)], queue' = Tail(queue), skipped' = skipped
  PROVE  Handed' = Handed /\ (OneHolder => OneHolder')
<1>1. /\ pc'[w] \in AtWork /\ step'[w] = Head(queue)
      /\ \A v \in Workers : v # w => pc'[v] = pc[v] /\ step'[v] = step[v]
  BY DEF AtWork
<1>2. /\ Head(queue) = queue[1] /\ 1 \in DOMAIN queue
      /\ \A i \in DOMAIN queue' : i + 1 \in DOMAIN queue /\ queue'[i] = queue[i + 1]
      /\ ToSet(queue) = {Head(queue)} \cup ToSet(queue')
      /\ DOMAIN queue' \subseteq Nat \ {0}
  <2>1. Tail(queue) \in Seq(KnownSteps)
    BY TailMembers
  <2>2. DOMAIN queue' \subseteq Nat \ {0}
    BY <2>1
  <2> QED BY <2>2, TailMembers
<1>3. Handed' = Handed
  BY <1>1, <1>2 DEF Handed
<1>4. ASSUME OneHolder PROVE OneHolder'
  <2>1. \A i \in DOMAIN queue' : i + 1 # 1
    BY <1>2
  <2>2. \A i, j \in DOMAIN queue' : queue'[i].pair = queue'[j].pair => i = j
    <3>1. \A i, j \in DOMAIN queue' : queue'[i].pair = queue'[j].pair => i + 1 = j + 1
      BY <1>2, <1>4 DEF OneHolder
    <3> QED BY <1>2, <3>1
  <2>3. \A i \in DOMAIN queue' : queue'[i].pair # Head(queue).pair
    BY <1>2, <1>4, <2>1 DEF OneHolder
  <2>4. \A s \in skipped : s.pair # Head(queue).pair
    BY <1>2, <1>4 DEF OneHolder
  <2>5. \A v \in Workers : v # w /\ pc[v] \in AtWork => step[v].pair # Head(queue).pair
    BY <1>2, <1>4 DEF OneHolder
  <2>6. \A v, u \in Workers :
          pc'[v] \in AtWork /\ pc'[u] \in AtWork /\ step'[v].pair = step'[u].pair => v = u
    BY <1>1, <1>4, <2>5 DEF OneHolder
  <2>7. \A v \in Workers : pc'[v] \in AtWork =>
          /\ \A i \in DOMAIN queue' : queue'[i].pair # step'[v].pair
          /\ \A s \in skipped : s.pair # step'[v].pair
    BY <1>1, <1>2, <1>4, <2>3, <2>4 DEF OneHolder
  <2>8. \A i \in DOMAIN queue', s \in skipped : queue'[i].pair # s.pair
    BY <1>2, <1>4 DEF OneHolder
  <2> QED BY <1>4, <2>2, <2>6, <2>7, <2>8 DEF OneHolder
<1> QED BY <1>3, <1>4

\* The step of a worker is completed.
LEMMA HandedBack ==
  ASSUME pc \in [Workers -> Free \cup Between \cup {"next", "send", "done"}],
         NEW w \in Workers, pc[w] \in AtWork, pc' = [pc EXCEPT ![w] = "check"],
         step' = step, queue' = queue, skipped' = skipped, OneHolder
  PROVE  /\ step[w] \in Handed /\ Handed' = Handed \ {step[w]} /\ OneHolder'
         /\ \A s \in Handed : s.pair = step[w].pair => s = step[w]
<1>1. /\ pc'[w] \notin AtWork
      /\ \A v \in Workers : v # w => pc'[v] = pc[v]
  BY DEF AtWork
<1>2. step[w] \in Handed
  BY HandedMembers
<1>3. ASSUME NEW s \in Handed, s.pair = step[w].pair
      PROVE  /\ s = step[w] /\ s \notin skipped
             /\ \A i \in DOMAIN queue : queue[i] # s
             /\ \A v \in Workers : pc[v] \in AtWork /\ step[v] = s => v = w
  <2>1. s \notin skipped /\ \A i \in DOMAIN queue : queue[i] # s
    BY <1>3 DEF OneHolder
  <2>2. \A v \in Workers : pc[v] \in AtWork /\ step[v] = s => v = w
    BY <1>3 DEF OneHolder
  <2>3. \E v \in Workers : pc[v] \in AtWork /\ step[v] = s
    BY <2>1, HandedMembers
  <2> QED BY <2>1, <2>2, <2>3
<1>4. Handed' = Handed \ {step[w]}
  <2>1. ASSUME NEW s \in Handed' PROVE s \in Handed /\ s # step[w]
    <3>1. \/ \E v \in Workers : pc'[v] \in AtWork /\ step[v] = s
          \/ s \in ToSet(queue) \/ s \in skipped
      BY <2>1 DEF Handed
    <3>2. s \in Handed
      BY <1>1, <3>1 DEF Handed
    <3>3. CASE s = step[w]
      <4>1. /\ s \notin skipped /\ \A i \in DOMAIN queue : queue[i] # s
            /\ \A v \in Workers : pc[v] \in AtWork /\ step[v] = s => v = w
        BY <1>3, <3>2, <3>3
      <4> QED BY <1>1, <3>1, <4>1 DEF ToSet
    <3> QED BY <3>2, <3>3
  <2>2. ASSUME NEW s \in Handed, s # step[w] PROVE s \in Handed'
    BY <1>1, <2>2 DEF Handed
  <2> QED BY <2>1, <2>2
<1>5. OneHolder'
  BY <1>1 DEF OneHolder
<1> QED BY <1>2, <1>3, <1>4, <1>5

----------------------------------------------------------------------------
(* The types of the scenario *)

HandsKept == (Creates => OneHolder /\ PairsFit) /\ (~Creates => BudgetsKept)

\* The invariant, as far as the tables need it.
LEMMA TablesHold ==
  ASSUME ScenarioTypes, HandsKept
  PROVE  Tables
<1>1. config \in Configs /\ TableTypes
  BY DEF ScenarioTypes
<1>2. CASE Creates
  <2>1. PairsFit /\ ToSet(pending) \subseteq Pairs
    BY <1>1, <1>2, ListMembers DEF HandsKept, TableTypes
  <2>2. Sequential => ToSet(pending) \cap inFlight = {}
    BY <2>1 DEF PairsFit, PairFits
  <2> QED BY <1>1, <2>1, <2>2 DEF Tables, PairsFit
<1>3. CASE ~Creates
  <2>1. pending = <<>> /\ ~Sequential
    BY <1>3 DEF ScenarioTypes, Creates, Sequential
  <2>2. IsInjective(pending)
    BY <2>1 DEF IsInjective
  <2> QED BY <1>1, <2>1, <2>2 DEF Tables
<1> QED BY <1>2, <1>3

\* A caller that leaves the wait or begins it.
LEMMA Sleeping ==
  ASSUME ScenarioTypes, config' = config, NEW w \in Callers,
         Leaves(w) \/ \E list : Sleeps(w, list)
  PROVE  /\ signalled' \subseteq asleep' /\ asleep' \subseteq Callers
         /\ timer' \in [Callers -> Pairs' \cup {NoTimer}]
<1>1. Pairs' = Pairs
  BY DEF Pairs, Total
<1>2. CASE Leaves(w)
  BY <1>1, <1>2 DEF Leaves, ScenarioTypes
<1>3. ASSUME NEW list, Sleeps(w, list)
      PROVE  /\ signalled' \subseteq asleep' /\ asleep' \subseteq Callers
             /\ timer' \in [Callers -> Pairs' \cup {NoTimer}]
  <2>1. Alarm(list) \in Pairs \cup {NoTimer}
    BY AlarmType DEF ScenarioTypes, TableTypes
  <2> QED BY <1>1, <1>3, <2>1 DEF Sleeps, ScenarioTypes
<1> QED BY <1>2, <1>3

\* restoreDominant hands out a restore within the budget, or the next mask.
PreparedRestored(st, i) ==
  /\ i \in DOMAIN budgets /\ budgets[i] > 0 /\ st = RestoreStep(-i)
  /\ budgets' = [budgets EXCEPT ![i] = @ - 1] /\ nextPair' = nextPair

PreparedMasked(st) ==
  /\ nextPair < Total /\ st = MaskStep(Total + nextPair)
  /\ nextPair' = nextPair + 1 /\ budgets' = budgets

\* The turns of restoreDominant.Next.
LEMMA PreparedTurn ==
  ASSUME ScenarioTypes, ~Creates, NEW w, NEW st
  PROVE  /\ Gives(w, st) => /\ UNCHANGED pairTables
                            /\ PreparedMasked(st) \/ \E i : PreparedRestored(st, i)
         /\ Ends(w) => UNCHANGED <<nextPair, pairTables>> /\ nextPair = Total
         /\ ~Waits(w)
<1>1. config.mode = "restore_dominant"
  BY DEF Creates
<1>2. Gives(w, st) => UNCHANGED pairTables /\ (PreparedRestores(st) \/ PreparedMasks(st))
  BY <1>1 DEF Gives, Mode
<1>3. ASSUME PreparedRestores(st) PROVE \E i : PreparedRestored(st, i)
  <2> DEFINE I == {i \in 1 .. Len(budgets) : budgets[i] > 0}
  <2>1. Budgeted = IF I # {} THEN Min(I) ELSE 0
    BY DEF Budgeted, SelectInSeq
  <2>2. Budgeted \in I
    <3>1. I # {} /\ I \subseteq Nat
      BY <1>3, <2>1 DEF PreparedRestores
    <3> QED BY <2>1, <3>1, Least
  <2>3. Budgeted \in DOMAIN budgets /\ budgets[Budgeted] > 0
    BY <2>2 DEF ScenarioTypes
  <2>4. PreparedRestored(st, Budgeted)
    BY <1>3, <2>3 DEF PreparedRestores, PreparedRestored
  <2> QED BY <2>4
<1>4. PreparedMasks(st) => PreparedMasked(st)
  BY DEF PreparedMasks, PreparedMasked
<1>5. Ends(w) => UNCHANGED <<nextPair, pairTables>> /\ nextPair = Total
  BY <1>1 DEF Ends, Mode
<1>6. ~Waits(w)
  BY <1>1 DEF Waits, Mode
<1> QED BY <1>2, <1>3, <1>4, <1>5, <1>6

\* A turn keeps the types of the scenario, whatever it issues.
LEMMA TurnTypes ==
  ASSUME ScenarioTypes, HandsKept, NEW w \in Callers, NEW st, IsStep(st),
         Gives(w, st) \/ Ends(w) \/ Waits(w) \/ GivesUp(w)
  PROVE  /\ ScenarioTypes' /\ config' = config /\ Known' = Known
         /\ Creates => budgets' = budgets
<1>1. config' = config /\ (Leaves(w) \/ \E list : Sleeps(w, list))
  BY DEF Gives, Ends, Waits, GivesUp
<1>2. /\ signalled' \subseteq asleep' /\ asleep' \subseteq Callers
      /\ timer' \in [Callers -> Pairs' \cup {NoTimer}]
  BY <1>1, Sleeping
<1>3. Total' = Total /\ Pairs' = Pairs /\ RestoreBudget' = RestoreBudget /\ (Creates' <=> Creates)
  BY <1>1 DEF Total, Pairs, RestoreBudget, Creates
<1>4. UNCHANGED <<nextPair, pairTables>> => TableTypes'
  BY <1>3 DEF TableTypes, ScenarioTypes, pairTables
<1>5. CASE Creates
  <2>1. TableTypes'
    <3>1. CASE GivesUp(w)
      BY <1>4, <3>1 DEF GivesUp
    <3>2. CASE Gives(w, st) \/ Ends(w) \/ Waits(w)
      <4>1. \E D : RestoreIssued(st, D) \/ MaskIssued(st, D) \/ NoneIssued(D)
        BY <1>1, <1>5, <3>2, TablesHold, Turn
      <4> QED BY <4>1 DEF RestoreIssued, MaskIssued, NoneIssued, Forgets
    <3> QED BY <3>1, <3>2
  <2>2. budgets' = budgets
    <3>1. config.mode # "restore_dominant"
      BY <1>5 DEF Creates
    <3> QED BY <3>1 DEF Gives, Ends, Waits, GivesUp, Mode
  <2> QED BY <1>1, <1>2, <1>3, <1>5, <2>1, <2>2 DEF ScenarioTypes, Known
<1>6. CASE ~Creates
  <2>1. UNCHANGED pairTables
    BY <1>6, PreparedTurn DEF GivesUp
  <2>2. nextPair' \in 0 .. Total /\ budgets' \in Seq(Int) /\ Len(budgets') = Len(budgets)
    <3>1. nextPair \in 0 .. Total /\ budgets \in Seq(Int) /\ Total \in Nat
      BY ConfigFacts DEF ScenarioTypes, TableTypes
    <3>2. CASE \E i : PreparedRestored(st, i)
      <4>1. PICK i : PreparedRestored(st, i)
        BY <3>2
      <4>2. budgets[i] \in Int /\ i \in 1 .. Len(budgets)
        BY <3>1, <4>1 DEF PreparedRestored
      <4>3. [budgets EXCEPT ![i] = budgets[i] - 1] \in Seq(Int)
            /\ Len([budgets EXCEPT ![i] = budgets[i] - 1]) = Len(budgets)
        BY <3>1, <4>2, ExceptSeq
      <4> QED BY <3>1, <4>1, <4>3 DEF PreparedRestored
    <3>3. CASE PreparedMasked(st)
      BY <3>1, <3>3 DEF PreparedMasked
    <3>4. CASE Ends(w) \/ GivesUp(w)
      BY <1>6, <3>1, <3>4, PreparedTurn DEF Ends, GivesUp
    <3> QED BY <1>6, <3>2, <3>3, <3>4, PreparedTurn
  <2>3. TableTypes'
    BY <1>3, <2>1, <2>2 DEF TableTypes, ScenarioTypes, pairTables
  <2>4. pending' = <<>> /\ \A p \in Pairs' : data'[p] = "none"
    BY <1>3, <1>6, <2>1 DEF ScenarioTypes, pairTables
  <2> QED BY <1>1, <1>2, <1>3, <1>6, <2>2, <2>3, <2>4 DEF ScenarioTypes, Known
<1> QED BY <1>5, <1>6

\* A step that is given names a pair of the run.
LEMMA GivenKnown ==
  ASSUME ScenarioTypes, HandsKept, NEW w \in Callers, NEW st, IsStep(st), Gives(w, st)
  PROVE  st \in KnownSteps /\ (Creates => st.pair \in Pairs)
<1>0. Total \in Nat /\ nextPair \in 0 .. Total /\ budgets \in Seq(Int) /\ Pairs = 0 .. (Total - 1)
  BY ConfigFacts DEF ScenarioTypes, TableTypes, Pairs
<1>1. st.isMask \in BOOLEAN /\ st = [pair |-> st.pair, isMask |-> st.isMask]
  BY DEF IsStep
<1>2. CASE Creates
  <2>1. PICK D : RestoreIssued(st, D) \/ MaskIssued(st, D)
    BY <1>2, TablesHold, Turn DEF Gives
  <2>2. st.pair \in Pairs
    <3>1. ToSet(pending) \subseteq Pairs
      BY ListMembers DEF ScenarioTypes, TableTypes
    <3>2. CASE RestoreIssued(st, D)
      BY <3>1, <3>2 DEF RestoreIssued
    <3>3. CASE MaskIssued(st, D)
      <4>1. st.pair = nextPair /\ nextPair < Total
        BY <3>3 DEF MaskIssued, MaskStep
      <4> QED BY <1>0, <4>1
    <3> QED BY <2>1, <3>2, <3>3
  <2>3. st.pair \in Known
    BY <1>0, <2>2 DEF Known
  <2> QED BY <1>1, <2>2, <2>3 DEF KnownSteps
<1>3. CASE ~Creates
  <2>1. st.pair \in Known
    <3>1. CASE PreparedMasked(st)
      <4>1. st.pair = Total + nextPair /\ nextPair < Total
        BY <3>1 DEF PreparedMasked, MaskStep
      <4> QED BY <1>0, <4>1 DEF Known
    <3>2. CASE \E i : PreparedRestored(st, i)
      <4>1. PICK i : PreparedRestored(st, i)
        BY <3>2
      <4>2. st.pair = -i /\ i \in 1 .. Len(budgets)
        BY <1>0, <4>1 DEF PreparedRestored, RestoreStep
      <4> QED BY <1>0, <4>2 DEF Known
    <3> QED BY <1>3, <3>1, <3>2, PreparedTurn
  <2> QED BY <1>1, <1>3, <2>1 DEF KnownSteps
<1> QED BY <1>2, <1>3

\* The completion of a step.
LEMMA CompleteTables ==
  ASSUME ScenarioTypes, HandsKept, NEW st, IsStep(st), Creates => HandedFits(st),
         NEW valid, NEW right, Complete(st, valid, right)
  PROVE  /\ ScenarioTypes' /\ config' = config /\ budgets' = budgets /\ nextPair' = nextPair
         /\ Creates => Completed(st, ~st.isMask /\ valid /\ right)
<1>1. UNCHANGED <<config, nextPair, budgets, asleep, timer>>
  BY DEF Complete
<1>2. Total' = Total /\ Pairs' = Pairs /\ RestoreBudget' = RestoreBudget /\ (Creates' <=> Creates)
  BY <1>1 DEF Total, Pairs, RestoreBudget, Creates
<1>3. signalled' = signalled \/ signalled' = asleep
  BY DEF Complete, SequentialCompletes, DominantCompletes, MaskArrives, Signal
<1>4. CASE Creates
  <2>1. Completed(st, ~st.isMask /\ valid /\ right)
    <3>1. CASE Sequential
      <4>1. SequentialCompletes(st, valid, right)
        BY <3>1 DEF Sequential, Complete, Mode
      <4> QED BY <1>1, <1>4, <3>1, <4>1, TablesHold, SequentialCompletion
    <3>2. CASE ~Sequential
      <4>1. DominantCompletes(st, valid, right)
        BY <1>4, <3>2 DEF Creates, Sequential, Complete, Mode
      <4> QED BY <1>1, <1>4, <3>2, <4>1, TablesHold, DominantCompletion
    <3> QED BY <3>1, <3>2
  <2>2. TableTypes'
    BY <2>1 DEF Completed
  <2> QED BY <1>1, <1>2, <1>3, <1>4, <2>1, <2>2 DEF ScenarioTypes
<1>5. CASE ~Creates
  <2>1. UNCHANGED pairTables
    BY <1>5 DEF Creates, Complete, Mode
  <2> QED BY <1>1, <1>2, <1>3, <1>5, <2>1 DEF ScenarioTypes, TableTypes, pairTables
<1> QED BY <1>1, <1>4, <1>5

----------------------------------------------------------------------------
(* Steps that leave the scenario alone *)

\* The constants of a run do not change with it.
LEMMA SameRun ==
  ASSUME config' = config, Len(budgets') = Len(budgets)
  PROVE  /\ Total' = Total /\ Pairs' = Pairs /\ RestoreBudget' = RestoreBudget
         /\ Known' = Known /\ KnownSteps' = KnownSteps
         /\ (Creates' <=> Creates) /\ (Sequential' <=> Sequential) /\ Allowance' = Allowance
         /\ \A d : Driver(d)' <=> Driver(d)
BY DEF Total, Pairs, RestoreBudget, Known, KnownSteps, Creates, Sequential, Allowance, Driver

\* A step that does not touch the scenario.
LEMMA ScenarioStays ==
  ASSUME ScenarioTypes, UNCHANGED scenarioVars
  PROVE  ScenarioTypes' /\ config' = config /\ budgets' = budgets
<1>1. /\ config' = config /\ budgets' = budgets /\ nextPair' = nextPair /\ pending' = pending
      /\ inFlight' = inFlight /\ data' = data /\ retries' = retries /\ delays' = delays
      /\ asleep' = asleep /\ signalled' = signalled /\ timer' = timer
  BY DEF scenarioVars
<1>2. /\ Total' = Total /\ Pairs' = Pairs /\ RestoreBudget' = RestoreBudget
      /\ (Creates' <=> Creates)
  BY <1>1, SameRun
<1> QED BY <1>1, <1>2 DEF ScenarioTypes, TableTypes

\* What is handed out fits as long as the tables do not change.
LEMMA FitsStay ==
  ASSUME PairsFit, Handed' = Handed,
         UNCHANGED <<config, nextPair, pending, inFlight, data, budgets, restored>>
  PROVE  PairsFit'
<1>1. Pairs' = Pairs /\ Known' = Known /\ (Sequential' <=> Sequential)
  BY SameRun
<1>2. \A st \in Handed' : HandedFits(st)'
  BY <1>1 DEF PairsFit, HandedFits
<1>3. \A p \in Pairs' : PairFits(p)'
  BY <1>1 DEF PairsFit, PairFits
<1> QED BY <1>1, <1>2, <1>3 DEF PairsFit

\* The steps in hand stay with whom they are.
LEMMA HandsStay ==
  ASSUME HandsKept,
         UNCHANGED <<config, nextPair, pending, inFlight, data, budgets, restored>>,
         \A v \in Workers : /\ pc'[v] \in AtWork <=> pc[v] \in AtWork
                            /\ pc[v] \in AtWork => step'[v] = step[v],
         queue' = queue, skipped' = skipped
  PROVE  HandsKept'
<1>1. Handed' = Handed /\ (OneHolder => OneHolder')
  BY HandsStill
<1>2. /\ Pairs' = Pairs /\ Known' = Known /\ (Creates' <=> Creates)
      /\ (Sequential' <=> Sequential) /\ Allowance' = Allowance
  BY SameRun
<1>3. PairsFit => PairsFit'
  BY <1>1, FitsStay
<1>4. ASSUME BudgetsKept PROVE BudgetsKept'
  <2>1. \A i : Restoring(i)' = Restoring(i) /\ Left(i)' = Left(i)
    BY DEF Restoring, Left
  <2> QED BY <1>2, <1>4, <2>1 DEF BudgetsKept
<1> QED BY <1>1, <1>2, <1>3, <1>4 DEF HandsKept

\* A worker that moves changes no other's operation, and ends for a reason.
LEMMA WorkerMoves ==
  ASSUME LoadInv, returned' = "no", config' = config, NEW w \in Workers, NEW place,
         pc[w] # "done", pc' = [pc EXCEPT ![w] = place],
         \A v \in Workers \ {w} : attempts'[v] = attempts[v] /\ taken'[v] = taken[v],
         PaidAt(w)',
         place = "done" =>
           (Driver("runner") => ctx' # "open" \/ stopped' \/ (nextPair' = Total' /\ pending' = <<>>))
  PROVE  /\ \A v \in Workers : PaidAt(v)'
         /\ EndInv'
         /\ place = "done" => Cardinality(Gone') = Cardinality(Gone) + 1
         /\ invalid' = invalid => InvalidBounded'
<1>1. pc'[w] = place /\ \A v \in Workers : v # w => pc'[v] = pc[v]
  BY DEF LoadInv, RunTypes
<1>2. \A v \in Workers : PaidAt(v)'
  BY <1>1 DEF LoadInv, PaidAt
<1>3. EndInv'
  <2>1. place = "done" \/ Gone' # Workers
    BY <1>1 DEF Gone
  <2> QED BY <2>1 DEF EndInv, Driver
<1>4. IsFiniteSet(Gone) /\ Cardinality(Gone) \in Nat /\ w \notin Gone
  BY ConfigAssumption, FS_Subset, FS_CardinalityType DEF Gone
<1>5. Gone' = IF place = "done" THEN Gone \cup {w} ELSE Gone
  BY <1>1, <1>4 DEF Gone
<1>6. place = "done" => Cardinality(Gone') = Cardinality(Gone) + 1
  BY <1>4, <1>5, FS_AddElement
<1>7. ASSUME invalid' = invalid PROVE InvalidBounded'
  <2>1. invalid < MaxInvalid + Cardinality(Gone) /\ invalid \in Nat /\ MaxInvalid \in Nat
    BY LoadAssumption DEF LoadInv, InvalidBounded, RunTypes
  <2>2. Cardinality(Gone') = Cardinality(Gone) \/ Cardinality(Gone') = Cardinality(Gone) + 1
    BY <1>5, <1>6
  <2> QED BY <1>4, <1>7, <2>1, <2>2 DEF InvalidBounded
<1> QED BY <1>2, <1>3, <1>6, <1>7

\* A turn with a slot, or the end of the loop with the run.
LEMMA AwaitsSlotKeeps ==
  ASSUME LoadInv, NEW w \in Workers, AwaitsSlot(w), Driver("runner"), UNCHANGED scheduleVars,
         returned' = "no"
  PROVE  LoadInv'
<1> DEFINE place == pc'[w]
<1>1. UNCHANGED <<scenarioVars, ctx, hard, step, attempts, resp, invalid, stopped, restored>>
  BY DEF AwaitsSlot, Idle
<1>2. ScenarioTypes' /\ config' = config /\ budgets' = budgets
  BY <1>1, ScenarioStays DEF LoadInv
<1>3. pc[w] = "slot" /\ pc \in [Workers -> Free \cup Between \cup {"next", "send", "done"}]
      /\ attempts \in [Workers -> Nat] /\ taken \in [Workers -> Nat]
      /\ attempts[w] = 0 /\ taken[w] = 0 /\ slots \in 0 .. SlotQueue /\ SlotQueue \in Nat
  BY LoadAssumption DEF AwaitsSlot, At, LoadInv, RunTypes, PaidAt, Free
<1>4. \/ /\ pc' = [pc EXCEPT ![w] = "next"] /\ taken' = [taken EXCEPT ![w] = @ + 1]
         /\ slots' \in 0 .. SlotQueue /\ UNCHANGED <<due, emitting>>
      \/ /\ pc' = [pc EXCEPT ![w] = "done"] /\ ctx # "open" /\ taken' = taken
         /\ UNCHANGED <<slots, due, emitting>>
  BY <1>3 DEF AwaitsSlot, Goes, TakesSlot, CtxDone, pacerVars
<1>5. place \in {"next", "done"} /\ pc' = [pc EXCEPT ![w] = place]
  BY <1>3, <1>4
<1>6. PaidAt(w)' /\ \A v \in Workers \ {w} : taken'[v] = taken[v]
  BY <1>1, <1>3, <1>4 DEF PaidAt, Free, Between
<1>7. KnownSteps' = KnownSteps /\ Known' = Known /\ \A d : Driver(d)' <=> Driver(d)
  BY <1>2, SameRun
<1>8. RunTypes'
  <2>1. pc' \in [Workers -> Free \cup Between \cup {"next", "send", "done"}]
        /\ taken' \in [Workers -> Nat]
    BY <1>3, <1>4
  <2>2. slots' \in 0 .. SlotQueue /\ due' = due /\ emitting' = emitting
    BY <1>3, <1>4
  <2> QED BY <1>1, <1>7, <2>1, <2>2 DEF LoadInv, RunTypes, scheduleVars
<1>9. HandsKept'
  <2>1. \A v \in Workers : pc'[v] \in AtWork <=> pc[v] \in AtWork
    BY <1>3, <1>5 DEF AtWork
  <2> QED BY <1>1, <2>1, HandsStay DEF LoadInv, HandsKept, scenarioVars, scheduleVars
<1>10. (\A v \in Workers : PaidAt(v)') /\ EndInv' /\ InvalidBounded'
  <2>1. place = "done" => ctx' # "open"
    BY <1>1, <1>3, <1>4
  <2> HIDE DEF place
  <2> QED BY <1>1, <1>2, <1>3, <1>5, <1>6, <2>1, WorkerMoves
<1> QED BY <1>2, <1>8, <1>9, <1>10 DEF LoadInv, HandsKept

\* An attempt, its answer and the wait for the next one.
LEMMA AttemptKeeps ==
  ASSUME LoadInv, NEW w \in Workers, Attempt(w), UNCHANGED scheduleVars, returned' = "no"
  PROVE  LoadInv'
<1> DEFINE place == pc'[w]
<1>1. UNCHANGED <<scenarioVars, ctx, hard, step, invalid, stopped, restored, due, emitting>>
  BY DEF Attempt, Answered, Backoff, Pays, OperationOnly, pacerVars, TakesSlot, CtxDone
<1>2. ScenarioTypes' /\ config' = config /\ budgets' = budgets
  BY <1>1, ScenarioStays DEF LoadInv
<1>3. /\ pc \in [Workers -> Free \cup Between \cup {"next", "send", "done"}]
      /\ attempts \in [Workers -> Nat] /\ taken \in [Workers -> Nat]
      /\ resp \in [Workers -> Replies] /\ PaidAt(w)
      /\ slots \in 0 .. SlotQueue /\ SlotQueue \in Nat /\ MaxAttempts \in Nat
  BY LoadAssumption DEF LoadInv, RunTypes
<1>4. Answers \subseteq Replies /\ Send \subseteq Replies /\ RunEnded \in Replies
  BY DEF Replies, Send
<1>5. \/ /\ pc[w] = "send" /\ attempts' = [attempts EXCEPT ![w] = @ + 1] /\ taken' = taken
         /\ pc' = [pc EXCEPT ![w] = "finish"]
            \/ (attempts'[w] < MaxAttempts /\ pc' = [pc EXCEPT ![w] = "backoff"])
         /\ resp' \in [Workers -> Replies] /\ slots' = slots
      \/ /\ pc[w] = "backoff" /\ UNCHANGED <<attempts, taken, resp, slots>>
         /\ \E q \in {"pay", "finish"} : pc' = [pc EXCEPT ![w] = q]
      \/ /\ pc[w] = "pay" /\ attempts' = attempts /\ taken' = [taken EXCEPT ![w] = @ + 1]
         /\ pc' = [pc EXCEPT ![w] = "send"] /\ resp' = resp /\ slots' \in 0 .. SlotQueue
      \/ /\ pc[w] = "pay" /\ UNCHANGED <<attempts, taken, slots>>
         /\ pc' = [pc EXCEPT ![w] = "finish"] /\ resp' \in [Workers -> Replies]
  <2>1. CASE Answered(w)
    BY <1>3, <1>4, <2>1 DEF Answered, At, Goes, pacerVars
  <2>2. CASE Backoff(w)
    BY <2>2 DEF Backoff, At, Goes, pacerVars
  <2>3. CASE Pays(w)
    BY <1>3, <1>4, <2>3 DEF Pays, At, Goes, TakesSlot, CtxDone, pacerVars
  <2> QED BY <2>1, <2>2, <2>3 DEF Attempt
<1>6. /\ pc' = [pc EXCEPT ![w] = place] /\ place \in AtWork /\ pc[w] \in AtWork
      /\ attempts' \in [Workers -> Nat] /\ taken' \in [Workers -> Nat]
      /\ resp' \in [Workers -> Replies] /\ slots' \in 0 .. SlotQueue
      /\ \A v \in Workers \ {w} : attempts'[v] = attempts[v] /\ taken'[v] = taken[v]
  BY <1>3, <1>5 DEF AtWork
<1>7. PaidAt(w)'
  BY <1>3, <1>5 DEF PaidAt, Free, Between
<1>8. KnownSteps' = KnownSteps /\ Known' = Known /\ \A d : Driver(d)' <=> Driver(d)
  BY <1>2, SameRun
<1> HIDE DEF place
<1>9. RunTypes'
  <2>1. pc' \in [Workers -> Free \cup Between \cup {"next", "send", "done"}]
    BY <1>3, <1>6 DEF AtWork, Between
  <2> QED BY <1>1, <1>6, <1>8, <2>1 DEF LoadInv, RunTypes, scheduleVars
<1>10. HandsKept'
  <2>1. \A v \in Workers : pc'[v] \in AtWork <=> pc[v] \in AtWork
    BY <1>3, <1>6
  <2> QED BY <1>1, <2>1, HandsStay DEF LoadInv, HandsKept, scenarioVars, scheduleVars
<1>11. (\A v \in Workers : PaidAt(v)') /\ EndInv' /\ InvalidBounded'
  <2>1. place # "done" /\ pc[w] # "done"
    BY <1>6 DEF AtWork
  <2> QED BY <1>1, <1>2, <1>6, <1>7, <2>1, WorkerMoves
<1> QED BY <1>2, <1>9, <1>10, <1>11 DEF LoadInv, HandsKept

\* A round of the pacer leaves less than a slot due.
LEMMA TickTypes ==
  ASSUME NEW accrued \in Nat, due \in Nat, emitting \in 0 .. MaxBurst, Tick(accrued)
  PROVE  due' \in 0 .. (Unit - 1) /\ emitting' \in 0 .. MaxBurst
<1> DEFINE n == due + accrued
           q == n \div Unit
           burst == IF q < MaxBurst THEN q ELSE MaxBurst
           rest == n - burst * Unit
<1>1. n \in Nat /\ Unit \in Nat \ {0} /\ MaxBurst \in Nat
  BY LoadAssumption
<1> HIDE DEF n
<1>2. ASSUME NEW k \in Nat
      PROVE  /\ k \div Unit \in Nat /\ k = Unit * (k \div Unit) + (k % Unit)
             /\ k % Unit \in 0 .. (Unit - 1)
  BY <1>1
<1>3. q \in Nat /\ Unit * q <= n
  BY <1>1, <1>2
<1>4. burst \in 0 .. MaxBurst /\ burst <= q /\ burst \in Nat
  BY <1>1, <1>3
<1> HIDE DEF q, burst
<1>5. burst * Unit <= Unit * q
  BY <1>1, <1>3, <1>4
<1>6. rest \in Nat
  <2>1. burst * Unit \in Nat /\ Unit * q \in Nat
    BY <1>1, <1>3, <1>4
  <2> QED BY <1>1, <1>3, <1>5, <2>1
<1>7. /\ emitting' = burst
      /\ due' = IF rest >= Unit THEN rest - (rest \div Unit) * Unit ELSE rest
  BY DEF Tick, burst, q, n
<1> HIDE DEF rest
<1>8. rest - (rest \div Unit) * Unit = rest % Unit
  <2>1. /\ rest \div Unit \in Nat /\ rest = Unit * (rest \div Unit) + (rest % Unit)
        /\ rest % Unit \in 0 .. (Unit - 1)
    BY <1>2, <1>6
  <2>2. (rest \div Unit) * Unit = Unit * (rest \div Unit)
    BY <1>1, <2>1
  <2>3. Unit * (rest \div Unit) \in Nat
    BY <1>1, <2>1
  <2> QED BY <1>6, <2>1, <2>2, <2>3
<1>9. rest % Unit \in 0 .. (Unit - 1)
  BY <1>2, <1>6
<1> QED BY <1>1, <1>4, <1>6, <1>7, <1>8, <1>9

\* The context, its watcher and the pacer.
LEMMA EnvironmentKeeps ==
  ASSUME LoadInv, Environment, UNCHANGED <<scheduleVars, returned>>, returned = "no"
  PROVE  LoadInv'
<1>1. UNCHANGED <<scenarioVars, operation, invalid, stopped, restored>>
  BY DEF Environment, CtxEnds, Watch, PacerStep, Tick, Emit
<1>2. ScenarioTypes' /\ config' = config /\ budgets' = budgets
  BY <1>1, ScenarioStays DEF LoadInv
<1>3. KnownSteps' = KnownSteps /\ Known' = Known /\ \A d : Driver(d)' <=> Driver(d)
  BY <1>2, SameRun
<1>4. /\ ctx' \in {"open", "deadline", "canceled"} /\ hard' \in BOOLEAN
      /\ slots' \in 0 .. SlotQueue /\ due' \in 0 .. (Unit - 1) /\ emitting' \in 0 .. MaxBurst
      /\ ctx' = "open" => ctx = "open"
  <2>1. /\ SlotQueue \in Nat /\ Unit \in Nat \ {0} /\ MaxBurst \in Nat /\ Accruals \subseteq Nat
        /\ Endings \subseteq {"deadline", "canceled"}
    BY LoadAssumption
  <2>2. /\ ctx \in {"open", "deadline", "canceled"} /\ hard \in BOOLEAN
        /\ slots \in 0 .. SlotQueue /\ due \in 0 .. (Unit - 1) /\ emitting \in 0 .. MaxBurst
    BY DEF LoadInv, RunTypes
  <2>3. CASE CtxEnds \/ Watch
    BY <2>1, <2>2, <2>3 DEF CtxEnds, Watch, pacerVars
  <2>4. ASSUME NEW a \in Accruals, Tick(a)
        PROVE  due' \in 0 .. (Unit - 1) /\ emitting' \in 0 .. MaxBurst
               /\ UNCHANGED <<slots, ctx, hard>>
    <3>1. a \in Nat /\ due \in Nat
      BY <2>1, <2>2
    <3>2. UNCHANGED <<slots, ctx, hard>>
      BY <2>4 DEF Tick
    <3> QED BY <2>2, <2>4, <3>1, <3>2, TickTypes
  <2>5. CASE Emit
    BY <2>1, <2>2, <2>5 DEF Emit
  <2> QED BY <2>2, <2>3, <2>4, <2>5 DEF Environment, PacerStep
<1>5. RunTypes'
  BY <1>1, <1>3, <1>4 DEF LoadInv, RunTypes, scheduleVars, operation
<1>6. HandsKept'
  BY <1>1, HandsStay DEF LoadInv, HandsKept, scenarioVars, scheduleVars, operation
<1>7. (\A w \in Workers : PaidAt(w)') /\ InvalidBounded' /\ Gone' = Gone
  BY <1>1 DEF LoadInv, PaidAt, InvalidBounded, Gone, operation
<1>8. EndInv'
  BY <1>1, <1>2, <1>4, <1>7 DEF LoadInv, EndInv, Driver, Total, scenarioVars
<1> QED BY <1>2, <1>5, <1>6, <1>7, <1>8 DEF LoadInv, HandsKept

\* A restore delay that runs out changes no table but its own.
LEMMA DelayKeeps ==
  ASSUME LoadInv, DelayEnds, UNCHANGED <<runVars, scheduleVars, returned>>
  PROVE  LoadInv'
<1>1. UNCHANGED <<config, nextPair, pending, inFlight, data, retries, budgets,
                  asleep, signalled, timer>>
  BY DEF DelayEnds
<1>2. /\ Total' = Total /\ Pairs' = Pairs /\ RestoreBudget' = RestoreBudget
      /\ Known' = Known /\ KnownSteps' = KnownSteps /\ (Creates' <=> Creates)
      /\ \A d : Driver(d)' <=> Driver(d)
  BY <1>1, SameRun
<1>3. ScenarioTypes'
  <2>1. delays \in Seq(Pairs) /\ delays # <<>> /\ delays' = Tail(delays)
    BY DEF DelayEnds, LoadInv, ScenarioTypes, TableTypes
  <2>2. delays' \in Seq(Pairs)
    BY <2>1
  <2> QED BY <1>1, <1>2, <2>2 DEF LoadInv, ScenarioTypes, TableTypes
<1>4. UNCHANGED <<ctx, hard, pc, step, attempts, taken, resp, invalid, stopped, restored,
                  slots, due, emitting, queue, producing, skipped, returned>>
  BY DEF runVars, operation, pacerVars, scheduleVars
<1>5. RunTypes'
  BY <1>2, <1>4 DEF LoadInv, RunTypes
<1>6. HandsKept'
  BY <1>1, <1>4, HandsStay DEF LoadInv, HandsKept
<1>7. (\A w \in Workers : PaidAt(w)') /\ InvalidBounded' /\ Gone' = Gone
  BY <1>4 DEF LoadInv, PaidAt, InvalidBounded, Gone
<1>8. EndInv'
  BY <1>1, <1>2, <1>4, <1>7 DEF LoadInv, EndInv
<1> QED BY <1>3, <1>5, <1>6, <1>7, <1>8 DEF LoadInv, HandsKept

\* The compatibility check, which counts beyond the threshold only as it ends a
\* worker.
LEMMA CheckStopKeeps ==
  ASSUME LoadInv, NEW w \in Workers, NEW place \in Free, CheckStop(w, place),
         UNCHANGED scheduleVars, returned' = "no"
  PROVE  LoadInv'
<1> DEFINE now == pc'[w]
<1>1. UNCHANGED <<scenarioVars, restored, pacerVars, ctx>> /\ pc[w] = "check"
  BY DEF CheckStop, At
<1>2. ScenarioTypes' /\ config' = config /\ budgets' = budgets
  BY <1>1, ScenarioStays DEF LoadInv
<1>3. /\ pc \in [Workers -> Free \cup Between \cup {"next", "send", "done"}]
      /\ attempts \in [Workers -> Nat] /\ taken \in [Workers -> Nat]
      /\ step \in [Workers -> KnownSteps] /\ resp \in [Workers -> Replies]
      /\ invalid \in Nat /\ MaxInvalid \in Nat \ {0} /\ invalid < MaxInvalid + Cardinality(Gone)
      /\ stopped \in BOOLEAN /\ hard \in BOOLEAN
  BY LoadAssumption DEF LoadInv, RunTypes, InvalidBounded
<1>4. /\ step' = [step EXCEPT ![w] = MaskStep(0)]
      /\ attempts' = [attempts EXCEPT ![w] = 0] /\ taken' = [taken EXCEPT ![w] = 0]
      /\ resp' = [resp EXCEPT ![w] = RunEnded]
      /\ invalid' \in {invalid, 0, invalid + 1}
      /\ \/ /\ invalid' >= MaxInvalid /\ stopped' = TRUE /\ hard' = TRUE
            /\ pc' = [pc EXCEPT ![w] = "done"]
         \/ /\ ~(invalid' > invalid /\ invalid' >= MaxInvalid)
            /\ pc' = [pc EXCEPT ![w] = place] /\ UNCHANGED <<stopped, hard>>
  BY DEF CheckStop, Clears, Goes
<1>5. MaskStep(0) \in KnownSteps /\ RunEnded \in Replies
  BY DEF MaskStep, KnownSteps, Replies
<1>6. /\ pc' = [pc EXCEPT ![w] = now] /\ now \in Free \cup {"done"}
      /\ now = "done" => stopped'
      /\ attempts'[w] = 0 /\ taken'[w] = 0
      /\ \A v \in Workers \ {w} : attempts'[v] = attempts[v] /\ taken'[v] = taken[v]
  BY <1>3, <1>4 DEF Free
<1>7. PaidAt(w)'
  BY <1>6 DEF PaidAt, Free, Between
<1>8. KnownSteps' = KnownSteps /\ Known' = Known /\ \A d : Driver(d)' <=> Driver(d)
  BY <1>2, SameRun
<1>9. RunTypes'
  <2>1. /\ pc' \in [Workers -> Free \cup Between \cup {"next", "send", "done"}]
        /\ attempts' \in [Workers -> Nat] /\ taken' \in [Workers -> Nat]
        /\ step' \in [Workers -> KnownSteps] /\ resp' \in [Workers -> Replies]
        /\ invalid' \in Nat
    BY <1>3, <1>4, <1>5
  <2>2. stopped' \in BOOLEAN /\ hard' \in BOOLEAN
    BY <1>3, <1>4
  <2> QED BY <1>1, <1>8, <2>1, <2>2 DEF LoadInv, RunTypes, scheduleVars, pacerVars
<1> HIDE DEF now
<1>10. HandsKept'
  <2>1. /\ \A v \in Workers : pc'[v] \in AtWork <=> pc[v] \in AtWork
        /\ \A v \in Workers : pc[v] \in AtWork => step'[v] = step[v]
    BY <1>1, <1>3, <1>4, <1>6 DEF AtWork, Free
  <2> QED BY <1>1, <2>1, HandsStay DEF LoadInv, HandsKept, scenarioVars, scheduleVars
<1>11. /\ \A v \in Workers : PaidAt(v)'
       /\ EndInv'
       /\ now = "done" => Cardinality(Gone') = Cardinality(Gone) + 1
       /\ invalid' = invalid => InvalidBounded'
  BY <1>1, <1>2, <1>6, <1>7, WorkerMoves
<1>12. InvalidBounded'
  <2>1. Cardinality(Gone) \in Nat /\ Cardinality(Gone') \in Nat
    BY ConfigAssumption, FS_Subset, FS_CardinalityType DEF Gone
  <2>2. CASE invalid' >= MaxInvalid /\ now = "done"
    BY <1>3, <1>4, <1>11, <2>1, <2>2 DEF InvalidBounded
  <2>3. CASE invalid' < MaxInvalid
    BY <1>3, <1>4, <2>1, <2>3 DEF InvalidBounded
  <2>4. \/ invalid' = invalid \/ invalid' < MaxInvalid \/ (invalid' >= MaxInvalid /\ now = "done")
    BY <1>3, <1>4 DEF now
  <2> QED BY <1>11, <2>2, <2>3, <2>4
<1> QED BY <1>2, <1>9, <1>10, <1>11, <1>12 DEF LoadInv, HandsKept

----------------------------------------------------------------------------
(* Turns of the scenario *)

\* A turn without a step takes nothing from anybody.
LEMMA IdleTurn ==
  ASSUME ScenarioTypes, HandsKept, NEW w \in Callers, Ends(w) \/ Waits(w) \/ GivesUp(w),
         restored' = restored, queue' = queue, skipped' = skipped,
         \A v \in Workers : /\ pc'[v] \in AtWork <=> pc[v] \in AtWork
                            /\ pc[v] \in AtWork => step'[v] = step[v]
  PROVE  HandsKept' /\ (Ends(w) => nextPair' = Total' /\ pending' = <<>>)
<1>1. config' = config
  BY DEF Ends, Waits, GivesUp
<1>2. Total' = Total /\ (Creates' <=> Creates)
  BY <1>1 DEF Total, Creates
<1>3. CASE GivesUp(w)
  <2>1. HandsKept'
    BY <1>3, HandsStay DEF GivesUp, pairTables
  <2>2. nextPair' = nextPair /\ pending' = pending /\ data' = data /\ budgets' = budgets
    BY <1>3 DEF GivesUp, pairTables
  <2>3. Ends(w) => nextPair' = Total' /\ pending' = <<>>
    <3>1. CASE Creates
      <4>1. PICK st : IsStep(st)
        <5>1. IsStep(MaskStep(0))
          BY DEF IsStep, MaskStep
        <5> QED BY <5>1
      <4> QED BY <1>1, <1>2, <3>1, <4>1, TablesHold, Turn
    <3>2. CASE ~Creates
      BY <1>2, <2>2, <3>2, PreparedTurn DEF ScenarioTypes
    <3> QED BY <3>1, <3>2
  <2> QED BY <2>1, <2>3
<1>4. CASE Creates /\ (Ends(w) \/ Waits(w))
  <2>1. IsStep(MaskStep(0))
    BY DEF IsStep, MaskStep
  <2>2. Tables
    BY TablesHold
  <2>3. PICK D : NoneIssued(D)
    BY <1>1, <1>4, <2>1, <2>2, Turn
  <2>4. budgets' = budgets
    BY <1>4 DEF Ends, Waits
  <2>5. Handed' = Handed /\ (OneHolder => OneHolder')
    BY HandsStill
  <2>6. PairsFit'
    BY <1>1, <1>4, <2>2, <2>3, <2>4, <2>5, IdleFits DEF HandsKept
  <2>7. Ends(w) => nextPair' = Total' /\ pending' = <<>>
    BY <1>1, <1>2, <1>4, <2>1, <2>2, Turn
  <2> QED BY <1>2, <1>4, <2>5, <2>6, <2>7 DEF HandsKept
<1>5. CASE ~Creates /\ (Ends(w) \/ Waits(w))
  <2>1. Ends(w) /\ UNCHANGED <<nextPair, pairTables>> /\ nextPair = Total
    BY <1>5, PreparedTurn
  <2>2. budgets' = budgets /\ pending = <<>>
    BY <1>5, <2>1 DEF Ends, ScenarioTypes
  <2>3. HandsKept'
    BY <1>1, <2>1, <2>2, HandsStay DEF pairTables
  <2> QED BY <1>2, <2>1, <2>2, <2>3 DEF pairTables
<1> QED BY <1>3, <1>4, <1>5

\* A step that is given is of a pair nobody has, and the pair fits it.
LEMMA GivenFits ==
  ASSUME ScenarioTypes, HandsKept, Creates, restored \in [Known -> Nat],
         NEW w \in Callers, NEW st, IsStep(st), Gives(w, st),
         restored' = restored, Handed' = Handed \cup {st}
  PROVE  PairsFit' /\ \A s \in Handed : s.pair # st.pair
<1>1. config' = config /\ budgets' = budgets /\ Tables /\ PairsFit
  BY TurnTypes, TablesHold DEF HandsKept
<1>2. \A p \in Pairs : restored[p] \in Nat
  <2>1. Total \in Nat /\ budgets = <<>>
    BY ConfigFacts DEF ScenarioTypes
  <2>2. Pairs \subseteq Known
    BY <2>1 DEF Pairs, Known
  <2> QED BY <2>2
<1>3. PICK D : RestoreIssued(st, D) \/ MaskIssued(st, D)
  BY <1>1, Turn
<1>4. CASE RestoreIssued(st, D)
  BY <1>1, <1>2, <1>4, RestoreFits
<1>5. CASE MaskIssued(st, D)
  BY <1>1, <1>2, <1>5, MaskFits
<1> QED BY <1>3, <1>4, <1>5

\* The restore of a prepared pair comes out of what is left of its budget.
LEMMA GivenWithin ==
  ASSUME ScenarioTypes, ~Creates, BudgetsKept, restored \in [Known -> Nat],
         pc \in [Workers -> Free \cup Between \cup {"next", "send", "done"}],
         step \in [Workers -> KnownSteps],
         NEW w \in Workers, pc[w] \notin AtWork, NEW st, IsStep(st), Gives(w, st),
         pc' = [pc EXCEPT ![w] = "send"], step' = [step EXCEPT ![w] = st], restored' = restored
  PROVE  BudgetsKept'
<1>1. /\ pc'[w] \in AtWork /\ step'[w] = st
      /\ \A v \in Workers : v # w => pc'[v] = pc[v] /\ step'[v] = step[v]
  BY DEF AtWork
<1>2. config' = config
  BY DEF Gives
<1>3. budgets \in Seq(Int) /\ Total \in Nat /\ nextPair \in 0 .. Total
      /\ config.budget \in Int /\ Allowance \in Nat
  BY ConfigFacts DEF ScenarioTypes, TableTypes, Allowance
<1>4. \A i \in DOMAIN budgets : /\ i \in Nat \ {0} /\ -i \in Known /\ budgets[i] \in Int
                                /\ restored[-i] \in Nat
                                /\ Cardinality(Restoring(i)) \in Nat /\ IsFiniteSet(Restoring(i))
  <2> SUFFICES ASSUME NEW i \in DOMAIN budgets
               PROVE  /\ i \in Nat \ {0} /\ -i \in Known /\ budgets[i] \in Int
                      /\ restored[-i] \in Nat
                      /\ Cardinality(Restoring(i)) \in Nat /\ IsFiniteSet(Restoring(i))
    OBVIOUS
  <2>1. i \in 1 .. Len(budgets) /\ Len(budgets) \in Nat /\ budgets[i] \in Int
    BY <1>3
  <2>2. -i \in Known
    BY <1>3, <2>1 DEF Known
  <2>3. IsFiniteSet(Restoring(i)) /\ Cardinality(Restoring(i)) \in Nat
    BY ConfigAssumption, FS_Subset, FS_CardinalityType DEF Restoring
  <2> QED BY <2>1, <2>2, <2>3
<1>5. CASE PreparedMasked(st)
  <2>1. budgets' = budgets /\ st.isMask /\ \A i : st # RestoreStep(-i)
    BY <1>5 DEF PreparedMasked, MaskStep, RestoreStep
  <2>2. Known' = Known /\ Allowance' = Allowance
    BY <1>2, <2>1, SameRun
  <2>3. \A i \in DOMAIN budgets : Restoring(i)' = Restoring(i) /\ Left(i)' = Left(i)
    BY <1>1, <2>1 DEF Restoring, Left
  <2>4. \A v \in Workers : pc'[v] \in AtWork /\ ~step'[v].isMask => step'[v].pair < 0
    BY <1>1, <2>1 DEF BudgetsKept
  <2> QED BY <2>1, <2>2, <2>3, <2>4 DEF BudgetsKept
<1>6. ASSUME NEW i, PreparedRestored(st, i) PROVE BudgetsKept'
  <2>1. /\ i \in DOMAIN budgets /\ budgets[i] > 0 /\ st = RestoreStep(-i) /\ st.pair = -i
        /\ budgets' = [budgets EXCEPT ![i] = @ - 1]
    BY <1>6 DEF PreparedRestored, RestoreStep
  <2>2. DOMAIN budgets' = DOMAIN budgets /\ Len(budgets') = Len(budgets)
    <3>1. i \in 1 .. Len(budgets) /\ budgets[i] - 1 \in Int
      BY <1>3, <1>4, <2>1
    <3> QED BY <1>3, <2>1, <3>1, ExceptSeq
  <2>3. Known' = Known /\ Allowance' = Allowance
    BY <1>2, <2>2, SameRun
  <2>4. Restoring(i)' = Restoring(i) \cup {w} /\ w \notin Restoring(i)
    BY <1>1, <2>1 DEF Restoring
  <2>5. Cardinality(Restoring(i)') = Cardinality(Restoring(i)) + 1
    BY <1>4, <2>1, <2>4, FS_AddElement
  <2>6. Left(i) = budgets[i] /\ Left(i)' = budgets[i] - 1 /\ Left(i) \in Nat
    BY <1>4, <2>1 DEF Left
  <2>7. ASSUME NEW j \in DOMAIN budgets, j # i
        PROVE  Restoring(j)' = Restoring(j) /\ Left(j)' = Left(j)
    <3>1. st # RestoreStep(-j)
      <4>1. RestoreStep(-j).pair = -j /\ -i # -j
        BY <1>4, <2>1, <2>7 DEF RestoreStep
      <4> QED BY <2>1, <4>1
    <3>2. budgets'[j] = budgets[j]
      BY <2>1, <2>7
    <3> QED BY <1>1, <3>1, <3>2 DEF Restoring, Left
  <2>8. ASSUME NEW j \in DOMAIN budgets'
        PROVE  restored'[-j] + Cardinality(Restoring(j)') + Left(j)' <= Allowance'
    <3>1. restored[-j] + Cardinality(Restoring(j)) + Left(j) <= Allowance
      BY <2>2 DEF BudgetsKept
    <3>2. CASE j = i
      BY <1>4, <2>1, <2>3, <2>5, <2>6, <3>1, <3>2
    <3>3. CASE j # i
      BY <2>2, <2>3, <2>7, <3>1, <3>3
    <3> QED BY <3>2, <3>3
  <2>9. \A v \in Workers : pc'[v] \in AtWork /\ ~step'[v].isMask => step'[v].pair < 0
    BY <1>1, <1>4, <2>1 DEF BudgetsKept
  <2> QED BY <2>3, <2>8, <2>9 DEF BudgetsKept
<1> QED BY <1>5, <1>6, PreparedTurn

\* A worker of the closed loop pulls its next step.
LEMMA PullsKeeps ==
  ASSUME LoadInv, NEW w \in Workers, Pulls(w), Driver("runner"), UNCHANGED scheduleVars,
         returned' = "no"
  PROVE  LoadInv'
<1>1. /\ pc[w] = "next" /\ w \in Callers
      /\ UNCHANGED <<ctx, hard, attempts, taken, resp, invalid, stopped, restored, slots, due,
                     emitting, queue, producing, skipped>>
  BY LoadAssumption DEF Pulls, At, pacerVars, scheduleVars
<1>2. /\ pc \in [Workers -> Free \cup Between \cup {"next", "send", "done"}]
      /\ step \in [Workers -> KnownSteps] /\ restored \in [Known -> Nat]
      /\ attempts[w] = 0 /\ taken[w] = 1 /\ pc[w] \notin AtWork
      /\ MaxAttempts \in Nat \ {0} /\ ScenarioTypes /\ HandsKept
  BY <1>1, LoadAssumption DEF LoadInv, RunTypes, PaidAt, HandsKept, AtWork
<1>3. ASSUME ScenarioTypes', config' = config, Known' = Known, NEW place,
             place \in {"next", "send", "done"},
             pc' = [pc EXCEPT ![w] = place], step' \in [Workers -> KnownSteps], HandsKept',
             place = "done" => ctx' # "open" \/ (nextPair' = Total' /\ pending' = <<>>)
      PROVE  LoadInv'
  <2>1. KnownSteps' = KnownSteps /\ \A d : Driver(d)' <=> Driver(d)
    BY <1>3 DEF KnownSteps, Driver
  <2>2. RunTypes'
    <3>1. pc' \in [Workers -> Free \cup Between \cup {"next", "send", "done"}]
      BY <1>2, <1>3
    <3> QED BY <1>1, <1>3, <2>1, <3>1 DEF LoadInv, RunTypes
  <2>3. PaidAt(w)'
    BY <1>1, <1>2, <1>3 DEF PaidAt, Free, Between
  <2>4. (\A v \in Workers : PaidAt(v)') /\ EndInv' /\ InvalidBounded'
    BY <1>1, <1>3, <2>3, WorkerMoves
  <2> QED BY <1>3, <2>2, <2>4 DEF LoadInv, HandsKept
<1>4. ASSUME NEW st \in Candidates, Gives(w, st), Begins(w, st, "send") PROVE LoadInv'
  <2>1. IsStep(st) /\ pc' = [pc EXCEPT ![w] = "send"] /\ step' = [step EXCEPT ![w] = st]
    BY <1>4, CandidatesAreSteps DEF Begins, Goes
  <2>2. ScenarioTypes' /\ config' = config /\ Known' = Known
    BY <1>1, <1>2, <1>4, <2>1, TurnTypes
  <2>3. st \in KnownSteps
    BY <1>1, <1>2, <1>4, <2>1, GivenKnown
  <2>4. step' \in [Workers -> KnownSteps]
    BY <1>2, <2>1, <2>3
  <2>5. HandsKept'
    <3>1. Creates' <=> Creates
      BY <2>2 DEF Creates
    <3>2. CASE Creates
      <4>1. /\ Handed' = Handed \cup {st}
            /\ OneHolder /\ (\A s \in Handed : s.pair # st.pair) => OneHolder'
        BY <1>1, <1>2, <2>1, HandedToWorker
      <4>2. PairsFit' /\ \A s \in Handed : s.pair # st.pair
        BY <1>1, <1>2, <1>4, <2>1, <3>2, <4>1, GivenFits
      <4> QED BY <1>2, <3>1, <3>2, <4>1, <4>2 DEF HandsKept
    <3>3. CASE ~Creates
      <4>1. BudgetsKept'
        BY <1>1, <1>2, <1>4, <2>1, <3>3, GivenWithin DEF HandsKept
      <4> QED BY <3>1, <3>3, <4>1 DEF HandsKept
    <3> QED BY <3>2, <3>3
  <2> QED BY <1>3, <2>1, <2>2, <2>4, <2>5
<1>5. ASSUME step' = step,
             \/ /\ pc' = [pc EXCEPT ![w] = "done"] /\ (Ends(w) \/ (ctx # "open" /\ GivesUp(w)))
             \/ pc' = pc /\ Waits(w)
      PROVE  LoadInv'
  <2>1. Ends(w) \/ Waits(w) \/ GivesUp(w)
    BY <1>5
  <2>2. IsStep(MaskStep(0))
    BY DEF IsStep, MaskStep
  <2>3. ScenarioTypes' /\ config' = config /\ Known' = Known
    BY <1>1, <1>2, <2>1, <2>2, TurnTypes
  <2>4. PICK place \in {"next", "done"} :
          pc' = [pc EXCEPT ![w] = place] /\ (place = "done" => Ends(w) \/ ctx # "open")
    <3>1. pc' = pc => pc' = [pc EXCEPT ![w] = "next"]
      BY <1>1, <1>2
    <3> QED BY <1>5, <3>1
  <2>5. \A v \in Workers : pc'[v] \in AtWork <=> pc[v] \in AtWork
    BY <1>1, <1>2, <2>4 DEF AtWork
  <2>6. HandsKept' /\ (Ends(w) => nextPair' = Total' /\ pending' = <<>>)
    BY <1>1, <1>2, <1>5, <2>1, <2>5, IdleTurn
  <2>7. step' \in [Workers -> KnownSteps]
    BY <1>2, <1>5
  <2>8. place = "done" => ctx' # "open" \/ (nextPair' = Total' /\ pending' = <<>>)
    BY <1>1, <2>4, <2>6
  <2> QED BY <1>3, <2>3, <2>4, <2>6, <2>7, <2>8
<1>6. \/ \E st \in Candidates : Gives(w, st) /\ Begins(w, st, "send")
      \/ /\ step' = step
         /\ \/ /\ pc' = [pc EXCEPT ![w] = "done"] /\ (Ends(w) \/ (ctx # "open" /\ GivesUp(w)))
            \/ pc' = pc /\ Waits(w)
  BY DEF Pulls, Goes, CtxDone
<1> QED BY <1>4, <1>5, <1>6

\* A worker of the open loop takes a step off the schedule, or ends.
LEMMA TakesStepKeeps ==
  ASSUME LoadInv, NEW w \in Workers, TakesStep(w), Driver("scheduler"), returned' = "no"
  PROVE  LoadInv'
<1>1. /\ pc[w] = "take"
      /\ UNCHANGED <<scenarioVars, ctx, hard, attempts, taken, resp, invalid, stopped, restored,
                     slots, due, emitting, producing, skipped>>
  BY DEF TakesStep, At, pacerVars
<1>2. ScenarioTypes' /\ config' = config /\ budgets' = budgets
  BY <1>1, ScenarioStays DEF LoadInv
<1>3. /\ pc \in [Workers -> Free \cup Between \cup {"next", "send", "done"}]
      /\ step \in [Workers -> KnownSteps] /\ queue \in Seq(KnownSteps)
      /\ Len(queue) <= QueueSize /\ QueueSize \in Nat
      /\ attempts[w] = 0 /\ taken[w] = 0 /\ pc[w] \notin AtWork
      /\ MaxAttempts \in Nat \ {0} /\ HandsKept
  BY <1>1, LoadAssumption, QueueAssumption DEF LoadInv, RunTypes, PaidAt, HandsKept, AtWork, Free
<1>4. /\ KnownSteps' = KnownSteps /\ Known' = Known /\ (Creates' <=> Creates)
      /\ \A d : Driver(d)' <=> Driver(d)
  BY <1>2, SameRun
<1>5. ~Driver("runner") /\ Creates
  <2>1. config \in Configs
    BY DEF LoadInv, ScenarioTypes
  <2> QED BY <2>1, ConfigFacts DEF Creates
<1>6. ASSUME NEW place \in {"pay", "done"}, pc' = [pc EXCEPT ![w] = place],
             step' \in [Workers -> KnownSteps], queue' \in Seq(KnownSteps),
             Len(queue') <= QueueSize, HandsKept'
      PROVE  LoadInv'
  <2>1. RunTypes'
    <3>1. pc' \in [Workers -> Free \cup Between \cup {"next", "send", "done"}]
      BY <1>3, <1>6 DEF Between
    <3> QED BY <1>1, <1>4, <1>5, <1>6, <3>1 DEF LoadInv, RunTypes
  <2>2. PaidAt(w)'
    BY <1>1, <1>3, <1>6 DEF PaidAt, Free, Between
  <2>3. (\A v \in Workers : PaidAt(v)') /\ EndInv' /\ InvalidBounded'
    BY <1>1, <1>2, <1>5, <1>6, <2>2, WorkerMoves
  <2> QED BY <1>2, <1>6, <2>1, <2>3 DEF LoadInv, HandsKept
<1>7. CASE queue # <<>> /\ queue' = Tail(queue) /\ Begins(w, Head(queue), "pay")
  <2>1. pc' = [pc EXCEPT ![w] = "pay"] /\ step' = [step EXCEPT ![w] = Head(queue)]
    BY <1>7 DEF Begins, Goes
  <2>2. /\ Head(queue) \in KnownSteps /\ queue' \in Seq(KnownSteps)
        /\ Len(queue') = Len(queue) - 1 /\ Len(queue) \in Nat
    BY <1>3, <1>7
  <2>3. step' \in [Workers -> KnownSteps] /\ Len(queue') <= QueueSize
    BY <1>3, <2>1, <2>2
  <2>4. Handed' = Handed /\ (OneHolder => OneHolder')
    BY <1>1, <1>3, <1>7, <2>1, HandedOver
  <2>5. PairsFit'
    BY <1>1, <1>3, <1>5, <2>4, FitsStay DEF HandsKept, scenarioVars
  <2>6. HandsKept'
    BY <1>3, <1>4, <1>5, <2>4, <2>5 DEF HandsKept
  <2> QED BY <1>6, <2>1, <2>2, <2>3, <2>6
<1>8. CASE Goes(w, "done") /\ UNCHANGED <<queue, step>>
  <2>1. pc' = [pc EXCEPT ![w] = "done"]
    BY <1>8 DEF Goes
  <2>2. \A v \in Workers : pc'[v] \in AtWork <=> pc[v] \in AtWork
    BY <1>3, <2>1 DEF AtWork
  <2>3. HandsKept'
    BY <1>1, <1>3, <1>8, <2>2, HandsStay DEF scenarioVars
  <2> QED BY <1>3, <1>6, <1>8, <2>1, <2>3
<1> QED BY <1>7, <1>8 DEF TakesStep

\* What is recorded as a restore, the scenario takes for one.
LEMMA VerdictRestores ==
  ASSUME NEW st, IsStep(st), NEW r \in Replies
  PROVE  (Verdict(st, r) = "restore") <=> (~st.isMask /\ IsValidSuccess(r) /\ r.right)
<1>1. st.isMask \in BOOLEAN
  BY DEF IsStep
<1>2. \/ \E b \in BOOLEAN : r = [status |-> 200, outcome |-> "ok", right |-> b]
      \/ \E s, o : r = Answer(s, o) /\ o \in {"invalid", "conflict", "overload", "error",
                                              "timeout", "canceled", "run_ended"}
  <2>1. r \in HttpAnswers \cup BrokenBodies \cup TransportErrors \cup {Canceled, RunEnded}
    BY LoadAssumption DEF Replies
  <2>2. CASE r \in HttpAnswers
    BY <2>2 DEF HttpAnswers
  <2>3. CASE r \in BrokenBodies
    BY <2>3 DEF BrokenBodies
  <2>4. CASE r \in TransportErrors \cup {Canceled, RunEnded}
    BY <2>4 DEF TransportErrors, Canceled, RunEnded
  <2> QED BY <2>1, <2>2, <2>3, <2>4
<1>3. ASSUME NEW b \in BOOLEAN, r = [status |-> 200, outcome |-> "ok", right |-> b]
      PROVE  (Verdict(st, r) = "restore") <=> (~st.isMask /\ IsValidSuccess(r) /\ r.right)
  <2>1. r.status = 200 /\ r.outcome = "ok" /\ r.right = b
    BY <1>3
  <2> QED BY <1>1, <2>1 DEF Verdict, IsValidSuccess
<1>4. ASSUME NEW s, NEW o, r = Answer(s, o),
             o \in {"invalid", "conflict", "overload", "error", "timeout", "canceled", "run_ended"}
      PROVE  (Verdict(st, r) = "restore") <=> (~st.isMask /\ IsValidSuccess(r) /\ r.right)
  <2>1. r.outcome = o /\ r.right = FALSE
    BY <1>4 DEF Answer
  <2> QED BY <1>1, <1>4, <2>1 DEF Verdict
<1> QED BY <1>2, <1>3, <1>4

\* A recorded restore of a prepared pair was one of those under way.
LEMMA FinishWithin ==
  ASSUME ScenarioTypes, ~Creates, BudgetsKept, restored \in [Known -> Nat],
         pc \in [Workers -> Free \cup Between \cup {"next", "send", "done"}],
         step \in [Workers -> KnownSteps],
         NEW w \in Workers, pc[w] \in AtWork, pc' = [pc EXCEPT ![w] = "check"], step' = step,
         config' = config, budgets' = budgets, NEW restores \in BOOLEAN,
         restores => ~step[w].isMask,
         restored' = IF restores THEN [restored EXCEPT ![step[w].pair] = @ + 1] ELSE restored
  PROVE  BudgetsKept'
<1> DEFINE st == step[w]
<1>1. /\ pc'[w] \notin AtWork
      /\ \A v \in Workers : v # w => pc'[v] = pc[v]
  BY DEF AtWork
<1>2. Known' = Known /\ Allowance' = Allowance /\ \A i : Left(i)' = Left(i)
  BY SameRun DEF Left
<1>3. budgets \in Seq(Int) /\ Total \in Nat /\ Allowance \in Nat
  BY ConfigFacts DEF ScenarioTypes, Allowance
<1>4. ~st.isMask => st.pair < 0
  BY DEF BudgetsKept
<1>5. st \in KnownSteps /\ IsStep(st)
  BY DEF KnownSteps, IsStep
<1>6. \A p \in Known : p >= 0 => restored'[p] = 0
  BY <1>4 DEF BudgetsKept, Known
<1>7. \A v \in Workers : pc'[v] \in AtWork /\ ~step'[v].isMask => step'[v].pair < 0
  BY <1>1 DEF BudgetsKept
<1>8. ASSUME NEW i \in DOMAIN budgets
      PROVE  restored'[-i] + Cardinality(Restoring(i)') + Left(i) <= Allowance
  <2>1. i \in 1 .. Len(budgets) /\ Len(budgets) \in Nat /\ budgets[i] \in Int
    BY <1>3
  <2>2. -i \in Known /\ restored[-i] \in Nat /\ Left(i) \in Nat
    BY <1>3, <2>1 DEF Known, Left
  <2>3. IsFiniteSet(Restoring(i)) /\ Cardinality(Restoring(i)) \in Nat
    BY ConfigAssumption, FS_Subset, FS_CardinalityType DEF Restoring
  <2>4. restored[-i] + Cardinality(Restoring(i)) + Left(i) <= Allowance
    BY DEF BudgetsKept
  <2>5. CASE st = RestoreStep(-i)
    <3>1. w \in Restoring(i) /\ Restoring(i)' = Restoring(i) \ {w}
      BY <1>1, <2>5 DEF Restoring
    <3>2. Cardinality(Restoring(i)') = Cardinality(Restoring(i)) - 1
      BY <2>3, <3>1, FS_RemoveElement
    <3>3. restored'[-i] = restored[-i] \/ restored'[-i] = restored[-i] + 1
      BY <2>2
    <3> QED BY <1>3, <2>2, <2>3, <2>4, <3>2, <3>3
  <2>6. CASE st # RestoreStep(-i)
    <3>1. Restoring(i)' = Restoring(i)
      BY <1>1, <2>6 DEF Restoring
    <3>2. restored'[-i] = restored[-i]
      <4>1. ~st.isMask => st.pair # -i
        BY <1>5, <2>6 DEF IsStep, RestoreStep
      <4> QED BY <2>2, <4>1
    <3> QED BY <2>4, <3>1, <3>2
  <2> QED BY <2>5, <2>6
<1> QED BY <1>2, <1>6, <1>7, <1>8 DEF BudgetsKept

\* A worker records its answer and completes its step.
LEMMA FinishKeeps ==
  ASSUME LoadInv, NEW w \in Workers, Finish(w), UNCHANGED scheduleVars, returned' = "no"
  PROVE  LoadInv'
<1> DEFINE st == step[w]
           restores == Verdict(st, resp[w]) = "restore"
<1>1. /\ pc[w] = "finish" /\ pc' = [pc EXCEPT ![w] = "check"]
      /\ restored' = IF restores THEN [restored EXCEPT ![st.pair] = @ + 1] ELSE restored
      /\ Complete(st, IsValidSuccess(resp[w]), resp[w].right)
      /\ UNCHANGED <<step, attempts, taken, resp, slots, due, emitting, ctx, hard, invalid, stopped,
                     queue, producing, skipped>>
  BY DEF Finish, At, Goes, pacerVars, scheduleVars
<1>2. /\ pc \in [Workers -> Free \cup Between \cup {"next", "send", "done"}]
      /\ step \in [Workers -> KnownSteps] /\ resp \in [Workers -> Replies]
      /\ restored \in [Known -> Nat] /\ ScenarioTypes /\ HandsKept /\ PaidAt(w)
      /\ pc[w] \in AtWork /\ pc[w] # "done"
  BY <1>1 DEF LoadInv, RunTypes, HandsKept, AtWork
<1>3. IsStep(st)
  BY <1>2 DEF KnownSteps, IsStep
<1>4. restores <=> (~st.isMask /\ IsValidSuccess(resp[w]) /\ resp[w].right)
  BY <1>2, <1>3, VerdictRestores
<1>5. Creates => st \in Handed /\ HandedFits(st)
  BY <1>2, HandedMembers DEF HandsKept, PairsFit
<1> HIDE DEF restores, st
<1>6. /\ ScenarioTypes' /\ config' = config /\ budgets' = budgets /\ nextPair' = nextPair
      /\ Creates => Completed(st, restores)
  <2>1. /\ ScenarioTypes' /\ config' = config /\ budgets' = budgets /\ nextPair' = nextPair
        /\ Creates => Completed(st, ~st.isMask /\ IsValidSuccess(resp[w]) /\ resp[w].right)
    BY <1>1, <1>2, <1>3, <1>5, CompleteTables
  <2> QED BY <1>4, <2>1 DEF Completed
<1>7. /\ KnownSteps' = KnownSteps /\ Known' = Known /\ (Creates' <=> Creates)
      /\ \A d : Driver(d)' <=> Driver(d)
  BY <1>6, SameRun
<1>8. RunTypes'
  <2>1. pc' \in [Workers -> Free \cup Between \cup {"next", "send", "done"}]
    BY <1>1, <1>2 DEF Between
  <2>2. restored' \in [Known -> Nat]
    <3>1. CASE restores /\ st.pair \in Known
      BY <1>1, <1>2, <3>1
    <3>2. CASE ~restores \/ st.pair \notin Known
      <4>1. restored' = restored
        BY <1>1, <1>2, <3>2
      <4> QED BY <1>2, <4>1
    <3> QED BY <3>1, <3>2
  <2> QED BY <1>1, <1>7, <2>1, <2>2 DEF LoadInv, RunTypes
<1>9. HandsKept'
  <2>1. restores \in BOOLEAN /\ (restores => ~st.isMask)
    BY <1>4 DEF restores
  <2>2. CASE Creates
    <3>1. OneHolder /\ PairsFit /\ Tables
      BY <1>2, <2>2, TablesHold DEF HandsKept
    <3>2. /\ Handed' = Handed \ {st} /\ OneHolder'
          /\ \A s \in Handed : s.pair = st.pair => s = st
      BY <1>1, <1>2, <3>1, HandedBack DEF st
    <3>3. \A p \in Pairs : restored[p] \in Nat
      <4>1. Total \in Nat /\ budgets = <<>>
        BY <1>2, <2>2, ConfigFacts DEF ScenarioTypes
      <4>2. Pairs \subseteq Known
        BY <4>1 DEF Pairs, Known
      <4> QED BY <1>2, <4>2
    <3>4. PairsFit'
      BY <1>1, <1>2, <1>3, <1>5, <1>6, <2>1, <2>2, <3>1, <3>2, <3>3, CompletionFits
    <3> QED BY <1>7, <2>2, <3>2, <3>4 DEF HandsKept
  <2>3. CASE ~Creates
    <3>1. BudgetsKept'
      BY <1>1, <1>2, <1>6, <2>1, <2>3, FinishWithin DEF HandsKept, st
    <3> QED BY <1>7, <2>3, <3>1 DEF HandsKept
  <2> QED BY <2>2, <2>3
<1>10. PaidAt(w)'
  BY <1>1, <1>2 DEF PaidAt, Free, Between
<1>11. (\A v \in Workers : PaidAt(v)') /\ EndInv' /\ InvalidBounded'
  BY <1>1, <1>2, <1>6, <1>10, WorkerMoves
<1> QED BY <1>6, <1>8, <1>9, <1>11 DEF LoadInv, HandsKept

\* The producer schedules a step, drops it, waits or ends.
LEMMA ProducesKeeps ==
  ASSUME LoadInv, Produces, returned' = "no"
  PROVE  LoadInv'
<1>1. /\ producing
      /\ UNCHANGED <<ctx, hard, pc, step, attempts, taken, resp, invalid, stopped, restored,
                     slots, due, emitting>>
  BY DEF Produces, runVars, operation, pacerVars
<1>2. /\ ~Driver("runner") /\ Creates /\ Producer \in Callers /\ HandsKept /\ ScenarioTypes
      /\ restored \in [Known -> Nat]
      /\ queue \in Seq(KnownSteps) /\ Len(queue) <= QueueSize /\ skipped \subseteq KnownSteps
      /\ QueueSize \in Nat
  <2>1. ~Driver("runner") /\ config \in Configs
    BY <1>1 DEF LoadInv, RunTypes, ScenarioTypes
  <2>2. Creates
    BY <2>1, ConfigFacts DEF Creates
  <2> QED BY <2>1, <2>2, ConfigAssumption, QueueAssumption DEF LoadInv, RunTypes, HandsKept
<1>3. ASSUME ScenarioTypes', config' = config, Known' = Known, HandsKept',
             queue' \in Seq(KnownSteps), Len(queue') <= QueueSize, skipped' \subseteq KnownSteps,
             producing' \in BOOLEAN
      PROVE  LoadInv'
  <2>1. KnownSteps' = KnownSteps /\ \A d : Driver(d)' <=> Driver(d)
    BY <1>3 DEF KnownSteps, Driver
  <2>2. RunTypes'
    BY <1>1, <1>2, <1>3, <2>1 DEF LoadInv, RunTypes
  <2>3. (\A w \in Workers : PaidAt(w)') /\ InvalidBounded'
    BY <1>1 DEF LoadInv, PaidAt, InvalidBounded, Gone
  <2>4. EndInv'
    BY <1>2, <2>1 DEF EndInv
  <2> QED BY <1>3, <2>2, <2>3, <2>4 DEF LoadInv, HandsKept
<1>4. ASSUME NEW st \in Candidates, Gives(Producer, st),
             IF Len(queue) < QueueSize
             THEN queue' = Append(queue, st) /\ UNCHANGED skipped
             ELSE skipped' = skipped \cup {st} /\ UNCHANGED queue,
             UNCHANGED producing
      PROVE  LoadInv'
  <2>1. IsStep(st)
    BY CandidatesAreSteps
  <2>2. ScenarioTypes' /\ config' = config /\ Known' = Known
    BY <1>2, <1>4, <2>1, TurnTypes
  <2>3. st \in KnownSteps
    BY <1>2, <1>4, <2>1, GivenKnown
  <2>4. /\ queue' \in Seq(KnownSteps) /\ Len(queue') <= QueueSize /\ skipped' \subseteq KnownSteps
    <3>1. CASE Len(queue) < QueueSize
      <4>1. queue' = Append(queue, st) /\ skipped' = skipped /\ Len(queue) \in Nat
        BY <1>2, <1>4, <3>1
      <4>2. queue' \in Seq(KnownSteps) /\ Len(queue') = Len(queue) + 1
        BY <1>2, <2>3, <4>1
      <4> QED BY <1>2, <3>1, <4>1, <4>2
    <3>2. CASE ~(Len(queue) < QueueSize)
      BY <1>2, <1>4, <2>3, <3>2
    <3> QED BY <3>1, <3>2
  <2>5. /\ Handed' = Handed \cup {st}
        /\ OneHolder /\ (\A s \in Handed : s.pair # st.pair) => OneHolder'
    <3>1. CASE queue' = Append(queue, st) /\ UNCHANGED skipped
      BY <1>1, <1>2, <2>3, <3>1, HandedToQueue
    <3>2. CASE skipped' = skipped \cup {st} /\ UNCHANGED queue
      BY <1>1, <3>2, HandedToNobody
    <3> QED BY <1>4, <3>1, <3>2
  <2>6. PairsFit' /\ \A s \in Handed : s.pair # st.pair
    BY <1>1, <1>2, <1>4, <2>1, <2>5, GivenFits
  <2>7. HandsKept'
    <3>1. Creates'
      BY <1>2, <2>2 DEF Creates
    <3> QED BY <1>2, <2>5, <2>6, <3>1 DEF HandsKept
  <2>8. producing' \in BOOLEAN
    BY <1>4 DEF LoadInv, RunTypes
  <2> QED BY <1>3, <2>2, <2>4, <2>7, <2>8
<1>5. ASSUME Ends(Producer) \/ Waits(Producer) \/ GivesUp(Producer),
             queue' = queue, skipped' = skipped, producing' \in BOOLEAN
      PROVE  LoadInv'
  <2>1. IsStep(MaskStep(0))
    BY DEF IsStep, MaskStep
  <2>2. ScenarioTypes' /\ config' = config /\ Known' = Known
    BY <1>2, <1>5, <2>1, TurnTypes
  <2>3. HandsKept'
    BY <1>1, <1>2, <1>5, IdleTurn
  <2> QED BY <1>2, <1>3, <1>5, <2>2, <2>3
<1>6. ASSUME UNCHANGED scenarioVars, queue' = queue, skipped' = skipped, producing' \in BOOLEAN
      PROVE  LoadInv'
  <2>1. ScenarioTypes' /\ config' = config /\ budgets' = budgets
    BY <1>2, <1>6, ScenarioStays
  <2>2. Known' = Known
    BY <2>1, SameRun
  <2>3. HandsKept'
    BY <1>1, <1>2, <1>6, HandsStay DEF scenarioVars
  <2> QED BY <1>2, <1>3, <1>6, <2>1, <2>2, <2>3
<1>7. /\ producing' \in BOOLEAN
      /\ \/ \E st \in Candidates :
              /\ Gives(Producer, st)
              /\ IF Len(queue) < QueueSize
                 THEN queue' = Append(queue, st) /\ UNCHANGED skipped
                 ELSE skipped' = skipped \cup {st} /\ UNCHANGED queue
              /\ UNCHANGED producing
         \/ /\ queue' = queue /\ skipped' = skipped
            /\ Ends(Producer) \/ Waits(Producer) \/ GivesUp(Producer) \/ UNCHANGED scenarioVars
  <2>1. producing \in BOOLEAN
    BY DEF LoadInv, RunTypes
  <2> QED BY <2>1 DEF Produces, scheduleVars
<1> QED BY <1>4, <1>5, <1>6, <1>7

\* Run returns, once.
LEMMA ReturnsKeeps ==
  ASSUME LoadInv, UNCHANGED <<scenarioVars, runVars, scheduleVars>>, Returns \/ UNCHANGED returned
  PROVE  LoadInv'
<1>1. UNCHANGED <<ctx, hard, pc, step, attempts, taken, resp, invalid, stopped, restored,
                  slots, due, emitting, queue, producing, skipped>>
  BY DEF runVars, operation, pacerVars, scheduleVars
<1>2. ScenarioTypes' /\ config' = config /\ budgets' = budgets
  BY ScenarioStays DEF LoadInv
<1>3. /\ KnownSteps' = KnownSteps /\ Known' = Known /\ Total' = Total
      /\ \A d : Driver(d)' <=> Driver(d)
  BY <1>2, SameRun
<1>4. RunTypes'
  BY <1>1, <1>3 DEF LoadInv, RunTypes
<1>5. HandsKept'
  BY <1>1, HandsStay DEF LoadInv, HandsKept, scenarioVars
<1>6. (\A w \in Workers : PaidAt(w)') /\ InvalidBounded' /\ Gone' = Gone
  BY <1>1 DEF LoadInv, PaidAt, InvalidBounded, Gone
<1>7. nextPair' = nextPair /\ pending' = pending
  BY DEF scenarioVars
<1>8. Returns /\ Driver("runner") /\ returned' = "exhausted"
        => ctx = "open" /\ ~stopped /\ Gone = Workers
  BY DEF Returns, RunnerReason, RunnerIsOver, At, Gone
<1>9. EndInv'
  BY <1>1, <1>2, <1>3, <1>6, <1>7, <1>8 DEF LoadInv, EndInv
<1> QED BY <1>2, <1>4, <1>5, <1>6, <1>9 DEF LoadInv, HandsKept

\* Every step of the run, whoever takes it.
LEMMA StepKeeps ==
  ASSUME LoadInv, [LoadNext]_loadVars
  PROVE  LoadInv'
<1>1. CASE Finished \/ UNCHANGED loadVars
  BY <1>1, ReturnsKeeps DEF Finished, loadVars
<1>2. CASE Returns
  BY <1>2, ReturnsKeeps DEF Returns
<1>3. CASE returned = "no" /\ \E w \in Workers : Worker(w) /\ UNCHANGED returned
  <2>1. PICK w \in Workers : Worker(w)
    BY <1>3
  <2>2. returned' = "no"
    BY <1>3
  <2>3. CASE Driver("runner") /\ RunnerWorker(w) /\ UNCHANGED scheduleVars
    <3>1. "slot" \in Free
      BY DEF Free
    <3> QED BY <2>2, <2>3, <3>1, AwaitsSlotKeeps, PullsKeeps, AttemptKeeps, FinishKeeps,
               CheckStopKeeps DEF RunnerWorker
  <2>4. CASE Driver("scheduler") /\ SchedulerWorker(w)
    <3>1. "take" \in Free
      BY DEF Free
    <3> QED BY <2>2, <2>4, <3>1, TakesStepKeeps, AttemptKeeps, FinishKeeps, CheckStopKeeps
          DEF SchedulerWorker, SendWithRetry, Records, CompatibilityCheck
  <2> QED BY <2>1, <2>3, <2>4 DEF Worker
<1>4. CASE returned = "no" /\ Produces /\ UNCHANGED returned
  BY <1>4, ProducesKeeps
<1>5. CASE returned = "no" /\ Environment /\ UNCHANGED <<scheduleVars, returned>>
  BY <1>5, EnvironmentKeeps
<1>6. CASE returned = "no" /\ DelayEnds /\ UNCHANGED <<runVars, scheduleVars, returned>>
  BY <1>6, DelayKeeps
<1> QED BY <1>1, <1>2, <1>3, <1>4, <1>5, <1>6 DEF LoadNext, LoadStep

----------------------------------------------------------------------------
(* The theorems *)

\* A run begins with nothing handed out.
LEMMA LoadInitHolds ==
  ASSUME LoadInit
  PROVE  LoadInv
<1>1. /\ config \in Configs /\ nextPair = 0 /\ pending = <<>> /\ inFlight = {} /\ delays = <<>>
      /\ data = [p \in Pairs |-> "none"] /\ retries = [p \in Pairs |-> 0]
      /\ budgets \in PreparedBudgets(config) /\ asleep = {} /\ signalled = {}
      /\ timer = [w \in Callers |-> NoTimer]
  BY DEF LoadInit, ScenarioInit
<1>2. /\ Total \in Nat /\ RestoreBudget \in Nat \ {0} /\ config.budget \in Int
      /\ config.workers \in Nat /\ 1 .. config.workers \subseteq Workers
      /\ Driver("runner") <=> ~Driver("scheduler")
  BY <1>1, ConfigFacts
<1>3. \E n \in Nat : budgets = [i \in 1 .. n |-> config.budget] /\ (Creates => n = 0)
  <2>1. CASE Creates
    <3>1. budgets = <<>>
      BY <1>1, <2>1 DEF PreparedBudgets, Creates
    <3>2. <<>> = [i \in 1 .. 0 |-> config.budget]
      OBVIOUS
    <3> QED BY <3>1, <3>2
  <2>2. CASE ~Creates
    <3>1. config.prepared \in Nat
      BY <1>1, ConfigAssumption DEF Configuration
    <3> QED BY <1>1, <2>2, <3>1 DEF PreparedBudgets, Creates
  <2> QED BY <2>1, <2>2
<1>4. /\ budgets \in Seq(Int) /\ (Creates => budgets = <<>>)
      /\ \A i \in DOMAIN budgets : budgets[i] = config.budget
  BY <1>2, <1>3
<1>5. ScenarioTypes
  <2>1. TableTypes
    BY <1>1, <1>2 DEF TableTypes
  <2> QED BY <1>1, <1>4, <2>1 DEF ScenarioTypes
<1>6. /\ ctx = "open" /\ hard = FALSE /\ stopped = FALSE /\ invalid = 0 /\ returned = "no"
      /\ step = [w \in Workers |-> MaskStep(0)] /\ resp = [w \in Workers |-> RunEnded]
      /\ attempts = [w \in Workers |-> 0] /\ taken = [w \in Workers |-> 0]
      /\ restored = [p \in Known |-> 0]
      /\ slots = 0 /\ due = 0 /\ emitting = 0
      /\ queue = <<>> /\ skipped = {} /\ producing = Driver("scheduler")
      /\ pc = [w \in Workers |-> IF w > config.workers THEN "done"
                                 ELSE IF Driver("runner") THEN "slot" ELSE "take"]
  BY DEF LoadInit, RunInit, PacerInit, SchedulerInit, Known
<1>7. \A w \in Workers : pc[w] \in Free \cup {"done"}
  BY <1>6 DEF Free
<1>8. RunTypes
  <2>1. pc \in [Workers -> Free \cup Between \cup {"next", "send", "done"}]
    BY <1>6 DEF Free
  <2>2. MaskStep(0) \in KnownSteps /\ RunEnded \in Replies
    BY DEF MaskStep, KnownSteps, Replies
  <2>3. /\ SlotQueue \in Nat /\ MaxBurst \in Nat /\ Unit \in Nat \ {0} /\ QueueSize \in Nat
    BY LoadAssumption, QueueAssumption
  <2>4. producing \in BOOLEAN /\ (Driver("runner") => ~producing)
    BY <1>2, <1>6 DEF Driver
  <2>5. /\ step \in [Workers -> KnownSteps] /\ resp \in [Workers -> Replies]
        /\ attempts \in [Workers -> Nat] /\ taken \in [Workers -> Nat]
        /\ restored \in [Known -> Nat] /\ invalid \in Nat
    BY <1>6, <2>2
  <2>6. slots \in 0 .. SlotQueue /\ due \in 0 .. (Unit - 1) /\ emitting \in 0 .. MaxBurst
    BY <1>6, <2>3
  <2>7. queue \in Seq(KnownSteps) /\ Len(queue) <= QueueSize /\ skipped \subseteq KnownSteps
    BY <1>6, <2>3
  <2> QED BY <1>6, <2>1, <2>4, <2>5, <2>6, <2>7 DEF RunTypes
<1>9. \A w \in Workers : PaidAt(w)
  BY <1>6, <1>7 DEF PaidAt, Free, Between
<1>10. InvalidBounded
  <2>1. MaxInvalid \in Nat \ {0} /\ Cardinality(Gone) \in Nat
    BY LoadAssumption, ConfigAssumption, FS_Subset, FS_CardinalityType DEF Gone
  <2> QED BY <1>6, <2>1 DEF InvalidBounded
<1>11. (\A w \in Workers : pc[w] \notin AtWork) /\ Handed = {}
  <2>1. \A w \in Workers : pc[w] \notin AtWork
    BY <1>7 DEF AtWork, Free
  <2> QED BY <1>6, <2>1 DEF Handed, ToSet
<1>12. OneHolder
  BY <1>6, <1>11 DEF OneHolder
<1>13. PairsFit
  <2>1. ToSet(pending) = {} /\ IsInjective(pending)
    BY <1>1 DEF ToSet, IsInjective
  <2>2. \A p \in Known : restored[p] = 0
    BY <1>6
  <2>3. Pairs \subseteq Known
    BY <1>2, <1>4 DEF Pairs, Known
  <2>4. \A p \in Pairs : PairFits(p)
    BY <1>1, <2>1, <2>2, <2>3 DEF PairFits
  <2> QED BY <1>11, <2>1, <2>2, <2>4 DEF PairsFit
<1>14. BudgetsKept
  <2>1. Allowance \in Nat
    BY <1>2 DEF Allowance
  <2>2. ASSUME NEW i \in DOMAIN budgets
        PROVE  restored[-i] + Cardinality(Restoring(i)) + Left(i) <= Allowance
    <3>1. i \in 1 .. Len(budgets) /\ Len(budgets) \in Nat
      BY <1>4
    <3>2. -i \in Known
      BY <1>2, <3>1 DEF Known
    <3>3. Restoring(i) = {}
      BY <1>11 DEF Restoring
    <3>4. Left(i) = Allowance
      BY <1>4 DEF Left, Allowance
    <3> QED BY <1>6, <2>1, <3>2, <3>3, <3>4, FS_EmptySet
  <2>3. \A p \in Known : restored[p] = 0
    BY <1>6
  <2> QED BY <1>11, <2>2, <2>3 DEF BudgetsKept
<1>15. EndInv
  <2>1. config.workers > 0 /\ Driver("runner") => Gone # Workers
    <3>1. config.workers > 0 => 1 \in Workers /\ ~(1 > config.workers)
      BY <1>2
    <3> QED BY <1>6, <3>1 DEF Gone
  <2> QED BY <1>6, <2>1 DEF EndInv
<1> QED BY <1>5, <1>8, <1>9, <1>10, <1>12, <1>13, <1>14, <1>15 DEF LoadInv

\* The invariant is inductive: it holds in every reachable state of a run, of either
\* driver, whatever the interleaving of its goroutines.
THEOREM LoadInvHolds == LoadSpec => []LoadInv
<1>1. LoadInit => LoadInv
  BY LoadInitHolds
<1>2. LoadInv /\ [LoadNext]_loadVars => LoadInv'
  BY StepKeeps
<1> QED BY <1>1, <1>2, PTL DEF LoadSpec

\* Every variable keeps its type: the queues their limits, the pacer's accrual
\* less than a slot, the operations their attempts, and the count of invalid
\* answers the threshold and the workers that were still at work.
THEOREM LoadTypesHold == LoadSpec => []LoadTypes
<1>1. ASSUME LoadInv PROVE LoadTypes
  <2>1. ScenarioTypes /\ RunTypes /\ (\A w \in Workers : PaidAt(w)) /\ InvalidBounded
    BY <1>1 DEF LoadInv
  <2>2. Steps = KnownSteps
    BY <2>1 DEF Steps, KnownSteps, RunTypes
  <2>3. ASSUME NEW w \in Workers
        PROVE  attempts[w] \in 0 .. MaxAttempts /\ taken[w] \in 0 .. MaxAttempts
    <3>1. MaxAttempts \in Nat \ {0} /\ attempts[w] \in Nat /\ taken[w] \in Nat
          /\ pc[w] \in Free \cup Between \cup {"next", "send", "done"} /\ PaidAt(w)
      BY <2>1, LoadAssumption DEF RunTypes
    <3> QED BY <3>1 DEF PaidAt, Free, Between
  <2>4. invalid \in 0 .. (MaxInvalid + Cardinality(Workers) - 1)
    <3>1. Gone \subseteq Workers
      BY DEF Gone
    <3>2. /\ Cardinality(Gone) \in Nat /\ Cardinality(Workers) \in Nat
          /\ Cardinality(Gone) <= Cardinality(Workers)
      BY <3>1, ConfigAssumption, FS_Subset, FS_CardinalityType
    <3>3. invalid \in Nat /\ MaxInvalid \in Nat /\ invalid < MaxInvalid + Cardinality(Gone)
      BY <2>1, LoadAssumption DEF RunTypes, InvalidBounded
    <3> QED BY <3>2, <3>3
  <2>5. pc \in [Workers -> {"slot", "next", "take", "send", "backoff", "pay", "finish", "check", "done"}]
    BY <2>1 DEF RunTypes, Free, Between
  <2>6. \A w \in Workers : step[w] \in Steps
    BY <2>1, <2>2 DEF RunTypes
  <2>7. resp \in [Workers -> Answers \cup BrokenBodies \cup {Canceled, RunEnded}]
    BY <2>1 DEF RunTypes, Replies
  <2> QED BY <2>1, <2>2, <2>3, <2>4, <2>5, <2>6, <2>7
          DEF LoadTypes, ScenarioTypes, TableTypes, RunTypes
<1> QED BY <1>1, LoadInvHolds, PTL

\* A set without two members.
LEMMA AtMostOne ==
  ASSUME NEW S, \A x, y \in S : x = y
  PROVE  Cardinality(S) = IF S = {} THEN 0 ELSE 1
<1>1. CASE S = {}
  BY <1>1, FS_EmptySet
<1>2. CASE S # {}
  <2>1. PICK x \in S : S = {x}
    BY <1>2
  <2> QED BY <2>1, FS_Singleton
<1> QED BY <1>1, <1>2

\* A pair the scenario knows is in one place: two workers never have it, a step
\* is not both scheduled and dropped, what is kept of it has somebody who will
\* complete it, and its restore counts as in flight as long as its step lives.
THEOREM PairsAccountedHolds == LoadSpec => []PairsAccounted
<1>1. ASSUME LoadInv, Creates, NEW p \in Pairs
      PROVE  /\ Places(p) <= 1
             /\ data[p] # "none" => Places(p) = 1
             /\ p \in inFlight <=> \/ \E w \in Workers : Holds(w, RestoreStep(p))
                                   \/ RestoreStep(p) \in ToSet(queue) \cup skipped
  <2> DEFINE A == {w \in Workers : \E st \in {MaskStep(p), RestoreStep(p)} : Holds(w, st)}
             B == {i \in DOMAIN queue : queue[i].pair = p}
             C == {st \in skipped : st.pair = p}
             D == {i \in DOMAIN pending : pending[i] = p /\ p \notin inFlight}
  <2>1. OneHolder /\ PairsFit /\ PairFits(p)
    BY <1>1 DEF LoadInv, PairsFit
  <2>2. A = {w \in Workers : pc[w] \in AtWork /\ step[w].pair = p}
    <3>1. \A w \in Workers : IsStep(step[w])
      BY <1>1 DEF LoadInv, RunTypes, KnownSteps, IsStep
    <3>2. ASSUME NEW w \in Workers
          PROVE  step[w] \in {MaskStep(p), RestoreStep(p)} <=> step[w].pair = p
      <4>1. MaskStep(p).pair = p /\ RestoreStep(p).pair = p
        BY DEF MaskStep, RestoreStep
      <4>2. step[w] = MaskStep(step[w].pair) \/ step[w] = RestoreStep(step[w].pair)
        BY <3>1 DEF IsStep, MaskStep, RestoreStep
      <4> QED BY <4>1, <4>2
    <3> QED BY <3>2 DEF Holds, AtWork
  <2> HIDE DEF A
  <2>3. A # {} \/ B # {} \/ C # {} <=> \E st \in Handed : st.pair = p
    <3>1. ASSUME NEW st \in Handed, st.pair = p PROVE A # {} \/ B # {} \/ C # {}
      BY <2>2, <3>1, HandedMembers
    <3>2. ASSUME A # {} \/ B # {} \/ C # {} PROVE \E st \in Handed : st.pair = p
      BY <2>2, <3>2, HandedMembers
    <3> QED BY <3>1, <3>2
  <2>4. (\A x, y \in A : x = y) /\ (\A x, y \in B : x = y) /\ (\A x, y \in C : x = y)
    BY <2>1, <2>2 DEF OneHolder
  <2>5. \A x, y \in D : x = y
    BY <2>1 DEF PairsFit, IsInjective
  <2>6. /\ A # {} => B = {} /\ C = {}
        /\ B # {} => C = {}
    BY <2>1, <2>2 DEF OneHolder
  <2>7. A # {} \/ B # {} \/ C # {} => D = {}
    <3>1. ASSUME NEW st \in Handed, st.pair = p PROVE p \in inFlight \/ p \notin ToSet(pending)
      BY <2>1, <3>1 DEF PairsFit, HandedFits
    <3> QED BY <2>3, <3>1 DEF ToSet
  <2>8. data[p] # "none" => A # {} \/ B # {} \/ C # {} \/ D # {}
    <3>1. ASSUME data[p] # "none", p \in ToSet(pending), p \notin inFlight PROVE D # {}
      BY <3>1 DEF ToSet
    <3>2. p \in inFlight => \E st \in Handed : st.pair = p
      BY <2>1 DEF PairFits, RestoreStep
    <3> QED BY <2>1, <2>3, <3>1, <3>2 DEF PairFits
  <2>9. Places(p) = Cardinality(A) + Cardinality(B) + Cardinality(C) + Cardinality(D)
    BY DEF Places, A
  <2>10. /\ Cardinality(A) = IF A = {} THEN 0 ELSE 1
         /\ Cardinality(B) = IF B = {} THEN 0 ELSE 1
         /\ Cardinality(C) = IF C = {} THEN 0 ELSE 1
         /\ Cardinality(D) = IF D = {} THEN 0 ELSE 1
    <3> HIDE DEF B, C, D
    <3> QED BY <2>4, <2>5, AtMostOne
  <2> HIDE DEF B, C, D
  <2>11. Places(p) <= 1 /\ (data[p] # "none" => Places(p) = 1)
    BY <2>6, <2>7, <2>8, <2>9, <2>10
  <2>12. p \in inFlight <=> RestoreStep(p) \in Handed
    BY <2>1 DEF PairsFit, PairFits, HandedFits, RestoreStep
  <2>13. RestoreStep(p) \in Handed <=> \/ \E w \in Workers : Holds(w, RestoreStep(p))
                                       \/ RestoreStep(p) \in ToSet(queue) \cup skipped
    BY DEF Handed, Holds, AtWork
  <2> QED BY <2>11, <2>12, <2>13
<1>2. LoadInv => PairsAccounted
  BY <1>1 DEF PairsAccounted, Creates
<1> QED BY <1>2, LoadInvHolds, PTL

\* Every request, retries too, is paid for with a slot of its own operation.
THEOREM SendsArePacedHolds == LoadSpec => []SendsArePaced
<1>1. LoadInv => SendsArePaced
  BY DEF LoadInv, RunTypes, PaidAt, SendsArePaced, InOperation, At, Between
<1> QED BY <1>1, LoadInvHolds, PTL

\* No pair is restored twice, and a prepared pair only within its budget,
\* whatever the workers have under way.
THEOREM RestoredOnceHolds == LoadSpec => []RestoredOnce
<1>1. ASSUME LoadInv, NEW p \in DOMAIN restored
      PROVE  restored[p] <= IF p \in Pairs THEN 1 ELSE Allowance
  <2>1. /\ config \in Configs /\ restored \in [Known -> Nat] /\ budgets \in Seq(Int)
    BY <1>1 DEF LoadInv, ScenarioTypes, RunTypes
  <2>2. p \in Known /\ Allowance \in Nat /\ Total \in Nat /\ restored[p] \in Nat
    BY <2>1, ConfigFacts DEF Allowance
  <2>3. CASE Creates
    <3>1. PairsFit
      BY <1>1, <2>3 DEF LoadInv
    <3>2. CASE p \in Pairs
      BY <2>2, <3>1, <3>2 DEF PairsFit, PairFits
    <3>3. CASE p \notin Pairs
      BY <2>2, <3>1, <3>3 DEF PairsFit
    <3> QED BY <3>2, <3>3
  <2>4. CASE ~Creates
    <3>1. BudgetsKept
      BY <1>1, <2>4 DEF LoadInv
    <3>2. CASE p >= 0
      BY <2>2, <3>1, <3>2 DEF BudgetsKept
    <3>3. CASE ~(p >= 0)
      <4>1. p \in Int /\ -p \in DOMAIN budgets /\ -(-p) = p /\ p \notin Pairs
        BY <2>1, <2>2, <3>3 DEF Known, Pairs
      <4>2. restored[p] + Cardinality(Restoring(-p)) + Left(-p) <= Allowance
        BY <3>1, <4>1 DEF BudgetsKept
      <4>3. Cardinality(Restoring(-p)) \in Nat
        BY ConfigAssumption, FS_Subset, FS_CardinalityType DEF Restoring
      <4>4. Left(-p) \in Nat
        <5>1. budgets[-p] \in Int
          BY <2>1, <4>1
        <5> QED BY <5>1 DEF Left
      <4> QED BY <2>2, <4>1, <4>2, <4>3, <4>4
    <3> QED BY <3>2, <3>3
  <2> QED BY <2>3, <2>4
<1>2. LoadInv => RestoredOnce
  BY <1>1 DEF RestoredOnce, Allowance
<1> QED BY <1>2, LoadInvHolds, PTL

\* The closed loop that reports exhaustion has created every pair and has left
\* none behind, however the last workers interleaved.
THEOREM ExhaustedMeansDoneHolds == LoadSpec => []ExhaustedMeansDone
<1>1. ASSUME LoadInv, returned = "exhausted", Driver("runner"), config.workers > 0
      PROVE  nextPair = Total /\ pending = <<>> /\ \A p \in Pairs : data[p] = "none"
  <2>1. nextPair = Total /\ pending = <<>> /\ Gone = Workers
    BY <1>1 DEF LoadInv, EndInv
  <2>2. ToSet(pending) = {} /\ queue = <<>> /\ skipped = {}
    BY <1>1, <2>1 DEF LoadInv, RunTypes, ToSet
  <2>3. Handed = {}
    BY <2>1, <2>2 DEF Handed, Gone, AtWork, ToSet
  <2>4. CASE Creates
    BY <1>1, <2>1, <2>2, <2>3, <2>4 DEF LoadInv, PairsFit, PairFits
  <2>5. CASE ~Creates
    BY <1>1, <2>1, <2>5 DEF LoadInv, ScenarioTypes
  <2> QED BY <2>4, <2>5
<1>2. LoadInv => ExhaustedMeansDone
  BY <1>1 DEF ExhaustedMeansDone
<1> QED BY <1>2, LoadInvHolds, PTL
=============================================================================
