----------------------------- MODULE Data_proofs -----------------------------
(***************************************************************************)
(* Lemmas about finite data: sums over sets (Totals), induction up to a     *)
(* number, functions defined by recursion, and sorting (Sorting).          *)
(***************************************************************************)
EXTENDS Totals, Sorting, TLAPS, FunctionTheorems, FiniteSetTheorems, WellFoundedInduction

----------------------------------------------------------------------------
(* Sums *)

\* A finite set has finitely many cells.
LEMMA CellsFinite ==
  ASSUME NEW K, IsFiniteSet(K), NEW f, \A k \in K : f[k] \in Nat
  PROVE  IsFiniteSet(Cells(K, f))
<1> DEFINE Row(k) == {k} \X (1..f[k])
           Rows == {Row(k) : k \in K}
           rowOf == [k \in K |-> Row(k)]
<1>1. rowOf \in Surjection(K, Rows)
  BY DEF Surjection
<1>2. IsFiniteSet(Rows)
  <2> HIDE DEF Rows, rowOf
  <2> QED BY <1>1, FS_Surjection
<1>3. \A R \in Rows : IsFiniteSet(R)
  <2> SUFFICES ASSUME NEW k \in K PROVE IsFiniteSet(Row(k))
    OBVIOUS
  <2>1. IsFiniteSet({k})
    BY FS_Singleton
  <2>2. IsFiniteSet(1..f[k])
    BY FS_Interval
  <2> QED BY <2>1, <2>2, FS_Product
<1>4. IsFiniteSet(UNION Rows)
  <2> HIDE DEF Rows
  <2> QED BY <1>2, <1>3, FS_UNION
<1> QED BY <1>4 DEF Cells

\* A total is a natural number.
LEMMA TotalType ==
  ASSUME NEW K, IsFiniteSet(K), NEW f, \A k \in K : f[k] \in Nat
  PROVE  Total(K, f) \in Nat
BY CellsFinite, FS_CardinalityType DEF Total

\* The total over no members is 0.
LEMMA TotalEmpty ==
  ASSUME NEW f
  PROVE  Total({}, f) = 0
<1>1. Cells({}, f) = {}
  BY DEF Cells
<1> QED BY <1>1, FS_EmptySet DEF Total

\* The total over one member is its value.
LEMMA TotalOne ==
  ASSUME NEW k, NEW f, f[k] \in Nat
  PROVE  Total({k}, f) = f[k]
<1>1. Cells({k}, f) = {k} \X (1..f[k])
  BY DEF Cells
<1>2. IsFiniteSet({k}) /\ Cardinality({k}) = 1
  BY FS_Singleton
<1>3. IsFiniteSet(1..f[k]) /\ Cardinality(1..f[k]) = f[k]
  BY FS_Interval
<1>4. Cardinality({k} \X (1..f[k])) = Cardinality({k}) * Cardinality(1..f[k])
  <2> DEFINE S == {k}
             T == 1..f[k]
  <2>1. IsFiniteSet(S) /\ IsFiniteSet(T)
    BY <1>2, <1>3
  <2> HIDE DEF S, T
  <2>2. Cardinality(S \X T) = Cardinality(S) * Cardinality(T)
    BY <2>1, FS_Product
  <2> QED BY <2>2 DEF S, T
<1>5. Total({k}, f) = Cardinality({k}) * Cardinality(1..f[k])
  BY <1>1, <1>4 DEF Total
<1> QED BY <1>2, <1>3, <1>5

\* The total over a disjoint union is the sum of the totals.
LEMMA TotalUnion ==
  ASSUME NEW K, IsFiniteSet(K), NEW L, IsFiniteSet(L), K \cap L = {},
         NEW f, \A k \in K \cup L : f[k] \in Nat
  PROVE  Total(K \cup L, f) = Total(K, f) + Total(L, f)
<1>1. Cells(K \cup L, f) = Cells(K, f) \cup Cells(L, f)
  BY DEF Cells
<1>2. Cells(K, f) \cap Cells(L, f) = {}
  BY DEF Cells
<1>3. IsFiniteSet(Cells(K, f)) /\ IsFiniteSet(Cells(L, f))
  BY CellsFinite
<1>4. Cardinality(Cells(K, f) \cup Cells(L, f))
        = Cardinality(Cells(K, f)) + Cardinality(Cells(L, f))
            - Cardinality(Cells(K, f) \cap Cells(L, f))
  BY <1>3, FS_Union
<1>5. Cardinality(Cells(K, f)) \in Nat /\ Cardinality(Cells(L, f)) \in Nat
  BY <1>3, FS_CardinalityType
<1>6. Cardinality(Cells(K, f) \cap Cells(L, f)) = 0
  <2>1. Cardinality({}) = 0
    BY FS_EmptySet
  <2> HIDE DEF Cells
  <2> QED BY <1>2, <2>1
<1>7. Cardinality(Cells(K, f) \cup Cells(L, f))
        = Cardinality(Cells(K, f)) + Cardinality(Cells(L, f))
  <2> HIDE DEF Cells
  <2> QED BY <1>4, <1>5, <1>6
<1> QED BY <1>1, <1>7 DEF Total

\* Taking members out subtracts what they contributed.
LEMMA TotalDifference ==
  ASSUME NEW K, IsFiniteSet(K), NEW L, L \subseteq K,
         NEW f, \A k \in K : f[k] \in Nat
  PROVE  /\ Total(K \ L, f) = Total(K, f) - Total(L, f)
         /\ Total(L, f) \in Nat
         /\ Total(K \ L, f) \in Nat
<1>1. IsFiniteSet(L) /\ IsFiniteSet(K \ L)
  BY FS_Subset
<1>2. Total((K \ L) \cup L, f) = Total(K \ L, f) + Total(L, f)
  BY <1>1, TotalUnion
<1>3. (K \ L) \cup L = K
  OBVIOUS
<1>4. Total(L, f) \in Nat /\ Total(K \ L, f) \in Nat
  BY <1>1, TotalType
<1>5. Total(K, f) = Total(K \ L, f) + Total(L, f)
  BY <1>2, <1>3
<1> QED BY <1>4, <1>5

\* A new member adds its value.
LEMMA TotalAdd ==
  ASSUME NEW K, IsFiniteSet(K), NEW k, k \notin K,
         NEW f, \A j \in K \cup {k} : f[j] \in Nat
  PROVE  /\ Total(K \cup {k}, f) = Total(K, f) + f[k]
         /\ Total(K, f) \in Nat
<1>1. IsFiniteSet({k})
  BY FS_Singleton
<1>2. Total(K \cup {k}, f) = Total(K, f) + Total({k}, f)
  BY <1>1, TotalUnion
<1>3. f[k] \in Nat /\ Total({k}, f) = f[k]
  BY TotalOne
<1>4. Total(K, f) \in Nat
  BY TotalType
<1> QED BY <1>2, <1>3, <1>4

\* A removed member takes its value with it.
LEMMA TotalRemove ==
  ASSUME NEW K, IsFiniteSet(K), NEW k \in K,
         NEW f, \A j \in K : f[j] \in Nat
  PROVE  /\ Total(K \ {k}, f) = Total(K, f) - f[k]
         /\ Total(K, f) \in Nat
<1>1. Total(K \ {k}, f) = Total(K, f) - Total({k}, f)
  BY TotalDifference
<1>2. f[k] \in Nat /\ Total({k}, f) = f[k]
  BY TotalOne
<1>3. Total(K, f) \in Nat
  BY TotalType
<1> QED BY <1>1, <1>2, <1>3

\* The total depends only on the values of the members.
LEMMA TotalSame ==
  ASSUME NEW K, NEW f, NEW g, \A k \in K : f[k] = g[k]
  PROVE  Total(K, f) = Total(K, g)
<1>1. Cells(K, f) = Cells(K, g)
  BY DEF Cells
<1> QED BY <1>1 DEF Total

\* A total follows the value of the one member that changes.
LEMMA TotalUpdate ==
  ASSUME NEW K, IsFiniteSet(K), NEW k \in K,
         NEW f, \A j \in K : f[j] \in Nat,
         NEW g, \A j \in K : g[j] \in Nat,
         \A j \in K \ {k} : f[j] = g[j]
  PROVE  Total(K, g) = Total(K, f) - f[k] + g[k]
<1>1. Total(K \ {k}, f) = Total(K, f) - f[k] /\ Total(K, f) \in Nat
  BY TotalRemove
<1>2. Total(K \ {k}, g) = Total(K, g) - g[k] /\ Total(K, g) \in Nat
  BY TotalRemove
<1>3. Total(K \ {k}, f) = Total(K \ {k}, g)
  BY TotalSame
<1> QED BY <1>1, <1>2, <1>3

\* Gains and losses are natural numbers, and each value is their difference.
LEMMA GainsLosses ==
  ASSUME NEW K, NEW f, \A k \in K : f[k] \in Int
  PROVE  \A k \in K : /\ Gains(K, f)[k] \in Nat
                      /\ Losses(K, f)[k] \in Nat
                      /\ f[k] = Gains(K, f)[k] - Losses(K, f)[k]
BY DEF Gains, Losses

\* A balance is an integer.
LEMMA BalanceType ==
  ASSUME NEW K, IsFiniteSet(K), NEW f, \A k \in K : f[k] \in Int
  PROVE  Balance(K, f) \in Int
<1>1. Total(K, Gains(K, f)) \in Nat /\ Total(K, Losses(K, f)) \in Nat
  BY GainsLosses, TotalType
<1> QED BY <1>1 DEF Balance

\* Where nothing is gained or lost the balance is 0.
LEMMA BalanceZero ==
  ASSUME NEW K, IsFiniteSet(K), NEW f, \A k \in K : f[k] = 0
  PROVE  Balance(K, f) = 0
<1>1. \A k \in K : Gains(K, f)[k] = Losses(K, f)[k]
  BY DEF Gains, Losses
<1>2. Total(K, Gains(K, f)) = Total(K, Losses(K, f))
  BY <1>1, TotalSame
<1>3. Total(K, Gains(K, f)) \in Nat
  BY GainsLosses, TotalType
<1> QED BY <1>2, <1>3 DEF Balance

\* A balance follows the value of the one member that changes.
LEMMA BalanceUpdate ==
  ASSUME NEW K, IsFiniteSet(K), NEW k \in K,
         NEW f, \A j \in K : f[j] \in Int,
         NEW g, \A j \in K : g[j] \in Int,
         \A j \in K \ {k} : f[j] = g[j]
  PROVE  Balance(K, g) = Balance(K, f) - f[k] + g[k]
<1>1. /\ \A j \in K : Gains(K, f)[j] \in Nat /\ Losses(K, f)[j] \in Nat
      /\ \A j \in K : Gains(K, g)[j] \in Nat /\ Losses(K, g)[j] \in Nat
      /\ f[k] = Gains(K, f)[k] - Losses(K, f)[k]
      /\ g[k] = Gains(K, g)[k] - Losses(K, g)[k]
  BY GainsLosses
<1>2. \A j \in K \ {k} : Gains(K, f)[j] = Gains(K, g)[j] /\ Losses(K, f)[j] = Losses(K, g)[j]
  BY DEF Gains, Losses
<1>3. Total(K, Gains(K, g)) = Total(K, Gains(K, f)) - Gains(K, f)[k] + Gains(K, g)[k]
  BY <1>1, <1>2, TotalUpdate
<1>4. Total(K, Losses(K, g)) = Total(K, Losses(K, f)) - Losses(K, f)[k] + Losses(K, g)[k]
  BY <1>1, <1>2, TotalUpdate
<1>5. /\ Total(K, Gains(K, f)) \in Nat /\ Total(K, Losses(K, f)) \in Nat
      /\ Total(K, Gains(K, g)) \in Nat /\ Total(K, Losses(K, g)) \in Nat
  BY <1>1, TotalType
<1> QED BY <1>1, <1>3, <1>4, <1>5 DEF Balance

----------------------------------------------------------------------------
(* Induction *)

\* A set of numbers that is not empty has a least member.
LEMMA LeastNumber ==
  ASSUME NEW I, I \subseteq Nat, I # {}
  PROVE  \E x \in I : \A y \in I : x <= y
<1> DEFINE Less == {ss \in Nat \X Nat : ss[1] < ss[2]}
<1>1. IsWellFoundedOn(Less, Nat)
  BY NatLessThanWellFounded DEF OpToRel
<1>2. PICK x \in I : \A y \in I : <<y, x>> \notin Less
  <2> HIDE DEF Less
  <2> QED BY <1>1, WFMin
<1>3. ASSUME NEW y \in I PROVE x <= y
  <2>1. x \in Nat /\ y \in Nat /\ <<y, x>>[1] = y /\ <<y, x>>[2] = x
    OBVIOUS
  <2>2. y < x => <<y, x>> \in Less
    BY <2>1
  <2> QED BY <1>2, <2>1, <2>2
<1> QED BY <1>3

\* What holds of 0 and is passed on from each number to the next holds up to N.
LEMMA Induct ==
  ASSUME NEW N \in Nat, NEW I, I \subseteq 0 .. N, 0 \in I,
         \A n \in I : n < N => n + 1 \in I
  PROVE  I = 0 .. N
<1> DEFINE J == (0 .. N) \ I
<1>1. ASSUME J # {} PROVE FALSE
  <2>1. PICK j \in J : \A y \in J : j <= y
    <3>1. J \subseteq Nat
      OBVIOUS
    <3> HIDE DEF J
    <3> QED BY <1>1, <3>1, LeastNumber
  <2>2. j \in 1 .. N /\ j - 1 \in 0 .. N /\ ~(j <= j - 1)
    BY <2>1
  <2>3. j - 1 \in I
    BY <2>1, <2>2
  <2>4. j \in I
    BY <2>2, <2>3
  <2> QED BY <2>1, <2>4
<1> QED BY <1>1

\* The members of a finite set, counted kind by kind.
LEMMA TotalCount ==
  ASSUME NEW D, IsFiniteSet(D), NEW K, IsFiniteSet(K), NEW kind \in [D -> K], NEW f,
         \A k \in K : f[k] = Cardinality({x \in D : kind[x] = k})
  PROVE  Total(K, f) = Cardinality(D)
<1> DEFINE Of(L) == {x \in D : kind[x] \in L}
           Right(n) == \A L \in SUBSET K : Cardinality(L) = n => Total(L, f) = Cardinality(Of(L))
           N == Cardinality(K)
           I == {n \in 0 .. N : Right(n)}
<1>1. \A L \in SUBSET K : IsFiniteSet(L) /\ IsFiniteSet(Of(L)) /\ Cardinality(Of(L)) \in Nat
  <2> SUFFICES ASSUME NEW L \in SUBSET K
               PROVE  IsFiniteSet(L) /\ IsFiniteSet(Of(L)) /\ Cardinality(Of(L)) \in Nat
    OBVIOUS
  <2>1. Of(L) \in SUBSET D
    OBVIOUS
  <2> HIDE DEF Of
  <2> QED BY <2>1, FS_Subset, FS_CardinalityType
<1>2. \A k \in K : f[k] = Cardinality(Of({k})) /\ f[k] \in Nat
  <2> SUFFICES ASSUME NEW k \in K PROVE f[k] = Cardinality(Of({k})) /\ f[k] \in Nat
    OBVIOUS
  <2>1. Of({k}) = {x \in D : kind[x] = k}
    OBVIOUS
  <2>2. {k} \in SUBSET K
    OBVIOUS
  <2> HIDE DEF Of
  <2> QED BY <1>1, <2>1, <2>2
<1>3. N \in Nat
  BY FS_CardinalityType
<1>4. 0 \in I
  <2>1. ASSUME NEW L \in SUBSET K, Cardinality(L) = 0 PROVE Total(L, f) = Cardinality(Of(L))
    <3>1. L = {}
      BY <1>1, <2>1, FS_EmptySet
    <3>2. Of({}) = {}
      OBVIOUS
    <3> HIDE DEF Of
    <3> QED BY <3>1, <3>2, FS_EmptySet, TotalEmpty
  <2> HIDE DEF Of
  <2> QED BY <1>3, <2>1
<1>5. ASSUME NEW n \in 0 .. N, Right(n), n < N PROVE Right(n + 1)
  <2>1. ASSUME NEW L \in SUBSET K, Cardinality(L) = n + 1
        PROVE  Total(L, f) = Cardinality(Of(L))
    <3>1. n \in Nat /\ IsFiniteSet(L)
      <4> HIDE DEF Of, Right
      <4> QED BY <1>1, <1>3
    <3>2. PICK k \in L : TRUE
      BY <2>1, <3>1, FS_EmptySet
    <3> DEFINE J == L \ {k}
    <3>3. Cardinality(J) = n
      <4>1. Cardinality(J) = Cardinality(L) - 1
        BY <3>1, <3>2, FS_RemoveElement
      <4> HIDE DEF J, Of, Right
      <4> QED BY <2>1, <3>1, <4>1
    <3>4. J \in SUBSET K /\ k \in K
      BY <3>2
    <3>5. Total(J, f) = Cardinality(Of(J))
      <4> HIDE DEF J, Of
      <4> QED BY <1>5, <3>3, <3>4
    <3>6. Total(J, f) = Total(L, f) - f[k] /\ Total(L, f) \in Nat
      <4>1. \A j \in L : f[j] \in Nat
        BY <1>2
      <4> HIDE DEF Of
      <4> QED BY <3>1, <3>2, <4>1, TotalRemove
    <3>7. Cardinality(Of(J)) = Cardinality(Of(L)) - Cardinality(Of({k}))
      <4>1. Of(J) = Of(L) \ Of({k}) /\ Of(L) \cap Of({k}) = Of({k})
        BY <3>2
      <4>2. IsFiniteSet(Of(L))
        BY <1>1
      <4> HIDE DEF Of, J, Right
      <4>3. Cardinality(Of(L) \ Of({k})) = Cardinality(Of(L)) - Cardinality(Of(L) \cap Of({k}))
        BY <4>2, FS_Difference
      <4> QED BY <4>1, <4>3
    <3>8. f[k] = Cardinality(Of({k})) /\ f[k] \in Nat
      BY <1>2, <3>4
    <3>9. Cardinality(Of(L)) \in Nat
      BY <1>1
    <3>10. \A x, y, z \in Int : x - z = y - z => x = y
      OBVIOUS
    <3>11. Cardinality(Of(J)) = Cardinality(Of(L)) - f[k]
      BY <3>7, <3>8
    <3> HIDE DEF Of, J, Right
    <3>12. f[k] \in Int /\ Total(L, f) \in Int /\ Cardinality(Of(L)) \in Int
      BY <3>6, <3>8, <3>9
    <3> QED BY <3>5, <3>6, <3>10, <3>11, <3>12, Zenon
  <2> HIDE DEF Of
  <2> QED BY <2>1
<1>6. I = 0 .. N
  <2>1. I \subseteq 0 .. N
    OBVIOUS
  <2>2. ASSUME NEW n \in I, n < N PROVE n + 1 \in I
    <3>1. n \in 0 .. N /\ Right(n)
      OBVIOUS
    <3> HIDE DEF Right
    <3>2. Right(n + 1)
      BY <1>5, <2>2, <3>1
    <3>3. n + 1 \in 0 .. N
      BY <1>3, <2>2, <3>1
    <3> QED BY <3>2, <3>3
  <2> HIDE DEF I
  <2> QED BY <1>3, <1>4, <2>1, <2>2, Induct
<1>7. Right(N)
  <2>1. N \in I
    BY <1>3, <1>6
  <2> HIDE DEF Right
  <2> QED BY <2>1
<1>8. K \in SUBSET K /\ Of(K) = D
  OBVIOUS
<1> HIDE DEF Of
<1> QED BY <1>7, <1>8

\* f is base at 0 and steps from the value at prev[n] to the value at n.
Recurs(f, S, N, base, prev, step) ==
  /\ f \in [0 .. N -> S]
  /\ f[0] = base
  /\ \A n \in 1 .. N : f[n] = step[n][f[prev[n]]]

\* There is a function whose value at each number follows from its value at a
\* smaller one.
LEMMA Recursion ==
  ASSUME NEW S, NEW N \in Nat, NEW base \in S,
         NEW prev \in [1 .. N -> Nat], \A n \in 1 .. N : prev[n] < n,
         NEW step \in [1 .. N -> [S -> S]]
  PROVE  \E f : Recurs(f, S, N, base, prev, step)
<1> DEFINE Good(f, m) == f[0] = base /\ \A n \in 1 .. m : f[n] = step[n][f[prev[n]]]
           Built(m) == \E f \in [0 .. m -> S] : Good(f, m)
           I == {m \in 0 .. N : Built(m)}
<1>1. Built(0)
  <2>1. [n \in 0 .. 0 |-> base] \in [0 .. 0 -> S] /\ Good([n \in 0 .. 0 |-> base], 0)
    OBVIOUS
  <2> HIDE DEF Good
  <2> QED BY <2>1
<1>2. ASSUME NEW m \in 0 .. N, Built(m), m < N PROVE Built(m + 1)
  <2>1. PICK f \in [0 .. m -> S] : Good(f, m)
    BY <1>2
  <2> DEFINE g == [n \in 0 .. m + 1 |-> IF n = m + 1 THEN step[m + 1][f[prev[m + 1]]] ELSE f[n]]
  <2>2. m \in Nat /\ m + 1 \in 1 .. N /\ prev[m + 1] \in 0 .. m
    BY <1>2
  <2>3. f[prev[m + 1]] \in S /\ step[m + 1] \in [S -> S]
    BY <2>1, <2>2
  <2>4. step[m + 1][f[prev[m + 1]]] \in S
    BY <2>3
  <2>5. g \in [0 .. m + 1 -> S]
    <3>1. \A n \in 0 .. m + 1 : n # m + 1 => n \in 0 .. m
      BY <2>2
    <3> QED BY <2>1, <2>4, <3>1
  <2>6. g[0] = base
    BY <2>1, <2>2
  <2>7. ASSUME NEW n \in 1 .. m + 1 PROVE g[n] = step[n][g[prev[n]]]
    <3>1. prev[n] \in 0 .. m /\ g[prev[n]] = f[prev[n]]
      BY <2>2, <2>7
    <3>2. CASE n = m + 1
      BY <3>1, <3>2
    <3>3. CASE n # m + 1
      BY <2>1, <2>2, <3>1, <3>3
    <3> QED BY <3>2, <3>3
  <2>8. Good(g, m + 1)
    <3> HIDE DEF g
    <3> QED BY <2>6, <2>7
  <2> HIDE DEF g, Good
  <2> QED BY <2>5, <2>8
<1>3. Built(N)
  <2> HIDE DEF Built
  <2>1. I \subseteq 0 .. N /\ 0 \in I /\ \A n \in I : n < N => n + 1 \in I
    BY <1>1, <1>2
  <2>2. I = 0 .. N
    <3> HIDE DEF I
    <3> QED BY <2>1, Induct
  <2> QED BY <2>2
<1> QED BY <1>3 DEF Recurs

Iterates(f, S, N, base, step) ==
  /\ f \in [0 .. N -> S]
  /\ f[0] = base
  /\ \A n \in 1 .. N : f[n] = step[n][f[n - 1]]

\* The same from each number to the next.
LEMMA Iteration ==
  ASSUME NEW S, NEW N \in Nat, NEW base \in S, NEW step \in [1 .. N -> [S -> S]]
  PROVE  \E f : Iterates(f, S, N, base, step)
<1> DEFINE prev == [n \in 1 .. N |-> n - 1]
<1>1. prev \in [1 .. N -> Nat] /\ \A n \in 1 .. N : prev[n] = n - 1 /\ prev[n] < n
  OBVIOUS
<1>2. PICK f : Recurs(f, S, N, base, prev, step)
  <2> HIDE DEF prev
  <2> QED BY <1>1, Recursion
<1>3. \A n \in 1 .. N : f[n] = step[n][f[n - 1]]
  BY <1>1, <1>2 DEF Recurs
<1> QED BY <1>2, <1>3 DEF Recurs, Iterates

\* What each step keeps holds of every value.
LEMMA Iterated ==
  ASSUME NEW S, NEW N \in Nat, NEW g, g[0] \in S,
         \A n \in 1 .. N : g[n - 1] \in S => g[n] \in S
  PROVE  \A n \in 0 .. N : g[n] \in S
<1> DEFINE I == {n \in 0 .. N : g[n] \in S}
<1>1. ASSUME NEW n \in I, n < N PROVE n + 1 \in I
  <2>1. n + 1 \in 1 .. N /\ (n + 1) - 1 = n /\ g[n] \in S
    BY <1>1
  <2>2. g[n + 1] \in S
    BY <2>1
  <2> QED BY <2>1, <2>2
<1>2. I \subseteq 0 .. N /\ 0 \in I
  OBVIOUS
<1>3. I = 0 .. N
  <2> HIDE DEF I
  <2> QED BY <1>1, <1>2, Induct
<1> QED BY <1>3

----------------------------------------------------------------------------
(* Sorting *)

\* R orders any two members of S, one way only.
Orders(R, S) ==
  /\ \A a \in S : <<a, a>> \notin R
  /\ \A a, b \in S : a # b => <<a, b>> \in R \/ <<b, a>> \in R
  /\ \A a, b, c \in S : <<a, b>> \in R /\ <<b, c>> \in R => <<a, c>> \in R

InOrder(s, R, S) ==
  /\ s \in [1 .. Cardinality(S) -> S]
  /\ \A i, j \in 1 .. Cardinality(S) : i < j => <<s[i], s[j]>> \in R

\* A finite set can be sorted: each member's place is one behind the number of
\* those before it.
LEMMA SortExists ==
  ASSUME NEW S, IsFiniteSet(S), NEW R, Orders(R, S)
  PROVE  \E s : InOrder(s, R, S)
<1> DEFINE N == Cardinality(S)
           Less(a) == {b \in S : <<b, a>> \in R}
           place == [a \in S |-> Cardinality(Less(a)) + 1]
<1>1. N \in Nat /\ IsFiniteSet(1 .. N) /\ Cardinality(1 .. N) = N
  BY FS_CardinalityType, FS_Interval
<1>2. ASSUME NEW a \in S
      PROVE  IsFiniteSet(Less(a)) /\ Cardinality(Less(a)) \in 0 .. N - 1
  <2>1. Less(a) \subseteq S \ {a}
    BY DEF Orders
  <2>2. IsFiniteSet(S \ {a}) /\ Cardinality(S \ {a}) = N - 1
    BY FS_RemoveElement
  <2>3. IsFiniteSet(Less(a)) /\ Cardinality(Less(a)) <= Cardinality(S \ {a})
    <3> HIDE DEF Less
    <3> QED BY <2>1, <2>2, FS_Subset
  <2>4. Cardinality(Less(a)) \in Nat
    BY <2>3, FS_CardinalityType
  <2> QED BY <1>1, <2>2, <2>3, <2>4
<1>3. ASSUME NEW a \in S, NEW b \in S, <<a, b>> \in R
      PROVE  Cardinality(Less(a)) < Cardinality(Less(b))
  <2>1. Less(a) \subseteq Less(b) /\ a \in Less(b) /\ a \notin Less(a)
    BY <1>3 DEF Orders
  <2>2. Less(a) # Less(b)
    BY <2>1
  <2>3. Cardinality(Less(a)) <= Cardinality(Less(b)) /\ Cardinality(Less(a)) # Cardinality(Less(b))
    <3> HIDE DEF Less
    <3> QED BY <1>2, <2>1, <2>2, FS_Subset
  <2>4. Cardinality(Less(a)) \in Nat /\ Cardinality(Less(b)) \in Nat
    <3> HIDE DEF Less
    <3> QED BY <1>1, <1>2
  <2> HIDE DEF Less
  <2> QED BY <2>3, <2>4
<1>4. place \in [S -> 1 .. N]
  <2> HIDE DEF Less
  <2> QED BY <1>1, <1>2
<1>5. \A a, b \in S : place[a] = place[b] => a = b
  <2> SUFFICES ASSUME NEW a \in S, NEW b \in S, a # b PROVE place[a] # place[b]
    OBVIOUS
  <2>1. <<a, b>> \in R \/ <<b, a>> \in R
    BY DEF Orders
  <2>2. /\ Cardinality(Less(a)) \in Nat /\ Cardinality(Less(b)) \in Nat
        /\ Cardinality(Less(a)) # Cardinality(Less(b))
    <3> HIDE DEF Less
    <3> QED BY <1>2, <1>3, <2>1
  <2> HIDE DEF Less
  <2> QED BY <2>2
<1>6. place \in Injection(S, 1 .. N)
  <2> HIDE DEF place
  <2> QED BY <1>4, <1>5, Fun_IsInj
<1>7. place \in Surjection(S, 1 .. N)
  <2> HIDE DEF place
  <2> QED BY <1>1, <1>6, FS_Injection
<1> DEFINE s == [i \in 1 .. N |-> CHOOSE a \in S : place[a] = i]
<1>8. \A i \in 1 .. N : s[i] \in S /\ place[s[i]] = i
  <2>1. \A i \in 1 .. N : \E a \in S : place[a] = i
    <3> HIDE DEF place
    <3> QED BY <1>7, Fun_SurjectionProperties
  <2> HIDE DEF place
  <2> QED BY <2>1
<1>9. ASSUME NEW i \in 1 .. N, NEW j \in 1 .. N, i < j
      PROVE  <<s[i], s[j]>> \in R
  <2>1. s[i] \in S /\ s[j] \in S /\ place[s[i]] = i /\ place[s[j]] = j
    BY <1>8
  <2> HIDE DEF s
  <2>2. s[i] # s[j]
    BY <1>9, <2>1
  <2>3. ASSUME <<s[j], s[i]>> \in R PROVE FALSE
    <3>1. Cardinality(Less(s[j])) < Cardinality(Less(s[i]))
      BY <1>3, <2>1, <2>3
    <3>2. Cardinality(Less(s[j])) \in Nat /\ Cardinality(Less(s[i])) \in Nat
      <4> HIDE DEF Less
      <4> QED BY <1>1, <1>2, <2>1
    <3>3. place[s[i]] = Cardinality(Less(s[i])) + 1 /\ place[s[j]] = Cardinality(Less(s[j])) + 1
      BY <2>1
    <3> HIDE DEF Less, place
    <3> QED BY <1>9, <2>1, <3>1, <3>2, <3>3
  <2> QED BY <2>1, <2>2, <2>3 DEF Orders
<1>10. InOrder(s, R, S)
  <2>1. s \in [1 .. N -> S]
    BY <1>8
  <2> HIDE DEF s
  <2> QED BY <1>9, <2>1 DEF InOrder
<1> QED BY <1>10

\* Sorting leaves no member out.
LEMMA SortedAll ==
  ASSUME NEW S, IsFiniteSet(S), NEW R, Orders(R, S), NEW s, InOrder(s, R, S)
  PROVE  \A a \in S : \E i \in 1 .. Cardinality(S) : s[i] = a
<1> DEFINE N == Cardinality(S)
<1>1. N \in Nat /\ IsFiniteSet(1 .. N) /\ Cardinality(1 .. N) = N
  BY FS_CardinalityType, FS_Interval
<1>2. \A i, j \in 1 .. N : s[i] = s[j] => i = j
  <2> SUFFICES ASSUME NEW i \in 1 .. N, NEW j \in 1 .. N, i # j PROVE s[i] # s[j]
    OBVIOUS
  <2>1. i < j \/ j < i
    BY <1>1
  <2> QED BY <2>1 DEF InOrder, Orders
<1>3. s \in Injection(1 .. N, S)
  BY <1>2, Fun_IsInj DEF InOrder
<1>4. s \in Surjection(1 .. N, S)
  BY <1>1, <1>3, FS_Injection
<1> QED BY <1>4 DEF Surjection
=============================================================================
