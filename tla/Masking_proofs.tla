---------------------------- MODULE Masking_proofs ----------------------------
(***************************************************************************)
(* Masking for every text, every set of findings and every prefix: the      *)
(* resolution of overlaps, the mask, its restoration and how an evaluation  *)
(* judges them.  Each loop of the code has a lemma with its equations and   *)
(* one with its invariant; the theorems are at the end.                     *)
(***************************************************************************)
EXTENDS Evaluation, Data_proofs, SequenceTheorems

----------------------------------------------------------------------------
(* Sequences *)

\* The bytes a text may have.  Those that the masker writes are strings as well,
\* which the provers do not know of a literal.
Bytes == STRING \cup {"[", "]", "_", "*"} \cup {Digit[d] : d \in 1 .. 10}

Texts == Seq(Bytes)

\* A text of strings is a text.
LEMMA TextsAre ==
  ASSUME NEW t \in Seq(STRING)
  PROVE  t \in Texts
<1>1. STRING \subseteq Bytes
  BY DEF Bytes
<1> HIDE DEF Bytes
<1> QED BY <1>1, SeqMonotonic DEF Texts

\* A function on the first numbers is a sequence.
LEMMA FunctionIsSeq ==
  ASSUME NEW T, NEW n \in Nat, NEW f \in [1 .. n -> T]
  PROVE  f \in Seq(T) /\ Len(f) = n
OBVIOUS

----------------------------------------------------------------------------
(* Resolution *)

Fragments == [start: Int, end: Int, type: Types]

\* What the steps below find when they look at fragments.
Ordered(F) == IsFiniteSet(F) /\ F \subseteq Fragments /\ \A f \in F : f.start <= f.end

\* The fields of a fragment.
LEMMA FragmentType ==
  ASSUME NEW f \in Fragments
  PROVE  f.start \in Int /\ f.end \in Int /\ f.type \in Types
BY DEF Fragments

\* Types with one name are one type, so any two fragments have an order.
LEMMA PrecedesOrders ==
  ASSUME NEW F, F \subseteq Fragments
  PROVE  Orders({fg \in F \X F : Precedes(fg[1], fg[2])}, F)
<1> DEFINE R == {fg \in F \X F : Precedes(fg[1], fg[2])}
<1>1. \A f, g \in F : <<f, g>> \in R <=> Precedes(f, g)
  OBVIOUS
<1>2. \A f \in F : /\ f.start \in Int /\ f.end \in Int /\ f.type \in Types
                   /\ Priority[f.type] \in Int /\ NameOrder[f.type] \in Int
                   /\ f = [start |-> f.start, end |-> f.end, type |-> f.type]
  BY TypesAssumption DEF Fragments
<1>3. \A f \in F : ~Precedes(f, f)
  BY <1>2 DEF Precedes
<1>4. ASSUME NEW f \in F, NEW g \in F, f # g
      PROVE  Precedes(f, g) \/ Precedes(g, f)
  <2>1. f.start # g.start \/ f.end # g.end \/ f.type # g.type
    BY <1>2, <1>4
  <2>2. f.type # g.type => NameOrder[f.type] # NameOrder[g.type]
    BY <1>2, TypesAssumption
  <2> QED BY <1>2, <2>1, <2>2 DEF Precedes
<1>5. ASSUME NEW f \in F, NEW g \in F, NEW h \in F, Precedes(f, g), Precedes(g, h)
      PROVE  Precedes(f, h)
  BY <1>2, <1>5 DEF Precedes
<1> HIDE DEF R
<1> QED BY <1>1, <1>3, <1>4, <1>5 DEF Orders

\* The fragments in the order of the resolution.
ByPrecedence(s, F) ==
  /\ s \in Seq(Fragments)
  /\ \A i \in 1 .. Len(s) : s[i] \in F
  /\ \A i, j \in 1 .. Len(s) : i < j => Precedes(s[i], s[j])
  /\ \A f \in F : \E i \in 1 .. Len(s) : s[i] = f

\* Sorting brings the fragments into the order of precedence.
LEMMA InOrderOfPrecedence ==
  ASSUME NEW F, IsFiniteSet(F), F \subseteq Fragments
  PROVE  ByPrecedence(SortedBy(F, Precedes), F)
<1> DEFINE N == Cardinality(F)
           R == {fg \in F \X F : Precedes(fg[1], fg[2])}
           Good(s) == s \in [1 .. N -> F] /\ \A i, j \in 1 .. N : i < j => Precedes(s[i], s[j])
           s == SortedBy(F, Precedes)
<1>1. N \in Nat
  BY FS_CardinalityType
<1>2. Orders(R, F)
  BY PrecedesOrders
<1>3. \A q : Good(q) <=> InOrder(q, R, F)
  <2> SUFFICES ASSUME NEW q PROVE Good(q) <=> InOrder(q, R, F)
    OBVIOUS
  <2>1. ASSUME q \in [1 .. N -> F]
        PROVE  \A i, j \in 1 .. N : <<q[i], q[j]>> \in R <=> Precedes(q[i], q[j])
    BY <2>1
  <2> HIDE DEF R
  <2> QED BY <2>1 DEF InOrder
<1>4. \E q : Good(q)
  <2> HIDE DEF Good, R
  <2> QED BY <1>2, <1>3, SortExists
<1>5. Good(s)
  <2> HIDE DEF Precedes
  <2>1. \E q \in [1 .. N -> F] : \A i, j \in 1 .. N : i < j => Precedes(q[i], q[j])
    BY <1>4
  <2> QED BY <2>1 DEF SortedBy
<1>6. \A f \in F : \E i \in 1 .. N : s[i] = f
  <2> HIDE DEF Good, R, s
  <2> QED BY <1>2, <1>3, <1>5, SortedAll
<1>7. s \in Seq(Fragments) /\ Len(s) = N
  <2> HIDE DEF s, N
  <2>1. s \in [1 .. N -> Fragments]
    BY <1>5
  <2> QED BY <1>1, <2>1, FunctionIsSeq
<1> HIDE DEF s
<1>8. ByPrecedence(s, F)
  <2> HIDE DEF N
  <2> QED BY <1>5, <1>6, <1>7 DEF ByPrecedence
<1> QED BY <1>8 DEF s

\* What taking a fragment does to what is resolved so far.
Joined(f, last) ==
  [start |-> last.start, end |-> f.end,
   type  |-> IF Wins(f, last) THEN f.type ELSE last.type]

\* q is o with f taken: apart, covered, or the union of both.
Taken(o, L, f, q) ==
  /\ L = 0 \/ f.start >= o[L].end =>
       Len(q) = L + 1 /\ (\A i \in 1 .. L : q[i] = o[i]) /\ q[L + 1] = f
  /\ L > 0 /\ f.start < o[L].end /\ f.end <= o[L].end => q = o
  /\ L > 0 /\ f.start < o[L].end /\ f.end > o[L].end =>
       Len(q) = L /\ (\A i \in 1 .. L - 1 : q[i] = o[i]) /\ q[L] = Joined(f, o[L])

\* What taking the next fragment makes of the resolved ones.
LEMMA TakeIs ==
  ASSUME NEW o \in Seq(Fragments), NEW f \in Fragments, NEW L, L = Len(o),
         NEW q, q = Take(o, f)
  PROVE  q \in Seq(Fragments) /\ Taken(o, L, f, q)
<1>1. L \in Nat /\ (o = <<>> <=> L = 0) /\ Last(o) = o[L]
  BY EmptySeq DEF Last
<1>2. f.start \in Int /\ f.end \in Int
  BY FragmentType
<1>3. L > 0 => o[L] \in Fragments /\ o[L].start \in Int /\ o[L].end \in Int
  <2> SUFFICES ASSUME L > 0 PROVE o[L] \in Fragments
    BY FragmentType
  <2> QED BY <1>1
<1>4. CASE L = 0 \/ f.start >= o[L].end
  <2>1. q = Append(o, f)
    BY <1>1, <1>4 DEF Take
  <2>2. q \in Seq(Fragments) /\ Len(q) = L + 1 /\ (\A i \in 1 .. L : q[i] = o[i]) /\ q[L + 1] = f
    BY <2>1, AppendProperties
  <2> QED BY <1>1, <1>2, <1>3, <1>4, <2>2 DEF Taken
<1>5. CASE L > 0 /\ f.start < o[L].end /\ f.end <= o[L].end
  <2>1. q = o
    BY <1>1, <1>2, <1>3, <1>5 DEF Take
  <2> QED BY <1>1, <1>2, <1>3, <1>5, <2>1 DEF Taken
<1>6. CASE L > 0 /\ f.start < o[L].end /\ f.end > o[L].end
  <2> DEFINE e == Joined(f, o[L])
  <2>1. e \in Fragments
    BY <1>3, <1>6 DEF Joined, Fragments
  <2>2. q = [o EXCEPT ![L] = e]
    BY <1>1, <1>2, <1>3, <1>6 DEF Take, Joined
  <2> HIDE DEF e
  <2>3. L \in 1 .. Len(o)
    BY <1>1, <1>6
  <2>4. q \in Seq(Fragments) /\ Len(q) = L /\ \A i \in 1 .. L : q[i] = IF i = L THEN e ELSE o[i]
    BY <2>1, <2>2, <2>3, ExceptSeq
  <2>5. q[L] = e /\ \A i \in 1 .. L - 1 : q[i] = o[i]
    BY <1>1, <2>3, <2>4
  <2>6. q[L] = Joined(f, o[L])
    BY <2>5 DEF e
  <2> QED BY <1>1, <1>2, <1>3, <1>6, <2>4, <2>5, <2>6 DEF Taken
<1> QED BY <1>1, <1>2, <1>3, <1>4, <1>5, <1>6

\* The resolved ranges follow from each other, one fragment at a time.
LEMMA OutsAre ==
  ASSUME NEW s \in Seq(Fragments)
  PROVE  /\ Outs(s)[0] = <<>>
         /\ \A n \in 1 .. Len(s) : Outs(s)[n] = Take(Outs(s)[n - 1], s[n])
         /\ \A n \in 0 .. Len(s) : Outs(s)[n] \in Seq(Fragments)
<1> DEFINE S == Seq(Fragments)
           N == Len(s)
           stepping == [n \in 1 .. N |-> [o \in S |-> Take(o, s[n])]]
           Good(f) == f = [n \in 0 .. N |-> IF n = 0 THEN <<>> ELSE Take(f[n - 1], s[n])]
           g == Outs(s)
<1>1. ASSUME NEW n \in 1 .. N, NEW o \in S PROVE Take(o, s[n]) \in S
  <2>1. s[n] \in Fragments
    OBVIOUS
  <2> QED BY <2>1, TakeIs
<1>2. N \in Nat /\ <<>> \in S
  OBVIOUS
<1>3. Outs(s) = CHOOSE f : Good(f)
  BY DEF Outs
<1> HIDE DEF S, N
<1>4. PICK f : Iterates(f, S, N, <<>>, stepping)
  <2>1. stepping \in [1 .. N -> [S -> S]]
    BY <1>1
  <2> HIDE DEF stepping
  <2> QED BY <1>2, <2>1, Iteration
<1>5. Good(f)
  <2>1. \A n \in 1 .. N : f[n - 1] \in S /\ f[n] = Take(f[n - 1], s[n])
    BY <1>2, <1>4 DEF Iterates
  <2> QED BY <1>2, <1>4, <2>1 DEF Iterates
<1>6. Good(g)
  <2> HIDE DEF Good
  <2> QED BY <1>3, <1>5
<1> HIDE DEF g
<1>7. g[0] = <<>> /\ \A n \in 1 .. N : g[n] = Take(g[n - 1], s[n])
  BY <1>2, <1>6
<1>8. \A n \in 0 .. N : g[n] \in S
  BY <1>1, <1>2, <1>7, Iterated
<1> QED BY <1>7, <1>8 DEF S, N, g

----------------------------------------------------------------------------
(* What is resolved of the first n fragments *)

IsRange(r) == r.start \in Int /\ r.end \in Int /\ r.start <= r.end

\* The first n fragments, none of which begins behind the last of them.
Sorted(s, n) == \A k \in 1 .. n : IsRange(s[k]) /\ s[k].start <= s[n].start

\* A place is hidden by one of the first n.
Hidden(s, n, h) == \E k \in 1 .. n : Hides(s[k], h)

\* The first L ranges of o are apart and in order, begin and end where one of
\* the first n fragments does, and none of these ends behind the last range.
Apart(o, L, s, n) ==
  /\ n > 0 <=> L > 0
  /\ \A i \in 1 .. L : IsRange(o[i])
  /\ \A i, j \in 1 .. L : i < j => o[i].end <= o[j].start
  /\ \A i \in 1 .. L : /\ \E k \in 1 .. n : o[i].start = s[k].start
                       /\ \E k \in 1 .. n : o[i].end = s[k].end
  /\ L > 0 => \A k \in 1 .. n : s[k].end <= o[L].end

\* The two take care of the same places.
SamePlaces(o, L, s, n) == \A h \in Int : Hidden(o, L, h) <=> Hidden(s, n, h)

\* The numbers up to one number and up to the one before it.
LEMMA UpTo ==
  ASSUME NEW n \in Nat \ {0}
  PROVE  /\ n - 1 \in Nat /\ n \in 1 .. n
         /\ \A k \in 1 .. n : k = n \/ k \in 1 .. n - 1
         /\ \A k \in 1 .. n - 1 : k \in 1 .. n
OBVIOUS

\* No resolved range begins behind the next fragment.
LEMMA LastStart ==
  ASSUME NEW n \in Nat \ {0}, NEW s, Sorted(s, n), NEW L \in Nat, NEW o, Apart(o, L, s, n - 1)
  PROVE  \A i \in 1 .. L : o[i].start <= s[n].start
<1> SUFFICES ASSUME NEW i \in 1 .. L PROVE o[i].start <= s[n].start
  OBVIOUS
<1>1. PICK k \in 1 .. n - 1 : o[i].start = s[k].start
  BY DEF Apart
<1> QED BY <1>1, UpTo DEF Sorted

\* A fragment behind the last range is a range of its own, and the ranges stay
\* apart.
LEMMA ApartAppended ==
  ASSUME NEW n \in Nat \ {0}, NEW s, Sorted(s, n),
         NEW L \in Nat, NEW o, Apart(o, L, s, n - 1), NEW q,
         L > 0 => s[n].start >= o[L].end,
         \A i \in 1 .. L : q[i] = o[i], q[L + 1] = s[n]
  PROVE  /\ Apart(q, L + 1, s, n)
         /\ SamePlaces(o, L, s, n - 1) => SamePlaces(q, L + 1, s, n)
<1>1. \A i \in 1 .. L + 1 : i = L + 1 \/ i \in 1 .. L
  OBVIOUS
<1>2. \A i \in 1 .. L : o[i].end <= s[n].start
  BY UpTo DEF Apart, Sorted, IsRange
<1>3. \A k \in 1 .. n : s[k].end <= s[n].end
  <2> SUFFICES ASSUME NEW k \in 1 .. n - 1 PROVE s[k].end <= s[n].end
    BY UpTo DEF Sorted, IsRange
  <2>1. n - 1 > 0 /\ L > 0 /\ L \in 1 .. L
    BY DEF Apart
  <2>2. s[k].end <= o[L].end /\ o[L].end <= s[n].start
    BY <1>2, <2>1 DEF Apart
  <2> QED BY <2>1, <2>2, UpTo DEF Sorted, Apart, IsRange
<1>4. \A i \in 1 .. L + 1 : IsRange(q[i])
  BY <1>1, UpTo DEF Apart, Sorted
<1>5. \A i, j \in 1 .. L + 1 : i < j => q[i].end <= q[j].start
  BY <1>1, <1>2 DEF Apart
<1>6. \A i \in 1 .. L + 1 : /\ \E k \in 1 .. n : q[i].start = s[k].start
                            /\ \E k \in 1 .. n : q[i].end = s[k].end
  <2> SUFFICES ASSUME NEW i \in 1 .. L + 1
               PROVE  /\ \E k \in 1 .. n : q[i].start = s[k].start
                      /\ \E k \in 1 .. n : q[i].end = s[k].end
    OBVIOUS
  <2>1. CASE i = L + 1
    BY <2>1, UpTo
  <2>2. CASE i \in 1 .. L
    BY <2>2, UpTo DEF Apart
  <2> QED BY <1>1, <2>1, <2>2
<1>7. Apart(q, L + 1, s, n)
  BY <1>3, <1>4, <1>5, <1>6 DEF Apart
<1>8. ASSUME NEW h \in Int, Hidden(o, L, h) <=> Hidden(s, n - 1, h)
      PROVE  Hidden(q, L + 1, h) <=> Hidden(s, n, h)
  <2>1. Hidden(q, L + 1, h) <=> Hidden(o, L, h) \/ Hides(s[n], h)
    BY <1>1, L + 1 \in 1 .. L + 1, \A i \in 1 .. L : i \in 1 .. L + 1 DEF Hidden
  <2>2. Hidden(s, n, h) <=> Hidden(s, n - 1, h) \/ Hides(s[n], h)
    BY UpTo DEF Hidden
  <2> QED BY <1>8, <2>1, <2>2
<1> QED BY <1>7, <1>8 DEF SamePlaces

\* A fragment in the last range changes nothing.
LEMMA ApartCovered ==
  ASSUME NEW n \in Nat \ {0}, NEW s, Sorted(s, n),
         NEW L \in Nat, NEW o, Apart(o, L, s, n - 1),
         L > 0, s[n].end <= o[L].end
  PROVE  /\ Apart(o, L, s, n)
         /\ SamePlaces(o, L, s, n - 1) => SamePlaces(o, L, s, n)
<1>1. Apart(o, L, s, n)
  <2>1. \A k \in 1 .. n : s[k].end <= o[L].end
    BY UpTo DEF Apart
  <2>2. \A i \in 1 .. L : /\ \E k \in 1 .. n : o[i].start = s[k].start
                          /\ \E k \in 1 .. n : o[i].end = s[k].end
    BY UpTo DEF Apart
  <2> QED BY <2>1, <2>2 DEF Apart
<1>2. ASSUME NEW h \in Int, Hidden(o, L, h) <=> Hidden(s, n - 1, h)
      PROVE  Hidden(o, L, h) <=> Hidden(s, n, h)
  <2>1. L \in 1 .. L /\ o[L].start <= s[n].start /\ IsRange(o[L]) /\ IsRange(s[n])
    BY LastStart, UpTo DEF Apart, Sorted
  <2>2. Hides(s[n], h) => Hides(o[L], h)
    BY <2>1 DEF Hides, IsRange
  <2>3. Hides(s[n], h) => Hidden(o, L, h)
    BY <2>1, <2>2 DEF Hidden
  <2>4. Hidden(s, n, h) <=> Hidden(s, n - 1, h) \/ Hides(s[n], h)
    BY UpTo DEF Hidden
  <2> QED BY <1>2, <2>3, <2>4
<1> QED BY <1>1, <1>2 DEF SamePlaces

\* The last range takes the end of a fragment that begins no place behind it.
LEMMA ApartExtended ==
  ASSUME NEW n \in Nat \ {0}, NEW s, Sorted(s, n),
         NEW L \in Nat, NEW o, Apart(o, L, s, n - 1), NEW q,
         L > 0, s[n].start <= o[L].end, s[n].end > o[L].end,
         \A i \in 1 .. L - 1 : q[i] = o[i],
         q[L].start = o[L].start, q[L].end = s[n].end
  PROVE  /\ Apart(q, L, s, n)
         /\ SamePlaces(o, L, s, n - 1) => SamePlaces(q, L, s, n)
<1>1. /\ L \in 1 .. L /\ o[L].start <= s[n].start /\ IsRange(o[L]) /\ IsRange(s[n])
      /\ n \in 1 .. n /\ \A i \in 1 .. L : i = L \/ i \in 1 .. L - 1
  BY LastStart, UpTo DEF Apart, Sorted
<1>2. \A k \in 1 .. n : s[k].end <= q[L].end
  <2> SUFFICES ASSUME NEW k \in 1 .. n - 1 PROVE s[k].end <= s[n].end
    BY <1>1, UpTo DEF IsRange
  <2>1. s[k].end <= o[L].end
    BY DEF Apart
  <2> QED BY <1>1, <2>1, UpTo DEF Sorted, IsRange
<1>3. \A i \in 1 .. L : IsRange(q[i])
  <2>1. IsRange(q[L])
    BY <1>1 DEF IsRange
  <2> QED BY <1>1, <2>1 DEF Apart
<1>4. \A i, j \in 1 .. L : i < j => q[i].end <= q[j].start
  <2> SUFFICES ASSUME NEW i \in 1 .. L, NEW j \in 1 .. L, i < j PROVE q[i].end <= q[j].start
    OBVIOUS
  <2>1. q[i] = o[i] /\ q[j].start = o[j].start
    BY <1>1
  <2> QED BY <2>1 DEF Apart
<1>5. \A i \in 1 .. L : /\ \E k \in 1 .. n : q[i].start = s[k].start
                        /\ \E k \in 1 .. n : q[i].end = s[k].end
  <2> SUFFICES ASSUME NEW i \in 1 .. L
               PROVE  /\ \E k \in 1 .. n : q[i].start = s[k].start
                      /\ \E k \in 1 .. n : q[i].end = s[k].end
    OBVIOUS
  <2>1. q[i].start = o[i].start /\ (q[i].end = o[i].end \/ q[i].end = s[n].end)
    BY <1>1
  <2> QED BY <1>1, <2>1, UpTo DEF Apart
<1>6. Apart(q, L, s, n)
  BY <1>2, <1>3, <1>4, <1>5 DEF Apart
<1>7. ASSUME NEW h \in Int, Hidden(o, L, h) <=> Hidden(s, n - 1, h)
      PROVE  Hidden(q, L, h) <=> Hidden(s, n, h)
  <2>1. Hides(q[L], h) <=> Hides(o[L], h) \/ Hides(s[n], h)
    BY <1>1 DEF Hides, IsRange
  <2>2. Hidden(q, L, h) <=> Hidden(o, L, h) \/ Hides(s[n], h)
    BY <1>1, <2>1 DEF Hidden
  <2>3. Hidden(s, n, h) <=> Hidden(s, n - 1, h) \/ Hides(s[n], h)
    BY UpTo DEF Hidden
  <2> QED BY <1>7, <2>2, <2>3
<1> QED BY <1>6, <1>7 DEF SamePlaces

----------------------------------------------------------------------------
(* What is resolved *)

\* What is resolved keeps the fragments apart and hides the same places.
LEMMA ResolvedApart ==
  ASSUME NEW s \in Seq(Fragments), \A k \in 1 .. Len(s) : s[k].start <= s[k].end,
         \A i, j \in 1 .. Len(s) : i < j => Precedes(s[i], s[j])
  PROVE  \A n \in 0 .. Len(s) :
           /\ Apart(Outs(s)[n], Len(Outs(s)[n]), s, n)
           /\ SamePlaces(Outs(s)[n], Len(Outs(s)[n]), s, n)
<1> DEFINE N == Len(s)
           g == Outs(s)
           Good(n) == Apart(g[n], Len(g[n]), s, n) /\ SamePlaces(g[n], Len(g[n]), s, n)
           I == {n \in 0 .. N : Good(n)}
<1>1. N \in Nat /\ \A k \in 1 .. N : s[k] \in Fragments /\ IsRange(s[k])
  BY FragmentType DEF IsRange
<1>2. \A n \in 1 .. N : Sorted(s, n)
  <2> SUFFICES ASSUME NEW n \in 1 .. N, NEW k \in 1 .. n PROVE s[k].start <= s[n].start
    BY <1>1 DEF Sorted
  <2>1. s[k].start \in Int /\ s[n].start \in Int
    BY <1>1 DEF IsRange
  <2>2. k = n \/ Precedes(s[k], s[n])
    OBVIOUS
  <2> QED BY <2>1, <2>2 DEF Precedes
<1>3. /\ g[0] = <<>>
      /\ \A n \in 1 .. N : g[n] = Take(g[n - 1], s[n])
      /\ \A n \in 0 .. N : g[n] \in Seq(Fragments)
  BY OutsAre
<1> HIDE DEF N, g
<1>4. Good(0)
  <2>1. Len(g[0]) = 0
    BY <1>3
  <2> QED BY <2>1 DEF Apart, SamePlaces, Hidden
<1>5. ASSUME NEW m \in 0 .. N, m < N, Good(m) PROVE Good(m + 1)
  <2> DEFINE n == m + 1
             o == g[m]
             q == g[n]
             L == Len(o)
             f == s[n]
  <2>1. n \in 1 .. N /\ n \in Nat \ {0} /\ n - 1 = m
    BY <1>1, <1>5
  <2>2. o \in Seq(Fragments) /\ L \in Nat /\ f \in Fragments /\ q = Take(o, f) /\ IsRange(f)
    BY <1>1, <1>3, <2>1
  <2>3. Apart(o, L, s, n - 1) /\ SamePlaces(o, L, s, n - 1) /\ Sorted(s, n)
    BY <1>2, <1>5, <2>1
  <2>5. L = Len(o)
    OBVIOUS
  <2> HIDE DEF n, o, q, L, f
  <2>4. L > 0 => L \in 1 .. L /\ IsRange(o[L])
    BY <2>2, <2>3 DEF Apart
  <2>6. Taken(o, L, f, q)
    BY <2>2, <2>5, TakeIs
  <2>7. CASE L = 0 \/ f.start >= o[L].end
    <3>1. /\ L > 0 => s[n].start >= o[L].end
          /\ \A i \in 1 .. L : q[i] = o[i]
          /\ q[L + 1] = s[n] /\ Len(q) = L + 1
      BY <2>2, <2>4, <2>6, <2>7 DEF f, Taken
    <3>2. Apart(q, L + 1, s, n) /\ SamePlaces(q, L + 1, s, n)
      BY <2>1, <2>2, <2>3, <3>1, ApartAppended
    <3> QED BY <3>1, <3>2 DEF n, q
  <2>8. CASE L > 0 /\ f.start < o[L].end /\ f.end <= o[L].end
    <3>1. q = o /\ s[n].end <= o[L].end
      BY <2>6, <2>8 DEF f, Taken
    <3>2. Apart(o, L, s, n) /\ SamePlaces(o, L, s, n)
      BY <2>1, <2>2, <2>3, <2>8, <3>1, ApartCovered
    <3> QED BY <3>1, <3>2 DEF n, q, L
  <2>9. CASE L > 0 /\ f.start < o[L].end /\ f.end > o[L].end
    <3>1. Len(q) = L /\ q[L] = Joined(f, o[L]) /\ \A i \in 1 .. L - 1 : q[i] = o[i]
      BY <2>6, <2>9 DEF Taken
    <3>2. q[L].start = o[L].start /\ q[L].end = s[n].end
      BY <3>1 DEF Joined, f
    <3>3. s[n].start <= o[L].end /\ s[n].end > o[L].end
      BY <2>2, <2>4, <2>9 DEF IsRange, f
    <3>4. Apart(q, L, s, n) /\ SamePlaces(q, L, s, n)
      BY <2>1, <2>2, <2>3, <2>9, <3>1, <3>2, <3>3, ApartExtended
    <3> QED BY <3>1, <3>4 DEF n, q
  <2> QED BY <2>2, <2>4, <2>7, <2>8, <2>9 DEF IsRange
<1>6. I = 0 .. N
  <2> HIDE DEF Good
  <2>1. I \subseteq 0 .. N /\ 0 \in I /\ \A n \in I : n < N => n + 1 \in I
    BY <1>1, <1>4, <1>5
  <2> HIDE DEF I
  <2> QED BY <1>1, <2>1, Induct
<1> QED BY <1>6 DEF N, g

\* Inside or equal to one of those before it.
NestedAt(s, k) == \E j \in 1 .. k - 1 : s[j].end >= s[k].end

UnitedAt(s, k, r) ==
  ~NestedAt(s, k) /\ r.start <= s[k].start /\ s[k].start < r.end /\ s[k].end <= r.end

\* The range has the type of the highest priority among those it unites of the
\* first n, or is one of them.
TypedBy(s, n, r) ==
  \/ r.start = r.end /\ \E k \in 1 .. n : r = s[k]
  \/ /\ \E k \in 1 .. n : UnitedAt(s, k, r) /\ s[k].type = r.type
     /\ \A k \in 1 .. n : UnitedAt(s, k, r) => Priority[s[k].type] <= Priority[r.type]

\* In order, of those with one start the longest comes first.
LongerFirst(s, n) ==
  \A j, k \in 1 .. n : j < k /\ s[j].start = s[k].start => s[j].end >= s[k].end

Typed(s, n) == \A k \in 1 .. n : IsRange(s[k]) /\ Priority[s[k].type] \in Int

\* A fragment that a range does not unite changes nothing for it.
LEMMA NotUnited ==
  ASSUME NEW n \in Nat \ {0}, NEW s, NEW r, TypedBy(s, n - 1, r), ~UnitedAt(s, n, r)
  PROVE  TypedBy(s, n, r)
BY UpTo DEF TypedBy

\* The type of a new range is the highest of what it unites, and the others keep
\* theirs.
LEMMA TypesAppended ==
  ASSUME NEW n \in Nat \ {0}, NEW s, Typed(s, n), LongerFirst(s, n), Sorted(s, n),
         NEW L \in Nat, NEW o, Apart(o, L, s, n - 1),
         L > 0 => s[n].start >= o[L].end
  PROVE  /\ TypedBy(s, n, s[n])
         /\ \A i \in 1 .. L : TypedBy(s, n - 1, o[i]) => TypedBy(s, n, o[i])
<1>1. \A i \in 1 .. L : IsRange(o[i]) /\ o[i].end <= s[n].start
  BY UpTo DEF Apart, Sorted, IsRange
<1>2. \A k \in 1 .. n - 1 : IsRange(s[k]) /\ s[k].end <= s[n].start
  <2> SUFFICES ASSUME NEW k \in 1 .. n - 1 PROVE s[k].end <= s[n].start
    BY UpTo DEF Typed
  <2>1. L > 0 /\ L \in 1 .. L
    BY DEF Apart
  <2>2. s[k].end <= o[L].end /\ o[L].end <= s[n].start
    BY <1>1, <2>1 DEF Apart
  <2> QED BY <1>1, <2>1, <2>2, UpTo DEF Typed, IsRange
<1>3. IsRange(s[n]) /\ n \in 1 .. n /\ Priority[s[n].type] \in Int
  BY UpTo DEF Typed
<1>4. TypedBy(s, n, s[n])
  <2>1. CASE s[n].start = s[n].end
    BY <1>3, <2>1 DEF TypedBy
  <2>2. CASE s[n].start < s[n].end
    <3>1. ~NestedAt(s, n)
      BY <1>2, <1>3, <2>2 DEF NestedAt, IsRange
    <3>2. UnitedAt(s, n, s[n])
      BY <1>3, <2>2, <3>1 DEF UnitedAt, IsRange
    <3>3. ASSUME NEW k \in 1 .. n - 1 PROVE ~UnitedAt(s, k, s[n])
      <4>1. s[k].start = s[n].start => s[k].end >= s[n].end
        BY UpTo, k < n DEF LongerFirst
      <4>2. IsRange(s[k]) /\ s[k].end <= s[n].start
        BY <1>2
      <4> QED BY <1>3, <2>2, <4>1, <4>2 DEF UnitedAt, IsRange
    <3> QED BY <1>3, <3>2, <3>3, UpTo DEF TypedBy
  <2> QED BY <1>3, <2>1, <2>2 DEF IsRange
<1>5. ASSUME NEW i \in 1 .. L PROVE ~UnitedAt(s, n, o[i])
  BY <1>1, <1>3 DEF UnitedAt, IsRange
<1> QED BY <1>4, <1>5, NotUnited

\* A covered fragment leaves the ranges the highest type of what they unite.
LEMMA TypesCovered ==
  ASSUME NEW n \in Nat \ {0}, NEW s, NEW L \in Nat \ {0}, NEW o, Apart(o, L, s, n - 1),
         s[n].end <= o[L].end
  PROVE  \A i \in 1 .. L : TypedBy(s, n - 1, o[i]) => TypedBy(s, n, o[i])
<1>1. L \in 1 .. L
  OBVIOUS
<1>2. PICK k \in 1 .. n - 1 : o[L].end = s[k].end
  BY <1>1 DEF Apart
<1>3. NestedAt(s, n)
  BY <1>2 DEF NestedAt
<1> QED BY <1>3, NotUnited DEF UnitedAt

\* The wider range has the highest type of what it unites.
LEMMA TypesExtended ==
  ASSUME NEW n \in Nat \ {0}, NEW s, Typed(s, n), LongerFirst(s, n), Sorted(s, n),
         NEW L \in Nat \ {0}, NEW o, Apart(o, L, s, n - 1), Priority[o[L].type] \in Int,
         s[n].start < o[L].end, s[n].end > o[L].end
  PROVE  /\ TypedBy(s, n - 1, o[L]) => TypedBy(s, n, Joined(s[n], o[L]))
         /\ \A i \in 1 .. L - 1 : TypedBy(s, n - 1, o[i]) => TypedBy(s, n, o[i])
<1> DEFINE f == s[n]
           last == o[L]
           r == Joined(f, last)
<1>1. /\ L \in 1 .. L /\ IsRange(last) /\ IsRange(f) /\ Priority[f.type] \in Int
      /\ n \in 1 .. n /\ last.start <= f.start
  BY LastStart, UpTo DEF Apart, Typed
<1>2. \A k \in 1 .. n - 1 : IsRange(s[k]) /\ s[k].start <= f.start /\ s[k].end <= last.end
  BY UpTo DEF Apart, Typed, Sorted
<1>3. ASSUME NEW i \in 1 .. L - 1 PROVE ~UnitedAt(s, n, o[i])
  <2>1. i \in 1 .. L /\ IsRange(o[i]) /\ o[i].end <= last.start
    BY <1>1 DEF Apart
  <2> QED BY <1>1, <2>1 DEF UnitedAt, IsRange
<1>4. f.start # last.start
  <2> SUFFICES ASSUME f.start = last.start PROVE FALSE
    OBVIOUS
  <2>1. PICK k \in 1 .. n - 1 : last.start = s[k].start
    BY <1>1 DEF Apart
  <2>2. s[k].end >= f.end
    BY <2>1, UpTo, k < n DEF LongerFirst
  <2> QED BY <1>1, <1>2, <2>2 DEF IsRange
<1>5. /\ r.start = last.start /\ r.end = f.end
      /\ r.type = IF Priority[f.type] > Priority[last.type] THEN f.type ELSE last.type
  BY <1>4 DEF Joined, Wins
<1> HIDE DEF r
<1>6. UnitedAt(s, n, r)
  <2>1. ~NestedAt(s, n)
    BY <1>1, <1>2 DEF NestedAt, IsRange
  <2> QED BY <1>1, <1>5, <2>1 DEF UnitedAt, IsRange
<1>7. ASSUME NEW k \in 1 .. n - 1 PROVE UnitedAt(s, k, r) <=> UnitedAt(s, k, last)
  <2>1. IsRange(s[k]) /\ s[k].start <= f.start /\ s[k].end <= last.end
    BY <1>2
  <2> HIDE DEF f, last
  <2> QED BY <1>1, <1>5, <2>1, f.start < last.end, f.end > last.end DEF UnitedAt, IsRange, f, last
<1>8. ASSUME TypedBy(s, n - 1, last) PROVE TypedBy(s, n, r)
  <2>1. last.start # last.end
    BY <1>1 DEF IsRange
  <2>2. PICK k \in 1 .. n - 1 : UnitedAt(s, k, last) /\ s[k].type = last.type
    BY <1>8, <2>1 DEF TypedBy
  <2>3. \A j \in 1 .. n - 1 :
          UnitedAt(s, j, last) => Priority[s[j].type] <= Priority[last.type] /\ Priority[s[j].type] \in Int
    BY <1>8, <2>1, UpTo DEF TypedBy, Typed
  <2>4. \E j \in 1 .. n : UnitedAt(s, j, r) /\ s[j].type = r.type
    BY <1>1, <1>5, <1>6, <1>7, <2>2, UpTo
  <2>5. \A j \in 1 .. n : UnitedAt(s, j, r) => Priority[s[j].type] <= Priority[r.type]
    <3> SUFFICES ASSUME NEW j \in 1 .. n, UnitedAt(s, j, r)
                 PROVE  Priority[s[j].type] <= Priority[r.type]
      OBVIOUS
    <3>1. CASE j = n
      BY <1>1, <1>5, <3>1
    <3>2. CASE j \in 1 .. n - 1
      BY <1>1, <1>5, <1>7, <2>3, <3>2
    <3> QED BY <3>1, <3>2, UpTo
  <2> QED BY <2>4, <2>5 DEF TypedBy
<1> QED BY <1>3, <1>8, NotUnited DEF r

\* Each range that is resolved has the type that is due to it.
LEMMA ResolvedTypes ==
  ASSUME NEW s \in Seq(Fragments), \A k \in 1 .. Len(s) : s[k].start <= s[k].end,
         \A i, j \in 1 .. Len(s) : i < j => Precedes(s[i], s[j])
  PROVE  \A n \in 0 .. Len(s) : \A i \in 1 .. Len(Outs(s)[n]) : TypedBy(s, n, Outs(s)[n][i])
<1> DEFINE N == Len(s)
           g == Outs(s)
           Good(n) == \A i \in 1 .. Len(g[n]) : TypedBy(s, n, g[n][i])
           I == {n \in 0 .. N : Good(n)}
<1>1. N \in Nat /\ \A k \in 1 .. N : s[k] \in Fragments /\ IsRange(s[k])
  BY FragmentType DEF IsRange
<1>2. ASSUME NEW n \in 1 .. N PROVE Sorted(s, n) /\ LongerFirst(s, n) /\ Typed(s, n)
  <2>1. \A i, j \in 1 .. n : i < j => Precedes(s[i], s[j])
    OBVIOUS
  <2>2. \A k \in 1 .. n : IsRange(s[k]) /\ s[k].type \in Types
    BY <1>1, FragmentType
  <2>3. \A i, j \in 1 .. n :
          i < j => /\ s[i].start <= s[j].start
                   /\ s[i].start = s[j].start => s[i].end >= s[j].end
    BY <2>1, <2>2, SMTT(60) DEF Precedes, IsRange
  <2>4. \A k \in 1 .. n : s[k].start <= s[n].start
    BY <2>2, <2>3, UpTo DEF IsRange
  <2>5. \A k \in 1 .. n : Priority[s[k].type] \in Int
    BY <2>2, TypesAssumption
  <2> QED BY <2>2, <2>3, <2>4, <2>5 DEF Sorted, LongerFirst, Typed
<1>3. /\ g[0] = <<>>
      /\ \A n \in 1 .. N : g[n] = Take(g[n - 1], s[n])
      /\ \A n \in 0 .. N : g[n] \in Seq(Fragments)
  BY OutsAre
<1>4. \A n \in 0 .. N : Apart(g[n], Len(g[n]), s, n)
  BY ResolvedApart
<1> HIDE DEF N, g
<1>5. Good(0)
  BY <1>3
<1>6. ASSUME NEW m \in 0 .. N, m < N, Good(m) PROVE Good(m + 1)
  <2> DEFINE n == m + 1
             o == g[m]
             q == g[n]
             L == Len(o)
             f == s[n]
  <2>1. n \in 1 .. N /\ n \in Nat \ {0} /\ n - 1 = m
    BY <1>1, <1>6
  <2>2. o \in Seq(Fragments) /\ L \in Nat /\ f \in Fragments /\ q = Take(o, f) /\ L = Len(o)
    BY <1>1, <1>3, <2>1
  <2>3. /\ Apart(o, L, s, n - 1) /\ Sorted(s, n) /\ LongerFirst(s, n) /\ Typed(s, n)
        /\ \A i \in 1 .. L : TypedBy(s, n - 1, o[i])
    BY <1>2, <1>4, <1>6, <2>1
  <2>4. L > 0 => /\ L \in 1 .. L /\ L \in Nat \ {0} /\ o[L].end \in Int
                 /\ Priority[o[L].type] \in Int
    BY <2>2, FragmentType, TypesAssumption
  <2>5. f.start \in Int /\ f.end \in Int
    BY <2>2, FragmentType
  <2> HIDE DEF n, o, q, L
  <2>6. Taken(o, L, f, q)
    BY <2>2, TakeIs
  <2>7. CASE L = 0 \/ f.start >= o[L].end
    <3>1. Len(q) = L + 1 /\ (\A i \in 1 .. L : q[i] = o[i]) /\ q[L + 1] = f
      BY <2>2, <2>6, <2>7 DEF Taken
    <3>2. L > 0 => s[n].start >= o[L].end
      BY <2>2, <2>4, <2>7
    <3>3. TypedBy(s, n, f) /\ \A i \in 1 .. L : TypedBy(s, n, o[i])
      BY <2>1, <2>2, <2>3, <3>2, TypesAppended
    <3>4. \A i \in 1 .. L + 1 : i = L + 1 \/ i \in 1 .. L
      BY <2>2
    <3> QED BY <3>1, <3>3, <3>4 DEF n, q
  <2>8. CASE L > 0 /\ f.start < o[L].end /\ f.end <= o[L].end
    <3>1. q = o /\ s[n].end <= o[L].end
      BY <2>6, <2>8 DEF Taken
    <3> HIDE DEF f
    <3>2. \A i \in 1 .. L : TypedBy(s, n, o[i])
      BY <2>1, <2>3, <2>4, <2>8, <3>1, TypesCovered
    <3> QED BY <3>1, <3>2 DEF n, q, L
  <2>9. CASE L > 0 /\ f.start < o[L].end /\ f.end > o[L].end
    <3>1. Len(q) = L /\ q[L] = Joined(f, o[L]) /\ \A i \in 1 .. L - 1 : q[i] = o[i]
      BY <2>6, <2>9 DEF Taken
    <3>2. s[n].start < o[L].end /\ s[n].end > o[L].end
      BY <2>9
    <3>3. TypedBy(s, n, Joined(f, o[L])) /\ \A i \in 1 .. L - 1 : TypedBy(s, n, o[i])
      BY <2>1, <2>3, <2>4, <2>9, <3>2, TypesExtended
    <3>4. \A i \in 1 .. L : i = L \/ i \in 1 .. L - 1
      BY <2>2
    <3> QED BY <3>1, <3>3, <3>4 DEF n, q
  <2> QED BY <2>2, <2>4, <2>5, <2>7, <2>8, <2>9
<1>7. I = 0 .. N
  <2> HIDE DEF Good
  <2>1. I \subseteq 0 .. N /\ 0 \in I /\ \A n \in I : n < N => n + 1 \in I
    BY <1>1, <1>5, <1>6
  <2> HIDE DEF I
  <2> QED BY <1>1, <2>1, Induct
<1> QED BY <1>7 DEF N, g

\* What is resolved of the fragments F, said without their order.
Resolution(out, F) ==
  /\ out \in Seq(Fragments)
  /\ \A i \in 1 .. Len(out) : IsRange(out[i])
  /\ \A i, j \in 1 .. Len(out) : i < j => out[i].end <= out[j].start
  /\ \A i \in 1 .. Len(out) : /\ \E f \in F : out[i].start = f.start
                              /\ \E f \in F : out[i].end = f.end
  /\ \A h \in Int : (\E i \in 1 .. Len(out) : Hides(out[i], h)) <=> \E f \in F : Hides(f, h)

\* The resolution covers what the fragments cover.
LEMMA ResolvedIs ==
  ASSUME NEW F, Ordered(F)
  PROVE  Resolution(Resolved(F), F)
<1> DEFINE s == SortedBy(F, Precedes)
           N == Len(s)
           out == Resolved(F)
<1>1. ByPrecedence(s, F)
  BY InOrderOfPrecedence DEF Ordered
<1>2. out = Outs(s)[N]
  BY DEF Resolved
<1>3. s \in Seq(Fragments) /\ \A i, j \in 1 .. N : i < j => Precedes(s[i], s[j])
  BY <1>1 DEF ByPrecedence
<1>4. \A k \in 1 .. N : s[k] \in F
  BY <1>1 DEF ByPrecedence
<1>5. \A f \in F : \E k \in 1 .. N : s[k] = f
  BY <1>1 DEF ByPrecedence
<1> HIDE DEF s, out
<1>6. N \in 0 .. N /\ \A k \in 1 .. N : s[k].start <= s[k].end
  BY <1>3, <1>4 DEF Ordered
<1>7. Apart(out, Len(out), s, N) /\ SamePlaces(out, Len(out), s, N)
  BY <1>2, <1>3, <1>6, ResolvedApart
<1>8. out \in Seq(Fragments)
  BY <1>2, <1>3, <1>6, OutsAre
<1> HIDE DEF N
<1>9. \A h \in Int : (\E i \in 1 .. Len(out) : Hides(out[i], h)) <=> \E f \in F : Hides(f, h)
  <2> SUFFICES ASSUME NEW h \in Int
               PROVE  (\E i \in 1 .. Len(out) : Hides(out[i], h)) <=> \E f \in F : Hides(f, h)
    OBVIOUS
  <2>1. Hidden(out, Len(out), h) <=> Hidden(s, N, h)
    BY <1>7 DEF SamePlaces
  <2>2. Hidden(s, N, h) <=> \E f \in F : Hides(f, h)
    BY <1>4, <1>5 DEF Hidden
  <2> QED BY <2>1, <2>2 DEF Hidden
<1>10. \A i \in 1 .. Len(out) : /\ \E f \in F : out[i].start = f.start
                                /\ \E f \in F : out[i].end = f.end
  BY <1>4, <1>7 DEF Apart
<1> QED BY <1>7, <1>8, <1>9, <1>10 DEF Resolution, Apart, out

\* The highest type of what a range unites, as the property says it.
HighestType(r) ==
  \/ r.start = r.end /\ r \in frags
  \/ /\ \E f \in United(r) : f.type = r.type
     /\ \A f \in United(r) : Priority[f.type] <= Priority[r.type]

\* Every resolved range has the highest type of what it unites.
LEMMA HighestTypes ==
  ASSUME Ordered(frags)
  PROVE  \A r \in ToSet(Resolved(frags)) : HighestType(r)
<1> DEFINE F == frags
           s == SortedBy(F, Precedes)
           N == Len(s)
           out == Resolved(F)
<1>1. ByPrecedence(s, F)
  BY InOrderOfPrecedence DEF Ordered
<1>2. out = Outs(s)[N]
  BY DEF Resolved
<1>3. s \in Seq(Fragments) /\ \A i, j \in 1 .. N : i < j => Precedes(s[i], s[j])
  BY <1>1 DEF ByPrecedence
<1>4. \A k \in 1 .. N : s[k] \in F
  BY <1>1 DEF ByPrecedence
<1>5. \A f \in F : \E k \in 1 .. N : s[k] = f
  BY <1>1 DEF ByPrecedence
<1>6. F \subseteq Fragments /\ \A f \in F : f.start <= f.end
  BY DEF Ordered
<1> HIDE DEF s, out, F
<1>7. N \in 0 .. N /\ \A k \in 1 .. N : s[k].start <= s[k].end
  BY <1>3, <1>4, <1>6
<1>8. \A i \in 1 .. Len(out) : TypedBy(s, N, out[i])
  BY <1>2, <1>3, <1>7, ResolvedTypes
<1>9. \A r \in ToSet(out) : TypedBy(s, N, r)
  <2>1. out \in Seq(Fragments)
    BY <1>2, <1>3, <1>7, OutsAre
  <2>2. DOMAIN out = 1 .. Len(out)
    BY <2>1
  <2> QED BY <1>8, <2>2 DEF ToSet
<1>10. ASSUME NEW k \in 1 .. N PROVE NestedAt(s, k) <=> Nested(s[k])
  <2>1. \A j \in 1 .. N : s[j] \in F /\ s[j].start \in Int /\ s[j].end \in Int /\ s[j].type \in Types
    BY <1>4, <1>6, FragmentType
  <2>2. \A j \in 1 .. N : Priority[s[j].type] \in Int /\ NameOrder[s[j].type] \in Int
    BY <2>1, TypesAssumption
  <2>3. ASSUME NestedAt(s, k) PROVE Nested(s[k])
    <3>1. PICK j \in 1 .. k - 1 : s[j].end >= s[k].end
      BY <2>3 DEF NestedAt
    <3>2. j \in 1 .. N /\ j < k
      BY <1>7
    <3>3. Precedes(s[j], s[k])
      BY <1>3, <3>2
    <3>4. s[j] # s[k] /\ s[j].start <= s[k].start
      BY <2>1, <2>2, <3>2, <3>3 DEF Precedes
    <3> HIDE DEF N
    <3>5. s[j].end >= s[k].end /\ s[k].end <= s[j].end
      BY <2>1, <3>1, <3>2
    <3> QED BY <2>1, <3>2, <3>3, <3>4, <3>5 DEF Nested, F
  <2>4. ASSUME Nested(s[k]) PROVE NestedAt(s, k)
    <3>1. PICK g \in F \ {s[k]} :
            /\ g.start <= s[k].start /\ s[k].end <= g.end
            /\ g.start = s[k].start /\ g.end = s[k].end => Precedes(g, s[k])
      BY <2>4 DEF Nested, F
    <3>2. PICK j \in 1 .. N : s[j] = g
      BY <1>5, <3>1
    <3>3. j # k
      BY <3>1, <3>2
    <3>4. ~(k < j)
      <4> SUFFICES ASSUME k < j PROVE FALSE
        OBVIOUS
      <4>1. Precedes(s[k], s[j])
        BY <1>3
      <4> QED BY <2>1, <2>2, <3>1, <3>2, <4>1 DEF Precedes
    <3>5. j \in 1 .. k - 1
      BY <1>7, <3>3, <3>4
    <3>6. s[j].end >= s[k].end
      BY <2>1, <3>1, <3>2
    <3> QED BY <3>5, <3>6 DEF NestedAt
  <2> QED BY <2>3, <2>4
<1>11. ASSUME NEW r, NEW k \in 1 .. N
       PROVE  UnitedAt(s, k, r) <=> s[k] \in United(r)
  BY <1>4, <1>10 DEF UnitedAt, United, F
<1>12. ASSUME NEW r, TypedBy(s, N, r) PROVE HighestType(r)
  <2>1. CASE r.start = r.end /\ \E k \in 1 .. N : r = s[k]
    BY <1>4, <2>1 DEF HighestType, F
  <2>2. CASE /\ \E k \in 1 .. N : UnitedAt(s, k, r) /\ s[k].type = r.type
             /\ \A k \in 1 .. N : UnitedAt(s, k, r) => Priority[s[k].type] <= Priority[r.type]
    <3>1. \E f \in United(r) : f.type = r.type
      BY <1>11, <2>2
    <3>2. \A f \in United(r) : Priority[f.type] <= Priority[r.type]
      <4> SUFFICES ASSUME NEW f \in United(r) PROVE Priority[f.type] <= Priority[r.type]
        OBVIOUS
      <4>1. PICK k \in 1 .. N : s[k] = f
        BY <1>5 DEF United, F
      <4> QED BY <1>11, <2>2, <4>1
    <3> QED BY <3>1, <3>2 DEF HighestType
  <2> QED BY <1>12, <2>1, <2>2 DEF TypedBy
<1> QED BY <1>9, <1>12 DEF out, F

----------------------------------------------------------------------------
(* Merging *)

Spans == [start: Int, end: Int]

\* The fields of a range.
LEMMA SpanType ==
  ASSUME NEW r \in Spans
  PROVE  r.start \in Int /\ r.end \in Int /\ r = [start |-> r.start, end |-> r.end]
BY DEF Spans

\* Any two ranges have an order.
LEMMA BeforeOrders ==
  ASSUME NEW F, F \subseteq Spans
  PROVE  Orders({rq \in F \X F : Before(rq[1], rq[2])}, F)
<1> DEFINE R == {rq \in F \X F : Before(rq[1], rq[2])}
<1>1. \A r, q \in F : <<r, q>> \in R <=> Before(r, q)
  OBVIOUS
<1>2. \A r \in F : r.start \in Int /\ r.end \in Int /\ r = [start |-> r.start, end |-> r.end]
  BY SpanType
<1>3. \A r \in F : ~Before(r, r)
  BY <1>2 DEF Before
<1>4. ASSUME NEW r \in F, NEW q \in F, r # q
      PROVE  Before(r, q) \/ Before(q, r)
  <2>1. r.start # q.start \/ r.end # q.end
    BY <1>2, <1>4
  <2> QED BY <1>2, <2>1 DEF Before
<1>5. ASSUME NEW r \in F, NEW q \in F, NEW p \in F, Before(r, q), Before(q, p)
      PROVE  Before(r, p)
  BY <1>2, <1>5 DEF Before
<1> HIDE DEF R
<1> QED BY <1>1, <1>3, <1>4, <1>5 DEF Orders

\* The ranges in the order of the merge.
ByBeginning(s, F) ==
  /\ s \in Seq(Spans)
  /\ \A i \in 1 .. Len(s) : s[i] \in F
  /\ \A i, j \in 1 .. Len(s) : i < j => Before(s[i], s[j])
  /\ \A r \in F : \E i \in 1 .. Len(s) : s[i] = r

\* Sorting brings the ranges into the order of their beginnings.
LEMMA InOrderOfBeginning ==
  ASSUME NEW F, IsFiniteSet(F), F \subseteq Spans
  PROVE  ByBeginning(SortedBy(F, Before), F)
<1> DEFINE N == Cardinality(F)
           R == {rq \in F \X F : Before(rq[1], rq[2])}
           Good(s) == s \in [1 .. N -> F] /\ \A i, j \in 1 .. N : i < j => Before(s[i], s[j])
           s == SortedBy(F, Before)
<1>1. N \in Nat
  BY FS_CardinalityType
<1>2. Orders(R, F)
  BY BeforeOrders
<1>3. \A q : Good(q) <=> InOrder(q, R, F)
  <2> SUFFICES ASSUME NEW q PROVE Good(q) <=> InOrder(q, R, F)
    OBVIOUS
  <2>1. ASSUME q \in [1 .. N -> F]
        PROVE  \A i, j \in 1 .. N : <<q[i], q[j]>> \in R <=> Before(q[i], q[j])
    BY <2>1
  <2> HIDE DEF R
  <2> QED BY <2>1 DEF InOrder
<1>4. \E q : Good(q)
  <2> HIDE DEF Good, R
  <2> QED BY <1>2, <1>3, SortExists
<1>5. Good(s)
  <2> HIDE DEF Before
  <2>1. \E q \in [1 .. N -> F] : \A i, j \in 1 .. N : i < j => Before(q[i], q[j])
    BY <1>4
  <2> QED BY <2>1 DEF SortedBy
<1>6. \A r \in F : \E i \in 1 .. N : s[i] = r
  <2> HIDE DEF Good, R, s
  <2> QED BY <1>2, <1>3, <1>5, SortedAll
<1>7. s \in Seq(Spans) /\ Len(s) = N
  <2> HIDE DEF s, N
  <2>1. s \in [1 .. N -> Spans]
    BY <1>5
  <2> QED BY <1>1, <2>1, FunctionIsSeq
<1> HIDE DEF s
<1>8. ByBeginning(s, F)
  <2> HIDE DEF N
  <2> QED BY <1>5, <1>6, <1>7 DEF ByBeginning
<1> QED BY <1>8 DEF s

\* q is o with r merged: behind a gap, covered, or a longer last range.
Merged(o, L, r, q) ==
  /\ L = 0 \/ r.start > o[L].end =>
       Len(q) = L + 1 /\ (\A i \in 1 .. L : q[i] = o[i]) /\ q[L + 1] = r
  /\ L > 0 /\ r.start <= o[L].end /\ r.end <= o[L].end => q = o
  /\ L > 0 /\ r.start <= o[L].end /\ r.end > o[L].end =>
       /\ Len(q) = L /\ \A i \in 1 .. L - 1 : q[i] = o[i]
       /\ q[L].start = o[L].start /\ q[L].end = r.end

\* What merging the next range makes of the merged ones.
LEMMA MergeIs ==
  ASSUME NEW o \in Seq(Spans), NEW r \in Spans, NEW L, L = Len(o),
         NEW q, q = Merge(o, r)
  PROVE  q \in Seq(Spans) /\ Merged(o, L, r, q)
<1>1. L \in Nat /\ (o = <<>> <=> L = 0) /\ Last(o) = o[L]
  BY EmptySeq DEF Last
<1>2. r.start \in Int /\ r.end \in Int
  BY SpanType
<1>3. L > 0 => o[L] \in Spans /\ o[L].start \in Int /\ o[L].end \in Int
  <2> SUFFICES ASSUME L > 0 PROVE o[L] \in Spans
    BY SpanType
  <2> QED BY <1>1
<1>4. CASE L = 0 \/ r.start > o[L].end
  <2>1. q = Append(o, r)
    BY <1>1, <1>4 DEF Merge
  <2>2. q \in Seq(Spans) /\ Len(q) = L + 1 /\ (\A i \in 1 .. L : q[i] = o[i]) /\ q[L + 1] = r
    BY <2>1, AppendProperties
  <2> QED BY <1>1, <1>2, <1>3, <1>4, <2>2 DEF Merged
<1>5. CASE L > 0 /\ r.start <= o[L].end /\ r.end <= o[L].end
  <2>1. q = o
    BY <1>1, <1>2, <1>3, <1>5 DEF Merge
  <2> QED BY <1>1, <1>2, <1>3, <1>5, <2>1 DEF Merged
<1>6. CASE L > 0 /\ r.start <= o[L].end /\ r.end > o[L].end
  <2> DEFINE e == [o[L] EXCEPT !.end = r.end]
  <2>1. e \in Spans /\ e.start = o[L].start /\ e.end = r.end
    BY <1>2, <1>3, <1>6 DEF Spans
  <2>2. q = [o EXCEPT ![L] = e]
    BY <1>1, <1>2, <1>3, <1>6 DEF Merge
  <2> HIDE DEF e
  <2>3. L \in 1 .. Len(o)
    BY <1>1, <1>6
  <2>4. q \in Seq(Spans) /\ Len(q) = L /\ \A i \in 1 .. L : q[i] = IF i = L THEN e ELSE o[i]
    BY <2>1, <2>2, <2>3, ExceptSeq
  <2>5. q[L] = e /\ \A i \in 1 .. L - 1 : q[i] = o[i]
    BY <1>1, <2>3, <2>4
  <2> QED BY <1>1, <1>2, <1>3, <1>6, <2>1, <2>4, <2>5 DEF Merged
<1> QED BY <1>1, <1>2, <1>3, <1>4, <1>5, <1>6

\* The merged ranges follow from each other, one range at a time.
LEMMA MergingsAre ==
  ASSUME NEW s \in Seq(Spans)
  PROVE  /\ Mergings(s)[0] = <<>>
         /\ \A n \in 1 .. Len(s) : Mergings(s)[n] = Merge(Mergings(s)[n - 1], s[n])
         /\ \A n \in 0 .. Len(s) : Mergings(s)[n] \in Seq(Spans)
<1> DEFINE S == Seq(Spans)
           N == Len(s)
           stepping == [n \in 1 .. N |-> [o \in S |-> Merge(o, s[n])]]
           Good(f) == f = [n \in 0 .. N |-> IF n = 0 THEN <<>> ELSE Merge(f[n - 1], s[n])]
           g == Mergings(s)
<1>1. ASSUME NEW n \in 1 .. N, NEW o \in S PROVE Merge(o, s[n]) \in S
  <2>1. s[n] \in Spans
    OBVIOUS
  <2> QED BY <2>1, MergeIs
<1>2. N \in Nat /\ <<>> \in S
  OBVIOUS
<1>3. Mergings(s) = CHOOSE f : Good(f)
  BY DEF Mergings
<1> HIDE DEF S, N
<1>4. PICK f : Iterates(f, S, N, <<>>, stepping)
  <2>1. stepping \in [1 .. N -> [S -> S]]
    BY <1>1
  <2> HIDE DEF stepping
  <2> QED BY <1>2, <2>1, Iteration
<1>5. Good(f)
  <2>1. \A n \in 1 .. N : f[n - 1] \in S /\ f[n] = Merge(f[n - 1], s[n])
    BY <1>2, <1>4 DEF Iterates
  <2> QED BY <1>2, <1>4, <2>1 DEF Iterates
<1>6. Good(g)
  <2> HIDE DEF Good
  <2> QED BY <1>3, <1>5
<1> HIDE DEF g
<1>7. g[0] = <<>> /\ \A n \in 1 .. N : g[n] = Merge(g[n - 1], s[n])
  BY <1>2, <1>6
<1>8. \A n \in 0 .. N : g[n] \in S
  BY <1>1, <1>2, <1>7, Iterated
<1> QED BY <1>7, <1>8 DEF S, N, g

\* Between two ranges of the merge a byte stays.
Gapped(o, L) == \A i, j \in 1 .. L : i < j => o[i].end < o[j].start

\* Merged ranges lie apart with a gap between them, and hide what is to be
\* hidden.
LEMMA MergedApart ==
  ASSUME NEW s \in Seq(Spans), \A k \in 1 .. Len(s) : s[k].start <= s[k].end,
         \A i, j \in 1 .. Len(s) : i < j => Before(s[i], s[j])
  PROVE  \A n \in 0 .. Len(s) :
           /\ Apart(Mergings(s)[n], Len(Mergings(s)[n]), s, n)
           /\ SamePlaces(Mergings(s)[n], Len(Mergings(s)[n]), s, n)
           /\ Gapped(Mergings(s)[n], Len(Mergings(s)[n]))
<1> DEFINE N == Len(s)
           g == Mergings(s)
           Good(n) == /\ Apart(g[n], Len(g[n]), s, n) /\ SamePlaces(g[n], Len(g[n]), s, n)
                      /\ Gapped(g[n], Len(g[n]))
           I == {n \in 0 .. N : Good(n)}
<1>1. N \in Nat /\ \A k \in 1 .. N : s[k] \in Spans /\ IsRange(s[k])
  BY SpanType DEF IsRange
<1>2. \A n \in 1 .. N : Sorted(s, n)
  <2> SUFFICES ASSUME NEW n \in 1 .. N, NEW k \in 1 .. n PROVE s[k].start <= s[n].start
    BY <1>1 DEF Sorted
  <2>1. s[k].start \in Int /\ s[n].start \in Int
    BY <1>1 DEF IsRange
  <2>2. k = n \/ Before(s[k], s[n])
    OBVIOUS
  <2> QED BY <2>1, <2>2 DEF Before
<1>3. /\ g[0] = <<>>
      /\ \A n \in 1 .. N : g[n] = Merge(g[n - 1], s[n])
      /\ \A n \in 0 .. N : g[n] \in Seq(Spans)
  BY MergingsAre
<1> HIDE DEF N, g
<1>4. Good(0)
  <2>1. Len(g[0]) = 0
    BY <1>3
  <2> QED BY <2>1 DEF Apart, SamePlaces, Hidden, Gapped
<1>5. ASSUME NEW m \in 0 .. N, m < N, Good(m) PROVE Good(m + 1)
  <2> DEFINE n == m + 1
             o == g[m]
             q == g[n]
             L == Len(o)
             f == s[n]
  <2>1. n \in 1 .. N /\ n \in Nat \ {0} /\ n - 1 = m
    BY <1>1, <1>5
  <2>2. o \in Seq(Spans) /\ L \in Nat /\ f \in Spans /\ q = Merge(o, f) /\ IsRange(f) /\ L = Len(o)
    BY <1>1, <1>3, <2>1
  <2>3. Apart(o, L, s, n - 1) /\ SamePlaces(o, L, s, n - 1) /\ Sorted(s, n) /\ Gapped(o, L)
    BY <1>2, <1>5, <2>1
  <2> HIDE DEF n, o, q, L, f
  <2>4. L > 0 => L \in 1 .. L /\ IsRange(o[L])
    BY <2>2, <2>3 DEF Apart
  <2>5. Merged(o, L, f, q)
    BY <2>2, MergeIs
  <2>6. CASE L = 0 \/ f.start > o[L].end
    <3>1. /\ L > 0 => s[n].start >= o[L].end
          /\ \A i \in 1 .. L : q[i] = o[i]
          /\ q[L + 1] = s[n] /\ Len(q) = L + 1
      BY <2>2, <2>4, <2>5, <2>6 DEF f, Merged, IsRange
    <3>2. Apart(q, L + 1, s, n) /\ SamePlaces(q, L + 1, s, n)
      BY <2>1, <2>2, <2>3, <3>1, ApartAppended
    <3>3. Gapped(q, L + 1)
      <4> SUFFICES ASSUME NEW i \in 1 .. L + 1, NEW j \in 1 .. L + 1, i < j
                   PROVE  q[i].end < q[j].start
        BY DEF Gapped
      <4>1. i \in 1 .. L /\ q[i] = o[i] /\ L > 0 /\ L \in 1 .. L
        BY <2>2, <3>1
      <4>2. CASE j \in 1 .. L
        BY <2>3, <3>1, <4>1, <4>2 DEF Gapped
      <4>3. CASE j = L + 1
        <5>1. i = L \/ o[i].end < o[L].start
          BY <2>2, <2>3, <4>1 DEF Gapped
        <5>2. o[i].end \in Int /\ o[L].start \in Int /\ o[L].end \in Int /\ o[L].start <= o[L].end
          BY <2>3, <4>1 DEF Apart, IsRange
        <5>3. q[j] = f /\ f.start > o[L].end /\ f.start \in Int
          BY <2>2, <2>6, <3>1, <4>1, <4>3 DEF f, IsRange
        <5> QED BY <4>1, <5>1, <5>2, <5>3
      <4> QED BY <2>2, <4>2, <4>3
    <3> QED BY <3>1, <3>2, <3>3 DEF n, q
  <2>7. CASE L > 0 /\ f.start <= o[L].end /\ f.end <= o[L].end
    <3>1. q = o /\ s[n].end <= o[L].end
      BY <2>5, <2>7 DEF f, Merged
    <3>2. Apart(o, L, s, n) /\ SamePlaces(o, L, s, n)
      BY <2>1, <2>2, <2>3, <2>7, <3>1, ApartCovered
    <3> QED BY <2>3, <3>1, <3>2 DEF n, q, L
  <2>8. CASE L > 0 /\ f.start <= o[L].end /\ f.end > o[L].end
    <3>1. /\ Len(q) = L /\ q[L].start = o[L].start /\ q[L].end = s[n].end
          /\ \A i \in 1 .. L - 1 : q[i] = o[i]
      BY <2>5, <2>8 DEF Merged, f
    <3>2. s[n].start <= o[L].end /\ s[n].end > o[L].end
      BY <2>8 DEF f
    <3>3. Apart(q, L, s, n) /\ SamePlaces(q, L, s, n)
      BY <2>1, <2>2, <2>3, <2>8, <3>1, <3>2, ApartExtended
    <3>4. Gapped(q, L)
      <4> SUFFICES ASSUME NEW i \in 1 .. L, NEW j \in 1 .. L, i < j
                   PROVE  q[i].end < q[j].start
        BY DEF Gapped
      <4>1. i \in 1 .. L - 1 /\ (j = L \/ j \in 1 .. L - 1)
        BY <2>2
      <4>2. q[i] = o[i] /\ q[j].start = o[j].start
        BY <3>1, <4>1
      <4> QED BY <2>3, <4>2 DEF Gapped
    <3> QED BY <3>1, <3>3, <3>4 DEF n, q
  <2> QED BY <2>2, <2>4, <2>6, <2>7, <2>8 DEF IsRange
<1>6. I = 0 .. N
  <2> HIDE DEF Good
  <2>1. I \subseteq 0 .. N /\ 0 \in I /\ \A n \in I : n < N => n + 1 \in I
    BY <1>1, <1>4, <1>5
  <2> HIDE DEF I
  <2> QED BY <1>1, <2>1, Induct
<1> QED BY <1>6 DEF N, g

\* What is merged of the ranges F, said without their order.
Merger(m, F) ==
  /\ m \in Seq(Spans)
  /\ \A i \in 1 .. Len(m) : IsRange(m[i])
  /\ Gapped(m, Len(m))
  /\ \A i \in 1 .. Len(m) : /\ \E r \in F : m[i].start = r.start
                            /\ \E r \in F : m[i].end = r.end
  /\ \A h \in Int : (\E i \in 1 .. Len(m) : Hides(m[i], h)) <=> \E r \in F : Hides(r, h)

\* The ranges as merged lie apart, in order, and hide the same places.
LEMMA MergerIs ==
  ASSUME NEW F, IsFiniteSet(F), F \subseteq Spans, \A r \in F : r.start <= r.end
  PROVE  Merger(MergeRanges(F), F)
<1> DEFINE s == SortedBy(F, Before)
           N == Len(s)
           out == MergeRanges(F)
<1>1. ByBeginning(s, F)
  BY InOrderOfBeginning
<1>2. out = Mergings(s)[N]
  BY DEF MergeRanges
<1>3. s \in Seq(Spans) /\ \A i, j \in 1 .. N : i < j => Before(s[i], s[j])
  BY <1>1 DEF ByBeginning
<1>4. \A k \in 1 .. N : s[k] \in F
  BY <1>1 DEF ByBeginning
<1>5. \A r \in F : \E k \in 1 .. N : s[k] = r
  BY <1>1 DEF ByBeginning
<1> HIDE DEF s, out
<1>6. N \in 0 .. N /\ \A k \in 1 .. N : s[k].start <= s[k].end
  BY <1>3, <1>4
<1>7. Apart(out, Len(out), s, N) /\ SamePlaces(out, Len(out), s, N) /\ Gapped(out, Len(out))
  BY <1>2, <1>3, <1>6, MergedApart
<1>8. out \in Seq(Spans)
  BY <1>2, <1>3, <1>6, MergingsAre
<1> HIDE DEF N
<1>9. \A h \in Int : (\E i \in 1 .. Len(out) : Hides(out[i], h)) <=> \E r \in F : Hides(r, h)
  <2> SUFFICES ASSUME NEW h \in Int
               PROVE  (\E i \in 1 .. Len(out) : Hides(out[i], h)) <=> \E r \in F : Hides(r, h)
    OBVIOUS
  <2>1. Hidden(out, Len(out), h) <=> Hidden(s, N, h)
    BY <1>7 DEF SamePlaces
  <2>2. Hidden(s, N, h) <=> \E r \in F : Hides(r, h)
    BY <1>4, <1>5 DEF Hidden
  <2> QED BY <2>1, <2>2 DEF Hidden
<1>10. \A i \in 1 .. Len(out) : /\ \E r \in F : out[i].start = r.start
                                /\ \E r \in F : out[i].end = r.end
  BY <1>4, <1>7 DEF Apart
<1> QED BY <1>7, <1>8, <1>9, <1>10 DEF Merger, Apart, out

----------------------------------------------------------------------------
(* The merged ranges of a text *)

\* The merged ranges lie in the text, cut no rune and leave a byte between them.
Fits(m, t) ==
  /\ m \in Seq(Spans)
  /\ Gapped(m, Len(m))
  /\ \A i \in 1 .. Len(m) :
       /\ m[i].start \in RuneStarts(t) /\ m[i].end \in RuneStarts(t)
       /\ m[i].start <= m[i].end

\* The text of a proper input.
LEMMA ProperText ==
  ASSUME ProperInput(input)
  PROVE  /\ text \in Texts /\ Len(text) \in Nat /\ WholeRunes(text)
         /\ RuneStarts(text) \subseteq 0 .. Len(text)
         /\ input.format \in {"marker", "stars"}
<1>1. text \in Seq(STRING)
  BY DEF ProperInput, text
<1> QED BY <1>1, TextsAre DEF ProperInput, text, RuneStarts

\* Fragments that are not refused lie in the text, and between runes.
LEMMA ProperFragments ==
  ASSUME ProperInput(input), \A f \in frags : ~FailsOn(f)
  PROVE  /\ Ordered(frags)
         /\ \A f \in frags : f.start \in RuneStarts(text) /\ f.end \in RuneStarts(text)
<1>1. IsFiniteSet(frags) /\ frags \subseteq Fragments
  BY DEF ProperInput, frags, Fragments
<1>2. ASSUME NEW f \in frags
      PROVE  /\ f.start <= f.end /\ f.start \in RuneStarts(text) /\ f.end \in RuneStarts(text)
  <2>1. f.start \in Int /\ f.end \in Int /\ Len(text) \in Nat
    BY <1>1, FragmentType, ProperText
  <2>2. /\ ~(f.start < 0) /\ ~(f.end > Len(text)) /\ ~(f.start > f.end)
        /\ f.start < f.end => f.start \in RuneStarts(text) /\ f.end \in RuneStarts(text)
    BY DEF FailsOn, Invalid
  <2>3. 0 <= f.start /\ f.start <= f.end /\ f.end <= Len(text)
    BY <2>1, <2>2
  <2>4. f.start = f.end => f.start \in RuneStarts(text)
    <3> SUFFICES ASSUME f.start = f.end PROVE f.start \in RuneStarts(text)
      OBVIOUS
    <3>1. f.start \in 0 .. Len(text)
      BY <2>1, <2>3
    <3> QED BY <3>1 DEF ProperInput, frags, text
  <2> QED BY <2>1, <2>2, <2>3, <2>4
<1> QED BY <1>1, <1>2 DEF Ordered

\* The merged ranges fit into the text and hide what the fragments hide.
LEMMA RangesFit ==
  ASSUME ProperInput(input), \A f \in frags : ~FailsOn(f), resolved = Resolved(frags)
  PROVE  /\ Fits(MergeRanges(Ranges), text)
         /\ \A h \in Int :
              (\E i \in 1 .. Len(MergeRanges(Ranges)) : Hides(MergeRanges(Ranges)[i], h))
                <=> \E f \in frags : Hides(f, h)
<1> DEFINE m == MergeRanges(Ranges)
           span(f) == [start |-> f.start, end |-> f.end]
           spans == [i \in 1 .. Len(resolved) |-> span(resolved[i])]
<1>1. Ordered(frags)
  BY ProperFragments
<1>2. Resolution(resolved, frags)
  BY <1>1, ResolvedIs
<1>3. resolved \in Seq(Fragments) /\ Len(resolved) \in Nat /\ DOMAIN resolved = 1 .. Len(resolved)
  BY <1>2 DEF Resolution
<1>4. Ranges = {span(resolved[i]) : i \in 1 .. Len(resolved)}
  BY <1>3 DEF Ranges, ToSet
<1>5. IsFiniteSet(Ranges)
  <2>1. spans \in Surjection(1 .. Len(resolved), Ranges)
    BY <1>4 DEF Surjection
  <2>2. IsFiniteSet(1 .. Len(resolved))
    BY <1>3, FS_Interval
  <2> HIDE DEF spans
  <2> QED BY <2>1, <2>2, FS_Surjection
<1>6. \A i \in 1 .. Len(resolved) : IsRange(resolved[i])
  BY <1>2 DEF Resolution
<1>7. Ranges \subseteq Spans /\ \A r \in Ranges : r.start <= r.end
  BY <1>4, <1>6 DEF Spans, IsRange
<1>8. Merger(m, Ranges)
  BY <1>5, <1>7, MergerIs
<1>9. \A r \in Ranges : (\E f \in frags : r.start = f.start) /\ (\E f \in frags : r.end = f.end)
  BY <1>2, <1>4 DEF Resolution
<1>10. ASSUME NEW h \in Int
       PROVE  (\E r \in Ranges : Hides(r, h)) <=> \E f \in frags : Hides(f, h)
  <2>1. \A i \in 1 .. Len(resolved) : Hides(span(resolved[i]), h) <=> Hides(resolved[i], h)
    BY DEF Hides
  <2>2. (\E r \in Ranges : Hides(r, h)) <=> \E i \in 1 .. Len(resolved) : Hides(resolved[i], h)
    BY <1>4, <2>1
  <2> QED BY <1>2, <2>2 DEF Resolution
<1> HIDE DEF m
<1>11. \A i \in 1 .. Len(m) : m[i].start \in RuneStarts(text) /\ m[i].end \in RuneStarts(text)
  <2> SUFFICES ASSUME NEW i \in 1 .. Len(m)
               PROVE  m[i].start \in RuneStarts(text) /\ m[i].end \in RuneStarts(text)
    OBVIOUS
  <2>1. PICK r \in Ranges : m[i].start = r.start
    BY <1>8 DEF Merger
  <2>2. PICK q \in Ranges : m[i].end = q.end
    BY <1>8 DEF Merger
  <2> QED BY <1>9, <2>1, <2>2, ProperFragments
<1>12. Fits(m, text)
  BY <1>8, <1>11 DEF Fits, Merger, IsRange
<1>13. \A h \in Int : (\E i \in 1 .. Len(m) : Hides(m[i], h)) <=> \E f \in frags : Hides(f, h)
  BY <1>8, <1>10 DEF Merger
<1> QED BY <1>12, <1>13 DEF m

----------------------------------------------------------------------------
(* Texts *)

\* The bytes of a slice.
LEMMA SliceIs ==
  ASSUME NEW t \in Texts, NEW a \in 0 .. Len(t), NEW b \in a .. Len(t)
  PROVE  /\ Slice(t, a, b) \in Texts /\ Len(Slice(t, a, b)) = b - a
         /\ \A i \in 1 .. b - a : Slice(t, a, b)[i] = t[a + i]
<1>1. Len(t) \in Nat /\ \A i \in a + 1 .. b : t[i] \in Bytes
  BY DEF Texts
<1>2. a + 1 \in Int /\ b \in Int
  BY <1>1
<1>3. /\ SubSeq(t, a + 1, b) \in Seq(Bytes)
      /\ Len(SubSeq(t, a + 1, b)) = IF a + 1 <= b THEN b - (a + 1) + 1 ELSE 0
      /\ \A i \in 1 .. b - (a + 1) + 1 : SubSeq(t, a + 1, b)[i] = t[(a + 1) + i - 1]
  BY <1>1, <1>2, SubSeqProperties
<1>4. b - (a + 1) + 1 = b - a /\ \A i \in Int : (a + 1) + i - 1 = a + i
  BY <1>1
<1> QED BY <1>1, <1>3, <1>4 DEF Slice, Texts

\* A slice that ends where it begins is empty.
LEMMA SliceNone ==
  ASSUME NEW t, NEW a \in Int, NEW b \in Int, b <= a
  PROVE  Slice(t, a, b) = <<>>
BY SubSeqEmpty, a + 1 \in Int, b < a + 1 DEF Slice

\* Two slices side by side are one.
LEMMA SliceAdjacent ==
  ASSUME NEW t \in Texts, NEW a \in 0 .. Len(t), NEW b \in a .. Len(t), NEW c \in b .. Len(t)
  PROVE  Slice(t, a, b) \o Slice(t, b, c) = Slice(t, a, c)
<1>1. Len(t) \in Nat
  BY DEF Texts
<1>2. a + 1 \in 1 .. Len(t) + 1 /\ b \in (a + 1) - 1 .. Len(t)
  BY <1>1
<1> QED BY <1>2, ConcatAdjacentSubSeq DEF Slice, Texts

\* A slice of one byte.
LEMMA SliceByte ==
  ASSUME NEW t \in Texts, NEW b \in 0 .. Len(t) - 1
  PROVE  Slice(t, b, b + 1) = <<t[b + 1]>> /\ t[b + 1] \in Bytes
<1>1. Len(t) \in Nat /\ b \in 0 .. Len(t) /\ b + 1 \in b .. Len(t) /\ (b + 1) - b = 1
      /\ b + 1 \in 1 .. Len(t)
  BY DEF Texts
<1>2. t[b + 1] \in Bytes
  BY <1>1 DEF Texts
<1>3. <<t[b + 1]>> \in Texts
  BY <1>2 DEF Texts
<1>4. Slice(t, b, b + 1) \in Texts /\ Len(Slice(t, b, b + 1)) = 1 /\ Slice(t, b, b + 1)[1] = t[b + 1]
  <2> DEFINE c == b + 1
             u == Slice(t, b, c)
  <2>1. c \in b .. Len(t) /\ c - b = 1 /\ 1 \in 1 .. c - b
    BY <1>1
  <2> HIDE DEF c
  <2>2. u \in Texts /\ Len(u) = c - b /\ \A i \in 1 .. c - b : u[i] = t[b + i]
    BY <1>1, <2>1, SliceIs
  <2> QED BY <2>1, <2>2 DEF c
<1>5. Slice(t, b, b + 1) = <<t[b + 1]>>
  BY <1>3, <1>4, SeqEqual DEF Texts
<1> QED BY <1>2, <1>5

\* Joining texts is associative.
LEMMA TextsAssociative ==
  ASSUME NEW a \in Texts, NEW b \in Texts, NEW c \in Texts
  PROVE  (a \o b) \o c = a \o (b \o c)
BY ConcatAssociative DEF Texts

\* The bytes of two texts joined.
LEMMA TextsConcat ==
  ASSUME NEW a \in Texts, NEW b \in Texts
  PROVE  /\ a \o b \in Texts /\ Len(a \o b) = Len(a) + Len(b)
         /\ \A i \in 1 .. Len(a) + Len(b) : (a \o b)[i] = IF i <= Len(a) THEN a[i] ELSE b[i - Len(a)]
BY ConcatProperties DEF Texts

\* The empty text changes nothing.
LEMMA TextsEmpty ==
  ASSUME NEW a \in Texts
  PROVE  a \o <<>> = a /\ <<>> \o a = a
BY ConcatEmptySeq DEF Texts

\* The slice of everything.
LEMMA SliceAll ==
  ASSUME NEW t \in Texts
  PROVE  Slice(t, 0, Len(t)) = t
BY SubSeqFull DEF Slice, Texts

\* g gives what the first cells make, one after the other.
Flattens(g, cells, N) ==
  /\ g[0] = <<>>
  /\ \A n \in 1 .. N : g[n] = g[n - 1] \o cells[n]
  /\ \A n \in 0 .. N : g[n] \in Texts

\* Flattening joins one cell after the other.
LEMMA FlattenIs ==
  ASSUME NEW N \in Nat \ {0}, NEW cells \in [1 .. N -> Texts]
  PROVE  \E g : Flattens(g, cells, N) /\ g[N] = FlattenSeq(cells)
<1> DEFINE S == Texts
           stepping == [n \in 1 .. N |-> [o \in S |-> o \o cells[n]]]
           Good(f) == f = [i \in 1 .. N |-> IF i = 1 THEN cells[i] ELSE f[i - 1] \o cells[i]]
           flat == CHOOSE f : Good(f)
           g == [n \in 0 .. N |-> IF n = 0 THEN <<>> ELSE flat[n]]
<1>1. cells \in Seq(Texts) /\ Len(cells) = N
  BY FunctionIsSeq
<1>2. FlattenSeq(cells) = flat[N]
  BY <1>1 DEF FlattenSeq
<1>3. ASSUME NEW n \in 1 .. N, NEW o \in S PROVE o \o cells[n] \in S
  BY ConcatProperties DEF Texts
<1>4. <<>> \in S
  BY DEF Texts
<1> HIDE DEF S
<1>5. PICK f : Iterates(f, S, N, <<>>, stepping)
  <2>1. stepping \in [1 .. N -> [S -> S]]
    BY <1>3
  <2> HIDE DEF stepping
  <2> QED BY <1>4, <2>1, Iteration
<1>6. f \in [0 .. N -> S] /\ f[0] = <<>> /\ \A n \in 1 .. N : f[n] = f[n - 1] \o cells[n]
  <2>1. ASSUME NEW n \in 1 .. N PROVE f[n] = f[n - 1] \o cells[n]
    <3>1. n - 1 \in 0 .. N
      OBVIOUS
    <3>2. f[n - 1] \in S /\ f[n] = stepping[n][f[n - 1]]
      BY <1>5, <3>1 DEF Iterates
    <3> QED BY <3>2
  <2> QED BY <1>5, <2>1 DEF Iterates
<1>7. f[1] = cells[1]
  <2>1. 1 \in 1 .. N /\ 1 - 1 = 0 /\ cells[1] \in Texts
    OBVIOUS
  <2>2. f[1] = f[0] \o cells[1]
    BY <1>6, <2>1
  <2>3. <<>> \o cells[1] = cells[1]
    BY <2>1, ConcatEmptySeq DEF Texts
  <2> QED BY <1>6, <2>2, <2>3
<1>8. Good([i \in 1 .. N |-> f[i]])
  <2> SUFFICES ASSUME NEW i \in 1 .. N
               PROVE  f[i] = IF i = 1 THEN cells[i] ELSE [j \in 1 .. N |-> f[j]][i - 1] \o cells[i]
    OBVIOUS
  <2>1. CASE i = 1
    BY <1>7, <2>1
  <2>2. CASE i # 1
    <3>1. i - 1 \in 1 .. N
      BY <2>2
    <3> QED BY <1>6, <2>2, <3>1
  <2> QED BY <2>1, <2>2
<1>9. Good(flat)
  <2> HIDE DEF Good
  <2> QED BY <1>8
<1> HIDE DEF flat
<1>10. g[0] = <<>> /\ g[N] = flat[N]
  OBVIOUS
<1>11. \A n \in 1 .. N : g[n] = g[n - 1] \o cells[n]
  <2> SUFFICES ASSUME NEW n \in 1 .. N PROVE g[n] = g[n - 1] \o cells[n]
    OBVIOUS
  <2>1. CASE n = 1
    <3>1. g[n] = cells[n] /\ g[n - 1] = <<>> /\ cells[n] \in Texts
      BY <1>9, <2>1
    <3> HIDE DEF g
    <3> QED BY <3>1, ConcatEmptySeq DEF Texts
  <2>2. CASE n # 1
    <3>1. n - 1 \in 1 .. N /\ n - 1 \in 0 .. N /\ n - 1 # 0
      BY <2>2
    <3>2. g[n] = flat[n] /\ g[n - 1] = flat[n - 1]
      BY <3>1
    <3>3. flat[n] = flat[n - 1] \o cells[n]
      BY <1>9, <2>2
    <3> HIDE DEF g
    <3> QED BY <3>2, <3>3
  <2> QED BY <2>1, <2>2
<1> HIDE DEF g
<1>12. \A n \in 0 .. N : g[n] \in S
  BY <1>3, <1>4, <1>10, <1>11, Iterated
<1>13. Flattens(g, cells, N)
  BY <1>10, <1>11, <1>12 DEF Flattens, S
<1> QED BY <1>2, <1>10, <1>13

----------------------------------------------------------------------------
(* The mask of a text *)

Table == Seq([marker: Texts, start: Int, end: Int, original: Texts])

\* done[n] is what the first n ranges of m are replaced with in t.
Replacing(done, t, markers, m) ==
  /\ done[0] = Nothing
  /\ \A n \in 1 .. Len(m) : done[n] = Replace(t, markers[n], done[n - 1], m[n])
  /\ \A n \in 0 .. Len(m) :
       /\ done[n].masked \in Texts /\ done[n].table \in Table
       /\ done[n].last = IF n = 0 THEN 0 ELSE m[n].end
       /\ Len(done[n].table) = n
       /\ \A i \in 1 .. n :
            done[n].table[i] = [marker |-> markers[i], start |-> m[i].start, end |-> m[i].end,
                                original |-> Slice(t, m[i].start, m[i].end)]

\* The places of the ranges, as the steps below use them.
LEMMA FitsIs ==
  ASSUME NEW t \in Texts, NEW m, Fits(m, t)
  PROVE  /\ Len(m) \in Nat /\ Len(t) \in Nat
         /\ \A n \in 1 .. Len(m) :
              /\ m[n] \in Spans
              /\ m[n].start \in 0 .. Len(t) /\ m[n].end \in m[n].start .. Len(t)
              /\ m[n].end \in 0 .. Len(t)
         /\ \A i, j \in 1 .. Len(m) : i < j => m[i].end < m[j].start
<1>1. Len(t) \in Nat /\ RuneStarts(t) \subseteq 0 .. Len(t)
  BY DEF RuneStarts, Texts
<1>2. m \in Seq(Spans)
  BY DEF Fits
<1>3. \A n \in 1 .. Len(m) :
        m[n].start \in 0 .. Len(t) /\ m[n].end \in 0 .. Len(t) /\ m[n].start <= m[n].end
  BY <1>1 DEF Fits
<1>4. Len(m) \in Nat /\ \A n \in 1 .. Len(m) : m[n] \in Spans
  BY <1>2
<1>5. \A n \in 1 .. Len(m) : m[n].end \in m[n].start .. Len(t)
  BY <1>1, <1>3
<1> QED BY <1>1, <1>3, <1>4, <1>5 DEF Fits, Gapped

\* Where the text behind the first n ranges begins.
LEMMA LastFits ==
  ASSUME NEW t \in Texts, NEW m, Fits(m, t), NEW n \in 1 .. Len(m)
  PROVE  LET last == IF n - 1 = 0 THEN 0 ELSE m[n - 1].end
         IN  last \in 0 .. Len(t) /\ last <= m[n].start /\ m[n].start \in last .. Len(t)
<1>1. CASE n - 1 = 0
  BY <1>1, FitsIs
<1>2. CASE n - 1 # 0
  <2>1. Len(m) \in Nat /\ n - 1 \in 1 .. Len(m) /\ n - 1 < n
    BY <1>2, FitsIs
  <2>2. m[n - 1].end \in 0 .. Len(t) /\ m[n].start \in 0 .. Len(t) /\ m[n - 1].end < m[n].start
    BY <2>1, FitsIs
  <2>3. Len(t) \in Nat
    BY FitsIs
  <2> QED BY <1>2, <2>2, <2>3
<1> QED BY <1>1, <1>2

\* e is d with one more range replaced.
Entry(t, marker, r) ==
  [marker |-> marker, start |-> r.start, end |-> r.end, original |-> Slice(t, r.start, r.end)]

Adds(e, d, entry) ==
  /\ e.masked \in Texts /\ e.table \in Table
  /\ Len(e.table) = Len(d.table) + 1
  /\ e.table[Len(d.table) + 1] = entry
  /\ \A i \in 1 .. Len(d.table) : e.table[i] = d.table[i]

Done(t) == [masked: Texts, table: Table, last: 0 .. Len(t)]

\* A replacement adds the text before its range, the marker and an entry.
LEMMA ReplaceIs ==
  ASSUME NEW t \in Texts, NEW marker \in Texts, NEW r \in Spans,
         r.start \in 0 .. Len(t), r.end \in r.start .. Len(t),
         NEW d \in Done(t)
  PROVE  /\ Replace(t, marker, d, r) \in Done(t)
         /\ Adds(Replace(t, marker, d, r), d, Entry(t, marker, r))
<1> DEFINE e == Replace(t, marker, d, r)
           entry == Entry(t, marker, r)
<1>1. /\ Len(t) \in Nat /\ r.end \in 0 .. Len(t)
      /\ d.masked \in Texts /\ d.table \in Table /\ d.last \in 0 .. Len(t)
  BY DEF Texts, Done
<1>2. Slice(t, r.start, r.end) \in Texts
  BY SliceIs
<1>3. Slice(t, d.last, r.start) \in Texts
  <2>1. CASE d.last <= r.start
    <3>1. r.start \in d.last .. Len(t)
      BY <1>1, <2>1
    <3> QED BY <1>1, <3>1, SliceIs
  <2>2. CASE ~(d.last <= r.start)
    <3>1. Slice(t, d.last, r.start) = <<>>
      BY <1>1, <2>2, SliceNone
    <3> QED BY <3>1 DEF Texts
  <2> QED BY <2>1, <2>2
<1>4. d.masked \o Slice(t, d.last, r.start) \o marker \in Texts
  BY <1>1, <1>3, ConcatProperties DEF Texts
<1>5. entry \in [marker: Texts, start: Int, end: Int, original: Texts]
  BY <1>1, <1>2, SpanType DEF Entry
<1>6. /\ Append(d.table, entry) \in Table
      /\ Len(Append(d.table, entry)) = Len(d.table) + 1
      /\ \A i \in 1 .. Len(d.table) : Append(d.table, entry)[i] = d.table[i]
      /\ Append(d.table, entry)[Len(d.table) + 1] = entry
  <2> HIDE DEF entry
  <2> QED BY <1>1, <1>5, AppendProperties DEF Table
<1>7. e = [masked |-> d.masked \o Slice(t, d.last, r.start) \o marker,
           table |-> Append(d.table, entry), last |-> r.end]
  BY DEF Replace, Entry
<1>8. e \in Done(t)
  <2> HIDE DEF e, entry
  <2> QED BY <1>1, <1>4, <1>6, <1>7 DEF Done
<1>9. Adds(e, d, entry)
  <2> HIDE DEF e, entry
  <2> QED BY <1>4, <1>6, <1>7 DEF Adds
<1> QED BY <1>8, <1>9

\* The replacements follow from each other, one range at a time.
LEMMA ReplacementsAre ==
  ASSUME NEW t \in Texts, NEW m, Fits(m, t), NEW markers \in [1 .. Len(m) -> Texts]
  PROVE  Replacing(Replacements(t, markers, m), t, markers, m)
<1> DEFINE S == Done(t)
           N == Len(m)
           stepping == [n \in 1 .. N |-> [d \in S |-> Replace(t, markers[n], d, m[n])]]
           Good(f) == f = [n \in 0 .. N |-> IF n = 0 THEN Nothing
                                            ELSE Replace(t, markers[n], f[n - 1], m[n])]
           g == Replacements(t, markers, m)
<1>1. N \in Nat /\ Len(t) \in Nat /\ \A n \in 1 .. N :
        m[n] \in Spans /\ m[n].start \in 0 .. Len(t) /\ m[n].end \in m[n].start .. Len(t)
  BY FitsIs
<1>2. ASSUME NEW n \in 1 .. N, NEW d \in S
      PROVE  /\ Replace(t, markers[n], d, m[n]) \in S
             /\ Adds(Replace(t, markers[n], d, m[n]), d, Entry(t, markers[n], m[n]))
  BY <1>1, ReplaceIs
<1>3. Nothing \in S
  BY <1>1 DEF Nothing, Done, Texts, Table
<1>4. g = CHOOSE f : Good(f)
  BY DEF Replacements
<1> HIDE DEF S, N
<1>5. PICK f : Iterates(f, S, N, Nothing, stepping)
  <2>1. stepping \in [1 .. N -> [S -> S]]
    BY <1>2
  <2> HIDE DEF stepping
  <2> QED BY <1>1, <1>3, <2>1, Iteration
<1>6. Good(f)
  <2>1. ASSUME NEW n \in 1 .. N
        PROVE  f[n - 1] \in S /\ f[n] = Replace(t, markers[n], f[n - 1], m[n])
    <3>1. n - 1 \in 0 .. N
      BY <1>1
    <3>2. f[n - 1] \in S /\ f[n] = stepping[n][f[n - 1]]
      BY <1>5, <3>1 DEF Iterates
    <3> QED BY <3>2
  <2> QED BY <1>1, <1>5, <2>1 DEF Iterates
<1>7. Good(g)
  <2> HIDE DEF Good
  <2> QED BY <1>4, <1>6
<1> HIDE DEF g
<1>8. g[0] = Nothing /\ \A n \in 1 .. N : g[n] = Replace(t, markers[n], g[n - 1], m[n])
  <2>1. 0 \in 0 .. N /\ \A n \in 1 .. N : n \in 0 .. N /\ n # 0
    BY <1>1
  <2>2. g[0] = Nothing
    BY <1>7, <2>1
  <2>3. ASSUME NEW n \in 1 .. N PROVE g[n] = Replace(t, markers[n], g[n - 1], m[n])
    BY <1>7, <2>1
  <2> QED BY <2>2, <2>3
<1>9. \A n \in 0 .. N : g[n] \in S
  BY <1>1, <1>2, <1>3, <1>8, Iterated
<1>10. \A n \in 0 .. N : g[n].last = IF n = 0 THEN 0 ELSE m[n].end
  <2> SUFFICES ASSUME NEW n \in 0 .. N PROVE g[n].last = IF n = 0 THEN 0 ELSE m[n].end
    OBVIOUS
  <2>1. CASE n = 0
    BY <1>8, <2>1 DEF Nothing
  <2>2. CASE n # 0
    <3>1. g[n] = Replace(t, markers[n], g[n - 1], m[n])
      BY <1>1, <1>8, <2>2
    <3> QED BY <2>2, <3>1 DEF Replace
  <2> QED BY <2>1, <2>2
<1> DEFINE Right(n) == /\ Len(g[n].table) = n
                       /\ \A i \in 1 .. n : g[n].table[i] = Entry(t, markers[i], m[i])
           I == {n \in 0 .. N : Right(n)}
<1>11. Right(0)
  BY <1>8 DEF Nothing
<1>12. ASSUME NEW n \in 0 .. N, n < N, Right(n) PROVE Right(n + 1)
  <2>1. n + 1 \in 1 .. N /\ (n + 1) - 1 = n
    BY <1>1, <1>12
  <2>2. Adds(g[n + 1], g[n], Entry(t, markers[n + 1], m[n + 1]))
    <3>1. g[n] \in S /\ g[n + 1] = Replace(t, markers[n + 1], g[n], m[n + 1])
      BY <1>8, <1>9, <2>1
    <3> QED BY <1>2, <2>1, <3>1
  <2>3. \A i \in 1 .. n + 1 : i = n + 1 \/ i \in 1 .. n
    OBVIOUS
  <2> QED BY <1>12, <2>2, <2>3 DEF Adds
<1>13. I = 0 .. N
  <2> HIDE DEF Right
  <2>1. I \subseteq 0 .. N /\ 0 \in I /\ \A n \in I : n < N => n + 1 \in I
    BY <1>1, <1>11, <1>12
  <2> HIDE DEF I
  <2> QED BY <1>1, <2>1, Induct
<1>14. \A n \in 0 .. N : g[n].masked \in Texts /\ g[n].table \in Table
  BY <1>9 DEF S, Done
<1>15. Replacing(g, t, markers, m)
  BY <1>8, <1>10, <1>13, <1>14 DEF Replacing, Entry, N
<1> QED BY <1>15 DEF g

\* What the places of a text make one after the other: the marker of a range at
\* its first place, nothing at its others, and each byte that no range hides.
OfPlaces(cells, t, markers, m) ==
  /\ cells \in [1 .. 2 * Len(t) + 1 -> Texts]
  /\ \A k \in 1 .. Len(m) : cells[2 * m[k].start + 1] = markers[k]
  /\ \A n \in 1 .. 2 * Len(t) + 1 :
       /\ (\E k \in 1 .. Len(m) : Hides(m[k], n - 1)) /\ (\A k \in 1 .. Len(m) : n - 1 # 2 * m[k].start)
            => cells[n] = <<>>
       /\ (\A k \in 1 .. Len(m) : ~Hides(m[k], n - 1))
            => cells[n] = IF n % 2 = 1 THEN <<>> ELSE <<t[n \div 2]>>

\* A place is a gap or a byte.
LEMMA Halves ==
  ASSUME NEW c \in Nat
  PROVE  /\ c \div 2 \in Nat /\ (c + 1) \div 2 \in Nat
         /\ \/ /\ c = 2 * (c \div 2) /\ (c + 1) % 2 = 1 /\ (c + 1) \div 2 = c \div 2
            \/ /\ c = 2 * (c \div 2) + 1 /\ (c + 1) % 2 = 0 /\ (c + 1) \div 2 = (c \div 2) + 1
OBVIOUS

\* The mask is what its places make.
LEMMA MaskIsFlat ==
  ASSUME NEW t \in Texts, NEW m, Fits(m, t), NEW markers \in [1 .. Len(m) -> Texts],
         NEW cells, OfPlaces(cells, t, markers, m)
  PROVE  FlattenSeq(cells) = Replaced(t, markers, m).masked
<1> DEFINE M == Len(m)
           N == Len(t)
           C == 2 * N + 1
           done == Replacements(t, markers, m)
           Behind(c, k) == /\ \A i \in 1 .. k : 2 * m[i].start < c
                           /\ \A i \in k + 1 .. M : 2 * m[i].start >= c
<1>1. /\ M \in Nat /\ N \in Nat /\ C \in Nat \ {0}
      /\ \A n \in 1 .. M : /\ m[n] \in Spans
                           /\ m[n].start \in 0 .. N /\ m[n].end \in m[n].start .. N
                           /\ m[n].end \in 0 .. N
      /\ \A i, j \in 1 .. M : i < j => m[i].end < m[j].start
  BY FitsIs
<1>2. Replacing(done, t, markers, m)
  BY ReplacementsAre
<1>3. PICK g : Flattens(g, cells, C) /\ g[C] = FlattenSeq(cells)
  BY <1>1, FlattenIs DEF OfPlaces
<1> DEFINE Upto(c, k) == g[c] = done[k].masked \o Slice(t, done[k].last, c \div 2)
           Good(c) == \E k \in 0 .. M : Behind(c, k) /\ Upto(c, k)
           I == {c \in 0 .. C : Good(c)}
<1>4. Replaced(t, markers, m).masked = done[M].masked \o Slice(t, done[M].last, N)
  BY DEF Replaced
<1>5. \A k \in 0 .. M : /\ done[k].masked \in Texts
                        /\ done[k].last = IF k = 0 THEN 0 ELSE m[k].end
                        /\ done[k].last \in 0 .. N
  <2> SUFFICES ASSUME NEW k \in 0 .. M
               PROVE  /\ done[k].masked \in Texts
                      /\ done[k].last = IF k = 0 THEN 0 ELSE m[k].end
                      /\ done[k].last \in 0 .. N
    OBVIOUS
  <2> HIDE DEF done
  <2>1. done[k].masked \in Texts /\ done[k].last = IF k = 0 THEN 0 ELSE m[k].end
    BY <1>2 DEF Replacing
  <2>2. k # 0 => m[k].end \in 0 .. N
    BY <1>1
  <2> QED BY <1>1, <2>1, <2>2
<1>6. \A k \in 1 .. M :
        done[k].masked = done[k - 1].masked \o Slice(t, done[k - 1].last, m[k].start) \o markers[k]
  <2> SUFFICES ASSUME NEW k \in 1 .. M
               PROVE  done[k].masked
                        = done[k - 1].masked \o Slice(t, done[k - 1].last, m[k].start) \o markers[k]
    OBVIOUS
  <2> DEFINE d == done[k - 1]
  <2> HIDE DEF done
  <2>1. done[k] = Replace(t, markers[k], d, m[k])
    BY <1>2 DEF Replacing
  <2> HIDE DEF d
  <2>2. Replace(t, markers[k], d, m[k]).masked = d.masked \o Slice(t, d.last, m[k].start) \o markers[k]
    BY DEF Replace
  <2> QED BY <2>1, <2>2 DEF d
<1>7. done[0].masked = <<>>
  BY <1>2 DEF Replacing, Nothing
<1> HIDE DEF done
<1>8. ASSUME NEW k \in 0 .. M, NEW c \in Nat, c \div 2 <= done[k].last
      PROVE  done[k].masked \o Slice(t, done[k].last, c \div 2) = done[k].masked
  <2>1. Slice(t, done[k].last, c \div 2) = <<>>
    BY <1>1, <1>5, <1>8, Halves, SliceNone
  <2> QED BY <1>5, <2>1, ConcatEmptySeq DEF Texts
<1>9. Good(0)
  <2>1. Behind(0, 0)
    BY <1>1
  <2>2. g[0] = <<>>
    BY <1>3 DEF Flattens
  <2>3. Upto(0, 0)
    <3>1. 0 \in 0 .. M /\ 0 \in Nat /\ 0 \div 2 <= done[0].last
      BY <1>1, <1>5
    <3> QED BY <1>7, <1>8, <2>2, <3>1
  <2> HIDE DEF Behind, Upto
  <2> QED BY <1>1, <2>1, <2>3
<1>10. ASSUME NEW c \in 0 .. C, c < C, Good(c) PROVE Good(c + 1)
  <2>1. PICK k \in 0 .. M : Behind(c, k) /\ Upto(c, k)
    BY <1>10
  <2>2. c \in Nat /\ c + 1 \in 1 .. C /\ (c + 1) - 1 = c /\ c <= 2 * N
    BY <1>1, <1>10
  <2>3. g[c + 1] = g[c] \o cells[c + 1] /\ g[c] \in Texts /\ cells[c + 1] \in Texts
    <3>1. c \in 0 .. C /\ c + 1 \in 0 .. C
      BY <1>1, <2>2
    <3> QED BY <1>3, <2>2, <3>1 DEF Flattens, OfPlaces
  <2>4. \A i \in 1 .. k : i \in 1 .. M /\ 2 * m[i].start < c
    BY <1>1, <2>1
  <2>5. \A i \in k + 1 .. M : i \in 1 .. M /\ 2 * m[i].start >= c
    BY <1>1, <2>1
  <2>6. CASE k < M /\ 2 * m[k + 1].start = c
    <3> DEFINE j == k + 1
    <3>1. j \in 1 .. M /\ j \in 0 .. M /\ j - 1 = k
      BY <1>1, <2>6
    <3>2. m[j].start \in 0 .. N /\ m[j].end \in m[j].start .. N
      BY <1>1, <3>1
    <3>3. c \div 2 = m[j].start /\ (c + 1) \div 2 = m[j].start
      <4> DEFINE x == m[j].start
      <4>1. x \in Nat /\ c = 2 * x
        BY <1>1, <2>6, <3>2
      <4> HIDE DEF x
      <4>2. c \div 2 = x /\ (c + 1) \div 2 = x
        BY <2>2, <4>1
      <4> QED BY <4>2 DEF x
    <3>4. cells[c + 1] = markers[j]
      BY <2>6, <3>1 DEF OfPlaces
    <3>5. g[c + 1] = done[j].masked
      <4>1. g[c] = done[k].masked \o Slice(t, done[k].last, m[j].start)
        BY <2>1, <3>3
      <4> QED BY <1>6, <2>3, <3>1, <3>4, <4>1
    <3>6. done[j].last = m[j].end /\ m[j].start <= m[j].end
      BY <1>1, <1>5, <3>1, <3>2
    <3>7. Upto(c + 1, j)
      <4>1. c + 1 \in Nat /\ (c + 1) \div 2 <= done[j].last
        BY <2>2, <3>3, <3>6
      <4> QED BY <1>8, <3>1, <3>5, <4>1
    <3>8. Behind(c + 1, j)
      <4>1. \A i \in 1 .. j : 2 * m[i].start < c + 1
        <5> SUFFICES ASSUME NEW i \in 1 .. j PROVE 2 * m[i].start < c + 1
          OBVIOUS
        <5>1. i = j \/ i \in 1 .. k
          BY <1>1
        <5>2. i \in 1 .. M /\ m[i].start \in 0 .. N
          BY <1>1, <3>1
        <5> QED BY <1>1, <2>2, <2>4, <2>6, <5>1, <5>2, SMTT(60)
      <4>2. \A i \in j + 1 .. M : 2 * m[i].start >= c + 1
        <5> SUFFICES ASSUME NEW i \in j + 1 .. M PROVE 2 * m[i].start >= c + 1
          OBVIOUS
        <5>1. i \in 1 .. M /\ j < i
          BY <1>1, <3>1
        <5>2. m[j].end < m[i].start /\ m[i].start \in 0 .. N
          BY <1>1, <3>1, <5>1
        <5> QED BY <1>1, <2>2, <2>6, <3>2, <3>6, <5>2, SMTT(60)
      <4> QED BY <4>1, <4>2
    <3> QED BY <3>1, <3>7, <3>8
  <2>7. CASE ~(k < M /\ 2 * m[k + 1].start = c)
    <3>1. \A i \in k + 1 .. M : 2 * m[i].start >= c + 1
      <4> SUFFICES ASSUME NEW i \in k + 1 .. M PROVE 2 * m[i].start >= c + 1
        OBVIOUS
      <4>1. k + 1 \in 1 .. M /\ k + 1 \in k + 1 .. M /\ i \in 1 .. M /\ k < M
        BY <1>1
      <4>2. /\ m[k + 1].start \in 0 .. N /\ m[i].start \in 0 .. N
            /\ m[k + 1].end \in m[k + 1].start .. N
        BY <1>1, <4>1
      <4>3. 2 * m[k + 1].start >= c /\ 2 * m[k + 1].start # c
        BY <2>5, <2>7, <4>1
      <4>4. 2 * m[k + 1].start >= c + 1
        BY <1>1, <2>2, <4>2, <4>3, SMTT(60)
      <4>5. CASE i = k + 1
        BY <4>4, <4>5
      <4>6. CASE i # k + 1
        <5>1. m[k + 1].end < m[i].start
          BY <1>1, <4>1, <4>6
        <5>2. m[k + 1].start < m[i].start
          BY <1>1, <4>2, <5>1, SMTT(60)
        <5>3. /\ m[k + 1].start \in Int /\ m[i].start \in Int /\ c + 1 \in Int
          BY <1>1, <2>2, <4>2
        <5>4. \A x, y, z \in Int : 2 * x >= z /\ x < y => 2 * y >= z
          OBVIOUS
        <5> HIDE DEF M, N, C
        <5> QED BY <4>4, <5>2, <5>3, <5>4
      <4> QED BY <4>5, <4>6
    <3>2. \A i \in 1 .. k : 2 * m[i].start < c + 1
      <4> SUFFICES ASSUME NEW i \in 1 .. k PROVE 2 * m[i].start < c + 1
        OBVIOUS
      <4>1. m[i].start \in 0 .. N /\ 2 * m[i].start < c
        BY <1>1, <2>4
      <4> QED BY <1>1, <2>2, <4>1
    <3>3. Behind(c + 1, k)
      BY <3>1, <3>2
    <3>4. \A i \in 1 .. M : c # 2 * m[i].start
      <4> SUFFICES ASSUME NEW i \in 1 .. M PROVE c # 2 * m[i].start
        OBVIOUS
      <4>1. m[i].start \in 0 .. N /\ (i \in 1 .. k \/ i \in k + 1 .. M)
        BY <1>1
      <4> QED BY <1>1, <2>2, <2>4, <3>1, <4>1
    <3>5. CASE k > 0 /\ c <= 2 * m[k].end
      <4>1. k \in 1 .. M /\ k \in 1 .. k /\ done[k].last = m[k].end /\ m[k].end \in 0 .. N
        BY <1>1, <1>5, <3>5
      <4>2. Hides(m[k], c)
        <5>1. 2 * m[k].start < c /\ m[k].start \in 0 .. N
          BY <1>1, <2>4, <4>1
        <5> QED BY <1>1, <2>2, <3>5, <5>1 DEF Hides
      <4>3. cells[c + 1] = <<>>
        BY <2>2, <3>4, <4>1, <4>2 DEF OfPlaces
      <4>4. g[c + 1] = g[c]
        BY <2>3, <4>3, ConcatEmptySeq DEF Texts
      <4>5. c \div 2 <= done[k].last /\ (c + 1) \div 2 <= done[k].last /\ c + 1 \in Nat
        BY <1>1, <2>2, <3>5, <4>1, Halves
      <4>6. Upto(c + 1, k)
        BY <1>8, <2>1, <2>2, <4>4, <4>5
      <4> QED BY <3>3, <4>6
    <3>6. CASE ~(k > 0 /\ c <= 2 * m[k].end)
      <4> DEFINE L == done[k].last
                 b == c \div 2
      <4>1. L \in 0 .. N /\ 2 * L <= c /\ (k > 0 => 2 * L < c)
        <5>1. CASE k = 0
          BY <1>1, <1>5, <2>2, <5>1
        <5>2. CASE k > 0
          <6>1. L = m[k].end /\ L \in 0 .. N
            BY <1>5, <5>2
          <6> HIDE DEF L
          <6> QED BY <1>1, <2>2, <3>6, <5>2, <6>1
        <5> QED BY <1>1, <5>1, <5>2
      <4>2. \A i \in 1 .. M : ~Hides(m[i], c)
        <5> SUFFICES ASSUME NEW i \in 1 .. M PROVE ~Hides(m[i], c)
          OBVIOUS
        <5>1. m[i].start \in 0 .. N /\ m[i].end \in m[i].start .. N
          BY <1>1
        <5>2. CASE i \in k + 1 .. M
          BY <1>1, <2>2, <3>1, <5>1, <5>2 DEF Hides
        <5>3. CASE i \in 1 .. k
          <6>1. k > 0 /\ k \in 1 .. M /\ L = m[k].end
            BY <1>1, <1>5, <5>3
          <6>2. i = k \/ m[i].end < m[k].start
            BY <1>1, <5>3, <6>1
          <6>3. m[k].start \in 0 .. N /\ m[k].start <= m[k].end /\ m[k].end \in 0 .. N
            BY <1>1, <6>1
          <6>4. 2 * m[i].end < c
            <7> HIDE DEF L
            <7> QED BY <1>1, <2>2, <4>1, <5>1, <6>1, <6>2, <6>3, SMTT(60)
          <6> QED BY <1>1, <2>2, <5>1, <6>4 DEF Hides
        <5> QED BY <1>1, <5>2, <5>3
      <4>3. cells[c + 1] = IF (c + 1) % 2 = 1 THEN <<>> ELSE <<t[(c + 1) \div 2]>>
        BY <2>2, <4>2 DEF OfPlaces
      <4>4. CASE (c + 1) % 2 = 1
        <5>1. (c + 1) \div 2 = c \div 2
          BY <2>2, <4>4, Halves
        <5>2. g[c + 1] = g[c]
          BY <2>3, <4>3, <4>4, ConcatEmptySeq DEF Texts
        <5> QED BY <2>1, <3>3, <5>1, <5>2
      <4>5. CASE (c + 1) % 2 # 1
        <5>1. c = 2 * b + 1 /\ (c + 1) \div 2 = b + 1 /\ b \in Nat
          BY <2>2, <4>5, Halves
        <5> HIDE DEF b, L
        <5>2. L <= b /\ b \in L .. N /\ b \in 0 .. N - 1 /\ b + 1 \in b .. N /\ L \in 0 .. N
          BY <1>1, <2>2, <4>1, <5>1
        <5>3. cells[c + 1] = Slice(t, b, b + 1)
          BY <4>3, <4>5, <5>1, <5>2, SliceByte
        <5>4. Slice(t, L, b) \in Texts /\ Slice(t, b, b + 1) \in Texts
          BY <5>2, b \in 0 .. N, SliceIs
        <5>5. Slice(t, L, b) \o Slice(t, b, b + 1) = Slice(t, L, b + 1)
          BY <5>2, SliceAdjacent
        <5>6. g[c + 1] = (done[k].masked \o Slice(t, L, b)) \o Slice(t, b, b + 1)
          BY <2>1, <2>3, <5>3 DEF b, L
        <5>7. g[c + 1] = done[k].masked \o Slice(t, L, b + 1)
          <6> DEFINE x == done[k].masked
                     y == Slice(t, L, b)
                     z == Slice(t, b, b + 1)
          <6>1. x \in Texts /\ y \in Texts /\ z \in Texts
            BY <1>5, <5>4
          <6>2. g[c + 1] = (x \o y) \o z /\ y \o z = Slice(t, L, b + 1)
            BY <5>5, <5>6
          <6> HIDE DEF x, y, z
          <6>3. (x \o y) \o z = x \o (y \o z)
            BY <6>1, TextsAssociative, SMTT(60)
          <6> QED BY <6>2, <6>3 DEF x
        <5> QED BY <3>3, <5>1, <5>7 DEF L
      <4> QED BY <4>4, <4>5
    <3> QED BY <3>5, <3>6
  <2> QED BY <2>6, <2>7
<1>11. C \in I
  <2> HIDE DEF Good
  <2>1. I \subseteq 0 .. C /\ 0 \in I /\ \A c \in I : c < C => c + 1 \in I
    BY <1>1, <1>9, <1>10
  <2>2. I = 0 .. C
    <3> HIDE DEF I, C
    <3> QED BY <1>1, <2>1, Induct
  <2> QED BY <1>1, <2>2
<1>12. PICK k \in 0 .. M : Behind(C, k) /\ Upto(C, k)
  BY <1>11
<1>13. k = M
  <2> SUFFICES ASSUME k # M PROVE FALSE
    OBVIOUS
  <2>1. M \in k + 1 .. M /\ M \in 1 .. M
    BY <1>1
  <2>2. 2 * m[M].start >= C /\ m[M].start \in 0 .. N
    BY <1>1, <1>12, <2>1
  <2> QED BY <1>1, <2>2
<1>14. C \div 2 = N
  BY <1>1
<1> QED BY <1>3, <1>4, <1>12, <1>13, <1>14

\* The first places of the runs of hidden places are the beginnings of the
\* ranges, and a range's number is the number of such places up to its own.
Starts(starts, m) ==
  /\ starts = {2 * m[k].start : k \in 1 .. Len(m)}
  /\ Cardinality(starts) = Len(m)
  /\ \A k \in 1 .. Len(m) : Cardinality({g \in starts : g <= 2 * m[k].start}) = k

\* The runs of hidden places begin where the merged ranges begin, in their
\* order.
LEMMA StartsAre ==
  ASSUME NEW t \in Texts, NEW m, Fits(m, t), NEW hidden,
         hidden = {h \in 0 .. 2 * Len(t) : \E k \in 1 .. Len(m) : Hides(m[k], h)}
  PROVE  Starts({h \in hidden : h - 1 \notin hidden}, m)
<1> DEFINE M == Len(m)
           N == Len(t)
           starts == {h \in hidden : h - 1 \notin hidden}
           Upto(k) == {g \in starts : g <= 2 * m[k].start}
<1>1. /\ M \in Nat /\ N \in Nat
      /\ \A k \in 1 .. M : m[k].start \in 0 .. N /\ m[k].end \in m[k].start .. N
      /\ \A i, j \in 1 .. M : i < j => m[i].end < m[j].start
  BY FitsIs
<1>2. \A i, j \in 1 .. M : i < j => m[i].start < m[j].start
  BY <1>1
<1>3. ASSUME NEW k \in 1 .. M PROVE 2 * m[k].start \in starts
  <2>1. m[k].start \in 0 .. N /\ m[k].end \in m[k].start .. N
    BY <1>1
  <2>2. 2 * m[k].start \in hidden
    <3>1. 2 * m[k].start \in 0 .. 2 * N
      BY <1>1, <2>1
    <3>2. Hides(m[k], 2 * m[k].start)
      BY <1>1, <2>1 DEF Hides
    <3> QED BY <3>1, <3>2
  <2>3. ASSUME 2 * m[k].start - 1 \in hidden PROVE FALSE
    <3>1. PICK i \in 1 .. M : Hides(m[i], 2 * m[k].start - 1)
      BY <2>3
    <3>2. m[i].start \in 0 .. N /\ m[i].end \in m[i].start .. N
      BY <1>1
    <3>3. m[i].start < m[k].start /\ m[i].end >= m[k].start
      BY <1>1, <2>1, <3>1, <3>2, SMTT(60) DEF Hides
    <3>4. CASE i < k
      BY <1>1, <2>1, <3>2, <3>3, <3>4
    <3>5. CASE i = k
      BY <2>1, <3>3, <3>5
    <3>6. CASE i > k
      BY <1>2, <2>1, <3>2, <3>3, <3>6
    <3> QED BY <1>1, <3>4, <3>5, <3>6
  <2> QED BY <2>2, <2>3
<1>4. ASSUME NEW h \in starts PROVE \E k \in 1 .. M : h = 2 * m[k].start
  <2>1. PICK k \in 1 .. M : Hides(m[k], h)
    OBVIOUS
  <2>2. h \in 0 .. 2 * N /\ h - 1 \notin hidden
    OBVIOUS
  <2>3. m[k].start \in 0 .. N /\ m[k].end \in m[k].start .. N
    BY <1>1
  <2>4. h # 2 * m[k].start => h - 1 \in 0 .. 2 * N /\ Hides(m[k], h - 1)
    <3> HIDE DEF N
    <3>1. h \in Int /\ 2 * m[k].start <= h /\ h <= 2 * m[k].end /\ 0 <= h /\ h <= 2 * N
      BY <1>1, <2>1, <2>2 DEF Hides
    <3>2. ASSUME h # 2 * m[k].start PROVE h - 1 \in 0 .. 2 * N /\ Hides(m[k], h - 1)
      <4>1. 2 * m[k].start \in Int /\ 2 * m[k].end \in Int /\ 0 <= 2 * m[k].start /\ 2 * N \in Int
        BY <1>1, <2>3, SMTT(60)
      <4>2. 2 * m[k].start <= h - 1 /\ h - 1 <= 2 * m[k].end /\ h - 1 \in 0 .. 2 * N
        BY <3>1, <3>2, <4>1
      <4> QED BY <4>2 DEF Hides
    <3> QED BY <3>2
  <2> QED BY <2>2, <2>4
<1> HIDE DEF starts
<1>5. starts = {2 * m[k].start : k \in 1 .. M}
  BY <1>3, <1>4
<1>6. ASSUME NEW k \in 1 .. M PROVE Cardinality(Upto(k)) = k
  <2> DEFINE f == [i \in 1 .. k |-> 2 * m[i].start]
  <2>1. \A i \in 1 .. M : m[i].start \in 0 .. N
    BY <1>1
  <2>2. \A i \in 1 .. k : i \in 1 .. M /\ (i = k \/ i < k)
    BY <1>1
  <2>3. ASSUME NEW i \in 1 .. k PROVE 2 * m[i].start \in Upto(k)
    <3>1. m[i].start <= m[k].start
      BY <1>2, <2>1, <2>2
    <3> QED BY <1>1, <1>3, <2>1, <2>2, <3>1
  <2>4. ASSUME NEW g \in Upto(k) PROVE \E i \in 1 .. k : g = 2 * m[i].start
    <3>1. PICK i \in 1 .. M : g = 2 * m[i].start
      BY <1>5
    <3>2. ~(k < i)
      <4>1. k < i => m[k].start < m[i].start
        BY <1>2
      <4> QED BY <1>1, <2>1, <3>1, <4>1
    <3> QED BY <1>1, <3>1, <3>2
  <2>5. \A i, j \in 1 .. k : 2 * m[i].start = 2 * m[j].start => i = j
    <3> SUFFICES ASSUME NEW i \in 1 .. k, NEW j \in 1 .. k, i # j
                 PROVE  2 * m[i].start # 2 * m[j].start
      OBVIOUS
    <3>1. m[i].start # m[j].start
      BY <1>1, <1>2, <2>1, <2>2
    <3> QED BY <1>1, <2>1, <2>2, <3>1
  <2>6. f \in Bijection(1 .. k, Upto(k))
    <3> HIDE DEF Upto
    <3> QED BY <2>3, <2>4, <2>5 DEF Bijection, Injection, Surjection, IsInjective
  <2>7. IsFiniteSet(1 .. k) /\ Cardinality(1 .. k) = k
    BY <1>1, FS_Interval
  <2> HIDE DEF f, Upto
  <2>8. ExistsBijection(1 .. k, Upto(k))
    BY <2>6 DEF ExistsBijection
  <2> QED BY <2>7, <2>8, FS_Bijection
<1>7. Cardinality(starts) = M
  <2>1. CASE M = 0
    <3>1. starts = {}
      BY <1>5, <2>1
    <3> QED BY <2>1, <3>1, FS_EmptySet
  <2>2. CASE M > 0
    <3>1. M \in 1 .. M
      BY <1>1, <2>2
    <3>2. Upto(M) = starts
      <4> SUFFICES ASSUME NEW g \in starts PROVE g <= 2 * m[M].start
        OBVIOUS
      <4>1. PICK i \in 1 .. M : g = 2 * m[i].start
        BY <1>5
      <4>2. m[i].start <= m[M].start /\ m[i].start \in 0 .. N /\ m[M].start \in 0 .. N
        BY <1>1, <1>2, <3>1
      <4> QED BY <1>1, <4>1, <4>2
    <3> QED BY <1>6, <3>1, <3>2
  <2> QED BY <1>1, <2>1, <2>2
<1> QED BY <1>5, <1>6, <1>7 DEF Starts, starts

----------------------------------------------------------------------------
(* Numbers *)

\* The ten digits are different bytes.
LEMMA DigitsAre ==
  /\ \A v \in 0 .. 9 : Digit[v + 1] \in Bytes /\ IsDigit(Digit[v + 1])
  /\ \A v, w \in 0 .. 9 : Digit[v + 1] = Digit[w + 1] => v = w
<1>1. /\ Digit[1] = "0" /\ Digit[2] = "1" /\ Digit[3] = "2" /\ Digit[4] = "3" /\ Digit[5] = "4"
      /\ Digit[6] = "5" /\ Digit[7] = "6" /\ Digit[8] = "7" /\ Digit[9] = "8" /\ Digit[10] = "9"
  BY DEF Digit
<1>2. \A v \in 0 .. 9 : \/ v = 0 \/ v = 1 \/ v = 2 \/ v = 3 \/ v = 4
                        \/ v = 5 \/ v = 6 \/ v = 7 \/ v = 8 \/ v = 9
  OBVIOUS
<1>3. ASSUME NEW v \in 0 .. 9 PROVE Digit[v + 1] \in Bytes
  <2>1. v + 1 \in 1 .. 10
    OBVIOUS
  <2> HIDE DEF Digit
  <2> QED BY <2>1 DEF Bytes
<1>4. \A v \in 0 .. 9 : IsDigit(Digit[v + 1])
  BY DEF IsDigit
<1>5. \A v, w \in 0 .. 9 : Digit[v + 1] = Digit[w + 1] => v = w
  BY <1>1, <1>2
<1> QED BY <1>3, <1>4, <1>5

\* Punctuation and the bytes of a long rune are no digits.
LEMMA NotDigits ==
  ~IsDigit("[") /\ ~IsDigit("]") /\ ~IsDigit("_") /\ ~IsDigit("r1") /\ ~IsDigit("r2")
<1>1. /\ Digit[1] = "0" /\ Digit[2] = "1" /\ Digit[3] = "2" /\ Digit[4] = "3" /\ Digit[5] = "4"
      /\ Digit[6] = "5" /\ Digit[7] = "6" /\ Digit[8] = "7" /\ Digit[9] = "8" /\ Digit[10] = "9"
  BY DEF Digit
<1>2. \A d \in 1 .. 10 : \/ d = 1 \/ d = 2 \/ d = 3 \/ d = 4 \/ d = 5
                         \/ d = 6 \/ d = 7 \/ d = 8 \/ d = 9 \/ d = 10
  OBVIOUS
<1> QED BY <1>1, <1>2 DEF IsDigit

\* A digit has one value.
LEMMA DigitValueIs ==
  /\ \A b : IsDigit(b) => DigitValue(b) \in 0 .. 9
  /\ \A v \in 0 .. 9 : DigitValue(Digit[v + 1]) = v
<1>1. ASSUME NEW b, IsDigit(b) PROVE DigitValue(b) \in 0 .. 9
  <2>1. PICK d \in 1 .. 10 : Digit[d] = b
    BY <1>1 DEF IsDigit
  <2>2. d - 1 \in 0 .. 9 /\ Digit[(d - 1) + 1] = b
    BY <2>1
  <2>3. \E v \in 0 .. 9 : Digit[v + 1] = b
    BY <2>2
  <2> HIDE DEF Digit
  <2> QED BY <2>3 DEF DigitValue
<1>2. ASSUME NEW v \in 0 .. 9 PROVE DigitValue(Digit[v + 1]) = v
  BY <1>2, DigitsAre DEF DigitValue
<1> QED BY <1>1, <1>2

\* A number in digits.
AllDigits(d) == d \in Texts /\ \A i \in 1 .. Len(d) : IsDigit(d[i])

\* The value of a number follows from its first digits.
LEMMA ValuesAre ==
  ASSUME NEW d, AllDigits(d)
  PROVE  /\ Values(d)[0] = 0
         /\ \A n \in 1 .. Len(d) : Values(d)[n] = 10 * Values(d)[n - 1] + DigitValue(d[n])
         /\ \A n \in 0 .. Len(d) : Values(d)[n] \in Nat
<1> DEFINE N == Len(d)
           stepping == [n \in 1 .. N |-> [v \in Nat |-> 10 * v + DigitValue(d[n])]]
           Good(f) == f = [n \in 0 .. N |-> IF n = 0 THEN 0 ELSE 10 * f[n - 1] + DigitValue(d[n])]
           g == Values(d)
<1>1. N \in Nat /\ \A n \in 1 .. N : DigitValue(d[n]) \in Nat
  BY DigitValueIs DEF AllDigits, Texts
<1>2. g = CHOOSE f : Good(f)
  BY DEF Values
<1> HIDE DEF N
<1>3. PICK f : Iterates(f, Nat, N, 0, stepping)
  <2>1. stepping \in [1 .. N -> [Nat -> Nat]]
    BY <1>1
  <2> HIDE DEF stepping
  <2> QED BY <1>1, <2>1, Iteration
<1>4. Good(f)
  <2>1. ASSUME NEW n \in 1 .. N PROVE f[n] = 10 * f[n - 1] + DigitValue(d[n])
    <3>1. n - 1 \in 0 .. N
      BY <1>1
    <3>2. f[n - 1] \in Nat /\ f[n] = stepping[n][f[n - 1]]
      BY <1>3, <3>1 DEF Iterates
    <3> QED BY <3>2
  <2> QED BY <1>1, <1>3, <2>1 DEF Iterates
<1>5. Good(g)
  <2> HIDE DEF Good
  <2> QED BY <1>2, <1>4
<1> HIDE DEF g
<1>6. g[0] = 0 /\ \A n \in 1 .. N : g[n] = 10 * g[n - 1] + DigitValue(d[n])
  BY <1>1, <1>5
<1>7. \A n \in 0 .. N : g[n] \in Nat
  <2>1. ASSUME NEW n \in 1 .. N, g[n - 1] \in Nat PROVE g[n] \in Nat
    BY <1>1, <1>6, <2>1
  <2>2. g[0] \in Nat
    BY <1>6
  <2>3. \A n \in 1 .. N : g[n - 1] \in Nat => g[n] \in Nat
    BY <2>1
  <2> HIDE DEF Good
  <2> QED BY <1>1, <2>2, <2>3, Iterated
<1> QED BY <1>6, <1>7 DEF N, g

\* Digits are a natural number.
LEMMA NumberOfType ==
  ASSUME NEW d, AllDigits(d)
  PROVE  NumberOf(d) \in Nat
<1>1. Len(d) \in 0 .. Len(d)
  BY DEF AllDigits, Texts
<1> QED BY <1>1, ValuesAre DEF NumberOf

\* A digit behind a number makes it ten times as large.
LEMMA NumberAppended ==
  ASSUME NEW d, AllDigits(d), NEW v \in 0 .. 9
  PROVE  /\ AllDigits(d \o <<Digit[v + 1]>>) /\ d \o <<Digit[v + 1]>> # <<>>
         /\ NumberOf(d \o <<Digit[v + 1]>>) = 10 * NumberOf(d) + v
<1> DEFINE b == Digit[v + 1]
           e == d \o <<b>>
           N == Len(d)
           I == {n \in 0 .. N : Values(e)[n] = Values(d)[n]}
<1>1. b \in Bytes /\ IsDigit(b) /\ DigitValue(b) = v
  BY DigitsAre, DigitValueIs
<1> HIDE DEF b
<1>2. d \in Texts /\ <<b>> \in Texts /\ Len(<<b>>) = 1 /\ <<b>>[1] = b /\ N \in Nat
  <2>1. <<b>> \in Seq(Bytes) /\ Len(<<b>>) = 1 /\ <<b>>[1] = b
    BY <1>1
  <2> QED BY <2>1 DEF AllDigits, Texts
<1>3. e \in Texts /\ Len(e) = N + 1 /\ e[N + 1] = b /\ \A i \in 1 .. N : e[i] = d[i]
  <2>1. /\ e \in Texts /\ Len(e) = N + 1
        /\ \A i \in 1 .. N + 1 : e[i] = IF i <= N THEN d[i] ELSE <<b>>[i - N]
    BY <1>2, TextsConcat
  <2>2. N + 1 \in 1 .. N + 1 /\ (N + 1) - N = 1 /\ ~(N + 1 <= N) /\ \A i \in 1 .. N : i \in 1 .. N + 1 /\ i <= N
    BY <1>2
  <2> HIDE DEF e, N
  <2>3. e[N + 1] = <<b>>[1]
    BY <2>1, <2>2
  <2> QED BY <1>2, <2>1, <2>2, <2>3
<1> HIDE DEF e
<1>4. AllDigits(e)
  <2>1. \A i \in 1 .. N + 1 : i = N + 1 \/ i \in 1 .. N
    BY <1>2
  <2> QED BY <1>1, <1>3, <2>1 DEF AllDigits
<1>5. /\ Values(d)[0] = 0
      /\ \A n \in 1 .. N : Values(d)[n] = 10 * Values(d)[n - 1] + DigitValue(d[n])
  BY ValuesAre
<1>6. /\ Values(e)[0] = 0
      /\ \A n \in 1 .. N + 1 : Values(e)[n] = 10 * Values(e)[n - 1] + DigitValue(e[n])
  BY <1>3, <1>4, ValuesAre
<1>7. I = 0 .. N
  <2>1. ASSUME NEW n \in I, n < N PROVE n + 1 \in I
    <3>1. n + 1 \in 1 .. N /\ n + 1 \in 1 .. N + 1 /\ (n + 1) - 1 = n
      BY <1>2, <2>1
    <3> QED BY <1>3, <1>5, <1>6, <3>1
  <2>2. I \subseteq 0 .. N /\ 0 \in I
    BY <1>2, <1>5, <1>6
  <2> HIDE DEF I
  <2> QED BY <1>2, <2>1, <2>2, Induct
<1>8. NumberOf(e) = 10 * NumberOf(d) + v
  <2>1. N \in 0 .. N /\ N + 1 \in 1 .. N + 1 /\ (N + 1) - 1 = N
    BY <1>2
  <2>2. Values(e)[N + 1] = 10 * Values(e)[N] + DigitValue(b) /\ Values(e)[N] = Values(d)[N]
    BY <1>3, <1>6, <1>7, <2>1
  <2> QED BY <1>1, <1>3, <2>2 DEF NumberOf
<1>9. e # <<>>
  BY <1>2, <1>3
<1> QED BY <1>4, <1>8, <1>9 DEF b, e

\* One digit is its value.
LEMMA OneDigit ==
  ASSUME NEW v \in 0 .. 9
  PROVE  /\ AllDigits(<<Digit[v + 1]>>) /\ <<Digit[v + 1]>> # <<>>
         /\ NumberOf(<<Digit[v + 1]>>) = v
<1> DEFINE b == Digit[v + 1]
           d == <<>>
<1>1. <<>> \in Texts /\ Len(<<>>) = 0
  BY DEF Texts
<1>2. AllDigits(<<>>)
  BY <1>1 DEF AllDigits
<1>3. NumberOf(<<>>) = 0
  BY <1>1, <1>2, ValuesAre DEF NumberOf
<1>4. /\ AllDigits(<<>> \o <<b>>) /\ <<>> \o <<b>> # <<>>
      /\ NumberOf(<<>> \o <<b>>) = 10 * NumberOf(<<>>) + v
  BY <1>2, NumberAppended
<1>5. <<>> \o <<b>> = <<b>>
  <2>1. b \in Bytes
    BY DigitsAre
  <2> HIDE DEF b
  <2>2. <<b>> \in Texts
    BY <2>1 DEF Texts
  <2> QED BY <2>2, TextsEmpty
<1> HIDE DEF b
<1> QED BY <1>3, <1>4, <1>5 DEF b

\* The last digit of a number and the number before it.
LEMMA Tenth ==
  ASSUME NEW k \in Nat
  PROVE  /\ k \div 10 \in Nat /\ k % 10 \in 0 .. 9 /\ k = 10 * (k \div 10) + (k % 10)
         /\ k > 0 => k \div 10 < k
OBVIOUS

\* The decimals of a number are digits and stand for it.
Stands(d, k) == AllDigits(d) /\ d # <<>> /\ NumberOf(d) = k

\* A decimal is digits only, and reads back as the number it stands for.
LEMMA DecimalIs ==
  ASSUME NEW n \in Nat
  PROVE  Stands(Decimal(n), n)
<1> DEFINE S == {d \in Texts : AllDigits(d)}
           Next10(k, d) == IF k < 10 THEN <<Digit[k + 1]>> ELSE d \o <<Digit[(k % 10) + 1]>>
           prev == [k \in 1 .. n |-> k \div 10]
           stepping == [k \in 1 .. n |-> [d \in S |-> Next10(k, d)]]
           Good(f) == f = [k \in 0 .. n |-> IF k < 10 THEN <<Digit[k + 1]>>
                                            ELSE f[k \div 10] \o <<Digit[(k % 10) + 1]>>]
           g == Decimals(n)
<1>1. \A d : d \in S <=> AllDigits(d)
  BY DEF AllDigits
<1>2. ASSUME NEW k \in Nat, NEW d \in S PROVE Next10(k, d) \in S
  <2>1. CASE k < 10
    <3>1. k \in 0 .. 9
      BY <2>1
    <3>2. AllDigits(<<Digit[k + 1]>>)
      BY <3>1, OneDigit
    <3> HIDE DEF S
    <3> QED BY <1>1, <2>1, <3>2
  <2>2. CASE ~(k < 10)
    <3>1. k % 10 \in 0 .. 9 /\ AllDigits(d)
      BY <1>1
    <3>2. AllDigits(d \o <<Digit[(k % 10) + 1]>>)
      BY <3>1, NumberAppended
    <3> HIDE DEF S
    <3> QED BY <1>1, <2>2, <3>2
  <2> QED BY <2>1, <2>2
<1>3. <<Digit[0 + 1]>> \in S
  <2>1. 0 \in 0 .. 9
    OBVIOUS
  <2> HIDE DEF S
  <2> QED BY <1>1, <2>1, OneDigit
<1> HIDE DEF S
<1>4. g = CHOOSE f : Good(f)
  BY DEF Decimals
<1>5. PICK f : Recurs(f, S, n, <<Digit[0 + 1]>>, prev, stepping)
  <2>1. stepping \in [1 .. n -> [S -> S]]
    BY <1>2
  <2>2. prev \in [1 .. n -> Nat] /\ \A k \in 1 .. n : prev[k] < k
    BY Tenth
  <2> HIDE DEF stepping, prev
  <2> QED BY <1>3, <2>1, <2>2, Recursion
<1>6. Good(f)
  <2>1. f \in [0 .. n -> S] /\ f[0] = <<Digit[0 + 1]>>
    BY <1>5 DEF Recurs
  <2>2. ASSUME NEW k \in 1 .. n PROVE f[k] = Next10(k, f[k \div 10])
    <3>1. k \div 10 \in 0 .. n /\ prev[k] = k \div 10
      BY Tenth
    <3>2. f[k \div 10] \in S
      BY <2>1, <3>1
    <3>3. f[k] = stepping[k][f[k \div 10]]
      BY <1>5, <3>1 DEF Recurs
    <3> HIDE DEF Next10
    <3> QED BY <3>2, <3>3
  <2>3. ASSUME NEW k \in 0 .. n
        PROVE  f[k] = IF k < 10 THEN <<Digit[k + 1]>> ELSE f[k \div 10] \o <<Digit[(k % 10) + 1]>>
    <3>1. CASE k = 0
      BY <2>1, <3>1
    <3>2. CASE k # 0
      <4>1. k \in 1 .. n
        BY <3>2
      <4> QED BY <2>2, <4>1
    <3> QED BY <3>1, <3>2
  <2> QED BY <2>1, <2>3
<1>7. Good(g)
  <2> HIDE DEF Good
  <2> QED BY <1>4, <1>6
<1> HIDE DEF g
<1> DEFINE I == {k \in 0 .. n : \A j \in 0 .. k : Stands(g[j], j)}
<1>8. ASSUME NEW k \in 0 .. n, \A j \in 0 .. k - 1 : Stands(g[j], j)
      PROVE  Stands(g[k], k)
  <2>1. g[k] = IF k < 10 THEN <<Digit[k + 1]>> ELSE g[k \div 10] \o <<Digit[(k % 10) + 1]>>
    BY <1>7
  <2>2. CASE k < 10
    <3>1. k \in 0 .. 9 /\ g[k] = <<Digit[k + 1]>>
      BY <2>1, <2>2
    <3> QED BY <3>1, OneDigit DEF Stands
  <2>3. CASE ~(k < 10)
    <3> DEFINE d == g[k \div 10]
               v == k % 10
    <3>1. k \div 10 \in 0 .. k - 1 /\ v \in 0 .. 9 /\ k = 10 * (k \div 10) + v
      BY <2>3, Tenth
    <3>2. AllDigits(d) /\ NumberOf(d) = k \div 10
      BY <1>8, <3>1 DEF Stands
    <3>3. g[k] = d \o <<Digit[v + 1]>>
      BY <2>1, <2>3
    <3> HIDE DEF d, v
    <3>4. /\ AllDigits(d \o <<Digit[v + 1]>>) /\ d \o <<Digit[v + 1]>> # <<>>
          /\ NumberOf(d \o <<Digit[v + 1]>>) = 10 * NumberOf(d) + v
      BY <3>1, <3>2, NumberAppended
    <3>5. NumberOf(g[k]) = k
      BY <3>1, <3>2, <3>3, <3>4
    <3> QED BY <3>3, <3>4, <3>5 DEF Stands
  <2> QED BY <2>2, <2>3
<1>9. 0 \in I
  <2>1. Stands(g[0], 0)
    BY <1>8, 0 \in 0 .. n, \A j \in 0 .. 0 - 1 : FALSE
  <2> QED BY <2>1
<1>10. ASSUME NEW k \in I, k < n PROVE k + 1 \in I
  <2>1. k + 1 \in 0 .. n /\ (k + 1) - 1 = k
    BY <1>10
  <2>2. Stands(g[k + 1], k + 1)
    BY <1>8, <2>1
  <2>3. \A j \in 0 .. k + 1 : j = k + 1 \/ j \in 0 .. k
    BY <2>1
  <2> QED BY <2>1, <2>2, <2>3
<1>11. I = 0 .. n
  <2>1. I \subseteq 0 .. n
    OBVIOUS
  <2> HIDE DEF I
  <2> QED BY <1>9, <1>10, <2>1, Induct
<1>12. Stands(g[n], n)
  <2>1. n \in I
    BY <1>11
  <2> QED BY <2>1
<1> QED BY <1>12 DEF Decimal, g

----------------------------------------------------------------------------
(* Markers *)

\* c is a followed by b.
Joins(c, a, b) ==
  /\ c \in Texts /\ Len(a) \in Nat /\ Len(b) \in Nat /\ Len(c) = Len(a) + Len(b)
  /\ \A i \in 1 .. Len(a) : c[i] = a[i]
  /\ \A i \in 1 .. Len(b) : c[Len(a) + i] = b[i]

\* Two texts joined, as facts about bytes.
LEMMA JoinsIs ==
  ASSUME NEW a \in Texts, NEW b \in Texts
  PROVE  Joins(a \o b, a, b)
<1> DEFINE A == Len(a)
           B == Len(b)
           c == a \o b
<1>1. A \in Nat /\ B \in Nat
  BY DEF Texts
<1>2. /\ c \in Texts /\ Len(c) = A + B
      /\ \A i \in 1 .. A + B : c[i] = IF i <= A THEN a[i] ELSE b[i - A]
  BY TextsConcat
<1> HIDE DEF A, B, c
<1>3. \A i \in 1 .. A : c[i] = a[i]
  BY <1>1, <1>2
<1>4. ASSUME NEW i \in 1 .. B PROVE c[A + i] = b[i]
  <2>1. A + i \in 1 .. A + B /\ ~(A + i <= A) /\ (A + i) - A = i
    BY <1>1
  <2>2. c[A + i] = b[(A + i) - A]
    BY <1>2, <2>1
  <2> QED BY <2>1, <2>2
<1> QED BY <1>1, <1>2, <1>3, <1>4 DEF Joins, A, B, c

\* a is the one byte b.
OneByte(a, b) == a \in Texts /\ Len(a) = 1 /\ a[1] = b

\* A text of one byte.
LEMMA OneByteIs ==
  ASSUME NEW b \in Bytes
  PROVE  OneByte(<<b>>, b)
<1>1. <<b>> \in Seq(Bytes) /\ Len(<<b>>) = 1 /\ <<b>>[1] = b
  OBVIOUS
<1> QED BY <1>1 DEF OneByte, Texts

\* The punctuation of markers and stars.
LEMMA PunctuationIs ==
  OneByte(<<"[">>, "[") /\ OneByte(<<"_">>, "_") /\ OneByte(<<"]">>, "]") /\ OneByte(<<"*">>, "*")
<1>1. "[" \in Bytes /\ "_" \in Bytes /\ "]" \in Bytes /\ "*" \in Bytes
  BY DEF Bytes
<1> QED BY <1>1, OneByteIs

\* An opening begins with a bracket, and with a plain prefix has no other.
LEMMA OpenIs ==
  /\ Open \in Texts /\ Len(Open) \in Nat /\ Len(Open) >= 3 /\ Open[1] = "["
  /\ PlainPrefix => \A i \in 2 .. Len(Open) : Open[i] # "[" /\ Open[i] # "]"
<1> DEFINE a == <<"[">>
           b == <<"_">>
           c == a \o Prefix
           e == c \o b
           P == Len(Prefix)
<1>1. Prefix \in Texts /\ P \in Nat /\ P >= 1 /\ DOMAIN Prefix = 1 .. P
  <2>1. Prefix \in Seq(STRING) /\ Prefix # <<>>
    BY PrefixAssumption
  <2> QED BY <2>1, TextsAre, EmptySeq
<1>2. Open = e
  BY DEF Open
<1>3. OneByte(a, "[") /\ OneByte(b, "_")
  BY PunctuationIs
<1> HIDE DEF a, b
<1>4. Joins(c, a, Prefix)
  BY <1>1, <1>3, JoinsIs DEF OneByte
<1>5. Joins(e, c, b)
  BY <1>3, <1>4, JoinsIs DEF OneByte, Joins
<1> HIDE DEF c, e, P
<1>6. /\ Len(c) = P + 1 /\ c[1] = "[" /\ \A i \in 1 .. P : c[1 + i] = Prefix[i]
  <2>1. Len(a) = 1 /\ a[1] = "["
    BY <1>3 DEF OneByte
  <2>2. /\ Len(c) = 1 + P /\ \A i \in 1 .. 1 : c[i] = a[i] /\ \A j \in 1 .. P : c[1 + j] = Prefix[j]
    BY <1>4, <2>1 DEF Joins, P
  <2> QED BY <1>1, <2>1, <2>2
<1>7. /\ e \in Texts /\ Len(e) = P + 2
      /\ \A i \in 1 .. P + 1 : e[i] = c[i]
  <2>1. Len(b) = 1
    BY <1>3 DEF OneByte
  <2>2. e \in Texts /\ Len(e) = (P + 1) + 1 /\ \A i \in 1 .. P + 1 : e[i] = c[i]
    BY <1>5, <1>6, <2>1 DEF Joins
  <2> QED BY <1>1, <2>2
<1>8. e[P + 2] = "_"
  <2>1. 1 \in 1 .. 1 /\ (P + 1) + 1 = P + 2
    BY <1>1
  <2>2. e[(P + 1) + 1] = b[1]
    BY <1>3, <1>5, <1>6, <2>1 DEF Joins, OneByte
  <2> QED BY <1>3, <2>1, <2>2 DEF OneByte
<1>9. ASSUME PlainPrefix, NEW i \in 2 .. P + 2 PROVE e[i] # "[" /\ e[i] # "]"
  <2>1. CASE i = P + 2
    BY <1>8, <2>1
  <2>2. CASE i # P + 2
    <3>1. i \in 1 .. P + 1 /\ i - 1 \in 1 .. P /\ 1 + (i - 1) = i
      BY <1>1, <2>2
    <3>2. e[i] = Prefix[i - 1]
      BY <1>6, <1>7, <3>1
    <3>3. Prefix[i - 1] \in ToSet(Prefix)
      BY <1>1, <3>1 DEF ToSet
    <3> QED BY <1>9, <3>2, <3>3 DEF PlainPrefix
  <2> QED BY <2>1, <2>2
<1>10. e[1] = "["
  BY <1>1, <1>6, <1>7
<1> QED BY <1>1, <1>2, <1>7, <1>9, <1>10

\* A marker is its opening, digits and a closing bracket.
MarkerOf(k, n) ==
  /\ k \in Texts
  /\ Len(Decimal(n)) \in Nat
  /\ Len(k) = Len(Open) + Len(Decimal(n)) + 1
  /\ \A i \in 1 .. Len(Open) : k[i] = Open[i]
  /\ \A i \in 1 .. Len(Decimal(n)) : k[Len(Open) + i] = Decimal(n)[i]
  /\ k[Len(k)] = "]"

\* A decimal is a text.
LEMMA DecimalText ==
  ASSUME NEW n \in Nat
  PROVE  Decimal(n) \in Texts
<1>1. Stands(Decimal(n), n)
  BY DecimalIs
<1> HIDE DEF Texts
<1> QED BY <1>1 DEF Stands, AllDigits

\* A marker is an opening, a decimal and a closing bracket.
LEMMA MarkerIs ==
  ASSUME NEW n \in Nat
  PROVE  MarkerOf(Marker(n), n)
<1> DEFINE d == Decimal(n)
           b == <<"]">>
           c == Open \o d
           O == Len(Open)
           D == Len(d)
           k == c \o b
<1>1. Marker(n) = k
  BY DEF Marker
<1>2. OneByte(b, "]")
  BY PunctuationIs
<1>3. d \in Texts /\ Open \in Texts
  BY DecimalText, OpenIs
<1> HIDE DEF b, d
<1>4. Joins(c, Open, d)
  BY <1>3, JoinsIs
<1>5. Joins(k, c, b)
  BY <1>2, <1>4, JoinsIs DEF OneByte, Joins
<1> HIDE DEF c, k
<1>6. /\ O \in Nat /\ D \in Nat /\ Len(c) = O + D
      /\ \A i \in 1 .. O : c[i] = Open[i]
      /\ \A i \in 1 .. D : c[O + i] = d[i]
  BY <1>4 DEF Joins
<1>7. /\ k \in Texts /\ Len(k) = O + D + 1 /\ \A i \in 1 .. O + D : k[i] = c[i]
  BY <1>2, <1>5, <1>6 DEF Joins, OneByte
<1>8. k[O + D + 1] = "]"
  <2>1. 1 \in 1 .. Len(b) /\ k[Len(c) + 1] = b[1]
    BY <1>2, <1>5 DEF Joins, OneByte
  <2> QED BY <1>2, <1>6, <2>1 DEF OneByte
<1> HIDE DEF O, D
<1>9. \A i \in 1 .. O : k[i] = Open[i]
  BY <1>6, <1>7
<1>10. \A i \in 1 .. D : k[O + i] = d[i]
  <2> SUFFICES ASSUME NEW i \in 1 .. D PROVE k[O + i] = d[i]
    OBVIOUS
  <2>1. O + i \in 1 .. O + D
    BY <1>6
  <2> QED BY <1>6, <1>7, <2>1
<1> QED BY <1>1, <1>6, <1>7, <1>8, <1>9, <1>10 DEF MarkerOf, O, D, d

\* Different numbers make different markers.
LEMMA MarkersDiffer ==
  ASSUME NEW n \in Nat, NEW l \in Nat, Marker(n) = Marker(l)
  PROVE  n = l
<1> DEFINE d == Decimal(n)
           e == Decimal(l)
           b == <<"]">>
<1>1. d \in Seq(Bytes) /\ e \in Seq(Bytes) /\ Open \in Seq(Bytes)
  BY DecimalText, OpenIs DEF Texts
<1>2. b \in Seq(Bytes)
  <2>1. "]" \in Bytes
    BY DEF Bytes
  <2> QED BY <2>1
<1>3. (Open \o d) \o b = (Open \o e) \o b
  BY DEF Marker
<1>4. NumberOf(d) = n /\ NumberOf(e) = l
  BY DecimalIs DEF Stands
<1> HIDE DEF b, d, e
<1>5. Open \o d \in Seq(Bytes) /\ Open \o e \in Seq(Bytes)
  BY <1>1, ConcatProperties
<1>6. Open \o d = Open \o e
  BY <1>2, <1>3, <1>5, ConcatSimplifications
<1>7. d = e
  BY <1>1, <1>6, ConcatSimplifications
<1> QED BY <1>4, <1>7

\* The least member of a set of numbers.
LEMMA MinIs ==
  ASSUME NEW S, S \subseteq Nat, S # {}
  PROVE  Min(S) \in S /\ \A y \in S : Min(S) <= y
<1>1. \E x \in S : \A y \in S : x <= y
  BY LeastNumber
<1> QED BY <1>1 DEF Min

\* The run of digits that begins at i ends at j.
EndsAt(t, i, j) ==
  /\ j \in i .. Len(t)
  /\ \A x \in i .. j - 1 : IsDigit(t[x + 1])
  /\ j < Len(t) => ~IsDigit(t[j + 1])

\* A run of digits has an end.
LEMMA DigitsEndIs ==
  ASSUME NEW t \in Texts, NEW i \in 0 .. Len(t)
  PROVE  EndsAt(t, i, DigitsEnd(t, i))
<1> DEFINE N == Len(t)
           J == {j \in i .. N : j < N => ~IsDigit(t[j + 1])}
<1>1. N \in Nat
  BY DEF Texts
<1>2. N \in J /\ J \subseteq Nat
  BY <1>1
<1>3. PICK j \in J : \A y \in J : j <= y
  <2> HIDE DEF J
  <2> QED BY <1>2, LeastNumber
<1>4. ASSUME NEW x \in i .. j - 1 PROVE IsDigit(t[x + 1])
  <2>1. x \in i .. N /\ ~(j <= x)
    BY <1>1, <1>3
  <2>2. x \notin J
    BY <1>3, <2>1
  <2> QED BY <2>1, <2>2
<1>5. \E y \in i .. N : /\ \A x \in i .. y - 1 : IsDigit(t[x + 1])
                        /\ y < N => ~IsDigit(t[y + 1])
  <2> HIDE DEF IsDigit
  <2> QED BY <1>3, <1>4
<1> HIDE DEF IsDigit, J
<1> QED BY <1>5 DEF DigitsEnd, EndsAt

----------------------------------------------------------------------------
(* The numbers in use *)

\* Where a marker may begin at or behind i, and where the digits of the first one end.
Found(t, i) == {x \in i .. Len(t) - Len(Open) : OpenAt(t, x)}
Digits(t, i) == Min(Found(t, i)) + Len(Open)
BehindDigits(t, i) == DigitsEnd(t, Digits(t, i))

\* The next opening is behind the offset, and so are the digits behind it.
LEMMA FoundIs ==
  ASSUME NEW t \in Texts, NEW i \in 0 .. Len(t), Found(t, i) # {}
  PROVE  /\ Min(Found(t, i)) \in Found(t, i) /\ \A x \in Found(t, i) : Min(Found(t, i)) <= x
         /\ Digits(t, i) \in i + 1 .. Len(t)
         /\ EndsAt(t, Digits(t, i), BehindDigits(t, i))
         /\ BehindDigits(t, i) \in i + 1 .. Len(t)
<1> DEFINE x == Min(Found(t, i))
           from == Digits(t, i)
<1>1. Len(t) \in Nat /\ Len(Open) \in Nat /\ Len(Open) >= 3
  BY OpenIs DEF Texts
<1>2. Found(t, i) \subseteq Nat
  BY <1>1 DEF Found
<1>3. x \in Found(t, i) /\ \A y \in Found(t, i) : x <= y
  BY <1>2, MinIs
<1>4. x \in i .. Len(t) - Len(Open)
  BY <1>3 DEF Found
<1> HIDE DEF x
<1>5. from \in i + 1 .. Len(t) /\ from \in 0 .. Len(t)
  BY <1>1, <1>4 DEF Digits, x
<1> HIDE DEF from
<1>6. EndsAt(t, from, DigitsEnd(t, from))
  BY <1>5, DigitsEndIs
<1>7. DigitsEnd(t, from) \in from .. Len(t)
  BY <1>6 DEF EndsAt
<1>8. DigitsEnd(t, from) \in i + 1 .. Len(t)
  BY <1>1, <1>5, <1>7
<1> QED BY <1>3, <1>5, <1>6, <1>8 DEF x, from, BehindDigits

\* What stands between an opening and its bracket is a number or nothing.
LEMMA BetweenIs ==
  ASSUME NEW t \in Texts, NEW i \in 0 .. Len(t), NEW j, EndsAt(t, i, j)
  PROVE  /\ AllDigits(Slice(t, i, j))
         /\ Between(t, i, j) \subseteq Nat /\ IsFiniteSet(Between(t, i, j))
<1> DEFINE d == Slice(t, i, j)
<1>1. j \in i .. Len(t) /\ Len(t) \in Nat
  BY DEF EndsAt, Texts
<1>2. d \in Texts /\ Len(d) = j - i /\ \A k \in 1 .. j - i : d[k] = t[i + k]
  BY <1>1, SliceIs
<1> HIDE DEF d
<1>3. ASSUME NEW k \in 1 .. Len(d) PROVE IsDigit(d[k])
  <2>1. k \in 1 .. j - i /\ i + k - 1 \in i .. j - 1 /\ (i + k - 1) + 1 = i + k
    BY <1>1, <1>2
  <2>2. IsDigit(t[(i + k - 1) + 1])
    BY <2>1 DEF EndsAt
  <2> QED BY <1>2, <2>1, <2>2
<1>4. AllDigits(d)
  BY <1>2, <1>3 DEF AllDigits
<1>5. NumberOf(d) \in Nat
  BY <1>4, NumberOfType
<1>6. Between(t, i, j) = {} \/ Between(t, i, j) = {NumberOf(d)}
  BY DEF Between, d
<1>7. IsFiniteSet({}) /\ IsFiniteSet({NumberOf(d)})
  BY FS_EmptySet, FS_Singleton
<1> QED BY <1>4, <1>5, <1>6, <1>7 DEF d

\* g gives the numbers at or behind each offset.
Scanning(g, t) ==
  \A i \in 0 .. Len(t) :
    /\ g[i] \subseteq Nat /\ IsFiniteSet(g[i])
    /\ g[i] = IF Found(t, i) = {} THEN {}
              ELSE g[BehindDigits(t, i)] \cup Between(t, Digits(t, i), BehindDigits(t, i))

\* The scan for used numbers, as facts about each offset.
LEMMA ScansAre ==
  ASSUME NEW t \in Texts
  PROVE  Scanning(Scans(t), t)
<1> DEFINE N == Len(t)
           S == {X \in SUBSET Nat : IsFiniteSet(X)}
           Is(i) == N - i
           More(i) == Between(t, Digits(t, i), BehindDigits(t, i))
           prev == [n \in 1 .. N |-> IF Found(t, N - n) = {} THEN 0 ELSE N - BehindDigits(t, N - n)]
           stepping == [n \in 1 .. N |-> [X \in S |-> IF Found(t, N - n) = {} THEN {}
                                                     ELSE X \cup More(N - n)]]
           Good(f) == f = [i \in 0 .. N |-> IF Found(t, i) = {} THEN {}
                                            ELSE f[BehindDigits(t, i)] \cup More(i)]
           g == Scans(t)
<1>1. N \in Nat
  BY DEF Texts
<1>2. g = CHOOSE f : Good(f)
  BY DEF Scans, Found, Digits, BehindDigits
<1>3. ASSUME NEW i \in 0 .. N, Found(t, i) # {}
      PROVE  /\ BehindDigits(t, i) \in i + 1 .. N
             /\ More(i) \in S
  <2>1. /\ Digits(t, i) \in i + 1 .. N /\ BehindDigits(t, i) \in i + 1 .. N
        /\ EndsAt(t, Digits(t, i), BehindDigits(t, i))
    BY <1>3, FoundIs
  <2>2. Digits(t, i) \in 0 .. N
    BY <1>1, <2>1
  <2>3. More(i) \subseteq Nat /\ IsFiniteSet(More(i))
    BY <2>1, <2>2, BetweenIs
  <2> HIDE DEF More
  <2> QED BY <2>1, <2>3
<1>4. {} \in S /\ \A X, Y \in S : X \cup Y \in S
  BY FS_EmptySet, FS_Union
<1> HIDE DEF S, More
<1>5. PICK f : Recurs(f, S, N, {}, prev, stepping)
  <2>1. ASSUME NEW n \in 1 .. N, NEW X \in S
        PROVE  (IF Found(t, N - n) = {} THEN {} ELSE X \cup More(N - n)) \in S
    <3>1. N - n \in 0 .. N
      BY <1>1
    <3> QED BY <1>3, <1>4, <3>1
  <2>2. stepping \in [1 .. N -> [S -> S]]
    BY <2>1
  <2>3. ASSUME NEW n \in 1 .. N PROVE prev[n] \in Nat /\ prev[n] < n
    <3>1. N - n \in 0 .. N
      BY <1>1
    <3>2. CASE Found(t, N - n) = {}
      BY <3>2
    <3>3. CASE Found(t, N - n) # {}
      <4>1. BehindDigits(t, N - n) \in (N - n) + 1 .. N
        BY <1>3, <3>1, <3>3
      <4>2. prev[n] = N - BehindDigits(t, N - n)
        BY <3>3
      <4> HIDE DEF prev
      <4> QED BY <1>1, <4>1, <4>2
    <3> QED BY <3>2, <3>3
  <2>4. prev \in [1 .. N -> Nat]
    BY <2>3
  <2> HIDE DEF prev, stepping
  <2> QED BY <1>1, <1>4, <2>2, <2>3, <2>4, Recursion
<1> DEFINE h == [i \in 0 .. N |-> f[N - i]]
<1>6. ASSUME NEW i \in 0 .. N
      PROVE  h[i] = IF Found(t, i) = {} THEN {} ELSE h[BehindDigits(t, i)] \cup More(i)
  <2>1. h[i] = f[N - i] /\ N - i \in 0 .. N /\ N - (N - i) = i
    BY <1>1
  <2>2. CASE N - i = 0
    <3>1. Found(t, i) = {}
      <4>1. i = N /\ Len(Open) \in Nat /\ Len(Open) >= 3
        BY <1>1, <2>2, OpenIs
      <4> QED BY <1>1, <4>1 DEF Found
    <3> QED BY <1>5, <2>1, <2>2, <3>1 DEF Recurs
  <2>3. CASE N - i # 0
    <3> DEFINE n == N - i
    <3>1. n \in 1 .. N /\ N - n = i
      BY <1>1, <2>3
    <3> HIDE DEF n
    <3>2. f[n] = stepping[n][f[prev[n]]] /\ prev[n] \in 0 .. N /\ f \in [0 .. N -> S]
      <4>1. prev[n] \in 0 .. N
        <5>1. CASE Found(t, i) = {}
          BY <1>1, <3>1, <5>1
        <5>2. CASE Found(t, i) # {}
          <6>1. BehindDigits(t, i) \in i + 1 .. N
            BY <1>3, <5>2
          <6> QED BY <1>1, <3>1, <5>2, <6>1
        <5> QED BY <5>1, <5>2
      <4> HIDE DEF prev, stepping
      <4> QED BY <1>5, <3>1, <4>1 DEF Recurs
    <3>3. f[prev[n]] \in S
      <4> HIDE DEF prev
      <4> QED BY <3>2
    <3>4. f[n] = IF Found(t, i) = {} THEN {} ELSE f[prev[n]] \cup More(i)
      <4> HIDE DEF prev
      <4> QED BY <3>1, <3>2, <3>3
    <3>5. CASE Found(t, i) = {}
      BY <2>1, <3>4, <3>5 DEF n
    <3>6. CASE Found(t, i) # {}
      <4>1. BehindDigits(t, i) \in 0 .. N
        <5>1. BehindDigits(t, i) \in i + 1 .. N
          BY <1>3, <3>6
        <5> QED BY <1>1, <5>1
      <4>2. prev[n] = N - BehindDigits(t, i)
        BY <3>1, <3>6
      <4>3. h[BehindDigits(t, i)] = f[prev[n]]
        BY <4>1, <4>2
      <4> HIDE DEF h, prev
      <4> QED BY <2>1, <3>4, <3>6, <4>3 DEF n
    <3> QED BY <3>5, <3>6
  <2> QED BY <2>2, <2>3
<1>7. Good(h)
  <2>1. h = [i \in 0 .. N |-> h[i]]
    OBVIOUS
  <2> HIDE DEF h
  <2> QED BY <1>6, <2>1
<1>8. Good(g)
  <2> HIDE DEF Good, h
  <2> QED BY <1>2, <1>7
<1> HIDE DEF g
<1>9. \A i \in 0 .. N : g[i] = IF Found(t, i) = {} THEN {} ELSE g[BehindDigits(t, i)] \cup More(i)
  BY <1>8
<1> HIDE DEF Good
<1> DEFINE back == [n \in 0 .. N |-> g[N - n]]
           I == {n \in 0 .. N : \A k \in 0 .. n : g[N - k] \in S}
<1>10. ASSUME NEW n \in 0 .. N, \A k \in 0 .. n - 1 : g[N - k] \in S PROVE g[N - n] \in S
  <2>1. N - n \in 0 .. N
    BY <1>1
  <2>2. CASE Found(t, N - n) = {}
    BY <1>4, <1>9, <2>1, <2>2
  <2>3. CASE Found(t, N - n) # {}
    <3> DEFINE j == BehindDigits(t, N - n)
    <3>1. j \in (N - n) + 1 .. N
      BY <1>3, <2>1, <2>3
    <3> HIDE DEF j
    <3>2. N - j \in 0 .. n - 1 /\ N - (N - j) = j
      BY <1>1, <3>1
    <3>3. g[j] \in S
      BY <1>10, <3>2
    <3>4. More(N - n) \in S
      BY <1>3, <2>1, <2>3
    <3>5. g[N - n] = g[j] \cup More(N - n)
      BY <1>9, <2>1, <2>3 DEF j
    <3> QED BY <1>4, <3>3, <3>4, <3>5
  <2> QED BY <2>2, <2>3
<1>11. I = 0 .. N
  <2>1. 0 \in I
    <3>1. g[N - 0] \in S
      BY <1>1, <1>10, 0 \in 0 .. N, \A k \in 0 .. 0 - 1 : FALSE
    <3> QED BY <1>1, <3>1
  <2>2. ASSUME NEW n \in I, n < N PROVE n + 1 \in I
    <3>1. n + 1 \in 0 .. N /\ (n + 1) - 1 = n
      BY <1>1, <2>2
    <3>2. g[N - (n + 1)] \in S
      BY <1>10, <3>1
    <3>3. \A k \in 0 .. n + 1 : k = n + 1 \/ k \in 0 .. n
      BY <1>1, <3>1
    <3> QED BY <3>1, <3>2, <3>3
  <2>3. I \subseteq 0 .. N
    OBVIOUS
  <2> HIDE DEF I
  <2> QED BY <1>1, <2>1, <2>2, <2>3, Induct
<1>12. ASSUME NEW i \in 0 .. N PROVE g[i] \in S
  <2>1. N - i \in 0 .. N /\ N - i \in 0 .. N - i /\ N - (N - i) = i
    BY <1>1
  <2>2. N - i \in I
    BY <1>11, <2>1
  <2>3. g[N - (N - i)] \in S
    BY <2>1, <2>2
  <2> QED BY <2>1, <2>3
<1>13. \A i \in 0 .. N : g[i] \subseteq Nat /\ IsFiniteSet(g[i])
  BY <1>12 DEF S
<1> QED BY <1>9, <1>13 DEF Scanning, More, g, N

\* The numbers in use are finitely many.
LEMMA UsedAre ==
  ASSUME NEW t \in Texts
  PROVE  UsedMarkers(t) \subseteq Nat /\ IsFiniteSet(UsedMarkers(t))
<1>1. 0 \in 0 .. Len(t)
  BY DEF Texts
<1> QED BY <1>1, ScansAre DEF Scanning, UsedMarkers

\* The text t holds k from offset x on.
Holds(t, x, k) == x \in 0 .. Len(t) - Len(k) /\ \A j \in 1 .. Len(k) : t[x + j] = k[j]

\* A run of digits ends in one place.
LEMMA OneEnd ==
  ASSUME NEW t \in Texts, NEW i \in 0 .. Len(t), NEW j, EndsAt(t, i, j), NEW k, EndsAt(t, i, k)
  PROVE  j = k
<1>1. Len(t) \in Nat
  BY DEF Texts
<1>2. ASSUME NEW a, EndsAt(t, i, a), NEW b, EndsAt(t, i, b), a < b PROVE FALSE
  <2>1. a \in i .. Len(t) /\ b \in i .. Len(t) /\ a < Len(t) /\ a \in i .. b - 1
    BY <1>1, <1>2 DEF EndsAt
  <2> QED BY <1>2, <2>1 DEF EndsAt
<1>3. j \in i .. Len(t) /\ k \in i .. Len(t)
  BY DEF EndsAt
<1>4. j < k \/ j = k \/ k < j
  BY <1>1, <1>3
<1> QED BY <1>2, <1>4

\* Two texts of the same bytes are one text.
LEMMA SlicesEqual ==
  ASSUME NEW a \in Texts, NEW b \in Texts, Len(a) = Len(b), \A i \in 1 .. Len(a) : a[i] = b[i]
  PROVE  a = b
BY SeqEqual DEF Texts

\* An opening that t holds, and what it holds is one.
LEMMA OpenAtIs ==
  ASSUME NEW t \in Texts, NEW x \in 0 .. Len(t) - Len(Open)
  PROVE  OpenAt(t, x) <=> \A j \in 1 .. Len(Open) : t[x + j] = Open[j]
<1> DEFINE O == Len(Open)
           s == Slice(t, x, x + O)
<1>1. Len(t) \in Nat /\ O \in Nat /\ Open \in Texts
  BY OpenIs DEF Texts
<1>2. x \in 0 .. Len(t) /\ x + O \in x .. Len(t) /\ (x + O) - x = O
  BY <1>1
<1>3. s \in Texts /\ Len(s) = O /\ \A i \in 1 .. O : s[i] = t[x + i]
  BY <1>2, SliceIs
<1>4. OpenAt(t, x) <=> s = Open
  BY DEF OpenAt
<1> HIDE DEF s
<1>5. (\A i \in 1 .. O : s[i] = Open[i]) => s = Open
  BY <1>1, <1>3, SlicesEqual
<1> QED BY <1>3, <1>4, <1>5

\* Of a marker in a text the scan learns the number.
LEMMA MarkerSeen ==
  ASSUME NEW t \in Texts, NEW n \in Nat, NEW x, Holds(t, x, Marker(n))
  PROVE  /\ x \in 0 .. Len(t) - Len(Open) /\ OpenAt(t, x)
         /\ EndsAt(t, x + Len(Open), x + Len(Open) + Len(Decimal(n)))
         /\ Between(t, x + Len(Open), x + Len(Open) + Len(Decimal(n))) = {n}
<1> DEFINE k == Marker(n)
           d == Decimal(n)
           O == Len(Open)
           D == Len(d)
           N == Len(t)
           from == x + O
           to == x + O + D
<1>1. /\ k \in Texts /\ D \in Nat /\ Len(k) = O + D + 1
      /\ \A i \in 1 .. O : k[i] = Open[i]
      /\ \A i \in 1 .. D : k[O + i] = d[i]
      /\ k[Len(k)] = "]"
  BY MarkerIs DEF MarkerOf
<1>2. N \in Nat /\ O \in Nat /\ O >= 3
  BY OpenIs DEF Texts
<1>3. d \in Texts /\ AllDigits(d) /\ d # <<>> /\ NumberOf(d) = n
  BY DecimalIs, DecimalText DEF Stands
<1>4. D >= 1
  <2>1. D # 0
    BY <1>3, EmptySeq DEF Texts
  <2> QED BY <1>1, <2>1
<1>5. /\ x \in 0 .. N - Len(k)
      /\ \A j \in 1 .. Len(k) : t[x + j] = k[j]
  BY DEF Holds
<1> HIDE DEF k, d, O, D, N
<1>6. x \in Nat /\ x + O + D + 1 <= N
  BY <1>1, <1>2, <1>5
<1>7. x \in 0 .. N - O
  BY <1>1, <1>2, <1>6
<1>8. ASSUME NEW i \in 1 .. O PROVE t[x + i] = Open[i]
  <2>1. i \in 1 .. Len(k)
    BY <1>1, <1>2
  <2> QED BY <1>1, <1>5, <2>1
<1>9. OpenAt(t, x)
  BY <1>7, <1>8, OpenAtIs DEF O, N
<1>10. ASSUME NEW i \in 1 .. D PROVE t[from + i] = d[i]
  <2>1. O + i \in 1 .. Len(k) /\ x + (O + i) = from + i
    BY <1>1, <1>2, <1>6
  <2>2. t[x + (O + i)] = k[O + i]
    BY <1>5, <2>1
  <2> QED BY <1>1, <2>1, <2>2
<1>11. t[to + 1] = "]"
  <2>1. Len(k) \in 1 .. Len(k) /\ x + Len(k) = to + 1
    BY <1>1, <1>2, <1>6
  <2>2. t[x + Len(k)] = k[Len(k)]
    BY <1>5, <2>1
  <2> QED BY <1>1, <2>1, <2>2
<1>12. from \in 0 .. N /\ to \in from .. N /\ from < to /\ to < N /\ to - from = D
  BY <1>1, <1>2, <1>4, <1>6
<1>13. ASSUME NEW y \in from .. to - 1 PROVE IsDigit(t[y + 1])
  <2> DEFINE i == y - from + 1
  <2>1. i \in 1 .. D /\ from + i = y + 1
    BY <1>1, <1>2, <1>12, SMTT(60)
  <2> HIDE DEF i, from
  <2>2. t[y + 1] = d[i]
    BY <1>10, <2>1
  <2>3. IsDigit(d[i])
    BY <1>3, <2>1 DEF AllDigits, D
  <2> QED BY <2>2, <2>3
<1>14. EndsAt(t, from, to)
  BY <1>11, <1>12, <1>13, NotDigits DEF EndsAt, N
<1>15. Slice(t, from, to) = d
  <2>1. /\ Slice(t, from, to) \in Texts /\ Len(Slice(t, from, to)) = to - from
        /\ \A i \in 1 .. to - from : Slice(t, from, to)[i] = t[from + i]
    BY <1>12, SliceIs DEF N
  <2> HIDE DEF from, to
  <2>2. Len(Slice(t, from, to)) = Len(d) /\ \A i \in 1 .. Len(Slice(t, from, to)) : Slice(t, from, to)[i] = d[i]
    BY <1>10, <1>12, <2>1 DEF D
  <2> QED BY <1>3, <2>1, <2>2, SlicesEqual
<1>16. Between(t, from, to) = {n}
  BY <1>3, <1>11, <1>12, <1>15 DEF Between, N
<1> QED BY <1>7, <1>9, <1>14, <1>16 DEF from, to, O, D, N, d

\* With a plain prefix the scan misses no marker: neither an opening in front of
\* it nor the digits behind one reach over its first bracket.
LEMMA UsedHolds ==
  ASSUME PlainPrefix, NEW t \in Texts, NEW n \in Nat, NEW x, Holds(t, x, Marker(n))
  PROVE  n \in UsedMarkers(t)
<1> DEFINE g == Scans(t)
           O == Len(Open)
           N == Len(t)
           J == {j \in 0 .. x : n \notin g[x - j]}
<1>1. /\ N \in Nat /\ O \in Nat /\ O >= 3 /\ Open[1] = "["
      /\ \A i \in 2 .. O : Open[i] # "["
  BY OpenIs DEF Texts
<1>2. /\ x \in 0 .. N - O /\ OpenAt(t, x)
      /\ EndsAt(t, x + O, x + O + Len(Decimal(n)))
      /\ Between(t, x + O, x + O + Len(Decimal(n))) = {n}
  BY MarkerSeen
<1>3. t[x + 1] = "["
  <2>1. t[x + 1] = Open[1]
    BY <1>1, <1>2, OpenAtIs, 1 \in 1 .. O
  <2> QED BY <1>1, <2>1
<1>4. ASSUME NEW i \in 0 .. x, \A y \in i + 1 .. x : n \in g[y] PROVE n \in g[i]
  <2> DEFINE m == Min(Found(t, i))
  <2>1. i \in 0 .. N /\ x \in Found(t, i)
    BY <1>1, <1>2 DEF Found
  <2>2. /\ m \in Found(t, i) /\ m <= x
        /\ Digits(t, i) \in i + 1 .. N
        /\ EndsAt(t, Digits(t, i), BehindDigits(t, i))
    BY <2>1, FoundIs
  <2>3. g[i] = g[BehindDigits(t, i)] \cup Between(t, Digits(t, i), BehindDigits(t, i))
    BY <2>1, ScansAre DEF Scanning
  <2>4. m \in i .. N - O /\ OpenAt(t, m) /\ Digits(t, i) = m + O
    BY <2>2 DEF Found, Digits
  <2> HIDE DEF m
  <2>5. CASE m = x
    <3>1. x + O \in 0 .. N
      BY <1>1, <1>2
    <3>2. BehindDigits(t, i) = x + O + Len(Decimal(n))
      BY <1>2, <2>2, <2>4, <2>5, <3>1, OneEnd
    <3> QED BY <1>2, <2>3, <2>4, <2>5, <3>2
  <2>6. CASE m # x
    <3>1. m \in Nat /\ m < x /\ m \in 0 .. N - O
      BY <1>1, <1>2, <2>2, <2>4, <2>6
    <3>2. m + O <= x
      <4> SUFFICES ASSUME x < m + O PROVE FALSE
        BY <1>1, <1>2, <3>1
      <4>1. x - m + 1 \in 2 .. O /\ m + (x - m + 1) = x + 1 /\ x - m + 1 \in 1 .. O
        BY <1>1, <1>2, <3>1
      <4>2. t[m + (x - m + 1)] = Open[x - m + 1]
        BY <2>4, <3>1, <4>1, OpenAtIs
      <4> QED BY <1>1, <1>3, <4>1, <4>2
    <3>3. BehindDigits(t, i) <= x
      <4> DEFINE from == Digits(t, i)
                 to == BehindDigits(t, i)
      <4>1. from \in 0 .. x /\ to \in from .. N
        BY <1>1, <2>2, <2>4, <3>1, <3>2 DEF EndsAt
      <4> HIDE DEF from, to
      <4> SUFFICES ASSUME x < to PROVE FALSE
        BY <1>1, <1>2, <4>1 DEF to
      <4>2. x \in from .. to - 1
        BY <1>1, <1>2, <4>1
      <4>3. IsDigit(t[x + 1])
        BY <2>2, <4>2 DEF EndsAt, from, to
      <4> QED BY <1>3, <4>3, NotDigits
    <3>4. BehindDigits(t, i) \in i + 1 .. x
      <4>1. BehindDigits(t, i) \in i + 1 .. N
        BY <2>1, FoundIs
      <4> QED BY <1>1, <1>2, <3>3, <4>1
    <3> QED BY <1>4, <2>3, <3>4
  <2> QED BY <2>5, <2>6
<1>5. J = {}
  <2> SUFFICES ASSUME J # {} PROVE FALSE
    OBVIOUS
  <2>1. J \subseteq Nat
    OBVIOUS
  <2>2. PICK j \in J : \A y \in J : j <= y
    <3> HIDE DEF J
    <3> QED BY <2>1, LeastNumber
  <2>3. x \in Nat /\ j \in 0 .. x /\ x - j \in 0 .. x
    BY <1>1, <1>2
  <2>4. ASSUME NEW y \in x - j + 1 .. x PROVE n \in g[y]
    <3>1. x - y \in 0 .. x /\ ~(j <= x - y) /\ x - (x - y) = y
      BY <2>3
    <3>2. x - y \notin J
      BY <2>2, <3>1
    <3> QED BY <3>1, <3>2
  <2>5. n \in g[x - j]
    BY <1>4, <2>3, <2>4
  <2> QED BY <2>5
<1>6. n \in g[0]
  <2>1. x \in 0 .. x /\ x - x = 0
    BY <1>1, <1>2
  <2> QED BY <1>5, <2>1
<1> QED BY <1>6 DEF UsedMarkers

----------------------------------------------------------------------------
(* The markers of a text *)

\* Among as many numbers as are used, and one more, one is free.
LEMMA NextNumberIs ==
  ASSUME NEW used, used \subseteq Nat, IsFiniteSet(used), NEW start \in Nat
  PROVE  /\ NextNumber(used, start) \in Nat /\ NextNumber(used, start) >= start
         /\ NextNumber(used, start) \notin used
<1> DEFINE c == Cardinality(used)
           all == start .. start + c
<1>1. c \in Nat
  BY FS_CardinalityType
<1>2. IsFiniteSet(all) /\ Cardinality(all) = c + 1
  <2>1. start \in Int /\ start + c \in Int /\ start <= start + c /\ (start + c) - start + 1 = c + 1
    BY <1>1
  <2> HIDE DEF c
  <2> QED BY <2>1, FS_Interval
<1> HIDE DEF c, all
<1>3. all \ used # {}
  <2> SUFFICES ASSUME all \subseteq used PROVE FALSE
    OBVIOUS
  <2>1. Cardinality(all) <= Cardinality(used)
    BY <1>2, FS_Subset
  <2> QED BY <1>1, <1>2, <2>1 DEF c
<1>4. all \ used \subseteq Nat
  BY <1>1 DEF all
<1>5. Min(all \ used) \in all \ used
  BY <1>3, <1>4, MinIs
<1>6. NextNumber(used, start) \in all \ used
  BY <1>5 DEF NextNumber, all, c
<1> QED BY <1>1, <1>6 DEF all

\* The numbers are free and no two are equal.
Free(num, used, count) ==
  /\ \A n \in 1 .. count : num[n] \in Nat /\ num[n] \notin used
  /\ \A i, j \in 1 .. count : i # j => num[i] # num[j]

\* The numbers handed out are different and none of them is in use.
LEMMA NumbersAre ==
  ASSUME NEW used, used \subseteq Nat, IsFiniteSet(used), NEW count \in Nat
  PROVE  Free(Numbers(used, count), used, count)
<1> DEFINE S == Nat \cup {-1}
           stepping == [n \in 1 .. count |-> [v \in S |-> NextNumber(used, v + 1)]]
           Good(f) == f = [n \in 0 .. count |->
                             IF n = 0 THEN -1 ELSE NextNumber(used, f[n - 1] + 1)]
           g == Numbers(used, count)
<1>1. g = CHOOSE f : Good(f)
  BY DEF Numbers
<1>2. ASSUME NEW v \in S
      PROVE  /\ NextNumber(used, v + 1) \in Nat /\ NextNumber(used, v + 1) > v
             /\ NextNumber(used, v + 1) \notin used
  <2>1. v + 1 \in Nat /\ v \in Int
    OBVIOUS
  <2>2. /\ NextNumber(used, v + 1) \in Nat /\ NextNumber(used, v + 1) >= v + 1
        /\ NextNumber(used, v + 1) \notin used
    BY <2>1, NextNumberIs
  <2> QED BY <2>1, <2>2
<1>3. PICK f : Iterates(f, S, count, -1, stepping)
  <2>1. stepping \in [1 .. count -> [S -> S]]
    BY <1>2
  <2>2. -1 \in S
    OBVIOUS
  <2> HIDE DEF stepping, S
  <2> QED BY <2>1, <2>2, Iteration
<1>4. f \in [0 .. count -> S] /\ f[0] = -1
  BY <1>3 DEF Iterates
<1>5. ASSUME NEW n \in 1 .. count PROVE f[n] = NextNumber(used, f[n - 1] + 1) /\ f[n - 1] \in S
  <2>1. n - 1 \in 0 .. count
    OBVIOUS
  <2>2. f[n - 1] \in S /\ f[n] = stepping[n][f[n - 1]]
    BY <1>3, <2>1 DEF Iterates
  <2> HIDE DEF S
  <2> QED BY <2>2
<1>6. Good(f)
  <2> HIDE DEF S
  <2> QED BY <1>4, <1>5
<1>7. Good(g)
  <2> HIDE DEF Good
  <2> QED BY <1>1, <1>6
<1> HIDE DEF g
<1>8. g[0] = -1 /\ \A n \in 1 .. count : g[n] = NextNumber(used, g[n - 1] + 1)
  BY <1>7
<1> HIDE DEF Good
<1>9. \A n \in 0 .. count : g[n] \in S
  <2>1. \A n \in 1 .. count : g[n - 1] \in S => g[n] \in S
    BY <1>2, <1>8
  <2>2. g[0] \in S
    BY <1>8
  <2> HIDE DEF S
  <2> QED BY <2>1, <2>2, Iterated
<1>10. ASSUME NEW n \in 1 .. count PROVE g[n] \in Nat /\ g[n] > g[n - 1] /\ g[n] \notin used
  <2>1. n - 1 \in 0 .. count
    OBVIOUS
  <2>2. g[n - 1] \in S /\ g[n] = NextNumber(used, g[n - 1] + 1)
    BY <1>8, <1>9, <2>1
  <2> HIDE DEF S
  <2> QED BY <1>2, <2>2
<1> DEFINE I == {n \in 0 .. count : \A i \in 1 .. n : \A j \in 1 .. n : i < j => g[i] < g[j]}
<1>11. ASSUME NEW n \in I, n < count PROVE n + 1 \in I
  <2>1. n + 1 \in 1 .. count /\ (n + 1) - 1 = n
    BY <1>11
  <2>2. g[n + 1] \in Nat /\ g[n + 1] > g[n]
    BY <1>10, <2>1
  <2>3. ASSUME NEW i \in 1 .. n + 1, NEW j \in 1 .. n + 1, i < j PROVE g[i] < g[j]
    <3>1. i \in 1 .. n /\ i \in 1 .. count /\ n \in 1 .. n /\ n \in 1 .. count
      BY <2>1, <2>3
    <3>2. g[i] \in Nat /\ g[n] \in Nat
      BY <1>10, <3>1
    <3>3. CASE j \in 1 .. n
      BY <3>1, <2>3, <3>3
    <3>4. CASE j = n + 1
      <4>1. i = n \/ g[i] < g[n]
        BY <3>1
      <4> QED BY <2>2, <3>2, <3>4, <4>1
    <3> QED BY <2>1, <3>3, <3>4
  <2> QED BY <2>1, <2>3
<1>12. I = 0 .. count
  <2>1. I \subseteq 0 .. count /\ 0 \in I
    OBVIOUS
  <2> HIDE DEF I
  <2> QED BY <1>11, <2>1, Induct
<1>13. \A i, j \in 1 .. count : i # j => g[i] # g[j]
  <2> SUFFICES ASSUME NEW i \in 1 .. count, NEW j \in 1 .. count, i # j PROVE g[i] # g[j]
    OBVIOUS
  <2>1. count \in I
    BY <1>12
  <2>2. \A a \in 1 .. count : \A b \in 1 .. count : a < b => g[a] < g[b]
    BY <2>1
  <2>3. g[i] \in Nat /\ g[j] \in Nat /\ (i < j \/ j < i)
    BY <1>10
  <2> QED BY <2>2, <2>3
<1> QED BY <1>10, <1>13 DEF Free, g

\* Each range gets a marker of its own, and the text holds none of them if the
\* prefix is plain.
OwnMarkers(markers, t, count) ==
  \E num :
    /\ Free(num, UsedMarkers(t), count)
    /\ markers = [n \in 1 .. count |-> Marker(num[n])]

\* The markers of a text are different and none has a number the text uses.
LEMMA MarkersAre ==
  ASSUME NEW t \in Texts, NEW m, Len(m) \in Nat
  PROVE  OwnMarkers(Markers(t, m), t, Len(m))
<1> DEFINE num == Numbers(UsedMarkers(t), Len(m))
<1>1. Free(num, UsedMarkers(t), Len(m))
  BY UsedAre, NumbersAre
<1>2. Markers(t, m) = [n \in 1 .. Len(m) |-> Marker(num[n])]
  BY DEF Markers
<1> HIDE DEF num
<1> QED BY <1>1, <1>2 DEF OwnMarkers

\* Markers are texts.
LEMMA MarkersType ==
  ASSUME NEW t, NEW count \in Nat, NEW markers, OwnMarkers(markers, t, count)
  PROVE  markers \in [1 .. count -> Texts]
<1>1. PICK num : /\ Free(num, UsedMarkers(t), count)
                 /\ markers = [n \in 1 .. count |-> Marker(num[n])]
  BY DEF OwnMarkers
<1>2. \A n \in 1 .. count : Marker(num[n]) \in Texts
  BY <1>1, MarkerIs DEF Free, MarkerOf
<1> QED BY <1>1, <1>2

\* A run of stars is a text.
LEMMA StarsType ==
  /\ StarRun \in Texts /\ Len(StarRun) = 4 /\ \A i \in 1 .. 4 : StarRun[i] = "*"
<1> DEFINE b == "*"
           s == <<b, b, b, b>>
<1>1. b \in Bytes
  BY DEF Bytes
<1>2. StarRun = s
  BY DEF StarRun
<1> HIDE DEF b
<1>3. s \in Seq(Bytes) /\ Len(s) = 4 /\ s[1] = b /\ s[2] = b /\ s[3] = b /\ s[4] = b
  BY <1>1
<1>4. \A i \in 1 .. 4 : i = 1 \/ i = 2 \/ i = 3 \/ i = 4
  OBVIOUS
<1> HIDE DEF s
<1>5. \A i \in 1 .. 4 : s[i] = b
  BY <1>3, <1>4
<1> QED BY <1>2, <1>3, <1>5 DEF Texts, b

----------------------------------------------------------------------------
(* The mask is exact *)

\* What a mask and its table are made of.
LEMMA TableIs ==
  ASSUME NEW t \in Texts, NEW m, Fits(m, t), NEW markers \in [1 .. Len(m) -> Texts]
  PROVE  /\ Len(Replaced(t, markers, m).table) = Len(m)
         /\ \A i \in 1 .. Len(m) : Replaced(t, markers, m).table[i] = Entry(t, markers[i], m[i])
         /\ Replaced(t, markers, m).table \in Table
<1> DEFINE done == Replacements(t, markers, m)
<1>1. Replacing(done, t, markers, m)
  BY ReplacementsAre
<1>2. Replaced(t, markers, m).table = done[Len(m)].table
  BY DEF Replaced
<1>3. Len(m) \in 0 .. Len(m)
  BY FitsIs
<1> HIDE DEF done
<1> QED BY <1>1, <1>2, <1>3 DEF Replacing, Entry

\* The places of a text in order, by the hidden places.
InPlaces(cells, t, hidden, starts, markerAt) ==
  cells = [n \in 1 .. 2 * Len(t) + 1 |->
             IF n - 1 \in starts THEN markerAt[n - 1]
             ELSE IF n - 1 \in hidden \/ n % 2 = 1 THEN <<>>
             ELSE <<t[n \div 2]>>]

HiddenBy(hidden, t, m) ==
  hidden = {h \in 0 .. 2 * Len(t) : \E k \in 1 .. Len(m) : Hides(m[k], h)}

\* The cells of the exact mask are the places of the merged ranges.
LEMMA PlacesAre ==
  ASSUME NEW t \in Texts, NEW m, Fits(m, t), NEW markers \in [1 .. Len(m) -> Texts],
         NEW hidden, HiddenBy(hidden, t, m),
         NEW starts, Starts(starts, m), NEW markerAt,
         \A k \in 1 .. Len(m) : markerAt[2 * m[k].start] = markers[k],
         NEW cells, InPlaces(cells, t, hidden, starts, markerAt)
  PROVE  OfPlaces(cells, t, markers, m)
<1> DEFINE M == Len(m)
           N == Len(t)
<1> USE DEF InPlaces, HiddenBy
<1>1. /\ M \in Nat /\ N \in Nat
      /\ \A k \in 1 .. M : m[k].start \in 0 .. N
  BY FitsIs
<1>2. starts = {2 * m[k].start : k \in 1 .. M}
  BY DEF Starts
<1>3. ASSUME NEW k \in 1 .. M PROVE cells[2 * m[k].start + 1] = markers[k]
  <2> DEFINE n == 2 * m[k].start + 1
  <2>1. n \in 1 .. 2 * N + 1 /\ n - 1 = 2 * m[k].start
    BY <1>1
  <2> HIDE DEF n
  <2>2. n - 1 \in starts
    BY <1>2, <2>1
  <2>3. cells[n] = markerAt[n - 1]
    BY <2>1, <2>2
  <2> QED BY <2>1, <2>3 DEF n
<1>4. ASSUME NEW n \in 1 .. 2 * N + 1, \A k \in 1 .. M : n - 1 # 2 * m[k].start
      PROVE  /\ (\E k \in 1 .. M : Hides(m[k], n - 1)) => cells[n] = <<>>
             /\ (\A k \in 1 .. M : ~Hides(m[k], n - 1))
                  => cells[n] = IF n % 2 = 1 THEN <<>> ELSE <<t[n \div 2]>>
  <2>1. n - 1 \notin starts
    BY <1>2, <1>4
  <2>2. n - 1 \in 0 .. 2 * N
    BY <1>1
  <2>3. n - 1 \in hidden <=> \E k \in 1 .. M : Hides(m[k], n - 1)
    BY <2>2
  <2>4. cells[n] = IF n - 1 \in hidden \/ n % 2 = 1 THEN <<>> ELSE <<t[n \div 2]>>
    BY <2>1
  <2> QED BY <2>3, <2>4
<1>5. ASSUME NEW n \in 1 .. 2 * N + 1 PROVE cells[n] \in Texts
  <2>1. CASE n - 1 \in starts
    <3>1. PICK k \in 1 .. M : n - 1 = 2 * m[k].start
      BY <1>2, <2>1
    <3>2. n = 2 * m[k].start + 1
      BY <1>1, <3>1
    <3> QED BY <1>3, <3>2
  <2>2. CASE n - 1 \notin starts /\ (n - 1 \in hidden \/ n % 2 = 1)
    <3>1. cells[n] = <<>>
      BY <2>2
    <3>2. <<>> \in Texts
      BY DEF Texts
    <3> QED BY <3>1, <3>2
  <2>3. CASE n - 1 \notin starts /\ ~(n - 1 \in hidden \/ n % 2 = 1)
    <3>1. cells[n] = <<t[n \div 2]>>
      BY <2>3
    <3>2. n \div 2 \in 1 .. N
      BY <1>1, <2>3
    <3>3. t[n \div 2] \in Bytes
      BY <3>2 DEF Texts
    <3> QED BY <3>1, <3>3, OneByteIs DEF OneByte
  <2> QED BY <2>1, <2>2, <2>3
<1>6. ASSUME NEW n \in 1 .. 2 * N + 1, \A k \in 1 .. M : ~Hides(m[k], n - 1)
      PROVE  \A k \in 1 .. M : n - 1 # 2 * m[k].start
  <2> SUFFICES ASSUME NEW k \in 1 .. M, n - 1 = 2 * m[k].start PROVE FALSE
    OBVIOUS
  <2>1. m[k].start \in 0 .. N /\ m[k].end \in m[k].start .. N
    BY FitsIs
  <2>2. Hides(m[k], n - 1)
    BY <1>1, <2>1 DEF Hides
  <2> QED BY <1>6, <2>2
<1>7. cells \in [1 .. 2 * N + 1 -> Texts]
  <2>1. cells = [n \in 1 .. 2 * N + 1 |-> cells[n]]
    OBVIOUS
  <2> QED BY <1>5, <2>1
<1> QED BY <1>3, <1>4, <1>6, <1>7 DEF OfPlaces

\* A text whose merged ranges are replaced by whatever markers is masked
\* exactly.
LEMMA MaskIsExact ==
  ASSUME ProperInput(input), \A f \in frags : ~FailsOn(f), resolved = Resolved(frags),
         NEW markers \in [1 .. Len(MergeRanges(Ranges)) -> Texts],
         mask = Replaced(text, markers, MergeRanges(Ranges))
  PROVE  MasksExactly
<1> DEFINE m == MergeRanges(Ranges)
           hidden == Sensitive
           starts == {h \in hidden : h - 1 \notin hidden}
           at == [h \in starts |-> mask.table[Cardinality({g \in starts : g <= h})].marker]
<1>1. Fits(m, text) /\ text \in Texts
  BY RangesFit, ProperText
<1>2. hidden = {h \in 0 .. 2 * Len(text) : \E k \in 1 .. Len(m) : Hides(m[k], h)}
  <2>1. \A h \in Int : (\E i \in 1 .. Len(m) : Hides(m[i], h)) <=> \E f \in frags : Hides(f, h)
    BY RangesFit
  <2>2. \A h \in 0 .. 2 * Len(text) : h \in Int
    OBVIOUS
  <2> HIDE DEF m
  <2> QED BY <2>1, <2>2 DEF Sensitive
<1>10. /\ markers \in [1 .. Len(m) -> Texts] /\ mask = Replaced(text, markers, m)
  OBVIOUS
<1> HIDE DEF m, hidden
<1>3. Starts(starts, m)
  BY <1>1, <1>2, StartsAre
<1>4. Len(mask.table) = Len(m) /\ \A i \in 1 .. Len(m) : mask.table[i].marker = markers[i]
  <2>1. /\ Len(mask.table) = Len(m)
        /\ \A i \in 1 .. Len(m) : mask.table[i] = Entry(text, markers[i], m[i])
    BY <1>1, <1>10, TableIs
  <2>2. \A i \in 1 .. Len(m) : Entry(text, markers[i], m[i]).marker = markers[i]
    BY DEF Entry
  <2> HIDE DEF starts, at
  <2> QED BY <2>1, <2>2
<1>5. ASSUME NEW k \in 1 .. Len(m) PROVE at[2 * m[k].start] = markers[k]
  <2> HIDE DEF starts
  <2>1. 2 * m[k].start \in starts /\ Cardinality({g \in starts : g <= 2 * m[k].start}) = k
    BY <1>3 DEF Starts
  <2> QED BY <1>4, <2>1
<1> DEFINE cells == [n \in 1 .. 2 * Len(text) + 1 |->
                       IF n - 1 \in starts THEN at[n - 1]
                       ELSE IF n - 1 \in hidden \/ n % 2 = 1 THEN <<>>
                       ELSE <<text[n \div 2]>>]
<1>6. OfPlaces(cells, text, markers, m)
  <2>1. InPlaces(cells, text, hidden, starts, at)
    BY DEF InPlaces
  <2>2. HiddenBy(hidden, text, m)
    BY <1>2 DEF HiddenBy
  <2> HIDE DEF starts, at, cells
  <2> QED BY <1>1, <1>10, <1>2, <1>3, <1>5, <2>1, <2>2, PlacesAre
<1>7. FlattenSeq(cells) = mask.masked
  <2> HIDE DEF cells
  <2> QED BY <1>1, <1>10, <1>6, MaskIsFlat
<1>8. cells = [n \in 1 .. 2 * Len(text) + 1 |->
                 IF n - 1 \in starts THEN mask.table[Cardinality({g \in starts : g <= n - 1})].marker
                 ELSE IF n - 1 \in hidden \/ n % 2 = 1 THEN <<>>
                 ELSE <<text[n \div 2]>>]
  <2> HIDE DEF starts
  <2> QED OBVIOUS
<1>9. Len(mask.table) = Cardinality(starts)
  <2> HIDE DEF starts
  <2> QED BY <1>3, <1>4 DEF Starts
<1> HIDE DEF cells
<1> QED BY <1>7, <1>8, <1>9 DEF MasksExactly, hidden

----------------------------------------------------------------------------
(* Whole runes *)

\* Texts of whole runes joined are whole.
LEMMA WholeJoined ==
  ASSUME NEW a \in Texts, NEW b \in Texts, WholeRunes(a), WholeRunes(b)
  PROVE  WholeRunes(a \o b)
<1> DEFINE A == Len(a)
           B == Len(b)
           c == a \o b
<1>1. Joins(c, a, b)
  BY JoinsIs
<1> HIDE DEF c
<1>2. /\ A \in Nat /\ B \in Nat /\ Len(c) = A + B
      /\ \A i \in 1 .. A : c[i] = a[i]
      /\ \A i \in 1 .. B : c[A + i] = b[i]
  BY <1>1 DEF Joins
<1>3. /\ \A i \in 1 .. A : /\ a[i] = "r1" => i < A /\ a[i + 1] = "r2"
                           /\ a[i] = "r2" => i > 1 /\ a[i - 1] = "r1"
      /\ \A i \in 1 .. B : /\ b[i] = "r1" => i < B /\ b[i + 1] = "r2"
                           /\ b[i] = "r2" => i > 1 /\ b[i - 1] = "r1"
  BY DEF WholeRunes
<1> HIDE DEF A, B
<1>4. ASSUME NEW i \in 1 .. A + B
      PROVE  /\ c[i] = "r1" => i < A + B /\ c[i + 1] = "r2"
             /\ c[i] = "r2" => i > 1 /\ c[i - 1] = "r1"
  <2>1. CASE i \in 1 .. A
    <3>1. c[i] = a[i]
      BY <1>2, <2>1
    <3>2. ASSUME c[i] = "r1" PROVE i < A + B /\ c[i + 1] = "r2"
      <4>1. i < A /\ a[i + 1] = "r2"
        BY <1>3, <2>1, <3>1, <3>2
      <4>2. i + 1 \in 1 .. A
        BY <1>2, <2>1, <4>1
      <4> QED BY <1>2, <2>1, <4>1, <4>2
    <3>3. ASSUME c[i] = "r2" PROVE i > 1 /\ c[i - 1] = "r1"
      <4>1. i > 1 /\ a[i - 1] = "r1"
        BY <1>3, <2>1, <3>1, <3>3
      <4>2. i - 1 \in 1 .. A
        BY <1>2, <2>1, <4>1
      <4> QED BY <1>2, <4>1, <4>2
    <3> QED BY <3>2, <3>3
  <2>2. CASE i \notin 1 .. A
    <3> DEFINE j == i - A
    <3>1. j \in 1 .. B /\ A + j = i
      BY <1>2, <2>2
    <3> HIDE DEF j
    <3>2. c[i] = b[j]
      BY <1>2, <3>1
    <3>3. ASSUME c[i] = "r1" PROVE i < A + B /\ c[i + 1] = "r2"
      <4>1. j < B /\ b[j + 1] = "r2"
        BY <1>3, <3>1, <3>2, <3>3
      <4>2. j + 1 \in 1 .. B /\ A + (j + 1) = i + 1 /\ i < A + B
        BY <1>2, <3>1, <4>1
      <4> QED BY <1>2, <4>1, <4>2
    <3>4. ASSUME c[i] = "r2" PROVE i > 1 /\ c[i - 1] = "r1"
      <4>1. j > 1 /\ b[j - 1] = "r1"
        BY <1>3, <3>1, <3>2, <3>4
      <4>2. j - 1 \in 1 .. B /\ A + (j - 1) = i - 1 /\ i > 1
        BY <1>2, <3>1, <4>1
      <4> QED BY <1>2, <4>1, <4>2
    <3> QED BY <3>3, <3>4
  <2> QED BY <2>1, <2>2
<1> QED BY <1>2, <1>4 DEF WholeRunes, c

\* What is cut at the beginnings of runes is whole.
LEMMA WholeSlice ==
  ASSUME NEW t \in Texts, WholeRunes(t),
         NEW a \in RuneStarts(t), NEW b \in RuneStarts(t), a <= b
  PROVE  WholeRunes(Slice(t, a, b))
<1> DEFINE s == Slice(t, a, b)
           N == Len(t)
<1>1. N \in Nat /\ a \in 0 .. N /\ b \in a .. N /\ b \in 0 .. N
  BY DEF RuneStarts, Texts
<1>2. (a = N \/ t[a + 1] # "r2") /\ (b = N \/ t[b + 1] # "r2")
  BY DEF RuneStarts
<1>3. Len(s) = b - a /\ \A i \in 1 .. b - a : s[i] = t[a + i]
  BY <1>1, SliceIs
<1>4. \A i \in 1 .. N : /\ t[i] = "r1" => i < N /\ t[i + 1] = "r2"
                        /\ t[i] = "r2" => i > 1 /\ t[i - 1] = "r1"
  BY DEF WholeRunes
<1> HIDE DEF s, N
<1>5. ASSUME NEW i \in 1 .. b - a, s[i] = "r1" PROVE i < b - a /\ s[i + 1] = "r2"
  <2> DEFINE j == a + i
  <2>1. j \in 1 .. N /\ t[j] = "r1" /\ j <= b
    BY <1>1, <1>3, <1>5
  <2> HIDE DEF j
  <2>2. j < N /\ t[j + 1] = "r2"
    BY <1>4, <2>1
  <2>3. j # b
    BY <1>1, <1>2, <2>1, <2>2
  <2>4. i < b - a /\ i + 1 \in 1 .. b - a /\ a + (i + 1) = j + 1
    BY <1>1, <2>1, <2>3 DEF j
  <2> QED BY <1>3, <2>2, <2>4
<1>6. ASSUME NEW i \in 1 .. b - a, s[i] = "r2" PROVE i > 1 /\ s[i - 1] = "r1"
  <2> DEFINE j == a + i
  <2>1. j \in 1 .. N /\ t[j] = "r2"
    BY <1>1, <1>3, <1>6
  <2> HIDE DEF j
  <2>2. j > 1 /\ t[j - 1] = "r1"
    BY <1>4, <2>1
  <2>3. i # 1
    BY <1>1, <1>2, <2>1 DEF j
  <2>4. i > 1 /\ i - 1 \in 1 .. b - a /\ a + (i - 1) = j - 1
    BY <1>1, <2>1, <2>3 DEF j
  <2> QED BY <1>3, <2>2, <2>4
<1> QED BY <1>3, <1>5, <1>6 DEF WholeRunes, s

\* A text without long runes is whole.
LEMMA WholeOther ==
  ASSUME NEW t, \A i \in 1 .. Len(t) : t[i] # "r1" /\ t[i] # "r2"
  PROVE  WholeRunes(t)
BY DEF WholeRunes

\* A marker cuts no rune unless its prefix does.
LEMMA WholeMarkers ==
  /\ WholeRunes(StarRun)
  /\ WholeRunes(Prefix) => \A n \in Nat : WholeRunes(Marker(n))
<1>1. WholeRunes(StarRun)
  BY StarsType, WholeOther
<1>2. ASSUME WholeRunes(Prefix), NEW n \in Nat PROVE WholeRunes(Marker(n))
  <2> DEFINE a == <<"[">>
             b == <<"_">>
             e == <<"]">>
             d == Decimal(n)
  <2>1. OneByte(a, "[") /\ OneByte(b, "_") /\ OneByte(e, "]")
    BY PunctuationIs
  <2>2. Marker(n) = ((a \o Prefix \o b) \o d) \o e
    BY DEF Marker, Open
  <2>3. Prefix \in Texts
    BY PrefixAssumption, TextsAre
  <2>4. d \in Texts /\ AllDigits(d)
    BY DecimalText, DecimalIs DEF Stands
  <2> HIDE DEF a, b, e, d
  <2>5. WholeRunes(a) /\ WholeRunes(b) /\ WholeRunes(e)
    <3>1. ASSUME NEW x, NEW y, OneByte(x, y), y # "r1", y # "r2" PROVE WholeRunes(x)
      BY <3>1, WholeOther DEF OneByte
    <3> QED BY <2>1, <3>1
  <2>6. WholeRunes(d)
    BY <2>4, NotDigits, WholeOther DEF AllDigits
  <2>7. a \in Texts /\ b \in Texts /\ e \in Texts
    BY <2>1 DEF OneByte
  <2>8. a \o Prefix \in Texts /\ WholeRunes(a \o Prefix)
    BY <1>2, <2>3, <2>5, <2>7, TextsConcat, WholeJoined
  <2>9. a \o Prefix \o b \in Texts /\ WholeRunes(a \o Prefix \o b)
    BY <2>5, <2>7, <2>8, TextsConcat, WholeJoined
  <2>10. (a \o Prefix \o b) \o d \in Texts /\ WholeRunes((a \o Prefix \o b) \o d)
    BY <2>4, <2>6, <2>9, TextsConcat, WholeJoined
  <2> QED BY <2>2, <2>5, <2>7, <2>10, WholeJoined
<1> QED BY <1>1, <1>2

\* A whole text stays whole when ranges between its runes are replaced by whole
\* markers.
LEMMA MaskIsWhole ==
  ASSUME NEW t \in Texts, WholeRunes(t), NEW m, Fits(m, t),
         NEW markers \in [1 .. Len(m) -> Texts], \A n \in 1 .. Len(m) : WholeRunes(markers[n])
  PROVE  WholeRunes(Replaced(t, markers, m).masked)
<1> DEFINE M == Len(m)
           N == Len(t)
           done == Replacements(t, markers, m)
           Good(n) == WholeRunes(done[n].masked)
           I == {n \in 0 .. M : Good(n)}
<1>1. Replacing(done, t, markers, m)
  BY ReplacementsAre
<1> HIDE DEF done
<1>2. M \in Nat /\ N \in Nat
  BY FitsIs
<1>3. 0 \in RuneStarts(t) /\ N \in RuneStarts(t)
  <2>1. N # 0 => t[0 + 1] # "r2"
    BY <1>2 DEF WholeRunes
  <2> QED BY <1>2, <2>1 DEF RuneStarts
<1>4. \A n \in 0 .. M : /\ done[n].masked \in Texts
                        /\ done[n].last = IF n = 0 THEN 0 ELSE m[n].end
                        /\ done[n].last \in RuneStarts(t)
  <2>1. \A n \in 0 .. M : /\ done[n].masked \in Texts
                          /\ done[n].last = IF n = 0 THEN 0 ELSE m[n].end
    BY <1>1 DEF Replacing
  <2>2. \A n \in 0 .. M : n # 0 => m[n].end \in RuneStarts(t)
    BY <1>2 DEF Fits
  <2> QED BY <1>3, <2>1, <2>2
<1>5. Good(0)
  <2>1. done[0].masked = <<>>
    BY <1>1 DEF Replacing, Nothing
  <2> QED BY <2>1 DEF WholeRunes
<1>6. ASSUME NEW k \in 0 .. M, k < M, Good(k) PROVE Good(k + 1)
  <2> DEFINE n == k + 1
             d == done[k]
             a == d.masked
             s == Slice(t, d.last, m[n].start)
  <2>1. n \in 1 .. M /\ n - 1 = k
    BY <1>2, <1>6
  <2>2. done[n] = Replace(t, markers[n], d, m[n])
    BY <1>1, <2>1 DEF Replacing
  <2>3. d.last \in RuneStarts(t) /\ m[n].start \in RuneStarts(t) /\ d.last <= m[n].start
        /\ d.last \in 0 .. N /\ m[n].start \in d.last .. N
    <3>1. d.last = IF n - 1 = 0 THEN 0 ELSE m[n - 1].end
      BY <1>4, <2>1
    <3>2. d.last \in 0 .. N /\ d.last <= m[n].start /\ m[n].start \in d.last .. N
      BY <2>1, <3>1, LastFits
    <3> QED BY <1>4, <2>1, <3>2 DEF Fits
  <2>4. s \in Texts /\ WholeRunes(s)
    BY <2>3, SliceIs, WholeSlice
  <2>5. a \in Texts /\ WholeRunes(a)
    BY <1>4, <1>6
  <2>6. done[n].masked = a \o s \o markers[n]
    <3> HIDE DEF d, n
    <3>1. Replace(t, markers[n], d, m[n]).masked
            = d.masked \o Slice(t, d.last, m[n].start) \o markers[n]
      BY DEF Replace
    <3> QED BY <2>2, <3>1
  <2>7. markers[n] \in Texts /\ WholeRunes(markers[n])
    BY <2>1
  <2> HIDE DEF a, s, n
  <2>8. a \o s \in Texts /\ WholeRunes(a \o s)
    BY <2>4, <2>5, TextsConcat, WholeJoined
  <2>9. WholeRunes(done[n].masked)
    BY <2>6, <2>7, <2>8, WholeJoined
  <2> QED BY <2>9 DEF n
<1>7. I = 0 .. M
  <2> HIDE DEF Good
  <2>1. I \subseteq 0 .. M /\ 0 \in I /\ \A n \in I : n < M => n + 1 \in I
    BY <1>2, <1>5, <1>6
  <2> HIDE DEF I
  <2> QED BY <1>2, <2>1, Induct
<1>8. M \in 0 .. M
  BY <1>2
<1>9. Good(M)
  BY <1>7, <1>8
<1> DEFINE a == done[M].masked
           s == Slice(t, done[M].last, N)
<1>10. a \in Texts /\ WholeRunes(a)
  BY <1>4, <1>8, <1>9
<1>11. s \in Texts /\ WholeRunes(s)
  <2>1. done[M].last \in RuneStarts(t)
    BY <1>4, <1>8
  <2>2. done[M].last \in 0 .. N /\ N \in done[M].last .. N /\ done[M].last <= N
    BY <1>2, <2>1 DEF RuneStarts
  <2> QED BY <1>3, <2>1, <2>2, SliceIs, WholeSlice
<1>12. Replaced(t, markers, m).masked = a \o s
  BY DEF Replaced, done
<1> HIDE DEF a, s
<1> QED BY <1>10, <1>11, <1>12, WholeJoined

\* No mask of proper input cuts a rune or leaves its text, whatever whole
\* markers it has.
LEMMA MaskFailsClosed ==
  ASSUME ProperInput(input), \A f \in frags : ~FailsOn(f), resolved = Resolved(frags),
         NEW markers \in [1 .. Len(MergeRanges(Ranges)) -> Texts],
         \A n \in 1 .. Len(MergeRanges(Ranges)) : WholeRunes(markers[n]),
         mask = Replaced(text, markers, MergeRanges(Ranges))
  PROVE  FailsClosed
<1>1. text \in Texts /\ WholeRunes(text) /\ Fits(MergeRanges(Ranges), text)
  BY ProperText, RangesFit
<1>2. WholeRunes(mask.masked)
  BY <1>1, MaskIsWhole
<1>3. \A f \in frags : f.start \in RuneStarts(text) /\ f.end \in RuneStarts(text)
  BY ProperFragments
<1>4. RuneStarts(text) \subseteq 0 .. Len(text) /\ Len(text) \in Nat
  BY ProperText
<1>5. \A f \in frags : 0 <= f.start /\ f.end <= Len(text)
  BY <1>3, <1>4
<1> QED BY <1>2, <1>5 DEF FailsClosed

----------------------------------------------------------------------------
(* Restoring *)

\* A marker with a plain prefix has its brackets at its ends only.
Bracketed(k) ==
  /\ k \in Texts /\ Len(k) \in Nat /\ Len(k) >= 2
  /\ k[1] = "[" /\ k[Len(k)] = "]"
  /\ \A i \in 2 .. Len(k) : k[i] # "["
  /\ \A i \in 1 .. Len(k) - 1 : k[i] # "]"

\* The markers of a plain prefix have their brackets at their ends only.
LEMMA MarkersBracketed ==
  ASSUME PlainPrefix, NEW n \in Nat
  PROVE  Bracketed(Marker(n))
<1> DEFINE k == Marker(n)
           d == Decimal(n)
           O == Len(Open)
           D == Len(d)
<1>1. /\ O \in Nat /\ O >= 3 /\ Open[1] = "["
      /\ \A i \in 2 .. O : Open[i] # "[" /\ Open[i] # "]"
  BY OpenIs
<1>2. /\ k \in Texts /\ D \in Nat /\ Len(k) = O + D + 1
      /\ \A i \in 1 .. O : k[i] = Open[i]
      /\ \A i \in 1 .. D : k[O + i] = d[i]
      /\ k[Len(k)] = "]"
  BY MarkerIs DEF MarkerOf
<1>3. \A i \in 1 .. D : d[i] # "[" /\ d[i] # "]"
  BY DecimalIs, NotDigits DEF Stands, AllDigits
<1> HIDE DEF k, d, O, D
<1>4. k[1] = "["
  BY <1>1, <1>2
<1>5. ASSUME NEW i \in 2 .. O + D PROVE k[i] # "[" /\ k[i] # "]"
  <2>1. CASE i \in 2 .. O
    <3>1. i \in 1 .. O
      BY <2>1
    <3> QED BY <1>1, <1>2, <2>1, <3>1
  <2>2. CASE i \notin 2 .. O
    <3> DEFINE j == i - O
    <3>1. j \in 1 .. D /\ O + j = i
      BY <1>1, <1>2, <2>2
    <3> HIDE DEF j
    <3> QED BY <1>2, <1>3, <3>1
  <2> QED BY <2>1, <2>2
<1>6. \A i \in 2 .. Len(k) : i \in 2 .. O + D \/ i = Len(k)
  BY <1>1, <1>2
<1>7. \A i \in 1 .. Len(k) - 1 : i \in 2 .. O + D \/ i = 1
  BY <1>1, <1>2
<1>8. Len(k) \in Nat /\ Len(k) >= 2
  BY <1>1, <1>2
<1> QED BY <1>2, <1>4, <1>5, <1>6, <1>7, <1>8 DEF Bracketed, k

\* at tells how much of out lies in front of what each cell makes.
Laid(at, cells, out, N) ==
  /\ out \in Texts /\ Len(out) \in Nat
  /\ at[0] = 0 /\ at[N] = Len(out)
  /\ \A n \in 0 .. N : at[n] \in 0 .. Len(out)
  /\ \A n \in 1 .. N : /\ at[n] = at[n - 1] + Len(cells[n])
                       /\ \A i \in 1 .. Len(cells[n]) : out[at[n - 1] + i] = cells[n][i]

CanBeLaid(cells, out, N) == \E at : Laid(at, cells, out, N)

\* a begins c.
Begins(a, c) ==
  /\ Len(a) \in Nat /\ Len(c) \in Nat /\ Len(a) <= Len(c)
  /\ \A i \in 1 .. Len(a) : c[i] = a[i]

\* Cells laid end to end have their offsets in the flat text.
LEMMA LaidOut ==
  ASSUME NEW N \in Nat \ {0}, NEW cells \in [1 .. N -> Texts]
  PROVE  CanBeLaid(cells, FlattenSeq(cells), N)
<1>1. PICK g : Flattens(g, cells, N) /\ g[N] = FlattenSeq(cells)
  BY FlattenIs
<1> DEFINE out == g[N]
           at == [n \in 0 .. N |-> Len(g[n])]
           I == {j \in 0 .. N : Begins(g[N - j], out)}
<1>2. /\ g[0] = <<>>
      /\ \A n \in 1 .. N : g[n] = g[n - 1] \o cells[n]
      /\ \A n \in 0 .. N : g[n] \in Texts /\ Len(g[n]) \in Nat
  <2>1. \A u \in Texts : Len(u) \in Nat
    BY DEF Texts
  <2> HIDE DEF out, at, I, Texts
  <2> QED BY <1>1, <2>1 DEF Flattens
<1>3. ASSUME NEW n \in 1 .. N PROVE Joins(g[n], g[n - 1], cells[n])
  <2>1. n - 1 \in 0 .. N /\ cells[n] \in Texts
    OBVIOUS
  <2>2. g[n - 1] \in Texts
    BY <1>2, <2>1
  <2>3. Joins(g[n - 1] \o cells[n], g[n - 1], cells[n])
    BY <2>1, <2>2, JoinsIs
  <2> QED BY <1>2, <2>3
<1>4. I = 0 .. N
  <2>1. 0 \in I
    BY <1>2 DEF Begins
  <2>2. ASSUME NEW j \in I, j < N PROVE j + 1 \in I
    <3>1. N - j \in 1 .. N /\ N - (j + 1) = (N - j) - 1 /\ j + 1 \in 0 .. N
      BY <2>2
    <3>2. Joins(g[N - j], g[(N - j) - 1], cells[N - j])
      BY <1>3, <3>1
    <3> DEFINE a == g[(N - j) - 1]
               b == g[N - j]
    <3>3. Begins(b, out) /\ Joins(b, a, cells[N - j])
      BY <2>2, <3>2
    <3> HIDE DEF a, b, out
    <3>4. Begins(a, out)
      <4>1. Len(a) \in Nat /\ Len(a) <= Len(b) /\ \A i \in 1 .. Len(a) : b[i] = a[i] /\ i \in 1 .. Len(b)
        BY <3>3 DEF Joins
      <4> QED BY <3>3, <4>1 DEF Begins
    <3> QED BY <3>1, <3>4 DEF a
  <2>3. I \subseteq 0 .. N
    OBVIOUS
  <2> HIDE DEF I
  <2> QED BY <2>1, <2>2, <2>3, Induct
<1>5. ASSUME NEW n \in 0 .. N PROVE Begins(g[n], out)
  <2>1. N - n \in 0 .. N /\ N - (N - n) = n
    OBVIOUS
  <2>2. N - n \in I
    BY <1>4, <2>1
  <2>3. Begins(g[N - (N - n)], out)
    BY <2>2
  <2> QED BY <2>1, <2>3
<1> HIDE DEF out
<1>6. at[0] = 0 /\ at[N] = Len(out) /\ out \in Texts /\ Len(out) \in Nat
  BY <1>2 DEF out
<1>7. \A n \in 0 .. N : at[n] \in 0 .. Len(out)
  BY <1>5 DEF Begins
<1>8. ASSUME NEW n \in 1 .. N
      PROVE  /\ at[n] = at[n - 1] + Len(cells[n])
             /\ \A i \in 1 .. Len(cells[n]) : out[at[n - 1] + i] = cells[n][i]
  <2>1. n \in 0 .. N /\ n - 1 \in 0 .. N
    OBVIOUS
  <2>2. at[n] = Len(g[n]) /\ at[n - 1] = Len(g[n - 1])
    BY <2>1
  <2> HIDE DEF at
  <2>3. Joins(g[n], g[n - 1], cells[n]) /\ Begins(g[n], out)
    BY <1>3, <1>5, <2>1
  <2>4. ASSUME NEW i \in 1 .. Len(cells[n]) PROVE out[at[n - 1] + i] = cells[n][i]
    <3>1. at[n - 1] + i \in 1 .. Len(g[n]) /\ g[n][at[n - 1] + i] = cells[n][i]
      BY <2>2, <2>3 DEF Joins
    <3> QED BY <2>3, <3>1 DEF Begins
  <2> QED BY <2>2, <2>3, <2>4 DEF Joins
<1> HIDE DEF at
<1>9. Laid(at, cells, out, N)
  BY <1>6, <1>7, <1>8 DEF Laid
<1> QED BY <1>1, <1>9 DEF CanBeLaid, out

\* What may be a marker reaches up to the first closing bracket.
LEMMA MarkerAtIs ==
  ASSUME NEW out \in Texts, NEW i \in 1 .. Len(out), NEW k \in Texts, Len(k) >= 1,
         MarkerAt(out, i) = k
  PROVE  /\ Len(k) \in 1 .. Len(out) - i + 1
         /\ \A j \in 1 .. Len(k) : out[i - 1 + j] = k[j]
<1> DEFINE c == Min(Closing(out, i))
<1>1. Len(out) \in Nat /\ Len(k) \in Nat /\ Len(<<>>) = 0
  BY DEF Texts
<1>2. Closing(out, i) # {} /\ k = SubSeq(out, i, c)
  BY <1>1 DEF MarkerAt
<1>3. c \in i .. Len(out)
  <2>1. Closing(out, i) \subseteq Nat
    BY <1>1 DEF Closing
  <2>2. c \in Closing(out, i)
    BY <1>2, <2>1, MinIs
  <2> QED BY <2>2 DEF Closing
<1> HIDE DEF c
<1>4. k = Slice(out, i - 1, c)
  <2>1. (i - 1) + 1 = i
    OBVIOUS
  <2> QED BY <1>2, <2>1 DEF Slice
<1> DEFINE a == i - 1
<1>5. a \in 0 .. Len(out) /\ c \in a .. Len(out) /\ c - a = c - i + 1
  BY <1>1, <1>3
<1>6. Slice(out, a, c) = k
  BY <1>4
<1> HIDE DEF a
<1>7. Len(k) = c - a /\ \A j \in 1 .. c - a : k[j] = out[a + j]
  <2>1. /\ Len(Slice(out, a, c)) = c - a
        /\ \A j \in 1 .. c - a : Slice(out, a, c)[j] = out[a + j]
    BY <1>5, SliceIs
  <2> QED BY <1>6, <2>1
<1>8. Len(k) \in 1 .. Len(out) - i + 1
  BY <1>1, <1>3, <1>5, <1>7
<1>9. \A j \in 1 .. Len(k) : out[a + j] = k[j]
  BY <1>7
<1> QED BY <1>8, <1>9 DEF a

\* A bracketed marker is found where it begins.
LEMMA MarkerFound ==
  ASSUME NEW out \in Texts, NEW p \in Nat, NEW k, Bracketed(k), p + Len(k) <= Len(out),
         \A j \in 1 .. Len(k) : out[p + j] = k[j]
  PROVE  MarkerAt(out, p + 1) = k
<1> DEFINE L == Len(k)
           N == Len(out)
           S == Closing(out, p + 1)
<1>1. N \in Nat /\ L \in Nat /\ L >= 2 /\ k \in Texts
  BY DEF Texts, Bracketed
<1>2. out[p + 1] = "["
  BY <1>1 DEF Bracketed
<1>3. p + L \in S
  <2>1. p + L \in p + 1 .. N /\ out[p + L] = "]"
    BY <1>1 DEF Bracketed
  <2> QED BY <2>1 DEF Closing
<1>4. S \subseteq Nat
  BY <1>1 DEF Closing
<1>5. Min(S) \in S /\ Min(S) <= p + L
  BY <1>3, <1>4, MinIs
<1>6. Min(S) = p + L
  <2> DEFINE j == Min(S) - p
  <2>1. Min(S) \in p + 1 .. N /\ out[Min(S)] = "]"
    BY <1>5 DEF Closing
  <2>2. j \in 1 .. L /\ p + j = Min(S)
    BY <1>1, <1>5, <2>1
  <2> HIDE DEF j
  <2>3. k[j] = "]"
    BY <2>1, <2>2
  <2>4. j \notin 1 .. L - 1
    BY <2>3 DEF Bracketed
  <2> QED BY <1>1, <2>2, <2>4, SMTT(60)
<1>7. MarkerAt(out, p + 1) = SubSeq(out, p + 1, p + L)
  BY <1>2, <1>3, <1>6 DEF MarkerAt
<1>8. /\ p \in 0 .. N /\ p + L \in p .. N /\ (p + L) - p = L
  BY <1>1
<1> DEFINE s == Slice(out, p, p + L)
<1>9. s \in Texts /\ Len(s) = L /\ \A i \in 1 .. L : s[i] = out[p + i]
  BY <1>8, SliceIs
<1>10. MarkerAt(out, p + 1) = s
  BY <1>7 DEF Slice
<1> HIDE DEF s
<1>11. \A i \in 1 .. Len(s) : s[i] = k[i]
  BY <1>9
<1>12. s = k
  BY <1>1, <1>9, <1>11, SlicesEqual
<1> QED BY <1>10, <1>12

\* rest[i] is what the mask from its byte i on stands for.
Restoring(rest, out, table) ==
  /\ rest[Len(out) + 1] = <<>>
  /\ \A i \in 1 .. Len(out) :
       rest[i] = IF Entries(table, MarkerAt(out, i)) # {}
                 THEN table[Min(Entries(table, MarkerAt(out, i)))].original
                        \o rest[i + Len(MarkerAt(out, i))]
                 ELSE <<out[i]>> \o rest[i + 1]

\* An entry that is found has a marker that fits into the rest of the mask.
LEMMA EntriesAre ==
  ASSUME NEW out \in Texts, NEW table \in Table,
         \A j \in 1 .. Len(table) : Len(table[j].marker) >= 1,
         NEW i \in 1 .. Len(out), Entries(table, MarkerAt(out, i)) # {}
  PROVE  /\ Len(MarkerAt(out, i)) \in 1 .. Len(out) - i + 1
         /\ table[Min(Entries(table, MarkerAt(out, i)))].original \in Texts
<1> DEFINE k == MarkerAt(out, i)
           found == Entries(table, k)
<1>1. DOMAIN table = 1 .. Len(table) /\ Len(table) \in Nat
  BY DEF Table
<1>2. \A j \in 1 .. Len(table) : table[j].marker \in Texts /\ table[j].original \in Texts
  <2> SUFFICES ASSUME NEW j \in 1 .. Len(table)
               PROVE  table[j].marker \in Texts /\ table[j].original \in Texts
    OBVIOUS
  <2> DEFINE R == [marker: Texts, start: Int, end: Int, original: Texts]
  <2>2. table \in Seq(R)
    BY DEF Table
  <2> HIDE DEF R
  <2>1. table[j] \in R
    BY <1>1, <2>2
  <2> USE DEF R
  <2> HIDE DEF Texts
  <2> QED BY <2>1
<1> HIDE DEF k
<1>3. found \subseteq Nat
  BY <1>1 DEF Entries
<1>4. found # {}
  BY DEF k
<1>5. Min(found) \in found
  <2> HIDE DEF found
  <2> QED BY <1>3, <1>4, MinIs
<1>6. Min(found) \in 1 .. Len(table) /\ table[Min(found)].marker = k
  BY <1>1, <1>5 DEF Entries
<1>7. k \in Texts /\ Len(k) >= 1
  BY <1>2, <1>6
<1>8. Len(k) \in 1 .. Len(out) - i + 1
  BY <1>7, MarkerAtIs DEF k
<1> QED BY <1>2, <1>6, <1>8 DEF k

\* What each rest of a mask stands for, as facts about each offset.
LEMMA RestsAre ==
  ASSUME NEW out \in Texts, NEW table \in Table,
         \A j \in 1 .. Len(table) : Len(table[j].marker) >= 1
  PROVE  Restoring(Rests(out, table), out, table)
<1> DEFINE L == Len(out)
           K(i) == MarkerAt(out, i)
           Found1(i) == Entries(table, K(i)) # {}
           original(i) == table[Min(Entries(table, K(i)))].original
           prev == [n \in 1 .. L |-> IF Found1(L + 1 - n) THEN n - Len(K(L + 1 - n)) ELSE n - 1]
           stepping == [n \in 1 .. L |-> [v \in Texts |->
                          IF Found1(L + 1 - n) THEN original(L + 1 - n) \o v
                          ELSE <<out[L + 1 - n]>> \o v]]
           Good(f) == f = [i \in 1 .. L + 1 |->
                             IF i > L THEN <<>>
                             ELSE IF Found1(i) THEN original(i) \o f[i + Len(K(i))]
                             ELSE <<out[i]>> \o f[i + 1]]
           g == Rests(out, table)
<1>1. L \in Nat /\ \A i \in 1 .. L : out[i] \in Bytes
  BY DEF Texts
<1>2. g = CHOOSE f : Good(f)
  BY DEF Rests
<1>3. ASSUME NEW i \in 1 .. L, Found1(i)
      PROVE  Len(K(i)) \in 1 .. L - i + 1 /\ original(i) \in Texts
  BY <1>3, EntriesAre
<1>4. \A i \in 1 .. L : <<out[i]>> \in Texts
  BY <1>1, OneByteIs DEF OneByte
<1>5. <<>> \in Texts /\ \A a, b \in Texts : a \o b \in Texts
  <2>1. <<>> \in Texts
    BY DEF Texts
  <2> QED BY <2>1, TextsConcat
<1> HIDE DEF L, K, Found1, original
<1>6. ASSUME NEW n \in 1 .. L
      PROVE  /\ prev[n] \in Nat /\ prev[n] < n
             /\ stepping[n] \in [Texts -> Texts]
  <2> DEFINE i == L + 1 - n
  <2>1. i \in 1 .. L /\ n = L + 1 - i
    BY <1>1
  <2>2. /\ prev[n] = IF Found1(i) THEN n - Len(K(i)) ELSE n - 1
        /\ stepping[n] = [v \in Texts |-> IF Found1(i) THEN original(i) \o v ELSE <<out[i]>> \o v]
    OBVIOUS
  <2> HIDE DEF i, prev, stepping
  <2>3. Found1(i) => Len(K(i)) \in 1 .. n
    BY <1>1, <1>3, <2>1
  <2>4. prev[n] \in Nat /\ prev[n] < n
    BY <2>2, <2>3
  <2>5. ASSUME NEW v \in Texts PROVE (IF Found1(i) THEN original(i) \o v ELSE <<out[i]>> \o v) \in Texts
    <3>1. CASE Found1(i)
      BY <1>3, <1>5, <2>1, <3>1
    <3>2. CASE ~Found1(i)
      BY <1>4, <1>5, <2>1, <3>2
    <3> QED BY <3>1, <3>2
  <2> QED BY <2>2, <2>4, <2>5
<1>7. PICK f : Recurs(f, Texts, L, <<>>, prev, stepping)
  <2>1. prev \in [1 .. L -> Nat] /\ stepping \in [1 .. L -> [Texts -> Texts]]
    <3>1. prev = [n \in 1 .. L |-> prev[n]] /\ stepping = [n \in 1 .. L |-> stepping[n]]
      OBVIOUS
    <3> HIDE DEF prev, stepping
    <3> QED BY <1>6, <3>1
  <2>2. \A n \in 1 .. L : prev[n] < n
    BY <1>6
  <2> HIDE DEF prev, stepping
  <2> QED BY <1>1, <1>5, <2>1, <2>2, Recursion
<1> DEFINE h == [i \in 1 .. L + 1 |-> f[L + 1 - i]]
<1>8. h[L + 1] = <<>>
  <2>1. L + 1 \in 1 .. L + 1 /\ L + 1 - (L + 1) = 0
    BY <1>1
  <2>2. f[0] = <<>>
    BY <1>7 DEF Recurs
  <2>3. h[L + 1] = f[L + 1 - (L + 1)]
    BY <2>1
  <2> HIDE DEF h
  <2> QED BY <2>1, <2>2, <2>3
<1>9. ASSUME NEW i \in 1 .. L
      PROVE  h[i] = IF Found1(i) THEN original(i) \o h[i + Len(K(i))] ELSE <<out[i]>> \o h[i + 1]
  <2> DEFINE n == L + 1 - i
  <2>1. n \in 1 .. L /\ L + 1 - n = i /\ i \in 1 .. L + 1
    BY <1>1
  <2>2. h[i] = f[n]
    BY <2>1
  <2> HIDE DEF n
  <2>3. /\ prev[n] = IF Found1(i) THEN n - Len(K(i)) ELSE n - 1
        /\ \A v \in Texts : stepping[n][v] = IF Found1(i) THEN original(i) \o v ELSE <<out[i]>> \o v
    BY <2>1
  <2>4. prev[n] \in 0 .. L
    <3> HIDE DEF prev, stepping
    <3> QED BY <1>1, <1>6, <2>1
  <2> HIDE DEF prev, stepping
  <2>5. f[prev[n]] \in Texts /\ f[n] = stepping[n][f[prev[n]]]
    BY <1>7, <2>1, <2>4 DEF Recurs
  <2>6. f[n] = IF Found1(i) THEN original(i) \o f[prev[n]] ELSE <<out[i]>> \o f[prev[n]]
    BY <2>3, <2>5
  <2>7. CASE Found1(i)
    <3>1. i + Len(K(i)) \in 1 .. L + 1 /\ L + 1 - (i + Len(K(i))) = n - Len(K(i))
      <4>1. Len(K(i)) \in 1 .. L - i + 1
        BY <1>3, <2>7
      <4> QED BY <1>1, <2>1, <4>1
    <3>2. h[i + Len(K(i))] = f[n - Len(K(i))]
      BY <3>1
    <3> HIDE DEF h
    <3> QED BY <2>2, <2>3, <2>6, <2>7, <3>2
  <2>8. CASE ~Found1(i)
    <3>1. i + 1 \in 1 .. L + 1 /\ L + 1 - (i + 1) = n - 1
      BY <1>1, <2>1
    <3>2. h[i + 1] = f[n - 1]
      BY <3>1
    <3> HIDE DEF h
    <3> QED BY <2>2, <2>3, <2>6, <2>8, <3>2
  <2> QED BY <2>7, <2>8
<1>10. Good(h)
  <2>1. h = [i \in 1 .. L + 1 |-> h[i]]
    OBVIOUS
  <2> HIDE DEF h
  <2>2. \A i \in 1 .. L + 1 : h[i] = IF i > L THEN <<>>
                                     ELSE IF Found1(i) THEN original(i) \o h[i + Len(K(i))]
                                     ELSE <<out[i]>> \o h[i + 1]
    <3> SUFFICES ASSUME NEW i \in 1 .. L + 1
                 PROVE  h[i] = IF i > L THEN <<>>
                               ELSE IF Found1(i) THEN original(i) \o h[i + Len(K(i))]
                               ELSE <<out[i]>> \o h[i + 1]
      OBVIOUS
    <3>1. CASE i = L + 1
      BY <1>1, <1>8, <3>1
    <3>2. CASE i # L + 1
      <4>1. i \in 1 .. L /\ ~(i > L)
        BY <1>1, <3>2
      <4> QED BY <1>9, <4>1
    <3> QED BY <3>1, <3>2
  <2> QED BY <2>1, <2>2
<1>11. Good(g)
  <2> HIDE DEF Good, h
  <2> QED BY <1>2, <1>10
<1> HIDE DEF g
<1>12. g[L + 1] = <<>>
  <2>1. L + 1 \in 1 .. L + 1 /\ L + 1 > L
    BY <1>1
  <2> QED BY <1>11, <2>1
<1>13. \A i \in 1 .. L : g[i] = IF Found1(i) THEN original(i) \o g[i + Len(K(i))]
                                ELSE <<out[i]>> \o g[i + 1]
  <2> SUFFICES ASSUME NEW i \in 1 .. L
               PROVE  g[i] = IF Found1(i) THEN original(i) \o g[i + Len(K(i))]
                             ELSE <<out[i]>> \o g[i + 1]
    OBVIOUS
  <2>1. i \in 1 .. L + 1 /\ ~(i > L)
    BY <1>1
  <2> QED BY <1>11, <2>1
<1> HIDE DEF Good
<1> QED BY <1>12, <1>13 DEF Restoring, g, L, Found1, original, K

\* Behind the beginning of the range and not behind its end.
Within(r, c) == 2 * r.start < c /\ c <= 2 * r.end

\* The places before, in and behind the ranges.
LEMMA PlacesOrdered ==
  ASSUME NEW t \in Texts, NEW m, Fits(m, t), NEW c \in Nat
  PROVE  /\ \A k \in 1 .. Len(m) : c = 2 * m[k].start => \A j \in 1 .. Len(m) : ~Within(m[j], c)
         /\ \A k \in 1 .. Len(m) : c = 2 * m[k].start /\ ~Within(m[k], c + 1) =>
              m[k].end = m[k].start /\ \A j \in 1 .. Len(m) : ~Within(m[j], c + 1)
         /\ \A k \in 1 .. Len(m) : Within(m[k], c) /\ ~Within(m[k], c + 1) =>
              c = 2 * m[k].end /\ \A j \in 1 .. Len(m) : ~Within(m[j], c + 1)
         /\ (\A k \in 1 .. Len(m) : ~Hides(m[k], c)) => \A j \in 1 .. Len(m) : ~Within(m[j], c + 1)
<1> DEFINE M == Len(m)
           N == Len(t)
<1>1. /\ M \in Nat /\ N \in Nat
      /\ \A k \in 1 .. M : m[k].start \in 0 .. N /\ m[k].end \in m[k].start .. N
      /\ \A i, j \in 1 .. M : i < j => m[i].end < m[j].start
  BY FitsIs
<1> HIDE DEF M, N
<1>2. ASSUME NEW i \in 1 .. M, NEW j \in 1 .. M
      PROVE  /\ i < j \/ i = j \/ j < i
             /\ m[i].start \in Int /\ m[i].end \in Int /\ m[i].start <= m[i].end
             /\ m[j].start \in Int /\ m[j].end \in Int /\ m[j].start <= m[j].end
             /\ i < j => m[i].end < m[j].start
             /\ j < i => m[j].end < m[i].start
  <2>1. /\ m[i].start \in 0 .. N /\ m[i].end \in m[i].start .. N
        /\ m[j].start \in 0 .. N /\ m[j].end \in m[j].start .. N
    BY <1>1
  <2> QED BY <1>1, <2>1
<1>3. ASSUME NEW k \in 1 .. M, c = 2 * m[k].start, NEW j \in 1 .. M PROVE ~Within(m[j], c)
  BY <1>2, <1>3 DEF Within
<1>4. ASSUME NEW k \in 1 .. M, c = 2 * m[k].start, ~Within(m[k], c + 1)
      PROVE  m[k].end = m[k].start /\ \A j \in 1 .. M : ~Within(m[j], c + 1)
  <2>1. m[k].end = m[k].start
    BY <1>2, <1>4 DEF Within
  <2>2. ASSUME NEW j \in 1 .. M PROVE ~Within(m[j], c + 1)
    BY <1>2, <1>4, <2>1 DEF Within
  <2> QED BY <2>1, <2>2
<1>5. ASSUME NEW k \in 1 .. M, Within(m[k], c), ~Within(m[k], c + 1)
      PROVE  c = 2 * m[k].end /\ \A j \in 1 .. M : ~Within(m[j], c + 1)
  <2>1. c = 2 * m[k].end
    BY <1>2, <1>5 DEF Within
  <2>2. ASSUME NEW j \in 1 .. M PROVE ~Within(m[j], c + 1)
    BY <1>2, <1>5, <2>1 DEF Within
  <2> QED BY <2>1, <2>2
<1>6. ASSUME \A k \in 1 .. M : ~Hides(m[k], c), NEW j \in 1 .. M PROVE ~Within(m[j], c + 1)
  BY <1>2, <1>6 DEF Within, Hides
<1> QED BY <1>3, <1>4, <1>5, <1>6 DEF M

\* A place is the first of a range, within one, or hidden by none.
LEMMA PlaceIs ==
  ASSUME NEW t \in Texts, NEW m, Fits(m, t), NEW c \in Nat,
         \A k \in 1 .. Len(m) : c # 2 * m[k].start, \A k \in 1 .. Len(m) : ~Within(m[k], c)
  PROVE  \A k \in 1 .. Len(m) : ~Hides(m[k], c)
<1> SUFFICES ASSUME NEW k \in 1 .. Len(m) PROVE ~Hides(m[k], c)
  OBVIOUS
<1>1. m[k].start \in 0 .. Len(t) /\ c # 2 * m[k].start /\ ~Within(m[k], c)
  BY FitsIs
<1>2. m[k].start \in Int
  BY <1>1
<1> QED BY <1>1, <1>2, SMTT(60) DEF Hides, Within

\* The mask as it is laid out, and markers whose brackets are at their ends.
Layout(at, cells, out, t, m, markers) ==
  /\ OfPlaces(cells, t, markers, m)
  /\ Laid(at, cells, out, 2 * Len(t) + 1)
  /\ \A k \in 1 .. Len(m) : Bracketed(markers[k])

\* What a place makes of the mask.
Placed(at, out, t, m, markers, c) ==
  /\ at[c] \in Nat /\ at[c] <= Len(out) /\ at[c + 1] \in Nat /\ at[c + 1] <= Len(out)
  /\ \A k \in 1 .. Len(m) : c = 2 * m[k].start =>
       /\ at[c + 1] = at[c] + Len(markers[k])
       /\ \A i \in 1 .. Len(markers[k]) : out[at[c] + i] = markers[k][i]
  /\ (\E k \in 1 .. Len(m) : Within(m[k], c)) => at[c + 1] = at[c]
  /\ (\A k \in 1 .. Len(m) : ~Hides(m[k], c)) =>
       /\ c % 2 = 0 => at[c + 1] = at[c]
       /\ \A b \in 0 .. Len(t) - 1 : c = 2 * b + 1 =>
            at[c + 1] = at[c] + 1 /\ out[at[c] + 1] = t[b + 1]

\* Every place of the text has its offset in the mask.
LEMMA PlaceOf ==
  ASSUME NEW t \in Texts, NEW m, Fits(m, t), NEW markers, NEW out, NEW cells, NEW at,
         Layout(at, cells, out, t, m, markers), NEW c \in 0 .. 2 * Len(t)
  PROVE  Placed(at, out, t, m, markers, c)
<1> DEFINE M == Len(m)
           N == Len(t)
           n == c + 1
<1>1. N \in Nat /\ n \in 1 .. 2 * N + 1 /\ n - 1 = c /\ c \in 0 .. 2 * N + 1 /\ n \in 0 .. 2 * N + 1
  BY DEF Texts
<1>2. /\ \A k \in 1 .. M : cells[2 * m[k].start + 1] = markers[k]
      /\ (\E k \in 1 .. M : Hides(m[k], n - 1)) /\ (\A k \in 1 .. M : n - 1 # 2 * m[k].start)
           => cells[n] = <<>>
      /\ (\A k \in 1 .. M : ~Hides(m[k], n - 1))
           => cells[n] = IF n % 2 = 1 THEN <<>> ELSE <<t[n \div 2]>>
  BY <1>1 DEF Layout, OfPlaces
<1>3. /\ Len(out) \in Nat /\ at[c] \in 0 .. Len(out) /\ at[n] \in 0 .. Len(out)
      /\ at[n] = at[c] + Len(cells[n])
      /\ \A i \in 1 .. Len(cells[n]) : out[at[c] + i] = cells[n][i]
  BY <1>1 DEF Layout, Laid
<1> HIDE DEF M, N, n
<1>4. at[c] \in Nat /\ at[c] <= Len(out) /\ at[n] \in Nat /\ at[n] <= Len(out)
  BY <1>3
<1>5. cells[n] = <<>> => at[n] = at[c]
  <2>1. Len(<<>>) = 0
    OBVIOUS
  <2> QED BY <1>3, <1>4, <2>1
<1>6. ASSUME NEW k \in 1 .. M, c = 2 * m[k].start
      PROVE  /\ at[n] = at[c] + Len(markers[k])
             /\ \A i \in 1 .. Len(markers[k]) : out[at[c] + i] = markers[k][i]
  <2>1. cells[n] = markers[k]
    BY <1>2, <1>6 DEF n
  <2> QED BY <1>3, <2>1
<1>7. ASSUME NEW k \in 1 .. M, Within(m[k], c) PROVE at[n] = at[c]
  <2>1. \A j \in 1 .. M : c # 2 * m[j].start
    <3>1. c \in Nat
      BY <1>1
    <3> QED BY <1>7, <3>1, PlacesOrdered DEF M
  <2>2. Hides(m[k], c)
    <3>1. m[k].start \in 0 .. N /\ c \in Int
      BY <1>1, FitsIs DEF M, N
    <3> QED BY <1>7, <3>1 DEF Within, Hides
  <2> QED BY <1>1, <1>2, <1>5, <2>1, <2>2
<1>8. ASSUME \A k \in 1 .. M : ~Hides(m[k], c), c % 2 = 0 PROVE at[n] = at[c]
  <2>1. n % 2 = 1
    BY <1>8 DEF n
  <2> QED BY <1>1, <1>2, <1>5, <1>8, <2>1
<1>9. ASSUME \A k \in 1 .. M : ~Hides(m[k], c), NEW b \in 0 .. N - 1, c = 2 * b + 1
      PROVE  at[n] = at[c] + 1 /\ out[at[c] + 1] = t[b + 1]
  <2>1. n % 2 # 1 /\ n \div 2 = b + 1 /\ b + 1 \in 1 .. N
    BY <1>1, <1>9 DEF n
  <2>2. cells[n] = <<t[b + 1]>>
    BY <1>1, <1>2, <1>9, <2>1
  <2>3. OneByte(cells[n], t[b + 1])
    <3>1. t[b + 1] \in Bytes
      BY <2>1 DEF Texts, N
    <3> QED BY <2>2, <3>1, OneByteIs
  <2>4. 1 \in 1 .. 1
    OBVIOUS
  <2> QED BY <1>3, <2>3, <2>4 DEF OneByte
<1> QED BY <1>4, <1>6, <1>7, <1>8, <1>9 DEF Placed, M, N, n

\* A marker that the mask holds behind an open byte lies in the text: the next
\* marker's bracket would lie within it.
LEMMA HeldByText ==
  ASSUME NEW t \in Texts, NEW m, Fits(m, t), NEW markers, NEW out, NEW cells, NEW at,
         Layout(at, cells, out, t, m, markers),
         NEW b \in 0 .. Len(t) - 1, \A k \in 1 .. Len(m) : ~Hides(m[k], 2 * b + 1),
         NEW k, Bracketed(k), Holds(out, at[2 * b + 1], k)
  PROVE  Holds(t, b, k)
<1> DEFINE M == Len(m)
           N == Len(t)
           L == Len(k)
           p == at[2 * b + 1]
           Run(j) == /\ b + j <= N /\ at[2 * (b + j)] = p + j
                     /\ \A i \in 1 .. j : t[b + i] = k[i]
                     /\ \A i \in 1 .. M : ~Within(m[i], 2 * (b + j))
           I == {j \in 0 .. L - 1 : Run(j + 1)}
<1>1. M \in Nat /\ N \in Nat /\ L \in Nat /\ L >= 2 /\ \A i \in 2 .. L : k[i] # "["
  BY FitsIs DEF Bracketed
<1>2. /\ p \in 0 .. Len(out) - L /\ Len(out) \in Nat
      /\ \A j \in 1 .. L : out[p + j] = k[j]
  BY DEF Holds, Layout, Laid
<1> HIDE DEF p, L, N, M
<1>3. Run(1)
  <2> DEFINE c == 2 * b + 1
  <2>1. c \in 0 .. 2 * N /\ c \in Nat /\ c + 1 = 2 * (b + 1) /\ b + 1 <= N
    BY <1>1 DEF N
  <2>2. \A i \in 1 .. M : ~Hides(m[i], c)
    BY DEF M
  <2> HIDE DEF c
  <2>3. at[c + 1] = at[c] + 1 /\ out[at[c] + 1] = t[b + 1]
    <3>1. c = 2 * b + 1
      BY DEF c
    <3>2. Placed(at, out, t, m, markers, c)
      BY <2>1, PlaceOf DEF N
    <3> QED BY <2>2, <3>1, <3>2 DEF Placed, M, N
  <2>4. \A i \in 1 .. M : ~Within(m[i], c + 1)
    BY <2>1, <2>2, PlacesOrdered DEF M
  <2>5. at[c] = p
    BY DEF p, c
  <2>6. t[b + 1] = k[1]
    BY <1>1, <1>2, <2>3, <2>5
  <2>7. \A i \in 1 .. 1 : i = 1
    OBVIOUS
  <2> QED BY <2>1, <2>3, <2>4, <2>5, <2>6, <2>7
<1>4. ASSUME NEW j \in 1 .. L - 1, Run(j) PROVE Run(j + 1)
  <2> DEFINE e == 2 * (b + j)
             f == e + 1
  <2>1. /\ e \in Nat /\ e \in 0 .. 2 * N /\ b + j \in Nat /\ b + j <= N /\ at[e] = p + j
        /\ j + 1 \in 2 .. L /\ j + 1 \in 1 .. L /\ p + (j + 1) = at[e] + 1
    BY <1>1, <1>2, <1>4
  <2>2. out[at[e] + 1] # "["
    BY <1>1, <1>2, <2>1, ZenonT(60)
  <2>3. \A i \in 1 .. M : ~Within(m[i], e)
    BY <1>4
  <2> HIDE DEF e
  <2>4. \A i \in 1 .. M : e # 2 * m[i].start
    <3> SUFFICES ASSUME NEW i \in 1 .. M, e = 2 * m[i].start PROVE FALSE
      OBVIOUS
    <3>1. Bracketed(markers[i])
      BY DEF Layout, M
    <3>2. out[at[e] + 1] = markers[i][1]
      <4>1. 1 \in 1 .. Len(markers[i])
        BY <3>1 DEF Bracketed
      <4>2. Placed(at, out, t, m, markers, e)
        BY <2>1, PlaceOf DEF N
      <4> QED BY <4>1, <4>2 DEF Placed, M
    <3> QED BY <2>2, <3>1, <3>2 DEF Bracketed
  <2>5. \A i \in 1 .. M : ~Hides(m[i], e)
    BY <2>1, <2>3, <2>4, PlaceIs DEF M
  <2>6. at[f] = at[e]
    <3>1. e % 2 = 0
      BY <2>1 DEF e
    <3>2. Placed(at, out, t, m, markers, e)
      BY <2>1, PlaceOf DEF N
    <3> QED BY <2>5, <3>1, <3>2 DEF Placed, M
  <2>7. \A i \in 1 .. M : ~Within(m[i], f)
    BY <2>1, <2>5, PlacesOrdered DEF M
  <2>8. b + j # N
    <3> SUFFICES ASSUME b + j = N PROVE FALSE
      OBVIOUS
    <3>1. f = 2 * N + 1
      BY DEF e
    <3>2. at[2 * N + 1] = Len(out)
      BY DEF Layout, Laid, N
    <3>3. p + j = Len(out)
      BY <2>1, <2>6, <3>1, <3>2
    <3> HIDE DEF f
    <3> QED BY <1>1, <1>2, <2>1, <3>3
  <2>9. b + j \in 0 .. N - 1 /\ f \in 0 .. 2 * N /\ f \in Nat /\ f = 2 * (b + j) + 1
    BY <1>1, <2>1, <2>8 DEF e
  <2> HIDE DEF f
  <2>10. \A i \in 1 .. M : ~Hides(m[i], f)
    <3>1. \A i \in 1 .. M : f # 2 * m[i].start
      <4> SUFFICES ASSUME NEW i \in 1 .. M PROVE f # 2 * m[i].start
        OBVIOUS
      <4>1. m[i].start \in 0 .. N
        BY FitsIs DEF M, N
      <4> QED BY <1>1, <2>9, <4>1
    <3> QED BY <2>7, <2>9, <3>1, PlaceIs DEF M
  <2>11. at[f + 1] = at[f] + 1 /\ out[at[f] + 1] = t[b + j + 1]
    <3>1. Placed(at, out, t, m, markers, f)
      BY <2>9, PlaceOf DEF N
    <3> QED BY <2>9, <2>10, <3>1 DEF Placed, M, N
  <2>12. t[b + (j + 1)] = k[j + 1]
    <3>1. out[p + (j + 1)] = k[j + 1]
      BY <1>2, <2>1
    <3>2. b + (j + 1) = b + j + 1 /\ p + (j + 1) = at[f] + 1
      BY <2>1, <2>6
    <3> QED BY <2>11, <3>1, <3>2
  <2>13. \A i \in 1 .. M : ~Within(m[i], f + 1)
    BY <2>9, <2>10, PlacesOrdered DEF M
  <2>14. f + 1 = 2 * (b + (j + 1)) /\ b + (j + 1) <= N /\ at[f + 1] = p + (j + 1)
    BY <1>1, <1>2, <2>1, <2>6, <2>9, <2>11
  <2>15. \A i \in 1 .. j + 1 : i = j + 1 \/ i \in 1 .. j
    OBVIOUS
  <2> QED BY <1>4, <2>12, <2>13, <2>14, <2>15
<1>5. I = 0 .. L - 1
  <2>1. 0 \in I /\ I \subseteq 0 .. L - 1
    <3>1. 0 \in 0 .. L - 1 /\ 0 + 1 = 1
      BY <1>1
    <3> QED BY <1>3, <3>1
  <2>2. ASSUME NEW i \in I, i < L - 1 PROVE i + 1 \in I
    <3>1. i + 1 \in 1 .. L - 1 /\ i + 1 \in 0 .. L - 1 /\ Run(i + 1)
      BY <1>1, <2>2
    <3> HIDE DEF Run
    <3>2. Run((i + 1) + 1)
      BY <1>4, <3>1
    <3> QED BY <3>1, <3>2
  <2>3. L - 1 \in Nat
    BY <1>1
  <2> HIDE DEF I
  <2> QED BY <2>1, <2>2, <2>3, Induct
<1>6. Run(L)
  <2>1. L - 1 \in 0 .. L - 1 /\ (L - 1) + 1 = L
    BY <1>1
  <2>2. L - 1 \in I
    BY <1>5, <2>1
  <2>3. Run((L - 1) + 1)
    BY <2>2
  <2> HIDE DEF Run
  <2> QED BY <2>1, <2>3
<1>7. b \in 0 .. N - L
  BY <1>1, <1>6
<1> QED BY <1>6, <1>7 DEF Holds, N, L

HasLayout(out, t, m, markers) == \E at, cells : Layout(at, cells, out, t, m, markers)

\* There is a layout of every mask.
LEMMA SomeLayout ==
  ASSUME NEW t \in Texts, NEW m, Fits(m, t), NEW markers \in [1 .. Len(m) -> Texts],
         \A k \in 1 .. Len(m) : Bracketed(markers[k])
  PROVE  HasLayout(Replaced(t, markers, m).masked, t, m, markers)
<1> DEFINE hidden == {h \in 0 .. 2 * Len(t) : \E k \in 1 .. Len(m) : Hides(m[k], h)}
           starts == {h \in hidden : h - 1 \notin hidden}
           marker == [h \in starts |-> markers[Cardinality({g \in starts : g <= h})]]
           cells == [n \in 1 .. 2 * Len(t) + 1 |->
                       IF n - 1 \in starts THEN marker[n - 1]
                       ELSE IF n - 1 \in hidden \/ n % 2 = 1 THEN <<>>
                       ELSE <<t[n \div 2]>>]
<1>1. HiddenBy(hidden, t, m)
  BY DEF HiddenBy
<1>2. hidden = {h \in 0 .. 2 * Len(t) : \E k \in 1 .. Len(m) : Hides(m[k], h)}
  OBVIOUS
<1> HIDE DEF hidden
<1>3. Starts(starts, m)
  BY <1>2, StartsAre
<1> HIDE DEF starts
<1>4. ASSUME NEW k \in 1 .. Len(m) PROVE marker[2 * m[k].start] = markers[k]
  <2>1. 2 * m[k].start \in starts /\ Cardinality({g \in starts : g <= 2 * m[k].start}) = k
    BY <1>3 DEF Starts
  <2> QED BY <2>1
<1> HIDE DEF marker
<1>5. InPlaces(cells, t, hidden, starts, marker)
  BY DEF InPlaces
<1> HIDE DEF cells
<1>6. OfPlaces(cells, t, markers, m)
  BY <1>1, <1>3, <1>4, <1>5, PlacesAre
<1>7. FlattenSeq(cells) = Replaced(t, markers, m).masked
  BY <1>6, MaskIsFlat
<1>8. 2 * Len(t) + 1 \in Nat \ {0}
  BY DEF Texts
<1>9. cells \in [1 .. 2 * Len(t) + 1 -> Texts]
  BY <1>6 DEF OfPlaces
<1>10. CanBeLaid(cells, FlattenSeq(cells), 2 * Len(t) + 1)
  BY <1>8, <1>9, LaidOut
<1>11. PICK at : Laid(at, cells, FlattenSeq(cells), 2 * Len(t) + 1)
  BY <1>10 DEF CanBeLaid
<1>12. Layout(at, cells, Replaced(t, markers, m).masked, t, m, markers)
  BY <1>6, <1>7, <1>11 DEF Layout
<1> QED BY <1>12 DEF HasLayout

\* The table has the marker in its entry k only.
OnlyAt(table, marker, k) == Entries(table, marker) # {} /\ Min(Entries(table, marker)) = k

\* With different markers, a marker has one entry.
LEMMA EntryOf ==
  ASSUME NEW M \in Nat, NEW table \in Table, Len(table) = M, NEW markers,
         \A i \in 1 .. M : table[i].marker = markers[i],
         \A i, j \in 1 .. M : i # j => markers[i] # markers[j],
         NEW k \in 1 .. M
  PROVE  OnlyAt(table, markers[k], k)
<1>1. DOMAIN table = 1 .. M
  BY DEF Table
<1>2. Entries(table, markers[k]) = {k}
  BY <1>1 DEF Entries
<1>3. {k} \subseteq Nat /\ {k} # {}
  OBVIOUS
<1>4. Min({k}) \in {k}
  BY <1>3, MinIs
<1> QED BY <1>2, <1>4 DEF OnlyAt

\* Restoring a mask with markers of its own gives the text back.
LEMMA RestoreIs ==
  ASSUME PlainPrefix, NEW t \in Texts, NEW m, Fits(m, t),
         NEW markers, OwnMarkers(markers, t, Len(m))
  PROVE  Restore(Replaced(t, markers, m).masked, Replaced(t, markers, m).table) = t
<1> DEFINE M == Len(m)
           N == Len(t)
           C == 2 * N + 1
           out == Replaced(t, markers, m).masked
           table == Replaced(t, markers, m).table
           rest == Rests(out, table)
<1>1. /\ M \in Nat /\ N \in Nat /\ C \in Nat
      /\ \A k \in 1 .. M : m[k].start \in 0 .. N /\ m[k].end \in m[k].start .. N
  BY FitsIs
<1>2. markers \in [1 .. M -> Texts]
  BY <1>1, MarkersType
<1>3. PICK num : /\ Free(num, UsedMarkers(t), M)
                 /\ markers = [n \in 1 .. M |-> Marker(num[n])]
  BY DEF OwnMarkers
<1>4. \A k \in 1 .. M : /\ markers[k] = Marker(num[k]) /\ num[k] \in Nat
                        /\ num[k] \notin UsedMarkers(t) /\ Bracketed(markers[k])
  BY <1>3, MarkersBracketed DEF Free
<1>5. \A i, j \in 1 .. M : i # j => markers[i] # markers[j]
  <2> SUFFICES ASSUME NEW i \in 1 .. M, NEW j \in 1 .. M, i # j PROVE markers[i] # markers[j]
    OBVIOUS
  <2>1. num[i] # num[j]
    BY <1>3 DEF Free
  <2> QED BY <1>4, <2>1, MarkersDiffer
<1>6. /\ Len(table) = M /\ table \in Table
      /\ \A i \in 1 .. M : table[i] = Entry(t, markers[i], m[i])
  BY <1>2, TableIs
<1>7. \A i \in 1 .. M : /\ table[i].marker = markers[i]
                        /\ table[i].original = Slice(t, m[i].start, m[i].end)
  <2>1. \A i : /\ Entry(t, markers[i], m[i]).marker = markers[i]
               /\ Entry(t, markers[i], m[i]).original = Slice(t, m[i].start, m[i].end)
    BY DEF Entry
  <2> HIDE DEF table, out, rest, M, N, C
  <2> QED BY <1>6, <2>1
<1>8. HasLayout(out, t, m, markers)
  BY <1>2, <1>4, SomeLayout
<1>9. PICK at, cells : Layout(at, cells, out, t, m, markers)
  BY <1>8 DEF HasLayout
<1>10. CASE table = <<>>
  <2>1. M = 0
    BY <1>6, <1>10
  <2> DEFINE done == Replacements(t, markers, m)
  <2>2. Replacing(done, t, markers, m)
    BY <1>2, ReplacementsAre
  <2>3. out = done[0].masked \o Slice(t, done[0].last, N)
    BY <2>1 DEF Replaced
  <2> HIDE DEF done
  <2>4. done[0] = Nothing
    BY <2>2 DEF Replacing
  <2>5. Nothing.masked = <<>> /\ Nothing.last = 0
    BY DEF Nothing
  <2>6. out = <<>> \o t
    BY <2>3, <2>4, <2>5, SliceAll
  <2>7. out = t
    BY <2>6, TextsEmpty
  <2> HIDE DEF out, table
  <2>8. Restore(out, table) = out
    BY <1>10 DEF Restore
  <2> QED BY <2>7, <2>8 DEF out, table
<1> HIDE DEF M, N, C, out, table, rest
<1>11. out \in Texts /\ Len(out) \in Nat
  BY <1>9 DEF Layout, Laid
<1>12. Restoring(rest, out, table)
  <2>1. \A j \in 1 .. Len(table) : Len(table[j].marker) >= 1
    <3> SUFFICES ASSUME NEW j \in 1 .. Len(table) PROVE Len(table[j].marker) >= 1
      OBVIOUS
    <3>1. table[j].marker = markers[j] /\ Bracketed(markers[j])
      BY <1>4, <1>6, <1>7
    <3>2. Len(markers[j]) \in Nat /\ Len(markers[j]) >= 2
      BY <3>1 DEF Bracketed
    <3> QED BY <3>1, <3>2
  <2> QED BY <1>6, <1>11, <2>1, RestsAre DEF rest
<1> DEFINE Right(c) ==
             /\ \A k \in 1 .. M : Within(m[k], c) => rest[at[c] + 1] = Slice(t, m[k].end, N)
             /\ (\A k \in 1 .. M : ~Within(m[k], c)) => rest[at[c] + 1] = Slice(t, c \div 2, N)
           I == {j \in 0 .. C : Right(C - j)}
<1>13. Right(C)
  <2>1. at[C] = Len(out) /\ rest[Len(out) + 1] = <<>>
    BY <1>9, <1>12 DEF Layout, Laid, Restoring, C, N
  <2>2. ASSUME NEW k \in 1 .. M PROVE ~Within(m[k], C)
    BY <1>1 DEF Within, C
  <2>3. C \div 2 = N /\ Slice(t, N, N) = <<>>
    BY <1>1, SliceNone DEF C
  <2> QED BY <2>1, <2>2, <2>3
<1>14. ASSUME NEW c \in 0 .. 2 * N, Right(c + 1) PROVE Right(c)
  <2> DEFINE p == at[c]
  <2>1. c \in Nat /\ Placed(at, out, t, m, markers, c)
    BY <1>1, <1>9, PlaceOf DEF N
  <2>2. p \in Nat /\ p <= Len(out) /\ at[c + 1] \in Nat /\ at[c + 1] <= Len(out)
    BY <2>1 DEF Placed
  <2> HIDE DEF p
  <2>3. CASE \E k \in 1 .. M : c = 2 * m[k].start
    <3>1. PICK k \in 1 .. M : c = 2 * m[k].start
      BY <2>3
    <3> DEFINE K == markers[k]
               L == Len(K)
    <3>2. /\ Bracketed(K) /\ L \in Nat /\ L >= 2
          /\ at[c + 1] = p + L /\ \A i \in 1 .. L : out[p + i] = K[i]
      BY <1>4, <2>1, <3>1 DEF Placed, Bracketed, M, p
    <3> HIDE DEF K, L
    <3>3. MarkerAt(out, p + 1) = K
      BY <1>11, <2>2, <3>2, MarkerFound DEF L
    <3>4. Entries(table, K) # {} /\ Min(Entries(table, K)) = k
      <4>1. OnlyAt(table, markers[k], k)
        BY <1>1, <1>5, <1>6, <1>7, EntryOf
      <4> QED BY <4>1 DEF OnlyAt, K
    <3>5. rest[p + 1] = table[k].original \o rest[p + 1 + L]
      <4>1. p + 1 \in 1 .. Len(out)
        BY <1>11, <2>2, <3>2
      <4> QED BY <1>12, <3>3, <3>4, <4>1 DEF Restoring, L
    <3>6. rest[p + 1 + L] = Slice(t, m[k].end, N)
      <4>1. at[c + 1] + 1 = p + 1 + L
        BY <2>2, <3>2
      <4>2. CASE Within(m[k], c + 1)
        BY <1>14, <4>1, <4>2
      <4>3. CASE ~Within(m[k], c + 1)
        <5>1. m[k].end = m[k].start /\ \A j \in 1 .. M : ~Within(m[j], c + 1)
          BY <2>1, <3>1, <4>3, PlacesOrdered DEF M
        <5>2. (c + 1) \div 2 = m[k].end
          <6> DEFINE s == m[k].start
          <6>1. s \in Nat /\ c = 2 * s
            BY <1>1, <3>1
          <6> HIDE DEF s
          <6>2. (c + 1) \div 2 = s
            BY <6>1
          <6> QED BY <5>1, <6>2 DEF s
        <5> QED BY <1>14, <4>1, <5>1, <5>2
      <4> QED BY <4>2, <4>3
    <3>7. rest[p + 1] = Slice(t, m[k].start, N)
      <4>1. N \in m[k].end .. Len(t) /\ m[k].start \in 0 .. Len(t) /\ m[k].end \in m[k].start .. Len(t)
        BY <1>1 DEF N
      <4>2. Slice(t, m[k].start, m[k].end) \o Slice(t, m[k].end, N) = Slice(t, m[k].start, N)
        BY <4>1, SliceAdjacent
      <4> QED BY <1>7, <3>5, <3>6, <4>2
    <3>8. c \div 2 = m[k].start
      <4> DEFINE s == m[k].start
      <4>1. s \in Nat /\ c = 2 * s
        BY <1>1, <3>1
      <4> HIDE DEF s
      <4>2. c \div 2 = s
        BY <4>1
      <4> QED BY <4>2 DEF s
    <3>9. \A j \in 1 .. M : ~Within(m[j], c)
      BY <2>1, <3>1, PlacesOrdered DEF M
    <3> QED BY <3>7, <3>8, <3>9 DEF p
  <2>4. CASE \E k \in 1 .. M : Within(m[k], c)
    <3>1. at[c + 1] = p
      BY <2>1, <2>4 DEF Placed, M, p
    <3>2. ASSUME NEW k \in 1 .. M, Within(m[k], c) PROVE rest[p + 1] = Slice(t, m[k].end, N)
      <4>1. CASE Within(m[k], c + 1)
        BY <1>14, <3>1, <4>1
      <4>2. CASE ~Within(m[k], c + 1)
        <5>1. c = 2 * m[k].end /\ \A j \in 1 .. M : ~Within(m[j], c + 1)
          BY <2>1, <3>2, <4>2, PlacesOrdered DEF M
        <5>2. (c + 1) \div 2 = m[k].end
          <6> DEFINE s == m[k].end
          <6>1. s \in Nat /\ c = 2 * s
            BY <1>1, <5>1
          <6> HIDE DEF s
          <6>2. (c + 1) \div 2 = s
            BY <6>1
          <6> QED BY <6>2 DEF s
        <5> QED BY <1>14, <3>1, <5>1, <5>2
      <4> QED BY <4>1, <4>2
    <3> QED BY <2>4, <3>2 DEF p
  <2>5. CASE (\A k \in 1 .. M : c # 2 * m[k].start) /\ (\A k \in 1 .. M : ~Within(m[k], c))
    <3>1. \A k \in 1 .. M : ~Hides(m[k], c)
      BY <2>1, <2>5, PlaceIs DEF M
    <3>2. \A j \in 1 .. M : ~Within(m[j], c + 1)
      BY <2>1, <3>1, PlacesOrdered DEF M
    <3>3. rest[at[c + 1] + 1] = Slice(t, (c + 1) \div 2, N)
      BY <1>14, <3>2
    <3>4. CASE c % 2 = 0
      <4>1. at[c + 1] = p
        BY <2>1, <3>1, <3>4 DEF Placed, M, p
      <4>2. (c + 1) \div 2 = c \div 2
        BY <2>1, <3>4
      <4> QED BY <2>5, <3>3, <4>1, <4>2 DEF p
    <3>5. CASE c % 2 # 0
      <4> DEFINE b == c \div 2
      <4>1. b \in 0 .. N - 1 /\ c = 2 * b + 1 /\ (c + 1) \div 2 = b + 1
        BY <1>1, <2>1, <3>5
      <4> HIDE DEF b
      <4>2. at[c + 1] = p + 1 /\ out[p + 1] = t[b + 1]
        BY <2>1, <3>1, <4>1 DEF Placed, M, N, p
      <4>3. p + 1 \in 1 .. Len(out)
        BY <1>11, <2>2, <4>2
      <4>4. Entries(table, MarkerAt(out, p + 1)) = {}
        <5> SUFFICES ASSUME Entries(table, MarkerAt(out, p + 1)) # {} PROVE FALSE
          OBVIOUS
        <5>1. PICK k \in 1 .. M : table[k].marker = MarkerAt(out, p + 1)
          BY <1>6 DEF Entries, Table
        <5> DEFINE K == markers[k]
        <5>2. Bracketed(K) /\ MarkerAt(out, p + 1) = K /\ num[k] \in Nat /\ K = Marker(num[k])
              /\ num[k] \notin UsedMarkers(t)
          BY <1>4, <1>7, <5>1
        <5> HIDE DEF K
        <5>3. K \in Texts /\ Len(K) \in Nat /\ Len(K) >= 1
          <6>1. K \in Texts /\ Len(K) \in Nat /\ Len(K) >= 2
            BY <5>2 DEF Bracketed
          <6> QED BY <6>1
        <5>4. /\ Len(K) \in 1 .. Len(out) - (p + 1) + 1
              /\ \A j \in 1 .. Len(K) : out[(p + 1) - 1 + j] = K[j]
          BY <1>11, <4>3, <5>2, <5>3, MarkerAtIs
        <5>5. p \in 0 .. Len(out) - Len(K) /\ (p + 1) - 1 = p
          BY <1>11, <2>2, <5>3, <5>4
        <5>6. Holds(out, p, K)
          BY <5>4, <5>5 DEF Holds
        <5>7. Holds(t, b, K)
          <6>1. Holds(out, at[2 * b + 1], K)
            BY <4>1, <5>6 DEF p
          <6>2. \A j \in 1 .. Len(m) : ~Hides(m[j], 2 * b + 1)
            BY <3>1, <4>1 DEF M
          <6>3. b \in 0 .. Len(t) - 1
            BY <4>1 DEF N
          <6> QED BY <1>9, <5>2, <6>1, <6>2, <6>3, HeldByText
        <5>8. num[k] \in UsedMarkers(t)
          BY <5>2, <5>7, UsedHolds
        <5> QED BY <5>2, <5>8
      <4>5. rest[p + 1] = <<out[p + 1]>> \o rest[p + 1 + 1]
        BY <1>12, <4>3, <4>4 DEF Restoring
      <4>6. rest[p + 1 + 1] = Slice(t, b + 1, N)
        BY <3>3, <4>1, <4>2
      <4>7. rest[p + 1] = Slice(t, b, N)
        <5>1. <<t[b + 1]>> = Slice(t, b, b + 1)
          BY <4>1, SliceByte DEF N
        <5>2. b \in 0 .. Len(t) /\ b + 1 \in b .. Len(t) /\ N \in b + 1 .. Len(t)
          BY <1>1, <4>1 DEF N
        <5>3. Slice(t, b, b + 1) \o Slice(t, b + 1, N) = Slice(t, b, N)
          BY <5>2, SliceAdjacent
        <5> QED BY <4>2, <4>5, <4>6, <5>1, <5>3
      <4> QED BY <2>5, <4>7 DEF p, b
    <3> QED BY <3>4, <3>5
  <2> HIDE DEF Right
  <2> QED BY <2>3, <2>4, <2>5
<1>15. I = 0 .. C
  <2> HIDE DEF Right
  <2>1. 0 \in I /\ I \subseteq 0 .. C
    <3>1. C - 0 = C /\ 0 \in 0 .. C
      BY <1>1
    <3> QED BY <1>13, <3>1
  <2>2. ASSUME NEW j \in I, j < C PROVE j + 1 \in I
    <3>1. C - (j + 1) \in 0 .. 2 * N /\ (C - (j + 1)) + 1 = C - j /\ j + 1 \in 0 .. C
      BY <1>1, <2>2 DEF C
    <3>2. Right((C - (j + 1)) + 1)
      BY <2>2, <3>1
    <3>3. Right(C - (j + 1))
      BY <1>14, <3>1, <3>2
    <3> QED BY <3>1, <3>3
  <2> HIDE DEF I
  <2> QED BY <1>1, <2>1, <2>2, Induct
<1>16. Right(0)
  <2>1. C \in 0 .. C /\ C - C = 0
    BY <1>1
  <2>2. C \in I
    BY <1>15, <2>1
  <2>3. Right(C - C)
    BY <2>2
  <2> HIDE DEF Right
  <2> QED BY <2>1, <2>3
<1>17. rest[1] = t
  <2>1. at[0] = 0
    BY <1>9 DEF Layout, Laid
  <2>2. \A k \in 1 .. M : ~Within(m[k], 0)
    BY <1>1 DEF Within
  <2>3. rest[at[0] + 1] = Slice(t, 0 \div 2, N) /\ 0 \div 2 = 0
    BY <1>16, <2>2
  <2>4. rest[1] = Slice(t, 0, N)
    BY <2>1, <2>3
  <2> QED BY <2>4, SliceAll DEF N
<1>18. CASE table # <<>>
  <2>1. Restore(out, table) = rest[1]
    BY <1>18 DEF Restore, rest
  <2> QED BY <1>17, <2>1 DEF out, table
<1> QED BY <1>10, <1>18 DEF table

----------------------------------------------------------------------------
(* The invariant of masking *)

\* What each phase leaves behind: until a text is masked only its input counts,
\* and what was resolved, masked and restored is what these steps make of it.
Followed ==
  /\ ProperInput(input)
  /\ step \in {"found", "refused", "resolved", "masked", "restored"}
  /\ step \in {"found", "refused"} => resolved = <<>>
  /\ step \in {"resolved", "masked", "restored"} =>
       (\A f \in frags : ~FailsOn(f)) /\ resolved = Resolved(frags)
  /\ Masked => mask = IF input.format = "stars" THEN Stars(text, Ranges) ELSE Mask(text, Ranges)
  /\ step = "restored" => input.format = "marker" /\ restored = Restore(mask.masked, mask.table)
  /\ step # "restored" => restored = <<>>

\* Masking begins with proper input.
LEMMA MaskingBegun ==
  ASSUME ProperInput(input), MaskingBegins
  PROVE  Followed
BY DEF Followed, MaskingBegins, Masked

\* Every step of masking keeps the invariant.
LEMMA MaskingStep ==
  ASSUME Followed, MaskingNext
  PROVE  Followed'
<1>1. CASE Refuse
  <2>1. /\ step = "found" /\ step' = "refused" /\ input' = input /\ resolved' = resolved
        /\ mask' = mask /\ restored' = restored
    BY <1>1 DEF Refuse
  <2>2. ProperInput(input') /\ resolved = <<>> /\ restored = <<>>
    BY <2>1 DEF Followed
  <2> QED BY <2>1, <2>2 DEF Followed, Masked
<1>2. CASE Resolve
  <2>1. /\ step = "found" /\ step' = "resolved" /\ input' = input
        /\ mask' = mask /\ restored' = restored
    BY <1>2 DEF Resolve
  <2>2. (\A f \in frags : ~FailsOn(f)) /\ resolved' = Resolved(frags)
    BY <1>2 DEF Resolve
  <2>3. frags' = frags /\ text' = text
    BY <2>1 DEF frags, text
  <2>4. \A f \in frags' : ~FailsOn(f)'
    BY <2>2, <2>3 DEF FailsOn
  <2>5. ProperInput(input') /\ restored = <<>>
    BY <2>1 DEF Followed
  <2> QED BY <2>1, <2>2, <2>3, <2>4, <2>5 DEF Followed, Masked
<1>3. CASE MaskText
  <2>1. /\ step = "resolved" /\ step' = "masked" /\ input' = input
        /\ resolved' = resolved /\ restored' = restored
    BY <1>3 DEF MaskText
  <2>2. mask' = IF input.format = "stars" THEN Stars(text, Ranges) ELSE Mask(text, Ranges)
    BY <1>3 DEF MaskText
  <2>3. frags' = frags /\ text' = text /\ Ranges' = Ranges
    BY <2>1 DEF frags, text, Ranges
  <2>4. /\ ProperInput(input') /\ restored = <<>> /\ resolved = Resolved(frags)
        /\ \A f \in frags : ~FailsOn(f)
    BY <2>1 DEF Followed
  <2>5. \A f \in frags' : ~FailsOn(f)'
    BY <2>3, <2>4 DEF FailsOn
  <2> QED BY <2>1, <2>2, <2>3, <2>4, <2>5 DEF Followed, Masked
<1>4. CASE RestoreText
  <2>1. /\ step = "masked" /\ step' = "restored" /\ input' = input /\ input.format = "marker"
        /\ resolved' = resolved /\ mask' = mask /\ restored' = Restore(mask.masked, mask.table)
    BY <1>4 DEF RestoreText
  <2>2. frags' = frags /\ text' = text /\ Ranges' = Ranges
    BY <2>1 DEF frags, text, Ranges
  <2>3. /\ ProperInput(input') /\ resolved = Resolved(frags)
        /\ \A f \in frags : ~FailsOn(f)
        /\ mask = IF input.format = "stars" THEN Stars(text, Ranges) ELSE Mask(text, Ranges)
    BY <2>1 DEF Followed, Masked
  <2>4. \A f \in frags' : ~FailsOn(f)'
    BY <2>2, <2>3 DEF FailsOn
  <2> QED BY <2>1, <2>2, <2>3, <2>4 DEF Followed, Masked
<1> QED BY <1>1, <1>2, <1>3, <1>4 DEF MaskingNext

\* A step that leaves masking alone keeps it as well.
LEMMA MaskingRests ==
  ASSUME Followed, UNCHANGED mvars
  PROVE  Followed'
<1>1. /\ input' = input /\ step' = step /\ resolved' = resolved
      /\ mask' = mask /\ restored' = restored
  BY DEF mvars
<1>2. frags' = frags /\ text' = text /\ Ranges' = Ranges
  BY <1>1 DEF frags, text, Ranges
<1>3. (\A f \in frags : ~FailsOn(f)) => \A f \in frags' : ~FailsOn(f)'
  BY <1>2 DEF FailsOn
<1> QED BY <1>1, <1>2, <1>3 DEF Followed, Masked

\* Masking of examples begins with proper input too.
LEMMA EvaluationBegun ==
  ASSUME EvaluationInit
  PROVE  Followed /\ IsFiniteSet(expected) /\ report = NoReport
<1>1. CASE input \in Inputs /\ expected = NoExample
  <2>1. ProperInput(input)
    BY <1>1, InputsAssumption
  <2>2. IsFiniteSet(expected)
    BY <1>1, FS_Singleton DEF NoExample
  <2> QED BY <2>1, <2>2, MaskingBegun DEF EvaluationInit
<1>2. CASE \E e \in Examples : input = e.input /\ expected = e.expected
  <2>1. ProperInput(input) /\ IsFiniteSet(expected)
    BY <1>2, ExamplesAssumption
  <2> QED BY <2>1, MaskingBegun DEF EvaluationInit
<1> QED BY <1>1, <1>2 DEF EvaluationInit

\* Every step of the evaluation keeps the invariant.
LEMMA EvaluationStep ==
  ASSUME Followed, [EvaluationNext]_evars
  PROVE  Followed'
<1>1. CASE Judge
  BY <1>1, MaskingRests DEF Judge
<1>2. CASE MaskingNext
  BY <1>2, MaskingStep
<1>3. CASE UNCHANGED evars
  BY <1>3, MaskingRests DEF evars
<1> QED BY <1>1, <1>2, <1>3 DEF EvaluationNext

----------------------------------------------------------------------------
(* What the invariant says of the mask *)

\* What is masked is replaced, under whole markers where the prefix is whole.
LEMMA MaskIsReplaced ==
  ASSUME Followed, Masked
  PROVE  \E markers \in [1 .. Len(MergeRanges(Ranges)) -> Texts] :
           /\ mask = Replaced(text, markers, MergeRanges(Ranges))
           /\ WholeRunes(Prefix) => \A n \in 1 .. Len(MergeRanges(Ranges)) : WholeRunes(markers[n])
           /\ input.format = "marker" => OwnMarkers(markers, text, Len(MergeRanges(Ranges)))
<1> DEFINE m == MergeRanges(Ranges)
           M == Len(m)
<1>1. /\ ProperInput(input) /\ \A f \in frags : ~FailsOn(f)
      /\ resolved = Resolved(frags)
      /\ mask = IF input.format = "stars" THEN Stars(text, Ranges) ELSE Mask(text, Ranges)
  BY DEF Followed, Masked
<1>2. Fits(m, text) /\ text \in Texts /\ input.format \in {"marker", "stars"}
  BY <1>1, RangesFit, ProperText
<1>3. M \in Nat
  BY <1>2, FitsIs
<1>4. CASE input.format = "stars"
  <2> DEFINE markers == [n \in 1 .. M |-> StarRun]
  <2>1. markers \in [1 .. M -> Texts]
    BY StarsType
  <2>2. mask = Replaced(text, markers, m)
    BY <1>1, <1>4 DEF Stars
  <2>3. \A n \in 1 .. M : WholeRunes(markers[n])
    BY WholeMarkers
  <2>4. input.format # "marker"
    BY <1>4
  <2> HIDE DEF markers, m
  <2> QED BY <2>1, <2>2, <2>3, <2>4 DEF m
<1>5. CASE input.format # "stars"
  <2> DEFINE markers == Markers(text, m)
  <2>1. OwnMarkers(markers, text, M)
    BY <1>2, <1>3, MarkersAre
  <2>2. mask = Replaced(text, markers, m)
    BY <1>1, <1>5 DEF Mask
  <2> HIDE DEF markers, m
  <2>3. markers \in [1 .. M -> Texts]
    BY <1>3, <2>1, MarkersType
  <2>4. WholeRunes(Prefix) => \A n \in 1 .. M : WholeRunes(markers[n])
    <3> SUFFICES ASSUME WholeRunes(Prefix), NEW n \in 1 .. M PROVE WholeRunes(markers[n])
      OBVIOUS
    <3>1. PICK num : /\ Free(num, UsedMarkers(text), M)
                     /\ markers = [k \in 1 .. M |-> Marker(num[k])]
      BY <2>1 DEF OwnMarkers
    <3>2. num[n] \in Nat /\ markers[n] = Marker(num[n])
      BY <3>1 DEF Free
    <3> QED BY <3>2, WholeMarkers
  <2> QED BY <2>1, <2>2, <2>3, <2>4 DEF m
<1> QED BY <1>4, <1>5

\* The invariant implies that the mask is exact.
LEMMA FollowedExact ==
  ASSUME Followed
  PROVE  MasksExactly
<1>1. CASE Masked
  <2>1. /\ ProperInput(input) /\ \A f \in frags : ~FailsOn(f)
        /\ resolved = Resolved(frags)
    BY <1>1 DEF Followed, Masked
  <2>2. PICK markers \in [1 .. Len(MergeRanges(Ranges)) -> Texts] :
          mask = Replaced(text, markers, MergeRanges(Ranges))
    BY <1>1, MaskIsReplaced
  <2> QED BY <2>1, <2>2, MaskIsExact
<1> QED BY <1>1 DEF MasksExactly

\* The invariant implies that masking fails closed, with a prefix of whole runes.
LEMMA FollowedClosed ==
  ASSUME Followed, WholeRunes(Prefix)
  PROVE  FailsClosed
<1>1. CASE Masked
  <2>1. /\ ProperInput(input) /\ \A f \in frags : ~FailsOn(f)
        /\ resolved = Resolved(frags)
    BY <1>1 DEF Followed, Masked
  <2>2. PICK markers \in [1 .. Len(MergeRanges(Ranges)) -> Texts] :
          /\ mask = Replaced(text, markers, MergeRanges(Ranges))
          /\ \A n \in 1 .. Len(MergeRanges(Ranges)) : WholeRunes(markers[n])
    BY <1>1, MaskIsReplaced
  <2> QED BY <2>1, <2>2, MaskFailsClosed
<1> QED BY <1>1 DEF FailsClosed

\* The invariant implies that the highest type wins.
LEMMA FollowedHighest ==
  ASSUME Followed
  PROVE  HighestTypeWins
<1>1. CASE resolved = <<>>
  <2>1. ToSet(resolved) = {}
    BY <1>1 DEF ToSet
  <2> QED BY <2>1 DEF HighestTypeWins
<1>2. CASE step \in {"resolved", "masked", "restored"}
  <2>1. /\ ProperInput(input) /\ \A f \in frags : ~FailsOn(f)
        /\ resolved = Resolved(frags)
    BY <1>2 DEF Followed
  <2>2. \A r \in ToSet(resolved) : HighestType(r)
    BY <2>1, ProperFragments, HighestTypes
  <2> QED BY <2>2 DEF HighestTypeWins, HighestType
<1> QED BY <1>1, <1>2 DEF Followed

\* The invariant implies that nothing is lost, with a plain prefix.
LEMMA FollowedRestores ==
  ASSUME Followed, PlainPrefix
  PROVE  RestoresText
<1>1. CASE step = "restored"
  <2>1. /\ ProperInput(input) /\ \A f \in frags : ~FailsOn(f)
        /\ resolved = Resolved(frags) /\ input.format = "marker"
        /\ restored = Restore(mask.masked, mask.table) /\ Masked
    BY <1>1 DEF Followed, Masked
  <2>2. PICK markers \in [1 .. Len(MergeRanges(Ranges)) -> Texts] :
          /\ mask = Replaced(text, markers, MergeRanges(Ranges))
          /\ OwnMarkers(markers, text, Len(MergeRanges(Ranges)))
    BY <2>1, MaskIsReplaced
  <2>3. text \in Texts /\ Fits(MergeRanges(Ranges), text)
    BY <2>1, ProperText, RangesFit
  <2> HIDE DEF Texts
  <2>4. restored = text
    BY <2>1, <2>2, <2>3, RestoreIs
  <2> QED BY <2>4 DEF RestoresText
<1> QED BY <1>1 DEF RestoresText

\* The invariant holds of every evaluation.
THEOREM EvaluationFollowed == EvaluationSpec => []Followed
<1>1. EvaluationInit => Followed
  BY EvaluationBegun
<1>2. Followed /\ [EvaluationNext]_evars => Followed'
  BY EvaluationStep
<1> QED BY <1>1, <1>2, PTL DEF EvaluationSpec

\* And of masking alone.
THEOREM MaskingFollowed == MaskingSpec => []Followed
<1>1. MaskingInit => Followed
  BY InputsAssumption, MaskingBegun DEF MaskingInit
<1>2. Followed /\ [MaskingNext]_mvars => Followed'
  BY MaskingStep, MaskingRests
<1> QED BY <1>1, <1>2, PTL DEF MaskingSpec

\* For every text, every findings and every prefix the mask hides exactly what
\* is sensitive: each run of sensitive places is one marker or one run of stars,
\* and every other byte is where it was (Mask and Stars in masker.go).
THEOREM MasksExactlyHolds ==
  (EvaluationSpec => []MasksExactly) /\ (MaskingSpec => []MasksExactly)
<1>1. Followed => MasksExactly
  BY FollowedExact
<1> QED BY <1>1, EvaluationFollowed, MaskingFollowed, PTL

\* However the recognizers' findings overlap and in whatever order they come,
\* each resolved range has the highest type of what it unites
\* (ResolveWithPriority in recognizer.go).
THEOREM HighestTypeWinsHolds ==
  (EvaluationSpec => []HighestTypeWins) /\ (MaskingSpec => []HighestTypeWins)
<1>1. Followed => HighestTypeWins
  BY FollowedHighest
<1> QED BY <1>1, EvaluationFollowed, MaskingFollowed, PTL

\* No text is masked around an invalid finding and no rune is cut, with a prefix
\* whose own runes are whole (Service.mask in app.go, Mask in masker.go).
THEOREM FailsClosedHolds ==
  WholeRunes(Prefix) => (EvaluationSpec => []FailsClosed) /\ (MaskingSpec => []FailsClosed)
<1> SUFFICES ASSUME WholeRunes(Prefix)
             PROVE  (EvaluationSpec => []FailsClosed) /\ (MaskingSpec => []FailsClosed)
  OBVIOUS
<1>1. Followed => FailsClosed
  BY FollowedClosed
<1> QED BY <1>1, EvaluationFollowed, MaskingFollowed, PTL

\* The mask and its table give every text back, markers in it or not, with a
\* prefix without brackets (Restore in masker.go).
THEOREM RestoresTextHolds ==
  PlainPrefix => (EvaluationSpec => []RestoresText) /\ (MaskingSpec => []RestoresText)
<1> SUFFICES ASSUME PlainPrefix
             PROVE  (EvaluationSpec => []RestoresText) /\ (MaskingSpec => []RestoresText)
  OBVIOUS
<1>1. Followed => RestoresText
  BY FollowedRestores
<1> QED BY <1>1, EvaluationFollowed, MaskingFollowed, PTL

----------------------------------------------------------------------------
(* The report *)

\* What one side has and the other has not, summed type by type, is the number of
\* its ranges that the other has not.
LEMMA UnmatchedIs ==
  ASSUME NEW these, IsFiniteSet(these), NEW those
  PROVE  Unmatched(these, those, TypesOf(these)) = Cardinality(these \ those)
<1> DEFINE K == TypesOf(these)
           D == these \ those
           f == [t \in K |-> Cardinality(OfType(these, t))
                               - ExactMatches(OfType(these, t), OfType(those, t))]
           kind == [r \in D |-> r.type]
           type == [r \in these |-> r.type]
<1>1. IsFiniteSet(K)
  <2>1. type \in Surjection(these, K)
    BY DEF Surjection, TypesOf
  <2> HIDE DEF type, K
  <2> QED BY <2>1, FS_Surjection
<1>2. IsFiniteSet(D)
  BY FS_Difference
<1>3. kind \in [D -> K]
  BY DEF TypesOf
<1>4. ASSUME NEW t \in K PROVE f[t] = Cardinality({r \in D : kind[r] = t})
  <2> DEFINE A == OfType(these, t)
             B == OfType(those, t)
  <2>1. A \in SUBSET these
    BY DEF OfType
  <2>2. IsFiniteSet(A)
    <3> HIDE DEF A
    <3> QED BY <2>1, FS_Subset
  <2>3. Cardinality(A \ B) = Cardinality(A) - Cardinality(A \cap B)
    <3> HIDE DEF A, B
    <3> QED BY <2>2, FS_Difference
  <2>4. {r \in D : kind[r] = t} = A \ B
    BY DEF OfType
  <2>5. f[t] = Cardinality(A) - Cardinality(A \cap B)
    BY <1>4 DEF ExactMatches
  <2> HIDE DEF A, B, f, kind, D, K
  <2> QED BY <2>3, <2>4, <2>5
<1>5. Unmatched(these, those, K) = Total(K, f)
  BY DEF Unmatched
<1> HIDE DEF K, D, f, kind
<1>6. Total(K, f) = Cardinality(D)
  BY <1>1, <1>2, <1>3, <1>4, TotalCount
<1> QED BY <1>5, <1>6 DEF K, D

\* A side that has of each type as many matches as ranges is part of the other.
LEMMA AllMatched ==
  ASSUME NEW these, IsFiniteSet(these), NEW those
  PROVE  {t \in TypesOf(these) : ExactMatches(OfType(these, t), OfType(those, t))
                                   < Cardinality(OfType(these, t))} = {}
           <=> these \subseteq those
<1>1. ASSUME NEW t
      PROVE  LET A == OfType(these, t)  B == OfType(those, t) IN
             /\ ExactMatches(A, B) < Cardinality(A) <=> ~(A \subseteq B)
  <2> DEFINE A == OfType(these, t)
             B == OfType(those, t)
  <2>1. A \in SUBSET these
    BY DEF OfType
  <2> HIDE DEF A, B
  <2>2. IsFiniteSet(A)
    BY <2>1, FS_Subset
  <2>3. A \cap B \in SUBSET A
    OBVIOUS
  <2>4. /\ Cardinality(A \cap B) <= Cardinality(A)
        /\ Cardinality(A) = Cardinality(A \cap B) => A = A \cap B
        /\ Cardinality(A) \in Nat /\ Cardinality(A \cap B) \in Nat
    BY <2>2, <2>3, FS_Subset, FS_CardinalityType
  <2>5. A \subseteq B => A \cap B = A
    OBVIOUS
  <2>6. A = A \cap B => A \subseteq B
    OBVIOUS
  <2>7. Cardinality(A \cap B) < Cardinality(A) <=> ~(A \subseteq B)
    BY <2>4, <2>5, <2>6
  <2> QED BY <2>7 DEF ExactMatches, A, B
<1>2. these \subseteq those <=> \A t \in TypesOf(these) : OfType(these, t) \subseteq OfType(those, t)
  BY DEF TypesOf, OfType
<1> QED BY <1>1, <1>2

\* What ReportIsHonest says of errors and of a report, whichever they are.
Honest(errors, r) ==
  /\ errors = {} => Clean(r)
  /\ Clean(r) => errors = {} \/ (step = "refused" /\ text = <<>>)
  /\ errors = {} => step = "restored" /\ ToSet(resolved) = expected
  /\ step = "restored" /\ ToSet(resolved) = expected => errors \subseteq {<<"changed">>}
  /\ r.matched + r.missed = Cardinality(expected)
  /\ r.matched + r.extra = Cardinality(Actual)
  /\ r.missed = 0 /\ r.extra = 0 /\ step = "restored" =>
       r.covered = r.sensitive /\ r.wrong = 0 /\ r.over = 0

\* A text that is refused has one error, and its sums are clean only if it is empty
\* and nothing is expected of it.
LEMMA RefusedIsHonest ==
  ASSUME Followed, IsFiniteSet(expected), step = "refused"
  PROVE  Honest(ErrorsOf, Accumulated(ErrorsOf))
<1> DEFINE r == Accumulated(ErrorsOf)
<1>1. ErrorsOf = {<<"pipeline">>} /\ Actual = {} /\ restored = <<>>
  BY DEF ErrorsOf, Actual, Followed
<1>2. /\ r.matched = ExactMatches(expected, Actual)
      /\ r.missed = Unmatched(expected, Actual, TypesOf(expected))
      /\ r.extra = Unmatched(Actual, expected, TypesOf(Actual))
      /\ r.restoreFailures = One(restored # text)
  BY DEF Accumulated, FalsePositives
<1> HIDE DEF r
<1>3. r.missed = Cardinality(expected \ Actual) /\ r.extra = Cardinality(Actual \ expected)
  BY <1>1, <1>2, UnmatchedIs, FS_EmptySet
<1>4. expected \ Actual = expected /\ Actual \ expected = {} /\ expected \cap Actual = {}
  BY <1>1
<1>5. r.matched = 0 /\ r.extra = 0 /\ r.missed = Cardinality(expected) /\ Cardinality(Actual) = 0
  BY <1>1, <1>2, <1>3, <1>4, FS_EmptySet DEF ExactMatches
<1>6. Cardinality(expected) \in Nat
  BY FS_CardinalityType
<1>7. r.restoreFailures = 0 => text = <<>>
  BY <1>1, <1>2 DEF One
<1>8. ErrorsOf # {}
  BY <1>1
<1> QED BY <1>5, <1>6, <1>7, <1>8 DEF Honest, Clean, r

\* The errors and the sums of a text that is masked and restored.
LEMMA RestoredIsHonest ==
  ASSUME Followed, PlainPrefix, IsFiniteSet(expected), step = "restored"
  PROVE  Honest(ErrorsOf, Accumulated(ErrorsOf))
<1> DEFINE r == Accumulated(ErrorsOf)
           missing == {t \in TypesOf(expected) :
                         ExactMatches(OfType(expected, t), OfType(Actual, t))
                           < Cardinality(OfType(expected, t))}
           extra == {t \in TypesOf(Actual) :
                       ExactMatches(OfType(expected, t), OfType(Actual, t))
                         < Cardinality(OfType(Actual, t))}
           due == Coverage(expected)
           found == Coverage(Actual)
           confused == {i \in due \cap found : Category(expected, i) # Category(Actual, i)}
<1>1. restored = text /\ Actual = ToSet(resolved)
  BY FollowedRestores DEF RestoresText, Actual
<1>2. IsFiniteSet(Actual)
  <2>1. resolved \in Seq(Fragments)
    <3>1. /\ ProperInput(input) /\ \A f \in frags : ~FailsOn(f)
          /\ resolved = Resolved(frags)
      BY DEF Followed
    <3>2. Resolution(resolved, frags)
      BY <3>1, ProperFragments, ResolvedIs
    <3> QED BY <3>2 DEF Resolution
  <2> DEFINE K == 1 .. Len(resolved)
             at == [k \in K |-> resolved[k]]
  <2>2. IsFiniteSet(K)
    BY <2>1, FS_Interval
  <2>3. at \in Surjection(K, ToSet(resolved))
    <3>1. DOMAIN resolved = K
      BY <2>1
    <3>2. ToSet(resolved) = {resolved[k] : k \in K}
      BY <3>1 DEF ToSet
    <3> HIDE DEF K
    <3> QED BY <3>2 DEF Surjection
  <2> HIDE DEF K, at
  <2> QED BY <1>1, <2>2, <2>3, FS_Surjection
<1>3. ErrorsOf = (IF UnchangedOK THEN {} ELSE {<<"changed">>}) \cup
                 {<<"missing", t>> : t \in missing} \cup
                 {<<"extra", t>> : t \in extra} \cup
                 {<<"unmasked", i>> : i \in due \ found} \cup
                 {<<"over-masked", i>> : i \in found \ due} \cup
                 {<<"category", i>> : i \in confused}
  BY <1>1 DEF ErrorsOf
<1>4. /\ r.matched = ExactMatches(expected, Actual)
      /\ r.missed = Unmatched(expected, Actual, TypesOf(expected))
      /\ r.extra = Unmatched(Actual, expected, TypesOf(Actual))
      /\ r.sensitive = Cardinality(due) /\ r.covered = Cardinality(due \cap found)
      /\ r.wrong = Cardinality(confused) /\ r.over = Cardinality(found \ due)
      /\ r.restoreFailures = One(restored # text)
      /\ r.unchangedFailures = One(~UnchangedOK)
  BY DEF Accumulated, FalsePositives
<1> HIDE DEF r
<1>5. r.missed = Cardinality(expected \ Actual) /\ r.extra = Cardinality(Actual \ expected)
  BY <1>2, <1>4, UnmatchedIs
<1>6. missing = {} <=> expected \subseteq Actual
  BY AllMatched
<1>7. extra = {} <=> Actual \subseteq expected
  <2>1. \A t : ExactMatches(OfType(expected, t), OfType(Actual, t))
                 = ExactMatches(OfType(Actual, t), OfType(expected, t))
    <3>1. \A A, B : A \cap B = B \cap A
      OBVIOUS
    <3> QED BY <3>1 DEF ExactMatches
  <2> QED BY <1>2, <2>1, AllMatched
<1>8. Actual = expected => due = found /\ confused = {}
  OBVIOUS
<1>9. /\ IsFiniteSet(expected \ Actual) /\ IsFiniteSet(Actual \ expected)
      /\ Cardinality(expected \ Actual) = Cardinality(expected) - Cardinality(expected \cap Actual)
      /\ Cardinality(Actual \ expected) = Cardinality(Actual) - Cardinality(Actual \cap expected)
  BY <1>2, FS_Difference
<1>10. /\ IsFiniteSet(expected \cap Actual)
       /\ Cardinality(expected) \in Nat /\ Cardinality(Actual) \in Nat
       /\ Cardinality(expected \cap Actual) \in Nat
  BY <1>2, FS_Intersection, FS_CardinalityType
<1>11. Actual \cap expected = expected \cap Actual
  OBVIOUS
<1>12. /\ r.missed = 0 <=> expected \subseteq Actual
       /\ r.extra = 0 <=> Actual \subseteq expected
  <2>1. \A A, B : A \ B = {} <=> A \subseteq B
    OBVIOUS
  <2> HIDE DEF missing, extra, due, found, confused
  <2> QED BY <1>5, <1>9, <2>1, FS_EmptySet
<1>13. /\ r.matched + r.missed = Cardinality(expected)
       /\ r.matched + r.extra = Cardinality(Actual)
  <2>1. r.matched = Cardinality(expected \cap Actual)
    BY <1>4 DEF ExactMatches
  <2>2. \A x, y \in Int : x + (y - x) = y
    OBVIOUS
  <2>3. /\ r.missed = Cardinality(expected) - Cardinality(expected \cap Actual)
        /\ r.extra = Cardinality(Actual) - Cardinality(expected \cap Actual)
    BY <1>5, <1>9, <1>11, Zenon
  <2>4. /\ Cardinality(expected) \in Int /\ Cardinality(Actual) \in Int
        /\ Cardinality(expected \cap Actual) \in Int
    BY <1>10
  <2> QED BY <2>1, <2>2, <2>3, <2>4, Zenon
<1>14. r.restoreFailures = 0 /\ (r.unchangedFailures = 0 <=> UnchangedOK)
  BY <1>1, <1>4 DEF One
<1>15. ErrorsOf = {} => UnchangedOK /\ missing = {} /\ extra = {}
  <2> HIDE DEF missing, extra, due, found, confused
  <2> QED BY <1>3
<1>16. Actual = expected => ErrorsOf = IF UnchangedOK THEN {} ELSE {<<"changed">>}
  <2>1. Actual = expected => /\ missing = {} /\ extra = {} /\ confused = {}
                             /\ due \ found = {} /\ found \ due = {}
    <3> HIDE DEF missing, extra, due, found, confused
    <3> QED BY <1>6, <1>7, <1>8
  <2> HIDE DEF missing, extra, due, found, confused
  <2> QED BY <1>3, <2>1
<1>17. Actual = expected => r.covered = r.sensitive /\ r.wrong = 0 /\ r.over = 0
  <2>1. Actual = expected => /\ due \cap found = due /\ confused = {} /\ found \ due = {}
    <3> HIDE DEF due, found, confused
    <3> QED BY <1>8
  <2> HIDE DEF due, found, confused
  <2> QED BY <1>4, <2>1, FS_EmptySet
<1> HIDE DEF missing, extra, due, found, confused
<1>18. Clean(r) <=> Actual = expected /\ UnchangedOK
  BY <1>12, <1>14 DEF Clean
<1>19. ErrorsOf = {} <=> Actual = expected /\ UnchangedOK
  BY <1>6, <1>7, <1>15, <1>16
<1>20. Actual = expected => ErrorsOf \subseteq {<<"changed">>}
  BY <1>16
<1>21. r.missed = 0 /\ r.extra = 0 => Actual = expected
  BY <1>12
<1> HIDE DEF Honest
<1> QED BY <1>1, <1>13, <1>17, <1>18, <1>19, <1>20, <1>21 DEF Honest, r

\* Judging keeps the report honest.
LEMMA JudgeIsHonest ==
  ASSUME Followed, PlainPrefix, IsFiniteSet(expected), Judge
  PROVE  ReportIsHonest'
<1>1. Honest(ErrorsOf, Accumulated(ErrorsOf))
  BY RefusedIsHonest, RestoredIsHonest DEF Judge
<1>2. /\ result' = ErrorsOf /\ report' = Accumulated(ErrorsOf)
      /\ expected' = expected /\ input' = input /\ step' = step /\ resolved' = resolved
  BY DEF Judge, mvars
<1>3. text' = text /\ Actual' = Actual
  BY <1>2 DEF text, Actual
<1>4. Honest(result', report')
  BY <1>1, <1>2
<1>5. Honest(result, report)'
  BY <1>2, <1>3, <1>4 DEF Honest, Clean
<1> QED BY <1>5 DEF Honest, ReportIsHonest

\* A report is made once, of a text that is through, and is honest.
Reported ==
  /\ Followed
  /\ IsFiniteSet(expected)
  /\ Judged => step \in {"restored", "refused"}
  /\ ReportIsHonest

\* What was reported is not changed by a step that leaves the text alone.
LEMMA ReportRests ==
  ASSUME ReportIsHonest, UNCHANGED evars
  PROVE  ReportIsHonest'
<1>1. /\ input' = input /\ step' = step /\ resolved' = resolved
      /\ expected' = expected /\ result' = result /\ report' = report
  BY DEF evars, mvars
<1>2. text' = text /\ Actual' = Actual
  BY <1>1 DEF text, Actual
<1> QED BY <1>1, <1>2 DEF ReportIsHonest, Judged, Clean

\* Every step of the evaluation keeps the report honest, with a plain prefix.
LEMMA ReportedStep ==
  ASSUME PlainPrefix, Reported, [EvaluationNext]_evars
  PROVE  Reported'
<1>1. Followed'
  BY EvaluationStep DEF Reported
<1>2. CASE Judge
  <2>1. expected' = expected /\ step' = step /\ step \in {"restored", "refused"}
    BY <1>2 DEF Judge, mvars
  <2>2. ReportIsHonest'
    BY <1>2, JudgeIsHonest DEF Reported
  <2> QED BY <1>1, <2>1, <2>2 DEF Reported
<1>3. CASE MaskingNext /\ UNCHANGED <<expected, result, report>>
  <2>1. step \notin {"restored", "refused"}
    BY <1>3 DEF MaskingNext, Refuse, Resolve, MaskText, RestoreText
  <2>2. ~Judged
    BY <2>1 DEF Reported
  <2>3. ~Judged' /\ expected' = expected
    BY <1>3, <2>2 DEF Judged, NoReport
  <2>4. ReportIsHonest'
    BY <2>3 DEF ReportIsHonest
  <2> QED BY <1>1, <2>3, <2>4 DEF Reported
<1>4. CASE UNCHANGED evars
  <2>1. ReportIsHonest'
    BY <1>4, ReportRests DEF Reported
  <2>2. step' = step /\ expected' = expected /\ report' = report
    BY <1>4 DEF evars, mvars
  <2> QED BY <1>1, <2>1, <2>2 DEF Reported, Judged, NoReport
<1> QED BY <1>2, <1>3, <1>4 DEF EvaluationNext

\* The errors of an example and the sums of its report tell the same story: a
\* clean report of a restored text means that exactly the expected ranges were
\* masked under their types and the text came back (evaluateOne and accumulate
\* in eval.go), with a prefix without brackets.
THEOREM ReportIsHonestHolds ==
  PlainPrefix => (EvaluationSpec => []ReportIsHonest)
<1> SUFFICES ASSUME PlainPrefix PROVE EvaluationSpec => []ReportIsHonest
  OBVIOUS
<1>1. EvaluationInit => Reported
  BY EvaluationBegun DEF Reported, ReportIsHonest, Judged
<1>2. Reported /\ [EvaluationNext]_evars => Reported'
  BY ReportedStep
<1>3. Reported => ReportIsHonest
  BY DEF Reported
<1> QED BY <1>1, <1>2, <1>3, PTL DEF EvaluationSpec
=============================================================================
