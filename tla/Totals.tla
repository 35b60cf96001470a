------------------------------- MODULE Totals -------------------------------
(***************************************************************************)
(* Sums of natural numbers over finite sets, counted instead of folded: the *)
(* sum of f over K is the number of cells <<k, i>> with k in K and i in     *)
(* 1..f[k].  The store's bytes and gauges are stated with it.  Cardinality   *)
(* has theorems that need no induction, so what is said with Total can be   *)
(* proved for every size (Data_proofs) as well as evaluated by TLC.         *)
(***************************************************************************)
EXTENDS Integers, FiniteSets

\* The unit cells of the members of K, one row of f[k] cells per member.
Cells(K, f) == UNION { {k} \X (1..f[k]) : k \in K }

\* The sum of f[k] over the members k of the finite set K.
Total(K, f) == Cardinality(Cells(K, f))

\* The sum of integers: the total of what is gained less that of what is lost.
Gains(K, f)   == [k \in K |-> IF f[k] > 0 THEN f[k] ELSE 0]
Losses(K, f)  == [k \in K |-> IF f[k] < 0 THEN -f[k] ELSE 0]
Balance(K, f) == Total(K, Gains(K, f)) - Total(K, Losses(K, f))
=============================================================================
