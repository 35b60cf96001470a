------------------------------- MODULE Sorting -------------------------------
(***************************************************************************)
(* Sorting, as the code does it with sort.Slice: the same elements, each    *)
(* less than all that follow it.  Where the comparison orders any two        *)
(* elements there is one such order (SortExists in Data_proofs), so how the  *)
(* library sorts does not matter.                                          *)
(***************************************************************************)
EXTENDS Integers, FiniteSets

\* The elements of S in the order of less.
SortedBy(S, less(_, _)) ==
  CHOOSE s \in [1 .. Cardinality(S) -> S] :
    \A i, j \in 1 .. Cardinality(S) : i < j => less(s[i], s[j])
=============================================================================
