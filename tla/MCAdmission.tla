---------------------------- MODULE MCAdmission -----------------------------
(* Instances of Admission for TLC. *)
EXTENDS Admission, TLC

CONSTANTS n1, n2, n3

ThreeConns == {n1, n2, n3}

\* Undeclared, empty, and one that fits the body limit of 4.
SomeLengths == {-1, 0, 2}

\* With Word = 32, four times the longer length is no longer a machine integer.
WrappingLengths == {2, 8}

AnyOrder == Permutations(Conns)
=============================================================================
