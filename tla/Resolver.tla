------------------------------ MODULE Resolver ------------------------------
(***************************************************************************)
(* The resolution of overlapping fragments, ResolveWithPriority             *)
(* (src/internal/recognizer/recognizer.go).  A fragment is a range of bytes *)
(* [start, end) with a type.                                               *)
(***************************************************************************)
EXTENDS Sorting, Sequences, SequencesExt

CONSTANTS
  Types,      \* data types
  Priority,   \* [Types -> Int], higher wins
  NameOrder   \* [Types -> Int], the order of the types' names

\* Two types never have the same name.
ASSUME TypesAssumption ==
  /\ Priority \in [Types -> Int]
  /\ NameOrder \in [Types -> Int]
  /\ \A t, u \in Types : NameOrder[t] = NameOrder[u] => t = u

\* A range the text cannot have: out of bounds, inverted, or cutting a rune.
\* runes are the offsets where a rune begins, and the length of the text.
Invalid(f, length, runes) ==
  \/ f.start < 0 \/ f.end > length \/ f.start > f.end
  \/ f.start < f.end /\ ~{f.start, f.end} \subseteq runes

Precedes(f, g) ==
  \/ f.start < g.start
  \/ /\ f.start = g.start
     /\ \/ f.end > g.end
        \/ /\ f.end = g.end
           /\ \/ Priority[f.type] > Priority[g.type]
              \/ Priority[f.type] = Priority[g.type] /\ NameOrder[f.type] < NameOrder[g.type]

\* The type of f replaces the type of what it extends.
BugWins(f, last) == f.start = last.start
Wins(f, last) == f.start = last.start \/ Priority[f.type] > Priority[last.type]

BugTake(out, f) ==
  IF out = <<>> \/ f.start >= Last(out).end THEN Append(out, f)
  ELSE IF f.end <= Last(out).end \/ ~Wins(f, Last(out)) THEN out
  ELSE [out EXCEPT ![Len(out)] = [start |-> Last(out).start, end |-> f.end, type |-> f.type]]

\* The next fragment in order: apart, covered, or the union of both with the
\* type of the higher priority.
Take(out, f) ==
  IF out = <<>> \/ f.start >= Last(out).end THEN Append(out, f)
  ELSE IF f.end <= Last(out).end THEN out
  ELSE [out EXCEPT ![Len(out)] =
          [start |-> Last(out).start, end |-> f.end,
           type  |-> IF Wins(f, Last(out)) THEN f.type ELSE Last(out).type]]

\* What is resolved of the first fragments in order.
Outs(s) ==
  LET out[n \in 0 .. Len(s)] == IF n = 0 THEN <<>> ELSE Take(out[n - 1], s[n])
  IN out

\* A set is as good as a slice: of equal fragments one covers the others, and
\* equal empty ones become one range.
Resolved(frags) ==
  LET s == SortedBy(frags, Precedes) IN Outs(s)[Len(s)]
=============================================================================
