----------------------------- MODULE MCMasking ------------------------------
(* Instances of Masking and of its evaluation for TLC. *)
EXTENDS Evaluation, TLC

CONSTANTS low, middle, high, twin

AllTypes == {low, middle, high, twin}
Priorities == (low :> 1) @@ (middle :> 2) @@ (high :> 3) @@ (twin :> 2)
Names == (low :> 1) @@ (middle :> 2) @@ (high :> 3) @@ (twin :> 4)

OneLetter == <<"P">>

\* Texts of up to four pieces, among them whole and broken markers and numbers
\* of two digits.
Pieces == { <<"[", "P", "_">>, <<"0">>, <<"1">>, <<"]">>, <<"r1", "r2">> }

PieceTexts == {FlattenSeq(s) : s \in BoundedSeq(Pieces, 4)} \cup
              { <<"[", "P", "_", "1", "]", "x", "[", "P", "_", "0", "]">>,
                <<"x", "[", "P", "_", "0", "1", "]", "0", "1">> }

FragmentsOf(t, types) ==
  [start: RuneStarts(t), end: RuneStarts(t), type: types]

Proper(t, types) == {f \in FragmentsOf(t, types) : f.start < f.end}
Empty(t, types)  == {f \in FragmentsOf(t, types) : f.start = f.end}

AtMostTwo(S)   == {{}} \cup {{f, g} : f \in S, g \in S}
AtMostThree(S) == {{}} \cup {{f, g, h} : f \in S, g \in S, h \in S}

\* Every text of pieces with up to two fragments in it, and where it has at most
\* two pieces with empty ones among them.
RoundTrips ==
  UNION { [text: {t}, frags: AtMostTwo(Proper(t, {low})), format: {"marker"}] : t \in PieceTexts } \cup
  UNION { [text: {t}, frags: AtMostTwo(Proper(t, {low}) \cup Empty(t, {low})), format: {"marker"}] :
            t \in {FlattenSeq(s) : s \in BoundedSeq(Pieces, 2)} }

\* One short text with up to three fragments of any types, and fragments it
\* cannot have: out of bounds, or cutting its rune.
Short == <<"x", "r1", "r2", "x">>

Improper ==
  { [start |-> 0, end |-> 5, type |-> low], [start |-> 2, end |-> 4, type |-> high],
    [start |-> -1, end |-> 1, type |-> low] }

Overlaps ==
  [text: {Short}, frags: AtMostThree(Proper(Short, AllTypes) \cup Empty(Short, {low, high})),
   format: {"marker", "stars"}] \cup
  [text: {Short}, frags: AtMostTwo(Proper(Short, {low}) \cup Improper), format: {"marker"}]

AllInputs == RoundTrips \cup Overlaps

\* The short text with up to two fragments and up to two other or equal ranges
\* expected; texts with markers in them whose fragments are as expected, one of
\* them a marker again once what is in it is taken out; texts that are refused,
\* one of them empty.
Apart(r, q) == r = q \/ r.end <= q.start \/ q.end <= r.start
AtMostTwoApart(S) == {e \in AtMostTwo(S) : \A r, q \in e : Apart(r, q)}

Spliced == <<"[", "P", "_", "x", "1", "]", "x">>

ExampleTexts == {FlattenSeq(s) : s \in BoundedSeq(Pieces, 3)} \cup {Spliced}

AllExamples ==
  [input: [text: {Short}, frags: AtMostTwo(Proper(Short, {low, high}) \cup Improper), format: {"marker"}],
   expected: AtMostTwoApart(Proper(Short, {low, high}))] \cup
  [input: [text: {<<>>}, frags: {{f} : f \in Improper}, format: {"marker"}], expected: {{}}] \cup
  { [input |-> i, expected |-> i.frags] :
      i \in UNION { [text: {t}, frags: AtMostTwoApart(Proper(t, {low}) \cup Empty(t, {low})), format: {"marker"}] :
                     t \in ExampleTexts } }
=============================================================================
