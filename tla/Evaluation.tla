----------------------------- MODULE Evaluation ------------------------------
(***************************************************************************)
(* How masking is judged (src/internal/eval/eval.go): an example is masked   *)
(* and restored, what was resolved is compared with what is expected of it,  *)
(* and the comparison is reported twice: as the example's errors             *)
(* (evaluateOne) and in the sums of the report (accumulate).                 *)
(*                                                                         *)
(* The ranges of one type are a set: ValidateMarkup lets no two overlap.     *)
(***************************************************************************)
EXTENDS Masking, Totals

CONSTANT Examples   \* [input, expected]

VARIABLES
  expected,   \* Example.Expected, ranges with a type; NoExample of other texts
  result,     \* Result.Errors
  report      \* the Report after this example

evars == <<mvars, expected, result, report>>

\* ValidateMarkup
ValidMarkup(t, ranges, runes) ==
  /\ \A r \in ranges : 0 <= r.start /\ r.start <= r.end /\ r.end <= Len(t)
  /\ \A r \in ranges : r.start < r.end => {r.start, r.end} \subseteq runes
  /\ \A r, q \in ranges : r # q => ~(r.start < q.end /\ q.start < r.end)

ASSUME ExamplesAssumption ==
  \A e \in Examples :
    /\ ProperInput(e.input)
    /\ IsFiniteSet(e.expected) /\ e.expected \subseteq [start: Int, end: Int, type: Types]
    /\ ValidMarkup(e.input.text, e.expected, RuneStarts(e.input.text))

\* A text that only the service masks.
NoExample == {[start |-> -1, end |-> -1, type |-> "none"]}

OfType(ranges, t) == {r \in ranges : r.type = t}
TypesOf(ranges)   == {r.type : r \in ranges}

\* countExactMatches
ExactMatches(want, got) == Cardinality(want \cap got)

Covers(r, i) == r.start <= i /\ i < r.end

\* byteCoverage
Coverage(ranges) == {i \in 0 .. Len(text) - 1 : \E r \in ranges : Covers(r, i)}

\* byteCategory: the highest priority wins; no type twice at one byte here.
Category(ranges, i) ==
  CHOOSE t \in TypesOf({r \in ranges : Covers(r, i)}) :
    \A u \in TypesOf({r \in ranges : Covers(r, i)}) : Priority[u] <= Priority[t]

\* strings.ReplaceAll(t, marker, "")
Without(t, marker) ==
  LET Rest[i \in 1 .. Len(t) + 1] ==
        IF i > Len(t) THEN <<>>
        ELSE IF IsPrefix(marker, SubSeq(t, i, Len(t))) THEN Rest[i + Len(marker)]
        ELSE <<t[i]>> \o Rest[i + 1]
  IN Rest[1]

\* What the pipeline returns: nothing of a text it refuses.
Actual == IF step = "refused" THEN {} ELSE ToSet(resolved)

\* unchangedOK: what is left of the mask without its markers.
UnchangedOK ==
  LET hidden == Coverage(Actual) IN
  FlattenSeq([n \in 1 .. Len(text) |-> IF n - 1 \in hidden THEN <<>> ELSE <<text[n]>>])
    = FoldLeft(LAMBDA t, r : Without(t, r.marker), mask.masked, mask.table)

----------------------------------------------------------------------------
(* The errors of an example *)

ErrorsOf ==
  IF step = "refused" THEN {<<"pipeline">>} ELSE
  LET want(t) == OfType(expected, t)
      got(t)  == OfType(Actual, t)
      found   == Coverage(Actual)
      due     == Coverage(expected) IN
  (IF restored # text THEN {<<"restored">>} ELSE {}) \cup
  (IF UnchangedOK THEN {} ELSE {<<"changed">>}) \cup
  {<<"missing", t>> : t \in {t \in TypesOf(expected) : ExactMatches(want(t), got(t)) < Cardinality(want(t))}} \cup
  {<<"extra", t>> : t \in {t \in TypesOf(Actual) : ExactMatches(want(t), got(t)) < Cardinality(got(t))}} \cup
  {<<"unmasked", i>> : i \in due \ found} \cup
  {<<"over-masked", i>> : i \in found \ due} \cup
  {<<"category", i>> : i \in {i \in due \cap found : Category(expected, i) # Category(Actual, i)}}

----------------------------------------------------------------------------
(* The sums of the report *)

\* The sum over types of the ranges of one side that the other side has not.
Unmatched(these, those, types) ==
  Total(types, [t \in types |-> Cardinality(OfType(these, t))
                                 - ExactMatches(OfType(these, t), OfType(those, t))])

BugFalsePositives == Unmatched(Actual, expected, TypesOf(Actual) \cap TypesOf(expected))
FalsePositives == Unmatched(Actual, expected, TypesOf(Actual))

One(b) == IF b THEN 1 ELSE 0

\* A refused text has an empty mask and an empty restored text.
Accumulated(errors) ==
  LET due == Coverage(expected)  found == Coverage(Actual) IN
  [matched   |-> ExactMatches(expected, Actual),
   missed    |-> Unmatched(expected, Actual, TypesOf(expected)),
   extra     |-> FalsePositives,
   sensitive |-> Cardinality(due),
   covered   |-> Cardinality(due \cap found),
   wrong     |-> Cardinality({i \in due \cap found : Category(expected, i) # Category(Actual, i)}),
   over      |-> Cardinality(found \ due),
   restoreFailures    |-> One(restored # text),
   unchangedFailures  |-> One(~UnchangedOK),
   examplesWithErrors |-> One(errors # {}),
   negativeWithErrors |-> One(expected = {} /\ errors # {})]

NoReport == [matched |-> 0]

Judge ==
  /\ expected # NoExample /\ report = NoReport
  /\ step \in {"restored", "refused"}
  /\ result' = ErrorsOf
  /\ report' = Accumulated(ErrorsOf)
  /\ UNCHANGED <<mvars, expected>>

EvaluationInit ==
  /\ \/ input \in Inputs /\ expected = NoExample
     \/ \E e \in Examples : input = e.input /\ expected = e.expected
  /\ MaskingBegins
  /\ result = {} /\ report = NoReport

EvaluationNext == Judge \/ (MaskingNext /\ UNCHANGED <<expected, result, report>>)

EvaluationSpec == EvaluationInit /\ [][EvaluationNext]_evars

----------------------------------------------------------------------------
(* Properties *)

Judged == report # NoReport

Clean(r) ==
  /\ r.missed = 0 /\ r.extra = 0
  /\ r.restoreFailures = 0 /\ r.unchangedFailures = 0

\* The errors and the sums tell the same story: a report is clean if and only if
\* its examples have no errors, and that an example has none means that exactly
\* its expected ranges were masked, under their types.  Full sums of matches
\* leave no byte of the text to the character-level sums, and a text the
\* pipeline refuses passes only in these sums, and only where there is no byte
\* to restore.
ReportIsHonest ==
  Judged =>
    /\ result = {} => Clean(report)
    /\ Clean(report) => result = {} \/ (step = "refused" /\ text = <<>>)
    /\ result = {} => step = "restored" /\ ToSet(resolved) = expected
    /\ step = "restored" /\ ToSet(resolved) = expected => result \subseteq {<<"changed">>}
    /\ report.matched + report.missed = Cardinality(expected)
    /\ report.matched + report.extra = Cardinality(Actual)
    /\ report.missed = 0 /\ report.extra = 0 /\ step = "restored" =>
         report.covered = report.sensitive /\ report.wrong = 0 /\ report.over = 0
=============================================================================
