------------------------------- MODULE Masker -------------------------------
(***************************************************************************)
(* The masker (src/internal/masker/masker.go): Mask, Stars and Restore on   *)
(* texts of any bytes.                                                     *)
(*                                                                         *)
(* A text is a sequence of bytes, each a string of one character.  A range *)
(* is [start, end) with offsets from 0, as in the code.  The order of a map *)
(* never matters here, so the replacement table is the sequence the code    *)
(* builds.                                                                 *)
(***************************************************************************)
EXTENDS Sorting, Sequences, SequencesExt

CONSTANT Prefix   \* Masker.prefix, a text

\* All that the configuration asks for.
ASSUME PrefixAssumption == Prefix \in Seq(STRING) /\ Prefix # <<>>

\* The shipped prefix, PII, is plain.  Restore takes the first closing bracket for
\* the end of a marker, and the scan for used numbers goes on behind the opening
\* it has seen: what is said of a marker's number holds of a plain prefix.
PlainPrefix == {"[", "]"} \cap ToSet(Prefix) = {}

Digit == <<"0", "1", "2", "3", "4", "5", "6", "7", "8", "9">>

IsDigit(b) == \E d \in 1 .. 10 : Digit[d] = b

\* text[from:to]
Slice(text, from, to) == SubSeq(text, from + 1, to)

Open == <<"[">> \o Prefix \o <<"_">>

\* %d of every number up to n
Decimals(n) ==
  LET decimal[k \in 0 .. n] ==
        IF k < 10 THEN <<Digit[k + 1]>> ELSE decimal[k \div 10] \o <<Digit[(k % 10) + 1]>>
  IN decimal

Decimal(n) == Decimals(n)[n]

Marker(n) == Open \o Decimal(n) \o <<"]">>

StarRun == <<"*", "*", "*", "*">>

----------------------------------------------------------------------------
(* Ranges *)

Before(r, q) == r.start < q.start \/ (r.start = q.start /\ r.end < q.end)

Merge(merged, r) ==
  IF merged = <<>> \/ r.start > Last(merged).end THEN Append(merged, r)
  ELSE IF r.end > Last(merged).end
       THEN [merged EXCEPT ![Len(merged)].end = r.end]
       ELSE merged

\* What is merged of the first ranges in order.
Mergings(s) ==
  LET merged[n \in 0 .. Len(s)] == IF n = 0 THEN <<>> ELSE Merge(merged[n - 1], s[n])
  IN merged

\* mergeRanges: equal ranges merge, so a set is as good as a slice.
MergeRanges(ranges) ==
  LET s == SortedBy(ranges, Before) IN Mergings(s)[Len(s)]

----------------------------------------------------------------------------
(* Masking *)

\* Where the run of digits that begins at offset i ends.
DigitsEnd(text, i) ==
  CHOOSE j \in i .. Len(text) :
    /\ \A x \in i .. j - 1 : IsDigit(text[x + 1])
    /\ j < Len(text) => ~IsDigit(text[j + 1])

DigitValue(b) == CHOOSE d \in 0 .. 9 : Digit[d + 1] = b

\* strconv.Atoi of the first digits.  A number beyond the machine integers, which
\* the code leaves out, is larger than any number that is handed out.
Values(digits) ==
  LET value[n \in 0 .. Len(digits)] ==
        IF n = 0 THEN 0 ELSE 10 * value[n - 1] + DigitValue(digits[n])
  IN value

NumberOf(digits) == Values(digits)[Len(digits)]

BugUsedMarkers(text) == {}

OpenAt(text, i) == Slice(text, i, i + Len(Open)) = Open

\* The number between an opening and the closing bracket behind its digits.
Between(text, from, to) ==
  IF from < to /\ to < Len(text) /\ text[to + 1] = "]"
  THEN {NumberOf(Slice(text, from, to))} ELSE {}

\* The marker numbers at or behind each offset, found in one scan to the right.
Scans(text) ==
  LET scan[i \in 0 .. Len(text)] ==
        LET found == {x \in i .. Len(text) - Len(Open) : OpenAt(text, x)}
            from  == Min(found) + Len(Open)
            to    == DigitsEnd(text, from)
        IN  IF found = {} THEN {} ELSE scan[to] \cup Between(text, from, to)
  IN scan

UsedMarkers(text) == Scans(text)[0]

\* nextMarker: at most as many numbers are skipped as are used.
NextNumber(used, start) == Min((start .. start + Cardinality(used)) \ used)

\* The numbers of the first markers.
Numbers(used, count) ==
  LET number[n \in 0 .. count] ==
        IF n = 0 THEN -1 ELSE NextNumber(used, number[n - 1] + 1)
  IN number

\* The masked text so far, its table, and where the rest of the text begins.
Replace(text, marker, done, r) ==
  [masked |-> done.masked \o Slice(text, done.last, r.start) \o marker,
   table  |-> Append(done.table, [marker |-> marker, start |-> r.start, end |-> r.end,
                                  original |-> Slice(text, r.start, r.end)]),
   last   |-> r.end]

Nothing == [masked |-> <<>>, table |-> <<>>, last |-> 0]

\* What the first ranges are replaced with.
Replacements(text, markers, merged) ==
  LET done[n \in 0 .. Len(merged)] ==
        IF n = 0 THEN Nothing ELSE Replace(text, markers[n], done[n - 1], merged[n])
  IN done

Replaced(text, markers, merged) ==
  LET done == Replacements(text, markers, merged)[Len(merged)] IN
  [masked |-> done.masked \o Slice(text, done.last, Len(text)), table |-> done.table]

\* Mask
Markers(text, merged) ==
  [n \in 1 .. Len(merged) |-> Marker(Numbers(UsedMarkers(text), Len(merged))[n])]

Mask(text, ranges) ==
  LET merged == MergeRanges(ranges) IN Replaced(text, Markers(text, merged), merged)

\* Stars
Stars(text, ranges) ==
  LET merged == MergeRanges(ranges) IN
  Replaced(text, [n \in 1 .. Len(merged) |-> StarRun], merged)

----------------------------------------------------------------------------
(* Restoring *)

Closing(masked, i) == {j \in i .. Len(masked) : masked[j] = "]"}

\* What may be a marker at i: up to the first closing bracket.
MarkerAt(masked, i) ==
  IF masked[i] = "[" /\ Closing(masked, i) # {}
  THEN SubSeq(masked, i, Min(Closing(masked, i))) ELSE <<>>

Entries(table, marker) == {i \in DOMAIN table : table[i].marker = marker}

\* What each rest of the mask stands for; what is inserted is not looked at again.
Rests(masked, table) ==
  LET rest[i \in 1 .. Len(masked) + 1] ==
        IF i > Len(masked) THEN <<>>
        ELSE LET found == Entries(table, MarkerAt(masked, i)) IN
             IF found # {} THEN table[Min(found)].original \o rest[i + Len(MarkerAt(masked, i))]
             ELSE <<masked[i]>> \o rest[i + 1]
  IN rest

\* Restore, in one pass
Restore(masked, table) ==
  IF table = <<>> THEN masked ELSE Rests(masked, table)[1]
=============================================================================
