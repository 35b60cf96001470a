------------------------------ MODULE Masking -------------------------------
(***************************************************************************)
(* How a text becomes a mask and a mask a text again: Service.mask and      *)
(* Service.maskFor (src/internal/app/app.go) over the recognizers' findings, *)
(* the resolution of overlaps (Resolver) and the masker (Masker).           *)
(*                                                                         *)
(* The recognizers are not modelled: an input holds what they found in its  *)
(* text.  A continuation byte of a rune is the byte "r2".                   *)
(***************************************************************************)
EXTENDS Masker, Resolver

CONSTANT Inputs   \* [text, frags, format]: what masking may be asked for

\* Where a rune begins or the text ends.
RuneStarts(t) == {i \in 0 .. Len(t) : i = Len(t) \/ t[i + 1] # "r2"}

\* Valid UTF-8: every rune is whole.
WholeRunes(t) ==
  \A i \in 1 .. Len(t) :
    /\ t[i] = "r1" => i < Len(t) /\ t[i + 1] = "r2"
    /\ t[i] = "r2" => i > 1 /\ t[i - 1] = "r1"

\* A recognizer may report any range, also an empty match of a configured
\* pattern; a Go regexp matches at the beginnings of runes only.
ProperInput(i) ==
  /\ i.text \in Seq(STRING) /\ WholeRunes(i.text)
  /\ IsFiniteSet(i.frags) /\ i.frags \subseteq [start: Int, end: Int, type: Types]
  /\ \A f \in i.frags :
       f.start = f.end /\ f.start \in 0 .. Len(i.text) => f.start \in RuneStarts(i.text)
  /\ i.format \in {"marker", "stars"}

\* The bodies of requests and the examples are decoded from JSON.
ASSUME InputsAssumption == \A i \in Inputs : ProperInput(i)

VARIABLES
  input,      \* the text, what the recognizers found in it, the format
  step,       \* how far masking is
  resolved,   \* the resolved fragments
  mask,       \* [masked, table]
  restored    \* what Restore makes of the mask

mvars == <<input, step, resolved, mask, restored>>

text  == input.text
frags == input.frags

BugFailsOn(f) == f.start < 0 \/ f.end > Len(text) \/ f.start > f.end
FailsOn(f) == Invalid(f, Len(text), RuneStarts(text))

----------------------------------------------------------------------------
(* Steps *)

\* One invalid fragment refuses the text as a whole.
Refuse ==
  /\ step = "found"
  /\ \E f \in frags : FailsOn(f)
  /\ step' = "refused"
  /\ UNCHANGED <<input, resolved, mask, restored>>

Resolve ==
  /\ step = "found"
  /\ \A f \in frags : ~FailsOn(f)
  /\ resolved' = Resolved(frags)
  /\ step' = "resolved"
  /\ UNCHANGED <<input, mask, restored>>

Ranges == {[start |-> f.start, end |-> f.end] : f \in ToSet(resolved)}

MaskText ==
  /\ step = "resolved"
  /\ mask' = IF input.format = "stars" THEN Stars(text, Ranges) ELSE Mask(text, Ranges)
  /\ step' = "masked"
  /\ UNCHANGED <<input, resolved, restored>>

\* Substitution is for the marker format only.
RestoreText ==
  /\ step = "masked" /\ input.format = "marker"
  /\ restored' = Restore(mask.masked, mask.table)
  /\ step' = "restored"
  /\ UNCHANGED <<input, resolved, mask>>

----------------------------------------------------------------------------
(* Specification *)

MaskingBegins ==
  /\ step = "found"
  /\ resolved = <<>>
  /\ mask = [masked |-> <<>>, table |-> <<>>]
  /\ restored = <<>>

MaskingInit == input \in Inputs /\ MaskingBegins

MaskingNext == Refuse \/ Resolve \/ MaskText \/ RestoreText

MaskingSpec == MaskingInit /\ [][MaskingNext]_mvars

----------------------------------------------------------------------------
(* Properties *)

Masked == step \in {"masked", "restored"}

\* The places of a text: 2 * i is the gap before its byte at offset i and
\* 2 * i + 1 that byte.  A range hides its bytes and the gaps around them.
Hides(r, h) == 2 * r.start <= h /\ h <= 2 * r.end

Sensitive == {h \in 0 .. 2 * Len(text) : \E f \in frags : Hides(f, h)}

\* The mask, said without ranges, orders or scans: every sensitive byte is gone,
\* a run of sensitive places is one marker, and every other byte is where it
\* was.  No byte of a lower-priority or nested fragment is left open.
MasksExactly ==
  Masked =>
    LET hidden == Sensitive
        starts == {h \in hidden : h - 1 \notin hidden}
        markerAt(h) == mask.table[Cardinality({g \in starts : g <= h})].marker
    IN  /\ Len(mask.table) = Cardinality(starts)
        /\ mask.masked =
             FlattenSeq([n \in 1 .. 2 * Len(text) + 1 |->
               IF n - 1 \in starts THEN markerAt(n - 1)
               ELSE IF n - 1 \in hidden \/ n % 2 = 1 THEN <<>>
               ELSE <<text[n \div 2]>>])

\* Masking loses nothing: the mask and its table give the text back, whatever
\* looks like a marker in the text or in the masked values.
RestoresText == step = "restored" => restored = text

\* An invalid fragment is never masked around: no partly masked text leaves, and
\* a mask cuts no rune in two.
FailsClosed ==
  Masked =>
    /\ \A f \in frags : 0 <= f.start /\ f.end <= Len(text)
    /\ WholeRunes(mask.masked)

\* A fragment inside another one, or equal to one that precedes it.
Nested(f) ==
  \E g \in frags \ {f} :
    /\ g.start <= f.start /\ f.end <= g.end
    /\ g.start = f.start /\ g.end = f.end => Precedes(g, f)

\* The fragments a resolved range unites.
United(r) ==
  {f \in frags : ~Nested(f) /\ r.start <= f.start /\ f.start < r.end /\ f.end <= r.end}

\* Each resolved range has the type of the highest priority among the fragments
\* it unites: a chain of overlaps loses no type on the way, in whatever order
\* the recognizers found them.  An empty range is a fragment as it was found.
HighestTypeWins ==
  step # "found" =>
    \A r \in ToSet(resolved) :
      \/ r.start = r.end /\ r \in frags
      \/ /\ \E f \in United(r) : f.type = r.type
         /\ \A f \in United(r) : Priority[f.type] <= Priority[r.type]
=============================================================================
