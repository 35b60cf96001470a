----------------------------- MODULE MCService ------------------------------
(* Instances of Service for TLC. *)
EXTENDS Service, TLC

CONSTANTS k1, c1, c2, c3, t1, t2, m, s, mix, mix1, mix2

ThreeClients == {c1, c2, c3}
OneKey   == {k1}
SameKey  == [c \in ThreeClients |-> k1]
UnitSize == [c \in Clients |-> 1]

\* t1 and t2 differ only in their personal data, so their masks are the same:
\* m with markers, s with stars.  mix is a text with the marker of m in another
\* place, mix1 and mix2 what becomes of it with the values of t1 and t2.
AllTexts == {t1, t2, m, s, mix, mix1, mix2}

Masks ==
  [f \in {"marker", "stars"} |->
     [t \in AllTexts |->
        IF t \in {t1, t2} THEN IF f = "marker" THEN m ELSE s ELSE t]]

Values(own, mixed) == [t \in AllTexts |-> CASE t = m   -> own
                                            [] t = mix -> mixed
                                            [] OTHER   -> t]

Substitutions ==
  [o \in AllTexts |-> CASE o = t1 -> Values(t1, mix1)
                        [] o = t2 -> Values(t2, mix2)
                        [] OTHER  -> [t \in AllTexts |-> t]]

All(op, scope, texts) ==
  [ThreeClients -> {[op |-> op, scope |-> scope, payload |-> t] : t \in texts}]

\* Two requests that mask and one that restores, all of one consumer.
MasksAndRestore(scope, masked, restored) ==
  { (c1 :> [op |-> "mask", scope |-> scope, payload |-> t]) @@
    (c2 :> [op |-> "mask", scope |-> scope, payload |-> u]) @@
    (c3 :> [op |-> "restore", scope |-> scope, payload |-> v]) :
      t \in masked, u \in masked, v \in restored }

\* Consumers with each format, and one for each reason to deny a request.
Rights(enabled, masking, restore, format) ==
  [enabled |-> enabled, maskingEnabled |-> masking,
   canRestore |-> restore, maskFormat |-> format]

Consumers ==
  ("crm"    :> Rights(TRUE, TRUE, TRUE, "marker")) @@
  ("sup"    :> Rights(TRUE, TRUE, TRUE, "stars")) @@
  ("writer" :> Rights(TRUE, TRUE, FALSE, "marker")) @@
  ("reader" :> Rights(TRUE, FALSE, TRUE, "marker")) @@
  ("former" :> Rights(FALSE, TRUE, TRUE, "stars"))

ProcessRequests == All("process", "process", {t1, t2, m})

ManagedRequests ==
  MasksAndRestore("crm", {t1, t2, m, mix}, {t1, m, mix}) \cup
  MasksAndRestore("sup", {t1, t2, s}, {t1, s}) \cup
  UNION { MasksAndRestore(n, {t1}, {t1, m}) : n \in {"writer", "reader", "former", "ghost"} }

EveryWorkload == ProcessRequests \cup ManagedRequests

\* The same text from everybody: nobody conflicts, everybody may have to wait.
SameText == All("process", "process", {t1})

Maskers == Permutations({c1, c2})
=============================================================================
