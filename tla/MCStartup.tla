------------------------------ MODULE MCStartup ------------------------------
(* Instances of Startup for TLC: valid configurations and everything that can
   be wrong with one, one or two faults at a time. *)
EXTENDS Startup

Secret(k, b) == [key |-> k, blank |-> b]

Consumer(n, k) ==
  [name |-> <<n>>, types |-> <<"email">>, maskFormat |-> "marker",
   secretEnv |-> Secret(k, FALSE), secretFile |-> Unset]

Rule == [type |-> "contract", pattern |-> "good", maxMatches |-> 1]

Varied(c) ==
  {c} \cup
  {[c EXCEPT !.name = n] :
     n \in {<<>>, ConsumerScope, <<"alpha">>, <<"alpha", ":", "x">>}} \cup
  {[c EXCEPT !.types = ts] :
     ts \in {<<>>, <<"">>, <<"contract">>, <<"email", "contract">>, <<"contract", "unknown">>}} \cup
  {[c EXCEPT !.maskFormat = "other"]} \cup
  {[c EXCEPT !.secretEnv = e, !.secretFile = f] :
     e \in {Unset, Empty, Secret("k1", FALSE)},
     f \in {Unset, Empty, Secret("", TRUE), Secret("k1", TRUE)}} \cup
  {[c EXCEPT !.secretEnv = e] : e \in {Secret("", TRUE), Secret("k2", TRUE)}}

VariedRules ==
  {<<>>, <<Rule>>, <<Rule, [Rule EXCEPT !.maxMatches = 2]>>} \cup
  { <<[Rule EXCEPT !.type = t]>> : t \in {"", "email"} } \cup
  { <<[Rule EXCEPT !.pattern = p]>> : p \in {"empty", "broken"} } \cup
  { <<Rule, [Rule EXCEPT !.maxMatches = 0]>> }

Read(cs, rs) == [state |-> "read", consumers |-> cs, rules |-> rs]

Files ==
  [state: {"none", "unreadable"}, consumers: {<<>>}, rules: {<<>>}] \cup
  { Read(<<c>>, rs) : c \in Varied(Consumer("alpha", "k1")), rs \in VariedRules } \cup
  { Read(<<Consumer("alpha", "k1"), c>>, <<Rule>>) : c \in Varied(Consumer("beta", "k2")) }

Settings == [Numbers -> {"unset", "malformed", "not positive", "positive"}]
Sound    == [n \in Numbers |-> "unset"]

AllEnvironments ==
  [settings: {Sound}, file: Files] \cup
  [settings: Settings, file: {Read(<<Consumer("alpha", "k1")>>, <<>>)}]

IDs == {<<"x">>, <<"x", ":", "x">>}
=============================================================================
