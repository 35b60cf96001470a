--------------------------- MODULE MCMemoryStore ----------------------------
(* Instances of MemoryStore for TLC. *)
EXTENDS MemoryStore, TLC

CONSTANTS k1, k2, k3, c1, c2, c3

ThreeClients == {c1, c2, c3}

\* Three requests for the same key.
OneKey == {k1}
SameKey == [c \in ThreeClients |-> k1]
EqualSizes == [c \in ThreeClients |-> 1]

\* Two requests race for one key, a larger one works on another.
TwoKeys == {k1, k2}
RaceForOneKey == (c1 :> k1) @@ (c2 :> k1) @@ (c3 :> k2)
UnequalSizes == (c1 :> 1) @@ (c2 :> 1) @@ (c3 :> 2)

\* Each request has a key of its own and competes for the budget only.
ThreeKeys == {k1, k2, k3}
OwnKeys == (c1 :> k1) @@ (c2 :> k2) @@ (c3 :> k3)

\* Clients with equal sizes and the same key are interchangeable.
Racers == Permutations({c1, c2})
AllClients == Permutations(ThreeClients)
=============================================================================
