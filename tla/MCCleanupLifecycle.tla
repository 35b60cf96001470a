------------------------- MODULE MCCleanupLifecycle -------------------------
(* Instances of CleanupLifecycle for TLC. *)
EXTENDS CleanupLifecycle

CONSTANTS c1, c2, c3

Three == {c1, c2, c3}

\* One caller restarts while others find nothing to do or start as well, and one
\* cleanup that several callers stop, some more than once.  No program lets a
\* start run beside a Stop that has not returned.
Orderly ==
  { [c \in Three |-> CASE c = c1 -> <<"start", "start", "stop", "stop", "start", "stop", "start">>
                       [] OTHER  -> <<>>],
    [c \in Three |-> CASE c = c1 -> <<"start">>
                       [] c = c2 -> <<"stop", "stop">>
                       [] OTHER  -> <<"stop">>] }
=============================================================================
