-------------------------- MODULE CleanupLifecycle ---------------------------
(***************************************************************************)
(* The life cycle of the store's background cleanup: StartCleanup, Stop and *)
(* cleanupLoop (src/internal/store/store.go).  What a pass of the cleanup   *)
(* does to the records is CleanupDrain of module MemoryStore; here a pass   *)
(* only begins and ends.                                                   *)
(*                                                                         *)
(* Every start makes a new pair of channels, stopCh and doneCh, and a new   *)
(* goroutine; the pair and the goroutine of the g-th start are called g.    *)
(* The goroutine reads the fields s.doneCh and s.stopCh without the mutex,  *)
(* so when a later start writes them meanwhile it may find any pair from    *)
(* its own to the newest.                                                  *)
(***************************************************************************)
EXTENDS Integers, Sequences, FiniteSets

CONSTANTS
  Callers,    \* goroutines that call StartCleanup and Stop
  Programs    \* assignments of a sequence of "start" and "stop" to each caller

ASSUME LifecycleAssumption ==
  /\ IsFiniteSet(Callers)
  /\ Programs \subseteq [Callers -> Seq({"start", "stop"})]

VARIABLES
  calls,       \* the calls each caller has still to make
  awaited,     \* the pair a caller in Stop waits on, 0 outside Stop
  started,     \* s.started
  newest,      \* the pair s.stopCh and s.doneCh hold, 0 before the first start
  stopped,     \* pairs whose stopCh is closed
  done,        \* pairs whose doneCh is closed
  loops,       \* the goroutines started: where each is and which pairs it read
  panicked     \* a closed channel was closed again: the program is gone

lvars == <<calls, awaited, started, newest, stopped, done, loops, panicked>>

Pairs == 1 .. newest

----------------------------------------------------------------------------
(* The callers *)

InCall(c, op) ==
  /\ ~panicked
  /\ awaited[c] = 0
  /\ calls[c] # <<>> /\ Head(calls[c]) = op

Returns(c) == calls' = [calls EXCEPT ![c] = Tail(@)]

\* The goroutine of a start, before it runs.
Fresh == [pc |-> "spawned", stopCh |-> 0, doneCh |-> 0]

BugStartsAgain(c) ==
  /\ InCall(c, "start") /\ started
  /\ newest' = newest + 1
  /\ loops' = Append(loops, Fresh)
  /\ Returns(c)
  /\ UNCHANGED <<awaited, started, stopped, done, panicked>>

\* StartCleanup when the cleanup runs: nothing.
StartedAlready(c) ==
  /\ InCall(c, "start") /\ started
  /\ Returns(c)
  /\ UNCHANGED <<awaited, started, newest, stopped, done, loops, panicked>>

Start(c) ==
  /\ InCall(c, "start") /\ ~started
  /\ started' = TRUE
  /\ newest' = newest + 1
  /\ loops' = Append(loops, Fresh)
  /\ Returns(c)
  /\ UNCHANGED <<awaited, stopped, done, panicked>>

\* Stop when the cleanup does not run, or another Stop took it: nothing, not
\* even a wait.
StoppedAlready(c) ==
  /\ InCall(c, "stop") /\ ~started
  /\ Returns(c)
  /\ UNCHANGED <<awaited, started, newest, stopped, done, loops, panicked>>

\* Stop under the mutex: the channel is closed and doneCh captured.
StopLoop(c) ==
  /\ InCall(c, "stop") /\ started
  /\ started' = FALSE
  /\ panicked' = (newest \in stopped)
  /\ stopped' = stopped \cup {newest}
  /\ awaited' = [awaited EXCEPT ![c] = newest]
  /\ UNCHANGED <<calls, newest, done, loops>>

BugAwait(c) ==
  /\ ~panicked /\ awaited[c] # 0
  /\ awaited[c] \in stopped
  /\ awaited' = [awaited EXCEPT ![c] = 0]
  /\ Returns(c)
  /\ UNCHANGED <<started, newest, stopped, done, loops, panicked>>

\* <-done
Await(c) ==
  /\ ~panicked /\ awaited[c] # 0
  /\ awaited[c] \in done
  /\ awaited' = [awaited EXCEPT ![c] = 0]
  /\ Returns(c)
  /\ UNCHANGED <<started, newest, stopped, done, loops, panicked>>

Call(c) == StartedAlready(c) \/ Start(c) \/ StoppedAlready(c) \/ StopLoop(c) \/ Await(c)

----------------------------------------------------------------------------
(* The goroutines *)

At(g, where) == ~panicked /\ loops[g].pc = where

Keeps == UNCHANGED <<calls, awaited, started, newest, stopped>>

\* defer close(s.doneCh): the field is read when the goroutine first runs.
LoopBegins(g) ==
  /\ At(g, "spawned")
  /\ \E p \in g .. newest : loops' = [loops EXCEPT ![g].pc = "loop", ![g].doneCh = p]
  /\ Keeps /\ UNCHANGED <<done, panicked>>

\* The operands of the select are read anew in every round.
LoopSelects(g) ==
  /\ At(g, "loop")
  /\ \E p \in g .. newest : loops' = [loops EXCEPT ![g].pc = "select", ![g].stopCh = p]
  /\ Keeps /\ UNCHANGED <<done, panicked>>

Tick(g) ==
  /\ At(g, "select")
  /\ loops' = [loops EXCEPT ![g].pc = "drain"]
  /\ Keeps /\ UNCHANGED <<done, panicked>>

DrainEnds(g) ==
  /\ At(g, "drain")
  /\ loops' = [loops EXCEPT ![g].pc = "loop"]
  /\ Keeps /\ UNCHANGED <<done, panicked>>

BugLoopStops(g) ==
  /\ At(g, "select") /\ loops[g].stopCh \in stopped
  /\ loops' = [loops EXCEPT ![g].pc = "ended"]
  /\ Keeps /\ UNCHANGED <<done, panicked>>

\* The channel it selects on is closed: it returns and the deferred close runs.
LoopStops(g) ==
  /\ At(g, "select") /\ loops[g].stopCh \in stopped
  /\ loops' = [loops EXCEPT ![g].pc = "ended"]
  /\ panicked' = (loops[g].doneCh \in done)
  /\ done' = done \cup {loops[g].doneCh}
  /\ Keeps

LoopStep(g) == LoopBegins(g) \/ LoopSelects(g) \/ DrainEnds(g)

----------------------------------------------------------------------------
(* Specification *)

LifecycleInit ==
  /\ calls \in Programs
  /\ awaited = [c \in Callers |-> 0]
  /\ started = FALSE
  /\ newest = 0
  /\ stopped = {}
  /\ done = {}
  /\ loops = <<>>
  /\ panicked = FALSE

LifecycleNext ==
  \/ \E c \in Callers : Call(c)
  \/ \E g \in Pairs : LoopStep(g) \/ Tick(g) \/ LoopStops(g)

LifecycleSpec == LifecycleInit /\ [][LifecycleNext]_lvars

\* As many pairs as the programs have starts.
MostStarts == 3

\* Goroutines that can run are run.  A tick may find the stop channel closed as
\* well; select chooses between ready cases at random, so a goroutine that finds
\* it closed again and again returns in the end.  The next calls of a caller are
\* its own choice; a Stop that was entered goes on.
FairLifecycleSpec ==
  /\ LifecycleSpec
  /\ \A c \in Callers : WF_lvars(Await(c))
  /\ \A g \in 1 .. MostStarts :
       /\ WF_lvars(g \in Pairs /\ LoopStep(g))
       /\ SF_lvars(g \in Pairs /\ LoopStops(g))

----------------------------------------------------------------------------
(* Properties *)

\* One goroutine cleans: a start while the cleanup runs, or after a Stop that
\* waited, never leaves two of them; and no channel is closed twice, so starts
\* and stops are "safe to call repeatedly".
Alive == {g \in Pairs : loops[g].pc # "ended"}
OneCleaner == ~panicked /\ Cardinality(Alive) <= 1

\* A Stop that closed the channel returns only when its goroutine is gone, so
\* no pass of the cleanup touches the store behind it.
StopWaits ==
  [][\A c \in Callers :
       awaited[c] # 0 /\ awaited'[c] = 0 => loops[awaited[c]].pc = "ended"]_lvars

\* A call of Stop returns.
StopReturns == \A c \in Callers : awaited[c] # 0 ~> awaited[c] = 0
=============================================================================
