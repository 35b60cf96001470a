------------------------------- MODULE LoadTest -------------------------------
(***************************************************************************)
(* A run of the load test (src/cmd/loadtest/main.go): one driver, one        *)
(* scenario.  The scheduled mode drives maskDominant; the closed loop drives *)
(* any scenario, the compatibility check sequential.                        *)
(***************************************************************************)
EXTENDS Runner, Scheduler

VARIABLE returned    \* what Run returned, "no" while it runs

loadVars == <<scenarioVars, runVars, scheduleVars, returned>>

Driver(d) == config.driver = d

\* runMain and runScheduled: what the command line lets a run be.
Configuration(c) ==
  /\ c.driver \in {"runner", "scheduler"}
  /\ c.mode \in {"sequential", "mask_dominant", "restore_dominant"}
  /\ c.driver = "scheduler" => c.mode = "mask_dominant"
  /\ c.delayed \in BOOLEAN /\ c.budget \in Int
  /\ {c.total, c.prepared, c.workers} \subseteq Nat

ASSUME ConfigAssumption ==
  /\ \A c \in Configs : Configuration(c) /\ 1 .. c.workers \subseteq Workers
  /\ Workers \subseteq Int /\ IsFiniteSet(Workers)
  /\ Producer \in Callers \ Workers

LoadInit ==
  /\ ScenarioInit /\ PacerInit /\ RunInit
  /\ pc = [w \in Workers |-> IF w > config.workers THEN "done"
                             ELSE IF Driver("runner") THEN "slot" ELSE "take"]
  /\ SchedulerInit(Driver("scheduler"))
  /\ returned = "no"

Worker(w) ==
  \/ Driver("runner") /\ RunnerWorker(w) /\ UNCHANGED scheduleVars
  \/ Driver("scheduler") /\ SchedulerWorker(w)

\* Run waits for its goroutines and tells why they ended.
Returns ==
  /\ returned = "no"
  /\ IF Driver("runner") THEN RunnerIsOver ELSE SchedulerIsOver
  /\ returned' = RunnerReason
  /\ UNCHANGED <<scenarioVars, runVars, scheduleVars>>

Finished == returned # "no" /\ UNCHANGED loadVars

LoadStep ==
  \/ \E w \in Workers : Worker(w) /\ UNCHANGED returned
  \/ Produces /\ UNCHANGED returned
  \/ (Environment \/ (DelayEnds /\ UNCHANGED runVars)) /\ UNCHANGED <<scheduleVars, returned>>
  \/ Returns

LoadNext == (returned = "no" /\ LoadStep) \/ Finished

LoadSpec == LoadInit /\ [][LoadNext]_loadVars

\* Every goroutine goes on, an attempt is answered within the client's
\* timeout, ticks and delays pass.  Only the end of the context is left open.
LoadFairness ==
  /\ \A w \in Workers : WF_loadVars(returned = "no" /\ Worker(w) /\ UNCHANGED returned)
  /\ WF_loadVars(returned = "no" /\ Produces /\ UNCHANGED returned)
  /\ WF_loadVars(returned = "no" /\ PacerStep /\ UNCHANGED <<scenarioVars, scheduleVars, returned>>)
  /\ WF_loadVars(returned = "no" /\ DelayEnds /\ UNCHANGED <<runVars, scheduleVars, returned>>)
  /\ WF_loadVars(Returns)

FairLoadSpec == LoadSpec /\ LoadFairness

----------------------------------------------------------------------------
(* Properties *)

InOperation(w) == pc[w] \in {"send", "backoff", "pay", "finish", "check"}
Holds(w, st) == step[w] = st /\ pc[w] \in {"send", "backoff", "pay", "finish"}

\* 0 stands in the step of an idle worker, also where there are no pairs.
Steps == [pair : DOMAIN restored \cup {0}, isMask : BOOLEAN]

\* Every variable stays in its range: queues within their limits, the accrual
\* below one slot after a round, and no more invalid answers counted than the
\* threshold and the workers that were still at work.
LoadTypes ==
  /\ config \in Configs /\ nextPair \in 0 .. Total
  /\ pending \in Seq(Pairs) /\ inFlight \subseteq Pairs /\ delays \in Seq(Pairs)
  /\ data \in [Pairs -> {"none", "text", "mask"}]
  /\ retries \in [Pairs -> 0 .. RestoreBudget]
  /\ budgets \in Seq(Int) /\ signalled \subseteq asleep /\ asleep \subseteq Callers
  /\ timer \in [Callers -> Pairs \cup {NoTimer}]
  /\ ctx \in {"open", "deadline", "canceled"} /\ {hard, stopped, producing} \subseteq BOOLEAN
  /\ pc \in [Workers -> {"slot", "next", "take", "send", "backoff", "pay", "finish", "check", "done"}]
  /\ \A w \in Workers : step[w] \in Steps /\ attempts[w] \in 0 .. MaxAttempts
  /\ \A w \in Workers : taken[w] \in 0 .. MaxAttempts
  /\ resp \in [Workers -> Answers \cup BrokenBodies \cup {Canceled, RunEnded}]
  /\ invalid \in 0 .. (MaxInvalid + Cardinality(Workers) - 1)
  /\ slots \in 0 .. SlotQueue /\ due \in 0 .. (Unit - 1) /\ emitting \in 0 .. MaxBurst
  /\ queue \in Seq(Steps) /\ Len(queue) <= QueueSize /\ skipped \subseteq Steps

\* Where a pair of the two scenarios that create their pairs is: with a worker,
\* on the schedule, dropped from it, or waiting for its restore.
Places(p) ==
  Cardinality({w \in Workers : \E st \in {MaskStep(p), RestoreStep(p)} : Holds(w, st)})
    + Cardinality({i \in DOMAIN queue : queue[i].pair = p})
    + Cardinality({st \in skipped : st.pair = p})
    + Cardinality({i \in DOMAIN pending : pending[i] = p /\ p \notin inFlight})

\* A pair is in one place at a time, so no two workers ever have it; what is
\* kept of a pair is kept only while it is somewhere, and a restore counts as
\* in flight only as long as its step was not completed.
PairsAccounted ==
  config.mode # "restore_dominant" =>
    \A p \in Pairs :
      /\ Places(p) <= 1
      /\ data[p] # "none" => Places(p) = 1
      /\ p \in inFlight <=> \/ \E w \in Workers : Holds(w, RestoreStep(p))
                            \/ RestoreStep(p) \in ToSet(queue) \cup skipped

\* Every request of an operation, retries too, has a pacer slot of its own.
SendsArePaced ==
  \A w \in Workers :
    InOperation(w) => attempts[w] + (IF At(w, "send") THEN 1 ELSE 0) <= taken[w]

\* No pair is restored twice, and a prepared one only within its budget.
RestoredOnce ==
  \A p \in DOMAIN restored :
    restored[p] <= IF p \in Pairs THEN 1 ELSE IF config.budget > 0 THEN config.budget ELSE 0

\* When the closed loop reports exhaustion, no pair was left behind by the
\* workers that saw the end before others had finished.  (Run without a worker
\* reports it at once.)
ExhaustedMeansDone ==
  returned = "exhausted" /\ Driver("runner") /\ config.workers > 0 =>
    /\ nextPair = Total /\ pending = <<>>
    /\ \A p \in Pairs : data[p] = "none"

\* A run whose context ends returns, and so does the closed loop without
\* restore delays whatever its context does: no worker sleeps through the
\* change it waits for.
RunReturns ==
  (ctx # "open" \/ (Driver("runner") /\ ~config.delayed)) ~> (returned # "no")

\* A pair whose restore delay is over is not left waiting by a sleeping caller.
SleepersAreWoken ==
  \A w \in Callers :
    (w \in asleep /\ \E p \in ToSet(pending) \ inFlight : Ready(p)) ~> (w \notin asleep)

\* Once the compatibility check has stopped the run, no worker takes a slot
\* for another step.
StopsTogether ==
  [][stopped => \A w \in Workers : At(w, "slot") => pc'[w] # "next"]_loadVars
=============================================================================
