------------------------------ MODULE Scheduler ------------------------------
(***************************************************************************)
(* The open-loop driver (src/internal/loadgen/scheduler.go): a producer      *)
(* places steps on a bounded queue, whether or not the workers keep up.      *)
(***************************************************************************)
EXTENDS LoadRun

CONSTANTS
  Producer,    \* the goroutine of Run, which calls produce
  QueueSize    \* SchedulerConfig.Queue

VARIABLES
  queue,       \* steps on the schedule
  producing,   \* produce has not returned; then the queue is closed
  skipped      \* steps dropped because the queue was full

scheduleVars == <<queue, producing, skipped>>

ASSUME QueueAssumption == QueueSize \in Nat \ {0}

\* A due step is queued, or dropped when the queue is full: then nobody
\* completes it.
Produces ==
  /\ producing
  /\ \/ \E st \in Candidates :
          /\ Gives(Producer, st)
          /\ IF Len(queue) < QueueSize
             THEN queue' = Append(queue, st) /\ UNCHANGED skipped
             ELSE skipped' = skipped \cup {st} /\ UNCHANGED queue
          /\ UNCHANGED producing
     \/ Waits(Producer) /\ UNCHANGED scheduleVars
     \/ Ends(Producer) /\ producing' = FALSE /\ UNCHANGED <<queue, skipped>>
     \/ /\ ctx # "open"
        /\ GivesUp(Producer) \/ (Producer \notin asleep /\ UNCHANGED scenarioVars)
        /\ producing' = FALSE /\ UNCHANGED <<queue, skipped>>
  /\ UNCHANGED runVars

\* A worker takes the next queued step, or leaves a closed and empty queue.
TakesStep(w) ==
  /\ At(w, "take")
  /\ \/ /\ queue # <<>> /\ queue' = Tail(queue)
        /\ Begins(w, Head(queue), "pay")
     \/ /\ ctx # "open" \/ (queue = <<>> /\ ~producing)
        /\ Goes(w, "done") /\ UNCHANGED <<queue, step>>
  /\ UNCHANGED <<producing, skipped, scenarioVars, ctx, hard, attempts, taken, resp, invalid,
                 stopped, restored, pacerVars>>

\* Every attempt, the first too, pays with a slot of the shared pacer.
SendWithRetry(w) == Attempt(w) /\ UNCHANGED scheduleVars
Records(w) == Finish(w) /\ UNCHANGED scheduleVars
CompatibilityCheck(w) == CheckStop(w, "take") /\ UNCHANGED scheduleVars

SchedulerWorker(w) ==
  TakesStep(w) \/ SendWithRetry(w) \/ Records(w) \/ CompatibilityCheck(w)

SchedulerInit(runs) == queue = <<>> /\ producing = runs /\ skipped = {}

SchedulerIsOver == ~producing /\ \A w \in Workers : At(w, "done")
=============================================================================
