------------------------------- MODULE LoadRun -------------------------------
(***************************************************************************)
(* What the two drivers of the load generator share: the classified answers *)
(* of one request (client.go), the slots of the pacer (pacer.go), and the   *)
(* course of one operation with its retries, its record and the             *)
(* compatibility check, which runner.go and scheduler.go each write out.    *)
(*                                                                         *)
(* A worker is at pc[w] of its operation; the answer of an attempt is a     *)
(* member of Answers until the requests in flight are cancelled.  Latencies *)
(* and the counters that are only reported are left out.                    *)
(***************************************************************************)
EXTENDS Scenario

CONSTANTS
  Workers,      \* the concurrent connections
  MaxAttempts,  \* RetryPolicy.MaxAttempts
  MaxInvalid,   \* MaxConsecutiveInvalid
  SlotQueue,    \* PacerConfig.Queue
  MaxBurst,     \* PacerConfig.MaxBurst
  Unit,         \* the accrual that is worth one slot
  Accruals,     \* what a tick of the pacer may accrue
  Answers,      \* the answers of the service and the transport in this instance
  Endings       \* how the run context may end

VARIABLES
  ctx,        \* the run context: "open", past its "deadline", or "canceled"
  hard,       \* hardCtx is cancelled
  pc,         \* where each worker is
  step,       \* the step of its operation
  attempts,   \* the requests it has sent for it
  taken,      \* the slots it has consumed for it
  resp,       \* the last answer
  invalid,    \* consecutiveInvalid
  stopped,    \* stopReason is set
  restored,   \* restores recorded as successful, per pair
  slots,      \* filled places of slotCh
  due,        \* the pacer's accrual
  emitting    \* slots the pacer has still to emit in its round

operation == <<pc, step, attempts, taken, resp>>
pacerVars == <<slots, due, emitting>>
runVars == <<ctx, hard, operation, invalid, stopped, restored, pacerVars>>

----------------------------------------------------------------------------
(* client.go *)

Answer(status, outcome) == [status |-> status, outcome |-> outcome, right |-> FALSE]

\* Whether the text of a 200 is what the step hopes for is the service's choice.
HttpAnswers ==
  {[status |-> 200, outcome |-> "ok", right |-> r] : r \in BOOLEAN}
    \cup {Answer(200, "invalid"), Answer(400, "invalid"), Answer(409, "conflict"),
          Answer(429, "overload"), Answer(500, "error")}

\* A body that cannot be read keeps the status.
BrokenBodies == {Answer(s, "error") : s \in {200, 400, 409, 429, 500}}
TransportErrors == {Answer(0, "error"), Answer(0, "timeout")}
Canceled == Answer(0, "canceled")
RunEnded == Answer(0, "run_ended")

ASSUME LoadAssumption ==
  /\ Answers \subseteq HttpAnswers \cup BrokenBodies \cup TransportErrors
  /\ Workers \subseteq Callers
  /\ {MaxAttempts, MaxInvalid, SlotQueue, MaxBurst, Unit} \subseteq Nat \ {0}
  /\ Accruals \subseteq Nat \ {0}
  /\ \A c \in Configs : c.total \in Nat
  /\ Endings \subseteq {"deadline", "canceled"}

\* Send under hardCtx, whose end cuts off the request or the read of its body.
Send == IF hard THEN {Canceled} \cup (Answers \cap BrokenBodies) ELSE Answers

IsValidSuccess(r) == r.status = 200 /\ r.outcome \notin {"invalid", "error", "timeout"}

Retryable(r) ==
  r.outcome \in {"error", "overload", "timeout", "run_ended", "canceled"}

----------------------------------------------------------------------------
(* pacer.go *)

\* No slot is granted before the first tick.
PacerInit == slots = 0 /\ due = 0 /\ emitting = 0

BugTick(accrued) ==
  /\ emitting = 0
  /\ emitting' = IF (due + accrued) \div Unit < MaxBurst
                 THEN (due + accrued) \div Unit ELSE MaxBurst
  /\ due' = due + accrued - emitting' * Unit
  /\ UNCHANGED <<slots, ctx, hard, operation, invalid, stopped, restored>>

\* A round of run: what is due beyond the burst is overdue and dropped.
Tick(accrued) ==
  LET Accrued == due + accrued
      Burst == IF Accrued \div Unit < MaxBurst THEN Accrued \div Unit ELSE MaxBurst
      Rest == Accrued - Burst * Unit
  IN /\ emitting = 0
     /\ emitting' = Burst
     /\ due' = IF Rest >= Unit THEN Rest - (Rest \div Unit) * Unit ELSE Rest
     /\ UNCHANGED <<slots, ctx, hard, operation, invalid, stopped, restored>>

\* A slot that finds the queue full is skipped.
Emit ==
  /\ emitting > 0
  /\ emitting' = emitting - 1
  /\ slots' = IF slots < SlotQueue THEN slots + 1 ELSE slots
  /\ UNCHANGED <<due, ctx, hard, operation, invalid, stopped, restored>>

PacerStep == (\E a \in Accruals : Tick(a)) \/ Emit

TakesSlot(w) ==
  /\ slots > 0 /\ slots' = slots - 1
  /\ taken' = [taken EXCEPT ![w] = @ + 1]
  /\ UNCHANGED <<due, emitting>>

CtxDone == ctx # "open" /\ UNCHANGED pacerVars

----------------------------------------------------------------------------
(* One operation: sendWithRetry, record, Complete and checkStop *)

At(w, place) == pc[w] = place
Goes(w, place) == pc' = [pc EXCEPT ![w] = place]
OperationOnly == UNCHANGED <<ctx, hard, invalid, stopped, restored>>

Begins(w, st, place) == Goes(w, place) /\ step' = [step EXCEPT ![w] = st]

\* The operation's variables end with it.
Clears(w) ==
  /\ step' = [step EXCEPT ![w] = MaskStep(0)]
  /\ attempts' = [attempts EXCEPT ![w] = 0]
  /\ taken' = [taken EXCEPT ![w] = 0]
  /\ resp' = [resp EXCEPT ![w] = RunEnded]

Answered(w) ==
  /\ At(w, "send")
  /\ attempts' = [attempts EXCEPT ![w] = @ + 1]
  /\ \E r \in Send :
       /\ resp' = [resp EXCEPT ![w] = r]
       /\ Goes(w, IF Retryable(r) /\ attempts'[w] < MaxAttempts THEN "backoff" ELSE "finish")
  /\ OperationOnly
  /\ UNCHANGED <<step, taken, pacerVars>>

BugBackoff(w) ==
  /\ At(w, "backoff")
  /\ Goes(w, "send") \/ (ctx # "open" /\ Goes(w, "finish"))
  /\ OperationOnly
  /\ UNCHANGED <<step, attempts, taken, resp, pacerVars>>

\* The delay passes, or the run ends meanwhile.
Backoff(w) ==
  /\ At(w, "backoff")
  /\ Goes(w, "pay") \/ (ctx # "open" /\ Goes(w, "finish"))
  /\ OperationOnly
  /\ UNCHANGED <<step, attempts, taken, resp, pacerVars>>

\* A retry takes another slot; at the end of the run the last answer counts.
Pays(w) ==
  /\ At(w, "pay")
  /\ \/ TakesSlot(w) /\ Goes(w, "send") /\ UNCHANGED resp
     \/ /\ CtxDone /\ Goes(w, "finish") /\ UNCHANGED taken
        /\ resp' = IF attempts[w] = 0 THEN [resp EXCEPT ![w] = RunEnded] ELSE resp
  /\ OperationOnly
  /\ UNCHANGED <<step, attempts>>

Attempt(w) ==
  /\ Answered(w) \/ Backoff(w) \/ Pays(w)
  /\ UNCHANGED scenarioVars

\* recordAttempt's classification of an answer.
Verdict(st, r) ==
  IF r.outcome # "ok" THEN r.outcome
  ELSE IF st.isMask THEN IF r.right THEN "mask" ELSE "repeat"
  ELSE IF r.right THEN "restore" ELSE "mismatch"

Finish(w) ==
  /\ At(w, "finish") /\ Goes(w, "check")
  /\ restored' = IF Verdict(step[w], resp[w]) = "restore"
                 THEN [restored EXCEPT ![step[w].pair] = @ + 1] ELSE restored
  /\ Complete(step[w], IsValidSuccess(resp[w]), resp[w].right)
  /\ UNCHANGED <<step, attempts, taken, resp, pacerVars, ctx, hard, invalid, stopped>>

Ignored(r) == r.status = 429 \/ r.outcome \in {"run_ended", "canceled"}

\* checkStop, and the worker's next operation unless it stops the run.
CheckStop(w, place) ==
  /\ At(w, "check")
  /\ invalid' = IF Ignored(resp[w]) THEN invalid
                ELSE IF IsValidSuccess(resp[w]) THEN 0 ELSE invalid + 1
  /\ IF invalid' > invalid /\ invalid' >= MaxInvalid
     THEN stopped' = TRUE /\ hard' = TRUE /\ Goes(w, "done")
     ELSE Goes(w, place) /\ UNCHANGED <<stopped, hard>>
  /\ Clears(w)
  /\ UNCHANGED <<restored, pacerVars, ctx, scenarioVars>>

\* Prepared pairs carry negative numbers.
RunInit ==
  /\ ctx = "open" /\ hard = FALSE
  /\ step = [w \in Workers |-> MaskStep(0)]
  /\ attempts = [w \in Workers |-> 0] /\ taken = [w \in Workers |-> 0]
  /\ resp = [w \in Workers |-> RunEnded]
  /\ invalid = 0 /\ stopped = FALSE
  /\ restored = [p \in (-Len(budgets)) .. (2 * Total - 1) |-> 0]

----------------------------------------------------------------------------
(* The run context and the goroutine that watches it *)

CtxEnds ==
  /\ ctx = "open" /\ ctx' \in Endings
  /\ UNCHANGED <<hard, operation, invalid, stopped, restored, pacerVars>>

\* A cancellation is a hard stop; after a deadline the grace period passes.
Watch ==
  /\ ctx # "open" /\ ~hard /\ hard' = TRUE
  /\ UNCHANGED <<ctx, operation, invalid, stopped, restored, pacerVars>>

Environment == (CtxEnds \/ Watch \/ PacerStep) /\ UNCHANGED scenarioVars
=============================================================================
