-------------------------------- MODULE Runner --------------------------------
(***************************************************************************)
(* The closed-loop driver (src/internal/loadgen/runner.go): every worker     *)
(* takes a slot, pulls a step from the scenario and sends it itself.         *)
(***************************************************************************)
EXTENDS LoadRun

Idle == UNCHANGED <<ctx, hard, step, attempts, resp, invalid, stopped, restored>>

\* The pacer gates every turn of the loop.
AwaitsSlot(w) ==
  /\ At(w, "slot")
  /\ \/ TakesSlot(w) /\ Goes(w, "next")
     \/ CtxDone /\ Goes(w, "done") /\ UNCHANGED taken
  /\ Idle /\ UNCHANGED scenarioVars

\* Next returns a step, the end, or nothing because the run ended.
Pulls(w) ==
  /\ At(w, "next")
  /\ \/ \E st \in Candidates : Gives(w, st) /\ Begins(w, st, "send")
     \/ Ends(w) /\ Goes(w, "done") /\ UNCHANGED step
     \/ Waits(w) /\ UNCHANGED <<pc, step>>
     \/ CtxDone /\ GivesUp(w) /\ Goes(w, "done") /\ UNCHANGED step
  /\ UNCHANGED <<ctx, hard, attempts, taken, resp, invalid, stopped, restored, pacerVars>>

RunnerWorker(w) ==
  AwaitsSlot(w) \/ Pulls(w) \/ Attempt(w) \/ Finish(w) \/ CheckStop(w, "slot")

\* Run returns when no worker is left.
RunnerIsOver == \A w \in Workers : At(w, "done")

\* A stop by the compatibility check comes before the end of the context.
RunnerReason ==
  IF stopped THEN "stopped" ELSE IF ctx # "open" THEN "context done" ELSE "exhausted"
=============================================================================
