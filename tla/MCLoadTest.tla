------------------------------ MODULE MCLoadTest ------------------------------
(* Instances of LoadTest for TLC. *)
EXTENDS LoadTest

TwoWorkers == {1, 2}
OneProducer == 0
TwoAndProducer == {0, 1, 2}

\* Right and wrong texts, and a body that breaks off.
SomeAnswers ==
  {[status |-> 200, outcome |-> "ok", right |-> r] : r \in BOOLEAN} \cup {Answer(200, "error")}

Run(driver, mode, delayed, workers) ==
  [driver |-> driver, mode |-> mode, delayed |-> delayed, workers |-> workers,
   total |-> 2, budget |-> IF delayed THEN 2 ELSE 0, prepared |-> 0]

Prepared(workers, masks) ==
  [Run("runner", "restore_dominant", FALSE, workers) EXCEPT
     !.total = masks, !.budget = 2, !.prepared = 1]

\* Two workers in the closed loop; one with delays, beside the producer, or
\* where restores of prepared pairs mix with masks.
Runs ==
  {Run("runner", "sequential", FALSE, 2), Prepared(2, 0), Prepared(1, 1)}
    \cup {[Run("runner", "mask_dominant", FALSE, 2) EXCEPT !.total = 1]}
    \cup {Run("runner", m, TRUE, 1) : m \in {"sequential", "mask_dominant"}}
    \cup {Run("scheduler", "mask_dominant", FALSE, 1)}
    \cup {[Run("scheduler", "mask_dominant", TRUE, 1) EXCEPT !.total = 1]}

\* Two pairs that wait out their delays, and one worker.
DelayedRun == {Run("runner", "sequential", TRUE, 1)}
PlainRun == {Run("runner", "sequential", FALSE, 2)}

Ticks == {1, 2}
Deadline == {"deadline"}
=============================================================================
