------------------------------- MODULE Scenario ------------------------------
(***************************************************************************)
(* The load generator's scenarios (src/internal/loadgen/scenario.go): which *)
(* request comes next, and what its completion does.  A scenario holds its  *)
(* mutex for a whole turn of Next, and for Complete, so each is one step;   *)
(* Next gives the mutex up only while it waits.  A new pair is the number   *)
(* its payload_id carries, the i-th prepared pair is -i: the prefixes of    *)
(* pairID and prepID keep the two apart.                                   *)
(*                                                                         *)
(* Texts are left out: a step is its pair and its direction.  Time passes   *)
(* between the turns: the restore delays run out in the order in which they *)
(* began.  The draws of the random source are open.                        *)
(***************************************************************************)
EXTENDS Integers, FiniteSets, SequencesExt

CONSTANTS
  Callers,    \* the goroutines that call Next
  Configs     \* what a run may be configured with

VARIABLES
  config,     \* the configuration of this run, which no step changes
  nextPair,   \* pairs created
  pending,    \* pairs that await a restore step, in order
  inFlight,   \* pairs whose restore step was issued and not completed
  data,       \* what is kept of a pair: "none", its "text", or its "mask" too
  retries,    \* restore attempts left of a pair
  delays,     \* pairs whose restore delay has not run out, the earliest first
  budgets,    \* restores left of each prepared pair
  asleep,     \* callers blocked in notify.wait
  signalled,  \* those of them whose channel was closed
  timer       \* the pair whose delay a sleeping caller's timer waits out

scenarioVars == <<config, nextPair, pending, inFlight, data, retries, delays,
                  budgets, asleep, signalled, timer>>

Total == config.total
Pairs == 0 .. (Total - 1)
NoTimer == -1
MaskStep(p) == [pair |-> p, isMask |-> TRUE]
RestoreStep(p) == [pair |-> p, isMask |-> FALSE]

\* The scenarios that create their pairs allow one attempt at least.
RestoreBudget == IF config.budget <= 0 THEN 1 ELSE config.budget

----------------------------------------------------------------------------
(* What the scenarios share *)

Ready(p) == p \notin ToSet(delays)

Dropped(S) == [p \in Pairs |-> IF p \in S THEN "none" ELSE data[p]]

\* A list of pairs without those in S, in its order.
Remaining(list, S) ==
  LET Kept == {i \in DOMAIN list : list[i] \notin S}
      Rank(i) == Cardinality({j \in Kept : j <= i})
  IN [r \in 1 .. Cardinality(Kept) |-> list[CHOOSE i \in Kept : Rank(i) = r]]

Undelayed(S) == Remaining(delays, S)

BugSignal == UNCHANGED signalled

\* signal closes the channel that every sleeping caller waits on.
Signal == signalled' = asleep

Woken(w) == \/ w \in signalled
            \/ timer[w] # NoTimer /\ Ready(timer[w])

Leaves(w) ==
  /\ asleep' = asleep \ {w}
  /\ signalled' = signalled \ {w}
  /\ timer' = [timer EXCEPT ![w] = NoTimer]

\* waitDurationLocked: the earliest delay of the waiting pairs, and no timer
\* at all when one of them is ready.
Alarm(waiting) ==
  LET Idle == ToSet(waiting) \ inFlight
      Late == SelectInSeq(delays, LAMBDA p : p \in Idle)
  IN IF Late = 0 \/ \E p \in Idle : Ready(p) THEN NoTimer ELSE delays[Late]

Sleeps(w, waiting) ==
  /\ asleep' = asleep \cup {w}
  /\ signalled' = signalled \ {w}
  /\ timer' = [timer EXCEPT ![w] = Alarm(waiting)]

\* A mask is stored and its pair waits for its restore.
MaskArrives(p, attempts) ==
  IF data[p] = "mask" THEN UNCHANGED <<data, pending, retries, delays, signalled>>
  ELSE /\ data' = [data EXCEPT ![p] = "mask"]
       /\ pending' = Append(pending, p)
       /\ retries' = [retries EXCEPT ![p] = attempts]
       /\ delays' = IF config.delayed THEN Append(delays, p) ELSE delays
       /\ Signal

----------------------------------------------------------------------------
(* sequential *)

\* The first pending pair the loop does not pass over; those it passes leave
\* the queue, and an exhausted one its data.
Alive(p) == p \notin inFlight /\ retries[p] > 0
First == SelectInSeq(pending, Alive)
Passed == ToSet(IF First = 0 THEN pending ELSE SubSeq(pending, 1, First - 1))
Behind == IF First = 0 THEN <<>> ELSE SubSeq(pending, First + 1, Len(pending))
Exhausted == Passed \ inFlight

SequentialRestores(st) ==
  /\ First # 0 /\ st = RestoreStep(pending[First]) /\ Ready(st.pair)
  /\ pending' = Behind
  /\ inFlight' = inFlight \cup {st.pair}
  /\ retries' = [retries EXCEPT ![st.pair] = @ - 1]
  /\ data' = Dropped(Exhausted) /\ delays' = Undelayed(Exhausted)
  /\ UNCHANGED nextPair

\* The first pair is not ready: it goes to the back.
NothingReady ==
  /\ First # 0 => ~Ready(pending[First])
  /\ pending' = IF First = 0 THEN <<>> ELSE Append(Behind, pending[First])
  /\ delays' = Undelayed(Exhausted)
  /\ UNCHANGED inFlight

SequentialMasks(st) ==
  /\ NothingReady
  /\ nextPair < Total /\ st = MaskStep(nextPair)
  /\ nextPair' = nextPair + 1
  /\ data' = [Dropped(Exhausted) EXCEPT ![nextPair] = "text"]
  /\ retries' = [retries EXCEPT ![nextPair] = RestoreBudget]

SequentialIdles ==
  /\ NothingReady
  /\ nextPair = Total
  /\ data' = Dropped(Exhausted)
  /\ UNCHANGED <<nextPair, retries>>

\* dropPair
DropPair(p) ==
  /\ data' = Dropped({p}) /\ delays' = Undelayed({p})
  /\ inFlight' = inFlight \ {p}
  /\ retries' = [retries EXCEPT ![p] = 0]
  /\ UNCHANGED pending

Requeue(p) ==
  /\ inFlight' = inFlight \ {p}
  /\ pending' = Append(pending, p)
  /\ UNCHANGED <<data, retries, delays>>

SequentialCompletes(st, valid, right) ==
  LET p == st.pair IN
  \/ st.isMask /\ valid /\ MaskArrives(p, retries[p]) /\ UNCHANGED inFlight
  \/ st.isMask /\ ~valid /\ DropPair(p) /\ Signal
  \/ ~st.isMask /\ valid /\ right /\ DropPair(p) /\ Signal
  \/ /\ ~st.isMask /\ ~(valid /\ right)
     /\ IF retries[p] > 0 THEN Requeue(p) ELSE DropPair(p)
     /\ Signal

----------------------------------------------------------------------------
(* maskDominant: a pair stays pending while its restore step is in flight *)

Waiting == ToSet(pending) \ inFlight
Spent == {p \in Waiting : retries[p] <= 0}
Restorable == {p \in Waiting \ Spent : Ready(p)}

RemovePending(S) ==
  /\ pending' = Remaining(pending, S)
  /\ data' = Dropped(S \cap ToSet(pending))
  /\ delays' = Undelayed(S \cap ToSet(pending))

BugTryRestore(st) ==
  /\ ~st.isMask /\ st.pair \in Restorable
  /\ retries' = [retries EXCEPT ![st.pair] = @ - 1]
  /\ UNCHANGED <<pending, data, delays, inFlight, nextPair>>

\* tryRestoreLocked draws as often as there are pairs, removes the exhausted
\* ones among its draws, and misses unless every pair can be restored.
TryRestore(st) ==
  /\ ~st.isMask /\ st.pair \in Restorable
  /\ \E S \in SUBSET Spent : RemovePending(S)
  /\ inFlight' = inFlight \cup {st.pair}
  /\ retries' = [retries EXCEPT ![st.pair] = @ - 1]
  /\ UNCHANGED nextPair

Misses ==
  /\ pending = <<>> \/ ToSet(pending) # Restorable
  /\ \E S \in SUBSET Spent : RemovePending(S)
  /\ UNCHANGED <<inFlight, retries>>

\* Below the restore fraction a restore is tried first, above it not.
DominantMasks(st) ==
  /\ nextPair < Total /\ st = MaskStep(nextPair)
  /\ nextPair' = nextPair + 1
  /\ Misses \/ UNCHANGED <<pending, data, delays, inFlight, retries>>

DominantIdles == nextPair = Total /\ Misses /\ UNCHANGED nextPair

BugDominantCompletes(st, valid, right) ==
  LET p == st.pair IN
  \/ st.isMask /\ valid /\ MaskArrives(p, RestoreBudget) /\ UNCHANGED inFlight
  \/ /\ st.isMask /\ ~valid /\ RemovePending({p}) /\ Signal
     /\ UNCHANGED <<inFlight, retries>>
  \/ /\ ~st.isMask
     /\ IF retries[p] <= 0 THEN RemovePending({p}) ELSE UNCHANGED <<pending, data, delays>>
     /\ inFlight' = inFlight \ {p}
     /\ Signal /\ UNCHANGED retries

DominantCompletes(st, valid, right) ==
  LET p == st.pair IN
  \/ st.isMask /\ valid /\ MaskArrives(p, RestoreBudget) /\ UNCHANGED inFlight
  \/ /\ st.isMask /\ ~valid /\ RemovePending({p}) /\ Signal
     /\ UNCHANGED <<inFlight, retries>>
  \/ /\ ~st.isMask
     /\ IF (valid /\ right) \/ retries[p] <= 0
        THEN RemovePending({p}) /\ retries' = [retries EXCEPT ![p] = 0]
        ELSE UNCHANGED <<pending, data, delays, retries>>
     /\ inFlight' = inFlight \ {p}
     /\ Signal

----------------------------------------------------------------------------
(* restoreDominant *)

\* AddPrepared during the preparation phase, which may fail for some pairs.
PreparedBudgets(c) ==
  IF c.mode # "restore_dominant" THEN {<<>>}
  ELSE {[i \in 1 .. n |-> c.budget] : n \in 0 .. c.prepared}

Budgeted == SelectInSeq(budgets, LAMBDA left : left > 0)

PreparedRestores(st) ==
  /\ Budgeted # 0 /\ st = RestoreStep(-Budgeted)
  /\ budgets' = [budgets EXCEPT ![Budgeted] = @ - 1]
  /\ UNCHANGED nextPair

PreparedMasks(st) ==
  /\ nextPair < Total /\ st = MaskStep(Total + nextPair)
  /\ nextPair' = nextPair + 1
  /\ UNCHANGED budgets

----------------------------------------------------------------------------
(* The scenario's interface *)

\* The steps that may come next.
Candidates == {MaskStep(nextPair), MaskStep(Total + nextPair), RestoreStep(-Budgeted)}
                \cup {RestoreStep(p) : p \in ToSet(pending)}

Mode(m) == config.mode = m
MayTurn(w) == w \in asleep => Woken(w)
pairTables == <<pending, inFlight, data, retries, delays>>

\* Next returns a step,
Gives(w, st) ==
  /\ MayTurn(w) /\ Leaves(w) /\ UNCHANGED config
  /\ \/ /\ Mode("sequential") /\ UNCHANGED budgets
        /\ SequentialRestores(st) \/ SequentialMasks(st)
     \/ /\ Mode("mask_dominant") /\ UNCHANGED budgets
        /\ TryRestore(st) \/ DominantMasks(st)
     \/ /\ Mode("restore_dominant") /\ UNCHANGED pairTables
        /\ PreparedRestores(st) \/ PreparedMasks(st)

BugEnds(w) ==
  /\ MayTurn(w) /\ Leaves(w) /\ UNCHANGED <<config, budgets>>
  /\ Mode("sequential") /\ SequentialIdles

\* reports the end of the scenario,
Ends(w) ==
  /\ MayTurn(w) /\ Leaves(w) /\ UNCHANGED <<config, budgets>>
  /\ \/ Mode("sequential") /\ SequentialIdles /\ pending' = <<>> /\ inFlight = {}
     \/ Mode("mask_dominant") /\ DominantIdles /\ pending' = <<>>
     \/ /\ Mode("restore_dominant") /\ nextPair = Total /\ Budgeted = 0
        /\ UNCHANGED <<nextPair, pairTables>>

\* or waits for a change;
Waits(w) ==
  /\ MayTurn(w) /\ UNCHANGED <<config, budgets>>
  /\ \/ Mode("sequential") /\ SequentialIdles /\ (pending' # <<>> \/ inFlight # {})
     \/ Mode("mask_dominant") /\ DominantIdles /\ pending' # <<>>
  /\ Sleeps(w, pending')

\* a wait that the context ends returns without a step.
GivesUp(w) ==
  /\ w \in asleep /\ Leaves(w)
  /\ UNCHANGED <<config, nextPair, pairTables, budgets>>

Complete(st, valid, right) ==
  /\ \/ Mode("sequential") /\ SequentialCompletes(st, valid, right)
     \/ Mode("mask_dominant") /\ DominantCompletes(st, valid, right)
     \/ Mode("restore_dominant") /\ UNCHANGED <<pairTables, signalled>>
  /\ UNCHANGED <<config, nextPair, budgets, asleep, timer>>

\* The earliest restore delay runs out.
DelayEnds ==
  /\ delays # <<>> /\ delays' = Tail(delays)
  /\ UNCHANGED <<config, nextPair, pending, inFlight, data, retries, budgets,
                 asleep, signalled, timer>>

ScenarioInit ==
  /\ config \in Configs
  /\ nextPair = 0 /\ pending = <<>> /\ inFlight = {}
  /\ data = [p \in Pairs |-> "none"]
  /\ retries = [p \in Pairs |-> 0]
  /\ delays = <<>>
  /\ budgets \in PreparedBudgets(config)
  /\ asleep = {} /\ signalled = {}
  /\ timer = [w \in Callers |-> NoTimer]
=============================================================================
