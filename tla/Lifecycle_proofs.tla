--------------------------- MODULE Lifecycle_proofs ---------------------------
(***************************************************************************)
(* Theorems about CleanupLifecycle for any callers and any programs in      *)
(* which no start can run beside a Stop: one caller makes every call, or    *)
(* one start is all there is.                                               *)
(***************************************************************************)
EXTENDS CleanupLifecycle, FiniteSetTheorems, TLAPS

\* At most one of the calls of all callers is a start.
OneStart(cs) ==
  \A c, d \in Callers : \A i \in DOMAIN cs[c], j \in DOMAIN cs[d] :
    cs[c][i] = "start" /\ cs[d][j] = "start" => c = d /\ i = j

NoStart(cs) == \A c \in Callers : \A i \in DOMAIN cs[c] : cs[c][i] # "start"

Solo(cs, c) == \A d \in Callers \ {c} : cs[d] = <<>>

Orderly == \A cs \in Programs : OneStart(cs) \/ \E c \in Callers : Solo(cs, c)

----------------------------------------------------------------------------
(* The invariant *)

\* The calls still to come keep the order: either no start can follow the
\* first, or the one caller that calls waits for whatever it stopped.
Ordered ==
  \/ /\ newest = 0 => OneStart(calls)
     /\ newest # 0 => newest = 1 /\ NoStart(calls)
  \/ \E c \in Callers :
       /\ Solo(calls, c)
       /\ \A d \in Callers \ {c} : awaited[d] = 0
       /\ awaited[c] \in {0, newest}
       /\ ~started /\ awaited[c] = 0 => newest \in done \cup {0}

LoopTypes ==
  [pc: {"spawned", "loop", "select", "drain", "ended"}, stopCh: Nat, doneCh: Nat]

\* Only the goroutine of the newest pair may be alive, and each goroutine found
\* its own pair; a closed doneCh is that of a goroutine that is gone.
LoopsInv ==
  /\ newest \in Nat /\ loops \in Seq(LoopTypes) /\ Len(loops) = newest
  /\ \A g \in Pairs : g < newest => loops[g].pc = "ended"
  /\ \A g \in Pairs : loops[g].pc # "spawned" => loops[g].doneCh = g
  /\ \A g \in Pairs : loops[g].pc = "select" => loops[g].stopCh = g
  /\ done = {g \in Pairs : loops[g].pc = "ended"}

CallersInv ==
  /\ calls \in [Callers -> Seq({"start", "stop"})]
  /\ awaited \in [Callers -> 0 .. newest]
  /\ \A c \in Callers : awaited[c] # 0 => calls[c] # <<>>
  /\ started \in BOOLEAN /\ ~panicked
  /\ stopped \subseteq Pairs
  /\ started => newest # 0 /\ newest \notin stopped

LifecycleInv == LoopsInv /\ CallersInv /\ Ordered

----------------------------------------------------------------------------
(* The steps *)

\* What a call leaves to be made.
LEMMA CallsShrink ==
  ASSUME LifecycleInv, NEW c \in Callers, calls[c] # <<>>, Returns(c)
  PROVE  /\ calls' \in [Callers -> Seq({"start", "stop"})]
         /\ NoStart(calls) => NoStart(calls')
         /\ OneStart(calls) => OneStart(calls')
         /\ OneStart(calls) /\ Head(calls[c]) = "start" => NoStart(calls')
         /\ \A d \in Callers : Solo(calls, d) => Solo(calls', d) /\ c = d
         /\ \A d \in Callers : d # c => calls'[d] = calls[d]
<1>1. /\ calls \in [Callers -> Seq({"start", "stop"})]
      /\ calls' = [calls EXCEPT ![c] = Tail(calls[c])]
  BY DEF LifecycleInv, CallersInv, Returns
<1>2. \A d \in Callers : \A i \in DOMAIN calls'[d] :
        IF d = c THEN i + 1 \in DOMAIN calls[d] /\ calls'[d][i] = calls[d][i + 1] /\ i \in Nat /\ i # 0
        ELSE i \in DOMAIN calls[d] /\ calls'[d][i] = calls[d][i] /\ i \in Nat
  <2>1. ASSUME NEW i \in DOMAIN Tail(calls[c])
        PROVE  i + 1 \in DOMAIN calls[c] /\ Tail(calls[c])[i] = calls[c][i + 1] /\ i \in Nat /\ i # 0
    BY <1>1, <2>1
  <2>2. ASSUME NEW d \in Callers, NEW i \in DOMAIN calls[d] PROVE i \in Nat
    BY <1>1
  <2> QED BY <1>1, <2>1, <2>2
<1>3. 1 \in DOMAIN calls[c] /\ Head(calls[c]) = calls[c][1]
  BY <1>1
<1>4. NoStart(calls) => NoStart(calls')
  BY <1>2 DEF NoStart
<1>5. OneStart(calls) => OneStart(calls')
  BY <1>2 DEF OneStart
<1>6. OneStart(calls) /\ Head(calls[c]) = "start" => NoStart(calls')
  BY <1>2, <1>3 DEF OneStart, NoStart
<1>7. \A d \in Callers : Solo(calls, d) => Solo(calls', d) /\ c = d
  BY <1>1 DEF Solo
<1>8. calls' \in [Callers -> Seq({"start", "stop"})] /\ \A d \in Callers : d # c => calls'[d] = calls[d]
  <2>1. Tail(calls[c]) \in Seq({"start", "stop"})
    BY <1>1
  <2> QED BY <1>1, <2>1
<1> QED BY <1>4, <1>5, <1>6, <1>7, <1>8

\* Who returned waits for nothing, whoever waits has its call still to return.
LEMMA CallersWait ==
  ASSUME LifecycleInv, NEW c \in Callers, calls[c] # <<>>, Returns(c), newest' \in Nat,
         newest <= newest',
         \/ awaited[c] = 0 /\ awaited' = awaited
         \/ awaited' = [awaited EXCEPT ![c] = 0]
  PROVE  /\ awaited' \in [Callers -> 0 .. newest']
         /\ \A d \in Callers : awaited'[d] # 0 => calls'[d] # <<>>
<1>1. /\ awaited \in [Callers -> 0 .. newest] /\ newest \in Nat
      /\ \A d \in Callers : awaited[d] # 0 => calls[d] # <<>>
  BY DEF LifecycleInv, CallersInv, LoopsInv
<1>2. awaited' \in [Callers -> 0 .. newest']
  BY <1>1
<1>3. awaited'[c] = 0 /\ \A d \in Callers : d # c => awaited'[d] = awaited[d] /\ calls'[d] = calls[d]
  BY <1>1, CallsShrink
<1> QED BY <1>1, <1>2, <1>3

\* A call of Start, Stop or Close keeps the invariant.
LEMMA CallKeeps ==
  ASSUME LifecycleInv, NEW c \in Callers, Call(c)
  PROVE  LifecycleInv'
<1> USE DEF LifecycleInv, InCall, Pairs
<1>1. CASE StartedAlready(c) \/ StoppedAlready(c)
  <2>1. Returns(c) /\ calls[c] # <<>>
        /\ UNCHANGED <<awaited, started, newest, stopped, done, loops, panicked>>
    BY <1>1 DEF StartedAlready, StoppedAlready
  <2>2. LoopsInv' /\ newest' = newest /\ newest \in Nat /\ awaited[c] = 0
    BY <1>1, <2>1 DEF LoopsInv, StartedAlready, StoppedAlready
  <2>3. CallersInv'
    BY <2>1, <2>2, CallsShrink, CallersWait DEF CallersInv
  <2>4. Ordered'
    <3>1. CASE \E d \in Callers :
                 /\ Solo(calls, d) /\ \A e \in Callers \ {d} : awaited[e] = 0
                 /\ awaited[d] \in {0, newest}
                 /\ ~started /\ awaited[d] = 0 => newest \in done \cup {0}
      BY <2>1, <3>1, CallsShrink DEF Ordered
    <3>2. CASE (newest = 0 => OneStart(calls)) /\ (newest # 0 => newest = 1 /\ NoStart(calls))
      BY <2>1, <3>2, CallsShrink DEF Ordered
    <3> QED BY <3>1, <3>2 DEF Ordered
  <2> QED BY <2>2, <2>3, <2>4
<1>2. CASE Start(c)
  <2>1. /\ Returns(c) /\ calls[c] # <<>> /\ Head(calls[c]) = "start"
        /\ ~started /\ started' = TRUE /\ awaited[c] = 0
        /\ newest' = newest + 1 /\ loops' = Append(loops, Fresh)
        /\ UNCHANGED <<awaited, stopped, done, panicked>>
    BY <1>2 DEF Start
  <2>2. newest = 0 \/ newest \in done
    <3>1. NoStart(calls) => FALSE
      BY <2>1 DEF NoStart, CallersInv
    <3>2. \A d \in Callers : Solo(calls, d) => c = d
      BY <2>1 DEF Solo
    <3> QED BY <2>1, <3>1, <3>2 DEF Ordered
  <2>3. \A g \in Pairs : loops[g].pc = "ended"
    BY <2>2 DEF LoopsInv
  <2>4. Fresh \in LoopTypes /\ Fresh.pc = "spawned"
    BY DEF Fresh, LoopTypes
  <2>5. LoopsInv'
    <3>1. newest' \in Nat /\ loops' \in Seq(LoopTypes) /\ Len(loops') = newest'
      BY <2>1, <2>4 DEF LoopsInv
    <3>2. \A g \in 1 .. newest' : IF g = newest' THEN loops'[g] = Fresh
                                  ELSE g \in 1 .. newest /\ loops'[g] = loops[g]
      BY <2>1 DEF LoopsInv
    <3> QED BY <2>1, <2>3, <2>4, <3>1, <3>2 DEF LoopsInv
  <2>6. CallersInv'
    <3>1. newest \in Nat /\ newest' \in Nat /\ newest <= newest' /\ newest' \notin Pairs
          /\ newest' # 0 /\ Pairs \subseteq Pairs'
      BY <2>1 DEF LoopsInv
    <3>2. stopped' \subseteq Pairs' /\ newest' \notin stopped' /\ ~panicked'
      BY <2>1, <3>1 DEF CallersInv
    <3> QED BY <2>1, <3>1, <3>2, CallsShrink, CallersWait DEF CallersInv
  <2>7. Ordered'
    <3>1. CASE newest = 0 /\ OneStart(calls)
      BY <2>1, <3>1, CallsShrink DEF Ordered
    <3>2. CASE \E d \in Callers : Solo(calls, d) /\ \A e \in Callers \ {d} : awaited[e] = 0
      BY <2>1, <3>2, CallsShrink DEF Ordered
    <3>3. ~ NoStart(calls)
      BY <2>1 DEF NoStart, CallersInv
    <3> QED BY <3>1, <3>2, <3>3 DEF Ordered
  <2> QED BY <2>5, <2>6, <2>7
<1>3. CASE StopLoop(c)
  <2>1. /\ started /\ started' = FALSE /\ calls[c] # <<>>
        /\ panicked' = (newest \in stopped) /\ stopped' = stopped \cup {newest}
        /\ awaited' = [awaited EXCEPT ![c] = newest]
        /\ UNCHANGED <<calls, newest, done, loops>>
    BY <1>3 DEF StopLoop
  <2>2. LoopsInv' /\ CallersInv'
    <3>1. newest \in Pairs /\ newest \in 0 .. newest /\ newest \notin stopped
      BY <2>1 DEF LoopsInv, CallersInv
    <3>2. /\ awaited' \in [Callers -> 0 .. newest']
          /\ \A d \in Callers : awaited'[d] # 0 => calls'[d] # <<>>
      BY <2>1, <3>1 DEF CallersInv
    <3>3. LoopsInv'
      BY <2>1 DEF LoopsInv
    <3>4. /\ calls' = calls /\ started' = FALSE
          /\ ~panicked'
          /\ stopped' \subseteq Pairs'
      <4>1. ~panicked'
        BY <2>1, <3>1, Zenon
      <4>2. stopped \subseteq Pairs /\ Pairs' = Pairs
        BY <2>1 DEF CallersInv
      <4> QED BY <2>1, <3>1, <4>1, <4>2
    <3>5. calls \in [Callers -> Seq({"start", "stop"})]
      BY DEF CallersInv
    <3> HIDE DEF LifecycleInv, Pairs
    <3> QED BY <3>2, <3>3, <3>4, <3>5 DEF CallersInv
  <2>3. Ordered'
    <3>1. \A d \in Callers : Solo(calls, d) => c = d
      BY <2>1 DEF Solo
    <3> QED BY <2>1, <3>1 DEF Ordered, CallersInv
  <2> QED BY <2>2, <2>3
<1>4. CASE Await(c)
  <2>1. /\ awaited[c] \in done /\ awaited[c] # 0 /\ Returns(c)
        /\ awaited' = [awaited EXCEPT ![c] = 0]
        /\ UNCHANGED <<started, newest, stopped, done, loops, panicked>>
    BY <1>4 DEF Await
  <2>2. calls[c] # <<>>
    BY <2>1 DEF CallersInv
  <2>3. LoopsInv' /\ CallersInv'
    <3>1. LoopsInv' /\ newest' = newest /\ newest \in Nat
      BY <2>1 DEF LoopsInv
    <3>2. /\ awaited' \in [Callers -> 0 .. newest']
          /\ \A d \in Callers : awaited'[d] # 0 => calls'[d] # <<>>
      <4>1. LifecycleInv /\ newest' \in Nat /\ newest <= newest' /\ calls[c] # <<>>
        BY <2>2, <3>1
      <4> HIDE DEF LifecycleInv, Pairs, InCall
      <4> QED BY <2>1, <4>1, CallersWait
    <3>3. calls' \in [Callers -> Seq({"start", "stop"})]
      BY <2>1, <2>2, CallsShrink
    <3> QED BY <2>1, <3>1, <3>2, <3>3 DEF CallersInv
  <2>4. Ordered'
    <3>1. CASE \E d \in Callers :
                 /\ Solo(calls, d) /\ \A e \in Callers \ {d} : awaited[e] = 0
                 /\ awaited[d] \in {0, newest}
      BY <2>1, <2>2, <3>1, CallsShrink DEF Ordered, CallersInv
    <3>2. CASE (newest = 0 => OneStart(calls)) /\ (newest # 0 => newest = 1 /\ NoStart(calls))
      BY <2>1, <2>2, <3>2, CallsShrink DEF Ordered
    <3> QED BY <3>1, <3>2 DEF Ordered
  <2> QED BY <2>3, <2>4
<1> QED BY <1>1, <1>2, <1>3, <1>4 DEF Call

\* A step of a background loop keeps the invariant.
LEMMA LoopKeeps ==
  ASSUME LifecycleInv, NEW g \in Pairs, LoopStep(g) \/ Tick(g) \/ LoopStops(g)
  PROVE  LifecycleInv'
<1> USE DEF LifecycleInv, Pairs
<1>1. g = newest /\ loops[g].pc # "ended" /\ newest \in Nat /\ loops[g] \in LoopTypes
  BY DEF LoopStep, LoopBegins, LoopSelects, DrainEnds, Tick, LoopStops, At, LoopsInv
<1>2. UNCHANGED <<calls, awaited, started, newest, stopped>>
  BY DEF LoopStep, LoopBegins, LoopSelects, DrainEnds, Tick, LoopStops, Keeps
<1>3. ASSUME NEW l \in LoopTypes, loops' = [loops EXCEPT ![g] = l],
             l.pc # "spawned", l.doneCh = g, l.pc = "select" => l.stopCh = g,
             IF l.pc = "ended" THEN done' = done \cup {g} ELSE done' = done,
             ~panicked'
      PROVE  LifecycleInv'
  <2>1. /\ loops' \in Seq(LoopTypes) /\ Len(loops') = newest
        /\ \A h \in Pairs : loops'[h] = IF h = g THEN l ELSE loops[h]
    BY <1>1, <1>3 DEF LoopsInv
  <2>2. LoopsInv'
    BY <1>1, <1>2, <1>3, <2>1 DEF LoopsInv
  <2>3. CallersInv'
    BY <1>2, <1>3 DEF CallersInv
  <2>4. Ordered'
    <3>1. done \subseteq done'
      BY <1>3
    <3> QED BY <1>2, <3>1 DEF Ordered
  <2> QED BY <2>2, <2>3, <2>4
<1>4. ~panicked /\ g \notin done
  BY <1>1 DEF LoopsInv, CallersInv
<1>5. g .. newest = {g}
  BY <1>1
<1> DEFINE l == loops[g]
<1>6. /\ [l EXCEPT !.pc = "loop", !.doneCh = g] \in LoopTypes
      /\ [l EXCEPT !.pc = "select", !.stopCh = g] \in LoopTypes
      /\ \A p \in {"loop", "drain", "ended"} : [l EXCEPT !.pc = p] \in LoopTypes
  BY <1>1 DEF LoopTypes
<1>7. ASSUME NEW m \in LoopTypes, loops' = [loops EXCEPT ![g] = m],
             m.pc \in {"loop", "select", "drain"}, m.doneCh = g,
             m.pc = "select" => m.stopCh = g, UNCHANGED <<done, panicked>>
      PROVE  LifecycleInv'
  BY <1>3, <1>4, <1>7
<1>8. CASE LoopBegins(g)
  <2> DEFINE m == [l EXCEPT !.pc = "loop", !.doneCh = g]
  <2>1. loops' = [loops EXCEPT ![g] = m] /\ UNCHANGED <<done, panicked>>
    BY <1>5, <1>8 DEF LoopBegins
  <2>2. m \in LoopTypes /\ m.pc = "loop" /\ m.doneCh = g
    BY <1>1, <1>6 DEF LoopTypes
  <2> HIDE DEF m, LifecycleInv
  <2> QED BY <1>7, <2>1, <2>2
<1>9. CASE LoopSelects(g)
  <2> DEFINE m == [l EXCEPT !.pc = "select", !.stopCh = g]
  <2>1. loops' = [loops EXCEPT ![g] = m] /\ UNCHANGED <<done, panicked>>
    BY <1>5, <1>9 DEF LoopSelects
  <2>2. l.doneCh = g
    BY <1>9 DEF LoopSelects, At, LoopsInv
  <2>3. m \in LoopTypes /\ m.pc = "select" /\ m.doneCh = g /\ m.stopCh = g
    BY <1>1, <1>6, <2>2 DEF LoopTypes
  <2> HIDE DEF m, LifecycleInv
  <2> QED BY <1>7, <2>1, <2>3
<1>10. ASSUME Tick(g) \/ DrainEnds(g) PROVE LifecycleInv'
  <2>1. PICK p \in {"loop", "drain"} : loops' = [loops EXCEPT ![g] = [l EXCEPT !.pc = p]]
    BY <1>10 DEF Tick, DrainEnds
  <2> DEFINE m == [l EXCEPT !.pc = p]
  <2>2. l.doneCh = g /\ UNCHANGED <<done, panicked>>
    BY <1>10 DEF Tick, DrainEnds, At, LoopsInv
  <2>3. m \in LoopTypes /\ m.pc = p /\ m.doneCh = g
    BY <1>1, <1>6, <2>2 DEF LoopTypes
  <2>4. loops' = [loops EXCEPT ![g] = m]
    BY <2>1
  <2> HIDE DEF m, LifecycleInv
  <2> QED BY <1>7, <2>2, <2>3, <2>4
<1>11. CASE LoopStops(g)
  <2> DEFINE m == [l EXCEPT !.pc = "ended"]
  <2>1. loops' = [loops EXCEPT ![g] = m]
    BY <1>11 DEF LoopStops
  <2>2. l.doneCh = g
    BY <1>11 DEF LoopStops, At, LoopsInv
  <2>3. done' = done \cup {g}
    BY <1>11, <2>2 DEF LoopStops
  <2>4. panicked' = (l.doneCh \in done)
    BY <1>11 DEF LoopStops
  <2>5. ~panicked'
    <3> HIDE DEF l
    <3> QED BY <1>4, <2>2, <2>4, Zenon
  <2>6. m \in LoopTypes /\ m.pc = "ended" /\ m.doneCh = g
    BY <1>1, <1>6, <2>2 DEF LoopTypes
  <2> HIDE DEF m, LifecycleInv
  <2> QED BY <1>3, <2>1, <2>3, <2>5, <2>6
<1> QED BY <1>8, <1>9, <1>10, <1>11 DEF LoopStep

\* The invariant holds of every life of the cleanup that is orderly.
LEMMA LifecycleInvariant ==
  ASSUME Orderly
  PROVE  LifecycleSpec => []LifecycleInv
<1>1. LifecycleInit => LifecycleInv
  <2> SUFFICES ASSUME LifecycleInit PROVE LifecycleInv
    OBVIOUS
  <2>1. calls \in [Callers -> Seq({"start", "stop"})]
    BY LifecycleAssumption DEF LifecycleInit
  <2>2. LoopsInv
    <3>1. newest = 0 /\ loops = <<>> /\ done = {} /\ Pairs = {}
      BY DEF LifecycleInit, Pairs
    <3> QED BY <3>1 DEF LoopsInv
  <2>4. CallersInv
    <3>1. /\ newest = 0 /\ stopped = {} /\ awaited = [c \in Callers |-> 0]
          /\ started = FALSE
      BY DEF LifecycleInit
    <3>2. ~panicked
      BY Zenon DEF LifecycleInit
    <3>3. awaited \in [Callers -> 0 .. newest] /\ \A c \in Callers : awaited[c] = 0
      <4>1. 0 \in 0 .. newest
        BY <3>1
      <4> QED BY <3>1, <4>1
    <3>4. started \in BOOLEAN /\ ~started
      BY <3>1
    <3>5. stopped \subseteq Pairs
      BY <3>1
    <3> QED BY <2>1, <3>2, <3>3, <3>4, <3>5 DEF CallersInv
  <2>3. Ordered
    BY DEF LifecycleInit, Ordered, Orderly
  <2> QED BY <2>2, <2>3, <2>4 DEF LifecycleInv
<1>2. LifecycleInv /\ [LifecycleNext]_lvars => LifecycleInv'
  <2>1. LifecycleInv /\ UNCHANGED lvars => LifecycleInv'
    BY DEF lvars, LifecycleInv, LoopsInv, CallersInv, Ordered, Pairs
  <2> QED BY <2>1, CallKeeps, LoopKeeps DEF LifecycleNext
<1> QED BY <1>1, <1>2, PTL DEF LifecycleSpec

----------------------------------------------------------------------------
(* The theorems *)

\* There is never a second goroutine that cleans, and no channel is closed twice.
THEOREM OneCleanerHolds ==
  ASSUME Orderly
  PROVE  LifecycleSpec => []OneCleaner
<1>1. LifecycleInv => OneCleaner
  <2> SUFFICES ASSUME LifecycleInv PROVE OneCleaner
    OBVIOUS
  <2>1. Alive \subseteq {newest}
    BY DEF LifecycleInv, LoopsInv, Alive, Pairs
  <2>2. Cardinality(Alive) <= 1
    <3>1. IsFiniteSet({newest}) /\ Cardinality({newest}) = 1
      BY FS_Singleton
    <3>2. Cardinality(Alive) <= Cardinality({newest})
      BY <2>1, <3>1, FS_Subset
    <3> QED BY <3>1, <3>2
  <2> QED BY <2>2 DEF OneCleaner, LifecycleInv, CallersInv
<1> QED BY <1>1, LifecycleInvariant, PTL

\* A Stop that closed the channel returns after its goroutine did.
THEOREM StopWaitsHolds ==
  ASSUME Orderly
  PROVE  LifecycleSpec => StopWaits
<1>1. ASSUME LifecycleInv, [LifecycleNext]_lvars
      PROVE  [\A c \in Callers :
                awaited[c] # 0 /\ awaited'[c] = 0 => loops[awaited[c]].pc = "ended"]_lvars
  <2> SUFFICES ASSUME NEW c \in Callers, awaited[c] # 0, awaited'[c] = 0
               PROVE  loops[awaited[c]].pc = "ended"
    OBVIOUS
  <2>1. awaited \in [Callers -> 0 .. newest] /\ newest \in Nat
    BY <1>1 DEF LifecycleInv, CallersInv, LoopsInv
  <2>2. awaited[c] \in done
    <3>1. ASSUME NEW d \in Callers, Call(d) PROVE awaited[c] \in done
      BY <2>1, <3>1 DEF Call, StartedAlready, Start, StoppedAlready, StopLoop, Await
    <3>2. UNCHANGED awaited => FALSE
      OBVIOUS
    <3> QED BY <1>1, <3>1, <3>2 DEF LifecycleNext, LoopStep, LoopBegins, LoopSelects,
            DrainEnds, Tick, LoopStops, Keeps, lvars
  <2> QED BY <1>1, <2>2 DEF LifecycleInv, LoopsInv
<1> QED BY <1>1, LifecycleInvariant, PTL DEF LifecycleSpec, StopWaits
=============================================================================
