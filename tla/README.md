# alfa-pii in TLA+

Specifications, model-checking configurations and machine-checked proofs for
the PII masking service in `src/`. A client sends a text under a payload id
and gets it back with personal data replaced by a mask; it sends the mask
under the same id and gets the text back. In between the service keeps the
correspondence of text and mask in memory, under limits, for a bounded time.
What makes this hard is not the masking of one text but the correspondence:
concurrent requests for one id, builds that run outside the lock, budgets
shared by requests that have not finished, deadlines that move, and a cleanup
that runs whenever it likes.

Line numbers refer to the files under `src/`.

## Inventory

| Component | State | Operations | Talks to |
|---|---|---|---|
| **store** `internal/store/store.go` | entries, byte counter, expiry heap, inflight structs, version counter, reservations; all under one mutex | `Get`, `Create`, `MarkRestored`, `StartCleanup`, `Stop`, drains | called by app from many goroutines; calls `build` back without the lock; sends events to an observer after unlocking |
| **app** `internal/app/app.go` | none of its own (consumer table is constant) | `Process` (compat), `Mask`, `Restore` (managed) | recognizer registry, masker, two stores |
| **httpapi** `internal/httpapi/httpapi.go` | slot semaphore, used working bytes | `handle`: admission, decoding, budget, call, answer | app; net/http cancels the request context |
| **masker** `internal/masker/masker.go` | none | `Mask`, `Stars`, `Restore`, marker choice, range merging | called by app |
| **recognizer** `internal/recognizer/` | none | registry `Find` (fails closed), `ResolveWithPriority`, one scanner per type | called by app |
| **config** `internal/config/` | none | `Load`, `LoadConsumers`, `resolveSecret`, `Validate` | read by main |
| **metrics** `internal/metrics/` | Prometheus collectors | observers of store and HTTP events | called by store and httpapi |
| **cmd/pii-service** | life of the process | registering rules, consumers, wiring, `StartCleanup`, serving, graceful shutdown | all of the above |
| **scenarios** `internal/loadgen/scenario.go` | pairs and where they are; sleeping callers | `Next`, `Complete`, restore delays | called by the drivers' goroutines |
| **drivers** `runner.go`, `scheduler.go` | worker goroutines, the step queue, the stop reason | closed loop; producer and queue; retries; compatibility check | scenario, pacer, client |
| **pacer** `pacer.go` | accrual, channel of slots | ticks, emission, `Wait` | drivers |
| **load client** `client.go` | none | `Send` and the classification of answers | a running service, over HTTP |
| **eval** `internal/eval/` | a report | `Evaluate`, errors of an example, markup validation | recognizer, masker |
| **demo, scripts** | none | scripted requests, packaging | — |

The hard behaviours, by component:

* **store** — a build runs between two critical sections, so what its creator
  knew is stale when it publishes; a record is visible before the waiters are
  woken; a waiter may be cancelled, time out, or find that its creator was
  cancelled and retry; a restore acts on a record it read earlier; limits are
  shared with creators that have not published; expiry happens in three places
  (lookup, drain before a reservation or publication, background batches).
* **app** — one call looks up, recognizes, masks and creates; the record it
  gets may be another request's.
* **httpapi** — a request takes a slot and a share of the working budget and
  leaves through many exits; the client can go away at any point.
* **cmd/pii-service** — every step of the start may fail and exits without the
  deferred calls; a signal, a failing listener and requests race at the end.
* **loadgen** — workers pull steps whose successors depend on completions that
  arrive in any order; retries share the pacer; callers sleep until a completion,
  a delay or the end of the run; three ways to stop race.

What makes each correct: the store keeps exactly the correspondences it
promised, inside its limits, and loses no waiter;
app answers a request only from a record of the same scope and of texts that
belong together; httpapi releases what it took exactly once and admits no more
than its limits; masker gives back the text it masked; the resolver's output is
sorted, disjoint and covers every match; what serves took its whole
configuration; the load generator has each pair in one place, pays for each
request with one slot, and ends; the evaluation counts an error wherever there
is one.

## Plan

| # | Module | Models | Composes | State |
|---|---|---|---|---|
| 1 | `Correspondence` | the promise of the `Store` interface, abstractly | — | checked |
| 2 | `MemoryStore` | `store.Memory` at the grain of critical sections | refines 1 | checked, proved |
| 3 | `StoreEvents` | the observer's events, sent after the mutex is released, and the gauges they drive | extends 2 | checked, proved |
| 4 | `Service` | `Process`, `Mask`, `Restore` of app | extends 2 | checked, proved |
| 5 | `Admission` | slots, working budget and exits of `handle` | — | checked, proved |
| 6 | `Resolver`, `Masker`, `Masking` | resolution of overlaps, masking and restoring of one text | `Masking` extends both | checked, proved |
| 7 | `Evaluation` | the errors of an example and the sums of the report | extends `Masking` | checked, proved |
| 8 | `CleanupLifecycle` | `StartCleanup`, `Stop`, `cleanupLoop` | — | checked, proved |
| 9 | `Scenario`, `LoadRun`, `Runner`, `Scheduler`, `LoadTest` | the load generator: steps and their dependencies, one operation, the two drivers, a run | each extends the ones before; `LoadTest` both drivers | checked, proved |
| 10 | `Startup` | configuration, registry and `main`, from the start to the deferred stops | — | checked, proved |

Runs: one per question, no more; a property of a new module that answers the
same question as an old one joins its run.

`Totals` (sums over sets) and `Sorting` (what `sort.Slice` returns) are data that
several modules use; `Data_proofs` has the lemmas about them. The plan is done but
for what the provers cannot reach; the end of "What is proved" names it.

## The store: modules and code

`MemoryStore.tla` has one client per request goroutine. The client looks its
key up, may run one `Create`, and may restore, however late, the record it was
given. One action is one critical section of `Memory.mu` with the goroutine's
own code around it.

| State | Code |
|---|---|
| `entries`, `bytes`, `nextVer` | `Memory.entries`, `.bytes`, `.nextVer` |
| `expiries` | `expiryQueue` with `expiryIdx`; a set, because only which node is earliest matters |
| `inflight` | `Memory.inflight`; the creator stands for its struct |
| `infs` | the `inflight` structs; `done` is the closed channel |
| `reservedBytes`, `reservedEntries` | the fields of these names |
| `pc`, `waitOn`, `ret`, `held`, `cancelled` | where each goroutine is, the struct it blocks on, what its call returned, its context |
| `cleaner` | between two ticks or between two batches of `drainAll` |

| Action | Code |
|---|---|
| `GetHit`, `GetExpired` | `Get`, 312-327. A miss changes nothing; it is `Call` that follows |
| `CreateCancelled`, `CreateFindsRecord`, `CreateEvicts`, `CreateWaits` | one turn of `Create`'s loop, 363-424 |
| `BecomeCreator`, `RefuseReservation` | 399-424 with `reserveCapacityLocked` and its drain |
| `BuildFails` | 426-434: build error or cancelled context, `failInflight` |
| `Publish`, `RefusePublish` | 436-462 with `publishCapacityLocked` and its drain |
| `FinishPublished`, `FinishRefused` | `finishInflight`, the critical section after that |
| `WaitGetsRecord`, `WaitRetries`, `WaitGetsError`, `WaitCancelled`, `WaitTimesOut` | `waitInflight` |
| `MarkRestored` | `MarkRestored`, with the record of an earlier answer |
| `CleanupTick`, `CleanupBatch` | `cleanupLoop`, `drainAll`: the mutex is free between two batches |
| `Tick`, `Cancel` | the clock; the end of a request's context |

Texts, masks and replacement tables are a client (who built them) and a size.
Go's `select` takes any ready case, so a waiter whose result is there may still
time out. `RecordExpiry`, `IsExpired`, the two capacity tests and the drain are
operators with the names and the conditions of the code. Operators named `Bug...`
are no part of the model; each is a mistake in the definition after it that a
property is known to catch.

`Correspondence.tla` says what the interface promises (87-117) without any of
this: per key a record goes from absent through being built to pending and to
the replay phase, one builder at a time, and leaves only after its deadline.
`MemoryStore` implements it under the mapping in its last section.

`Totals.tla` has the sum used in the accounting, by counting cells instead of
recursion, so that it can be proved about, and `Balance`, the same sum of numbers
of either sign. `MCMemoryStore.tla` and
`MCStoreEvents.tla` only supply constants.

### Events and gauges

`StoreEvents.tla` adds what the store tells its observer. Each critical section
works its events out under the mutex and reports them after it (691-797), so the
other goroutines may move, remove or replace the record before the report
arrives.

| State, action | Code |
|---|---|
| `gauges` | the gauges of `internal/metrics`: records and bytes by phase, and the count of expired records |
| `owed` | the `pendingEvents` an actor carries out of the critical section |
| `Reports` | the actions that evict, publish, refuse or restore, with `Evictions` (748-761), `Addition` (789-797) and `Move` (602-611) |
| `Silent`, `Surroundings` | the actions that report nothing |
| `Delivers` | `flush`, 763-787, before the actor's next step |
| `CleanupActs` | `drainAll`, 668-678 |

A gauge may show less than is there, even less than nothing, for as long as an
addition is under way; `GaugesAgree` says that gauge and events under way
together are exact.

## The application service

`Service.tla` extends `MemoryStore`: a client is one HTTP request that has
reached `app.Service`, and each of its steps is a step of the store, a step of
the goroutine between two calls of the store, or both. So every interleaving of
the store is there while requests look up, create, compare and restore.

| State | Code |
|---|---|
| `request` | the arguments of `Process`, `Mask`, `Restore`; chosen once from `Workloads` |
| `stage` | before the lookup, after a hit, after a miss, inside `create`, answered |
| `answer` | `Result` or the error |
| a record's original, mask and table | what its author's build closure made: `Original`, `Masked`, `Substitute` |

| Action | Code |
|---|---|
| `Deny` | `consumer` (358-369) and the right each operation checks |
| `Lookup`, `LookupMisses`, `CallCreate` | `Get` and the miss: 210-228; `Restore` answers not found, 326-331 |
| `InCreate`, `CreateFailed`, `CreateSucceeded` | `create` (433-451) and the store's actions inside it |
| `GiveUpWaiting`, `Disconnect` | `CreateWait`; the end of the request's context |
| `RepeatMask`, `RestoreExact`, `RestoreMarkers`, `Conflict` | the comparisons of `Process` (229-255), `Mask` (298-309), `Restore` (333-354), with their `MarkRestored` |

Texts are model values with the two relations the service can tell apart: which
mask a text has in a format, and what substitution makes of a text. `t1` and `t2`
differ in their personal data only and so have one mask; `mix` is a text with the
marker of that mask in another place. A failing recognizer is a failing build.

## One text: resolution, masking, restoring

`Resolver.tla` is `ResolveWithPriority`, `Masker.tla` is `Mask`, `Stars` and
`Restore` with marker choice and range merging, `Masking.tla` the pipeline of
`Service.mask` and `maskFor` over them. A text is a sequence of bytes, so
that broken and nested markers, numbers of two digits and leading zeros are
real; `"r1"`, `"r2"` are the bytes of one rune, and texts are of whole runes because
they are decoded from JSON (`ProperInput`). What the recognizers found is part of the
input: any ranges, also ones the text does not have and empty ones, which a
configured pattern may match. `Refuse`, `Resolve` and `MaskText` are `Service.mask`
and `maskFor`, `RestoreText` is `masker.Restore`. A loop of the code is a recursive
function of how far it has come: `Outs`, `Mergings`, `Scans`, `Numbers`,
`Replacements`, `Rests`.

The properties say what a mask is without ranges, orders or scans, so they are a
second definition of the same function. They speak of places: the bytes of the text
and the gaps around them. An empty range hides a gap, any other its bytes and all
gaps at them, so ranges that overlap or touch hide one run of places, and
`MasksExactly` asks for one marker for each run.

`Prefix` is the configured prefix, any text that is not empty. `PlainPrefix` says
that it has no bracket, as the shipped one; the code does not ask for it, so it is
a hypothesis where something rests on it and no assumption.

`Evaluation.tla` puts an annotated example on top: the same text goes through the
pipeline and its outcome is compared with the markup.

| State, action | Code |
|---|---|
| `expected` | the ranges of the example's markup, valid by `ValidMarkup` (eval.go 336-361) |
| `result` | `ErrorsOf`: the errors of one example (61-136) with `UnchangedOK` (220-242) |
| `report` | `Accumulated`: the sums of one example by type, of the categories and of the whole (138-209) |
| `Judge` | one turn of `Evaluate`'s loop (48-59) after the masking |

The code counts twice, once for the list of errors and once for the sums.
`ReportIsHonest` says that the two agree: the sums are clean if and only if there
is no error, and without one exactly the expected ranges were masked under their
types. One case is excepted because the code has it: a text that is refused and
empty has no bytes to restore, so with nothing expected its sums are clean while it
is in error.

## Admission

`Admission.tla` is `Handler.handle` for connections that each carry one request
after another. `at` is the place in the function; leaving walks back through the
deferred releases that were registered.

| State | Code |
|---|---|
| `active` | `len(Handler.active)`, the slot channel |
| `gauge` | the gauge of active requests (190-191) |
| `used`, `share` | `workingBudget.used`; the estimate of this request |
| `reply`, `outcome` | the status written; the outcome recorded |
| `kind`, `length` | what is wrong with the request; its `Content-Length`, -1 when absent |

| Action | Code |
|---|---|
| `Accept`, `RefuseMethod` | 171-183 |
| `TakeSlot`, `RefuseSlot` | `acquire`, 185-189 and 234-245 |
| `CountActive`, `RefuseKey` | 190-201 |
| `TakeShare`, `RefuseShare` | 203-214 and `workingBudget.acquire` |
| `Decode`, `DecodeFails` | 216-220 and `decodeRequest` |
| `Serve`, `ServeFails` | 222-231, with the two switches over errors, 319-338 and 358-381 |
| `ReleaseShare`, `CountLeft`, `ReleaseSlot` | the deferred calls, last registered first |

Sums of bytes are machine integers: they wrap at `Word`, 2^63 in the code.

## The life of the cleanup

`CleanupLifecycle.tla` has callers that run sequences of `StartCleanup` and
`Stop`, and the goroutines these start. The g-th start makes the g-th pair of
`stopCh` and `doneCh`. `cleanupLoop` reads both fields without the mutex while a
later start may write them; this data race is a choice of any pair from the
goroutine's own to the newest. `newest`, `stopped` and `done` are the channels,
`loops` the goroutines, `awaited` the channel a `Stop` captured. `Start`,
`StartedAlready`, `StopLoop`, `StoppedAlready` are the critical sections of 615-644,
`Await` is 645; `LoopBegins`, `LoopSelects`, `Tick`, `DrainEnds`, `LoopStops`
are `cleanupLoop`. A closed channel closed again ends the program (`panicked`).

## The load generator

`Scenario.tla` is scenario.go: the scenarios `sequential`, `maskDominant` and
`restoreDominant` behind `Next` and `Complete`. A turn of `Next` and a call of
`Complete` hold the scenario's mutex and are one step each; between two turns a
caller sleeps in `notify.wait`.

| State | Code |
|---|---|
| `nextPair`, `pending`, `inFlight`, `data`, `retries` | the fields of these names and the tables of texts and masks |
| `delays` | the pairs whose `readyAt` is still to come, in its order |
| `budgets` | restores left of each prepared pair |
| `asleep`, `signalled`, `timer` | callers in `notify.wait`; their closed channels; what their timers wait for |
| `config` | what the command line chose; no step changes it |

| Action | Code |
|---|---|
| `Gives` | a turn of `Next` that returns a step: 200-239, 386-407 with `tryRestoreLocked` 448-474, 584-610 |
| `Ends`, `Waits` | 240-252, 408-424 with `waitDurationLocked`; 98-139 |
| `GivesUp` | a wait that the context ends |
| `Complete` | 277-313, 478-515 with `dropPair` and `removePending`; `Remaining` is the list without some pairs, 517-531 |
| `DelayEnds` | the clock reaches the earliest `readyAt` |

`LoadRun.tla` is what both drivers do with a step; runner.go and scheduler.go
each write it out.

| State, action | Code |
|---|---|
| `ctx`, `hard`; `CtxEnds`, `Watch` | the run context and `hardCtx` with its watcher, runner.go 104-127 |
| `pc`, `step`, `attempts`, `taken`, `resp` | where a worker is in `sendWithRetry`, and its variables |
| `invalid`, `stopped` | `consecutiveInvalid`, `stopReason` |
| `slots`, `due`, `emitting`; `Tick`, `Emit` | pacer.go: the slot channel, the accrual, a round of emissions, 102-170 |
| `TakesSlot`, `CtxDone` | `Wait`, 172-182; `select` takes either when both are ready |
| `Answered`, `Backoff`, `Pays` | `sendWithRetry`, runner.go 197-235; `Send` is `client.Send` with its classification |
| `Finish` | `record` (`Verdict`, 250-279) and `Complete` |
| `CheckStop` | `checkStop`, 297-320 |

`Runner.tla` adds a worker of the closed loop (`AwaitsSlot`, `Pulls`),
`Scheduler.tla` the producer, its queue and the workers of the open loop
(`Produces` 200-245, `TakesStep` 247-258; a step that finds the queue full is
`skipped` and never completed). `LoadTest.tla` is one run: which driver drives
which scenario (cmd/loadtest/main.go), and `Returns`.

## The start and the end of the service

`Startup.tla` is `main` of cmd/pii-service. A `GoesOn` is the next statement, an
`Exits("error")` is a `os.Exit(1)`, which runs no deferred call. The environment
is the settings, each unset, malformed, not positive or positive, and the
consumers' file. A name is a sequence of parts so that a colon in it can be seen;
a secret is a key with or without white space around it.

| State | Code |
|---|---|
| `at`, `exit` | the place in main; how the process ended |
| `rules`, `accepted`, `secrets`, `consumers` | `Registry.rules`; main's copies and `apiKeys`; `Service.consumers` |
| `cleanup` | the cleanups of the two stores |
| `listener`, `signalled`, `request` | the HTTP server; the caught signal; requests being handled |

| Action | Code |
|---|---|
| `LoadsConfiguration` | main.go 25-34 with `Load`, `LoadConsumers`, `resolveSecret` and `Validate` |
| `RegistersRule` | 35-40 with registry.go 67-87 |
| `AcceptsConsumer` | 63-81 with `RecognizersFor` |
| `StartsCleanups` | 85-110 |
| `BuildsService` | `NewManaged`, app.go 144-178 |
| `StartsServer`, `Listens` | 117-137; the server itself is external |
| `Arrives`, `Answers` | authentication, httpapi.go 74-88; a request enters and leaves |
| `Signal` | before 130-131 it kills the process, afterwards main catches it |
| `ServerFailed`, `ShutsDown`, `ShutdownReturns` | 139-153; `Shutdown` waits for requests or for its timeout |
| `StopsCleanups`, `Returns` | the deferred `Stop`s of 109-110, last one first, and 154-155 |

## What the runs check

| Run | Question | Instance |
|---|---|---|
| `race` | Do records, versions, deadlines, counters, waiters and gauges stay consistent when two requests race for a key and a third works on another, and does the store implement `Correspondence`? `TypeOK`, `ExpiryIndex`, `Accounted`, `WithinLimits`, `CreatorOwnsKey`, `NoLostWaiter`, `VersionsIdentify`, `GaugesAgree`, `OnlyExpiredRecordsLeave`, `RestoredByItsReader`, `KeepsPromise` | 2 keys, 3 clients, TTL 2, replay 1, 4 bytes, 3 of one record, clock to 4 |
| `service_requests` | Does a request get only what belongs to it, and is a record completed only by its restore? `ServiceTypeOK`, `MasksOwnText`, `RestoresWhatWasMasked`, `OneOriginalPerRecord`, `CompletedByRestore` | 1 key, 3 requests, every workload of three requests with 7 texts and 6 consumers |
| `service_answers` | Is every request answered and every expired record reclaimed? `RequestsAnswered`, `ExpiredReclaimed` | 1 key, 3 requests with one text, no `CreateWait`, TTL 1, clock to 2 |
| `masking_texts` | Is a mask what it must be, does it give the text back, and does the evaluation report what is wrong? `MasksExactly`, `RestoresText`, `FailsClosed`, `HighestTypeWins`, `ReportIsHonest` | texts of up to 4 pieces with 2 fragments; a short text with up to 3 fragments of 4 types; empty fragments among them; markups beside them |
| `admission_pipeline` | Is everything taken given back once on every way out, and does nobody wait? `HandlerTypes`, `CapacityAccounted`, `SharesAccounted`, `LengthsBounded`, `AnswersRecorded`, `NobodyWaits` | 3 connections, 2 slots, budget 18, lengths -1, 0, 2 |
| `lifecycle_orderly` | Is there one cleaner and no double close, and does `Stop` return with its goroutine gone? `OneCleaner`, `StopWaits`, `StopReturns` | restarts by one caller; stops of one cleanup by three |
| `load_runs` | Is each pair in one place, each request paid for, nothing restored twice, nothing left behind, and does the run end? `LoadTypes`, `PairsAccounted`, `SendsArePaced`, `RestoredOnce`, `ExhaustedMeansDone`, `RunReturns` | 2 pairs; two workers in the closed loop (1 pair or 1 prepared pair except in `sequential`), a worker and the producer in the open one; all three scenarios, with and without restore delays; 2 attempts, a queue of 1 |
| `startup_environments` | Does what serves take its whole configuration and keep consumers apart, and is the end orderly? `ServesWholeConfiguration`, `GracefulExit` | valid configurations and one or two faults at a time; 2 settings, 2 consumers, 2 rules, 2 connections |
| `expired_stays`, `admission_wrap`, `load_stall`, `load_stop` | violated: see the findings | the smallest that show it |

### Bounds

Store. Two requests for one key and one for another are the smallest instance
with a creator, a waiter and a competitor for the budget; after a retry a waiter
can become the creator another one waits for. The clock needs
TTL + ReplayTTL + 1 steps to see a record pending, restored, expired and its
key re-created. `DrainBatch = 1` makes every drain a bounded one. `Extras` has a
finished record that fits its reservation and one that exceeds it (and
`MaxRecordBytes`). The limit of bytes refuses reservations and publications; two
keys never exceed two entries, and what `MaxEntries` does when it binds is left to
the proofs. Each client runs one `Create`: a second is another client.
`MaxClock` bounds the clock and nothing else is bounded. TTL 0 and a limit of 0
take other branches of the code; the theorems cover them.

Service. Three requests are two that conflict and one that restores, in every
order; a second key adds nothing to what the service compares. The texts hold a
pair with equal masks, a text without personal data, a mask sent as a text and a
mixed text; the consumers hold both formats and one of each denial.

Masking. Four pieces put two whole markers side by side or a broken one in front
of a masked range; three fragments are a chain of overlaps whose middle one
decides the type. The invalid fragments are out of bounds, negative, or cut a rune.
The empty ones are put in texts of up to two pieces and in the short text, next to,
inside and equal to others. The prefix is one letter; the theorems cover the rest.

Admission. Three connections make two slots a limit; two shares of 8 fit a
budget of 18, a share of the default for an unknown length (16) fits alone. The
lengths are unknown, empty and known.

Life cycle. `MostStarts` is the number of starts in the longest program.

Load generator. Two pairs are two steps that can overtake each other and, with
delays, two that wait; two workers of `maskDominant` have one pair and those of
`restoreDominant` one prepared pair, which is where they meet, and the theorems cover
what is larger; two attempts are a retry and its end; two consecutive
invalid answers stop the run. A queue of one step drops the second. `Unit`,
`MaxBurst`, `SlotQueue` of 1 and ticks worth one or two slots let the accrual, the
burst limit and the full channel each cut a tick off. The answers are right, wrong
and a body that breaks off, which keeps its status; the other statuses are retried
or not by the same two conditions. Only the deadline ends the context in the runs;
a cancellation differs in the grace period alone.

Start. Every field of a consumer or a rule takes each of its faulty values, beside
a sound consumer too, and each setting is malformed or not positive. Two payload
ids, one with a colon, and names with one are what could make two keys one.

Symmetry. Clients with the same key and size, maskers, and connections are
interchangeable and form symmetry sets in safety runs; runs with a liveness
property use none. The lifecycle and masking runs switch deadlock off because
callers run out of calls and a text is masked once.

### Fairness

* `FairServiceSpec`: the goroutine of a request runs when it can, weak fairness
  for each of its steps; a build returns (recognizers are finite loops over the
  text); the ticker of the cleanup ticks. No client is assumed to disconnect,
  and the clock need not advance, so `RequestsAnswered` does not rest on a timeout.
* `FairLifecycleSpec`: goroutines run; a caller in `Stop` goes on. A tick and a
  closed `stopCh` may be ready together and `select` picks at random, hence
  strong fairness of `LoopStops`.
* `FairLoadSpec`: each worker and the producer go on, the HTTP client's timeout
  ends an attempt, the pacer ticks and restore delays run out, `Run` returns when its
  goroutines have. The end of the context is not assumed: `RunReturns` asks for it or
  for a closed loop without delays.
* `Admission` needs none: `NobodyWaits` says that a request can always take its next
  step, and each step is nearer to the end. `ObservedSpec`, `StartupSpec` and
  `EvaluationSpec` serve safety only.

### Where the documents and the code disagree

| Run | Finding |
|---|---|
| `expired_stays` | `README.md:360` says that after its TTL a pending record's key is new. `MarkRestored` (591-599) does not look at the deadline, so a restore under way revives an expired record nobody has evicted yet. |
| `admission_wrap` | httpapi.go:203-207 says the shares bound the memory of concurrent large payloads. Line 482 multiplies the declared length by four in int64 before anything looks at it, so lengths from 2^61 ask for a small or negative share. With lengths for which nothing wraps the comment is right: `LengthsBoundedHolds` proves it. |
| `load_stall` | scenario.go:255-256 says a wait of 0 means that no pair waits out a delay, and 29-32 that `Next` blocks until a step is ready. Line 267 (438 in `maskDominant`) returns 0 as soon as one pair is ready as well, 117-138 take 0 as no timer, and `Next` looks at one pair per turn: with two delayed pairs every caller may sleep beside a ready one until the context ends. |
| `load_stop` | runner.go:100-101 says that the compatibility check ends every worker together. It calls `hardCancel`, which ends requests in flight; pacer and scenario are asked under `ctx`, which stays open, so the others go on taking steps, each of which is cancelled at once. |

Noted while reading, with no run:

* store — a restore shortens a record's life when ReplayTTL is short (110 says it
  extends it; 596). One bounded drain may free less than a reservation needs
  although every record is expired (407-412, described as bounded). A
  `StartCleanup` beside a `Stop` can make it wait for ever (632-633 against 652 and
  656); the service starts each cleanup once.
* app — a mask that outlived its record is a new text (`README.md:360` and 365, and
  the code), where `README.md:348` says 409.
* masker — a prefix that contains `]` makes `Restore` end markers early (120), and
  with one such as `x_[x` the scan jumps over a marker that begins inside an opening
  it has seen (173), so that its number is handed out again although 9-10 and 41-42
  say that markers never collide; config.go:272 asks only that it be not empty. An
  empty range gets a marker that stands for nothing (57-64).
* main — two consumers with one secret: the later one gets it (80). A secret from a
  variable keeps its white space and then matches no request (consumers.go:138-143).
  Of two rules with one type only the first is used (registry.go:126-135). A signal
  that races a failed bind exits 0 (139-153).
* loadgen — a restore that the scheduler skips stays in flight, so its pair is never
  restored (scheduler.go:231-235). `maskDominant` may report exhaustion while masks
  are in flight (416), the caller that saw it leaving the rest to the others.
  `late` is never incremented (scheduler.go:44). A body that cannot be read keeps
  its status and so may be retried, or not, by it (client.go:130-133).
* eval — `unchangedOK` calls a text with a marker-like substring changed
  (eval.go:239) although the masker leaves it alone (fuzz_test.go:53, 149). A
  refused text that is empty fails its example but adds nothing to the failures of
  restoring (138-209).

## What is proved

`MemoryStore_proofs.tla`, for any finite sets of keys and clients, any limits
(each may be 0), TTLs (0 is never), sizes, drain batch and clock bound (`KeysAssumption`,
`LimitsAssumption`, `SizesAssumption`; TLC evaluates them in every run):

| Theorem | States |
|---|---|
| `TypesHold` | `TypeOK`: in particular no counter goes negative |
| `ExpiryIndexHolds` | one queue node per record with a deadline, at that deadline |
| `AccountedHolds` | the byte and reservation counters are the sums they stand for |
| `WithinLimitsHolds` | records and reservations together keep both limits |
| `CreatorOwnsKeyHolds` | one creator per key, and only for an absent key |
| `NoLostWaiterHolds` | who a waiter waits for has delivered or still will |
| `OnlyExpiredRecordsLeaveHolds` | no step removes or replaces a live record |
| `PromiseKept` | `Spec` implements `Correspondence` |

The argument. `WithinLimits` speaks of the stored records; the code tests
counters. So it is inductive only with the exactness of the counters
(`Accounted`), which needs that a publication
overwrites nothing (`CreatorOwnsKey`), which in turn needs to know who is mapped
at each program counter (`CreatorsMatch`). The inductive invariant `IInv` is the
conjunction of these with the types, the counters' own limits
(`CountersWithinLimits`), the queue in both directions (`NodesMatch`), version
bounds (`StoredVersions`) and `NoLostWaiter`. Each part has a lemma for each
group of actions that can disturb it. The sums move by the lemmas of
`Data_proofs.tla` (a sum over a union, over a set less an element, and
monotonicity), themselves proved from the cardinality theorems.

For the refinement every action is shown to be one step of `Correspondence` or a
stutter: `BecomeCreator` is `Begin`, `Publish` is `APublish`, the failing ends
of a build are `Abandon`, `MarkRestored` that marks is `Restore`, and whatever
evicts forgets lapsed records in the same step.

Its last sections, on the same assumptions:

| Theorem | States |
|---|---|
| `VersionsIdentifyHolds` | a version stands for one record among all that clients hold, wait for or were given and the store keeps |
| `RestoredByItsReaderHolds` | a record enters its replay phase only in a call that was given that very record |

Records are copied: into a struct, a return value, a client's hands. `VersionInv`
speaks of all copies at once (`Copies`): no version exceeds the counter, copies with
one version have one origin (author, creation, size), and the stored records of
two keys have two versions. A step either only copies or is a publication, which
alone makes a version; each has one lemma. `RestoredStays` says that a replayed
record stays replayed, for `MarkRestored` compares versions.

The same module, of the reporting store and on the same assumptions:

| Theorem | States |
|---|---|
| `ObservedStore` | every behaviour of the reporting store is one of `MemoryStore`, so what is proved of the store holds of it |
| `GaugesAgreeHolds` | gauges, events under way and unreported publications add up to what is stored, and every record published is stored or counted as expired |

`Books` is the invariant: what the gauges will show once all is delivered (`Final`)
is the contents (`Contents`). A critical section changes the contents and, by the
same amount, what its actor owes; a delivery moves the debt to the gauges; a
publication is counted from its critical section on, although it is reported only
after the next one. The sums over actors are of either sign (`Balance`), those
over the stored records count and add by phase; an eviction needs the version bounds
of the store to take each record out once.

`Service_proofs.tla`, on the store's assumptions and for any requests, consumers
and texts (`RequestsAssumption`, `TextsAssumption`):

| Theorem | States |
|---|---|
| `ServiceUsesStore`, `ServiceKeepsPromise` | the service's behaviours are the store's, so `Correspondence` is kept under it |
| `ServiceTypes` | `ServiceTypeOK` |
| `MasksOwnTextHolds` | a mask that is handed out is one of the request's own text |
| `RestoresWhatWasMaskedHolds` | a restored text belongs to the mask that was presented |
| `OneOriginalPerRecordHolds` | requests answered from one record agree on its original |
| `CompletedByRestoreHolds` | only a request that answers a restore completes a correspondence |

A request is answered from a record that another one may have built, and that may
have reached it through the map, a struct or a lookup. So the invariant first says
whose records they are: those of a key come from requests for that key, wherever
they are (`Authors`), and a call that succeeded was given one (`Given`); both hold
of the store itself. On top of it, where a request is in its handler fits where it is
in the store (`StagesMatch`), authors are requests that may mask (`AuthorsMask`),
and an answer follows from the record still held (`AnswersMatch`).
`OneOriginalPerRecord` rests on `VersionInv`: copies with one version have one author.

`Admission_proofs.tla`, for any finite set of connections, any limits and any
machine word (`HandlerAssumption`):

| Theorem | States |
|---|---|
| `HandlerTypesHold` | types; the slot channel keeps its capacity |
| `CapacityAccountedHolds` | slots and gauge count exactly the requests that hold them, on every way through `handle` |
| `AnswersRecordedHolds` | who leaves was answered, and the recorded outcome fits the status |
| `SharesAccountedHolds` | assuming `LengthsFit`, the budget in use is the sum of the shares of the working requests and |
| `LengthsBoundedHolds` | the true estimates of the working requests together stay within the budget |

`HandlerInv` (types, slots, gauge) is inductive by itself: each step moves one
connection across the borders of the sets that slots and gauge count. The shares need
`LengthsFit`: no estimate, alone or added to a full budget, leaves the machine
integers. It is a hypothesis and not an assumption because the code does not
ensure it; `admission_wrap` is the run without it.

`Lifecycle_proofs.tla`, for any callers and programs that are `Orderly`: one start
in all, or one caller that makes every call.

| Theorem | States |
|---|---|
| `OneCleanerHolds` | at most one cleanup goroutine is alive, and no channel is closed twice |
| `StopWaitsHolds` | a `Stop` that closed the channel returns after its goroutine |

`LifecycleInv` says that a goroutine has read no pair but its own, which the data
race alone does not give: only the newest is alive (`LoopsInv`), and while a
`Stop` waits no start is left to be called (`CallersInv`, `Ordered`). `Orderly` is a
hypothesis: a goroutine may serve the newer pair of a start beside a stop, and main
makes no such start.

`LoadTest_proofs.tla`, for any number of workers and pairs, any pacer, queue and
answers, and any configuration a command line allows (`ConfigAssumption`,
`LoadAssumption`, `QueueAssumption`):

| Theorem | States |
|---|---|
| `LoadTypesHold` | types and bounds of slots, accrual, queue and consecutive invalid answers |
| `PairsAccountedHolds` | a pair is in one place, and what is kept of it is kept only while it is somewhere |
| `SendsArePacedHolds` | a slot for each request, retries included; the closed loop pays before it has a step, the open loop after |
| `RestoredOnceHolds` | no pair is restored twice, and a prepared one only within its budget |
| `ExhaustedMeansDoneHolds` | a closed loop that reports exhaustion left nothing behind |

`LoadInv` is the conjunction of the types and

* `PaidAt`: at each place of an operation, requests sent against slots taken;
* `InvalidBounded`: the counter of invalid answers passes its threshold only by
  workers that end on it;
* `OneHolder`: a step that is not completed is with one worker, on the queue or
  dropped from it, and no two such steps are of one pair;
* `PairsFit`: the scenario's tables fit the steps it has handed out: a mask under
  way is of a pair not listed yet, a restore under way of a masked pair in flight;
* `BudgetsKept`: of a prepared pair the restores done, under way and left stay
  within the budget;
* `EndInv`: when every worker has gone without deadline or stop, the scenario is empty.

Each action keeps it by way of two summaries. A turn of `Next`, in whichever
scenario, hands out a restore of a listed pair (`RestoreIssued`), a mask of a new
pair (`MaskIssued`) or nothing, then dropping pairs at most (`NoneIssued`); a
`Complete` lists the pair (`Arrives`), forgets it (`Forgotten`) or makes it
restorable again (`Requeued`). The lists are reasoned about as sets without repetition:
`RemainingMembers` says what `Remaining` leaves of one.

`Startup_proofs.tla`, for any environment, any connections and tokens:

| Theorem | States |
|---|---|
| `GracefulExitHolds` | no cleanup stops beside a request, and "stopped" means signalled, drained and both stopped (`EndInv`) |
| `ServesWholeConfigurationHolds` | what serves took the whole file, keeps the keys of consumers apart, and lets a request act for a consumer only with its secret |

`ConfigInv` says how far main has come: the rules registered (`RulesInv`) and the
consumers accepted (`ConsumersInv`) are the first of the configured ones, and each
secret belongs to an accepted consumer; `RequestsInv` follows a request from its
secret. That keys stay apart rests on `KeysAreOfOneName`: names without a colon
before the first colon determine the name, whatever the payload id is.

`Masking_proofs.tla`, for any texts of whole runes, any finite sets of findings,
any types and priorities (`TypesAssumption`), either format and any prefix that is not
empty (`InputsAssumption`, `ExamplesAssumption`, `PrefixAssumption`):

| Theorem | States |
|---|---|
| `MasksExactlyHolds` | one marker for each run of sensitive places, every other byte where it was |
| `HighestTypeWinsHolds` | a resolved range has the highest type of what it unites |
| `FailsClosedHolds` | no text is masked around an invalid finding; with a prefix of whole runes no mask cuts one |
| `RestoresTextHolds` | with a plain prefix the mask and its table give the text back, whatever in it looks like a marker |
| `ReportIsHonestHolds` | with a plain prefix the errors and the sums of an example agree with each other and with what was masked |

The invariant `Followed` is plain: after each step there is what the step computes
of its input. The work is in what that is, for data of every size. The loops are
recursive functions over the naturals, and two lemmas of `Data_proofs.tla` serve all
of them: `Induct` (a set that has 0, and with each number up to N the next, has them
all; from the least-number principle) and `Recursion` (a function whose values follow
from those at smaller numbers exists). Each loop then has a lemma with its equations
(`OutsAre`, `MergingsAre`, `ScansAre`, `NumbersAre`, `ReplacementsAre`, `RestsAre`)
and one with its loop invariant:

* Sorting. A relation that orders any two members puts a finite set in order
  (`SortExists`), so `CHOOSE` has something to choose.
* Resolving (`ResolvedApart`, `ResolvedTypes`). After n fragments the ranges lie
  apart, in order, hide the places of the first n, and each has the highest type of
  what it unites: a later fragment extends the last range only, and one inside an
  earlier range is nested and counts no more.
* Merging (`MergedApart`). The merged ranges hide the same places and have a gap
  between each other, so they are the runs of hidden places, in order (`StartsAre`).
* Masking (`MaskIsFlat`). What is written up to a place is the flattening of
  the cells up to it. `MaskIsExact` puts these together.
* Numbers (`UsedHolds`, `DecimalIs`). A marker in the text has its number in
  `UsedMarkers`: the scan stops at each opening, and openings of a plain prefix do not
  overlap. The numbers handed out are none of these, and different numbers have
  different markers, because a decimal reads back as what it was made of.
* Restoring (`RestoreIs`), from the end of the mask to its beginning, over the places
  of the text: at a gap with a marker the table has exactly its entry; at a byte that
  is left, what `Restore` sees up to the next `]` is no marker of the table,
  because it would lie in the text with a number of the text (`HeldByText`).
* The report (`RestoredIsHonest`). A sum over types of what one side has and the
  other has not is the size of the difference of the two (`UnmatchedIs`, by
  `TotalCount`); full sums make the two sides equal, and equal sides have no
  errors. `UnchangedOK` counts once on each side and is not looked into.

Only model-checked: every liveness property (`RequestsAnswered`, `ExpiredReclaimed`,
`StopReturns`, `RunReturns`), which rests on fairness, and `NobodyWaits`, which is
stated with `ENABLED`; both are outside the prover's reach. Every other property of a
passing run is stated by a theorem.

## What is not modelled

* The recognizers: what one finds in a text is sequential string code with its
  own unit tests, and so is the search for a rule's pattern (`RegexpRule.Find`).
  The refusal of invalid ranges is in `Masking`, a recognizer that fails in `Service`.
* The transport: probes, metrics endpoint, JSON and the comparison of API keys;
  the registration and labels of the collectors.
* Of the load generator the polling of `/metrics`, the percentiles, the report, the
  random texts and the curve of the rate; of the evaluation the data set, its
  generator and the printing.
* Demo and scripts: scripted requests and packaging, without interacting state.
