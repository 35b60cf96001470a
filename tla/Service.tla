------------------------------ MODULE Service -------------------------------
(***************************************************************************)
(* The application service, app.Service (src/internal/app/app.go), on top  *)
(* of the store: /process (Process), /v1/mask (Mask) and /v1/restore       *)
(* (Restore).                                                              *)
(*                                                                         *)
(* A client of MemoryStore is one request.  Every step of a request is a   *)
(* step of the store, a step of the goroutine between two store calls, or  *)
(* both; the answer to a restore and its MarkRestored are one step, because *)
(* nothing else reads the answer.  NewManaged gives /process and the       *)
(* managed consumers a store each, so the requests of one workload are all  *)
(* "process" requests or all "mask" and "restore" requests.                 *)
(*                                                                         *)
(* The recognizers and the masker enter as functions on texts: MaskWith is *)
(* the mask of a text in a format, Substitute[o][t] is masker.Restore of t  *)
(* with the table that masking o produced.  A recognizer that fails is the  *)
(* store's failing build.                                                  *)
(***************************************************************************)
EXTENDS MemoryStore

CONSTANTS
  Texts,        \* payloads and answers
  Workloads,    \* assignments of a Request to each client
  Policy,       \* [configured consumer names -> Consumer]
  MaskWith,     \* [Formats -> [Texts -> Texts]]
  Substitute,   \* [Texts -> [Texts -> Texts]]
  NoText        \* the Text of an answer that is an error

Formats == {"marker", "stars"}

Consumer == [enabled: BOOLEAN, maskingEnabled: BOOLEAN, canRestore: BOOLEAN,
             maskFormat: Formats]

\* The scope is the name of the consumer, or "process".
Request == [op: {"process", "mask", "restore"}, scope: STRING, payload: Texts]

ASSUME RequestsAssumption ==
  /\ NoText \notin Texts
  /\ \A n \in DOMAIN Policy : Policy[n] \in Consumer
  /\ \A w \in Workloads :
       /\ w \in [Clients -> Request]
       /\ \A c, d \in Clients : KeyOf[c] = KeyOf[d] => w[c].scope = w[d].scope
       /\ \A c \in Clients : w[c].scope = "process" <=> w[c].op = "process"

\* What the recognizers and the masker give the service.
ASSUME TextsAssumption ==
  /\ MaskWith \in [Formats -> [Texts -> Texts]]
  /\ Substitute \in [Texts -> [Texts -> Texts]]
  /\ \A t \in Texts : Substitute[t][MaskWith["marker"][t]] = t

VARIABLES
  request,   \* [Clients -> Request]
  stage,     \* how far each request is in Process, Mask or Restore
  answer     \* [Clients -> [outcome, text]]

requestVars == <<request, stage, answer>>
svars == <<vars, requestVars>>

Pending == [outcome |-> "none", text |-> NoText]

----------------------------------------------------------------------------
(* Policy and the contents of a record *)

Op(c)      == request[c].op
Scope(c)   == request[c].scope
Payload(c) == request[c].payload

Managed(c) == Op(c) # "process"
Known(c)   == Scope(c) \in DOMAIN Policy
Enabled(c) == Known(c) /\ Policy[Scope(c)].enabled

\* consumer(), then the right the operation needs.
Denies(c, err) ==
  /\ Managed(c)
  /\ \/ err = "unknown_consumer" /\ ~Known(c)
     \/ err = "disabled" /\ Known(c) /\ ~Enabled(c)
     \/ /\ err = "masking_disabled" /\ Op(c) = "mask" /\ Enabled(c)
        /\ ~Policy[Scope(c)].maskingEnabled
     \/ /\ err = "restore_forbidden" /\ Op(c) = "restore" /\ Enabled(c)
        /\ ~Policy[Scope(c)].canRestore

Denials == {"unknown_consumer", "disabled", "masking_disabled", "restore_forbidden"}

Allowed(c) == \A err \in Denials : ~Denies(c, err)

Format(c) == IF Op(c) = "process" THEN "marker" ELSE Policy[Scope(c)].maskFormat

\* The record the store holds is the one its author's build closure made.
Original(rec) == Payload(rec.author)
Masked(rec)   == MaskWith[Format(rec.author)][Payload(rec.author)]

----------------------------------------------------------------------------
(* Steps of a request *)

BugAnswerAndGoOn(c, outcome, text) ==
  /\ answer' = [answer EXCEPT ![c] = [outcome |-> outcome, text |-> text]]
  /\ UNCHANGED <<request, stage>>

Answer(c, outcome, text) ==
  /\ stage' = [stage EXCEPT ![c] = "answered"]
  /\ answer' = [answer EXCEPT ![c] = [outcome |-> outcome, text |-> text]]
  /\ UNCHANGED request

Proceed(c, where) ==
  stage' = [stage EXCEPT ![c] = where] /\ UNCHANGED <<request, answer>>

Deny(c) ==
  /\ stage[c] = "start"
  /\ \E err \in Denials : Denies(c, err) /\ Answer(c, err, NoText)
  /\ UNCHANGED vars

BugLookupUnchecked(c) ==
  /\ stage[c] = "start"
  /\ GetHit(c)
  /\ Proceed(c, "found")

Lookup(c) ==
  /\ stage[c] = "start" /\ Allowed(c)
  /\ GetHit(c)
  /\ Proceed(c, "found")

\* Nothing is stored, or only an expired record.  Mask and Process go on to
\* Create, Restore reports that there is no correspondence.
BugLooksAgain(c) ==
  /\ stage[c] = "start" /\ Allowed(c)
  /\ \/ entries[KeyOf[c]] = NoRecord /\ UNCHANGED vars
     \/ GetExpired(c)
  /\ UNCHANGED requestVars

LookupMisses(c) ==
  /\ stage[c] = "start" /\ Allowed(c)
  /\ \/ entries[KeyOf[c]] = NoRecord /\ UNCHANGED vars
     \/ GetExpired(c)
  /\ IF Op(c) = "restore" THEN Answer(c, "not_found", NoText)
                          ELSE Proceed(c, "missed")

CallCreate(c) ==
  /\ stage[c] = "missed"
  /\ Call(c)
  /\ Proceed(c, "creating")

\* Create runs; it returns by reaching pc "done".
InCreate(c) ==
  /\ stage[c] = "creating"
  /\ EnterStep(c) \/ BuildStep(c) \/ FinishStep(c) \/ WaitStep(c)
  /\ UNCHANGED requestVars

\* The timer and the context while Create waits.
GiveUpWaiting(c) ==
  /\ stage[c] = "creating"
  /\ WaitCancelled(c) \/ WaitTimesOut(c)
  /\ UNCHANGED requestVars

Returned(c, rets) == stage[c] = "creating" /\ pc[c] = "done" /\ ret[c] \in rets

CreateFailed(c) ==
  /\ Returned(c, {"capacity", "busy", "build", "context"})
  /\ Answer(c, ret[c], NoText)
  /\ UNCHANGED vars

BugCreatedAlways(c) == Returned(c, {"created", "existing"})
MadeTheRecord(c) == Returned(c, {"created"})

CreateSucceeded(c) ==
  /\ MadeTheRecord(c)
  /\ Answer(c, "mask", Masked(held[c]))
  /\ UNCHANGED vars

\* The request compares its text with a record: one it found, or one that
\* another request published while this one was in Create.
Compares(c) ==
  \/ stage[c] = "found"
  \/ Returned(c, {"existing"})

IsOriginal(c) == Payload(c) = Original(held[c])

IsMask(c)     == Payload(c) = Masked(held[c])

\* Whether the record's phase changes is the store's decision.
MarksRecord(c) ==
  \/ MarkRestored(c)
  \/ ~Marks(entries[KeyOf[c]], held[c].version) /\ UNCHANGED vars

AsksForMask(c) ==
  \/ Op(c) = "process" /\ IsOriginal(c)
  \/ Op(c) = "mask" /\ (IsOriginal(c) \/ IsMask(c))

RepeatMask(c) ==
  /\ Compares(c)
  /\ AsksForMask(c)
  /\ Answer(c, "repeat", Masked(held[c]))
  /\ UNCHANGED vars

\* Exactly the stored mask: Process, and Restore with the stars format.
RestoreExact(c) ==
  /\ Compares(c)
  /\ \/ Op(c) = "process" /\ ~IsOriginal(c)
     \/ Op(c) = "restore" /\ Format(held[c].author) = "stars"
  /\ IsMask(c)
  /\ MarksRecord(c)
  /\ Answer(c, "restore", Original(held[c]))

Substituted(c) == Substitute[Original(held[c])][Payload(c)]

BugCompletes(c) == MarksRecord(c)

\* A restore that substituted nothing does not complete the pair.
Completes(c) == IF Substituted(c) # Payload(c) THEN MarksRecord(c) ELSE UNCHANGED vars

\* Restore with the marker format: own markers in any text.
RestoreMarkers(c) ==
  /\ Compares(c)
  /\ Op(c) = "restore" /\ Format(held[c].author) = "marker"
  /\ Completes(c)
  /\ Answer(c, "restore", Substituted(c))

Conflict(c) ==
  /\ Compares(c)
  /\ ~IsMask(c)
  /\ \/ Op(c) \in {"process", "mask"} /\ ~IsOriginal(c)
     \/ Op(c) = "restore" /\ Format(held[c].author) = "stars"
  /\ Answer(c, "conflict", NoText)
  /\ UNCHANGED vars

Disconnect(c) == stage[c] = "creating" /\ Cancel(c) /\ UNCHANGED requestVars

Background == (CleanupTick \/ CleanupBatch) /\ UNCHANGED requestVars

Clock == Tick /\ UNCHANGED requestVars

AllAnswered == (\A c \in Clients : stage[c] = "answered") /\ UNCHANGED svars

----------------------------------------------------------------------------
(* Specification *)

ServiceInit ==
  /\ Init
  /\ request \in Workloads
  /\ stage = [c \in Clients |-> "start"]
  /\ answer = [c \in Clients |-> Pending]

\* The steps of a request that only wait for the processor.
RequestStep(c) ==
  \/ Deny(c)
  \/ Lookup(c)
  \/ LookupMisses(c)
  \/ CallCreate(c)
  \/ InCreate(c)
  \/ CreateFailed(c)
  \/ CreateSucceeded(c)
  \/ RepeatMask(c)
  \/ RestoreExact(c)
  \/ RestoreMarkers(c)
  \/ Conflict(c)

ServiceNext ==
  \/ \E c \in Clients : RequestStep(c) \/ GiveUpWaiting(c) \/ Disconnect(c)
  \/ Background
  \/ Clock
  \/ AllAnswered

ServiceSpec == ServiceInit /\ [][ServiceNext]_svars

\* Request goroutines that can run are run, the cleanup's ticker ticks.  Clients
\* do not hang up and timers do not fire of necessity.
FairServiceSpec ==
  /\ ServiceSpec
  /\ \A c \in Clients : WF_svars(RequestStep(c))
  /\ WF_svars(Background)

----------------------------------------------------------------------------
(* Invariants *)

Answered(c, outcomes) == answer[c].outcome \in outcomes

Outcome ==
  {"none", "mask", "repeat", "restore", "conflict", "not_found",
   "capacity", "busy", "build", "context"} \cup Denials

ServiceTypeOK ==
  /\ request \in [Clients -> Request]
  /\ stage \in [Clients -> {"start", "found", "missed", "creating", "answered"}]
  /\ answer \in [Clients -> [outcome: Outcome, text: Texts \cup {NoText}]]
  /\ \A c \in Clients : stage[c] = "answered" <=> ~Answered(c, {"none"})

\* A request that asked for a mask gets the mask of its own text, whoever built
\* the record; the managed endpoint may also give a stored mask back as it is.
\* No interleaving hands out the mask of somebody else's text.
MasksOwnText ==
  \A c \in Clients :
    Answered(c, {"mask", "repeat"}) =>
      \/ answer[c].text = MaskWith[Format(c)][Payload(c)]
      \/ Op(c) = "mask" /\ answer[c].text = Payload(c)

\* A restored text was sent by a request of the same key that was allowed to
\* mask it, and the restoring request presented the mask of exactly that text
\* (or, in the marker format, a text to substitute its values into).
RestoresWhatWasMasked ==
  \A c \in Clients :
    Answered(c, {"restore"}) =>
      /\ Allowed(c)
      /\ \E d \in Clients :
           /\ KeyOf[d] = KeyOf[c] /\ Op(d) # "restore" /\ Allowed(d)
           /\ \/ /\ Payload(c) = MaskWith[Format(d)][Payload(d)]
                 /\ answer[c].text = Payload(d)
              \/ /\ Op(c) = "restore" /\ Format(d) = "marker"
                 /\ answer[c].text = Substitute[Payload(d)][Payload(c)]

\* One correspondence holds one original: /process requests that got masks out
\* of the same record sent the same text; all others got a conflict.
OneOriginalPerRecord ==
  \A c, d \in Clients :
    /\ Op(c) = "process" /\ Op(d) = "process"
    /\ Answered(c, {"mask", "repeat"}) /\ Answered(d, {"mask", "repeat"})
    /\ held[c].version = held[d].version
    => Payload(c) = Payload(d)

\* A record is in the replay phase only because an allowed request was answered
\* with its restored text: wrong texts, denied requests, the no-PII case of
\* /process and a substitution that changed nothing leave the phase alone.
CompletedByRestore ==
  \A k \in Keys :
    entries[k].restoredAt # 0 =>
      \E c \in Clients :
        /\ KeyOf[c] = k /\ Allowed(c)
        /\ Answered(c, {"restore"})
        /\ held[c].version = entries[k].version
        /\ \/ answer[c].text # Payload(c)
           \/ Op(c) = "restore" /\ Format(c) = "stars"

----------------------------------------------------------------------------
(* Liveness *)

\* Every request is answered.
RequestsAnswered == \A c \in Clients : stage[c] # "answered" ~> stage[c] = "answered"
=============================================================================
