----------------------------- MODULE Admission ------------------------------
(***************************************************************************)
(* The request pipeline of the HTTP layer, Handler.handle                  *)
(* (src/internal/httpapi/httpapi.go): a slot of the active-request limit,   *)
(* the gauge of active requests, a share of the working-memory budget, the  *)
(* call of the service and the one answer, and the deferred releases in the *)
(* order Go runs them, last registered first.                              *)
(*                                                                         *)
(* A conn is a connection that carries one request after another, as       *)
(* net/http serves it.  Bodies are abstracted to their declared length; the *)
(* service answers whatever it may answer (module Service).  Sums of bytes  *)
(* are machine integers: Word is 2^63 in the code.                         *)
(***************************************************************************)
EXTENDS Integers, FiniteSets, Totals

CONSTANTS
  Conns,        \* connections
  MaxActive,    \* capacity of Handler.active
  TotalBudget,  \* workingBudget.total; not positive disables the budget
  MaxBody,      \* Handler.maxBody
  Lengths,      \* Content-Length values; -1 when the request declares none
  Word          \* the machine integers are -Word .. Word - 1

ASSUME HandlerAssumption ==
  /\ IsFiniteSet(Conns)
  /\ MaxActive \in Nat
  /\ MaxBody \in Nat \ {0}
  /\ Word \in Nat \ {0}
  /\ TotalBudget \in -Word .. Word - 1
  /\ Lengths \subseteq -1 .. Word - 1

VARIABLES
  at,        \* where the request of each connection is
  kind,      \* what is wrong with it: "method", "key", "body" or "nothing"
  length,    \* its declared length
  share,     \* what it asks of the working budget
  reply,     \* the status written for it, 0 while there is none
  outcome,   \* the outcome recorded for it
  active,    \* len(Handler.active)
  gauge,     \* the gauge of active requests
  used       \* workingBudget.used

hvars == <<at, kind, length, share, reply, outcome, active, gauge, used>>

----------------------------------------------------------------------------
(* Arithmetic *)

Wrap(n) == ((n + Word) % (2 * Word)) - Word

\* estimateWorkingBytesFromBody
BugEstimate(l) == Wrap(4 * IF l <= 0 THEN 0 ELSE l)

Estimate(l) == Wrap(4 * IF l <= 0 THEN MaxBody ELSE l)

----------------------------------------------------------------------------
(* Errors of the service, their outcomes and statuses: two switches *)

ServiceErrors ==
  {"canceled", "conflict", "capacity", "busy", "unknown_consumer", "disabled",
   "masking_disabled", "restore_forbidden", "not_found", "other"}

BugOutcomeForError(err) ==
  CASE err = "canceled"         -> "cancel"
    [] err = "conflict"         -> "conflict"
    [] err = "capacity"         -> "overload"
    [] err = "unknown_consumer" -> "unauthorized"
    [] err \in {"disabled", "masking_disabled", "restore_forbidden"} -> "forbidden"
    [] err = "not_found"        -> "not_found"
    [] OTHER                    -> "error"

OutcomeForError(err) ==
  CASE err = "canceled"             -> "cancel"
    [] err = "conflict"             -> "conflict"
    [] err \in {"capacity", "busy"} -> "overload"
    [] err = "unknown_consumer"     -> "unauthorized"
    [] err \in {"disabled", "masking_disabled", "restore_forbidden"} -> "forbidden"
    [] err = "not_found"            -> "not_found"
    [] OTHER                        -> "error"

StatusForError(err) ==
  CASE err = "conflict"             -> 409
    [] err \in {"capacity", "busy"} -> 429
    [] err = "unknown_consumer"     -> 401
    [] err \in {"disabled", "masking_disabled", "restore_forbidden"} -> 403
    [] err = "not_found"            -> 404
    [] OTHER                        -> 500

----------------------------------------------------------------------------
(* The pipeline *)

Kinds == {"nothing", "method", "key", "body"}

Goes(c, where) == at' = [at EXCEPT ![c] = where]

\* The response is written, the outcome recorded, and handle returns: what was
\* deferred so far runs from "next" on.
Finish(c, status, out, next) ==
  /\ reply' = [reply EXCEPT ![c] = status]
  /\ outcome' = [outcome EXCEPT ![c] = out]
  /\ Goes(c, next)

Accept(c) ==
  /\ at[c] = "idle"
  /\ \E l \in Lengths : length' = [length EXCEPT ![c] = l]
  /\ \E k \in Kinds : kind' = [kind EXCEPT ![c] = k]
  /\ reply' = [reply EXCEPT ![c] = 0]
  /\ outcome' = [outcome EXCEPT ![c] = "none"]
  /\ share' = [share EXCEPT ![c] = 0]
  /\ Goes(c, "accepted")
  /\ UNCHANGED <<active, gauge, used>>

RefuseMethod(c) ==
  /\ at[c] = "accepted" /\ kind[c] = "method"
  /\ Finish(c, 405, "method_not_allowed", "idle")
  /\ UNCHANGED <<kind, length, share, active, gauge, used>>

BugTakeSlot(c) ==
  /\ at[c] = "accepted" /\ kind[c] # "method"
  /\ active' = active + 1
  /\ Goes(c, "slot")
  /\ UNCHANGED <<kind, length, share, reply, outcome, gauge, used>>

TakeSlot(c) ==
  /\ at[c] = "accepted" /\ kind[c] # "method"
  /\ active < MaxActive
  /\ active' = active + 1
  /\ Goes(c, "slot")
  /\ UNCHANGED <<kind, length, share, reply, outcome, gauge, used>>

RefuseSlot(c) ==
  /\ at[c] = "accepted" /\ kind[c] # "method"
  /\ active = MaxActive
  /\ Finish(c, 429, "overload", "idle")
  /\ UNCHANGED <<kind, length, share, active, gauge, used>>

CountActive(c) ==
  /\ at[c] = "slot"
  /\ gauge' = gauge + 1
  /\ Goes(c, "counted")
  /\ UNCHANGED <<kind, length, share, reply, outcome, active, used>>

BugRefuseKey(c) ==
  /\ at[c] = "counted" /\ kind[c] = "key"
  /\ Finish(c, 401, "unauthorized", "leave_slot")
  /\ UNCHANGED <<kind, length, share, active, gauge, used>>

RefuseKey(c) ==
  /\ at[c] = "counted" /\ kind[c] = "key"
  /\ Finish(c, 401, "unauthorized", "leave_gauge")
  /\ UNCHANGED <<kind, length, share, active, gauge, used>>

\* workingBudget.acquire
Fits(n) == Wrap(used + n) <= TotalBudget

TakeShare(c) ==
  LET n == Estimate(length[c]) IN
  /\ at[c] = "counted" /\ kind[c] # "key"
  /\ IF TotalBudget <= 0 THEN UNCHANGED used
                         ELSE Fits(n) /\ used' = Wrap(used + n)
  /\ share' = [share EXCEPT ![c] = n]
  /\ Goes(c, "decode")
  /\ UNCHANGED <<kind, length, reply, outcome, active, gauge>>

BugNeverRefuses(c) == FALSE

RefuseShare(c) ==
  /\ at[c] = "counted" /\ kind[c] # "key"
  /\ TotalBudget > 0 /\ ~Fits(Estimate(length[c]))
  /\ Finish(c, 429, "overload", "leave_gauge")
  /\ UNCHANGED <<kind, length, share, active, gauge, used>>

\* A body that is declared, or turns out, longer than MaxBody cannot be read to
\* its end; a request with a declared length of 0 has no body to parse.
Readable(c) == kind[c] = "nothing" /\ length[c] # 0 /\ length[c] <= MaxBody

Decode(c) ==
  /\ at[c] = "decode" /\ Readable(c)
  /\ Goes(c, "call")
  /\ UNCHANGED <<kind, length, share, reply, outcome, active, gauge, used>>

DecodeFails(c) ==
  /\ at[c] = "decode"
  /\ \/ ~Readable(c) /\ Finish(c, 400, "invalid", "leave_share")
     \/ /\ length[c] < 0 \/ length[c] > MaxBody
        /\ Finish(c, 413, "too_large", "leave_share")
  /\ UNCHANGED <<kind, length, share, active, gauge, used>>

Serve(c) ==
  /\ at[c] = "call"
  /\ \E out \in {"mask", "restore", "repeat"} : Finish(c, 200, out, "leave_share")
  /\ UNCHANGED <<kind, length, share, active, gauge, used>>

ServeFails(c) ==
  /\ at[c] = "call"
  /\ \E err \in ServiceErrors :
       Finish(c, StatusForError(err), OutcomeForError(err), "leave_share")
  /\ UNCHANGED <<kind, length, share, active, gauge, used>>

----------------------------------------------------------------------------
(* The deferred calls *)

BugReleaseShare(c) ==
  /\ at[c] = "leave_share"
  /\ used' = IF TotalBudget <= 0 \/ reply[c] # 200 THEN used ELSE Wrap(used - share[c])
  /\ Goes(c, "leave_gauge")
  /\ UNCHANGED <<kind, length, share, reply, outcome, active, gauge>>

ReleaseShare(c) ==
  /\ at[c] = "leave_share"
  /\ used' = IF TotalBudget <= 0 THEN used ELSE Wrap(used - share[c])
  /\ Goes(c, "leave_gauge")
  /\ UNCHANGED <<kind, length, share, reply, outcome, active, gauge>>

CountLeft(c) ==
  /\ at[c] = "leave_gauge"
  /\ gauge' = gauge - 1
  /\ Goes(c, "leave_slot")
  /\ UNCHANGED <<kind, length, share, reply, outcome, active, used>>

ReleaseSlot(c) ==
  /\ at[c] = "leave_slot"
  /\ active' = active - 1
  /\ Goes(c, "idle")
  /\ UNCHANGED <<kind, length, share, reply, outcome, gauge, used>>

----------------------------------------------------------------------------
(* Specification *)

HandlerInit ==
  /\ at = [c \in Conns |-> "idle"]
  /\ kind = [c \in Conns |-> "nothing"]
  /\ length = [c \in Conns |-> 0]
  /\ share = [c \in Conns |-> 0]
  /\ reply = [c \in Conns |-> 0]
  /\ outcome = [c \in Conns |-> "none"]
  /\ active = 0
  /\ gauge = 0
  /\ used = 0

Refuse(c) == RefuseMethod(c) \/ RefuseSlot(c) \/ RefuseKey(c) \/ RefuseShare(c)

Advance(c) ==
  \/ TakeSlot(c)
  \/ CountActive(c)
  \/ TakeShare(c)
  \/ Decode(c)
  \/ DecodeFails(c)
  \/ Serve(c)
  \/ ServeFails(c)

Leave(c) == ReleaseShare(c) \/ CountLeft(c) \/ ReleaseSlot(c)

\* What handle does for a request, once net/http has accepted it.
Handle(c) == Refuse(c) \/ Advance(c) \/ Leave(c)

HandlerNext == \E c \in Conns : Accept(c) \/ Handle(c)

HandlerSpec == HandlerInit /\ [][HandlerNext]_hvars

----------------------------------------------------------------------------
(* Invariants *)

Places == {"idle", "accepted", "slot", "counted", "decode", "call",
           "leave_share", "leave_gauge", "leave_slot"}

\* Requests between TakeSlot and ReleaseSlot, between the two counts, and
\* between TakeShare and ReleaseShare.
Holding == {c \in Conns : at[c] \notin {"idle", "accepted"}}
Counted == {c \in Conns : at[c] \notin {"idle", "accepted", "slot", "leave_slot"}}
Working == {c \in Conns : at[c] \in {"decode", "call", "leave_share"}}

\* The values of the state; the channel of slots never holds more than its
\* capacity.
HandlerTypes ==
  /\ at \in [Conns -> Places]
  /\ kind \in [Conns -> Kinds]
  /\ length \in [Conns -> Lengths \cup {0}]
  /\ share \in [Conns -> Int]
  /\ reply \in [Conns -> {0, 200, 400, 401, 403, 404, 405, 409, 413, 429, 500}]
  /\ outcome \in [Conns -> {"none", "mask", "restore", "repeat", "cancel",
                            "conflict", "overload", "unauthorized", "forbidden",
                            "not_found", "error", "invalid", "too_large",
                            "method_not_allowed"}]
  /\ active \in 0 .. MaxActive
  /\ gauge \in Int
  /\ used \in Int

\* Slots are taken and given back exactly once on every way through handle, and
\* never more than the limit: a leaked slot would refuse requests for good.
SlotsAccounted ==
  /\ active = Cardinality(Holding)
  /\ Cardinality(Holding) <= MaxActive

\* The gauge of active requests is exact and never shows more than the slots.
GaugeAccounted ==
  /\ gauge = Cardinality(Counted)
  /\ gauge <= active

\* Both of what limits the requests at once and what shows them are exact.
CapacityAccounted == SlotsAccounted /\ GaugeAccounted

\* The budget in use is the sum of the shares of the requests that are working,
\* whichever way each of them ends.
SharesAccounted ==
  TotalBudget > 0 => used = Total(Working, share)

\* A request that left was answered, and what was recorded about it agrees with
\* the status its client saw: clients and metrics tell the same story.
OutcomeOf(status) ==
  CASE status = 0   -> {"none"}
    [] status = 200 -> {"mask", "restore", "repeat"}
    [] status = 400 -> {"invalid"}
    [] status = 401 -> {"unauthorized"}
    [] status = 403 -> {"forbidden"}
    [] status = 404 -> {"not_found"}
    [] status = 405 -> {"method_not_allowed"}
    [] status = 409 -> {"conflict"}
    [] status = 413 -> {"too_large"}
    [] status = 429 -> {"overload"}
    [] status = 500 -> {"error", "cancel"}

AnswersRecorded ==
  \A c \in Conns :
    /\ outcome[c] \in OutcomeOf(reply[c])
    /\ at[c] \in {"leave_share", "leave_gauge", "leave_slot"} => reply[c] # 0
    /\ at[c] \in {"accepted", "slot", "counted", "decode", "call"} => reply[c] = 0

\* Limits refuse, they never queue: whatever the others hold, a request that was
\* accepted can take its next step.  No step leads back to an earlier place of
\* the same request, so each is answered and leaves.
NobodyWaits == \A c \in Conns : at[c] # "idle" => ENABLED Handle(c)

----------------------------------------------------------------------------
(* What a comment says *)

\* httpapi.go:203-207: the shares bound the memory of concurrent large
\* payloads.  Read with true sums: four times the declared lengths of the
\* requests that are working stay within the budget.
DeclaredBytes == [c \in Conns |-> 4 * IF length[c] <= 0 THEN MaxBody ELSE length[c]]

LengthsBounded ==
  TotalBudget > 0 => Total(Working, DeclaredBytes) <= TotalBudget
=============================================================================
