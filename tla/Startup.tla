------------------------------- MODULE Startup -------------------------------
(***************************************************************************)
(* The life of the service process (src/cmd/pii-service/main.go): it loads  *)
(* its configuration (src/internal/config), fills the registry of types     *)
(* (src/internal/recognizer/registry.go), wires the service, serves, and    *)
(* shuts down on a signal.                                                  *)
(*                                                                         *)
(* A name is a sequence of parts, so that what contains a colon is told from *)
(* what does not.  A secret is [key, blank]: blank tells whether there is   *)
(* white space around the key.                                              *)
(***************************************************************************)
EXTENDS Integers, Sequences, FiniteSets, SequencesExt

CONSTANTS
  Numbers,       \* the settings that are numbers or durations
  BuiltIn,       \* the types the code has recognizers for
  Environments,  \* what a start finds: the settings and the consumers' file
  PayloadIDs,    \* the payload ids of requests, sequences of parts as well
  Tokens,        \* what a request may present, none of it with white space
  Clients        \* connections

VARIABLES
  environment,   \* [settings, file]
  at,            \* where main is
  exit,          \* how the process ended, "runs" while it has not
  rules,         \* Registry.rules
  accepted,      \* the consumers main has copied
  secrets,       \* [secret -> consumer name]
  consumers,     \* Service.consumers, by name
  cleanup,       \* each store's cleanup: "off", "on", "stopped"
  listener,      \* "off", "starting", "open", "failed", "closed"
  signalled,     \* SIGINT or SIGTERM was caught
  request        \* [Clients -> the request being handled]

vars == <<environment, at, exit, rules, accepted, secrets, consumers, cleanup,
          listener, signalled, request>>

wiring == <<rules, accepted, secrets, consumers, cleanup>>

settings == environment.settings
file     == environment.file

Stores        == {"process", "managed"}
ConsumerScope == <<"process">>

Unset == [key |-> "unset", blank |-> FALSE]
Empty == [key |-> "", blank |-> FALSE]

Secrets       == [key: STRING, blank: BOOLEAN]
ConsumerFiles == [name: Seq(STRING), types: Seq(STRING), maskFormat: STRING,
                  secretEnv: Secrets, secretFile: Secrets]
RuleFiles     == [type: STRING, pattern: {"empty", "broken", "good"}, maxMatches: Int]

ASSUME EnvironmentsAssumption ==
  /\ \A e \in Environments :
       /\ e.settings \in [Numbers -> {"unset", "malformed", "not positive", "positive"}]
       /\ e.file \in [state: {"none", "unreadable", "read"},
                     consumers: Seq(ConsumerFiles), rules: Seq(RuleFiles)]
  /\ PayloadIDs \subseteq Seq(STRING)

Nobody == [name |-> <<>>, token |-> "none"]

----------------------------------------------------------------------------
(* Configuration *)

Trimmed(v) == [v EXCEPT !.blank = FALSE]

\* resolveSecret: exactly one source, and a value in it.  A file's value is
\* trimmed, a variable's is taken as it is.
SecretSources(cf) == {s \in {cf.secretEnv, cf.secretFile} : s # Unset}
HasSecret(cf) ==
  /\ cf.secretEnv = Unset \/ cf.secretFile = Unset
  /\ cf.secretEnv # Unset => cf.secretEnv # Empty
  /\ cf.secretFile # Unset => Trimmed(cf.secretFile) # Empty
  /\ SecretSources(cf) # {}
SecretOf(cf) == IF cf.secretEnv # Unset THEN cf.secretEnv ELSE Trimmed(cf.secretFile)

ConsumerIsValid(cf) ==
  /\ cf.name \notin {<<>>, ConsumerScope}
  /\ ":" \notin ToSet(cf.name)
  /\ cf.types # <<>>
  /\ cf.maskFormat \in {"marker", "stars"}

RuleIsValid(r) == r.type # "" /\ r.pattern # "empty" /\ r.maxMatches > 0

\* LoadConsumers returns the whole file or nothing of it.
ConsumersLoad ==
  /\ file.state = "read"
  /\ \A i \in DOMAIN file.consumers :
       LET cf == file.consumers[i] IN
       /\ HasSecret(cf) /\ ConsumerIsValid(cf)
       /\ "" \notin ToSet(cf.types)
       /\ \A j \in 1 .. i - 1 : file.consumers[j].name # cf.name
  /\ \A i \in DOMAIN file.rules : RuleIsValid(file.rules[i])

\* A setting without a variable has its default, which is positive.
SettingsParse == \A n \in Numbers : settings[n] # "malformed"
Validates     == \A n \in Numbers : settings[n] \in {"unset", "positive"}

Loads == SettingsParse /\ (file.state = "none" \/ ConsumersLoad) /\ Validates

ConfiguredConsumers ==
  IF file.state = "none" THEN <<>>
  ELSE [i \in DOMAIN file.consumers |->
         LET cf == file.consumers[i] IN
         [name |-> cf.name, types |-> cf.types, secret |-> SecretOf(cf)]]

ConfiguredRules == IF file.state = "none" THEN <<>> ELSE file.rules

----------------------------------------------------------------------------
(* Registry *)

RuleRegisters(r) ==
  /\ r.type # "" /\ r.type \notin BuiltIn
  /\ r.maxMatches > 0
  /\ r.pattern # "broken"

RulesOf(t) == {i \in DOMAIN rules : rules[i].type = t}
Known(t)   == t \in BuiltIn \/ RulesOf(t) # {}

BugRecognizes(types) == \E i \in DOMAIN types : Known(types[i])
\* One unknown type, and there are no recognizers.
Recognizes(types) == \A i \in DOMAIN types : Known(types[i])

----------------------------------------------------------------------------
(* Starting: each step of main goes on, or exits without its deferred calls. *)

Runs(place) == at = place /\ exit = "runs"

Exits(how) == exit' = how /\ request' = [c \in Clients |-> Nobody] /\ UNCHANGED at
GoesOn(place) == at' = place /\ UNCHANGED <<exit, request>>

LoadsConfiguration ==
  /\ Runs("load")
  /\ IF Loads THEN GoesOn("rules") ELSE Exits("error")
  /\ UNCHANGED <<environment, wiring, listener, signalled>>

RegistersRule ==
  /\ Runs("rules")
  /\ IF Len(rules) = Len(ConfiguredRules) THEN GoesOn("consumers") /\ UNCHANGED rules
     ELSE LET r == ConfiguredRules[Len(rules) + 1] IN
          IF RuleRegisters(r) THEN rules' = Append(rules, r) /\ UNCHANGED <<at, exit, request>>
          ELSE Exits("error") /\ UNCHANGED rules
  /\ UNCHANGED <<environment, accepted, secrets, consumers, cleanup, listener, signalled>>

\* Of two consumers with one secret the later one gets it.
AcceptsConsumer ==
  /\ Runs("consumers")
  /\ IF Len(accepted) = Len(ConfiguredConsumers)
     THEN GoesOn("wire") /\ UNCHANGED <<accepted, secrets>>
     ELSE LET c == ConfiguredConsumers[Len(accepted) + 1] IN
          IF Recognizes(c.types)
          THEN /\ accepted' = Append(accepted, c)
               /\ secrets' = [s \in DOMAIN secrets \cup {c.secret} |->
                               IF s = c.secret THEN c.name ELSE secrets[s]]
               /\ UNCHANGED <<at, exit, request>>
          ELSE Exits("error") /\ UNCHANGED <<accepted, secrets>>
  /\ UNCHANGED <<environment, rules, consumers, cleanup, listener, signalled>>

StartsCleanups ==
  /\ Runs("wire")
  /\ cleanup' = [s \in Stores |-> "on"]
  /\ GoesOn("service")
  /\ UNCHANGED <<environment, rules, accepted, secrets, consumers, listener, signalled>>

Names == {accepted[i].name : i \in DOMAIN accepted}

\* NewManaged checks names and types again.
BuildsService ==
  /\ Runs("service")
  /\ IF \A i \in DOMAIN accepted :
          /\ accepted[i].name # ConsumerScope /\ ":" \notin ToSet(accepted[i].name)
          /\ Recognizes(accepted[i].types)
     THEN /\ consumers' = [n \in Names |->
                             CHOOSE c \in ToSet(accepted) : c.name = n]
          /\ GoesOn("notify")
     ELSE Exits("error") /\ UNCHANGED consumers
  /\ UNCHANGED <<environment, rules, accepted, secrets, cleanup, listener, signalled>>

\* From here on signals are caught, and the server has a goroutine of its own.
StartsServer ==
  /\ Runs("notify")
  /\ listener' = "starting"
  /\ GoesOn("select")
  /\ UNCHANGED <<environment, wiring, signalled>>

----------------------------------------------------------------------------
(* Serving *)

\* The store's key of a request.
KeyOf(name, id) == name \o <<":">> \o id

\* ListenAndServe binds the address or cannot; after Shutdown it does neither.
Listens ==
  /\ listener = "starting" /\ exit = "runs"
  /\ listener' \in IF at = "select" THEN {"open", "failed"} ELSE {"closed"}
  /\ UNCHANGED <<environment, at, exit, wiring, signalled, request>>

\* Authenticate: the consumer of the token's secret.  Without a token the
\* request is one of the open scope.
Arrives(c) ==
  /\ listener = "open" /\ exit = "runs"
  /\ request[c] = Nobody
  /\ \/ \E t \in Tokens :
          LET s == [key |-> t, blank |-> FALSE] IN
          /\ s \in DOMAIN secrets
          /\ request' = [request EXCEPT ![c] = [name |-> secrets[s], token |-> t]]
     \/ request' = [request EXCEPT ![c] = [name |-> ConsumerScope, token |-> "none"]]
  /\ UNCHANGED <<environment, at, exit, wiring, listener, signalled>>

Answers(c) ==
  /\ exit = "runs" /\ request[c] # Nobody
  /\ request' = [request EXCEPT ![c] = Nobody]
  /\ UNCHANGED <<environment, at, exit, wiring, listener, signalled>>

----------------------------------------------------------------------------
(* Ending *)

\* Until main asks for them, a signal ends the process.
Signal ==
  /\ exit = "runs" /\ ~signalled
  /\ IF at \in {"load", "rules", "consumers", "wire", "service", "notify"}
     THEN Exits("killed") /\ UNCHANGED signalled
     ELSE signalled' = TRUE /\ UNCHANGED <<at, exit, request>>
  /\ UNCHANGED <<environment, wiring, listener>>

ServerFailed ==
  /\ Runs("select") /\ listener = "failed"
  /\ Exits("error")
  /\ UNCHANGED <<environment, wiring, listener, signalled>>

\* Shutdown closes the listener and waits for what is being handled.
ShutsDown ==
  /\ Runs("select") /\ signalled
  /\ listener' = IF listener = "open" THEN "closed" ELSE listener
  /\ GoesOn("shutdown")
  /\ UNCHANGED <<environment, wiring, signalled>>

Handling == {c \in Clients : request[c] # Nobody}

BugDrained == TRUE
Drained == Handling = {}

ShutdownReturns ==
  /\ Runs("shutdown")
  /\ \/ Drained /\ GoesOn("stop managed")
     \/ Handling # {} /\ Exits("error")     \* ShutdownTimeout is over
  /\ UNCHANGED <<environment, wiring, listener, signalled>>

\* The deferred calls, the last one first.
StopsStore(s, place) ==
  /\ cleanup' = [cleanup EXCEPT ![s] = "stopped"]
  /\ GoesOn(place)
  /\ UNCHANGED <<environment, rules, accepted, secrets, consumers, listener, signalled>>

StopsCleanups ==
  \/ Runs("stop managed") /\ StopsStore("managed", "stop process")
  \/ Runs("stop process") /\ StopsStore("process", "return")

Returns ==
  /\ Runs("return")
  /\ Exits("stopped")
  /\ UNCHANGED <<environment, wiring, listener, signalled>>

Ended == exit # "runs" /\ UNCHANGED vars

----------------------------------------------------------------------------
(* Specification *)

StartupInit ==
  /\ environment \in Environments
  /\ at = "load" /\ exit = "runs"
  /\ rules = <<>> /\ accepted = <<>> /\ secrets = <<>> /\ consumers = <<>>
  /\ cleanup = [s \in Stores |-> "off"]
  /\ listener = "off" /\ signalled = FALSE
  /\ request = [c \in Clients |-> Nobody]

StartupNext ==
  \/ LoadsConfiguration \/ RegistersRule \/ AcceptsConsumer
  \/ StartsCleanups \/ BuildsService \/ StartsServer
  \/ Listens \/ \E c \in Clients : Arrives(c) \/ Answers(c)
  \/ Signal \/ ServerFailed \/ ShutsDown \/ ShutdownReturns \/ StopsCleanups \/ Returns
  \/ Ended

StartupSpec == StartupInit /\ [][StartupNext]_vars

----------------------------------------------------------------------------
(* Properties *)

\* Nothing of the configuration is left out: every rule is registered, every
\* consumer is there as it is configured, and each of its types has a recognizer
\* that compiled.
Complete ==
  /\ Validates
  /\ rules = ConfiguredRules
  /\ \A c \in ToSet(ConfiguredConsumers) :
       /\ c.name \in DOMAIN consumers /\ consumers[c.name] = c
       /\ \A t \in ToSet(c.types) :
            \/ t \in BuiltIn
            \/ RulesOf(t) # {} /\ \A i \in RulesOf(t) : rules[i].pattern = "good"

\* No two consumers, and no consumer and the open scope, share a key of the
\* store, whatever payload ids they choose.
KeysApart ==
  \A n, m \in DOMAIN consumers \cup {ConsumerScope} :
    n # m => \A i, j \in PayloadIDs : KeyOf(n, i) # KeyOf(m, j)

\* A request acts for a consumer only with a secret configured for it.
ActsForItsOwner ==
  \A c \in Handling :
    request[c].name # ConsumerScope =>
      \E cf \in ToSet(ConfiguredConsumers) :
        cf.name = request[c].name /\ cf.secret.key = request[c].token

\* README.md:183: an invalid configuration stops the start and is never applied
\* in part.  What serves, serves all of a valid one, and keeps consumers apart.
ServesWholeConfiguration ==
  listener = "open" => Complete /\ KeysApart /\ ActsForItsOwner

\* The stores' cleanups outlive the requests, and a process that says "stopped"
\* was asked to, cut no request off, and stopped both.
GracefulExit ==
  /\ (\E s \in Stores : cleanup[s] = "stopped") => Handling = {} /\ listener # "open"
  /\ exit = "stopped" => signalled /\ \A s \in Stores : cleanup[s] = "stopped"
=============================================================================
