--------------------------- MODULE Startup_proofs ----------------------------
(***************************************************************************)
(* Theorems about Startup for every set of environments: consumers' files of *)
(* any length with any names, secrets and types, and any settings.          *)
(***************************************************************************)
EXTENDS Startup, SequenceTheorems, TLAPS

----------------------------------------------------------------------------
(* The end of the process *)

Stopping == {"stop managed", "stop process", "return"}

\* What main has done by the time it is at each place.
EndInv ==
  /\ cleanup \in [Stores -> {"off", "on", "stopped"}]
  /\ listener = "open" => at = "select"
  /\ at = "shutdown" => signalled
  /\ at \in Stopping => signalled /\ Handling = {}
  /\ \A s \in Stores : cleanup[s] = "stopped" => at \in Stopping
  /\ at \in {"stop process", "return"} => cleanup["managed"] = "stopped"
  /\ at = "return" => cleanup["process"] = "stopped"
  /\ exit = "stopped" => at = "return"

\* A graceful exit cut no request off and stopped both cleanups; no cleanup stops
\* beside a request that is being handled.
THEOREM GracefulExitHolds == StartupSpec => []GracefulExit
<1>1. StartupInit => EndInv
  BY DEF StartupInit, EndInv, Stores, Stopping
<1>2. EndInv /\ [StartupNext]_vars => EndInv'
  <2> SUFFICES ASSUME EndInv, [StartupNext]_vars PROVE EndInv'
    OBVIOUS
  <2> USE DEF EndInv, Stopping, Handling, Stores, Runs, Exits, GoesOn, wiring
  <2>1. CASE LoadsConfiguration
    BY <2>1 DEF LoadsConfiguration
  <2>2. CASE RegistersRule
    BY <2>2 DEF RegistersRule
  <2>3. CASE AcceptsConsumer
    BY <2>3 DEF AcceptsConsumer
  <2>4. CASE StartsCleanups
    BY <2>4 DEF StartsCleanups
  <2>5. CASE BuildsService
    BY <2>5 DEF BuildsService
  <2>6. CASE StartsServer
    BY <2>6 DEF StartsServer
  <2>7. CASE Listens
    BY <2>7 DEF Listens
  <2>8. ASSUME NEW c \in Clients, Arrives(c) PROVE EndInv'
    BY <2>8 DEF Arrives
  <2>9. ASSUME NEW c \in Clients, Answers(c) PROVE EndInv'
    BY <2>9 DEF Answers
  <2>10. CASE Signal
    BY <2>10 DEF Signal
  <2>11. CASE ServerFailed
    BY <2>11 DEF ServerFailed
  <2>12. CASE ShutsDown
    BY <2>12 DEF ShutsDown
  <2>13. CASE ShutdownReturns
    BY <2>13 DEF ShutdownReturns, Drained
  <2>14. CASE StopsCleanups
    BY <2>14 DEF StopsCleanups, StopsStore
  <2>15. CASE Returns
    BY <2>15 DEF Returns
  <2>16. CASE Ended \/ UNCHANGED vars
    BY <2>16 DEF Ended, vars
  <2> QED BY <2>1, <2>2, <2>3, <2>4, <2>5, <2>6, <2>7, <2>8, <2>9, <2>10, <2>11,
             <2>12, <2>13, <2>14, <2>15, <2>16 DEF StartupNext
<1>3. EndInv => GracefulExit
  BY DEF EndInv, GracefulExit, Stopping, Stores
<1> QED BY <1>1, <1>2, <1>3, PTL DEF StartupSpec

----------------------------------------------------------------------------
(* Keys *)

\* What ends at its first colon is known from what it is a beginning of.
Parts == STRING \cup {"process"}

\* A name without a colon is not longer than another with the same key.
LEMMA NoShorterName ==
  ASSUME NEW n \in Seq(Parts), NEW m \in Seq(Parts),
         NEW i \in Seq(Parts), NEW j \in Seq(Parts),
         ":" \notin ToSet(m), KeyOf(n, i) = KeyOf(m, j)
  PROVE  Len(m) <= Len(n)
<1>1. SUFFICES ASSUME Len(n) < Len(m) PROVE FALSE
  OBVIOUS
<1> DEFINE k == Len(n) + 1
<1>2. KeyOf(n, i)[k] = ":"
  BY DEF KeyOf
<1>3. KeyOf(m, j)[k] = m[k] /\ k \in DOMAIN m
  BY <1>1 DEF KeyOf
<1>4. m[k] \in ToSet(m)
  BY <1>3 DEF ToSet
<1> QED BY <1>2, <1>3, <1>4

\* A key is of one name only, as long as names have no colon.
LEMMA KeysAreOfOneName ==
  ASSUME NEW n \in Seq(Parts), NEW m \in Seq(Parts),
         NEW i \in Seq(Parts), NEW j \in Seq(Parts),
         ":" \notin ToSet(n), ":" \notin ToSet(m), KeyOf(n, i) = KeyOf(m, j)
  PROVE  n = m
<1>1. Len(n) = Len(m)
  <2>1. Len(m) <= Len(n)
    BY NoShorterName
  <2>2. Len(n) <= Len(m)
    BY NoShorterName
  <2> QED BY <2>1, <2>2
<1>2. ASSUME NEW k \in 1 .. Len(n) PROVE n[k] = m[k]
  <2>1. KeyOf(n, i)[k] = n[k]
    BY DEF KeyOf
  <2>2. KeyOf(m, j)[k] = m[k]
    BY <1>1 DEF KeyOf
  <2> QED BY <2>1, <2>2
<1> QED BY <1>1, <1>2, SeqEqual

----------------------------------------------------------------------------
(* The configuration of the process *)

Unwired == {"load", "rules", "consumers", "wire", "service"}

\* The rules and consumers taken so far are those of the file, in its order, and
\* the first ones; everything was taken by the time main goes on.
RulesInv ==
  /\ environment \in Environments
  /\ at # "load" => Loads
  /\ rules \in Seq(RuleFiles) /\ Len(rules) <= Len(ConfiguredRules)
  /\ \A i \in DOMAIN rules : rules[i] = ConfiguredRules[i] /\ RuleRegisters(rules[i])
  /\ at = "load" => rules = <<>>
  /\ at \notin {"load", "rules"} => Len(rules) = Len(ConfiguredRules)

Consumer == [name: Seq(STRING), types: Seq(STRING), secret: Secrets]

ConsumersInv ==
  /\ accepted \in Seq(Consumer) /\ Len(accepted) <= Len(ConfiguredConsumers)
  /\ \A i \in DOMAIN accepted :
       accepted[i] = ConfiguredConsumers[i] /\ Recognizes(accepted[i].types)
  /\ at \in {"load", "rules"} => accepted = <<>>
  /\ at \notin {"load", "rules", "consumers"} => Len(accepted) = Len(ConfiguredConsumers)
  /\ \A s \in DOMAIN secrets : \E i \in DOMAIN accepted :
       accepted[i].secret = s /\ accepted[i].name = secrets[s]
  /\ at \notin Unwired =>
       /\ consumers = [n \in Names |-> CHOOSE c \in ToSet(accepted) : c.name = n]
       /\ \A i \in DOMAIN accepted :
            accepted[i].name # ConsumerScope /\ ":" \notin ToSet(accepted[i].name)

RequestsInv ==
  /\ listener # "off" => at \notin Unwired
  /\ request = [c \in Clients |-> request[c]]
  /\ \A c \in Clients :
       request[c] # Nobody /\ request[c].name # ConsumerScope =>
         \E i \in DOMAIN accepted :
           /\ accepted[i].name = request[c].name
           /\ accepted[i].secret.key = request[c].token

ConfigInv == RulesInv /\ ConsumersInv /\ RequestsInv

\* What a file that loads gives: consumers with a name, types and a secret of
\* their own types.
LEMMA FileTypes ==
  ASSUME environment \in Environments, Loads
  PROVE  /\ ConfiguredRules \in Seq(RuleFiles)
         /\ ConfiguredConsumers \in Seq(Consumer)
<1>1. /\ file.consumers \in Seq(ConsumerFiles)
      /\ file.rules \in Seq(RuleFiles)
  BY EnvironmentsAssumption DEF file
<1>2. ConfiguredRules \in Seq(RuleFiles)
  BY <1>1 DEF ConfiguredRules
<1> DEFINE C(i) == [name |-> file.consumers[i].name, types |-> file.consumers[i].types,
                  secret |-> SecretOf(file.consumers[i])]
<1>3. ASSUME NEW i \in DOMAIN file.consumers PROVE C(i) \in Consumer
  <2>1. file.consumers[i] \in ConsumerFiles
    BY <1>1, <1>3
  <2>2. SecretOf(file.consumers[i]) \in Secrets
    BY <2>1 DEF SecretOf, Trimmed, ConsumerFiles, Secrets
  <2> QED BY <2>1, <2>2 DEF ConsumerFiles, Consumer
<1>4. ConfiguredConsumers \in Seq(Consumer)
  <2>1. ConfiguredConsumers = <<>> \/ ConfiguredConsumers = [i \in DOMAIN file.consumers |-> C(i)]
    BY Zenon DEF ConfiguredConsumers
  <2>2. DOMAIN file.consumers = 1 .. Len(file.consumers) /\ Len(file.consumers) \in Nat
    BY <1>1
  <2> HIDE DEF C
  <2>3. [i \in DOMAIN file.consumers |-> C(i)] \in [1 .. Len(file.consumers) -> Consumer]
    BY <1>3, <2>2
  <2>4. [i \in DOMAIN file.consumers |-> C(i)] \in Seq(Consumer)
    BY <2>2, <2>3, SeqDef
  <2>5. <<>> \in Seq(Consumer)
    OBVIOUS
  <2> QED BY <2>1, <2>4, <2>5, Zenon
<1> QED BY <1>2, <1>4

\* Every step of the startup keeps what is said of the rules.
LEMMA RulesStep ==
  ASSUME RulesInv, [StartupNext]_vars
  PROVE  RulesInv'
<1> USE DEF RulesInv, Runs, Exits, GoesOn, wiring
<1>1. CASE LoadsConfiguration
  BY <1>1 DEF LoadsConfiguration, Loads, SettingsParse, Validates, ConsumersLoad,
     settings, file, ConfiguredRules
<1>2. CASE RegistersRule
  <2>1. /\ UNCHANGED <<environment, ConfiguredRules, Loads>>
        /\ at = "rules" /\ Loads
    BY <1>2 DEF RegistersRule, Loads, SettingsParse, Validates, ConsumersLoad,
       settings, file, ConfiguredRules
  <2>2. ConfiguredRules \in Seq(RuleFiles)
    BY <2>1, FileTypes
  <2>3. CASE UNCHANGED rules
    BY <1>2, <2>1, <2>2, <2>3 DEF RegistersRule
  <2>4. CASE rules' = Append(rules, ConfiguredRules[Len(rules) + 1])
    <3>1. /\ Len(rules) # Len(ConfiguredRules)
          /\ RuleRegisters(ConfiguredRules[Len(rules) + 1]) /\ UNCHANGED at
      BY <1>2, <2>2, <2>4 DEF RegistersRule
    <3>2. ConfiguredRules[Len(rules) + 1] \in RuleFiles
      BY <2>2, <3>1
    <3>3. /\ rules' \in Seq(RuleFiles) /\ Len(rules') = Len(rules) + 1
          /\ Len(rules') <= Len(ConfiguredRules')
      BY <2>1, <2>2, <2>4, <3>1, <3>2
    <3>4. ASSUME NEW i \in DOMAIN rules'
          PROVE  rules'[i] = ConfiguredRules'[i] /\ RuleRegisters(rules'[i])
      <4>1. CASE i \in DOMAIN rules
        BY <2>1, <2>4, <4>1
      <4>2. CASE i = Len(rules) + 1
        BY <2>1, <2>4, <3>1, <4>2
      <4> QED BY <2>4, <3>4, <4>1, <4>2
    <3> QED BY <2>1, <3>1, <3>3, <3>4 DEF RuleRegisters
  <2> QED BY <1>2, <2>3, <2>4 DEF RegistersRule
<1>3. CASE UNCHANGED <<environment, rules>> /\ at # "load" /\ at' # "load"
           /\ (at' = "rules" <=> at = "rules")
  BY <1>3 DEF Loads, SettingsParse, Validates, ConsumersLoad,
     settings, file, ConfiguredRules
<1>4. CASE UNCHANGED <<environment, rules, at>>
  BY <1>4 DEF Loads, SettingsParse, Validates, ConsumersLoad,
     settings, file, ConfiguredRules
<1> HIDE DEF RulesInv
<1>5. CASE AcceptsConsumer \/ StartsCleanups \/ BuildsService \/ StartsServer
  BY <1>3, <1>4, <1>5 DEF AcceptsConsumer, StartsCleanups, BuildsService, StartsServer
<1>6. CASE Listens \/ \E c \in Clients : Arrives(c) \/ Answers(c)
  BY <1>4, <1>6 DEF Listens, Arrives, Answers
<1>7. CASE Signal \/ ServerFailed \/ Returns \/ Ended \/ UNCHANGED vars
  BY <1>4, <1>7 DEF Signal, ServerFailed, Returns, Ended, vars
<1>8. CASE ShutsDown \/ ShutdownReturns \/ StopsCleanups
  BY <1>3, <1>4, <1>8 DEF ShutsDown, ShutdownReturns, StopsCleanups, StopsStore
<1> QED BY <1>1, <1>2, <1>5, <1>6, <1>7, <1>8 DEF StartupNext

\* What the environment says does not change.
LEMMA ConfigurationStays ==
  ASSUME UNCHANGED environment
  PROVE  UNCHANGED <<ConfiguredRules, ConfiguredConsumers, Loads>>
BY DEF Loads, SettingsParse, Validates, ConsumersLoad, settings, file,
   ConfiguredRules, ConfiguredConsumers

\* Every step keeps what is said of the consumers.
LEMMA ConsumersStep ==
  ASSUME RulesInv, ConsumersInv, [StartupNext]_vars
  PROVE  ConsumersInv'
<1> USE DEF ConsumersInv, Runs, Exits, GoesOn, wiring, Unwired
<1>0. /\ UNCHANGED environment
      /\ UNCHANGED <<ConfiguredRules, ConfiguredConsumers, Loads>>
  <2>1. UNCHANGED environment
    BY DEF StartupNext, vars, LoadsConfiguration, RegistersRule, AcceptsConsumer,
       StartsCleanups, BuildsService, StartsServer, Listens, Arrives, Answers, Signal,
       ServerFailed, ShutsDown, ShutdownReturns, StopsCleanups, StopsStore, Returns, Ended
  <2> QED BY <2>1, ConfigurationStays
<1>1. CASE LoadsConfiguration \/ RegistersRule
  BY <1>0, <1>1 DEF LoadsConfiguration, RegistersRule
<1>2. CASE AcceptsConsumer
  <2>1. /\ at = "consumers" /\ Loads /\ UNCHANGED <<rules, consumers>>
    BY <1>2 DEF AcceptsConsumer, RulesInv
  <2>2. ConfiguredConsumers \in Seq(Consumer)
    BY <2>1, FileTypes DEF RulesInv
  <2> DEFINE c == ConfiguredConsumers[Len(accepted) + 1]
  <2>3. CASE UNCHANGED <<accepted, secrets>>
    BY <1>0, <1>2, <2>1, <2>2, <2>3 DEF AcceptsConsumer, Recognizes, Known, RulesOf
  <2>4. CASE ~ UNCHANGED <<accepted, secrets>>
    <3>1. /\ Len(accepted) # Len(ConfiguredConsumers) /\ Recognizes(c.types)
          /\ accepted' = Append(accepted, c) /\ UNCHANGED at
          /\ secrets' = [s \in DOMAIN secrets \cup {c.secret} |->
                          IF s = c.secret THEN c.name ELSE secrets[s]]
      BY <1>2, <2>4 DEF AcceptsConsumer
    <3>2. Len(accepted) + 1 \in DOMAIN ConfiguredConsumers /\ c \in Consumer
      BY <2>2, <3>1
    <3> HIDE DEF c
    <3>3. /\ accepted' \in Seq(Consumer) /\ Len(accepted') = Len(accepted) + 1
          /\ Len(accepted') <= Len(ConfiguredConsumers')
          /\ \A i \in DOMAIN accepted : i \in DOMAIN accepted' /\ accepted'[i] = accepted[i]
          /\ Len(accepted') \in DOMAIN accepted' /\ accepted'[Len(accepted')] = c
      BY <1>0, <2>2, <3>1, <3>2
    <3>4. ASSUME NEW i \in DOMAIN accepted'
          PROVE  accepted'[i] = ConfiguredConsumers'[i] /\ Recognizes(accepted'[i].types)
      <4>1. CASE i \in DOMAIN accepted
        BY <1>0, <3>3, <4>1
      <4>2. CASE i = Len(accepted')
        BY <1>0, <3>1, <3>3, <4>2 DEF c
      <4> QED BY <3>3, <3>4, <4>1, <4>2
    <3>5. ASSUME NEW s \in DOMAIN secrets'
          PROVE  \E i \in DOMAIN accepted' :
                   accepted'[i].secret = s /\ accepted'[i].name = secrets'[s]
      <4>1. CASE s = c.secret
        BY <3>1, <3>3, <4>1
      <4>2. CASE s # c.secret /\ s \in DOMAIN secrets
        BY <3>1, <3>3, <4>2
      <4> QED BY <3>1, <3>5, <4>1, <4>2
    <3>6. (\A i \in DOMAIN accepted :
             accepted[i] = ConfiguredConsumers[i] /\ Recognizes(accepted[i].types))'
      BY <2>1, <3>4 DEF Recognizes, Known, RulesOf
    <3>7. (\A s \in DOMAIN secrets : \E i \in DOMAIN accepted :
             accepted[i].secret = s /\ accepted[i].name = secrets[s])'
      BY <3>5
    <3> QED BY <2>1, <3>1, <3>3, <3>6, <3>7
  <2> QED BY <2>3, <2>4
<1>3. CASE BuildsService
  <2>1. UNCHANGED <<rules, accepted, secrets>>
    BY <1>3 DEF BuildsService
  <2> QED BY <1>0, <1>3, <2>1 DEF BuildsService, Names, Recognizes, Known, RulesOf
<1>4. CASE /\ UNCHANGED <<rules, accepted, secrets, consumers>>
           /\ \/ UNCHANGED at
              \/ at = "wire" /\ at' = "service"
              \/ at \notin Unwired /\ at' \notin Unwired
  BY <1>0, <1>4 DEF Names, Recognizes, Known, RulesOf
<1> HIDE DEF ConsumersInv
<1>5. CASE StartsCleanups \/ StartsServer \/ Listens
  BY <1>4, <1>5 DEF StartsCleanups, StartsServer, Listens
<1>6. CASE \E c \in Clients : Arrives(c) \/ Answers(c)
  BY <1>4, <1>6 DEF Arrives, Answers
<1>7. CASE Signal \/ ServerFailed \/ Returns \/ Ended \/ UNCHANGED vars
  BY <1>4, <1>7 DEF Signal, ServerFailed, Returns, Ended, vars
<1>8. CASE ShutsDown \/ ShutdownReturns \/ StopsCleanups
  BY <1>4, <1>8 DEF ShutsDown, ShutdownReturns, StopsCleanups, StopsStore
<1> QED BY <1>1, <1>2, <1>3, <1>5, <1>6, <1>7, <1>8 DEF StartupNext

\* Every step keeps what is said of the requests.
LEMMA RequestsStep ==
  ASSUME ConsumersInv, RequestsInv, [StartupNext]_vars
  PROVE  RequestsInv'
<1> USE DEF RequestsInv, Runs, Exits, GoesOn, wiring, Unwired, Nobody
<1>1. CASE LoadsConfiguration \/ RegistersRule \/ StartsCleanups \/ BuildsService
  BY <1>1 DEF LoadsConfiguration, RegistersRule, StartsCleanups, BuildsService
<1>2. CASE AcceptsConsumer
  <2>1. \A i \in DOMAIN accepted : i \in DOMAIN accepted' /\ accepted'[i] = accepted[i]
    BY <1>2 DEF AcceptsConsumer, ConsumersInv
  <2> QED BY <1>2, <2>1 DEF AcceptsConsumer
<1>3. CASE StartsServer \/ Listens
  BY <1>3 DEF StartsServer, Listens
<1>4. ASSUME NEW c \in Clients, Arrives(c) PROVE RequestsInv'
  <2>1. UNCHANGED <<at, accepted, listener>>
    BY <1>4 DEF Arrives
  <2>2. CASE request' = [request EXCEPT ![c] = [name |-> ConsumerScope, token |-> "none"]]
    BY <2>1, <2>2
  <2>3. ASSUME NEW t \in Tokens, [key |-> t, blank |-> FALSE] \in DOMAIN secrets,
               request' = [request EXCEPT ![c] =
                 [name |-> secrets[[key |-> t, blank |-> FALSE]], token |-> t]]
        PROVE  RequestsInv'
    <3>1. PICK i \in DOMAIN accepted :
            /\ accepted[i].secret = [key |-> t, blank |-> FALSE]
            /\ accepted[i].name = secrets[[key |-> t, blank |-> FALSE]]
      BY <2>3 DEF ConsumersInv
    <3>2. accepted[i].secret.key = t
      BY <3>1
    <3> QED BY <2>1, <2>3, <3>1, <3>2
  <2> QED BY <1>4, <2>2, <2>3 DEF Arrives
<1>5. ASSUME NEW c \in Clients, Answers(c) PROVE RequestsInv'
  BY <1>5 DEF Answers
<1>6. CASE Signal \/ ServerFailed \/ Returns \/ Ended \/ UNCHANGED vars
  BY <1>6 DEF Signal, ServerFailed, Returns, Ended, vars
<1>7. CASE ShutsDown \/ ShutdownReturns \/ StopsCleanups
  BY <1>7 DEF ShutsDown, ShutdownReturns, StopsCleanups, StopsStore
<1> QED BY <1>1, <1>2, <1>3, <1>4, <1>5, <1>6, <1>7 DEF StartupNext

----------------------------------------------------------------------------
(* What serves *)

\* A listener is open only when everything configured was taken.
LEMMA ServingTookAll ==
  ASSUME ConfigInv, listener = "open"
  PROVE  Loads /\ rules = ConfiguredRules /\ accepted = ConfiguredConsumers
<1>1. at \notin Unwired /\ Loads /\ environment \in Environments
  BY DEF ConfigInv, RequestsInv, RulesInv, Unwired
<1>2. ConfiguredRules \in Seq(RuleFiles) /\ ConfiguredConsumers \in Seq(Consumer)
  BY <1>1, FileTypes
<1>3. rules = ConfiguredRules
  <2>1. rules \in Seq(RuleFiles) /\ Len(rules) = Len(ConfiguredRules)
    BY <1>1 DEF ConfigInv, RulesInv, Unwired
  <2>2. \A i \in 1 .. Len(rules) : rules[i] = ConfiguredRules[i]
    BY <2>1 DEF ConfigInv, RulesInv
  <2> QED BY <1>2, <2>1, <2>2, SeqEqual
<1>4. accepted = ConfiguredConsumers
  <2>1. accepted \in Seq(Consumer) /\ Len(accepted) = Len(ConfiguredConsumers)
    BY <1>1 DEF ConfigInv, ConsumersInv, Unwired
  <2>2. \A i \in 1 .. Len(accepted) : accepted[i] = ConfiguredConsumers[i]
    BY <2>1 DEF ConfigInv, ConsumersInv
  <2> QED BY <1>2, <2>1, <2>2, SeqEqual
<1> QED BY <1>1, <1>3, <1>4

\* A configuration that loads names no consumer twice.
LEMMA NamesAreDistinct ==
  ASSUME environment \in Environments, Loads,
         NEW i \in DOMAIN ConfiguredConsumers, NEW j \in DOMAIN ConfiguredConsumers,
         ConfiguredConsumers[i].name = ConfiguredConsumers[j].name
  PROVE  i = j
<1>1. file.state # "none" /\ ConsumersLoad
  BY DEF ConfiguredConsumers, Loads
<1>2. file.consumers \in Seq(ConsumerFiles) /\ DOMAIN ConfiguredConsumers = DOMAIN file.consumers
  BY <1>1, EnvironmentsAssumption DEF file, ConfiguredConsumers
<1>3. /\ ConfiguredConsumers[i].name = file.consumers[i].name
      /\ ConfiguredConsumers[j].name = file.consumers[j].name
  BY <1>1, <1>2 DEF ConfiguredConsumers
<1>4. ASSUME NEW k \in DOMAIN file.consumers, NEW l \in DOMAIN file.consumers, l < k
      PROVE  file.consumers[l].name # file.consumers[k].name
  <2>1. l \in 1 .. k - 1
    BY <1>2, <1>4
  <2> QED BY <1>1, <2>1 DEF ConsumersLoad
<1>5. /\ i \in DOMAIN file.consumers /\ j \in DOMAIN file.consumers
      /\ i \in Int /\ j \in Int
  BY <1>2
<1>6. ~ (i < j) /\ ~ (j < i)
  BY <1>3, <1>4, <1>5
<1> QED BY <1>5, <1>6

\* The invariant implies that the service that listens is complete.
LEMMA ServesAll ==
  ASSUME ConfigInv, listener = "open"
  PROVE  Complete
<1>1. Loads /\ rules = ConfiguredRules /\ accepted = ConfiguredConsumers
  BY ServingTookAll
<1>2. environment \in Environments
  BY DEF ConfigInv, RulesInv
<1>3. ASSUME NEW c \in ToSet(ConfiguredConsumers)
      PROVE  /\ c.name \in DOMAIN consumers /\ consumers[c.name] = c
             /\ \A t \in ToSet(c.types) :
                  \/ t \in BuiltIn
                  \/ RulesOf(t) # {} /\ \A i \in RulesOf(t) : rules[i].pattern = "good"
  <2>1. PICK i \in DOMAIN accepted : c = accepted[i]
    BY <1>1, <1>3 DEF ToSet
  <2>2. consumers = [n \in Names |-> CHOOSE d \in ToSet(accepted) : d.name = n]
    BY DEF ConfigInv, RequestsInv, ConsumersInv
  <2>3. c.name \in Names
    BY <2>1 DEF Names
  <2>4. ASSUME NEW d \in ToSet(accepted), d.name = c.name PROVE d = c
    <3>1. PICK j \in DOMAIN accepted : d = accepted[j]
      BY <2>4 DEF ToSet
    <3> QED BY <1>1, <1>2, <2>1, <2>4, <3>1, NamesAreDistinct
  <2>5. consumers[c.name] = c
    <3>1. c \in ToSet(accepted)
      BY <1>1, <1>3
    <3>2. (CHOOSE d \in ToSet(accepted) : d.name = c.name) = c
      BY <2>4, <3>1
    <3> QED BY <2>2, <2>3, <3>2
  <2>6. ASSUME NEW t \in ToSet(c.types), t \notin BuiltIn
        PROVE  RulesOf(t) # {} /\ \A k \in RulesOf(t) : rules[k].pattern = "good"
    <3>1. Recognizes(c.types)
      BY <2>1 DEF ConfigInv, ConsumersInv
    <3>2. RulesOf(t) # {}
      BY <2>6, <3>1 DEF Recognizes, Known, ToSet
    <3>3. ASSUME NEW k \in RulesOf(t) PROVE rules[k].pattern = "good"
      <4>1. k \in DOMAIN rules /\ rules[k] \in RuleFiles /\ RuleRegisters(rules[k])
        BY <3>3 DEF ConfigInv, RulesInv, RulesOf
      <4>2. file.state # "none" /\ ConsumersLoad /\ rules = file.rules
        BY <1>1, <4>1 DEF ConfiguredRules, Loads
      <4>3. RuleIsValid(rules[k])
        BY <4>1, <4>2 DEF ConsumersLoad
      <4> QED BY <4>1, <4>3 DEF RuleFiles, RuleIsValid, RuleRegisters
    <3> QED BY <3>2, <3>3
  <2> QED BY <2>2, <2>3, <2>5, <2>6
<1> QED BY <1>1, <1>3 DEF Complete, Loads

\* The invariant implies that no two consumers share a key.
LEMMA KeepsConsumersApart ==
  ASSUME ConfigInv, listener = "open"
  PROVE  KeysApart
<1>1. SUFFICES ASSUME NEW n \in DOMAIN consumers \cup {ConsumerScope},
                      NEW m \in DOMAIN consumers \cup {ConsumerScope},
                      NEW i \in PayloadIDs, NEW j \in PayloadIDs,
                      KeyOf(n, i) = KeyOf(m, j)
               PROVE  n = m
  BY DEF KeysApart
<1>2. /\ i \in Seq(Parts) /\ j \in Seq(Parts)
      /\ \A x \in Seq(STRING) : x \in Seq(Parts)
  BY EnvironmentsAssumption, SeqMonotonic DEF Parts
<1>3. ASSUME NEW k \in DOMAIN consumers \cup {ConsumerScope}
      PROVE  k \in Seq(Parts) /\ ":" \notin ToSet(k)
  <2>1. CASE k = ConsumerScope
    <3>1. <<"process">> \in Seq(Parts)
      <4>1. "process" \in Parts
        BY DEF Parts
      <4> QED BY <4>1
    <3>2. \A l \in DOMAIN <<"process">> : <<"process">>[l] # ":"
      OBVIOUS
    <3>3. ":" \notin ToSet(k)
      BY <2>1, <3>2 DEF ConsumerScope, ToSet
    <3> QED BY <2>1, <3>1, <3>3 DEF ConsumerScope
  <2>2. CASE k \in DOMAIN consumers
    <3>1. consumers = [x \in Names |-> CHOOSE d \in ToSet(accepted) : d.name = x]
      BY DEF ConfigInv, RequestsInv, ConsumersInv
    <3>2. PICK l \in DOMAIN accepted : k = accepted[l].name
      BY <2>2, <3>1 DEF Names
    <3>3. accepted[l] \in Consumer
      BY <3>2 DEF ConfigInv, ConsumersInv
    <3>4. ":" \notin ToSet(accepted[l].name)
      BY <3>2 DEF ConfigInv, RequestsInv, ConsumersInv
    <3> QED BY <1>2, <3>2, <3>3, <3>4 DEF Consumer
  <2> QED BY <1>3, <2>1, <2>2
<1> QED BY <1>1, <1>2, <1>3, KeysAreOfOneName

\* Whoever is served is served by the whole of a valid configuration, with keys
\* of his own and a secret of his own consumer.
THEOREM ServesWholeConfigurationHolds == StartupSpec => []ServesWholeConfiguration
<1>1. StartupInit => ConfigInv
  BY DEF StartupInit, ConfigInv, RulesInv, ConsumersInv, RequestsInv, Unwired,
     ConfiguredRules, ConfiguredConsumers
<1>2. ConfigInv /\ [StartupNext]_vars => ConfigInv'
  BY RulesStep, ConsumersStep, RequestsStep DEF ConfigInv
<1>3. ConfigInv => ServesWholeConfiguration
  <2> SUFFICES ASSUME ConfigInv, listener = "open"
               PROVE  Complete /\ KeysApart /\ ActsForItsOwner
    BY DEF ServesWholeConfiguration
  <2>1. ActsForItsOwner
    <3>1. accepted = ConfiguredConsumers
      BY ServingTookAll
    <3> QED BY <3>1 DEF ActsForItsOwner, Handling, ConfigInv, RequestsInv, ToSet
  <2> QED BY <2>1, ServesAll, KeepsConsumersApart
<1> QED BY <1>1, <1>2, <1>3, PTL DEF StartupSpec
=============================================================================
