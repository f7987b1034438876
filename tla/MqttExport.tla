------------------------------ MODULE MqttExport ------------------------------
(* Variables exported to MQTT (MqttExportManager) over the connection of    *)
(* MqttManager: rules that name a topic for a variable of the registry, the *)
(* publication of values, throttled and only when they changed, and the     *)
(* writes that arrive on a topic.  The broker returns to the hub what the   *)
(* hub itself publishes on a topic it subscribes.                           *)
EXTENDS Integers, Sequences

CONSTANTS
  NumVars,      \* variables, numbered in the order of the rules' map
  Topic,
  Value,        \* what programs write
  ClientText,   \* what clients write
  Config,       \* the rules a configuration may give a variable
  Absent,       \* the variable is not registered, or its program not loaded
  NoRule, NoVar,
  Nothing,      \* nothing has been published under the rule
  Lost,         \* the last publication did not reach the broker
  Wrap,         \* millis() counts modulo Wrap ticks
  CheckPeriod,  \* loop() looks at the rules when more ticks have passed
  MaxInbox,     \* bound: messages on their way to the hub
  MaxAge        \* bound: where the history variable since saturates

Var == 1 .. NumVars
Access == {"READ_ONLY", "WRITE_ONLY", "READ_WRITE"}

(* Values of the registry: a REAL in thousandths, BOOL as 0 or 1.  BYTE     *)
(* stands for DINT, too; numbers are not negative and fit an int16_t, and a *)
(* STRING, which is compared like an INT, is left out.                      *)
Type == {"BOOL", "BYTE", "INT", "REAL"}
PlcValue == {x \in [type : Type, n : Nat] : x.type = "BOOL" => x.n <= 1}
Initial == [type |-> "BOOL", n |-> 0]

(* The text of a message by what a reader makes of it: whether it is "true",*)
(* "1" or "ON", and the number it begins with, in thousandths (else 0).     *)
Text == [truth : BOOLEAN, number : Nat]

ASSUME ExportAssumption ==
  /\ NumVars \in Nat
  /\ Config \subseteq [topic : Topic, access : Access, onChange : BOOLEAN,
                       minInterval : Nat, min : Nat, max : Nat]
  /\ \A c \in Config : c.minInterval < Wrap /\ c.minInterval <= MaxAge
  /\ Value \subseteq PlcValue /\ ClientText \subseteq Text
  /\ Wrap \in Nat \ {0} /\ CheckPeriod \in Nat
  /\ MaxInbox \in Nat /\ MaxAge \in Nat \ {0}
  /\ Absent \notin PlcValue /\ {Nothing, Lost} \cap Text = {}
  /\ NoVar \notin Var

VARIABLES
  rules,            \* exportRules
  topicToVariable,
  type,             \* the type the variable is registered with
  value,            \* what readVariable finds at the variable's source
  now, lastCheck,   \* millis(), and when loop() last looked at the rules
  turn,             \* where EspHub::loop is
  at,               \* the rule MqttExportManager::loop is looking at
  link,             \* the connection to the broker
  subs,             \* what the broker has subscribed for this connection
  inbox,            \* messages the broker has sent to the hub, in order
  broker,           \* the last message published under each rule
  since             \* ticks since then (history variable)

vars == <<rules, topicToVariable, type, value, now, lastCheck, turn, at, link,
          subs, inbox, broker, since>>
config == <<rules, topicToVariable, type, subs>>

Rule ==
  [topic : Topic, access : Access, onChange : BOOLEAN, minInterval : Nat,
   min : Nat, max : Nat, lastPublish : 0 .. Wrap - 1, lastValue : PlcValue]
Message == [topic : Topic, text : Text]

ValuesTyped ==
  /\ value \in [Var -> PlcValue \cup {Absent}]
  /\ \A v \in Var : value[v] = Absent \/ value[v].type = type[v]

TypeOK ==
  /\ rules \in [Var -> Rule \cup {NoRule}]
  /\ topicToVariable \in [Topic -> Var \cup {NoVar}]
  /\ type \in [Var -> Type]
  /\ ValuesTyped
  /\ now \in 0 .. Wrap - 1 /\ lastCheck \in 0 .. Wrap - 1
  /\ turn \in {"connect", "receive", "export", "rules"}
  /\ at \in 1 .. NumVars + 1
  /\ link \in {"up", "down"}
  /\ subs \subseteq Topic
  /\ inbox \in Seq(Message) /\ Len(inbox) <= MaxInbox
  /\ broker \in [Var -> Text \cup {Nothing, Lost}]
  /\ since \in [Var -> 0 .. MaxAge]

Init ==
  /\ rules = [v \in Var |-> NoRule]
  /\ topicToVariable = [t \in Topic |-> NoVar]
  /\ type \in [Var -> {x.type : x \in Value}]
  /\ value = [v \in Var |-> Absent]
  /\ now = 0 /\ lastCheck = 0
  /\ turn = "connect" /\ at = 1
  /\ link = "down"
  /\ subs = {}
  /\ inbox = <<>>
  /\ broker = [v \in Var |-> Nothing]
  /\ since = [v \in Var |-> MaxAge]
------------------------------------------------------------------------------
(* Configuration, on the hub's thread, between two rounds of its loop.  A   *)
(* subscription needs a connection; otherwise the client refuses it and     *)
(* nobody asks again.                                                       *)
Writable(r) == r.access \in {"WRITE_ONLY", "READ_WRITE"}

NewRule(c) ==
  [topic |-> c.topic, access |-> c.access, onChange |-> c.onChange,
   minInterval |-> c.minInterval, min |-> c.min, max |-> c.max,
   lastPublish |-> 0, lastValue |-> Initial]

subscribe(topics) == subs' = IF link = "up" THEN subs \cup topics ELSE subs

(* The rule replaces the variable's previous one; its topic stays mapped.   *)
SetRule(v, c) ==
  /\ rules' = [rules EXCEPT ![v] = NewRule(c)]
  /\ topicToVariable' =
       IF Writable(c) THEN [topicToVariable EXCEPT ![c.topic] = v]
       ELSE topicToVariable
  /\ broker' = [broker EXCEPT ![v] = Nothing]
  /\ since' = [since EXCEPT ![v] = MaxAge]
  /\ UNCHANGED <<type, value, now, lastCheck, turn, at, link, inbox>>

configureExportRule(v, c) ==
  /\ SetRule(v, c)
  /\ subscribe(IF Writable(c) THEN {c.topic} ELSE {})

(* loadConfig with one variable: all rules that are writable subscribe.     *)
loadConfig(v, c) ==
  /\ SetRule(v, c)
  /\ LET writable == {u \in Var : rules'[u] # NoRule /\ Writable(rules'[u])}
     IN  subscribe({rules'[u].topic : u \in writable})

(* Whatever variable the topic is mapped to, the mapping goes.              *)
removeExportRule(v) ==
  /\ rules[v] # NoRule
  /\ topicToVariable' = [topicToVariable EXCEPT ![rules[v].topic] = NoVar]
  /\ rules' = [rules EXCEPT ![v] = NoRule]
  /\ broker' = [broker EXCEPT ![v] = Nothing]
  /\ since' = [since EXCEPT ![v] = MaxAge]
  /\ UNCHANGED <<type, value, now, lastCheck, turn, at, link, subs, inbox>>

setAutoPublish(v, enabled) ==
  /\ rules[v] # NoRule
  /\ rules' = [rules EXCEPT ![v].onChange = enabled]
  /\ UNCHANGED <<topicToVariable, type, value, now, lastCheck, turn, at, link,
                 subs, inbox, broker, since>>
------------------------------------------------------------------------------
(* Publication.  x is the value that the registry reads.                    *)
Elapsed(t) == (now + Wrap - t) % Wrap

(* As if the sum were taken instead of the difference.                      *)
ThrottledBySum(r) == r.minInterval > 0 /\ now < r.lastPublish + r.minInterval

Throttled(r) == r.minInterval > 0 /\ Elapsed(r.lastPublish) < r.minInterval

(* As if values of different types were compared by their number.           *)
SameNumber(last, x) == x.type # "BYTE" /\ last.n - x.n \in -9 .. 9

(* What counts as the value last published: the same type, and for a REAL  *)
(* a difference below 0.01.  A BYTE is never the same.                      *)
Same(last, x) ==
  /\ last.type = x.type
  /\ \/ x.type \in {"BOOL", "INT"} /\ last.n = x.n
     \/ x.type = "REAL" /\ last.n - x.n \in -9 .. 9

(* As if only the periodic check were throttled.                            *)
shouldPublishChanged(r, x) == ~Same(r.lastValue, x)

(* As if equal values were published again.                                 *)
shouldPublishAlways(r, x) == ~Throttled(r)

shouldPublish(r, x) == ~Throttled(r) /\ ~Same(r.lastValue, x)

Publishes(v, x) ==
  /\ rules[v] # NoRule
  /\ rules[v].access # "WRITE_ONLY"
  /\ x # Absent
  /\ shouldPublish(rules[v], x)

(* valueToMqttPayload: a REAL is rounded to two decimals, a BYTE is empty.  *)
Payload(x) ==
  [truth |-> x.type \in {"BOOL", "INT"} /\ x.n = 1,
   number |-> CASE x.type = "INT" -> 1000 * x.n
                [] x.type = "REAL" -> 10 * ((x.n + 5) \div 10)
                [] OTHER -> 0]

(* What the broker sends on to the hub; beyond the bound it is lost on the  *)
(* way, as QoS 0 allows.                                                    *)
Deliver(queue, t, text) ==
  IF t \in subs /\ Len(queue) < MaxInbox
  THEN Append(queue, [topic |-> t, text |-> text]) ELSE queue

(* queue is what remains in the inbox.  Nobody asks whether the broker got  *)
(* the message.                                                             *)
publishVariable(v, x, queue) ==
  IF Publishes(v, x)
  THEN /\ rules' = [rules EXCEPT ![v].lastPublish = now, ![v].lastValue = x]
       /\ broker' = [broker EXCEPT ![v] =
                       IF link = "up" THEN Payload(x) ELSE Lost]
       /\ since' = [since EXCEPT ![v] = 0]
       /\ inbox' = Deliver(queue, rules[v].topic, Payload(x))
  ELSE /\ inbox' = queue
       /\ UNCHANGED <<rules, broker, since>>
------------------------------------------------------------------------------
(* A round of EspHub::loop on the root node.                                *)

(* MqttManager::loop and reconnect.  A new session has no subscriptions but *)
(* those of the hub's own topics; while an attempt fails, the hub waits.    *)
Connect ==
  /\ turn = "connect"
  /\ turn' = "receive"
  /\ link' = "up"
  /\ IF link = "up" THEN UNCHANGED <<subs, inbox>>
     ELSE subs' = {} /\ inbox' = <<>>
  /\ UNCHANGED <<rules, topicToVariable, type, value, now, lastCheck, at,
                 broker, since>>

(* As if numbers were accepted for a BOOL.                                  *)
ParsedAsNumber(text, t) == [type |-> t, n |-> text.number]

(* mqttPayloadToValue; text that is no number, JSON included, is parsed to  *)
(* zero or false.                                                           *)
Parsed(text, t) ==
  [type |-> t,
   n |-> CASE t = "BOOL" -> IF text.truth THEN 1 ELSE 0
           [] t = "INT" -> text.number \div 1000
           [] OTHER -> text.number]

(* validateValue; a BOOL is always in range.                                *)
InRange(r, x) ==
  /\ x.type = "INT" => 1000 * x.n \in r.min .. r.max
  /\ x.type = "REAL" => x.n \in r.min .. r.max

(* mqttClient.loop() hands over one message: handleMqttMessage,             *)
(* handleVariableWrite, writeVariable, notifyChange and the publication of  *)
(* the new value.  Only type and range are checked, not the access.         *)
Accepted(v, text) ==
  /\ v # NoVar
  /\ rules[v] # NoRule
  /\ value[v] # Absent
  /\ type[v] # "BYTE"
  /\ InRange(rules[v], Parsed(text, type[v]))

writeVariable(v, x) ==
  /\ value' = [value EXCEPT ![v] = x]
  /\ IF rules[v].onChange THEN publishVariable(v, x, Tail(inbox))
     ELSE /\ inbox' = Tail(inbox)
          /\ UNCHANGED <<rules, broker, since>>

handleVariableWrite(v, text) ==
  Accepted(v, text) /\ writeVariable(v, Parsed(text, type[v]))

Ignore(v, text) ==
  /\ ~Accepted(v, text)
  /\ inbox' = Tail(inbox)
  /\ UNCHANGED <<rules, value, broker, since>>

Receive ==
  /\ turn = "receive"
  /\ turn' = "export"
  /\ IF inbox = <<>>
     THEN UNCHANGED <<rules, value, inbox, broker, since>>
     ELSE LET text == Head(inbox).text
              v == topicToVariable[Head(inbox).topic]
          IN  handleVariableWrite(v, text) \/ Ignore(v, text)
  /\ UNCHANGED <<topicToVariable, type, now, lastCheck, at, link, subs>>

(* MqttExportManager::loop: once a period, all the rules one by one.        *)
Check ==
  /\ turn = "export"
  /\ IF Elapsed(lastCheck) > CheckPeriod
     THEN turn' = "rules" /\ at' = 1 /\ lastCheck' = now
     ELSE turn' = "connect" /\ UNCHANGED <<at, lastCheck>>
  /\ UNCHANGED <<config, value, now, link, inbox, broker, since>>

(* Rules without an interval are left to the notification of changes.       *)
Polled(r) ==
  r # NoRule /\ r.onChange /\ r.minInterval > 0 /\ ~Throttled(r)

Export ==
  /\ turn = "rules"
  /\ IF at > NumVars
     THEN /\ turn' = "connect" /\ at' = 1
          /\ UNCHANGED <<rules, inbox, broker, since>>
     ELSE /\ at' = at + 1 /\ UNCHANGED turn
          /\ IF Polled(rules[at]) THEN publishVariable(at, value[at], inbox)
             ELSE UNCHANGED <<rules, inbox, broker, since>>
  /\ UNCHANGED <<topicToVariable, type, value, now, lastCheck, link, subs>>

Round == Connect \/ Receive \/ Check \/ Export
------------------------------------------------------------------------------
(* Around the hub's loop.                                                   *)

(* Something else changes what the variable is read from (a program writes  *)
(* its memory, is loaded or is deleted): nobody is told.                    *)
PlcWrite(v) ==
  /\ \E x \in {y \in Value : y.type = type[v]} \cup {Absent} :
       value' = [value EXCEPT ![v] = x]
  /\ UNCHANGED <<config, now, lastCheck, turn, at, link, inbox, broker, since>>

(* Another client publishes.                                                *)
ClientWrite(t, text) ==
  /\ t \in subs
  /\ Len(inbox) < MaxInbox
  /\ inbox' = Append(inbox, [topic |-> t, text |-> text])
  /\ UNCHANGED <<config, value, now, lastCheck, turn, at, link, broker, since>>

Disconnect ==
  /\ link = "up"
  /\ link' = "down"
  /\ subs' = {} /\ inbox' = <<>>
  /\ UNCHANGED <<rules, topicToVariable, type, value, now, lastCheck, turn, at,
                 broker, since>>

(* A tick is longer than a round, unless the hub waits for the broker.      *)
Tick ==
  /\ turn = "connect"
  /\ link = "down" \/ Elapsed(lastCheck) <= CheckPeriod
  /\ now' = (now + 1) % Wrap
  /\ since' = [v \in Var |->
                 IF since[v] < MaxAge THEN since[v] + 1 ELSE MaxAge]
  /\ UNCHANGED <<config, value, lastCheck, turn, at, link, inbox, broker>>

Configure ==
  /\ turn = "connect"
  /\ \E v \in Var :
       \/ \E c \in Config : configureExportRule(v, c) \/ loadConfig(v, c)
       \/ removeExportRule(v)
       \/ \E enabled \in BOOLEAN : setAutoPublish(v, enabled)

External ==
  \/ \E v \in Var : PlcWrite(v)
  \/ \E t \in Topic, text \in ClientText : ClientWrite(t, text)
  \/ Configure
  \/ Disconnect

Next == Round \/ Tick \/ External

Spec == Init /\ [][Next]_vars

(* The loop goes on, which on a root node means that the broker answers,    *)
(* and so does time: what guards Tick only makes a tick longer than a round.*)
FairSpec == Spec /\ WF_vars(Round) /\ SF_vars(Tick)
------------------------------------------------------------------------------
(* Two publications under one rule are at least min_interval_ms apart, by  *)
(* whichever way they come about (the periodic check, a client's write),   *)
(* also when millis() wraps around between them.                           *)
Renewed(v) ==
  /\ rules[v] # NoRule /\ rules'[v] # NoRule
  /\ since'[v] = 0
  /\ since[v] > 0 \/ rules'[v].lastValue # rules[v].lastValue
KeepsInterval ==
  [][\A v \in Var : Renewed(v) => since[v] >= rules[v].minInterval]_vars

(* A value that stays reaches the broker under a rule that publishes and    *)
(* has an interval, unless the publication before it was lost on the way:   *)
(* when a program changes a value nobody is told, so it is the periodic     *)
(* check that has to find out.  What the broker has then is the value's     *)
(* text, for a REAL within 0.015: a change below 0.01 is not published, and *)
(* the text is rounded.  Only a BOOL that is false may never be published:  *)
(* a new rule takes it for published already.                               *)
Exported(v) ==
  /\ rules[v] # NoRule
  /\ rules[v].access # "WRITE_ONLY" /\ rules[v].onChange
  /\ rules[v].minInterval > 0
SettledOn(v, x) ==
  link = "up" /\ Exported(v) /\ value[v] = x /\ broker[v] # Lost
Tells(text, x) ==
  IF x.type = "REAL" THEN text.number - x.n \in -14 .. 14
  ELSE text = Payload(x)
Told(v, x) ==
  IF broker[v] \in {Nothing, Lost} THEN broker[v] = Nothing /\ x = Initial
  ELSE Tells(broker[v], x)
LatestPublished ==
  \A v \in Var, x \in Value :
    <>[]SettledOn(v, x) /\ <>[][~Configure]_vars => <>[]Told(v, x)

(* What a variable's publication brings back to the hub is not published    *)
(* again, not even a REAL that was rounded on the way: when programs and    *)
(* clients fall silent, so does the export, if never two messages were on   *)
(* their way to the hub at once.  A BYTE is published again and again.      *)
QuietAtLast == <>[][~External]_vars => <>[](inbox = <<>>)
QuietOneByOne ==
  (\A v \in Var : type[v] # "BYTE") /\ [](Len(inbox) <= 1) => QuietAtLast
==============================================================================
