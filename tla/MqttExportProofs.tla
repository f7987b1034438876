--------------------------- MODULE MqttExportProofs ---------------------------
(* Type correctness of MqttExport and the distance between publications,    *)
(* for any number of variables, topics, values, rules and ticks.            *)
EXTENDS MqttExport, TLAPS

(* What a rule can rely on while it waits: as long as its interval is not   *)
(* over, its time stamp is as old as its last publication, so that the      *)
(* clock cannot have lapped it.                                             *)
Waiting(v) ==
  rules[v] # NoRule /\ since[v] < rules[v].minInterval
    => Elapsed(rules[v].lastPublish) = since[v]

IntervalsFit ==
  \A v \in Var : rules[v] # NoRule =>
    rules[v].minInterval < Wrap /\ rules[v].minInterval <= MaxAge

IInv == TypeOK /\ IntervalsFit /\ \A v \in Var : Waiting(v)

(* The clock: readings stay in range, a reading just taken has age zero,    *)
(* and a tick makes a reading one older unless it has lapped it.            *)
LEMMA ClockAge ==
  ASSUME now \in 0 .. Wrap - 1, NEW t \in 0 .. Wrap - 1
  PROVE  /\ Elapsed(t) \in 0 .. Wrap - 1
         /\ Elapsed(t) = IF t <= now THEN now - t ELSE now + Wrap - t
<1>1. CASE t <= now
  <2>1. now + Wrap - t = Wrap + (now - t) /\ now - t \in 0 .. Wrap - 1
    BY <1>1, ExportAssumption
  <2>2. (now + Wrap - t) % Wrap = now - t
    BY <2>1, ExportAssumption
  <2>3. QED
    BY <1>1, <2>1, <2>2 DEF Elapsed
<1>2. CASE ~(t <= now)
  <2>1. now + Wrap - t \in 0 .. Wrap - 1
    BY <1>2, ExportAssumption
  <2>2. (now + Wrap - t) % Wrap = now + Wrap - t
    BY <2>1, ExportAssumption
  <2>3. QED
    BY <1>2, <2>1, <2>2 DEF Elapsed
<1>3. QED
  BY <1>1, <1>2

LEMMA TickAge ==
  ASSUME now \in 0 .. Wrap - 1, now' = (now + 1) % Wrap,
         NEW t \in 0 .. Wrap - 1, Elapsed(t) + 1 < Wrap
  PROVE  Elapsed(t)' = Elapsed(t) + 1
<1>1. now' = IF now = Wrap - 1 THEN 0 ELSE now + 1
  BY ExportAssumption
<1>2. now' \in 0 .. Wrap - 1
  BY <1>1, ExportAssumption
<1>3. Elapsed(t)' = IF t <= now' THEN now' - t ELSE now' + Wrap - t
  <2>1. CASE t <= now'
    <3>1. now' + Wrap - t = Wrap + (now' - t) /\ now' - t \in 0 .. Wrap - 1
      BY <1>2, <2>1, ExportAssumption
    <3>2. (now' + Wrap - t) % Wrap = now' - t
      BY <3>1, ExportAssumption
    <3>3. QED
      BY <2>1, <3>2 DEF Elapsed
  <2>2. CASE ~(t <= now')
    <3>1. now' + Wrap - t \in 0 .. Wrap - 1
      BY <1>2, <2>2, ExportAssumption
    <3>2. (now' + Wrap - t) % Wrap = now' + Wrap - t
      BY <3>1, ExportAssumption
    <3>3. QED
      BY <2>2, <3>2 DEF Elapsed
  <2>3. QED
    BY <2>1, <2>2
<1>4. Elapsed(t) = IF t <= now THEN now - t ELSE now + Wrap - t
  BY ClockAge
<1>5. QED
  BY <1>1, <1>3, <1>4, ExportAssumption
------------------------------------------------------------------------------
(* A rule that a configuration sets is a rule, published never: its history *)
(* says MaxAge, which no interval exceeds.                                  *)
LEMMA NewRuleFits ==
  ASSUME NEW c \in Config
  PROVE  /\ NewRule(c) \in Rule
         /\ NewRule(c).minInterval < Wrap
         /\ NewRule(c).minInterval <= MaxAge
         /\ c.topic \in Topic
<1>1. Initial \in PlcValue
  BY DEF Initial, PlcValue, Type
<1>2. 0 \in 0 .. Wrap - 1
  BY ExportAssumption
<1>3. /\ c \in [topic : Topic, access : Access, onChange : BOOLEAN,
               minInterval : Nat, min : Nat, max : Nat]
      /\ c.minInterval < Wrap /\ c.minInterval <= MaxAge
  BY ExportAssumption
<1>4. QED
  BY <1>1, <1>2, <1>3 DEF NewRule, Rule

LEMMA SetRuleKeeps ==
  ASSUME IInv, NEW v \in Var, NEW c \in Config, SetRule(v, c),
         subs' \subseteq Topic
  PROVE  IInv'
<1> USE ExportAssumption
<1>1. /\ NewRule(c) \in Rule /\ c.topic \in Topic
      /\ NewRule(c).minInterval < Wrap /\ NewRule(c).minInterval <= MaxAge
  BY NewRuleFits
<1>2. TypeOK'
  <2>1. rules' \in [Var -> Rule \cup {NoRule}]
    BY <1>1 DEF IInv, TypeOK, SetRule
  <2>2. topicToVariable' \in [Topic -> Var \cup {NoVar}]
    BY <1>1 DEF IInv, TypeOK, SetRule
  <2>3. broker' \in [Var -> Text \cup {Nothing, Lost}]
    BY DEF IInv, TypeOK, SetRule
  <2>4. since' \in [Var -> 0 .. MaxAge]
    BY DEF IInv, TypeOK, SetRule
  <2>5. QED
    BY <2>1, <2>2, <2>3, <2>4 DEF IInv, TypeOK, ValuesTyped, SetRule
<1>3. ASSUME NEW u \in Var
      PROVE  /\ rules'[u] # NoRule => /\ rules'[u].minInterval < Wrap
                                      /\ rules'[u].minInterval <= MaxAge
             /\ Waiting(u)'
  <2>1. CASE u = v
    <3>1. rules'[u] = NewRule(c) /\ since'[u] = MaxAge
      BY <2>1 DEF SetRule, IInv, TypeOK
    <3>2. ~(since'[u] < rules'[u].minInterval)
      BY <1>1, <3>1 DEF Rule
    <3>3. QED
      BY <1>1, <3>1, <3>2 DEF Waiting
  <2>2. CASE u # v
    BY <2>2 DEF SetRule, IInv, TypeOK, IntervalsFit, Waiting, Elapsed
  <2>3. QED
    BY <2>1, <2>2
<1>4. QED
  BY <1>2, <1>3 DEF IInv, IntervalsFit
------------------------------------------------------------------------------
(* Texts and values: what is sent is text, what is parsed a value of the    *)
(* type asked for.                                                          *)
LEMMA PayloadIsText ==
  ASSUME NEW x \in PlcValue
  PROVE  Payload(x) \in Text
<1>1. x.n \in Nat /\ (x.n + 5) \div 10 \in Nat
  BY DEF PlcValue
<1>2. QED
  BY <1>1 DEF Payload, Text

LEMMA ParsedIsValue ==
  ASSUME NEW text \in Text, NEW t \in Type
  PROVE  Parsed(text, t) \in PlcValue /\ Parsed(text, t).type = t
<1>1. text.number \in Nat /\ text.number \div 1000 \in Nat
  BY DEF Text
<1>2. QED
  BY <1>1 DEF Parsed, PlcValue, Type

(* A publication happens only when the interval is over, which Waiting      *)
(* makes a fact about the history; it starts the next interval at age zero. *)
LEMMA PublishKeeps ==
  ASSUME IInv, NEW v \in Var, rules[v] # NoRule,
         NEW x \in PlcValue \cup {Absent},
         NEW queue \in Seq(Message), Len(queue) <= MaxInbox,
         publishVariable(v, x, queue), UNCHANGED now
  PROVE  /\ rules' \in [Var -> Rule \cup {NoRule}]
         /\ broker' \in [Var -> Text \cup {Nothing, Lost}]
         /\ since' \in [Var -> 0 .. MaxAge]
         /\ inbox' \in Seq(Message) /\ Len(inbox') <= MaxInbox
         /\ IntervalsFit'
         /\ \A u \in Var : Waiting(u)'
         /\ \A u \in Var : Renewed(u) => since[u] >= rules[u].minInterval
<1> USE ExportAssumption
<1>0. rules[v] \in Rule
  BY DEF IInv, TypeOK
<1>1. CASE ~Publishes(v, x)
  <2>1. inbox' = queue /\ UNCHANGED <<rules, broker, since>>
    BY <1>1 DEF publishVariable
  <2>2. QED
    BY <2>1 DEF IInv, TypeOK, IntervalsFit, Waiting, Elapsed, Renewed
<1>2. CASE Publishes(v, x)
  <2>1. /\ rules' = [rules EXCEPT ![v].lastPublish = now, ![v].lastValue = x]
        /\ broker' = [broker EXCEPT ![v] =
                        IF link = "up" THEN Payload(x) ELSE Lost]
        /\ since' = [since EXCEPT ![v] = 0]
        /\ inbox' = Deliver(queue, rules[v].topic, Payload(x))
    BY <1>2 DEF publishVariable
  <2>2. x \in PlcValue /\ Payload(x) \in Text /\ ~Throttled(rules[v])
    BY <1>2, PayloadIsText DEF Publishes, shouldPublish
  <2>3. /\ rules'[v] = [rules[v] EXCEPT !.lastPublish = now, !.lastValue = x]
        /\ \A u \in Var \ {v} : rules'[u] = rules[u] /\ since'[u] = since[u]
        /\ since'[v] = 0
    BY <2>1 DEF IInv, TypeOK
  <2>4. /\ rules'[v] \in Rule
        /\ rules'[v].lastPublish = now
        /\ rules'[v].minInterval = rules[v].minInterval
    <3>1. now \in 0 .. Wrap - 1
      BY DEF IInv, TypeOK
    <3>2. QED
      BY <1>0, <2>2, <2>3, <3>1 DEF Rule
  <2>5. rules' \in [Var -> Rule \cup {NoRule}]
    BY <2>1, <2>3, <2>4 DEF IInv, TypeOK
  <2>6. /\ broker' \in [Var -> Text \cup {Nothing, Lost}]
        /\ since' \in [Var -> 0 .. MaxAge]
    BY <2>1, <2>2 DEF IInv, TypeOK
  <2>7. inbox' \in Seq(Message) /\ Len(inbox') <= MaxInbox
    <3>1. [topic |-> rules[v].topic, text |-> Payload(x)] \in Message
      BY <1>0, <2>2 DEF Rule, Message
    <3>2. QED
      BY <2>1, <3>1 DEF Deliver
  <2>8. IntervalsFit'
    BY <2>3, <2>4 DEF IInv, IntervalsFit
  <2>9. ASSUME NEW u \in Var PROVE Waiting(u)'
    <3>1. CASE u = v
      <4>1. Elapsed(now) = 0
        BY ClockAge DEF IInv, TypeOK
      <4>2. Elapsed(rules[u].lastPublish)' = 0
        BY <2>4, <3>1, <4>1 DEF Elapsed
      <4>3. QED
        BY <2>3, <3>1, <4>2 DEF Waiting
    <3>2. CASE u # v
      BY <2>3, <3>2 DEF IInv, Waiting, Elapsed
    <3>3. QED
      BY <3>1, <3>2
  <2>10. ASSUME NEW u \in Var, Renewed(u)
         PROVE  since[u] >= rules[u].minInterval
    <3>1. u = v
      BY <2>3, <2>10 DEF Renewed
    <3>2. rules[v].minInterval \in Nat /\ since[v] \in Nat
      BY <1>0 DEF Rule, IInv, TypeOK
    <3>3. CASE since[v] < rules[v].minInterval
      <4>1. Elapsed(rules[v].lastPublish) = since[v]
        BY <3>3 DEF IInv, Waiting
      <4>2. QED
        BY <2>2, <3>2, <3>3, <4>1 DEF Throttled
    <3>4. QED
      BY <3>1, <3>2, <3>3
  <2>11. QED
    BY <2>5, <2>6, <2>7, <2>8, <2>9, <2>10
<1>3. QED
  BY <1>1, <1>2

(* Who leaves rules, clock and history alone leaves them in order.          *)
LEMMA ClockUntouched ==
  ASSUME IInv, UNCHANGED <<rules, now, since>>
  PROVE  /\ IntervalsFit' /\ \A u \in Var : Waiting(u)'
         /\ \A u \in Var : ~Renewed(u)
BY DEF IInv, IntervalsFit, Waiting, Elapsed, Renewed

LEMMA TailMessage ==
  ASSUME TypeOK, inbox # <<>>
  PROVE  /\ Head(inbox) \in Message
         /\ Tail(inbox) \in Seq(Message) /\ Len(Tail(inbox)) <= MaxInbox
BY ExportAssumption DEF TypeOK
------------------------------------------------------------------------------
Kept == IInv' /\ \A u \in Var : Renewed(u) => since[u] >= rules[u].minInterval

LEMMA ConfigureKeeps == IInv /\ Configure => Kept
<1> SUFFICES ASSUME IInv, Configure PROVE Kept
  OBVIOUS
<1> USE ExportAssumption
<1>1. PICK v \in Var :
        \/ \E c \in Config : configureExportRule(v, c) \/ loadConfig(v, c)
        \/ removeExportRule(v)
        \/ \E enabled \in BOOLEAN : setAutoPublish(v, enabled)
  BY DEF Configure
<1>2. ASSUME NEW c \in Config, configureExportRule(v, c) \/ loadConfig(v, c)
      PROVE  Kept
  <2>1. SetRule(v, c)
    BY <1>2 DEF configureExportRule, loadConfig
  <2>2. c.topic \in Topic /\ NewRule(c) \in Rule
    BY NewRuleFits
  <2>3. subs' \subseteq Topic
    <3>1. CASE configureExportRule(v, c)
      BY <2>2, <3>1 DEF configureExportRule, subscribe, IInv, TypeOK
    <3>2. CASE loadConfig(v, c)
      <4>1. rules' \in [Var -> Rule \cup {NoRule}]
        BY <2>1, <2>2 DEF SetRule, IInv, TypeOK
      <4>2. \A w \in Var : rules'[w] # NoRule => rules'[w].topic \in Topic
        BY <4>1 DEF Rule
      <4>3. QED
        BY <3>2, <4>2 DEF loadConfig, subscribe, IInv, TypeOK
    <3>3. QED
      BY <1>2, <3>1, <3>2
  <2>4. IInv'
    BY <2>1, <2>3, SetRuleKeeps
  <2>5. \A u \in Var : ~Renewed(u)
    BY <2>1 DEF SetRule, NewRule, Renewed, IInv, TypeOK
  <2>6. QED
    BY <2>4, <2>5 DEF Kept
<1>3. ASSUME removeExportRule(v) PROVE Kept
  <2>1. rules[v].topic \in Topic
    BY <1>3 DEF removeExportRule, IInv, TypeOK, Rule
  <2>2. TypeOK'
    BY <1>3, <2>1 DEF removeExportRule, IInv, TypeOK, ValuesTyped
  <2>3. \A u \in Var : \/ rules'[u] = NoRule
                       \/ rules'[u] = rules[u] /\ since'[u] = since[u]
    BY <1>3 DEF removeExportRule, IInv, TypeOK
  <2>4. now' = now
    BY <1>3 DEF removeExportRule
  <2>5. QED
    BY <2>2, <2>3, <2>4 DEF Kept, IInv, IntervalsFit, Waiting, Elapsed, Renewed
<1>4. ASSUME NEW enabled \in BOOLEAN, setAutoPublish(v, enabled) PROVE Kept
  <2>1. rules[v] \in Rule
    BY <1>4 DEF setAutoPublish, IInv, TypeOK
  <2>2. /\ rules'[v] = [rules[v] EXCEPT !.onChange = enabled]
        /\ \A u \in Var \ {v} : rules'[u] = rules[u]
    BY <1>4 DEF setAutoPublish, IInv, TypeOK
  <2>3. /\ rules'[v] \in Rule
        /\ rules'[v].minInterval = rules[v].minInterval
        /\ rules'[v].lastPublish = rules[v].lastPublish
        /\ rules'[v].lastValue = rules[v].lastValue
    BY <2>1, <2>2 DEF Rule
  <2>4. rules' \in [Var -> Rule \cup {NoRule}]
    BY <1>4, <2>3 DEF setAutoPublish, IInv, TypeOK
  <2>5. TypeOK'
    BY <1>4, <2>4 DEF setAutoPublish, IInv, TypeOK, ValuesTyped
  <2>6. rules[v] # NoRule /\ now' = now /\ since' = since
    BY <1>4 DEF setAutoPublish
  <2>7. \A u \in Var : ~Renewed(u)
    <3>1. ASSUME NEW u \in Var PROVE ~Renewed(u)
      <4>1. rules'[u].lastValue = rules[u].lastValue
        BY <2>2, <2>3
      <4>2. since'[u] = since[u] /\ since[u] \in 0 .. MaxAge
        BY <2>6 DEF IInv, TypeOK
      <4>3. QED
        BY <4>1, <4>2 DEF Renewed
    <3>2. QED
      BY <3>1
  <2>8. IntervalsFit' /\ \A u \in Var : Waiting(u)' /\ ~Renewed(u)
    BY <2>2, <2>3, <2>6, <2>7 DEF IInv, IntervalsFit, Waiting, Elapsed
  <2>9. QED
    BY <2>5, <2>8 DEF Kept, IInv
<1>5. QED
  BY <1>1, <1>2, <1>3, <1>4
------------------------------------------------------------------------------
LEMMA InitKeeps == Init => IInv
<1> SUFFICES ASSUME Init PROVE IInv
  OBVIOUS
<1> USE ExportAssumption DEF Init
<1>1. TypeOK
  <2>1. \A x \in Value : x.type \in Type
    BY DEF PlcValue
  <2>2. type \in [Var -> Type] /\ ValuesTyped
    BY <2>1 DEF ValuesTyped
  <2>3. QED
    BY <2>2 DEF TypeOK
<1>2. IntervalsFit /\ \A v \in Var : Waiting(v)
  BY DEF IntervalsFit, Waiting
<1>3. QED
  BY <1>1, <1>2 DEF IInv

(* The message of a client goes the way of a publication.                   *)
LEMMA ReceiveKeeps == IInv /\ Receive => Kept
<1> SUFFICES ASSUME IInv, Receive PROVE Kept
  OBVIOUS
<1> DEFINE text == Head(inbox).text
           v == topicToVariable[Head(inbox).topic]
           x == Parsed(text, type[v])
<1>1. UNCHANGED <<topicToVariable, type, now, lastCheck, at, link, subs>>
      /\ turn' = "export"
  BY DEF Receive
<1>2. CASE inbox = <<>>
  <2>1. UNCHANGED <<rules, value, inbox, broker, since>>
    BY <1>2 DEF Receive
  <2>2. TypeOK'
    BY <1>1, <2>1 DEF IInv, TypeOK, ValuesTyped
  <2>3. QED
    BY <1>1, <2>1, <2>2, ClockUntouched DEF Kept, IInv
<1>3. CASE inbox # <<>>
  <2>1. /\ Head(inbox) \in Message
        /\ Tail(inbox) \in Seq(Message) /\ Len(Tail(inbox)) <= MaxInbox
    BY <1>3, TailMessage DEF IInv
  <2>2. text \in Text /\ v \in Var \cup {NoVar}
    BY <2>1 DEF Message, IInv, TypeOK
  <2>3. ASSUME /\ inbox' = Tail(inbox)
               /\ UNCHANGED <<rules, broker, since>>,
               ValuesTyped'
        PROVE  Kept
    <3>1. TypeOK'
      BY <1>1, <2>1, <2>3 DEF IInv, TypeOK, ValuesTyped
    <3>2. QED
      BY <1>1, <2>3, <3>1, ClockUntouched DEF Kept, IInv
  <2>4. CASE Ignore(v, text)
    BY <1>1, <2>3, <2>4 DEF Ignore, IInv, TypeOK, ValuesTyped
  <2>5. CASE handleVariableWrite(v, text)
    <3>1. v \in Var /\ rules[v] # NoRule
      BY <2>2, <2>5 DEF handleVariableWrite, Accepted
    <3>2. x \in PlcValue /\ x.type = type[v]
      BY <2>2, <3>1, ParsedIsValue DEF IInv, TypeOK
    <3>7. value' = [value EXCEPT ![v] = x]
      BY <2>5 DEF handleVariableWrite, writeVariable
    <3>5. ValuesTyped'
      <4> HIDE DEF x, v
      <4>1. QED
        BY <1>1, <3>7, <3>1, <3>2 DEF IInv, TypeOK, ValuesTyped
    <3>3. CASE ~rules[v].onChange
      BY <2>3, <2>5, <3>5, <3>3 DEF handleVariableWrite, writeVariable
    <3>4. CASE rules[v].onChange
      <4>1. publishVariable(v, x, Tail(inbox))
        BY <2>5, <3>4 DEF handleVariableWrite, writeVariable
      <4>2. /\ rules' \in [Var -> Rule \cup {NoRule}]
            /\ broker' \in [Var -> Text \cup {Nothing, Lost}]
            /\ since' \in [Var -> 0 .. MaxAge]
            /\ inbox' \in Seq(Message) /\ Len(inbox') <= MaxInbox
            /\ IntervalsFit'
            /\ \A u \in Var : Waiting(u)'
            /\ \A u \in Var : Renewed(u) => since[u] >= rules[u].minInterval
        <5> HIDE DEF x, v
        <5>1. QED
          BY <1>1, <2>1, <3>1, <3>2, <4>1, PublishKeeps
      <4>3. TypeOK'
        BY <1>1, <3>5, <4>2 DEF IInv, TypeOK, ValuesTyped
      <4>4. QED
        BY <4>2, <4>3 DEF Kept, IInv
    <3>6. QED
      BY <3>3, <3>4
  <2>6. QED
    BY <1>3, <2>4, <2>5 DEF Receive
<1>4. QED
  BY <1>2, <1>3

LEMMA ExportKeeps == IInv /\ Export => Kept
<1> SUFFICES ASSUME IInv, Export PROVE Kept
  OBVIOUS
<1> USE ExportAssumption
<1>1. UNCHANGED <<topicToVariable, type, value, now, lastCheck, link, subs>>
  BY DEF Export
<1>2. turn' \in {"connect", "rules"} /\ at' \in 1 .. NumVars + 1
  BY DEF Export, IInv, TypeOK
<1>3. CASE UNCHANGED <<rules, inbox, broker, since>>
  <2>1. TypeOK'
    BY <1>1, <1>2, <1>3 DEF IInv, TypeOK, ValuesTyped
  <2>2. QED
    BY <1>1, <1>3, <2>1, ClockUntouched DEF Kept, IInv
<1>4. CASE /\ ~(at > NumVars) /\ Polled(rules[at])
           /\ publishVariable(at, value[at], inbox)
  <2>1. at \in Var /\ rules[at] # NoRule
    BY <1>4 DEF Polled, Var, IInv, TypeOK
  <2>2. /\ value[at] \in PlcValue \cup {Absent}
        /\ inbox \in Seq(Message) /\ Len(inbox) <= MaxInbox
    BY <2>1 DEF IInv, TypeOK, ValuesTyped
  <2>3. /\ rules' \in [Var -> Rule \cup {NoRule}]
        /\ broker' \in [Var -> Text \cup {Nothing, Lost}]
        /\ since' \in [Var -> 0 .. MaxAge]
        /\ inbox' \in Seq(Message) /\ Len(inbox') <= MaxInbox
        /\ IntervalsFit'
        /\ \A u \in Var : Waiting(u)'
        /\ \A u \in Var : Renewed(u) => since[u] >= rules[u].minInterval
    BY <1>1, <1>4, <2>1, <2>2, PublishKeeps
  <2>4. TypeOK'
    BY <1>1, <1>2, <2>3 DEF IInv, TypeOK, ValuesTyped
  <2>5. QED
    BY <2>3, <2>4 DEF Kept, IInv
<1>5. QED
  BY <1>3, <1>4 DEF Export

(* While the interval runs, the time stamp is younger than Wrap - 1 ticks,  *)
(* and so it and the history age together.                                  *)
LEMMA TickKeeps == IInv /\ Tick => Kept
<1> SUFFICES ASSUME IInv, Tick PROVE Kept
  OBVIOUS
<1> USE ExportAssumption
<1>1. /\ UNCHANGED <<config, value, lastCheck, turn, at, link, inbox, broker>>
      /\ now' = (now + 1) % Wrap
      /\ since' = [v \in Var |->
                     IF since[v] < MaxAge THEN since[v] + 1 ELSE MaxAge]
  BY DEF Tick
<1>2. now' \in 0 .. Wrap - 1 /\ since' \in [Var -> 0 .. MaxAge]
  BY <1>1 DEF IInv, TypeOK
<1>3. TypeOK'
  BY <1>1, <1>2 DEF IInv, TypeOK, ValuesTyped, config
<1>4. IntervalsFit' /\ \A u \in Var : ~Renewed(u)
  <2>1. IntervalsFit' /\ rules' = rules
    BY <1>1 DEF IInv, IntervalsFit, config
  <2>2. \A u \in Var : since'[u] > 0
    BY <1>1 DEF IInv, TypeOK
  <2>3. QED
    BY <2>1, <2>2 DEF Renewed
<1>5. ASSUME NEW u \in Var, rules[u] # NoRule, since'[u] < rules[u].minInterval
      PROVE  Elapsed(rules[u].lastPublish)' = since'[u]
  <2>1. rules[u] \in Rule /\ since[u] \in 0 .. MaxAge
    BY <1>5 DEF IInv, TypeOK
  <2>2. rules[u].lastPublish \in 0 .. Wrap - 1 /\ rules[u].minInterval \in Nat
    BY <2>1 DEF Rule
  <2>3. rules[u].minInterval < Wrap /\ rules[u].minInterval <= MaxAge
    BY <1>5 DEF IInv, IntervalsFit
  <2>4. since'[u] = since[u] + 1
    BY <1>1, <1>5, <2>1, <2>2, <2>3
  <2>5. Elapsed(rules[u].lastPublish) = since[u]
    BY <1>5, <2>1, <2>2, <2>4 DEF IInv, Waiting
  <2>6. Elapsed(rules[u].lastPublish) + 1 < Wrap
    BY <1>5, <2>1, <2>2, <2>3, <2>4, <2>5
  <2>7. \A t \in 0 .. Wrap - 1 :
          Elapsed(t) + 1 < Wrap => (now' + Wrap - t) % Wrap = Elapsed(t) + 1
    BY <1>1, TickAge DEF IInv, TypeOK, Elapsed
  <2>8. rules' = rules
    BY <1>1 DEF config
  <2>9. QED
    BY <2>2, <2>4, <2>5, <2>6, <2>7, <2>8 DEF Elapsed
<1>6. \A u \in Var : Waiting(u)'
  BY <1>1, <1>5 DEF Waiting, config
<1>7. QED
  BY <1>3, <1>4, <1>6 DEF Kept, IInv
------------------------------------------------------------------------------
LEMMA NextKeeps == IInv /\ [Next]_vars => Kept
<1> SUFFICES ASSUME IInv, [Next]_vars PROVE Kept
  OBVIOUS
<1> USE ExportAssumption DEF IInv, ValuesTyped
<1>1. ASSUME TypeOK', UNCHANGED <<rules, now, since>> PROVE Kept
  BY <1>1, ClockUntouched DEF Kept
<1>2. CASE Connect
  <2>1. /\ subs' \subseteq Topic
        /\ inbox' \in Seq(Message) /\ Len(inbox') <= MaxInbox
    <3>1. CASE link = "up"
      BY <1>2, <3>1 DEF Connect, TypeOK
    <3>2. CASE link # "up"
      BY <1>2, <3>2 DEF Connect, TypeOK
    <3>3. QED
      BY <3>1, <3>2
  <2>2. TypeOK'
    BY <1>2, <2>1 DEF Connect, TypeOK
  <2>3. QED
    BY <1>1, <1>2, <2>2 DEF Connect
<1>3. CASE Receive
  BY <1>3, ReceiveKeeps
<1>4. CASE Check
  BY <1>1, <1>4 DEF Check, TypeOK, config
<1>5. CASE Export
  BY <1>5, ExportKeeps
<1>6. CASE Tick
  BY <1>6, TickKeeps
<1>7. ASSUME NEW v \in Var, PlcWrite(v) PROVE Kept
  <2>1. PICK x \in {y \in Value : y.type = type[v]} \cup {Absent} :
          value' = [value EXCEPT ![v] = x]
    BY <1>7 DEF PlcWrite
  <2>2. (x \in PlcValue /\ x.type = type[v]) \/ x = Absent
    OBVIOUS
  <2>3. type' = type
    BY <1>7 DEF PlcWrite, config
  <2>4. ValuesTyped'
    BY <2>1, <2>2, <2>3 DEF TypeOK
  <2>5. TypeOK'
    BY <1>7, <2>4 DEF PlcWrite, TypeOK, config
  <2>6. QED
    BY <1>1, <1>7, <2>5 DEF PlcWrite, config
<1>8. ASSUME NEW t \in Topic, NEW text \in ClientText, ClientWrite(t, text)
      PROVE  Kept
  <2>1. [topic |-> t, text |-> text] \in Message
    BY DEF Message
  <2>2. inbox' \in Seq(Message) /\ Len(inbox') <= MaxInbox
    BY <1>8, <2>1 DEF ClientWrite, TypeOK
  <2>3. TypeOK'
    BY <1>8, <2>2 DEF ClientWrite, TypeOK, config
  <2>4. QED
    BY <1>1, <1>8, <2>3 DEF ClientWrite, config
<1>9. CASE Configure
  BY <1>9, ConfigureKeeps
<1>10. CASE Disconnect
  BY <1>1, <1>10 DEF Disconnect, TypeOK
<1>11. CASE UNCHANGED vars
  BY <1>1, <1>11 DEF vars, TypeOK
<1>12. QED
  BY <1>2, <1>3, <1>4, <1>5, <1>6, <1>7, <1>8, <1>9, <1>10, <1>11
     DEF Next, Round, External

(* Type correctness, for any number of variables and topics and any clock.  *)
THEOREM ExportTypeCorrect == Spec => []TypeOK
<1>1. Init => IInv
  BY InitKeeps
<1>2. IInv /\ [Next]_vars => IInv'
  BY NextKeeps DEF Kept
<1>3. IInv => TypeOK
  BY DEF IInv
<1>4. QED
  BY <1>1, <1>2, <1>3, PTL DEF Spec

(* The distance between publications, whichever way they come about and     *)
(* however often millis() wraps: min_interval_ms has only to be shorter     *)
(* than the clock's range.                                                  *)
THEOREM IntervalKept == Spec => KeepsInterval
<1>1. Init => IInv
  BY InitKeeps
<1>2. IInv /\ [Next]_vars => IInv'
  BY NextKeeps DEF Kept
<1>3. IInv /\ [Next]_vars
        => [\A v \in Var : Renewed(v) => since[v] >= rules[v].minInterval]_vars
  BY NextKeeps DEF Kept
<1>4. QED
  BY <1>1, <1>2, <1>3, PTL DEF Spec, KeepsInterval
==============================================================================
