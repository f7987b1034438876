----------------------------- MODULE MeshExport ------------------------------
(***************************************************************************)
(* Variables shared between hubs over the mesh: each hub broadcasts the    *)
(* variables it has publish rules for and keeps local aliases of those it  *)
(* subscribes to. Hubs run one thread each; broadcasts may be lost, and    *)
(* arrive before the next tick of the clock otherwise. All hubs' clocks    *)
(* tick together, and each loop runs in every tick.                        *)
(***************************************************************************)
EXTENDS Integers, Sequences, FiniteSets, SequencesExt

CONSTANTS
  Hub, Var,
  Value,        \* numbers; 0 is also FALSE
  VarType,      \* the type of each variable
  AliasType,    \* the type each hub has registered the alias of a remote
                \* variable with, "none" where it has not
  Published,    \* pairs <<hub, variable>> a rule may be given for
  Subscribed,   \* pairs <<hub, remote variable>> there may be a rule for
  Intervals,    \* values of sync_interval_ms
  Timeout,      \* timeout_ms
  Threshold,    \* min_change_threshold
  CheckPeriod,  \* the second between two checks
  Clock,        \* millis() counts modulo this
  MaxLost,      \* bound: messages of a variable lost in a row
  MaxNet        \* bound: messages on their way to a hub

Type == {"BOOL", "INT", "REAL", "DINT"}
Remote == Hub \X Var
Time == 0 .. Clock - 1

ASSUME MeshExportAssumption ==
  /\ Value \subseteq Nat /\ 0 \in Value
  /\ VarType \in [Var -> Type]
  /\ AliasType \in [Subscribed -> Type \cup {"none"}]
  /\ Published \subseteq Hub \X Var /\ Subscribed \subseteq Hub \X Remote
  /\ IsFiniteSet(Published)
  /\ Intervals \subseteq Nat /\ Timeout \in Nat /\ Threshold \in Nat
  /\ Clock \in Nat \ {0} /\ CheckPeriod \in Nat /\ MaxLost \in Nat
  /\ CheckPeriod + 1 < Clock
  /\ \A interval \in Intervals : interval + CheckPeriod < Clock

VARIABLES
  now, lastCheck, ran,             \* the clock and the loops
  value,                           \* of each variable on its hub
  publishRules, subscribeRules,    \* partial functions to rules
  alias,                           \* what the aliases hold
  net,                             \* messages on their way to each hub
  lostRow, calm, pending           \* history: messages lost in a row; whether
                                   \* a subscription has been served since the
                                   \* rule was set; ticks a change has waited

vars == <<now, lastCheck, ran, value, publishRules, subscribeRules, alias,
          net, lostRow, calm, pending>>
history == <<lostRow, calm, pending>>

MeshPublishRule ==
  [syncInterval : Intervals, syncOnChange : BOOLEAN, lastSync : Time,
   lastValue : Type \X Value]
MeshSubscribeRule == [lastReceived : Time, isStale : BOOLEAN]

Sync == [type : {"sync"}, hub : Hub, var : Var, value : Value]
Request == [type : {"request"}, hub : Hub, var : Var]

TypeOK ==
  /\ now \in Time /\ lastCheck \in [Hub -> Time] /\ ran \subseteq Hub
  /\ value \in [Published -> Value]
  /\ DOMAIN publishRules \subseteq Published
  /\ \A p \in DOMAIN publishRules : publishRules[p] \in MeshPublishRule
  /\ DOMAIN subscribeRules \subseteq Subscribed
  /\ \A s \in DOMAIN subscribeRules : subscribeRules[s] \in MeshSubscribeRule
  /\ alias \in [Subscribed -> Value]
  /\ net \in [Hub -> Seq(Sync \cup Request)]
  /\ lostRow \in [Subscribed -> 0 .. MaxLost]
  /\ calm \in [Subscribed -> {"no", "sent", "yes"}]
  /\ pending \in [Published -> Nat]

Init ==
  /\ now = 0 /\ lastCheck = [h \in Hub |-> 0] /\ ran = {}
  /\ value \in [Published -> Value]
  /\ publishRules = << >> /\ subscribeRules = << >>
  /\ alias = [s \in Subscribed |-> 0]
  /\ net = [h \in Hub |-> << >>]
  /\ lostRow = [s \in Subscribed |-> 0]
  /\ calm = [s \in Subscribed |-> "no"]
  /\ pending = [p \in Published |-> 0]
------------------------------------------------------------------------------
(* As if the difference were not unsigned. *)
ElapsedSigned(t) == IF now < t THEN 0 ELSE now - t

Elapsed(t) == (now - t) % Clock
Distance(m, n) == IF m < n THEN n - m ELSE m - n
Without(f, x) == [y \in DOMAIN f \ {x} |-> f[y]]
Rules(h) == {p \in DOMAIN publishRules : p[1] = h}

(* readVariable: the type the variable is registered with, and its value. *)
Current(p) == <<VarType[p[2]], value[p]>>

Differs(rule, current) ==
  \/ current[1] # rule.lastValue[1]
  \/ /\ current[1] \in {"BOOL", "INT"}
     /\ current[2] # rule.lastValue[2]
  \/ /\ current[1] = "REAL"
     /\ Distance(current[2], rule.lastValue[2]) >= Threshold

shouldPublish(rule, current) ==
  /\ Elapsed(rule.lastSync) >= rule.syncInterval
  /\ rule.syncOnChange => Differs(rule, current)

(* sendVariableToMesh: a type it does not know is not sent at all. *)
Sends(p) == VarType[p[2]] # "DINT"
Message(p) == [type |-> "sync", hub |-> p[1], var |-> p[2],
               value |-> value[p]]

Broadcast(h, messages) ==
  net' = [g \in Hub |-> IF g = h THEN net[g] ELSE net[g] \o messages]

(* As if the time of the next synchronisation were kept. *)
SyncedAhead(p) ==
  [publishRules[p] EXCEPT !.lastSync = now + publishRules[p].syncInterval,
                          !.lastValue = Current(p)]

(* What publishVariable leaves in a rule. *)
Synced(p) ==
  [publishRules[p] EXCEPT !.lastSync = now, !.lastValue = Current(p)]

publish(h, due) ==
  /\ publishRules' = [p \in DOMAIN publishRules |->
                        IF p \in due THEN Synced(p) ELSE publishRules[p]]
  /\ pending' = [p \in Published |-> IF p \in due THEN 0 ELSE pending[p]]
  /\ calm' = [s \in Subscribed |->
                IF s[2] \in due /\ calm[s] = "no" THEN "sent" ELSE calm[s]]

(* The loop looks at the interval, and shouldPublish once more. *)
Due(h) ==
  {p \in Rules(h) : /\ Elapsed(publishRules[p].lastSync)
                         >= publishRules[p].syncInterval
                    /\ shouldPublish(publishRules[p], Current(p))}

(* As if only hubs that publish looked for stale subscriptions. *)
checkStaleWhenPublishing(h) ==
  [s \in DOMAIN subscribeRules |->
     [subscribeRules[s] EXCEPT
        !.isStale = @ \/ (s[1] = h /\ Rules(h) # {}
                            /\ Elapsed(subscribeRules[s].lastReceived)
                                 > Timeout)]]

checkStaleSubscriptions(h) ==
  [s \in DOMAIN subscribeRules |->
     [subscribeRules[s] EXCEPT
        !.isStale = @ \/ (s[1] = h /\ Elapsed(subscribeRules[s].lastReceived)
                                        > Timeout)]]

Idle(h) ==
  /\ Elapsed(lastCheck[h]) <= CheckPeriod
  /\ UNCHANGED <<lastCheck, publishRules, subscribeRules, net, calm, pending>>

Check(h) ==
  /\ Elapsed(lastCheck[h]) > CheckPeriod
  /\ lastCheck' = [lastCheck EXCEPT ![h] = now]
  /\ publish(h, Due(h))
  /\ Broadcast(h, SetToSeq({Message(p) : p \in {q \in Due(h) : Sends(q)}}))
  /\ subscribeRules' = checkStaleSubscriptions(h)

loop(h) ==
  /\ h \notin ran /\ ran' = ran \cup {h}
  /\ Idle(h) \/ Check(h)
  /\ UNCHANGED <<now, value, alias, lostRow>>
------------------------------------------------------------------------------
(* A rule set again starts as a new one; the value FALSE counts as sent.   *)
NewRule(interval, onChange) ==
  [syncInterval |-> interval, syncOnChange |-> onChange, lastSync |-> 0,
   lastValue |-> <<"BOOL", 0>>]

NewSubscription == [lastReceived |-> 0, isStale |-> TRUE]

addPublishRule(p, interval, onChange) ==
  /\ publishRules' =
       [q \in DOMAIN publishRules \cup {p} |->
          IF q = p THEN NewRule(interval, onChange) ELSE publishRules[q]]
  /\ calm' = [s \in Subscribed |-> IF s[2] = p THEN "no" ELSE calm[s]]
  /\ pending' = [pending EXCEPT ![p] = 0]
  /\ UNCHANGED <<now, lastCheck, ran, value, subscribeRules, alias, net,
                 lostRow>>

removePublishRule(p) ==
  /\ p \in DOMAIN publishRules
  /\ publishRules' = Without(publishRules, p)
  /\ calm' = [s \in Subscribed |-> IF s[2] = p THEN "no" ELSE calm[s]]
  /\ pending' = [pending EXCEPT ![p] = 0]
  /\ UNCHANGED <<now, lastCheck, ran, value, subscribeRules, alias, net,
                 lostRow>>

addSubscribeRule(s) ==
  /\ subscribeRules' =
       [q \in DOMAIN subscribeRules \cup {s} |->
          IF q = s THEN NewSubscription ELSE subscribeRules[q]]
  /\ calm' = [calm EXCEPT ![s] = "no"]
  /\ UNCHANGED <<now, lastCheck, ran, value, publishRules, alias, net,
                 lostRow, pending>>

removeSubscribeRule(s) ==
  /\ s \in DOMAIN subscribeRules
  /\ subscribeRules' = Without(subscribeRules, s)
  /\ UNCHANGED <<now, lastCheck, ran, value, publishRules, alias, net,
                 history>>

(* Every hub but the asking one gets the request, by the variable's name. *)
requestRemoteVariable(s) ==
  /\ s \in DOMAIN subscribeRules
  /\ \A h \in Hub : Len(net[h]) < MaxNet
  /\ Broadcast(s[1], <<[type |-> "request", hub |-> s[1], var |-> s[2][2]]>>)
  /\ UNCHANGED <<now, lastCheck, ran, value, publishRules, subscribeRules,
                 alias, history>>
------------------------------------------------------------------------------
(* The sender names the type in "type_str", the receiver looks for it in   *)
(* "type", where the number of the message type is: whatever was sent, the *)
(* value received is the BOOL FALSE.                                       *)
Received == <<"BOOL", 0>>

(* writeVariable: only to an alias of the value's type. One that is not    *)
(* registered stays so: the variable is registered under its remote name.  *)
Aliased(s) ==
  alias' = IF AliasType[s] = Received[1]
           THEN [alias EXCEPT ![s] = Received[2]] ELSE alias

(* As if the time were taken only while the subscription is stale. *)
updateWhenStale(s) ==
  /\ Aliased(s)
  /\ subscribeRules' = [subscribeRules EXCEPT
       ![s] = IF @.isStale THEN [lastReceived |-> now, isStale |-> FALSE]
                           ELSE @]

(* The subscription counts as fresh whether or not the alias was written. *)
updateSubscribedVariable(s) ==
  /\ Aliased(s)
  /\ subscribeRules' = [subscribeRules EXCEPT
                          ![s] = [lastReceived |-> now, isStale |-> FALSE]]

handleVariableSync(h, m) ==
  LET s == <<h, <<m.hub, m.var>>>>
  IN  /\ IF s \in DOMAIN subscribeRules
         THEN /\ updateSubscribedVariable(s)
              /\ calm' = [calm EXCEPT ![s] = IF @ = "no" THEN "no" ELSE "yes"]
              /\ lostRow' = [lostRow EXCEPT ![s] = 0]
         ELSE UNCHANGED <<alias, subscribeRules, calm, lostRow>>
      /\ UNCHANGED <<publishRules, pending>>

(* The answer is a publication to everybody. *)
handleVariableRequest(h, m) ==
  LET p == <<h, m.var>>
  IN  /\ UNCHANGED <<subscribeRules, alias, lostRow>>
      /\ IF p \in DOMAIN publishRules
         THEN publish(h, {p})
         ELSE UNCHANGED <<publishRules, calm, pending>>

Answer(h, m) ==
  IF m.type = "request" /\ <<h, m.var>> \in DOMAIN publishRules
       /\ Sends(<<h, m.var>>)
  THEN <<Message(<<h, m.var>>)>> ELSE << >>

receivedCallback(h) ==
  /\ net[h] # << >>
  /\ LET m == Head(net[h])
     IN  /\ \/ m.type = "sync" /\ handleVariableSync(h, m)
            \/ m.type = "request" /\ handleVariableRequest(h, m)
         /\ net' = [g \in Hub |-> IF g = h THEN Tail(net[g])
                                  ELSE net[g] \o Answer(h, m)]
  /\ UNCHANGED <<now, lastCheck, ran, value>>

Lose(h) ==
  /\ net[h] # << >>
  /\ LET m == Head(net[h])
         s == <<h, <<m.hub, m.var>>>>
     IN  IF m.type = "sync" /\ s \in Subscribed
         THEN /\ lostRow[s] < MaxLost
              /\ lostRow' = [lostRow EXCEPT ![s] = @ + 1]
         ELSE lostRow' = lostRow
  /\ net' = [net EXCEPT ![h] = Tail(@)]
  /\ UNCHANGED <<now, lastCheck, ran, value, publishRules, subscribeRules,
                 alias, calm, pending>>

(* A program writes its memory, or the alias on a subscriber's hub. *)
PlcWrite(p, n) ==
  /\ n # value[p]
  /\ value' = [value EXCEPT ![p] = n]
  /\ pending' = [pending EXCEPT ![p] = 0]
  /\ UNCHANGED <<now, lastCheck, ran, publishRules, subscribeRules, alias,
                 net, lostRow, calm>>

(* History: a change that is not published yet waits, until the next one. *)
Waiting(p) ==
  /\ p \in DOMAIN publishRules
  /\ publishRules[p].syncOnChange /\ Sends(p)
  /\ publishRules[p].lastValue # Current(p)
  /\ Differs(publishRules[p], Current(p))

Tick ==
  /\ ran = Hub /\ \A h \in Hub : net[h] = << >>
  /\ now' = (now + 1) % Clock /\ ran' = {}
  /\ pending' = [p \in Published |-> IF Waiting(p) THEN pending[p] + 1 ELSE 0]
  /\ UNCHANGED <<lastCheck, value, publishRules, subscribeRules, alias, net,
                 lostRow, calm>>

Next ==
  \/ \E h \in Hub : loop(h) \/ receivedCallback(h) \/ Lose(h)
  \/ \E p \in Published, interval \in Intervals, onChange \in BOOLEAN :
       addPublishRule(p, interval, onChange)
  \/ \E p \in Published : removePublishRule(p)
  \/ \E s \in Subscribed : \/ addSubscribeRule(s) \/ removeSubscribeRule(s)
                           \/ requestRemoteVariable(s)
  \/ \E p \in Published, n \in Value : PlcWrite(p, n)
  \/ Tick

Spec == Init /\ [][Next]_vars
------------------------------------------------------------------------------
(* "Automatic synchronization on value change with throttling": a change   *)
(* that lasts is sent within the interval and the periods of two checks,   *)
(* whenever the rule was set, requests came and millis() wrapped.          *)
ChangeIsSent ==
  \A p \in DOMAIN publishRules :
    pending[p] < publishRules[p].syncInterval + 2 * (CheckPeriod + 1)

(* "This allows for one missed message": the subscription to a variable    *)
(* that is published periodically does not become stale when it loses      *)
(* MaxLost messages in a row, if its timeout leaves room for them and for  *)
(* the period of the checks. (With an interval of 0 it is published by     *)
(* every check, which are a tick more than their period apart.)            *)
ToleratesLoss ==
  [][\A s \in DOMAIN subscribeRules :
       /\ calm[s] = "yes" /\ calm'[s] = "yes"
       /\ ~publishRules[s[2]].syncOnChange
       /\ publishRules[s[2]].syncInterval > 0
       /\ Sends(s[2])
       /\ Timeout >= (MaxLost + 1)
                       * (publishRules[s[2]].syncInterval + CheckPeriod)
       /\ s \in DOMAIN subscribeRules' /\ ~subscribeRules[s].isStale
       => ~subscribeRules'[s].isStale]_vars

(* "Stale detection for offline or unresponsive remote hubs": nothing that *)
(* has not been received for the timeout and the period of the check still *)
(* counts as fresh.                                                        *)
SilenceIsSeen ==
  \A s \in DOMAIN subscribeRules :
    ~subscribeRules[s].isStale =>
      Elapsed(subscribeRules[s].lastReceived) <= Timeout + CheckPeriod + 1

(* "Type-safe variable synchronization": an alias of the variable's type   *)
(* has the value that was received last.                                   *)
AliasMirrors ==
  [][\A h \in Hub, s \in Subscribed :
       /\ receivedCallback(h) /\ s[1] = h
       /\ Head(net[h]).type = "sync" /\ s \in DOMAIN subscribeRules
       /\ AliasType[s] = VarType[s[2][2]]
       => alias'[s] = Head(net[h]).value]_vars
==============================================================================
