------------------------------- MODULE IOEvents ------------------------------
(***************************************************************************)
(* IOEventManager on the hub thread: each round of its loop asks every     *)
(* trigger, in the order of its maps, whether to run its program.  The     *)
(* commands of PlcEngine and the updates of DeviceRegistry happen between  *)
(* any two triggers.  Time is counted in ticks: millis() in uptime, the    *)
(* local time in wall; a tick is longer than a round of the loop.          *)
(***************************************************************************)
EXTENDS PlcEngine, EventHistory

CONSTANTS
  NumTriggers,      \* the names of I/O, then of scheduled triggers, in order
  Config,           \* the configurations loadConfig may be given
  Endpoint,         \* the names of endpoints in DeviceRegistry
  Value,            \* the values endpoints take: [type, val]
  Writable,         \* the endpoints with isWritable
  UptimeWrap,       \* millis() counts modulo this
  TicksPerMinute,
  MinutesPerDay,
  MaxAge            \* bound on age: "long ago or never"

ASSUME EventsAssumption ==
  /\ NumTriggers \in Nat \ {0} /\ Event = 1 .. NumTriggers
  /\ UptimeWrap \in Nat \ {0}
  /\ TicksPerMinute \in Nat \ {0}
  /\ MinutesPerDay \in Nat \ {0}
  /\ MaxAge \in Nat \ {0}

VARIABLES
  setting,      \* each trigger as configured, NoTrigger if absent
  lastTrigger,  \* uptime of its last firing, 0 before the first
  lastValue,    \* value an INPUT_CHANGED trigger last reported
  endpoint,     \* isOnline and currentValue, NoEndpoint if not registered
  uptime, wall, \* the two clocks
  cursor,       \* the trigger the loop looks at next
  swept,        \* has the loop gone round since the last tick?
  age           \* (history variable) ticks since the last firing

eventVars ==
  <<setting, lastTrigger, lastValue, endpoint, uptime, wall, cursor, swept,
    age>>
vars == <<engineVars, historyVars, eventVars>>

Trigger == Event

NoTrigger == [type |-> "none"]
NoEndpoint == [isOnline |-> FALSE]
DefaultValue == [type |-> "BOOL", val |-> 0]   \* of a fresh PlcValue

Day == MinutesPerDay * TicksPerMinute

IOTrigger ==
  [type : {"INPUT_CHANGED", "INPUT_OFFLINE", "INPUT_ONLINE", "OUTPUT_ERROR",
           "VALUE_THRESHOLD"},
   enabled : BOOLEAN, endpoint : Endpoint, program : Program,
   debounceMs : 0 .. MaxAge, rising : BOOLEAN]
ScheduledTrigger ==
  [type : {"SCHEDULED"}, enabled : BOOLEAN, program : Program,
   schedule : SUBSET Nat]

ASSUME ConfigAssumption ==
  \A c \in Config :
    /\ DOMAIN c \subseteq Trigger
    /\ \A t \in DOMAIN c : c[t] \in IOTrigger \cup ScheduledTrigger

Settings ==
  UNION {{[c[t] EXCEPT !.enabled = b] : t \in DOMAIN c, b \in BOOLEAN} :
         c \in Config}
EndpointState == [isOnline : BOOLEAN, value : Value] \cup {NoEndpoint}

TypeOK ==
  /\ EngineTypeOK
  /\ HistoryTypeOK
  /\ setting \in [Trigger -> Settings \cup {NoTrigger}]
  /\ lastTrigger \in [Trigger -> 0 .. UptimeWrap - 1]
  /\ lastValue \in [Trigger -> Value \cup {DefaultValue}]
  /\ endpoint \in [Endpoint -> EndpointState]
  /\ uptime \in 0 .. UptimeWrap - 1
  /\ wall \in 0 .. Day - 1
  /\ cursor \in Trigger
  /\ swept \in BOOLEAN
  /\ age \in [Trigger -> 0 .. MaxAge]

Init ==
  /\ EngineInit
  /\ HistoryInit
  /\ setting = [t \in Trigger |-> NoTrigger]
  /\ lastTrigger = [t \in Trigger |-> 0]
  /\ lastValue = [t \in Trigger |-> DefaultValue]
  /\ endpoint = [e \in Endpoint |-> NoEndpoint]
  /\ uptime = 0
  /\ wall \in 0 .. Day - 1
  /\ cursor = 1
  /\ swept = FALSE
  /\ age = [t \in Trigger |-> MaxAge]
------------------------------------------------------------------------------
(* BYTE, DINT and STRING values are not compared: only their type counts. *)
(* REAL values that differ by 0.001 or less count as one value.            *)
Changed(v, w) ==
  \/ v.type # w.type
  \/ v.type \in {"BOOL", "INT", "REAL"} /\ v.val # w.val

compareThreshold(v, threshold, rising) ==
  /\ v.type = threshold.type
  /\ v.type \in {"BOOL", "INT", "REAL"}
  /\ IF rising THEN v.val > threshold.val ELSE v.val < threshold.val

(* As if the time were measured against the end of the debounce time. *)
DebounceEndWrapped(t) ==
  uptime < (lastTrigger[t] + setting[t].debounceMs) % UptimeWrap
DebounceEndUnwrapped(t) == uptime < lastTrigger[t] + setting[t].debounceMs

Elapsed(t) == (uptime + UptimeWrap - lastTrigger[t]) % UptimeWrap
Debouncing(t) == Elapsed(t) < setting[t].debounceMs

(* loadConfig does not parse a threshold: it stays a fresh PlcValue. *)
shouldTriggerIO(t) ==
  LET s == setting[t]
      e == endpoint[s.endpoint]
  IN  /\ ~Debouncing(t)
      /\ e # NoEndpoint
      /\ \/ s.type = "INPUT_CHANGED" /\ Changed(e.value, lastValue[t])
         \/ s.type = "INPUT_OFFLINE" /\ ~e.isOnline
         \/ s.type = "INPUT_ONLINE" /\ e.isOnline
         \/ s.type = "OUTPUT_ERROR" /\ ~e.isOnline /\ s.endpoint \in Writable
         \/ /\ s.type = "VALUE_THRESHOLD"
            /\ compareThreshold(e.value, DefaultValue, s.rising)

(* The last firing is known in minutes since boot and compared with the    *)
(* minute of the day.                                                      *)
MinuteOfDay == wall \div TicksPerMinute
shouldTriggerScheduled(t) ==
  /\ MinuteOfDay # lastTrigger[t] \div TicksPerMinute
  /\ MinuteOfDay \in setting[t].schedule

ShouldTrigger(t) ==
  /\ setting[t] # NoTrigger
  /\ setting[t].enabled
  /\ IF setting[t].type = "SCHEDULED" THEN shouldTriggerScheduled(t)
                                      ELSE shouldTriggerIO(t)
------------------------------------------------------------------------------
(* As if the loop ran past its last trigger. *)
AdvancePastEnd(t) ==
  /\ cursor = t
  /\ cursor' = t + 1
  /\ swept' = (swept \/ t = NumTriggers)

Advance(t) ==
  /\ cursor = t
  /\ cursor' = IF t = NumTriggers THEN 1 ELSE t + 1
  /\ swept' = (swept \/ t = NumTriggers)

(* runProgram of an unknown name changes nothing, and the event is         *)
(* recorded all the same.                                                  *)
executeEvent(t) ==
  /\ ShouldTrigger(t)
  /\ Advance(t)
  /\ IF setting[t].program \in Loaded THEN runProgram(setting[t].program)
                                      ELSE UNCHANGED engineVars
  /\ addToHistory(t)
  /\ lastTrigger' = [lastTrigger EXCEPT ![t] = uptime]
  /\ lastValue' = IF setting[t].type = "INPUT_CHANGED"
                  THEN [lastValue EXCEPT ![t] =
                          endpoint[setting[t].endpoint].value]
                  ELSE lastValue
  /\ age' = [age EXCEPT ![t] = 0]
  /\ UNCHANGED <<setting, endpoint, uptime, wall>>

Skip(t) ==
  /\ ~ShouldTrigger(t)
  /\ Advance(t)
  /\ UNCHANGED <<engineVars, historyVars, setting, lastTrigger, lastValue,
                 endpoint, uptime, wall, age>>

loop == \E t \in Trigger : executeEvent(t) \/ Skip(t)

(* The triggers ts forget what they remembered; s gives their settings. *)
Reset(ts, s) ==
  /\ cursor = 1
  /\ setting' = [t \in Trigger |-> IF t \in ts THEN s[t] ELSE setting[t]]
  /\ lastTrigger' = [t \in Trigger |-> IF t \in ts THEN 0 ELSE lastTrigger[t]]
  /\ lastValue' =
       [t \in Trigger |-> IF t \in ts THEN DefaultValue ELSE lastValue[t]]
  /\ age' = [t \in Trigger |-> IF t \in ts THEN MaxAge ELSE age[t]]
  /\ UNCHANGED <<engineVars, historyVars, endpoint, uptime, wall, cursor,
                 swept>>

(* loadConfig replaces the triggers it names and keeps the others. *)
loadConfig(c) == Reset(DOMAIN c, c)

removeTrigger(t) ==
  /\ setting[t] # NoTrigger
  /\ Reset({t}, [u \in {t} |-> NoTrigger])

setTriggerEnabled(t, enabled) ==
  /\ cursor = 1
  /\ setting[t] # NoTrigger
  /\ setting' = [setting EXCEPT ![t].enabled = enabled]
  /\ UNCHANGED <<engineVars, historyVars, lastTrigger, lastValue, endpoint,
                 uptime, wall, cursor, swept, age>>

(* DeviceRegistry.  Registering a name again replaces the endpoint; an     *)
(* update of an unknown name changes nothing.                              *)
SetEndpoint(e, s) ==
  /\ endpoint' = [endpoint EXCEPT ![e] = s]
  /\ UNCHANGED <<engineVars, historyVars, setting, lastTrigger, lastValue,
                 uptime, wall, cursor, swept, age>>

registerEndpoint(e) ==
  \E s \in EndpointState \ {NoEndpoint} : SetEndpoint(e, s)
removeEndpoint(e) == SetEndpoint(e, NoEndpoint)

updateEndpointStatus(e, online) ==
  /\ endpoint[e] # NoEndpoint
  /\ SetEndpoint(e, [endpoint[e] EXCEPT !.isOnline = online])

updateEndpointValue(e, v) ==
  /\ endpoint[e] # NoEndpoint
  /\ SetEndpoint(e, [endpoint[e] EXCEPT !.value = v])

(* A command to the engine, from whatever thread, while the hub runs. *)
Command ==
  /\ \E p \in Program : \/ loadProgram(p)
                        \/ runProgram(p)
                        \/ pauseProgram(p)
                        \/ stopProgram(p)
                        \/ deleteProgram(p)
  /\ UNCHANGED <<historyVars, eventVars>>

(* The sketch publishes the history, then marks or clears it. *)
Publish ==
  /\ cursor = 1
  /\ markEventsAsRead \/ clearHistory
  /\ UNCHANGED <<engineVars, eventVars>>

Tick ==
  /\ cursor = 1 /\ swept
  /\ uptime' = (uptime + 1) % UptimeWrap
  /\ wall' = (wall + 1) % Day
  /\ age' = [t \in Trigger |-> IF age[t] < MaxAge THEN age[t] + 1 ELSE MaxAge]
  /\ swept' = FALSE
  /\ UNCHANGED <<engineVars, historyVars, setting, lastTrigger, lastValue,
                 endpoint, cursor>>

(* Everything but the local time is lost. *)
Restart ==
  /\ restartEsp
  /\ clearHistory
  /\ setting' = [t \in Trigger |-> NoTrigger]
  /\ lastTrigger' = [t \in Trigger |-> 0]
  /\ lastValue' = [t \in Trigger |-> DefaultValue]
  /\ endpoint' = [e \in Endpoint |-> NoEndpoint]
  /\ uptime' = 0
  /\ cursor' = 1
  /\ swept' = FALSE
  /\ age' = [t \in Trigger |-> MaxAge]
  /\ UNCHANGED wall

Next ==
  \/ loop
  \/ \E c \in Config : loadConfig(c)
  \/ \E t \in Trigger : \/ removeTrigger(t)
                       \/ \E b \in BOOLEAN : setTriggerEnabled(t, b)
  \/ \E e \in Endpoint : \/ registerEndpoint(e)
                         \/ removeEndpoint(e)
                         \/ \E b \in BOOLEAN : updateEndpointStatus(e, b)
                         \/ \E v \in Value : updateEndpointValue(e, v)
  \/ Command
  \/ Publish
  \/ Tick
  \/ Restart

Spec == Init /\ [][Next]_vars

(* The Arduino loop calls IOEventManager::loop for ever (as long as the    *)
(* MQTT broker of a root node answers), and time goes on: what guards Tick *)
(* only makes a tick longer than a round.                                  *)
Fairness == WF_vars(loop) /\ SF_vars(Tick)

FairSpec == Spec /\ Fairness
------------------------------------------------------------------------------
(* Two events of one I/O trigger are at least its debounce time apart,     *)
(* also when millis() wraps around between them.  (A trigger configured    *)
(* again is a new one.)                                                    *)
Debounced ==
  [][\A t \in Trigger :
       executeEvent(t) /\ setting[t].type # "SCHEDULED"
         => age[t] >= setting[t].debounceMs]_vars

(* A change of an input that lasts is reported, whatever the debounce time *)
(* and wherever millis() stands.                                           *)
Enabled(t, types) ==
  /\ setting[t] # NoTrigger
  /\ setting[t].enabled
  /\ setting[t].type \in types
Unreported(t) ==
  /\ Enabled(t, {"INPUT_CHANGED"})
  /\ endpoint[setting[t].endpoint] # NoEndpoint
  /\ Changed(endpoint[setting[t].endpoint].value, lastValue[t])
ChangeReported == \A t \in Trigger : Unreported(t) ~> ~Unreported(t)
==============================================================================
