------------------------------- MODULE LocalIO -------------------------------
(***************************************************************************)
(* The local I/O manager: it builds the pins of a configuration, updates   *)
(* them in every round of its loop and copies inputs to, and outputs from, *)
(* the memory of the PLC program it is given. One thread calls it.         *)
(***************************************************************************)
EXTENDS LocalPins

CONSTANTS
  Files,     \* configurations: sequences of names and of mappings
  Var,       \* variables of the program
  MaxGap,    \* bound: ticks between two rounds
  MaxPulses  \* bound: pulses since a counter started

Type == {"bool", "real", "int"}
PLCMapping == [ioPinName : Name, plcVarName : Var, type : Type]

ASSUME LocalIOAssumption ==
  /\ \A file \in Files : /\ file.pins \in Seq(Name)
                         /\ file.inputs \in Seq(PLCMapping)
                         /\ file.outputs \in Seq(PLCMapping)
  /\ MaxGap \in Nat /\ MaxPulses \in Nat
  /\ \A p \in Name : PinConfig[p] \in DigitalInputConfig =>
                       PinConfig[p].debounceMs + MaxGap < Clock

VARIABLES
  now, level, register,             \* the clock, the pins, the counter units
  ioPins, pcntUnitsUsed,            \* the pin objects
  enabled, pinsEnabled,             \* the manager and its pins
  mappings, plcMemory, memory,      \* the program's side; plcMemory: given
  gap, seen, pulses, missed         \* history: ticks since the last round;
                                    \* what the samples showed; pulses there
                                    \* were since a counter started, and
                                    \* those that no reading shows

switches == <<enabled, pinsEnabled>>
vars == <<now, level, register, ioPins, pcntUnitsUsed, enabled, pinsEnabled,
          mappings, plcMemory, memory, gap, seen, pulses, missed>>
hardware == <<now, level, register, gap>>
program == <<mappings, plcMemory, memory>>
counts == <<pulses, missed>>
history == <<seen, counts>>

Loaded == DOMAIN ioPins
OfKind(k) == {p \in Loaded : kind(p) = k}

PinState(p) ==
  CASE kind(p) = "input" -> DigitalInput(p)
    [] kind(p) = "analog" -> AnalogInput(p)
    [] kind(p) = "output" -> DigitalOutput
    [] kind(p) = "pwm" -> PWMOutput
    [] kind(p) = "counter" -> PulseCounter

Levels(p) == IF kind(p) = "input" THEN {0, 1} ELSE 0 .. MaxReading

(* The samples it takes to change what an input shows. *)
Enough(p) == IF PinConfig[p].filterSamples = 0 THEN 1
             ELSE PinConfig[p].filterSamples

TypeOK ==
  /\ now \in Time /\ gap \in 0 .. MaxGap
  /\ DOMAIN level = Name /\ \A p \in Name : level[p] \in Levels(p)
  /\ register \in [Unit -> 0 .. CountLimit - 1]
  /\ Loaded \subseteq Name \ Broken
  /\ \A p \in Loaded : ioPins[p] \in PinState(p)
  /\ \A p, q \in OfKind("counter") :
       p # q => ioPins[p].unit # ioPins[q].unit
  /\ {ioPins[p].unit : p \in OfKind("counter")} \subseteq pcntUnitsUsed
  /\ pcntUnitsUsed \subseteq Unit
  /\ enabled \in BOOLEAN /\ plcMemory \in BOOLEAN
  /\ pinsEnabled \in BOOLEAN /\ (enabled => pinsEnabled)
  /\ mappings \in [inputs : Seq(PLCMapping), outputs : Seq(PLCMapping)]
  /\ memory \in [Var -> Int \cup {NaN}]
  /\ DOMAIN seen = OfKind("input")
  /\ \A p \in DOMAIN seen :
       seen[p] \in [level : {0, 1}, age : 0 .. PinConfig[p].debounceMs,
                   agreed : 0 .. Enough(p)]
  /\ pulses \in [OfKind("counter") -> 0 .. MaxPulses]
  /\ missed \in [OfKind("counter") -> 0 .. MaxPulses]

Init ==
  /\ now = 0 /\ gap = 0
  /\ level = [p \in Name |-> 0]
  /\ register = [u \in Unit |-> 0]
  /\ ioPins = << >> /\ pcntUnitsUsed = {}
  /\ enabled = TRUE /\ pinsEnabled = TRUE
  /\ mappings = [inputs |-> << >>, outputs |-> << >>]
  /\ plcMemory = FALSE /\ memory = [v \in Var |-> 0]
  /\ seen = << >> /\ pulses = << >> /\ missed = << >>
------------------------------------------------------------------------------
(* The state of a pin, as the bool, real or int that is asked for. A       *)
(* counter's three are different things: whether the hardware has counted, *)
(* the frequency or the period, and the total.                             *)
Bool(n) == IF Positive(n) THEN 1 ELSE 0

CounterShown(pin, type) ==
  CASE type = "bool" -> IF pin.high THEN 1 ELSE 0
    [] type = "real" -> pin.rate
    [] type = "int" -> pin.total

DutyShown(duty, type) ==
  CASE type = "bool" -> Bool(duty)
    [] type = "real" -> duty
    [] type = "int" ->
         IF duty = NaN THEN NaN ELSE (duty * DutySteps) \div MaxDuty

(* As if a counter had its total for a "real" mapping, too.                *)
ShownTotal(pins, p, type) ==
  CASE kind(p) \in {"input", "output"} -> IF pins[p].value THEN 1 ELSE 0
    [] kind(p) = "counter" -> pins[p].total
    [] kind(p) = "pwm" -> DutyShown(pins[p].value, type)
    [] kind(p) = "analog" ->
         IF type = "bool" THEN Bool(pins[p].value) ELSE pins[p].value

Shown(pins, p, type) ==
  CASE kind(p) \in {"input", "output"} -> IF pins[p].value THEN 1 ELSE 0
    [] kind(p) = "counter" -> CounterShown(pins[p], type)
    [] kind(p) = "pwm" -> DutyShown(pins[p].value, type)
    [] kind(p) = "analog" ->
         IF type = "bool" THEN Bool(pins[p].value) ELSE pins[p].value

(* findAvailablePCNTUnit; a unit is never given back. *)
Free(used) == {u \in Unit : u \notin used}
Lowest(S) == CHOOSE u \in S : \A w \in S : u <= w

Begun(p, used) ==
  CASE kind(p) = "input" -> BeginDigitalInput(p, level[p], now)
    [] kind(p) = "analog" -> BeginAnalogInput
    [] kind(p) = "output" -> BeginDigitalOutput(p)
    [] kind(p) = "pwm" -> BeginPWMOutput
    [] kind(p) = "counter" -> BeginPulseCounter(Lowest(Free(used)), now)

With(f, x, y) ==
  [z \in DOMAIN f \cup {x} |-> IF z = x THEN y ELSE f[z]]

(* As if the unit of a pulse counter were not marked. *)
addPinUnmarked(acc, p) ==
  IF p \in DOMAIN acc.pins \cup Broken
       \/ (kind(p) = "counter" /\ Free(acc.used) = {})
  THEN acc
  ELSE [acc EXCEPT !.pins = With(@, p, Begun(p, acc.used))]

(* A pulse counter takes its unit before its driver may report an error. *)
addPin(acc, p) ==
  LET takes == kind(p) = "counter" /\ Free(acc.used) # {}
  IN  IF p \in DOMAIN acc.pins THEN acc
      ELSE [pins |-> IF p \in Broken \/ (kind(p) = "counter" /\ ~takes)
                     THEN acc.pins
                     ELSE With(acc.pins, p, Begun(p, acc.used)),
            used |-> IF takes THEN acc.used \cup {Lowest(Free(acc.used))}
                              ELSE acc.used]

(* One pin after another. *)
Built(names) ==
  LET built[n \in 0 .. Len(names)] ==
        IF n = 0 THEN [pins |-> << >>, used |-> pcntUnitsUsed]
        ELSE addPin(built[n - 1], names[n])
  IN  built[Len(names)]

Counting(pins) == {p \in DOMAIN pins : kind(p) = "counter"}

(* A file that cannot be parsed changes nothing and is no step. Mappings   *)
(* stay when the file has none.                                            *)
loadConfig(file) ==
  LET built == Built(file.pins)
      taken == {built.pins[p].unit : p \in Counting(built.pins)}
  IN  /\ ioPins' = built.pins
      /\ pcntUnitsUsed' = built.used
      /\ register' = [u \in Unit |-> IF u \in taken THEN 0 ELSE register[u]]
      /\ pulses' = [p \in Counting(built.pins) |-> 0]
      /\ missed' = [p \in Counting(built.pins) |-> 0]
      /\ seen' = [p \in {q \in DOMAIN built.pins : kind(q) = "input"} |->
                    [level |-> level[p], age |-> 0,
                     agreed |-> IF PinConfig[p].debounceMs = 0 THEN 1 ELSE 0]]
      /\ pinsEnabled' = TRUE
      /\ UNCHANGED <<now, level, gap, enabled, plcMemory, memory>>

loadPLCMapping(file) ==
  mappings' = IF file.inputs \o file.outputs = << >> THEN mappings
              ELSE [inputs |-> file.inputs, outputs |-> file.outputs]
------------------------------------------------------------------------------
Updated(p) ==
  CASE kind(p) = "input" -> UpdateDigitalInput(p, ioPins[p], level[p], now)
    [] kind(p) = "analog" -> UpdateAnalogInput(p, ioPins[p], level[p])
    [] kind(p) = "output" -> UpdateDigitalOutput(p, ioPins[p], now)
    [] kind(p) = "counter" ->
         UpdatePulseCounter(p, ioPins[p], register[ioPins[p].unit], now)
    [] OTHER -> ioPins[p]

(* setValue of an output: inputs and counters have none. *)
Write(p, pin, n) ==
  CASE kind(p) = "output" -> [pin EXCEPT !.value = Positive(n)]
    [] kind(p) = "pwm" -> setDutyCycle(pin, n)
    [] OTHER -> pin

(* Inputs first, then outputs; the last mapping of a variable, or of an    *)
(* output, decides. A "bool" mapping writes 0 and 1 even to a PWM output,  *)
(* for which this is one per cent; "int" ones write nothing.               *)
Stored(pins, v) ==
  {i \in DOMAIN mappings.inputs :
     /\ mappings.inputs[i].ioPinName \in DOMAIN pins
     /\ mappings.inputs[i].plcVarName = v}
Driving(p) ==
  {i \in DOMAIN mappings.outputs :
     mappings.outputs[i].ioPinName = p /\ mappings.outputs[i].type # "int"}
Latest(S) == CHOOSE i \in S : \A j \in S : j <= i
As(type, n) == IF type = "bool" THEN Bool(n) ELSE n

Read(pins) ==
  [v \in Var |->
     IF Stored(pins, v) = {} THEN memory[v]
     ELSE LET m == mappings.inputs[Latest(Stored(pins, v))]
          IN  Shown(pins, m.ioPinName, m.type)]

Driven(pins, values) ==
  [p \in DOMAIN pins |->
     IF Driving(p) = {} THEN pins[p]
     ELSE LET m == mappings.outputs[Latest(Driving(p))]
          IN  Write(p, pins[p], As(m.type, values[m.plcVarName]))]

syncWithPLC(pins) ==
  IF plcMemory THEN memory' = Read(pins) /\ ioPins' = Driven(pins, memory')
               ELSE memory' = memory /\ ioPins' = pins

(* As if the outputs were written before the pins are updated. *)
loopSyncedFirst ==
  /\ enabled
  /\ IF plcMemory
     THEN /\ memory' = Read(ioPins)
          /\ ioPins' = [p \in Loaded |->
               IF kind(p) = "output"
               THEN UpdateDigitalOutput(p, Driven(ioPins, memory')[p], now)
               ELSE Updated(p)]
     ELSE memory' = memory /\ ioPins' = [p \in Loaded |-> Updated(p)]

(* One round: every pin, then the program. *)
loop ==
  /\ enabled
  /\ syncWithPLC([p \in Loaded |-> Updated(p)])

(* A sampled frequency clears the hardware counter, with the pulses that   *)
(* have arrived since it was read.                                         *)
Sampling == {p \in OfKind("counter") : Samples(p, ioPins[p], now)}
Arrivals ==
  {arrived \in [Sampling -> 0 .. MaxPulses] :
     \A p \in Sampling : pulses[p] + arrived[p] <= MaxPulses}

Cleared(arrived) ==
  /\ register' = [u \in Unit |->
                    IF \E p \in Sampling : ioPins[p].unit = u
                    THEN 0 ELSE register[u]]
  /\ pulses' = [p \in DOMAIN pulses |->
                  IF p \in Sampling THEN pulses[p] + arrived[p]
                                    ELSE pulses[p]]
  /\ missed' = [p \in DOMAIN missed |->
                  IF p \in Sampling THEN missed[p] + arrived[p]
                                    ELSE missed[p]]

(* History: how long the samples have shown one level, and in how many of  *)
(* them this has been so for the debounce time.                            *)
Sampled(p) ==
  LET age == IF level[p] = seen[p].level THEN seen[p].age ELSE 0
      settled == age >= PinConfig[p].debounceMs
  IN  [level |-> level[p], age |-> age,
       agreed |-> IF settled /\ level[p] = seen[p].level
                  THEN Smaller(seen[p].agreed + 1, Enough(p))
                  ELSE IF settled THEN 1 ELSE 0]

Round ==
  /\ gap' = 0 /\ loop
  /\ \E arrived \in Arrivals : Cleared(arrived)
  /\ seen' = [p \in DOMAIN seen |-> Sampled(p)]
  /\ UNCHANGED <<now, level, pcntUnitsUsed, switches, mappings, plcMemory>>
------------------------------------------------------------------------------
Change(p, pin) ==
  /\ ioPins' = [ioPins EXCEPT ![p] = pin]
  /\ UNCHANGED <<hardware, pcntUnitsUsed, switches, program>>

(* writeDigital with 0 or 1, writeAnalog with any value. *)
writePin(p, n) ==
  /\ p \in Loaded /\ pinsEnabled
  /\ Change(p, Write(p, ioPins[p], n)) /\ UNCHANGED history

setPWMDutyCycle(p, duty) ==
  /\ p \in OfKind("pwm")
  /\ Change(p, setDutyCycle(ioPins[p], duty)) /\ UNCHANGED history

Pulse(p) ==
  /\ p \in OfKind("output") /\ pinsEnabled
  /\ Change(p, triggerPulse(ioPins[p], now)) /\ UNCHANGED history

toggle(p) ==
  /\ p \in OfKind("output") /\ pinsEnabled
  /\ Change(p, [ioPins[p] EXCEPT !.value = ~@]) /\ UNCHANGED history

resetPulseCounter(p) ==
  /\ p \in OfKind("counter")
  /\ ioPins' = [ioPins EXCEPT ![p] = resetCounter(@, now)]
  /\ register' = [register EXCEPT ![ioPins[p].unit] = 0]
  /\ pulses' = [pulses EXCEPT ![p] = 0]
  /\ missed' = [missed EXCEPT ![p] = 0]
  /\ UNCHANGED <<now, level, gap, pcntUnitsUsed, switches, program, seen>>

setEnabled(enable) ==
  /\ enabled' = enable /\ pinsEnabled' = enable
  /\ UNCHANGED <<hardware, ioPins, pcntUnitsUsed, program, history>>

Safe(p) ==
  CASE kind(p) = "output" ->
         [ioPins[p] EXCEPT !.value = PinConfig[p].safeState]
    [] kind(p) = "pwm" -> setDutyCycle(ioPins[p], 0)
    [] OTHER -> ioPins[p]

setSafeState ==
  /\ ioPins' = [p \in Loaded |-> Safe(p)]
  /\ UNCHANGED <<hardware, pcntUnitsUsed, switches, program, history>>

(* The variables of the mappings are declared; memory has them all. *)
setPlcMemory(given) ==
  /\ plcMemory' = given
  /\ UNCHANGED <<hardware, ioPins, pcntUnitsUsed, switches, mappings, memory,
                 history>>
------------------------------------------------------------------------------
(* The program's logic, between two rounds. *)
ProgramWrites(v, n) ==
  /\ plcMemory
  /\ memory' = [memory EXCEPT ![v] = n]
  /\ UNCHANGED <<hardware, ioPins, pcntUnitsUsed, switches, mappings,
                 plcMemory, history>>

SetLevel(p, n) ==
  /\ p \in OfKind("input") \cup OfKind("analog")
  /\ kind(p) = "input" => n \in {0, 1}
  /\ level' = [level EXCEPT ![p] = n]
  /\ UNCHANGED <<now, register, gap, ioPins, pcntUnitsUsed, switches, program,
                 history>>

(* The hardware counts while the manager does something else, or nothing;  *)
(* at its limit it starts again at 0.                                      *)
PulseArrives(p) ==
  /\ p \in OfKind("counter") /\ pulses[p] < MaxPulses
  /\ register' = [register EXCEPT ![ioPins[p].unit] = (@ + 1) % CountLimit]
  /\ pulses' = [pulses EXCEPT ![p] = @ + 1]
  /\ UNCHANGED <<now, level, gap, ioPins, pcntUnitsUsed, switches, program,
                 seen, missed>>

Tick ==
  /\ gap < MaxGap
  /\ gap' = gap + 1
  /\ now' = (now + 1) % Clock
  /\ seen' = [p \in DOMAIN seen |->
                [seen[p] EXCEPT
                   !.age = Smaller(@ + 1, PinConfig[p].debounceMs)]]
  /\ UNCHANGED <<level, register, ioPins, pcntUnitsUsed, switches, program,
                 counts>>

Next ==
  \/ \E file \in Files : loadConfig(file) /\ loadPLCMapping(file)
  \/ Round
  \/ \E p \in Name : \/ \E n \in {0, 1, MaxDuty} : writePin(p, n)
                     \/ \E n \in -1 .. MaxDuty + 1 : setPWMDutyCycle(p, n)
                     \/ Pulse(p) \/ toggle(p)
                     \/ resetPulseCounter(p) \/ PulseArrives(p)
  \/ \E p \in Name, n \in 0 .. MaxReading : SetLevel(p, n)
  \/ \E enable \in BOOLEAN : setEnabled(enable)
  \/ setSafeState
  \/ \E given \in BOOLEAN : setPlcMemory(given)
  \/ \E v \in Var, n \in {-1, 0, MaxDuty} : ProgramWrites(v, n)
  \/ Tick

Spec == Init /\ [][Next]_vars
------------------------------------------------------------------------------
(* DigitalInputPin, "software debounce": an input without a filter changes *)
(* only to a level that all samples have shown for the debounce time.      *)
Debounced ==
  [][Round =>
       \A p \in OfKind("input") :
         /\ PinConfig[p].filterSamples = 0
         /\ ioPins'[p].value # ioPins[p].value
         => seen'[p].age >= PinConfig[p].debounceMs]_vars

(* A level that lasts is reported: when it has been there for the debounce *)
(* time in as many samples as the filter has, the input shows it, across   *)
(* the wrap of millis() and while the manager is disabled and enabled.     *)
LastingSeen ==
  \A p \in OfKind("input") :
    seen[p].agreed = Enough(p) =>
      ioPins[p].value = ((seen[p].level = 1) # PinConfig[p].invert)

(* getTotalCount, with what the hardware has counted since: no pulse is    *)
(* counted twice, and none is lost but those that arrive between the       *)
(* reading and the clearing of a frequency sample, and a full count each   *)
(* time the hardware starts again at 0; whenever rounds, samples, resets   *)
(* and reloads come. Without samples the total falls back to 0 with it.    *)
Counted(p) ==
  ioPins[p].total + (register[ioPins[p].unit] - ioPins[p].lastCount)
PulsesAccounted ==
  \A p \in OfKind("counter") :
    /\ Counted(p) \in 0 .. pulses[p] - missed[p]
    /\ \E n \in 0 .. MaxPulses :
         pulses[p] = Counted(p) + missed[p] + n * CountLimit
    /\ PinConfig[p].mode # "FREQUENCY" =>
         missed[p] = 0 /\ Counted(p) < CountLimit

(* "Reads inputs and writes to PLC variables, reads PLC variables and      *)
(* writes to outputs": after a round the program has, for each mapped      *)
(* input, its level now, of a counter the pulses counted up to this round, *)
(* its frequency or period, or whether the hardware had counted; and each  *)
(* output is what the program has, a duty cycle within its limits, pulses  *)
(* that end in this round and commands given before it notwithstanding.    *)
(* (Of several mappings to one variable, or to one output, the last; an    *)
(* output that is mapped as an int is never written, and nothing is said   *)
(* of it here.)                                                            *)
Outputs == OfKind("output") \cup OfKind("pwm")

ReadIn(p, type, n) ==
  CASE kind(p) = "input" -> n = IF ioPins'[p].value THEN 1 ELSE 0
    [] kind(p) = "analog" /\ type = "bool" ->
         n = IF Positive(ioPins'[p].value) THEN 1 ELSE 0
    [] kind(p) = "analog" /\ type # "bool" -> n = ioPins'[p].value
    [] kind(p) = "counter" /\ type = "bool" ->
         n = IF register[ioPins[p].unit] > 0 THEN 1 ELSE 0
    [] kind(p) = "counter" /\ type = "real" -> n = ioPins'[p].rate
    [] kind(p) = "counter" /\ type = "int" -> n = Counted(p)'

WrittenOut(p, type, n) ==
  ioPins'[p].value = IF kind(p) = "pwm" THEN Clamped(As(type, n))
                                        ELSE Positive(As(type, n))

ImageConsistent ==
  [][plcMemory /\ Round =>
       /\ \A i \in DOMAIN mappings.inputs, p \in Loaded \ Outputs :
            LET m == mappings.inputs[i]
            IN  /\ m.ioPinName = p
                /\ \A j \in DOMAIN mappings.inputs :
                     j > i => mappings.inputs[j].plcVarName # m.plcVarName
                => ReadIn(p, m.type, memory'[m.plcVarName])
       /\ \A i \in DOMAIN mappings.outputs, p \in Outputs :
            LET m == mappings.outputs[i]
            IN  /\ m.ioPinName = p /\ m.type # "int"
                /\ \A j \in DOMAIN mappings.outputs :
                     j > i => mappings.outputs[j].ioPinName # p
                => WrittenOut(p, m.type, memory'[m.plcVarName])
     ]_vars
==============================================================================
