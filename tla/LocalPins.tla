------------------------------ MODULE LocalPins ------------------------------
(***************************************************************************)
(* The pins of the hub's own hardware, one record per pin object, and what *)
(* each of their methods makes of it. Voltages and duty cycles are natural *)
(* numbers; an average is rounded down. Edge detection is never configured *)
(* by LocalIOManager and is left out.                                      *)
(***************************************************************************)
EXTENDS Integers, Sequences, FiniteSets, SequencesExt

CONSTANTS
  Name,        \* names of pins
  PinConfig,   \* the configuration of each
  Broken,      \* pins whose driver reports an error when it is configured
  Unit,        \* pulse counter units of the chip, 0 .. their number - 1
  CountLimit,  \* counter_h_lim: there the hardware starts at 0 again
  MaxReading,  \* largest level of an analog input
  MaxDuty,     \* 100 %
  DutySteps,   \* the duty value the hardware is given for it
  Clock,       \* millis() counts modulo this
  Second,      \* ticks in a second
  NaN          \* what a float division of 0 by 0 leaves

DigitalInputConfig ==
  [kind : {"input"}, invert : BOOLEAN, debounceMs : Nat, filterSamples : Nat]
DigitalOutputConfig ==
  [kind : {"output"}, initialState : BOOLEAN, pulseWidthMs : Nat,
   safeState : BOOLEAN]
AnalogInputConfig == [kind : {"analog"}, filterSamples : Nat]
PWMOutputConfig == [kind : {"pwm"}, initialDutyCycle : Nat]
(* (A window of 0, which divides by zero, is left out.)                    *)
PulseCounterConfig ==
  [kind : {"counter"}, mode : {"COUNTER", "FREQUENCY", "PERIOD"},
   sampleWindowMs : Nat \ {0}]

ASSUME PinsAssumption ==
  /\ PinConfig \in [Name -> DigitalInputConfig \cup DigitalOutputConfig
                              \cup AnalogInputConfig \cup PWMOutputConfig
                              \cup PulseCounterConfig]
  /\ Broken \subseteq Name /\ Unit \subseteq Nat
  /\ CountLimit \in Nat \ {0} /\ Clock \in Nat \ {0}
  /\ MaxReading \in Nat /\ MaxDuty \in Nat \ {0} /\ DutySteps \in Nat
  /\ Second \in Nat /\ NaN \notin Int

kind(p) == PinConfig[p].kind
Time == 0 .. Clock - 1

(* As if the difference were not unsigned. *)
ElapsedSigned(now, t) == IF now < t THEN 0 ELSE now - t

(* Unsigned arithmetic: from time t to now. *)
Elapsed(now, t) == (now - t) % Clock

Positive(n) == n # NaN /\ n > 0

Smaller(m, n) == IF m < n THEN m ELSE n
------------------------------------------------------------------------------
DigitalInput(p) ==
  [value : BOOLEAN, lastRaw : BOOLEAN, lastDebounced : BOOLEAN,
   lastDebounceTime : Time,
   filter : BoundedSeq(BOOLEAN, PinConfig[p].filterSamples)]

(* As if the time were tested before it is set. *)
DebounceLate(p, pin, raw, now) ==
  [pin EXCEPT
     !.lastRaw = raw,
     !.lastDebounceTime = IF raw # pin.lastRaw THEN now ELSE @,
     !.lastDebounced = IF Elapsed(now, pin.lastDebounceTime)
                            >= PinConfig[p].debounceMs THEN raw ELSE @]

(* The level after the debounce time has been waited for. *)
Debounce(p, pin, raw, now) ==
  LET since == IF raw # pin.lastRaw THEN now ELSE pin.lastDebounceTime
  IN  IF PinConfig[p].debounceMs = 0
      THEN [pin EXCEPT !.lastRaw = raw]
      ELSE [pin EXCEPT
              !.lastRaw = raw,
              !.lastDebounceTime = since,
              !.lastDebounced = IF Elapsed(now, since)
                                     >= PinConfig[p].debounceMs
                                THEN raw ELSE @]

(* The last samples, and whether more than half of them are high. *)
Append1(buffer, sample, size) ==
  LET longer == Append(buffer, sample)
  IN  IF Len(longer) > size THEN Tail(longer) ELSE longer

Filter(p, pin, level) ==
  LET size == PinConfig[p].filterSamples
      filter == Append1(pin.filter, level, size)
      highs == {i \in DOMAIN filter : filter[i]}
  IN  IF size = 0 THEN [pin EXCEPT !.value = level]
      ELSE [pin EXCEPT
              !.filter = filter,
              !.value = Cardinality(highs) > size \div 2]

UpdateDigitalInput(p, pin, level, now) ==
  LET raw == (level = 1) # PinConfig[p].invert
      debounced == Debounce(p, pin, raw, now)
  IN  Filter(p, debounced,
             IF PinConfig[p].debounceMs = 0 THEN raw
                                            ELSE debounced.lastDebounced)

BeginDigitalInput(p, level, now) ==
  UpdateDigitalInput(p, [value |-> FALSE, lastRaw |-> FALSE,
                         lastDebounced |-> FALSE, lastDebounceTime |-> 0,
                         filter |-> << >>], level, now)
------------------------------------------------------------------------------
(* An analog input is not valid yet when begin updates it for the first    *)
(* time: its value stays 0 until the next round.                           *)
AnalogInput(p) ==
  [value : 0 .. MaxReading \cup {NaN},
   filter : BoundedSeq(0 .. MaxReading, PinConfig[p].filterSamples)]

BeginAnalogInput == [value |-> 0, filter |-> << >>]

Total(samples) ==
  LET sum[n \in 0 .. Len(samples)] ==
        IF n = 0 THEN 0 ELSE sum[n - 1] + samples[n]
  IN  sum[Len(samples)]

UpdateAnalogInput(p, pin, level) ==
  LET filter == Append1(pin.filter, level, PinConfig[p].filterSamples)
  IN  [filter |-> filter,
       value |-> IF filter = << >> THEN NaN
                                   ELSE Total(filter) \div Len(filter)]
------------------------------------------------------------------------------
DigitalOutput ==
  [value : BOOLEAN, pulseActive : BOOLEAN, pulseStartTime : Time]

BeginDigitalOutput(p) ==
  [value |-> PinConfig[p].initialState, pulseActive |-> FALSE,
   pulseStartTime |-> 0]

(* A pulse ends with the output off, whatever was written meanwhile. *)
UpdateDigitalOutput(p, pin, now) ==
  IF pin.pulseActive
       /\ Elapsed(now, pin.pulseStartTime) >= PinConfig[p].pulseWidthMs
  THEN [pin EXCEPT !.pulseActive = FALSE, !.value = FALSE]
  ELSE pin

triggerPulse(pin, now) ==
  [value |-> TRUE, pulseActive |-> TRUE, pulseStartTime |-> now]

(* Duty cycles stay within their limits, but NaN passes both tests.        *)
PWMOutput == [value : 0 .. MaxDuty \cup {NaN}]

Clamped(duty) ==
  IF duty = NaN THEN NaN
  ELSE IF duty < 0 THEN 0 ELSE Smaller(duty, MaxDuty)

setDutyCycle(pin, duty) == [pin EXCEPT !.value = Clamped(duty)]

(* begin sets the initial duty cycle before the pin is valid, and so has   *)
(* it refused.                                                             *)
BeginPWMOutput == [value |-> 0]
------------------------------------------------------------------------------
(* rate is the frequency or the period last computed, rounded down; high   *)
(* is what the pin shows as a bool.                                        *)
PulseCounter ==
  [unit : Unit, total : Int, lastCount : 0 .. CountLimit - 1,
   lastSampleTime : Time, rate : Int, high : BOOLEAN]

BeginPulseCounter(unit, now) ==
  [unit |-> unit, total |-> 0, lastCount |-> 0, lastSampleTime |-> now,
   rate |-> 0, high |-> FALSE]

(* A round at which a frequency is computed also clears the hardware. *)
Samples(p, pin, now) ==
  /\ PinConfig[p].mode = "FREQUENCY"
  /\ Elapsed(now, pin.lastSampleTime) >= PinConfig[p].sampleWindowMs

(* A period is computed in every round that sees a pulse. *)
Measures(p, delta) == PinConfig[p].mode = "PERIOD" /\ delta > 0

Frequency(delta, elapsed) == (delta * Second) \div elapsed
Period(delta, elapsed) == elapsed \div delta

(* count is what the hardware was read to have.                            *)
UpdatePulseCounter(p, pin, count, now) ==
  LET delta == count - pin.lastCount
      elapsed == Elapsed(now, pin.lastSampleTime)
      rate == CASE Samples(p, pin, now) -> Frequency(delta, elapsed)
                [] Measures(p, delta) -> Period(delta, elapsed)
                [] OTHER -> pin.rate
  IN  [pin EXCEPT
         !.total = @ + delta,
         !.lastCount = IF Samples(p, pin, now) THEN 0 ELSE count,
         !.lastSampleTime = IF Samples(p, pin, now) \/ Measures(p, delta)
                            THEN now ELSE @,
         !.rate = rate,
         !.high = count > 0]

(* As if the count of the last round were kept. *)
resetTotal(pin, now) ==
  [pin EXCEPT !.total = 0, !.lastSampleTime = now]

resetCounter(pin, now) ==
  [pin EXCEPT !.total = 0, !.lastCount = 0, !.lastSampleTime = now]
==============================================================================
