------------------------------ MODULE MCLocalIO ------------------------------
(* A debounced or a filtered input, an output or a fan driven by a program *)
(* or a counter; each is loaded again and again.                           *)
EXTENDS LocalIO

MCPinConfig ==
  [button |-> [kind |-> "input", invert |-> TRUE, debounceMs |-> 2,
               filterSamples |-> 0],
   motion |-> [kind |-> "input", invert |-> FALSE, debounceMs |-> 1,
               filterSamples |-> 2],
   heater |-> [kind |-> "output", initialState |-> FALSE, pulseWidthMs |-> 2,
               safeState |-> FALSE],
   fan    |-> [kind |-> "pwm", initialDutyCycle |-> 0],
   temp   |-> [kind |-> "analog", filterSamples |-> 2],
   flow   |-> [kind |-> "counter", mode |-> "FREQUENCY",
               sampleWindowMs |-> 2],
   power  |-> [kind |-> "counter", mode |-> "PERIOD",
               sampleWindowMs |-> 1],
   fault  |-> [kind |-> "counter", mode |-> "COUNTER",
               sampleWindowMs |-> 1],
   meter  |-> [kind |-> "counter", mode |-> "COUNTER",
               sampleWindowMs |-> 1]]

Map(pin, var, type) ==
  [ioPinName |-> pin, plcVarName |-> var, type |-> type]

MCFiles ==
  {[pins |-> <<"button">>, inputs |-> << >>, outputs |-> << >>],
   [pins |-> <<"motion">>,
    inputs |-> <<Map("motion", "x", "bool")>>, outputs |-> << >>],
   [pins |-> <<"heater">>,
    inputs |-> << >>, outputs |-> <<Map("heater", "x", "bool")>>],
   [pins |-> <<"temp", "fan">>,
    inputs |-> <<Map("temp", "x", "real")>>,
    outputs |-> <<Map("fan", "x", "int"), Map("fan", "x", "real")>>],
   [pins |-> <<"flow", "flow">>,
    inputs |-> <<Map("flow", "x", "real")>>, outputs |-> << >>],
   [pins |-> <<"fault", "power">>,
    inputs |-> <<Map("power", "x", "int")>>, outputs |-> << >>],
   [pins |-> <<"meter">>,
    inputs |-> <<Map("meter", "x", "bool")>>, outputs |-> << >>]}

(* A file is only replaced by itself. *)
SameRig ==
  (Loaded' \subseteq Loaded /\ mappings' = mappings)
    \/ (Loaded = {} /\ pcntUnitsUsed = {})
==============================================================================
