CONSTANTS
  Name = {"button", "motion", "heater", "fan", "temp", "flow", "power", "fault",
          "meter"}
  PinConfig <- MCPinConfig
  Broken = {"fault"}
  Unit = {0, 1}
  CountLimit = 2
  MaxReading = 1
  MaxDuty = 2
  DutySteps = 4
  Clock = 5
  Second = 2
  NaN = NaN
  Files <- MCFiles
  Var = {"x"}
  MaxGap = 2
  MaxPulses = 3

ACTION_CONSTRAINT SameRig
SPECIFICATION Spec
INVARIANTS
  TypeOK
  LastingSeen
  PulsesAccounted
PROPERTIES
  Debounced
  ImageConsistent
