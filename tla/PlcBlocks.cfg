CONSTANTS
  Preset = {0, 1, 3}
  Wrap = 6
  MaxGap = 2
  PV <- MCPV
  MaxCount = 3
  Timeouts <- MCTimeouts
  Clock = 7
  MaxPause = 2
  Endpoint = {relay, lamp}
  NoName = NoName
  Event = {e1, e2}
  NoEvent = NoEvent
  MaxHistory = 3
  ByteBits = 2
  IntBits = 3
  MaxInputs = 3
  Real = {1, 2}
  NaN = NaN

SPECIFICATION BlocksSpec

INVARIANTS
  BlocksTypeOK
  CountsPulses

PROPERTIES
  TimersKeepTime
  StepTimeout
  TriggersOnChange
  FunctionsAgree
  HistoryIsLog
