CONSTANTS
  Program = {"p"}
  Event = {1, 2}
  NoEvent = NoEvent
  MaxHistory = 1
  NumTriggers = 2
  Config <- Configs
  Endpoint = {"e"}
  Value <- Values
  Writable = {"e"}
  UptimeWrap = 3
  TicksPerMinute = 1
  MinutesPerDay = 2
  MaxAge = 2

SPECIFICATION FairSpec

INVARIANT TypeOK

PROPERTIES
  Debounced
  ChangeReported
