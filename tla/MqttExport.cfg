CONSTANTS
  NumVars = 1
  Topic = {"t"}
  Value <- Values
  ClientText <- Texts
  Config <- Configs
  Absent = Absent
  NoRule = NoRule
  NoVar = NoVar
  Nothing = Nothing
  Lost = Lost
  Wrap = 4
  CheckPeriod = 0
  MaxInbox = 2
  MaxAge = 2

SPECIFICATION FairSpec

INVARIANT TypeOK

PROPERTIES
  KeepsInterval
  LatestPublished
  QuietOneByOne
