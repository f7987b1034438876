CONSTANTS
  Hub = {"a", "b"}
  Var = {"x"}
  Value = {0, 1}
  VarType <- MCBool
  AliasType <- MCAlias
  Published <- MCPublished
  Subscribed <- MCSubscribed
  Intervals = {2}
  Timeout = 6
  Threshold = 0
  CheckPeriod = 1
  Clock = 11
  MaxLost = 1
  MaxNet = 1

SPECIFICATION Spec
INVARIANTS
  TypeOK
  ChangeIsSent
  SilenceIsSeen
PROPERTY ToleratesLoss
