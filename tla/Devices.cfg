CONSTANTS
  Module <- MCModule
  Dependencies <- MCDependencies
  CanDisable = {"mqtt", "export"}
  Compatible = {"mqtt", "export"}
  SaveOutcomes = {TRUE, FALSE}
  Wrap = 6
  MaxGap = 2
  OfflineTimeout = 2
  MaxAge = 5
  ZigbeeDevice = {z1, z2}
  Durations = {1, 3}
  Node = {n1, n2}
  WiFiDevice = {w1, w2}
  RadioDevice = {"a", "b"}
  Code = {1, 2, 3}
  CodesOf <- MCCodesOf
  DeviceId = {1, 2, 3}
  Protocol = {"wifi", "zigbee"}
  FileOf <- MCFileOf
  Config <- MCConfig

SPECIFICATION DevicesSpec

INVARIANTS
  DevicesTypeOK
  OnlineIsRight
  PairingEnds
  ShowsTheSwitch
  KnownIsInitialised
  RunningIsEnabled

PROPERTIES
  ZigbeeKeptOnline
  KeepsDependencies
