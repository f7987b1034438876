CONSTANTS
  NumPrograms = 2
  Commander <- HubOnly
  TaskId = {t1, t2}
  NULL = NULL

SPECIFICATION FairSpec

INVARIANTS
  TypeOK
  HandleIsTheTask
  TaskMeansRunning
  NobodyDeletesItself
  RunningHasEngine
  EngineHasWork

PROPERTIES
  HandlersLookAtomic
  RunningIsEvaluated
