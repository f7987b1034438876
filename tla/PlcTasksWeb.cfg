CONSTANTS
  NumPrograms = 2
  Commander <- HubAndWeb
  TaskId = {t1, t2}
  NULL = NULL

SPECIFICATION Spec

INVARIANT OneEngineTask
