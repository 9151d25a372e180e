CONSTANTS
  Capacity = 2
  QueueMax = 2
  Default = 1
  ListSize = 1
  TpEnable = FALSE
  MaxSteps = 1
  MaxCalls = 5
  ApiCommands = {"create", "destory", "config", "start", "reset", "doipc_create"}

SPECIFICATION Spec

INVARIANTS TypeOK HandleIsLease RunningIsInUse Agreement

CHECK_DEADLOCK FALSE
