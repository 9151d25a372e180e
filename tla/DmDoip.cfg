CONSTANTS
  Capacity = 2
  QueueMax = 2
  Default = 1
  ListSize = 1
  TpEnable = FALSE
  MaxSteps = 1
  MaxCalls = 5
  ApiCommands = {"create", "destory", "config", "start", "reset", "doipc_create"}

SPECIFICATION Spec

PROPERTY FailedIsUnsent

CHECK_DEADLOCK FALSE
