CONSTANTS
  Capacity = 1
  QueueMax = 2
  Default = 0
  ListSize = 1
  TpEnable = TRUE
  MaxSteps = 2
  MaxCalls = 5
  ApiCommands = {"create", "config", "start", "stop", "response", "sa_key"}

SPECIFICATION FairSpec

PROPERTIES SuccessIsDone StopIsBarrier CallsReturn

CHECK_DEADLOCK FALSE
