SPECIFICATION Spec
CONSTANTS
  WriteLimit = 2
  HeartbeatTimeout = 2
  InitialDelay = 1
  MaxDelay = 3
  Multiplier = 2
  CallbackCalls = {"connect"}
  TimerFaults = {FALSE}
  MaxTasks = 1
  MaxStale = 1
INVARIANTS NoOrphans
