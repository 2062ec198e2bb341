SPECIFICATION Spec
CONSTANTS
  WriteLimit = 2
  HeartbeatTimeout = 2
  InitialDelay = 1
  MaxDelay = 3
  Multiplier = 2
  CallbackCalls = {"close", "send_debug"}
  TimerFaults = {FALSE, TRUE}
  MaxTasks = 1
  MaxStale = 1
INVARIANTS
  TypeOK
  NoOrphans
  ReconnectOnlyWhenDropped
  WriteQueueServed
  LoginRequestFirst
  NoForgottenRetry
PROPERTIES
  NoAttemptWhenStopped
