SPECIFICATION FairSpec
CONSTANTS
  WriteLimit = 1
  HeartbeatTimeout = 2
  InitialDelay = 1
  MaxDelay = 1
  Multiplier = 2
  CallbackCalls = {"send_debug"}
  TimerFaults = {FALSE}
  MaxTasks = 1
  MaxStale = 0
INVARIANTS
  NeverStranded
PROPERTIES
  ClosedLeadsToDropped
  StopLeadsToDropped
  LoginIsBounded
  SilentPeerIsDropped
  LossIsRetried
