SPECIFICATION FairListeningSpec
CONSTANTS
  WriteLimit = 2
  HeartbeatTimeout = 3
  Conn = {c1}
  Ports = {p1}
  NoConn = NoConn
  NoPort = NoPort
  Banner = FALSE
  CallbackSends = FALSE
  TimerFaults = {FALSE, TRUE}
  MaxAccepts = 2
  MaxTasks = 0
INVARIANTS
  LoginResponseFirst
PROPERTIES
  ClosedLeadsToDropped
  LoginIsBounded
  SilentClientIsDropped
