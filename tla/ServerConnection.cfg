SPECIFICATION Spec
CONSTANTS
  WriteLimit = 1
  HeartbeatTimeout = 2
  Conn = {c1}
  Ports = {p1}
  NoConn = NoConn
  NoPort = NoPort
  Banner = FALSE
  CallbackSends = TRUE
  TimerFaults = {FALSE, TRUE}
  MaxAccepts = 2
  MaxTasks = 1
INVARIANTS
  TypeOK
  NoOrphans
  RejectIsWaitedFor
  NeverStranded
PROPERTIES
  NeverDeaf
