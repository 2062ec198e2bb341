SPECIFICATION Spec
CONSTANTS
  WriteLimit = 2
  HeartbeatTimeout = 2
  Conn = {c1}
  Ports = {p1}
  NoConn = NoConn
  NoPort = NoPort
  Banner = TRUE
  CallbackSends = FALSE
  TimerFaults = {FALSE}
  MaxAccepts = 2
  MaxTasks = 1
INVARIANTS NoOrphans
