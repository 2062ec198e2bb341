SPECIFICATION ListeningSpec
CONSTANTS
  WriteLimit = 1
  HeartbeatTimeout = 1
  Conn = {c1, c2}
  Ports = {p1, p2}
  NoConn = NoConn
  NoPort = NoPort
  Banner = FALSE
  CallbackSends = FALSE
  TimerFaults = {FALSE}
  MaxAccepts = 2
  MaxTasks = 0
SYMMETRY Symmetry
CONSTRAINT Bounded
INVARIANTS
  PortPointsToLive
  OneSessionPerPort
