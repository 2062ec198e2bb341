SPECIFICATION Spec
CONSTANTS
  base = 3
  max = 20
  username_length = 1
  password_length = 1
  session_length = 2
  sequence_number_length = 3
  Strings <- MCStrings
  Numbers = {0, 1, 8, 19}
  Servers <- MCServers
  ForeignRequests <- MCForeignRequests
  ForeignResponses <- MCForeignResponses
CHECK_DEADLOCK FALSE
INVARIANTS
  ValidIffCarried
  AcceptedIffAgreed
  ReadsAnything
