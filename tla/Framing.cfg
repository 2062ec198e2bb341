SPECIFICATION Spec
CONSTANTS
  B = 2
  Types = {0, 1}
  MaxPayload = 2
  MaxPackets = 2
CHECK_DEADLOCK FALSE
INVARIANTS
  Framed
