SPECIFICATION Spec
CONSTANTS
  Conn = {c1, c2}
  Link = {l1}
  NoLink = NoLink
  NoMessage = NoMessage
  MaxSession = 1
  MaxMessages = 2
  MaxSends = 1
  WriteLimit = 2
  StartNext = {0, 1}
  CallbackSends = FALSE
SYMMETRY Symmetry
CONSTRAINT Bounded
INVARIANTS
  NeverAhead
  RefusedIsNotSent
PROPERTIES
  ImplementsFeed
