SPECIFICATION FairSpec
CONSTANTS
  Conn = {c1}
  Link = {l1, l2}
  NoLink = NoLink
  NoMessage = NoMessage
  MaxSession = 2
  MaxMessages = 2
  MaxSends = 0
  WriteLimit = 2
  StartNext = {0, 1}
  CallbackSends = TRUE
ACTION_CONSTRAINT FewInSecond
INVARIANTS
  TypeOK
  NoViolation
  LoginsAgree
  EndAfterData
PROPERTIES
  ImplementsFeed
  Delivered
