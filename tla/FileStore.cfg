SPECIFICATION Spec
CONSTANTS
  B = 2
  Messages <- MCMessages
  Reopens = FALSE
  MaxFile = 4
  MaxRecords = 3
  NoAnswer = NoAnswer
  Failure = Failure
INVARIANTS
  ReadBack
  CountsMessages
PROPERTIES
  ImplementsLog
