CONSTANTS
  Command = {c1, c2}
  MaxSession = 2
  MaxEvent = 2
  MaxCrash = 1
  MaxFault = 1
SPECIFICATION MCSpec
CONSTRAINT Short
CHECK_DEADLOCK FALSE
INVARIANTS EndedIsReported
PROPERTIES KeepsEvidence CommandsEnd
