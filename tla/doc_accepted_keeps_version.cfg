CONSTANTS
  Request = {r1, r2}
  Tab = {}
  MaxDraft = 2
  MaxEdit = 0
  MaxConfig = 1
  MaxContext = 1
SPECIFICATION Spec
SYMMETRY Symmetry
CHECK_DEADLOCK FALSE
PROPERTIES AcceptedKeepsVersion
