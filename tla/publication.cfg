CONSTANTS
  Request = {r1, r2}
  Tab = {t1, t2}
  MaxDraft = 2
  MaxEdit = 1
  MaxConfig = 1
  MaxContext = 1
SPECIFICATION Spec
SYMMETRY Symmetry
CONSTRAINT FewActors
CHECK_DEADLOCK FALSE
PROPERTIES HistoryIsKept EditsAreKept
