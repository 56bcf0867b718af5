CONSTANTS
  Dimension = {d1}
  Tab = {t1, t2}
  MaxAttempt = 2
  MaxReview = 2
  Session = {s1, s2}
  Absent = Absent
  MaxEvents = 1
  MaxStem = 3
  MaxTrouble = 1
SPECIFICATION MCSpec
SYMMETRY Symmetry
CONSTRAINT FewEvents
CHECK_DEADLOCK FALSE
INVARIANTS RecordIsCurrent LogIsOfLastAnalysis ReviewsBuildOn LogsAreTrue
