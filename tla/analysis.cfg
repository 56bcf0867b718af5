CONSTANTS
  Worker = {w1, w2}
  Name <- OwnNames
  MaxRevision = 2
  MaxAttempts = 2
  Lease = 2
  Budget = 1
  RetryDelay <- Delays
  MaxCrash = 1
  None = None
  Missing = Missing
  IdleThreshold = 2
  Tolerance = 0
  MaxCandidates = 4
  MaxFailures = 1
  MaxNeighbours = 2
  MaxIdles = 1
  Dims = {"A", "B"}
  Minimum <- Required
  Levels <- TwoLevels
  Criteria <- TwoCriteria
  Recordings <- AllRecordings
  Responses <- ShortAnswers
  Budgets = 2
  Total = 4
  CallTimeout = 2
  Wait = 1
  Overrun = 1
  MaxOrder = 4
  MaxTimes = 3
SPECIFICATION MCSpec
INVARIANTS OneCallPerJob SignalsAreTrue ModelSeesFailures ResultsAreHonest EndsInTime
PROPERTIES OneOutcome AnalysisJobsSettle
