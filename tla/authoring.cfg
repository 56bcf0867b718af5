CONSTANTS
  MaxSession = 2
  MaxJob = 2
  Input = {a, b}
  LegacyInput = {a}
  Worker = {w1, w2}
  MaxAttempts = 2
  RetryErrors = TRUE
  None = None
SPECIFICATION FairSpec
CHECK_DEADLOCK FALSE
INVARIANTS SourceKeptWhileNeeded
PROPERTIES OneSuggestion SuggestionsSettle
