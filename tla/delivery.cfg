CONSTANTS
  MaxBatch = 1
  Limit = 1
  MaxCrash = 1
  HasCutoff = TRUE
SPECIFICATION FairSpec
INVARIANTS DeliveredIsStored OnePluginRevision
PROPERTIES SubmissionIsFixed QueuedIsSent
