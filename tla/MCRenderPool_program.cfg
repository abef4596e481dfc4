SPECIFICATION FairSpec
CONSTANTS
  Workers = {w1, w2}
  Clients = {main}
  Jobs = {j1, j2, j3}
  Cues = {c1}
  None = None
  MAX_QUEUE_DEPTH = 1
  MaxInits = 2
  CreateMayFail = TRUE
  Overlap = FALSE
INVARIANTS
  CleanAfterShutdown
PROPERTIES
  SyncReturns
  JobsComplete
  ShutdownReturns
  RefinesService
