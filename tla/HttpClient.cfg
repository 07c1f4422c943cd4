SPECIFICATION FairSpec
CONSTANTS
  MaxRetries = 2
  Status = {503}
  MaxBody = 1
INVARIANTS
  PoolsOutliveHandlers
PROPERTIES
  OneAnswer
  AnsweredAndReclaimed
CHECK_DEADLOCK FALSE
