SPECIFICATION Spec
CONSTANTS
  MaxReq = 1
  MaxResp = 1
  Transcoding = TRUE
INVARIANTS
  CleanupCompletes
CHECK_DEADLOCK FALSE
