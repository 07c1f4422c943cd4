SPECIFICATION Spec
CONSTANTS
  MaxReq = 1
  MaxResp = 1
  Transcoding = TRUE
INVARIANTS
  NoUseOfFreedRequest
CHECK_DEADLOCK FALSE
