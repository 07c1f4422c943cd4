SPECIFICATION Spec
CONSTANTS
  MaxReq = 2
  MaxResp = 1
  Transcoding = TRUE
INVARIANTS
  RequestInOrder
CHECK_DEADLOCK FALSE
