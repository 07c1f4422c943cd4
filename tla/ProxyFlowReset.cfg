SPECIFICATION FairSpec
CONSTANTS
  MaxReq = 1
  MaxResp = 1
  Transcoding = FALSE
PROPERTIES
  ResetFinishesCall
CHECK_DEADLOCK FALSE
