SPECIFICATION FairSpec
CONSTANTS
  MaxReq = 2
  MaxResp = 2
  Transcoding = FALSE
INVARIANTS
  OneOperationPerDirection
  NoOrphanedRequest
PROPERTIES
  NothingAfterHalfClose
  RelaysFaithfully
  BackendEndReachesClient
  ResetEndsCall
CHECK_DEADLOCK FALSE
