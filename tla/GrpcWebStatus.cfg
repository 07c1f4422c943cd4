CONSTANTS
  Deployments <- GrpcPassing
  Requests <- MCRequests
  Uris <- MCUris
  Escapes <- MCEscapes
  MaxOpen <- MCMaxOpen
  MaxSelections = 9
  MaxTraces = 3
  MaxTime = 2
  ByteValues = 4
  Chunks <- MCChunks
  Replies <- MCReplies
  MaxReplies = 2
  Ends <- MCEnds
  Leftovers <- MCLeftovers
SPECIFICATION BackendSpec
INVARIANTS
  BackendStatusKept
CHECK_DEADLOCK FALSE
