SPECIFICATION Spec
CONSTANTS
  MaxWriteEvents = 1
  MaxMessages = 2
  MaxTests = 2
INVARIANTS
  NoUseOfFreedRequest
CHECK_DEADLOCK FALSE
