SPECIFICATION FairSpec
CONSTANTS
  MaxWriteEvents = 1
  MaxMessages = 2
  MaxTests = 2
INVARIANTS
  ContentOnlyIfAllowed
  CompletedOnce
  WakeupPosted
  CancelledCheckIgnored
PROPERTIES
  AccessPhaseEnds
CHECK_DEADLOCK FALSE
