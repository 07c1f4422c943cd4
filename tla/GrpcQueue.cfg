SPECIFICATION FairQueueSpec
CONSTANTS
  MaxTags = 4
INVARIANTS
  NoLostWakeup
  EveryTagAccountedFor
PROPERTIES
  DestructorReturns
  ImplementsInterface
CHECK_DEADLOCK FALSE
