SPECIFICATION Spec
CONSTANTS
  MaxRetries = 0
  Status = {503}
  MaxBody = 1
INVARIANTS
  AnswerIsServersStatus
CHECK_DEADLOCK FALSE
