SPECIFICATION TokenSpec
CONSTANTS
  Request = {r1, r2, r3}
  Lifetimes = {1, 6}
  Margin = 2
  IdentityExpiration = 4
  RefetchWindow = 3
  FailureWindow = 2
  MaxTime = 8
PROPERTIES
  OldTokenReused
CHECK_DEADLOCK FALSE
