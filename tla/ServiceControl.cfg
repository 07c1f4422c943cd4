SPECIFICATION Spec
CONSTANTS
  Request = {r1}
  Service <- MCService
  HttpAnswer <- MCHttpAnswer
  CheckAnswer <- MCCheckAnswer
  QuotaAnswer <- MCQuotaAnswer
  Costs <- MCCosts
  MaxBytes = 2
  MaxReports = 2
INVARIANTS
  CountedOnce
  BytesAddUp
  NoBillWithoutKey
  CheckDecides
CHECK_DEADLOCK FALSE
