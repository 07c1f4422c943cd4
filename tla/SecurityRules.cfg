SPECIFICATION Spec
CONSTANTS
  Request = {r1, r2}
  Token <- RulesToken
  Method <- RulesMethod
  Credentials <- RulesCredentials
  Issuer = {"iss"}
  Discovered = {"iss"}
  Key = {"k1"}
  FirstKey <- MCFirstKey
  Document <- MCDocument
  ServiceName = "svc"
  Skew = 1
  CertTTL = 1
  JwtTTL = 1
  Lag = 0
  MaxTime = 1
  NoToken = NoToken
  EmptyToken = EmptyToken
  RulesEnabled = TRUE
  Func = {"f", "bad"}
  BadFunc = {"bad"}
  MaxCalls = 2
  RulesTTL = 0
INVARIANTS RulesDecided
PROPERTIES EveryRequestAnswered
CHECK_DEADLOCK FALSE
