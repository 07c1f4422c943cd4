SPECIFICATION Spec
CONSTANTS
  Request = {r1, r2}
  Token <- MCToken
  Method <- MCMethod
  Credentials <- MCCredentials
  Issuer = {"iss", "idp"}
  Discovered = {}
  Key = {"k1", "k2"}
  FirstKey <- MCFirstKey
  Document <- MCDocument
  ServiceName = "svc"
  Skew = 0
  CertTTL = 1
  JwtTTL = 1
  Lag = 1
  MaxTime = 4
  NoToken = NoToken
  EmptyToken = EmptyToken
  RulesEnabled = FALSE
  Func = {}
  BadFunc = {}
  MaxCalls = 0
  RulesTTL = 1
SYMMETRY Symm
INVARIANTS EntitledInTime RevokedKeyWindow
CHECK_DEADLOCK FALSE
