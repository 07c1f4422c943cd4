SPECIFICATION Spec
CONSTANTS
  Config <- MCConfig
  Invalid <- MCInvalid
  MaxRollout = 3
  ConfigsOf <- MCConfigsOf
  Fetch = {f1, f2}
INVARIANTS
  StatusMatchesTraffic
