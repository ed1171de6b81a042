CONSTANTS
  Order <- ThreeCustomers
  Requests = {r1, r2}
  Envs = {"local", "prod"}
  MaxCalls = 3
  MaxFaults = 2
SYMMETRY Symmetry
SPECIFICATION Spec
INVARIANTS
  TypeOK
  NoRowWithoutItsConsent
  Repaired
  LastPushCounts
  OneRow
PROPERTIES
  RevokedUntilRestart
