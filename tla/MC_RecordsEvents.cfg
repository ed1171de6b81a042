CONSTANTS
  Order <- TwoCustomers
  Requests = {r1}
  Envs = {"prod"}
  MaxCalls = 0
  MaxFaults = 1
SPECIFICATION Spec
INVARIANTS
  HealthUnderConsent
