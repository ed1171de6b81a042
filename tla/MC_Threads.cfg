CONSTANTS
  Requests = {r1, r2}
  Customers <- TwoCustomers
  Accounts <- DemoAccounts
  Account <- DemoAccount
  Envs = {"local", "prod"}
  MaxCreates = 3
  MaxRuns = 2
  MaxFaults = 1
SYMMETRY RequestSymmetry
CONSTRAINT WorthExploring
SPECIFICATION Spec
INVARIANTS
  TypeOK
  OwnSession
  OnlyInScope
  OrphanOnlyByFault
  LostOnlyInRace
