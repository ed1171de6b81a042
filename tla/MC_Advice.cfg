CONSTANTS
  Whole = 1200
  Threads = {t1, t2}
  Customers <- MCCustomers
  Planners = {"local_stub", "codex_cli"}
  CodexPlans <- MCCodexPlans
  Inputs <- MCInputs
  MaxChecks = 3
  MaxFaults = 1
SYMMETRY Symmetry
CONSTRAINT WorthExploring
SPECIFICATION Spec
CHECK_DEADLOCK FALSE
INVARIANTS
  TypeOK
  Conserved
  NoRepeat
  GapClosed
  CoverOnce
PROPERTIES
  SoldAsAnnounced
