CONSTANTS
  Jobs = {j1, j2}
  Modes = {"local_stub", "codex_cli"}
  MaxFaults = 2
SPECIFICATION FairSpec
INVARIANTS
  TypeOK
  PlanIsOwn
  StatusTellsOutcome
PROPERTIES
  JobEnds
