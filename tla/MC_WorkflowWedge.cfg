CONSTANTS
  Requests = {r1, r2}
  Plans <- ShortPlans
  ExecutionMode = "mock_apply"
  MaxEvents = 1
  MaxAnswers = 2
  MaxFaults = 0
SPECIFICATION Spec
INVARIANTS
  Answerable
