CONSTANTS
  Requests = {r1}
  Plans <- StubPlans
  ExecutionMode = "mock_apply"
  MaxEvents = 1
  MaxAnswers = 2
  MaxFaults = 1
SPECIFICATION Spec
INVARIANTS
  AtMostOnce
