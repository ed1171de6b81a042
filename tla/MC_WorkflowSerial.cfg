CONSTANTS
  Requests = {r1}
  Plans <- StubPlans
  ExecutionMode = "mock_apply"
  MaxEvents = 2
  MaxAnswers = 4
  MaxFaults = 0
SPECIFICATION FairSpec
INVARIANTS
  AtMostOnce
  AtRestAgreement
PROPERTIES
  ApprovalsHonoured
  DecisionsSettle
  KeepsPromise
