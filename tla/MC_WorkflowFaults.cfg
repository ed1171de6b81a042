CONSTANTS
  Requests = {r1}
  Plans <- StubPlans
  ExecutionMode = "mock_apply"
  MaxEvents = 2
  MaxAnswers = 4
  MaxFaults = 2
SPECIFICATION Spec
INVARIANTS
  TypeOK
  ExecutedAsAsked
  StateMatchesPending
  ApprovalIsKept
  PendingNeedsApproval
PROPERTIES
  DeclinedStays
  WaitEndsByAnswer
