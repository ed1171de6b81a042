CONSTANTS
  Requests = {r1, r2}
  Plans <- ShortPlans
  ExecutionMode = "mock_apply"
  MaxEvents = 2
  MaxAnswers = 2
  MaxFaults = 1
SYMMETRY RequestSymmetry
SPECIFICATION Spec
INVARIANTS
  ExecutedAsAsked
  DecisionsWereAsked
  Authority
  NoSilentEffect
