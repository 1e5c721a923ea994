CONSTANTS
  Ids = {m1, m2}
  NoId = NoId
  RetryAttempts = 1
  MaxFaults = 2
SYMMETRY Symmetry
SPECIFICATION Spec
INVARIANTS
  NoFalseSuccess
  SubmitBudget
  RetriesUsedUp
  OrphansSetAside
PROPERTIES
  ImplementsLedger
