SPECIFICATION Spec
CONSTANTS
  Sessions = {s1, s2}
  Main = main
  Worker = worker
  MaxFaults = 3
INVARIANTS ToldIsDurable FailedStaysOut WorkerSeesCommitted NeverRefused
PROPERTIES LeftoverIsCleared
