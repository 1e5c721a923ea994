SPECIFICATION Spec
CONSTANTS
  Working <- MCWorking
  Sources <- MCSources
INVARIANTS
  ConstructorsAgree
  RunningIsGuarded
  StoreOutlivesUse
PROPERTIES
  FailureEndsProcess
  StopsWhenAsked
\* the process ends
CHECK_DEADLOCK FALSE
