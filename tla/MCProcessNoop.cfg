SPECIFICATION Spec
CONSTANTS
  Working <- MCWorking
  Sources <- MCSources
INVARIANT StartsInEveryMode
CHECK_DEADLOCK FALSE
