SPECIFICATION Spec
CONSTANTS
  Inputs <- MCInputs
  MaxDamage = 1
INVARIANTS
  ContentArrives
  DamageNoticed
  ReplyToFollowsList
CHECK_DEADLOCK FALSE
