SPECIFICATION Spec
CONSTANTS
  Ids = {r1, r2}
  SubmitTimeout = 2
  PollInterval = 1
  RetryAttempts = 1
  RetryBaseDelay = 1
  SubmittedTimeout = 12
  RetryAfters = {0, 3}
  MaxStepBack = 1
INVARIANTS DueIsTaken SubmittedEnds DownNoLonger
