CONSTANTS
  RetryAttempts = 2
  MaxDuration = 255
  Grace = 1
  HttpTimeout = 2
  BaseDelay = 3
  MaxFaults = 2
  MaxInput = 33
  MaxAttempts = 10
SPECIFICATION MCSpec
INVARIANT TemporaryFailureIsRetried
