SPECIFICATION ServerSpec
CONSTANTS
  Configured = {"smtp", "smtps"}
  Stoppers = {c}
  Starter = s
INVARIANTS
  NothingServedAfterStart
PROPERTIES
  CancelEndsCalls
\* the server stops
CHECK_DEADLOCK FALSE
