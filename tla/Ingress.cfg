SPECIFICATION Spec
CONSTANTS
  Conns = {c1, c2}
  MaxInflight = 1
INVARIANTS
  PolicyHolds
  EnvelopeIsolated
  ReplyIsTrue
PROPERTIES
  DataEnds
