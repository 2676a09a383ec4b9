\* One stream, one break survived, the egress peer may close first.
CONSTANTS
  Byte <- MCByte
  Source <- MCSource
  Chunk = 2
  Queue = 1
  AckBytes = 2
  MaxBreaks = 1
  EgressCloses = TRUE
SPECIFICATION Spec
INVARIANTS HelperInv
CHECK_DEADLOCK FALSE
