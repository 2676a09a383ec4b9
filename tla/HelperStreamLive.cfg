\* Progress with an egress peer that reads.
CONSTANTS
  Byte <- MCByte
  Source <- MCSource
  Chunk = 2
  Queue = 1
  AckBytes = 2
  MaxBreaks = 0
  EgressCloses = FALSE
SPECIFICATION FairSpec
INVARIANTS NoSilentCut SocketIsLeading
PROPERTIES EgressPromise TakenIsConfirmed PingAnswered
CHECK_DEADLOCK FALSE
