\* The helper process outlives the channel: Resume realigns both sides.
CONSTANTS
  Byte <- MCByte
  Source <- MCSource
  Window = 3
  Chunk = 2
  MaxBreaks = 2
  HelperSurvives = TRUE
SPECIFICATION FairSpec
INVARIANTS ByteExact ReleasedIsDelivered ResumeIsPossible LinkInv
PROPERTIES EveryByteArrives
\* the stream ends, and an ended stream does nothing
CHECK_DEADLOCK FALSE
