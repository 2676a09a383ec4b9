\* Every new channel meets a fresh helper process, as MuxDriver.supervise starts one.
CONSTANTS
  Byte <- MCByte
  Source <- MCSource
  Window = 3
  Chunk = 2
  MaxBreaks = 2
  HelperSurvives = FALSE
SPECIFICATION FairSpec
INVARIANTS FramesInOrder
PROPERTIES StreamPromise FinArrives
CHECK_DEADLOCK FALSE
