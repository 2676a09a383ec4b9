\* Three bytes against a window of two and a request that only dials, one break
\* or foreign helper, and behind each new channel a fresh helper or the old one.
CONSTANTS
  r1 = r1
  r2 = r2
  Request <- MCRequest
  MaxWrites <- MCMaxWrites
  Ends <- MCEnds
  CmdCap = 1
  Window = 2
  Chunk = 1
  DrainLimit = 2
  IdSpace = 4
  MaxBreaks = 1
  Foreign = {2}
  Survives = {TRUE, FALSE}
SPECIFICATION FairSpec
INVARIANTS StreamInv UpIsExact BufferedInOrder RequestOnce
PROPERTIES RequestServed
\* all requests may have ended
CHECK_DEADLOCK FALSE
