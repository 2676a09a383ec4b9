\* End of file and the last bytes.
CONSTANTS
  Stream <- MCStream
  MaxUp = 1
  MaxDown = 2
  Pipe = 1
  LocalCap = 1
  CmdCap = 3
  Window = 2
SPECIFICATION FairSpec
INVARIANTS EofMeansAll
CHECK_DEADLOCK FALSE
