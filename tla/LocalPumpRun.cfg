\* A command queue with room for all an application writes, its end and its close.
CONSTANTS
  Stream <- MCStream
  MaxUp = 3
  MaxDown = 2
  Pipe = 1
  LocalCap = 1
  CmdCap = 5
  Window = 2
SPECIFICATION FairSpec
INVARIANTS PumpInv
PROPERTIES DeliverEnds EndIsTold
CHECK_DEADLOCK FALSE
