\* Queues and pipes of one frame; a client that reads whatever it writes.
CONSTANTS
  Id <- MCId
  Denied <- MCId
  MAX_STREAMS = 1
  FRAME_QUEUE = 1
  DOWNLINK_QUEUE = 1
  EventQueue = 2
  PipeCap = 1
  MaxIn = 3
  Talks = {2}
  MaxUp = 1
  IdleTimeout = TRUE
  ClientWaits = FALSE
SPECIFICATION FairSpec
INVARIANTS SessionInv
PROPERTIES  OpenAnswered
\* the process leaves
CHECK_DEADLOCK FALSE
