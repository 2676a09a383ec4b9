\* Three unreliable dials of the tunnel, shutdown at any time, reconnection on
\* or off, and the code's two replays.
CONSTANTS
  r1 = r1
  Request <- MCRequest
  Configs = {TRUE, FALSE}
  MayShutdown = TRUE
  MaxDials = 3
  MAX_REPLAYS = 2
SPECIFICATION FairDialSpec
INVARIANTS DialInv
PROPERTIES ReplayOnlyIfLost DialEnds
\* the request may have ended and the manager been shut down
CHECK_DEADLOCK FALSE
