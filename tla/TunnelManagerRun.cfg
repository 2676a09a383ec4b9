\* Two requests, three unreliable dials, shutdown at any time, reconnection
\* configured on or off.
CONSTANTS
  r1 = r1
  r2 = r2
  Request <- MCRequest
  Configs = {TRUE, FALSE}
  MayShutdown = TRUE
  MaxDials = 3
SPECIFICATION FairSpec
INVARIANTS ManagerInv
PROPERTIES RequestEnds Heals SupervisorStops FailureIsFinal
\* after shutdown there is nothing left to do
CHECK_DEADLOCK FALSE
