\* Every start, and a tunnel at work with three host keys and two changes of a key
\* or of known_hosts, delays from 10 to 40.
CONSTANTS
  Digits <- MCDigits
  U16 = 65535
  GitPlatform <- MCGitPlatform
  Socket <- MCSocket
  Loopback <- MCLoopback
  Lookup <- MCLookup
  Key <- MCKey
  Algorithm <- MCAlgorithm
  Accepts <- MCAccepts
  AgentHolds <- MCAgentHolds
  MaxChanges = 2
  MaxAttempts = 3
  BackoffInitial = 10
  BackoffMax = 40
  Begin <- MCBegin
  Typed <- MCTyped
  Busy <- MCBusy
  MaxErrors = 6
SPECIFICATION Spec
INVARIANTS LaunchInv TrustInv
\* the program ends
CHECK_DEADLOCK FALSE
