\* Length bytes below four, heads of at most 12 bytes read by five, two frames.
CONSTANTS
  LenMod = 4
  V4_LEN = 1
  V6_LEN = 2
  Port <- MCPort
  IpText <- MCIpText
  MAX_FRAME_PAYLOAD = 8
  MSG_MAX = 2
  Script <- MCScript
  User <- User1
  Pass <- Pass1
  RequestLine <- MCRequestLine
  Header <- MCHeader
  MAX_HEAD_BYTES = 12
  READ_CHUNK = 5
  AllowPatterns <- MCAllowPatterns
  SomeFrame <- MCSomeFrame
  Foreign <- MCForeign
  MaxFrames = 2
SPECIFICATION FairSpec
INVARIANTS ServedAsMeant PayloadIsExact FramesAsSent AllowedAsDocumented
PROPERTIES ConnectionEnds
\* a connection ends, and the end of an exchange is no deadlock
CHECK_DEADLOCK FALSE
