SPECIFICATION LoopSpec
CONSTANTS
  PPP_MAX_CONFIGURE = 3
  PPP_MAX_TERMINATE = 1
  PPP_MAX_FAILURE = 2
  ID_COUNT = 4
  TX_FRAMES = 3
  LocalIp = 5
  RemoteIp = 6
  Magic = 2
  EarlyInput = FALSE
  Closes = FALSE
  Reopens = FALSE
  InputFrames <- PlainGuest
PROPERTIES
  LoopEnds
CHECK_DEADLOCK FALSE
