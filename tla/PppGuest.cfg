SPECIFICATION FairSpec
CONSTANTS
  PPP_MAX_CONFIGURE = 2
  PPP_MAX_TERMINATE = 2
  PPP_MAX_FAILURE = 1
  ID_COUNT = 2
  TX_FRAMES = 1
  LocalIp = 5
  RemoteIp = 6
  Magic = 2
  EarlyInput = TRUE
  Closes = TRUE
  Reopens = FALSE
  InputFrames <- ClosingGuest
PROPERTIES
  SilenceSettles
INVARIANTS
  AssignedWhileOpen
  TimerRuns
  NetworkAfterLink
