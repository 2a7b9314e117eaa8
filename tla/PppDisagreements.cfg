\* Each of these is violated: leave one of them in to see its behaviour.
SPECIFICATION Spec
CONSTANTS
  PPP_MAX_CONFIGURE = 2
  PPP_MAX_TERMINATE = 1
  PPP_MAX_FAILURE = 1
  ID_COUNT = 2
  TX_FRAMES = 1
  LocalIp = 5
  RemoteIp = 6
  Magic = 2
  EarlyInput = FALSE
  Closes = TRUE
  Reopens = FALSE
  InputFrames <- EveryGuest
INVARIANTS
  NetworkAfterLink
  AssignedWhileOpen
  ConfigUntouched
  NegotiatesOnlyOpened
PROPERTIES
  AckRcvdRetransmits
  RequestsShrink
