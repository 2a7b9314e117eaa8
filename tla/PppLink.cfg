SPECIFICATION FairLinkSpec
CONSTANTS
  PPP_MAX_CONFIGURE = 6
  PPP_MAX_TERMINATE = 1
  PPP_MAX_FAILURE = 5
  ID_COUNT = 16
  TX_FRAMES = 8
  LocalIp = 5
  RemoteIp = 6
  Magic = 2
  GuestIp = 0
  GuestMagic = 4
  MaxLosses = 2
  MaxHasty = 1
  EarlyInput = FALSE
  Closes = FALSE
  Reopens = FALSE
  InputFrames = {}
INVARIANTS
  AddressAgreed
PROPERTIES
  ComesUp
CHECK_DEADLOCK FALSE
