SPECIFICATION LinkSpec
CONSTANTS
  InputSegments = {}
  NET_TCP_TXBUF = 2
  NET_TCP_RXBUF = 2
  NET_OUT_SLOTS = 2
  NET_TCP_RTX_MAX = 2
  MSS = 2
  ISS_STRIDE = 10
  HostLen = 2
  HostStalls = FALSE
  HostFails = TRUE
  HostTalksEarly = TRUE
  HandshakeTimesOut = TRUE
  GuestLen = 1
  GuestBuf = 1
  GuestCloses = TRUE
  GuestAborts = FALSE
  FinWithData = TRUE
  LineSlots = 2
  MaxSyns = 2
  MaxResends = 1
  MaxLosses = 1
INVARIANTS
  TxbufAtSndUna
  SentWithinWindow
  ClosedMeansBothEnded
PROPERTIES
  ReliableToGuest
CHECK_DEADLOCK FALSE
