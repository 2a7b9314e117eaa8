SPECIFICATION DeadlineFairSpec
CONSTANTS
  InputSegments = {}
  NET_TCP_TXBUF = 2
  NET_TCP_RXBUF = 2
  NET_OUT_SLOTS = 1
  NET_TCP_RTX_MAX = 1
  MSS = 1
  ISS_STRIDE = 10
  HostLen = 2
  HostStalls = TRUE
  HostFails = FALSE
  HostTalksEarly = FALSE
  HandshakeTimesOut = TRUE
  GuestLen = 1
  GuestBuf = 1
  GuestCloses = TRUE
  GuestAborts = TRUE
  FinWithData = FALSE
  LineSlots = 2
  MaxSyns = 1
  MaxResends = 0
  MaxLosses = 1
PROPERTIES
  Settles
  ClosesEventually
CHECK_DEADLOCK FALSE
