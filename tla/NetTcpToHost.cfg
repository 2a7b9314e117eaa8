SPECIFICATION LinkSpec
CONSTANTS
  InputSegments = {}
  NET_TCP_TXBUF = 2
  NET_TCP_RXBUF = 2
  NET_OUT_SLOTS = 2
  NET_TCP_RTX_MAX = 1
  MSS = 1
  ISS_STRIDE = 10
  HostLen = 0
  HostStalls = TRUE
  HostFails = FALSE
  HostTalksEarly = FALSE
  HandshakeTimesOut = FALSE
  GuestLen = 3
  GuestBuf = 2
  GuestCloses = TRUE
  GuestAborts = FALSE
  FinWithData = TRUE
  LineSlots = 3
  MaxSyns = 1
  MaxResends = 2
  MaxLosses = 1
PROPERTIES
  ReliableToHost
CHECK_DEADLOCK FALSE
