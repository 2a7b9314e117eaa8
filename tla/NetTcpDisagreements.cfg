\* Each of these is violated: leave one of them in to see its behaviour.
SPECIFICATION LinkSpec
CONSTANTS
  InputSegments = {}
  NET_TCP_TXBUF = 2
  NET_TCP_RXBUF = 2
  NET_OUT_SLOTS = 2
  NET_TCP_RTX_MAX = 1
  MSS = 1
  ISS_STRIDE = 10
  HostLen = 2
  HostStalls = TRUE
  HostFails = TRUE
  HostTalksEarly = TRUE
  HandshakeTimesOut = TRUE
  GuestLen = 1
  GuestBuf = 1
  GuestCloses = TRUE
  GuestAborts = FALSE
  FinWithData = TRUE
  LineSlots = 2
  MaxSyns = 2
  MaxResends = 0
  MaxLosses = 1
INVARIANTS
  GuestStreamIntact
  CleanCloseComplete
  SynCounted
  EstablishedMeansConnected
CHECK_DEADLOCK FALSE
