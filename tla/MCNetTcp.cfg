SPECIFICATION Spec
CONSTANTS
  NET_TCP_TXBUF = 2
  NET_TCP_RXBUF = 2
  NET_OUT_SLOTS = 1
  NET_TCP_RTX_MAX = 1
  MSS = 1
  ISS_STRIDE <- MCStride
  HostLen = 2
  InputSegments <- MCSegments
  HostStalls = TRUE
  HostFails = TRUE
  HostTalksEarly = TRUE
  HandshakeTimesOut = TRUE
VIEW QueueLengthView
CONSTRAINT OneConnection
INVARIANTS
  NoSilentStall
  AckedOctetsKept
  HalfCloseAfterFlush
