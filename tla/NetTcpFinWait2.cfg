SPECIFICATION FairLinkSpec
CONSTANTS
  InputSegments = {}
  NET_TCP_TXBUF = 2
  NET_TCP_RXBUF = 2
  NET_OUT_SLOTS = 2
  NET_TCP_RTX_MAX = 1
  MSS = 1
  ISS_STRIDE = 10
  HostLen = 0
  HostStalls = FALSE
  HostFails = FALSE
  HostTalksEarly = FALSE
  HandshakeTimesOut = FALSE
  GuestLen = 0
  GuestBuf = 2
  GuestCloses = FALSE
  GuestAborts = FALSE
  FinWithData = FALSE
  LineSlots = 2
  MaxSyns = 1
  MaxResends = 0
  MaxLosses = 0
PROPERTIES
  FinWait2SlotGoesBack
CHECK_DEADLOCK FALSE
