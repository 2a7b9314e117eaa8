\* Each of these is violated: leave one of them in to see its behaviour.
CONSTANTS
  a = a
  b = b
  t = t
  Udp <- MCUdp
  Tcp <- MCTcp
  NET_MAX_FLOWS = 2
  NET_OUT_SLOTS = 2
  NET_UDP_IDLE_MS = 1
  GUARD = 2
  MAX_REQUESTS = 3
  MAX_SENT = 2
  SocketsFail = FALSE
  Bounces = TRUE
SPECIFICATION Spec
PROPERTIES
  TakenIsDelivered
  BounceNotFatal
