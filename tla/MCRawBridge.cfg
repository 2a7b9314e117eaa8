CONSTANTS
  k1 = k1
  k2 = k2
  u1 = u1
  u2 = u2
  Keys <- MCKeys
  Uios <- MCUios
  MEDIA = 2
  MD_RAW_BRIDGE_MAX_TRANSFER = 2
  SLOTS = 2
  MAX_REQUESTS = 2
  VM_BLOCK_MAX_CALLBACK_BYTES = 2
  VM_BLOCK_NO_PROGRESS_LIMIT = 2
SPECIFICATION Spec
SYMMETRY Alike
INVARIANTS
  SlotsOwned
  SegmentRestored
PROPERTIES
  TransfersEnd
  ImplementsRawDisk
CHECK_DEADLOCK FALSE
