CONSTANTS
  e1 = e1
  Engines <- MCEngines
  MAX_RETIRED = 2
SPECIFICATION FairSpec
INVARIANTS
  Ownership
  EndToldTruly
  OneChunkAfterStop
PROPERTIES
  TransitionsEnd
