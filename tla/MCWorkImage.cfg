CONSTANTS
  e1 = e1
  e2 = e2
  Engines = {e1, e2}
  GROWTH = 1
  Scenes <- MCScenes
SPECIFICATION FairSpec
INVARIANTS
  ReadyIsWhole
  PublishedWhole
  Kept
PROPERTIES
  FinishedStays
  Prepared
