\* Each of these scenes has its own violation: LargerScenes and RaceScenes of
\* FinishedStays, ImportScenes of ReadyIsWhole, EmptyScenes of Prepared,
\* LossScenes of ToldKept.
CONSTANTS
  e1 = e1
  e2 = e2
  Engines = {e1, e2}
  GROWTH = 1
  Scenes <- LargerScenes
SPECIFICATION FairSpec
INVARIANTS
  ReadyIsWhole
  ToldKept
PROPERTIES
  FinishedStays
  Prepared
