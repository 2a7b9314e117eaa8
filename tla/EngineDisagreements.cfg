\* Each of these is violated: leave one of them in to see its behaviour.
CONSTANTS
  e1 = e1
  Engines <- MCEngines
  MAX_RETIRED = 1
SPECIFICATION Spec
INVARIANTS
  PausedSaysSo
  NoteIsCurrent
  FirmwareClaimTrue
