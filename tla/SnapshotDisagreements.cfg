\* Each of these is violated: leave one of them in to see its behaviour.
CONSTANTS
  old = old
  new = new
  Values <- MCValues
  MaxRecords = 8
  BLOCK_COUNT = 2
  SNAPSHOTS = 2
  IoFails = TRUE
  Crashes = TRUE
SPECIFICATION Spec
SYMMETRY Symmetry
INVARIANTS
  SavedFirst
  AllRestorable
  ErrorMeansNoProgress
