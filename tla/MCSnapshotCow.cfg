CONSTANTS
  old = old
  new = new
  Values <- MCValues
  MaxRecords = 3
  BLOCK_COUNT = 2
  SNAPSHOTS = 3
  IoFails = TRUE
  Crashes = TRUE
SPECIFICATION Spec
SYMMETRY Symmetry
CONSTRAINT FewRecords
INVARIANTS
  Restorable
  RestoreExact
