CONSTANTS
  old = old
  new = new
  Values <- MCValues
  MaxRecords = 8
  BLOCK_COUNT = 2
  SNAPSHOTS = 2
  IoFails = FALSE
  Crashes = FALSE
SPECIFICATION RearmSpec
SYMMETRY Symmetry
INVARIANTS
  MachineAttached
