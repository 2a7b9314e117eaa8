\* Each of these is violated: leave one of them in to see its behaviour.
SPECIFICATION Spec
CONSTANTS
  Keys <- MCKeys
  Registers <- MCRegisters
  Tables <- MappingTables
  Ram <- MCRam
  ZeroRegisters <- Off
  TlbEntries = 4
  DreadEntries = 2
  GenLimit = 3
INVARIANTS
  NewMappingSeen
  BlocksNotice
CHECK_DEADLOCK FALSE
