SPECIFICATION Spec
CONSTANTS
  Keys <- MCKeys
  Registers <- MCRegisters
  Tables <- MCTables
  Ram <- MCRam
  ZeroRegisters <- Off
  TlbEntries = 2
  DreadEntries = 2
  GenLimit = 3
INVARIANTS
  TranslationFresh
  BlocksFresh
