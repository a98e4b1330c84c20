SPECIFICATION Spec
CONSTANTS
  NRec = 2
  Programs <- OneProgram
  Default <- Dflt
  Blank <- Blk
  Crc <- SumCrc
  None = None
  MaxCmds = 5
  MaxCrashes = 0
  MaxRefusals = 0
  MaxFlashErrors = 0
CHECK_DEADLOCK FALSE
INVARIANTS
  SavedIsStored
