SPECIFICATION FairSpec
CONSTANTS
  NRec = 2
  Programs <- OneProgram
  Default <- Dflt
  Blank <- Blk
  Crc <- SumCrc
  None = None
  MaxCmds = 5
  MaxCrashes = 1
  MaxRefusals = 1
  MaxFlashErrors = 1
CHECK_DEADLOCK FALSE
INVARIANTS
  OnlyWholeProgramsRun
  NoStaleReport
  SavedIsDurable
PROPERTIES
  ImplementsProgramStore
  BootRestoresSaved
  CommitEnds
