SPECIFICATION Spec
CONSTANTS
  MaxChannel = 1
  MaxSlots = 2
  MaxCount = 2
  Stored <- FirstBoot
  Missing = Missing
  None = None
  FrameLens = {2, 3, 4}
  FrameBufLen = 1
  QueueLen = 1
  BufAtBoot = TRUE
  MaxFrames = 2
  MaxWrites = 1
INVARIANTS
  ValuesOfOneFrame
CHECK_DEADLOCK FALSE
