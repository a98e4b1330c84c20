SPECIFICATION Spec
CONSTANTS
  MaxChannel = 1
  MaxSlots = 1
  MaxCount = 2
  Stored <- FirstBoot
  Missing = Missing
  None = None
  FrameLens = {3}
  FrameBufLen = 1
  QueueLen = 1
  BufAtBoot = TRUE
  MaxFrames = 0
  MaxWrites = 0
INVARIANTS
  SubscribersKnowConfig
CHECK_DEADLOCK FALSE
