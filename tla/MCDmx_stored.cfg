SPECIFICATION Spec
CONSTANTS
  MaxChannel = 1
  MaxSlots = 1
  MaxCount = 2
  Stored <- LaterBoot
  Missing = Missing
  None = None
  FrameLens = {3}
  FrameBufLen = 1
  QueueLen = 1
  BufAtBoot = TRUE
  MaxFrames = 1
  MaxWrites = 0
PROPERTIES
  ConfigInForce
CHECK_DEADLOCK FALSE
