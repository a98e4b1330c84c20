SPECIFICATION FairSpec
CONSTANTS
  MaxChannel = 1
  MaxSlots = 1
  MaxCount = 2
  Stored <- AnyBoot
  Missing = Missing
  None = None
  FrameLens = {2}
  FrameBufLen = 1
  QueueLen = 1
  BufAtBoot = FALSE
  MaxFrames = 2
  MaxWrites = 2
INVARIANTS
  TypeOK
  SubscribersAgree
PROPERTIES
  FreshConfig
  InputsAreServed
CHECK_DEADLOCK FALSE
