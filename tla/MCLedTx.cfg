SPECIFICATION FairSpec
CONSTANTS
  LastNumber = 3
  NoBuffer = NoBuffer
CHECK_DEADLOCK FALSE
INVARIANTS
  WireIsWhole
  WaitMeansSent
PROPERTIES
  FramesInOrder
  InputsReachTheStrip
