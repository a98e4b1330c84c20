SPECIFICATION FairSpec
CONSTANTS
  Cap = 4
  Burst = 1
  SaveOps = 1
  MaxErases = 1
  Commands <- EachCommand
  Nothing = Nothing
CHECK_DEADLOCK FALSE
INVARIANTS
  RoomForAll
  HeapBalanced
PROPERTIES
  RequestsAreServed
