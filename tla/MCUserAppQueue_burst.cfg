SPECIFICATION FairSpec
CONSTANTS
  Cap = 3
  Burst = 0
  SaveOps = 1
  MaxErases = 1
  Commands <- FewCommands
  Nothing = Nothing
CHECK_DEADLOCK FALSE
PROPERTIES
  AllRequestsAreServed
