SPECIFICATION FairSpec
CONSTANTS
  p1 = p1
  p2 = p2
  v1 = v1
  v2 = v2
  t1 = t1
  t2 = t2
  s1 = s1
  Garbage = Garbage
  None = None
  Params <- TwoParams
  Values <- TwoValues
  Tasks <- TwoTasks
  Subs <- OneSub
  FdsPrompt = TRUE
  MaxSets = 2
  MaxCrashes = 1
  MaxNoSpace = 1
CHECK_DEADLOCK FALSE
INVARIANTS
  LastSetWins
  SubscribersKnow
PROPERTIES
  ChangesAreStored
