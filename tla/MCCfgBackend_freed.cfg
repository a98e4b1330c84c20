SPECIFICATION Spec
CONSTANTS
  p1 = p1
  p2 = p2
  v1 = v1
  v2 = v2
  t1 = t1
  t2 = t2
  s1 = s1
  Garbage = Garbage
  None = None
  Params <- OneParam
  Values <- TwoValues
  Tasks <- TwoTasks
  Subs <- OneSub
  FdsPrompt = TRUE
  MaxSets = 2
  MaxCrashes = 0
  MaxNoSpace = 0
CHECK_DEADLOCK FALSE
INVARIANTS
  FlashHoldsSetValues
