CONSTANTS
  a1 = a1
  a2 = a2
  bad = bad
  Apps = {a1, a2, bad}
  Valid = {a1, a2}
  Boot = {a1, bad}
  Slots <- MCSlots
  MaxPers = 1
  MaxSlots = 1
  HvnSize = 2
  MaxWrites = 2
  MaxConfigs = 1
  MaxConns = 1
SPECIFICATION ServiceSpec
INVARIANTS
  ServiceTypeOK
  InfoIsOneApp
PROPERTY
  AnswersAreOfShownApp
CHECK_DEADLOCK FALSE
