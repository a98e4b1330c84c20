SPECIFICATION FairSpec
CONSTANTS
  Props = {"n_leds", "color_mode"}
  MaxLeds = 1
  plain = plain
  odd = odd
  bad = bad
  Apps <- SomeApps
  Bad <- BadApps
  AppMode <- SomeModes
  Keep = Keep
  Wrong = {9}
  Boot <- LaterBoot
  QueueLen = 2
  MaxEvents = 1
  MaxWrites = 2
  MaxLoads = 2
INVARIANTS
  TypeOK
  InitNotLost
  LastQueuedWins
PROPERTIES
  AppModeWins
CHECK_DEADLOCK FALSE
