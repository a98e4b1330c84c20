SPECIFICATION Spec
CONSTANTS
  Props = {"n_leds"}
  MaxLeds = 1
  plain = plain
  odd = odd
  bad = bad
  Apps <- PlainApp
  Bad <- NoApps
  Boot <- FirstBoot
  AppMode <- PlainMode
  Keep = Keep
  Wrong = {}
  QueueLen = 2
  MaxEvents = 2
  MaxWrites = 3
  MaxLoads = 1
INVARIANTS
  RestIsDark
