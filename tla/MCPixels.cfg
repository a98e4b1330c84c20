CONSTANTS
  c1 = c1
  c2 = c2
  MaxLeds = 2
  ResetLen = 2
  LedLen = 2
  Size = 8
  Colours = {c1, c2}
  Black = Black
  NoColour = NoColour
  Low = Low
  Commands <- MCCommands
  MaxCommands = 2
  MaxChanges = 1
SPECIFICATION FairPixelsSpec
INVARIANTS
  PixelsTypeOK
  FrameIsWhole
  ColoursAreRead
  CommandsDoAsSaid
PROPERTY
  StripSettles
