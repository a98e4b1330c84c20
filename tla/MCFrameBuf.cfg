CONSTANTS
  NBytes = 4
  NFrames = 3
  Bytes = {x, y}
SPECIFICATION BufSpec
INVARIANT LengthsAddUp
PROPERTY ImplementsFrameQueue
SYMMETRY AnyByte
