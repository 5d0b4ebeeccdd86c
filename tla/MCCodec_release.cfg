SPECIFICATION Spec
CONSTANTS
  Frames <- MCFrames
  Later <- MCLater
  Feeds = {0, 1, 3, 99}
  Rooms = {0, 1, 3, 99}
  MaxFrames = 2
  MagicSize = 2
  SizeField = 2
  minFHSize = 3
  BHSize = 2
  BFSize = 2
  KB64 = 2
  U64 = 64
  HeaderPrefix = 3
  BlockHeader = 2
  CheckSize = 2
  BlockSizeMax = 2
  WindowMin = 1
  WindowMax = 4
  Overlength = 2
  NoProgressMax = 3
  TooLargeFactor = 2
  TooLargeDuration = 1
INVARIANTS BuffersBounded
PROPERTIES IsStreamDecoder KeepsGoing
CHECK_DEADLOCK FALSE
