SPECIFICATION FairSpec
CONSTANTS
  Buffers = {b1, b2, b3, b4}
  NoBuf = NoBuf
  QueueSize = 4
  CellRepeat = 2
  TextRows = 2
  MixedRows = 1
  VidexGlyphLines = 10
  Border = 2
  VFrontPorch = 1
  VSyncWidth = 1
  VBackPorch = 1
  MaxLate = 2
PROPERTIES FramesFinish ImplementsFairStream
