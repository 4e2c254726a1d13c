SPECIFICATION PacedSpec
CONSTANTS
  Buffers = {b1, b2, b3, b4, b5}
  NoBuf = NoBuf
  QueueSize = 5
  CellRepeat = 2
  TextRows = 2
  MixedRows = 1
  VidexGlyphLines = 10
  Border = 2
  VFrontPorch = 1
  VSyncWidth = 1
  VBackPorch = 1
  MaxLate = 5
  Pace = 2
  RecoveryFrames = 2
SYMMETRY BufferSymmetry
INVARIANTS TypeOK FreeQueueHasRoom NoTearing InItsRow FullFrame PacedInductive
PROPERTIES ShownOrLate Recovered
