SPECIFICATION ProgramSpec
CONSTANTS
  CHARACTER_ROM_SIZE = 2
  Erased = Erased
  VideoRam <- VidexCells
  Shadow = {}
  Words <- AllWords
  Saved <- AllConfigs
  MaxLog = 6
INVARIANTS LocksHold Video7Mode
PROPERTIES ResetExact RomxOpens RomxFont VidexWindow
CHECK_DEADLOCK FALSE
