SPECIFICATION QuietSpec
CONSTANTS
  CHARACTER_ROM_SIZE = 2
  Erased = Erased
  Writes <- UploadUsed
  OldConfigs = {}
  Detected = {}
  RomxBanks = {}
  SwitchMoves = FALSE
  PowerFails = TRUE
INVARIANTS OnlyProgrammedFonts
