SPECIFICATION SessionSpec
CONSTANTS
  CHARACTER_ROM_SIZE = 2
  Erased = Erased
  Writes <- AllWrites
  OldConfigs <- OldFlash
  Detected = {1}
  RomxBanks = {}
  SwitchMoves = TRUE
  PowerFails = TRUE
INVARIANTS FlagsFollow DirectoryAgrees
PROPERTIES UploadExact OneSectorTorn TornSaveSafe
CONSTRAINT FewModes
