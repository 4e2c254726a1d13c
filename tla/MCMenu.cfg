SPECIFICATION SessionSpec
CONSTANTS
  CHARACTER_ROM_SIZE = 2
  Erased = Erased
  Writes <- AllKeys
  OldConfigs = {}
  Detected = {0, 1}
  RomxBanks = {2}
  SwitchMoves = TRUE
  PowerFails = FALSE
INVARIANTS TypeOK MachineInEffect MenuTruthful RomFresh
PROPERTIES PowerOnRestores EscapeLeaves KeyActsOnMenu
CONSTRAINT Considered
VIEW Seen
