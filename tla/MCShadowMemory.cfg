SPECIFICATION Spec
CONSTANTS
  CHARACTER_ROM_SIZE = 2
  Erased = Erased
  VideoRam = {}
  Shadow <- MemoryCells
  Words <- MemoryWords
  Saved <- AppleIIe
PROPERTIES ImplementsDisplayMemory
