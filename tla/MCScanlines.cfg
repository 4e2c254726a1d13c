SPECIFICATION Spec
CONSTANTS
  Cols = 40
  TextLines = {0, 7, 8, 23}
  HiresLines = {0, 7, 63, 64, 191}
  HighBits <- Patterns
INVARIANTS DotsInPlace RegisterFits LineExact DgrColorsAgree
