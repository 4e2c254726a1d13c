SPECIFICATION Spec
CONSTANTS
  TopRows = 2
  TextRows = 1
  RowLines = 2
  debounce_threshold = 7
  CrtcHigh = {7, 79}
  CrtcLow = {3, 240}
  Scenes <- Changes
  MaxChanged = 2
  None = None
INVARIANTS RowAgrees SwitchActsOnce
PROPERTIES SwitchFollows ReloadServed
