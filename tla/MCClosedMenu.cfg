SPECIFICATION Spec
CONSTANTS
  FifoDepth = 4
  Backlog = 3
  MaxOverflow = 2
  None = None
INVARIANT EscCloses
