CONSTANTS
  Whole = 50
  U16Max = 3
  MaxCmds = 3
  AllocSize <- MCAllocSize
  Buffers <- MCBuffers
  Palette <- MCFillsWhole
  Tables <- MCTables
SPECIFICATION Spec
INVARIANTS
  FillStaysInBinding
CHECK_DEADLOCK FALSE
