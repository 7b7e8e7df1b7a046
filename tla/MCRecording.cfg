CONSTANTS
  Whole = 50
  U16Max = 3
  MaxCmds = 3
  AllocSize <- MCAllocSize
  Buffers <- MCBuffers
  Palette <- MCPalette
  Tables <- MCTables
SPECIFICATION Spec
INVARIANTS
  StreamIsComplete
  ExecutesAsRecorded
  DirectRangesExact
CHECK_DEADLOCK FALSE
