SPECIFICATION Spec
CONSTANTS
  f1 = f1
  f2 = f2
  f3 = f3
  All = All
  BadRef = BadRef
  Fd = {f1, f2, f3}
  AllocSize <- Sizes
  Budget = 2
  MaxConcurrent = 2
  VtcmPool = 3
  MaxLen = 3
  Programs <- MCPrograms
INVARIANTS
  CompletionsMatch
  PartitionsSound
  PinnedByWork
  NoBarrierCrossed
  GivesUpOnlyOversized
PROPERTIES
  Terminates
  StreamImplemented
CHECK_DEADLOCK FALSE
