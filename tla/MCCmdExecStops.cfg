SPECIFICATION Spec
CONSTANTS
  f1 = f1
  f2 = f2
  f3 = f3
  All = All
  BadRef = BadRef
  Fd = {f1, f2, f3}
  AllocSize <- Sizes
  Budget = 2
  MaxConcurrent = 2
  VtcmPool = 3
  MaxLen = 3
  Programs <- WaitsForVtcm
PROPERTY NoStartAfterFailure
CHECK_DEADLOCK FALSE
