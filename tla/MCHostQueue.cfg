CONSTANTS
  t1 = t1
  t2 = t2
  b1 = b1
  b2 = b2
  b3 = b3
  c1 = c1
  c2 = c2
  sa = sa
  sb = sb
  Thread = {t1, t2}
  Buffer = {b1, b2, b3}
  CmdBuf = {c1, c2}
  Semaphore = {sa, sb}
  Fd = {1, 2, 3}
  None = None
  Programs <- MCPrograms
SPECIFICATION Spec
INVARIANTS
  CallersKeepBuffers
  MapsRegisteredMemory
  CommandsUseLiveBuffers
  WaitedForWorkIsDone
  NothingLeftBehind
PROPERTIES
  CallersFinish
CHECK_DEADLOCK FALSE
