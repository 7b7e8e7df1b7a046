CONSTANTS
  Fd = {1, 2, 3, 4, 5}
  Holder = {h1, h2}
  AllocSize <- MCAllocSize
  Budgets = {0, 3}
  InitialCapacity = 1
  MaxUse = 4
  NoCall = NoCall
SPECIFICATION MCSpec
INVARIANTS
  Accounting
  RefsAreHeld
  WithinBudget
PROPERTIES
  EvictsLeastRecent
  CallsReturn
  PinsImplemented
CHECK_DEADLOCK FALSE
