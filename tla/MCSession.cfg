CONSTANTS
  Domain = {0, 1, 2, 3, 4}
  DefaultDomain = 3
  Path = {"", "3", "CDSP1", "9", "other"}
  DomainOf <- MCDomainOf
  NoDomain = 99999
  PathLengths = {3, 4, 15, 16, 40}
  FirstLinkSize = 4
  MaxLinkSize = 16
  HvxContexts = 4
  Workers = 3
  ConcurrencyOptions <- MCConcurrency
  BudgetOptions = {0, 1, 4}
  MiB = 4
  Exe = {e1, e2}
SPECIFICATION Spec
INVARIANTS
  TearDownIsComplete
  ReadyMeansConfigured
  HandlesStayLoaded
PROPERTIES
  CreationEnds
CHECK_DEADLOCK FALSE
