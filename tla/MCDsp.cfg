SPECIFICATION Spec
CONSTANTS
  Thread = {t1, t2, t3}
  NumRecords = 2
  MaxMeasurements = 6
  none = none
  Buf = {b1, b2}
  Exec = {e1, e2}
  MaxVersion = 3
  NoLine = NoLine
SYMMETRY Symmetry
INVARIANTS
  IndexMatches
  HostView
  CommandsSeeLatest
  HostSeesLatest
PROPERTIES
  RecordsStayOwned
CHECK_DEADLOCK FALSE
