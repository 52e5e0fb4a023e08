SPECIFICATION EventLogSpec
CHECK_DEADLOCK FALSE
CONSTANTS
  MAX_EVENTS = 3
  MaxOperations = 7
INVARIANTS
  TypeOK
  RingHoldsLast
  ReportOfBlockedIsExact
