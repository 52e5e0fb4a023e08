SPECIFICATION LauncherSpec
CONSTANTS
  Groups = {g1}
  NoGroup = NoGroup
  NUMTABLES = 1
  WAITLIST_LENGTH = 1
  SEMDEBUG = TRUE
  MaxFaults = 0
INVARIANT TimerMeansDeadlock
