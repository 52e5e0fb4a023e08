SPECIFICATION LauncherSpec
CONSTANTS
  Groups = {g1}
  NoGroup = NoGroup
  NUMTABLES = 1
  WAITLIST_LENGTH = 1
  SEMDEBUG = FALSE
  MaxFaults = 0
INVARIANT WaitsForEntities
