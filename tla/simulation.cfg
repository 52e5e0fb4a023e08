SPECIFICATION FairLauncherSpec
CONSTANTS
  Groups = {g1}
  NoGroup = NoGroup
  NUMTABLES = 1
  WAITLIST_LENGTH = 1
  SEMDEBUG = TRUE
  MaxFaults = 1
INVARIANTS
  LauncherTypeOK
  StartsTogether
  SetOutlivesEntities
  SuccessMeansServed
PROPERTY EndsClean
