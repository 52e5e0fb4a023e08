SPECIFICATION FairSpec
CONSTANTS
  Groups = {g1, g2}
  NoGroup = NoGroup
  NUMTABLES = 1
  WAITLIST_LENGTH = 2
INVARIANT NothingLeftOver
PROPERTIES
  Termination
  ImplementsFairSeating
