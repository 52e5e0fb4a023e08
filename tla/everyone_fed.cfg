SPECIFICATION FairSpec
CONSTANTS
  Groups = {g1, g2}
  NoGroup = NoGroup
  NUMTABLES = 2
  WAITLIST_LENGTH = 2
PROPERTIES
  Termination
  ImplementsFairKitchen
