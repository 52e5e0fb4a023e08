SPECIFICATION LogSpec
CONSTANTS
  Groups = {g1, g2, g3}
  NoGroup = NoGroup
  NUMTABLES = 1
  WAITLIST_LENGTH = 4
SYMMETRY GroupSymmetry
INVARIANT LogLineIsAState
