SPECIFICATION Spec
CONSTANTS
  Groups = {g1, g2, g3}
  NoGroup = NoGroup
  NUMTABLES = 2
  WAITLIST_LENGTH = 4
SYMMETRY GroupSymmetry
INVARIANT PaidBeforeLeaving
