SPECIFICATION Spec
CONSTANTS
  Groups = {g1, g2, g3, g4}
  NoGroup = NoGroup
  NUMTABLES = 1
  WAITLIST_LENGTH = 5
SYMMETRY GroupSymmetry
INVARIANTS
  TableRequestInOnePlace
  NoIdleTable
  WaitlistWithinRecord
  NoBugTrap
  WaiterQueueFits
PROPERTY ImplementsSeating
