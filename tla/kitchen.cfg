SPECIFICATION Spec
CONSTANTS
  Groups = {g1, g2, g3}
  NoGroup = NoGroup
  NUMTABLES = 3
  WAITLIST_LENGTH = 3
CONSTRAINT UntilMealsEnd
SYMMETRY GroupSymmetry
INVARIANT ChefFreeWhenInformed
PROPERTY ImplementsKitchen
