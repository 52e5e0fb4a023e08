SPECIFICATION LayoutSpec
CONSTANTS
  MAXGROUPS = 16
  NUMTABLES = 2
INVARIANTS
  NumbersPartitionSet
  NamesInvertNumbers
