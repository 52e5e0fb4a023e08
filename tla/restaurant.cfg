SPECIFICATION Spec
CONSTANTS
  Groups = {g1, g2, g3}
  NoGroup = NoGroup
  NUMTABLES = 2
  WAITLIST_LENGTH = 4
SYMMETRY GroupSymmetry
INVARIANTS
  TypeOK
  MutualExclusion
  RequestSlotsExclusive
  TablesConsistent
  OrderInOnePlace
  AckMatchesOrder
  ReceiptsBalance
  TableReadIsCurrent
  ReceiptComesWhereAwaited
  WaiterQueueFits
  ServersServeAll
PROPERTY TableKeptUntilBill
