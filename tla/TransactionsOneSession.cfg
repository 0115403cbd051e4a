SPECIFICATION Spec
CONSTANTS
  Workers = {w1}
  Replenishers = {rep}
  Administrators = {adm}
  Slots = {s1}
  Products = {p1, p2}
  MaxQty = 2
  InventoryKeys = {k1, k2}
  VisitKeys = {v1}
  LineIds = {l1, l2}
  None = None
  Capacity <- AnyUnits
  LineRequests <- Line
  MaxVersion = 6
  InventoryRequests <- AssignOrReturn
INVARIANTS
  TypeOK
  NonNegativeStock
  StockIsLedgerSum
  VisitsMatchLedger
PROPERTIES
  PostingIsAtomic
  ClosedVisitsAreFinal
  LinesAreKept
  SavesAdvanceVersion
  ImplementsService
