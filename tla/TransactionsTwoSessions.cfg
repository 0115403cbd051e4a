SPECIFICATION FairSpec
CONSTANTS
  Workers = {w1, w2}
  Replenishers = {rep}
  Administrators = {adm}
  Slots = {s1}
  Products = {p1}
  MaxQty = 2
  InventoryKeys = {k1}
  VisitKeys = {v1}
  LineIds = {l1, l2}
  None = None
  Capacity <- OneUnit
  LineRequests <- UnitLoads
  MaxVersion = 4
  InventoryRequests <- AssignSome
INVARIANTS
  StockIsLedgerSum
PROPERTIES
  LedgerIsAppendOnly
  EveryRequestEnds
