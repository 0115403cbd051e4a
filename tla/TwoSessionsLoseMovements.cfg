SPECIFICATION Spec
CONSTANTS
  Workers = {w1, w2}
  Replenishers = {rep}
  Administrators = {adm}
  Slots = {s1}
  Products = {p1}
  MaxQty = 1
  InventoryKeys = {k1}
  VisitKeys = {v1}
  LineIds = {l1, l2}
  None = None
  Capacity <- AnyUnits
  LineRequests <- UnitLines
  MaxVersion = 4
  InventoryRequests <- AssignOrLose
SYMMETRY Symmetry
INVARIANTS
  CompletedLinesArePosted
