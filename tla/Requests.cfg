SPECIFICATION Spec
CONSTANTS
  rep = rep
  adm = adm
  s1 = s1
  p1 = p1
  v1 = v1
  k1 = k1
  k2 = k2
  Replenishers = {rep}
  Administrators = {adm}
  Slots = {s1}
  Products = {p1}
  MaxQty = 2
  InventoryKeys = {k1, k2, k3}
  VisitKeys = {v1}
  LineIds = {l1, l2}
  None = None
  Capacity <- OneUnit
  LineRequests <- Line
  MaxVersion = 5
  InventoryRequests <- InventoryMovements
  Commands <- ClientCommands
  MaxExpired = 1
SYMMETRY Symmetry
INVARIANTS
  RequestsTypeOK
  AtMostOneEffect
  OneAnswerPerRequest
  AnswersHold
PROPERTIES
  ImplementsOutcomes
