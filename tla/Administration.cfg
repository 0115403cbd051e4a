SPECIFICATION Spec
CONSTANTS
  Sessions = {w1}
  OperatorIds = {o1, o2}
  MachineIds = {m1}
  MaxTime = 1
  MaxAssignments = 2
  MaxVisits = 1
  SlotIds = {s1, s2}
  SlotNumbers <- Numbers
  Capacities <- TwoCapacities
  Details = {d1, d2}
  Preferences = {p1}
  Prices = {x1}
  None = None
SYMMETRY Symmetry
CONSTRAINT OneConcern
INVARIANTS
  AccessTypeOK
PROPERTIES
  VisitsStartWithAccess
  DisabledIsFinal
  StatusMovesAsAllowed
  SlotsAreKept
  OneChangePerSave
