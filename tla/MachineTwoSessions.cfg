SPECIFICATION Spec
CONSTANTS
  Sessions = {w1, w2}
  OperatorIds = {o1}
  MachineIds = {m1}
  MaxTime = 0
  MaxAssignments = 0
  MaxVisits = 0
  SlotIds = {s1, s2, s3}
  SlotNumbers <- Numbers
  Capacities <- OneCapacity
  Details = {d1}
  Preferences <- NoValues
  Prices <- NoValues
  None = None
SYMMETRY Symmetry
INVARIANTS
  SlotNumbersAreUnique
