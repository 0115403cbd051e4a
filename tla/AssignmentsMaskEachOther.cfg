SPECIFICATION Spec
CONSTANTS
  Sessions = {w1}
  OperatorIds = {o1, o2}
  MachineIds = {m1}
  MaxTime = 1
  MaxAssignments = 2
  MaxVisits = 1
  SlotIds <- NoValues
  SlotNumbers <- NoValues
  Capacities <- NoValues
  Details = {d1}
  Preferences <- NoValues
  Prices <- NoValues
  None = None
SYMMETRY Symmetry
INVARIANTS
  EffectiveAssignmentAdmits
