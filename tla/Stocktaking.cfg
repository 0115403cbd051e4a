SPECIFICATION Spec
CONSTANTS
  PeriodIds = {q1, q2, q3}
  Positions = {pos1, pos2}
  MaxUnits = 1
  None = None
  CountIds = {c1}
  Products = {p1, p2}
  MaxFigure = 2
  MaxRecorded = 3
  SaleSlots = {s1, s2}
  Ingredients = {i1, i2}
  MaxAmount = 2
  MaxEntries = 2
  MaxCoffeeSales = 1
  MaxSnackSales = 3
CHECK_DEADLOCK FALSE
INVARIANTS
  PeriodsTypeOK
  PeriodsFollowOn
  SlotsBalance
  CountsTypeOK
  LastFiguresCount
  SalesTypeOK
  SalesFollowRecipes
  SnackSalesAddUp
PROPERTIES
  ClosedPeriodsAreFinal
