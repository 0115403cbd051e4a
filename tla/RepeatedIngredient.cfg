SPECIFICATION SalesSpec
CONSTANTS
  SaleSlots = {s1}
  Ingredients = {i1, i2}
  MaxAmount = 2
  MaxEntries = 2
  MaxCoffeeSales = 1
  MaxSnackSales = 0
CHECK_DEADLOCK FALSE
INVARIANTS
  ConsumptionIsComplete
