-------------------------------- MODULE Sales --------------------------------
(***************************************************************************)
(* Sales of machines (domain/sales, application/sales).  A snack sale is   *)
(* known by slot; a coffee sale consumes what the recipe of its selection  *)
(* names.  Registering a sale returns it and changes nothing else: the     *)
(* sales that were returned are kept here.                                 *)
(***************************************************************************)
EXTENDS Integers, SequencesExt, FunctionUpdates

CONSTANTS
  SaleSlots,
  Ingredients,
  MaxAmount,        \* bound: units sold at once, and of an ingredient in a recipe
  MaxEntries,       \* bound: entries of a recipe
  MaxCoffeeSales,   \* bounds: sales registered
  MaxSnackSales

ASSUME SalesAssumption ==
  /\ MaxAmount \in Nat \ {0} /\ MaxEntries \in Nat
  /\ MaxCoffeeSales \in Nat /\ MaxSnackSales \in Nat

ASSUME FiniteSlotsAssumption == IsFiniteSet(SaleSlots)

VARIABLES
  snackSales,   \* the snack sales registered
  coffeeSales   \* the coffee sales registered, each with what the caller passed

saleVars == <<snackSales, coffeeSales>>

Amounts == 1..MaxAmount
SnackSale == [slot : SaleSlots, quantity : Amounts]

\* A recipe lists its ingredients; nothing keeps it from naming one twice.
Ingredient == [product : Ingredients, amount : Amounts]
Recipe == UNION {[1..n -> Ingredient] : n \in 1..MaxEntries}

\* The stock the caller knows of; an ingredient it does not know of is not checked.
KnownStock == UNION {[known -> 0..(MaxAmount * MaxAmount)] : known \in SUBSET Ingredients}

SalesTypeOK ==
  /\ snackSales \in Seq(SnackSale)
  /\ \A i \in DOMAIN coffeeSales :
       /\ coffeeSales[i].recipe \in Recipe
       /\ coffeeSales[i].quantity \in Amounts
       /\ DOMAIN coffeeSales[i].consumptions \subseteq Ingredients
       /\ \A p \in DOMAIN coffeeSales[i].consumptions : coffeeSales[i].consumptions[p] > 0

SalesInit == snackSales = <<>> /\ coffeeSales = <<>>

----------------------------------------------------------------------------
\* Mutant of ConsumptionFor: every known ingredient is entered.
ConsumptionOfAll(recipe, sold) ==
  LET amount(p) == FoldLeft(LAMBDA sum, item : IF item.product = p THEN item.amount ELSE sum, 0, recipe)
  IN  [p \in Ingredients |-> amount(p) * sold]

\* Entered ingredient by ingredient: of two entries for one product the later
\* one stays.
ConsumptionFor(recipe, sold) ==
  FoldLeft(LAMBDA planned, item : With(planned, item.product, item.amount * sold), <<>>, recipe)

\* Mutant of Suffices: one unit may be missing.
AlmostSuffices(stock, planned) ==
  \A p \in DOMAIN planned \cap DOMAIN stock : stock[p] + 1 >= planned[p]

Suffices(stock, planned) ==
  \A p \in DOMAIN planned \cap DOMAIN stock : stock[p] >= planned[p]

RegisterCoffeeSale(recipe, quantity, stock) ==
  /\ Len(coffeeSales) < MaxCoffeeSales
  /\ Suffices(stock, ConsumptionFor(recipe, quantity))
  /\ coffeeSales' = Append(coffeeSales,
       [recipe |-> recipe, quantity |-> quantity, stock |-> stock,
        consumptions |-> ConsumptionFor(recipe, quantity)])
  /\ UNCHANGED snackSales

RegisterSnackSale(slot, quantity) ==
  /\ Len(snackSales) < MaxSnackSales
  /\ snackSales' = Append(snackSales, [slot |-> slot, quantity |-> quantity])
  /\ UNCHANGED coffeeSales

\* Mutant of TotalSnackConsumption: the slot is not compared.
TotalOfAllSlots(sales, slot) ==
  FoldLeft(LAMBDA sum, sale : sum + sale.quantity, 0, sales)

TotalSnackConsumption(sales, slot) ==
  FoldLeft(LAMBDA sum, sale : sum + (IF sale.slot = slot THEN sale.quantity ELSE 0), 0, sales)

SalesNext ==
  \/ \E recipe \in Recipe, quantity \in Amounts, stock \in KnownStock :
       RegisterCoffeeSale(recipe, quantity, stock)
  \/ \E slot \in SaleSlots, quantity \in Amounts : RegisterSnackSale(slot, quantity)

SalesSpec == SalesInit /\ [][SalesNext]_saleVars

----------------------------------------------------------------------------
(* Properties *)

\* Where a recipe names a product, and how much of it in all.
Entries(recipe, p) == {n \in DOMAIN recipe : recipe[n].product = p}
AmountNamed(recipe, p) == MapThenSumSet(LAMBDA n : recipe[n].amount, Entries(recipe, p))

FollowsRecipe(sale, p) ==
  LET named == Entries(sale.recipe, p)
      total == sale.quantity * AmountNamed(sale.recipe, p)
  IN  /\ p \in DOMAIN sale.consumptions <=> named # {}
      /\ p \in DOMAIN sale.consumptions => sale.consumptions[p] <= total
      /\ Cardinality(named) = 1 => sale.consumptions[p] = total
      /\ p \in DOMAIN sale.consumptions \cap DOMAIN sale.stock =>
           sale.consumptions[p] <= sale.stock[p]

\* A coffee sale consumes the ingredients its recipe names and no other, of none
\* more than the recipe names times the units sold, of one it names once exactly
\* that, and never more than the stock that is known (register_coffee_sale).
SalesFollowRecipes ==
  \A i \in DOMAIN coffeeSales : \A p \in Ingredients : FollowsRecipe(coffeeSales[i], p)

\* A coffee sale consumes, of every ingredient, all its recipe names of it times
\* the units sold (docs/domain/SALES_AND_CONSUMPTION.md, "ingredients x sold
\* units"), however often the recipe names it.
ConsumptionIsComplete ==
  \A i \in DOMAIN coffeeSales : \A p \in DOMAIN coffeeSales[i].consumptions :
    coffeeSales[i].consumptions[p] =
      coffeeSales[i].quantity * AmountNamed(coffeeSales[i].recipe, p)

\* Every unit sold is counted for one slot, whatever product was in it.
SoldPerSlot(sales) == MapThenSumSet(LAMBDA slot : TotalSnackConsumption(sales, slot), SaleSlots)
UnitsSold(sales)   == MapThenSumSet(LAMBDA i : sales[i].quantity, DOMAIN sales)

SnackSalesAddUp == SoldPerSlot(snackSales) = UnitsSold(snackSales)

=============================================================================
