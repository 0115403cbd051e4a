---------------------------- MODULE MCStocktaking ----------------------------
(* Periods, counts and sales for TLC: they share no state and no step, so   *)
(* each is explored while the others are still empty.                       *)
EXTENDS MachineInventory, InventoryCounts, Sales

NoPeriods == periods = <<>>
NoCounts  == counts = <<>>
NoSales   == snackSales = <<>> /\ coffeeSales = <<>>

Init == PeriodsInit /\ CountsInit /\ SalesInit

Next ==
  \/ NoCounts /\ NoSales /\ PeriodsNext /\ UNCHANGED countVars /\ UNCHANGED saleVars
  \/ NoPeriods /\ NoSales /\ CountsNext /\ UNCHANGED periodVars /\ UNCHANGED saleVars
  \/ NoPeriods /\ NoCounts /\ SalesNext /\ UNCHANGED periodVars /\ UNCHANGED countVars

Spec == Init /\ [][Next]_<<periodVars, countVars, saleVars>>

=============================================================================
