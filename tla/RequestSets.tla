---------------------------- MODULE RequestSets ----------------------------
(* The sets of requests the model-checking instances choose from. *)
EXTENDS Replenishment

OneUnit  == [s \in Slots |-> 1]
AnyUnits == [s \in Slots |-> MaxQty]

\* Stock enters from outside the ledger and is written off by its holder.
Assigned(q) ==
  {InventoryMovement("ASSIGNMENT", p, q, None, r) : p \in Products, r \in Replenishers}
Lost(q) ==
  {InventoryMovement("LOSS", p, q, r, None) : p \in Products, r \in Replenishers}
Returned(q) ==
  {InventoryMovement("RETURN", p, q, r, a) :
     p \in Products, r \in Replenishers, a \in Administrators}

AssignSome     == Assigned(1) \cup Assigned(MaxQty)
AssignOrLose   == Assigned(MaxQty) \cup Lost(1)
AssignOrReturn == Assigned(MaxQty) \cup Returned(1)

UnitLoads == {line \in Line : line.quantity = 1}
UnitLines == {line \in Line : Absolute(line) = 1}

=============================================================================
