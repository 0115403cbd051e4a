--------------------------- MODULE InventoryLedger ---------------------------
(***************************************************************************)
(* The immutable movement ledger of domain/inventory: where product can    *)
(* sit, what a movement is, and the book stock that is derived from it.    *)
(* No state: the modules that keep a ledger hold it as a variable.         *)
(***************************************************************************)
EXTENDS Integers, FiniteSetsExt

CONSTANTS
  Replenishers,     \* operators that hold stock and visit machines
  Administrators,   \* operators that hold the warehouse stock
  Slots,            \* the slots of the machine
  Products,
  MaxQty,           \* largest quantity of one movement (bounds the model)
  InventoryKeys,    \* idempotency keys clients send with inventory requests
  VisitKeys,        \* idempotency keys clients send to start a visit
  LineIds,          \* identifiers of replenishment lines
  InventoryRequests,  \* the movements inventory requests ask for
  None              \* the absent location, product, movement, line or visit

Locations == Replenishers \cup Administrators \cup Slots

\* Keys of the movements a visit writes for one of its lines: at completion
\* and, for a line whose product was found out later, at resolution.
LineKey(v, l)    == <<v, l, "line">>
ResolveKey(v, l) == <<v, l, "resolve">>

MovementKeys ==
  InventoryKeys \cup {<<v, l, kind>> : v \in VisitKeys, l \in LineIds, kind \in {"line", "resolve"}}

\* Clients do not send the keys that visits derive for the movements of a line
\* (complete.py: the visit's key, ":line:", the line's uuid and ":resolve").
ASSUME InventoryKeysAssumption ==
  \A v \in VisitKeys, l \in LineIds :
    LineKey(v, l) \notin InventoryKeys /\ ResolveKey(v, l) \notin InventoryKeys

\* Keys are strings of bounded length and lines have uuids (models.py), so that
\* there are finitely many rows to sum.
ASSUME FiniteKeysAssumption == IsFiniteSet(MovementKeys)

ASSUME MaxQtyAssumption == MaxQty \in Nat \ {0}
ASSUME NoneAssumption ==
  None \notin Locations \cup Products \cup VisitKeys

MovementTypes ==
  {"ASSIGNMENT", "REPLENISHMENT", "SLOT_REMOVAL", "RETURN", "ADJUSTMENT", "LOSS"}

Movement ==
  [type : MovementTypes, product : Products, quantity : 1..MaxQty,
   source : Locations \cup {None}, destination : Locations \cup {None}]

ASSUME NoneMovementAssumption == None \notin Movement

\* A ledger maps each idempotency key to the movement stored under it. A
\* request without a key stores a row no other request can find: here it is a
\* request with a key nobody reuses.
Ledgers == [MovementKeys -> Movement \cup {None}]

EmptyLedger == [k \in MovementKeys |-> None]

----------------------------------------------------------------------------
(* Book stock *)

SignedDelta(m, loc) ==
  (IF m.destination = loc THEN m.quantity ELSE 0)
    - (IF m.source = loc THEN m.quantity ELSE 0)

\* Mutant of ExpectedQuantity: the product is not part of the query.
ExpectedOfAllProducts(ledger, loc, p) ==
  LET rows == {k \in DOMAIN ledger : ledger[k] # None}
  IN  MapThenSumSet(LAMBDA k : SignedDelta(ledger[k], loc), rows)

ExpectedQuantity(ledger, loc, p) ==
  LET rows == {k \in DOMAIN ledger : ledger[k] # None /\ ledger[k].product = p}
  IN  MapThenSumSet(LAMBDA k : SignedDelta(ledger[k], loc), rows)

\* The book stock of every location and product, kept beside the ledger.
Stocks   == [Locations -> [Products -> Int]]
ZeroStock == [loc \in Locations |-> [p \in Products |-> 0]]

Apply(stock, m) ==
  [loc \in Locations |->
    [p \in Products |->
      stock[loc][p] + (IF p = m.product THEN SignedDelta(m, loc) ELSE 0)]]

Merged(stock, delta) ==
  [loc \in Locations |-> [p \in Products |-> stock[loc][p] + delta[loc][p]]]

\* Mutant of EnsureCanApply: off by one.
EnsureCanAlmostApply(stock, m) ==
  m.source # None => stock[m.source][m.product] - m.quantity >= -1

EnsureCanApply(stock, m) ==
  m.source # None => stock[m.source][m.product] - m.quantity >= 0

----------------------------------------------------------------------------
(* The movements of the inventory use cases *)

InventoryMovement(type, product, quantity, source, destination) ==
  [type |-> type, product |-> product, quantity |-> quantity,
   source |-> source, destination |-> destination]

AssignInventory ==
  {InventoryMovement("ASSIGNMENT", p, q, a, r) :
     p \in Products, q \in 1..MaxQty, a \in Administrators \cup {None}, r \in Replenishers}

ReturnInventory ==
  {InventoryMovement("RETURN", p, q, r, a) :
     p \in Products, q \in 1..MaxQty, r \in Replenishers, a \in Administrators}

AdjustInventory ==
  {InventoryMovement("ADJUSTMENT", p, q, None, loc) : p \in Products, q \in 1..MaxQty, loc \in Locations}
    \cup {InventoryMovement("ADJUSTMENT", p, q, loc, None) :
            p \in Products, q \in 1..MaxQty, loc \in Locations}

RecordLoss ==
  {InventoryMovement("LOSS", p, q, loc, None) : p \in Products, q \in 1..MaxQty, loc \in Locations}

InventoryMovements == AssignInventory \cup ReturnInventory \cup AdjustInventory \cup RecordLoss

ASSUME InventoryRequestsAssumption == InventoryRequests \subseteq InventoryMovements

=============================================================================
