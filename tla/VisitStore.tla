------------------------------ MODULE VisitStore ------------------------------
(***************************************************************************)
(* The committed rows the replenishment and inventory use cases share: the *)
(* visits (infrastructure/persistence, tables replenishments and           *)
(* replenishment_lines), the movement ledger (inventory_movements) and the *)
(* book stock derived from it; and what must be true of them.  Three       *)
(* specifications act on these rows: ReplenishmentService, one step per    *)
(* request, ReplenishmentTransactions, one step per statement, and         *)
(* IdempotentRequests, one step per request of a client.                   *)
(***************************************************************************)
EXTENDS Replenishment

VARIABLES
  visits,   \* visits[v]: the visit stored under the client's key v, or None
  ledger,   \* ledger[k]: the movement stored under idempotency key k, or None
  stock     \* book stock: the sum of the ledger, per location and product

store == <<visits, ledger, stock>>

StoreTypeOK ==
  /\ visits \in [VisitKeys -> Visit \cup {None}]
  /\ ledger \in Ledgers
  /\ stock \in Stocks

EmptyStore ==
  /\ visits = [v \in VisitKeys |-> None]
  /\ ledger = EmptyLedger
  /\ stock = ZeroStock

Exists(v) == visits[v] # None

\* A request that loads a visit finds it; past MaxVersion none is made.
Loadable(v) == Exists(v) /\ visits[v].version < MaxVersion

\* The keys under which the ledger holds a movement of line l of visit v.
PostedKeys(v, l) == {k \in {LineKey(v, l), ResolveKey(v, l)} : ledger[k] # None}

\* Line l of visit v counts in the stock: the visit is completed and the
\* product of the line is known.
Settled(v, l) ==
  Exists(v) /\ visits[v].status = "COMPLETED" /\ l \in ResolvedLines(visits[v])

----------------------------------------------------------------------------
(* Invariants *)

\* The stock the code computes from the movements of a location is what the
\* committed changes add up to: no movement is counted twice or lost, whatever
\* requests are skipped, retried or rolled back.
StockIsLedgerSum ==
  \A loc \in Locations, p \in Products : stock[loc][p] = ExpectedQuantity(ledger, loc, p)

\* No location ever has less than nothing of a product
\* (InventoryLedger.ensure_can_apply, InsufficientStockError).
NonNegativeStock == \A loc \in Locations, p \in Products : stock[loc][p] >= 0

\* Visits and ledger agree: a resolved line of a completed visit has exactly
\* one movement, under exactly one of its two keys, with the line's product,
\* quantity and direction; any other line, of a visit in progress, cancelled
\* or completed with the product still unknown, has none.
VisitsMatchLedger ==
  \A v \in VisitKeys, l \in LineIds :
    IF Settled(v, l)
    THEN \E k \in MovementKeys :
           /\ PostedKeys(v, l) = {k}
           /\ ledger[k] = LineMovement(visits[v], visits[v].lines[l])
    ELSE PostedKeys(v, l) = {}

\* A completed visit has a movement for each of its resolved lines.
CompletedLinesArePosted ==
  \A v \in VisitKeys, l \in LineIds : Settled(v, l) => PostedKeys(v, l) # {}

----------------------------------------------------------------------------
(* Action properties *)

\* A stored movement is never changed or removed: corrections are new movements.
LedgerIsAppendOnly ==
  [][\A k \in MovementKeys : ledger[k] # None => ledger'[k] = ledger[k]]_store

\* A closed visit keeps its status and its lines; the one change left is that a
\* pending line of a completed visit gets its product.
ClosedVisitsAreFinal ==
  [][\A v \in VisitKeys : Exists(v) /\ Closed(visits[v]) =>
       /\ visits'[v] # None
       /\ visits'[v].status = visits[v].status
       /\ \A l \in LineIds :
            \/ visits'[v].lines[l] = visits[v].lines[l]
            \/ /\ visits[v].status = "COMPLETED"
               /\ l \in PendingLines(visits[v])
               /\ \E p \in Products :
                    visits'[v].lines[l] = [visits[v].lines[l] EXCEPT !.product = p]
    ]_store

\* No save undoes another: a line, once stored, stays, with its slot and its
\* quantity, and a product, once resolved, is the line's product for good.
LinesAreKept ==
  [][\A v \in VisitKeys, l \in LineIds : Exists(v) /\ l \in LinesOf(visits[v]) =>
       /\ visits'[v] # None
       /\ l \in LinesOf(visits'[v])
       /\ visits'[v].lines[l].slot = visits[v].lines[l].slot
       /\ visits'[v].lines[l].quantity = visits[v].lines[l].quantity
       /\ Resolved(visits[v].lines[l]) =>
            visits'[v].lines[l].product = visits[v].lines[l].product
    ]_store

\* Every save of a visit takes its version one further: two saves never
\* produce the same version, which the check for stale versions relies on.
SavesAdvanceVersion ==
  [][\A v \in VisitKeys : Exists(v) /\ visits'[v] # visits[v] =>
       visits'[v].version = visits[v].version + 1
    ]_store

\* Posting is atomic with what it is posted for: the movement of a line appears
\* in the very step that leaves the visit completed with that line in it, and
\* the movement of a late resolution in the step that gives the line its product.
PostingIsAtomic ==
  [][\A v \in VisitKeys, l \in LineIds :
       \A k \in {LineKey(v, l), ResolveKey(v, l)} :
         ledger[k] = None /\ ledger'[k] # None =>
           /\ visits'[v].status = "COMPLETED"
           /\ l \in ResolvedLines(visits'[v])
           /\ ledger'[k] = LineMovement(visits'[v], visits'[v].lines[l])
    ]_store

=============================================================================
