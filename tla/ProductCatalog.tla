---------------------------- MODULE ProductCatalog ----------------------------
(***************************************************************************)
(* The product catalogue of one tenant: domain/products and its use cases. *)
(* A barcode identifies one product, active or not.  A request looks the   *)
(* barcode up before it saves; products carry no version, and a save reads *)
(* the row back and overwrites the columns that differ.  What holds when   *)
(* several sessions do this at once rests on the unique index on tenant    *)
(* and barcode (uq_products_tenant_barcode).                               *)
(*                                                                         *)
(* The acting operator may manage the catalogue of this tenant: a request  *)
(* refused for want of that changes nothing.                               *)
(***************************************************************************)
EXTENDS Naturals

CONSTANTS
  Sessions,
  ProductIds,
  Barcodes,
  Details,    \* name, texts, unit and threshold of a product, as one value
  None        \* no product, no row

ProductStatuses == {"ACTIVE", "INACTIVE"}
Product == [barcode : Barcodes, details : Details, status : ProductStatuses]

VARIABLES
  products,   \* products[p]: the row of product p, or None
  pc,         \* pc[w]: the statement session w is about to execute
  tx          \* tx[w]: what its open transaction has read and will write

vars == <<products, pc, tx>>

Places == {"idle", "refresh", "flush", "commit"}

\* local is the product as created or as loaded and modified; base the row read
\* back to be overwritten, None for a new product.
Transaction == [id : ProductIds, local : Product, base : Product \cup {None}]

ASSUME NoneAssumption == None \notin Product \cup Transaction

CatalogTypeOK ==
  /\ products \in [ProductIds -> Product \cup {None}]
  /\ pc \in [Sessions -> Places]
  /\ tx \in [Sessions -> Transaction \cup {None}]
  /\ \A w \in Sessions : pc[w] = "idle" <=> tx[w] = None

Init ==
  /\ products = [p \in ProductIds |-> None]
  /\ pc = [w \in Sessions |-> "idle"]
  /\ tx = [w \in Sessions |-> None]

Goto(w, place) == pc' = [pc EXCEPT ![w] = place]

\* Mutant of Rollback: the session keeps what it had loaded.
RollbackDirty(w) == Goto(w, "idle") /\ UNCHANGED <<products, tx>>

Rollback(w) ==
  /\ Goto(w, "idle")
  /\ tx' = [tx EXCEPT ![w] = None]
  /\ UNCHANGED products

----------------------------------------------------------------------------
(* Requests *)

Stored == {p \in ProductIds : products[p] # None}
FindByBarcode(b) == {p \in Stored : products[p].barcode = b}

Edit(w, p, product) ==
  /\ pc[w] = "idle"
  /\ Goto(w, "refresh")
  /\ tx' = [tx EXCEPT ![w] = [id |-> p, local |-> product, base |-> None]]
  /\ UNCHANGED products

\* A new product gets a fresh uuid.
Fresh(p) == p \notin Stored /\ \A u \in Sessions : tx[u] # None => tx[u].id # p

CreateProduct(w, p, b, d) ==
  /\ Fresh(p)
  /\ FindByBarcode(b) = {}
  /\ Edit(w, p, [barcode |-> b, details |-> d, status |-> "ACTIVE"])

UpdateProduct(w, p, d) ==
  p \in Stored /\ Edit(w, p, [products[p] EXCEPT !.details = d])

ChangeProductBarcode(w, p, b) ==
  /\ p \in Stored
  /\ FindByBarcode(b) \subseteq {p}
  /\ Edit(w, p, [products[p] EXCEPT !.barcode = b])

\* Activating an active product saves it again as it was read.
SetStatus(w, p, status) ==
  p \in Stored /\ Edit(w, p, [products[p] EXCEPT !.status = status])
ActivateProduct(w, p)   == SetStatus(w, p, "ACTIVE")
DeactivateProduct(w, p) == SetStatus(w, p, "INACTIVE")

----------------------------------------------------------------------------
(* Saving *)

Refresh(w) ==
  /\ pc[w] = "refresh"
  /\ tx' = [tx EXCEPT ![w].base = products[tx[w].id]]
  /\ Goto(w, "flush")
  /\ UNCHANGED products

\* The row is inserted, or its barcode differs from the one read back.
WritesBarcode(w) == tx[w].base # None => tx[w].local.barcode # tx[w].base.barcode

\* Writing a row waits for another transaction that has written it; so does
\* entering a barcode another transaction has entered or is giving up.
Touches(u, b) ==
  \/ tx[u].local.barcode = b
  \/ products[tx[u].id] # None /\ products[tx[u].id].barcode = b

HeldBy(w, u) ==
  /\ pc[u] = "commit"
  /\ \/ tx[u].id = tx[w].id
     \/ WritesBarcode(w) /\ WritesBarcode(u) /\ Touches(u, tx[w].local.barcode)

Free(w) == \A u \in Sessions \ {w} : ~HeldBy(w, u)

\* Mutant of BarcodeTaken: there is no unique index.
BarcodeNeverTaken(w) == FALSE

BarcodeTaken(w) ==
  WritesBarcode(w) /\ FindByBarcode(tx[w].local.barcode) \ {tx[w].id} # {}

Flush(w) ==
  /\ pc[w] = "flush"
  /\ Free(w)
  /\ ~BarcodeTaken(w)
  /\ Goto(w, "commit")
  /\ UNCHANGED <<products, tx>>

DuplicateBarcode(w) ==
  /\ pc[w] = "flush"
  /\ Free(w)
  /\ BarcodeTaken(w)
  /\ Rollback(w)

\* merge() writes a column only where the product differs from the row read back.
Column(mine, base, stored) == IF mine # base THEN mine ELSE stored
Written(local, base, stored) ==
  IF base = None THEN local
  ELSE [c \in {"barcode", "details", "status"} |-> Column(local[c], base[c], stored[c])]

\* Mutant of Commit: the connection goes back with the row still locked.
CommitHeld(w) ==
  /\ pc[w] = "commit"
  /\ products' = [products EXCEPT ![tx[w].id] = Written(tx[w].local, tx[w].base, @)]
  /\ UNCHANGED <<pc, tx>>

Commit(w) ==
  /\ pc[w] = "commit"
  /\ products' = [products EXCEPT ![tx[w].id] = Written(tx[w].local, tx[w].base, @)]
  /\ Goto(w, "idle")
  /\ tx' = [tx EXCEPT ![w] = None]

Crash(w) == pc[w] # "idle" /\ Rollback(w)

----------------------------------------------------------------------------
Request(w) ==
  \/ \E p \in ProductIds, b \in Barcodes, d \in Details : CreateProduct(w, p, b, d)
  \/ \E p \in ProductIds, d \in Details : UpdateProduct(w, p, d)
  \/ \E p \in ProductIds, b \in Barcodes : ChangeProductBarcode(w, p, b)
  \/ \E p \in ProductIds : ActivateProduct(w, p) \/ DeactivateProduct(w, p)

LockStep(w) == Flush(w) \/ DuplicateBarcode(w)
Step(w) == Refresh(w) \/ Commit(w)

Next == \E w \in Sessions : Request(w) \/ LockStep(w) \/ Step(w) \/ Crash(w)

Spec == Init /\ [][Next]_vars

\* A handler that is running goes on, and a lock is granted in the order it was
\* asked for.
FairSpec == Spec /\ \A w \in Sessions : WF_vars(Step(w)) /\ SF_vars(LockStep(w))

----------------------------------------------------------------------------
(* Properties *)

\* A barcode identifies at most one product, active or inactive, whatever
\* sessions create products, give barcodes up to each other or put a stale
\* barcode back (docs/adr/ADR-010-barcode-identity.md, ADR-011-product-history.md).
BarcodesAreUnique ==
  \A p, q \in Stored : products[p].barcode = products[q].barcode => p = q

\* Every request ends: no transaction waits for ever for a row or a barcode.
EverySaveEnds == \A w \in Sessions : pc[w] # "idle" ~> pc[w] = "idle"

=============================================================================
