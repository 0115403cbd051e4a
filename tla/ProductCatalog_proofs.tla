------------------------ MODULE ProductCatalog_proofs ------------------------
(***************************************************************************)
(* Theorems about ProductCatalog, for any number of sessions, products and *)
(* barcodes.                                                               *)
(***************************************************************************)
EXTENDS ProductCatalog, TLAPS

----------------------------------------------------------------------------
(* Type correctness *)

\* The product a request prepares and the row a commit writes are products.
LEMMA EditedTypes ==
  ASSUME NEW row \in Product
  PROVE  /\ \A d \in Details : [row EXCEPT !.details = d] \in Product
         /\ \A b \in Barcodes : [row EXCEPT !.barcode = b] \in Product
         /\ \A status \in ProductStatuses : [row EXCEPT !.status = status] \in Product
BY DEF Product

LEMMA WrittenType ==
  ASSUME NEW local \in Product, NEW base \in Product \cup {None}, NEW stored \in Product \cup {None},
         base # None => stored # None
  PROVE  /\ Written(local, base, stored) \in Product
         /\ Written(local, base, stored).barcode =
              IF base # None => local.barcode # base.barcode THEN local.barcode ELSE stored.barcode
<1>1. CASE base = None
  BY <1>1 DEF Written, Product
<1>2. CASE base # None
  <2>1. base \in Product /\ stored \in Product  BY <1>2
  <2>2. /\ Column(local.barcode, base.barcode, stored.barcode) \in Barcodes
        /\ Column(local.details, base.details, stored.details) \in Details
        /\ Column(local.status, base.status, stored.status) \in ProductStatuses
    BY <2>1 DEF Column, Product
  <2>3. Written(local, base, stored) =
          [c \in {"barcode", "details", "status"} |-> Column(local[c], base[c], stored[c])]
    BY <1>2 DEF Written
  <2> HIDE DEF Column
  <2>4. Written(local, base, stored) \in Product
    BY <2>2, <2>3 DEF Product
  <2>5. Written(local, base, stored).barcode = Column(local.barcode, base.barcode, stored.barcode)
    BY <2>3
  <2>. QED  BY <1>2, <2>4, <2>5 DEF Column
<1>. QED  BY <1>1, <1>2

\* A row once read is stored: products are never deleted.
Kept == \A w \in Sessions : tx[w] # None /\ tx[w].base # None => products[tx[w].id] # None

TypeInv == CatalogTypeOK /\ Kept

\* What an open transaction is.
LEMMA OpenType ==
  ASSUME CatalogTypeOK, NEW w \in Sessions, pc[w] # "idle"
  PROVE  /\ tx[w] # None /\ tx[w] \in Transaction
         /\ tx[w].id \in ProductIds /\ tx[w].local \in Product
         /\ tx[w].base \in Product \cup {None}
BY DEF CatalogTypeOK, Transaction

LEMMA InitType == Init => TypeInv
BY DEF Init, TypeInv, CatalogTypeOK, Kept, Places

LEMMA EditType ==
  ASSUME TypeInv, NEW w \in Sessions, NEW p \in ProductIds, NEW product \in Product,
         Edit(w, p, product)
  PROVE  TypeInv'
<1> DEFINE open == [id |-> p, local |-> product, base |-> None]
<1>1. open \in Transaction /\ open # None
  BY NoneAssumption DEF Transaction
<1>2. CatalogTypeOK'
  BY <1>1 DEF TypeInv, CatalogTypeOK, Edit, Goto, Places
<1>3. Kept'
  BY <1>1 DEF TypeInv, CatalogTypeOK, Kept, Edit
<1>. QED  BY <1>2, <1>3 DEF TypeInv

\* A request prepares a product.
LEMMA RequestEdits ==
  ASSUME TypeInv, NEW w \in Sessions, Request(w)
  PROVE  \E p \in ProductIds, product \in Product : Edit(w, p, product)
<1>0. \A p \in Stored : p \in ProductIds /\ products[p] \in Product
  BY DEF Stored, TypeInv, CatalogTypeOK
<1>1. ASSUME NEW p \in ProductIds, NEW b \in Barcodes, NEW d \in Details, CreateProduct(w, p, b, d)
      PROVE  \E product \in Product : Edit(w, p, product)
  BY <1>1 DEF CreateProduct, Product, ProductStatuses
<1>2. ASSUME NEW p \in ProductIds, NEW d \in Details, UpdateProduct(w, p, d)
      PROVE  \E product \in Product : Edit(w, p, product)
  BY <1>0, <1>2, EditedTypes DEF UpdateProduct
<1>3. ASSUME NEW p \in ProductIds, NEW b \in Barcodes, ChangeProductBarcode(w, p, b)
      PROVE  \E product \in Product : Edit(w, p, product)
  BY <1>0, <1>3, EditedTypes DEF ChangeProductBarcode
<1>4. ASSUME NEW p \in ProductIds, ActivateProduct(w, p) \/ DeactivateProduct(w, p)
      PROVE  \E product \in Product : Edit(w, p, product)
  BY <1>0, <1>4, EditedTypes DEF ActivateProduct, DeactivateProduct, SetStatus, ProductStatuses
<1>. QED  BY <1>1, <1>2, <1>3, <1>4 DEF Request

LEMMA StepType ==
  ASSUME TypeInv, NEW w \in Sessions, LockStep(w) \/ Step(w) \/ Crash(w)
  PROVE  TypeInv'
<1>0. pc[w] # "idle"
  BY DEF LockStep, Flush, DuplicateBarcode, Step, Refresh, Commit, Crash
<1>1. /\ tx[w] # None /\ tx[w] \in Transaction /\ tx[w].id \in ProductIds
      /\ tx[w].local \in Product /\ tx[w].base \in Product \cup {None}
  BY <1>0, OpenType DEF TypeInv
<1>2. CASE Rollback(w)
  <2>1. CatalogTypeOK'
    BY <1>2 DEF TypeInv, CatalogTypeOK, Rollback, Goto, Places
  <2>2. Kept'
    BY <1>2 DEF TypeInv, CatalogTypeOK, Kept, Rollback
  <2>. QED  BY <2>1, <2>2 DEF TypeInv
<1>3. CASE Flush(w)
  BY <1>0, <1>3 DEF TypeInv, CatalogTypeOK, Kept, Flush, Goto, Places
<1>4. CASE Refresh(w)
  <2> DEFINE open == [tx[w] EXCEPT !.base = products[tx[w].id]]
  <2>1. products[tx[w].id] \in Product \cup {None}
    BY <1>1 DEF TypeInv, CatalogTypeOK
  <2>2. open \in Transaction /\ open # None /\ open.id = tx[w].id /\ open.base = products[tx[w].id]
    BY <1>1, <2>1, NoneAssumption DEF Transaction
  <2>3. tx' = [tx EXCEPT ![w] = open]
    BY <1>4 DEF Refresh
  <2>4. CatalogTypeOK'
    BY <1>4, <2>2, <2>3 DEF TypeInv, CatalogTypeOK, Refresh, Goto, Places
  <2>5. Kept'
    BY <1>4, <2>2, <2>3 DEF TypeInv, CatalogTypeOK, Kept, Refresh
  <2>. QED  BY <2>4, <2>5 DEF TypeInv
<1>5. CASE Commit(w)
  <2> DEFINE row == Written(tx[w].local, tx[w].base, products[tx[w].id])
  <2>1. products[tx[w].id] \in Product \cup {None} /\ (tx[w].base # None => products[tx[w].id] # None)
    BY <1>1 DEF TypeInv, CatalogTypeOK, Kept
  <2>2. row \in Product /\ row # None
    BY <1>1, <2>1, WrittenType, NoneAssumption
  <2>3. products' = [products EXCEPT ![tx[w].id] = row]
    BY <1>5 DEF Commit
  <2> HIDE DEF row
  <2>4. CatalogTypeOK'
    BY <1>1, <1>5, <2>2, <2>3 DEF TypeInv, CatalogTypeOK, Commit, Goto, Places
  <2>5. Kept'
    BY <1>1, <1>5, <2>2, <2>3 DEF TypeInv, CatalogTypeOK, Kept, Commit
  <2>. QED  BY <2>4, <2>5 DEF TypeInv
<1>. QED
  BY <1>2, <1>3, <1>4, <1>5 DEF LockStep, DuplicateBarcode, Step, Crash

LEMMA TypeStep == TypeInv /\ [Next]_vars => TypeInv'
<1> SUFFICES ASSUME TypeInv, [Next]_vars PROVE TypeInv'  OBVIOUS
<1>1. CASE UNCHANGED vars
  BY <1>1 DEF vars, TypeInv, CatalogTypeOK, Kept
<1>2. ASSUME NEW w \in Sessions, Request(w) PROVE TypeInv'
  BY <1>2, RequestEdits, EditType
<1>. QED  BY <1>1, <1>2, StepType DEF Next

LEMMA TypeInvariance == Spec => []TypeInv
BY TypeStep, InitType, PTL DEF Spec

\* Rows, program counters and open transactions stay well typed.
THEOREM CatalogTypeCorrectness == Spec => []CatalogTypeOK
BY TypeInvariance, PTL DEF TypeInv

----------------------------------------------------------------------------
(* Barcodes *)

\* A transaction about to commit a barcode finds it on no other row, and no other
\* transaction about to commit writes its row or its barcode: the index and the
\* locks were consulted by the flush, and both stay true until the commit.
NoneStored ==
  \A w \in Sessions : pc[w] = "commit" /\ WritesBarcode(w) =>
    \A q \in ProductIds : q # tx[w].id /\ products[q] # None =>
      products[q].barcode # tx[w].local.barcode

NoneOpen ==
  \A w, u \in Sessions : w # u /\ pc[w] = "commit" /\ pc[u] = "commit" =>
    /\ tx[w].id # tx[u].id
    /\ WritesBarcode(w) /\ WritesBarcode(u) => tx[w].local.barcode # tx[u].local.barcode

BarcodeInv == TypeInv /\ BarcodesAreUnique /\ NoneStored /\ NoneOpen

\* What stays if no row changes and only sessions not about to commit change.
LEMMA QuietStep ==
  ASSUME BarcodeInv, UNCHANGED products,
         \A u \in Sessions : pc'[u] = "commit" => pc[u] = "commit" /\ tx'[u] = tx[u]
  PROVE  BarcodesAreUnique' /\ NoneStored' /\ NoneOpen'
<1>1. BarcodesAreUnique'
  BY DEF BarcodeInv, BarcodesAreUnique, Stored
<1>2. NoneStored'
  BY DEF BarcodeInv, NoneStored, WritesBarcode
<1>3. NoneOpen'
  BY DEF BarcodeInv, NoneOpen, WritesBarcode
<1>. QED  BY <1>1, <1>2, <1>3

LEMMA FlushKeepsBarcodes ==
  ASSUME BarcodeInv, NEW w \in Sessions, Flush(w)
  PROVE  BarcodesAreUnique' /\ NoneStored' /\ NoneOpen'
<1>0. /\ \A u \in Sessions : pc'[u] = "commit" => u = w \/ pc[u] = "commit"
      /\ tx' = tx /\ products' = products
  BY DEF Flush, Goto, BarcodeInv, TypeInv, CatalogTypeOK
<1>1. BarcodesAreUnique'
  BY <1>0 DEF BarcodeInv, BarcodesAreUnique, Stored
<1>2. WritesBarcode(w) => \A q \in ProductIds : q # tx[w].id /\ products[q] # None =>
                            products[q].barcode # tx[w].local.barcode
  BY DEF Flush, BarcodeTaken, FindByBarcode, Stored
<1>3. NoneStored'
  BY <1>0, <1>2 DEF BarcodeInv, NoneStored, WritesBarcode
<1>4. \A u \in Sessions : u # w /\ pc[u] = "commit" =>
        /\ tx[w].id # tx[u].id
        /\ WritesBarcode(w) /\ WritesBarcode(u) => tx[w].local.barcode # tx[u].local.barcode
  BY DEF Flush, Free, HeldBy, Touches
<1>5. NoneOpen'
  BY <1>0, <1>4 DEF BarcodeInv, NoneOpen, WritesBarcode
<1>. QED  BY <1>1, <1>3, <1>5

LEMMA CommitKeepsBarcodes ==
  ASSUME BarcodeInv, NEW w \in Sessions, Commit(w)
  PROVE  BarcodesAreUnique' /\ NoneStored' /\ NoneOpen'
<1> DEFINE p == tx[w].id
           row == Written(tx[w].local, tx[w].base, products[p])
<1>0. /\ p \in ProductIds /\ tx[w].local \in Product /\ tx[w].base \in Product \cup {None}
      /\ products[p] \in Product \cup {None}
      /\ tx[w].base # None => products[p] # None
  BY OpenType DEF Commit, BarcodeInv, TypeInv, CatalogTypeOK, Kept
<1>1. row.barcode = IF WritesBarcode(w) THEN tx[w].local.barcode ELSE products[p].barcode
  BY <1>0, WrittenType DEF WritesBarcode
<1>2. ~WritesBarcode(w) => products[p] # None
  BY <1>0 DEF WritesBarcode
<1>3. /\ pc[w] = "commit"
      /\ products'[p] = row
      /\ \A q \in ProductIds : q # p => products'[q] = products[q]
      /\ \A u \in Sessions : pc'[u] = "commit" => u # w /\ pc[u] = "commit" /\ tx'[u] = tx[u]
  BY <1>0 DEF Commit, Goto, BarcodeInv, TypeInv, CatalogTypeOK
<1> HIDE DEF p, row
<1>4. \A q \in ProductIds : q # p /\ products[q] # None => products[q].barcode # row.barcode
  <2>1. CASE WritesBarcode(w)
    BY <1>1, <1>3, <2>1 DEF BarcodeInv, NoneStored, p
  <2>2. CASE ~WritesBarcode(w)
    BY <1>0, <1>1, <1>2, <2>2 DEF BarcodeInv, BarcodesAreUnique, Stored
  <2>. QED  BY <2>1, <2>2
<1>5. BarcodesAreUnique'
  <2> SUFFICES ASSUME NEW q \in ProductIds, NEW r \in ProductIds,
                      products'[q] # None, products'[r] # None,
                      products'[q].barcode = products'[r].barcode
               PROVE  q = r
    BY DEF BarcodesAreUnique, Stored
  <2>1. CASE q # p /\ r # p
    BY <1>3, <2>1 DEF BarcodeInv, BarcodesAreUnique, Stored
  <2>2. CASE q = p \/ r = p
    BY <1>3, <1>4, <2>2
  <2>. QED  BY <2>1, <2>2
<1>6. NoneStored'
  <2> SUFFICES ASSUME NEW u \in Sessions, pc'[u] = "commit", WritesBarcode(u)',
                      NEW q \in ProductIds, q # tx'[u].id, products'[q] # None
               PROVE  products'[q].barcode # tx'[u].local.barcode
    BY DEF NoneStored
  <2>1. u # w /\ pc[u] = "commit" /\ tx'[u] = tx[u] /\ WritesBarcode(u)
    BY <1>3 DEF WritesBarcode
  <2>2. CASE q # p
    BY <1>3, <2>1, <2>2 DEF BarcodeInv, NoneStored
  <2>3. CASE q = p /\ WritesBarcode(w)
    BY <1>1, <1>3, <2>1, <2>3 DEF BarcodeInv, NoneOpen
  <2>4. CASE q = p /\ ~WritesBarcode(w)
    BY <1>0, <1>1, <1>2, <1>3, <2>1, <2>4 DEF BarcodeInv, NoneStored
  <2>. QED  BY <2>2, <2>3, <2>4
<1>7. NoneOpen'
  BY <1>3 DEF BarcodeInv, NoneOpen, WritesBarcode
<1>. QED  BY <1>5, <1>6, <1>7

LEMMA BarcodeInvariance == Spec => []BarcodeInv
<1>1. Init => BarcodeInv
  BY InitType DEF Init, BarcodeInv, BarcodesAreUnique, Stored, NoneStored, NoneOpen
<1>2. BarcodeInv /\ [Next]_vars => BarcodeInv'
  <2> SUFFICES ASSUME BarcodeInv, [Next]_vars PROVE BarcodeInv'  OBVIOUS
  <2>0. TypeInv'  BY TypeStep DEF BarcodeInv
  <2>1. CASE UNCHANGED vars
    BY <2>0, <2>1, QuietStep DEF vars, BarcodeInv
  <2>2. ASSUME NEW w \in Sessions, Request(w) PROVE BarcodeInv'
    <3>1. PICK p \in ProductIds, product \in Product : Edit(w, p, product)
      BY <2>2, RequestEdits DEF BarcodeInv
    <3>2. \A u \in Sessions : pc'[u] = "commit" => pc[u] = "commit" /\ tx'[u] = tx[u]
      BY <3>1 DEF Edit, Goto, BarcodeInv, TypeInv, CatalogTypeOK
    <3>. QED  BY <2>0, <3>1, <3>2, QuietStep DEF Edit, BarcodeInv
  <2>3. ASSUME NEW w \in Sessions, Refresh(w) \/ Rollback(w) PROVE BarcodeInv'
    <3>1. \A u \in Sessions : pc'[u] = "commit" => pc[u] = "commit" /\ tx'[u] = tx[u]
      BY <2>3 DEF Refresh, Rollback, Goto, BarcodeInv, TypeInv, CatalogTypeOK
    <3>. QED  BY <2>0, <2>3, <3>1, QuietStep DEF Refresh, Rollback, BarcodeInv
  <2>4. ASSUME NEW w \in Sessions, Flush(w) \/ Commit(w) PROVE BarcodeInv'
    BY <2>0, <2>4, FlushKeepsBarcodes, CommitKeepsBarcodes DEF BarcodeInv
  <2>. QED
    BY <2>1, <2>2, <2>3, <2>4 DEF Next, LockStep, DuplicateBarcode, Step, Crash
<1>. QED  BY <1>1, <1>2, PTL DEF Spec

\* No two stored products share a barcode, however many sessions create products,
\* exchange barcodes and overwrite each other's rows.
THEOREM BarcodesStayUnique == Spec => []BarcodesAreUnique
BY BarcodeInvariance, PTL DEF BarcodeInv

=============================================================================
