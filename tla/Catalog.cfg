SPECIFICATION FairSpec
CONSTANTS
  Sessions = {w1, w2}
  ProductIds = {p1, p2, p3}
  Barcodes = {b1, b2}
  Details = {d1}
  None = None
INVARIANTS
  CatalogTypeOK
  BarcodesAreUnique
PROPERTIES
  EverySaveEnds
