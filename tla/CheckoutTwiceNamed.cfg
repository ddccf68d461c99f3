SPECIFICATION Spec
CONSTANTS
  t1 = t1  t2 = t2  k1 = k1  k2 = k2
  shirt = shirt  shoe = shoe  shop = shop  depot = depot
  None = None
  Txns = {t1}
  Keys = {k1}
  Products = {shirt, shoe}
  Requests <- TwiceNamed
  Opening <- TwoRows
  Catalogs <- FixedCatalog
INVARIANT NeverOversold
