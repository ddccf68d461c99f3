SPECIFICATION Spec
CONSTANTS
  ann = ann  rice = rice  soap = soap  lost = lost
  shop = shop  depot = depot  k1 = k1  k2 = k2
  None = None
  Products = {rice, soap}
  Users = {ann}
  Locations = {shop}
  ActiveLocations = {shop}
  Stock <- Rice
  Catalogs <- FixedCatalog
  Keys = {k1, k2}
  Carts <- OneCart
  ReturnRequests <- HalfReturns
  Adjustments = {}
  Deliveries = {}
  Floats = {0}
  Scale = 6
  Least = 3
  MaxShifts = 1
  MaxSales = 2
  MaxQuantity = 15
  MaxRefund = 0
INVARIANT RefundsWithinSale
