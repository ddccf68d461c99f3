SPECIFICATION Spec
CONSTANTS
  ann = ann  rice = rice  soap = soap  lost = lost
  shop = shop  depot = depot  k1 = k1  k2 = k2
  None = None
  Products = {rice, soap}
  Users = {ann}
  Locations = {shop}
  ActiveLocations = {shop}
  Stock <- Shelf
  Catalogs <- EditedCatalogs
  Keys = {k1, k2}
  Carts <- ShopCarts
  ReturnRequests <- StockReturns
  Adjustments <- StockAdjustments
  Deliveries <- StockDeliveries
  Floats <- Drawers
  Scale = 6
  Least = 3
  MaxShifts = 2
  MaxSales = 2
  MaxQuantity = 12
  MaxRefund = 1
SYMMETRY AnyKey
INVARIANTS TypeOK RetryGetsItsSale TotalsReconcile StockIsItsMovements ShelvesNotNegative ReturnsWithinSale
PROPERTIES ClosedShiftFinal WholeReturnRefundsLine
