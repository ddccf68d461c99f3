SPECIFICATION FairSpec
CONSTANTS
  t1 = t1  t2 = t2  t3 = t3  rice = rice  soap = soap  salt = salt
  shop = shop  drawer = drawer
  None = None
  Sessions = {t1, t2, t3}
  Products = {rice, soap, salt}
  Sales = {1, 2}
  Sold <- TwoSales
  Opening <- Shelf
  Calls <- Requests
  Location = shop
  Shift = drawer
  MaxQuantity = 99
CHECK_DEADLOCK FALSE
INVARIANTS TypeOK StockIsItsMovements ShelvesNotNegative ReturnsWithinSale ReturnsNeverCircle
PROPERTIES CountedOnce SecondShiftByRaceOnly ImplementsShopLedger CallsEnd
