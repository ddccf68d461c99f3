SPECIFICATION Spec
CONSTANTS
  ann = ann  rice = rice  shop = shop
  None = None
  Users = {ann}
  Products = {rice}
  Location = shop
  Stock <- TwoPieces
  Catalogs <- EditedCatalogs
  Floats = {1}
  MaxClicks = 2
  MaxInFlight = 2
  MaxQuantity = 2
  MaxShifts = 1
INVARIANT OneSalePerBasket
