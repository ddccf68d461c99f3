SPECIFICATION Spec
CONSTANTS
  ann = ann  rice = rice  shop = shop
  None = None
  Users = {ann}
  Products = {rice}
  Location = shop
  Stock <- Shelf
  Catalogs <- EditedCatalogs
  Floats = {1}
  MaxClicks = 2
  MaxInFlight = 2
  MaxQuantity = 1
  MaxShifts = 1
INVARIANTS TypeOK ChargedAsShown
PROPERTY CartLeavesWithASale
