SPECIFICATION FairSpec
CONSTANTS
  t1 = t1  t2 = t2  k1 = k1  k2 = k2
  shirt = shirt  shoe = shoe  shop = shop  depot = depot
  None = None
  Txns = {t1, t2}
  Keys = {k1, k2}
  Products = {shirt, shoe}
  Requests <- Mixed
  Opening <- FullShelf
  Catalogs <- EditedCatalogs
INVARIANTS TypeOK LedgerExact FreshRows NeverOversold OneSalePerKey BooksAgree AnswersHold
PROPERTIES HistoryPermanent ImplementsAtomicCheckout CallsEnd
