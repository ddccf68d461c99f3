---------------------------- MODULE StockRefinement ----------------------------
(***************************************************************************)
(* StockSessions against ShopLedger.  ShopLedger takes a handler to be one *)
(* step, which is so on SQLite.  Here it is compared with what the same    *)
(* handlers do statement by statement on PostgreSQL: each COMMIT is a step *)
(* of ShopLedger and every other statement none, with one exception.       *)
(***************************************************************************)
EXTENDS StockSessions, FiniteSets

CONSTANT MaxQuantity  \* ShopLedger's bound of a balance

\* An item is the sale it belongs to and its number there; no sale has two items
\* of one product (services.py:37).
ASSUME SalesAssumption ==
  /\ IsFiniteSet(Sales) /\ Sales = 1 .. Cardinality(Sales)
  /\ Items \subseteq Sales \X Nat /\ \A i \in Items : Sold[i].sale = i[1]
  /\ \A i, j \in Items :
       Sold[i].sale = Sold[j].sale /\ Sold[i].product = Sold[j].product => i = j
ASSUME SessionsAssumption == IsFiniteSet(Sessions)

\* An adjustment is of one product, and not by nothing (services_inventory.py:14).
ASSUME AdjustAssumption ==
  \A c \in Calls : c.op = "adjust" => Len(c.lines) = 1 /\ c.lines[1].quantity # 0

Cashier == "cashier"
Place(f) == [r \in Products \X {Location} |-> f[r[1]]]
Asking(op) == {c \in Calls : c.op = op}

\* Every piece costs one cent, so that what is refunded is what is returned.
Price == [p \in Products |-> [retail |-> 1, wholesale |-> 1, active |-> TRUE]]
Goods(lines) == [n \in DOMAIN lines |-> [product |-> lines[n].product,
                                         quantity |-> lines[n].quantity]]
ItemNos(s) == {i[2] : i \in {i \in Items : i[1] = s}}
Bill(s) == [key |-> s, location |-> Location,
            items |-> [n \in ItemNos(s) |-> [product |-> Sold[<<s, n>>].product,
                                             quantity |-> Sold[<<s, n>>].quantity,
                                             unit_price |-> 1]]]
TakenBack == [s \in Sales |-> [n \in ItemNos(s) |-> returned[<<s, n>>]]]
Drawers == [s \in DOMAIN shifts |->
              [user |-> Cashier, location |-> Location, opening |-> 0,
               closing |-> shifts[s].closing, open |-> shifts[s].open]]

Shop == INSTANCE ShopLedger WITH
  Users <- {Cashier}, Locations <- {Location}, ActiveLocations <- {Location},
  Stock <- [r \in {<<p, Location>> : p \in {p \in Products : Opening[p] # None}} |->
              [quantity |-> Opening[r[1]], reserved |-> 0]],
  Catalogs <- {Price}, Keys <- {}, Carts <- {},
  ReturnRequests <- {[n \in DOMAIN c.lines |-> [item |-> c.lines[n].item[2],
                                                quantity |-> c.lines[n].quantity]]
                      : c \in Asking("return")},
  Adjustments <- {[product |-> c.lines[1].product, location |-> Location,
                   delta |-> c.lines[1].quantity, reason |-> "counted"] : c \in Asking("adjust")},
  Deliveries <- {[location |-> Location, items |-> Goods(c.lines)] : c \in Asking("receive")},
  Floats <- {0} \cup {c.cash : c \in Asking("close")},
  Scale <- 1, Least <- 1, MaxShifts <- Cardinality(Sessions) + 1,
  MaxSales <- Cardinality(Sales), MaxRefund <- 0,
  catalog <- Price, balance <- Place(balance), moved <- Place(moved), shifts <- Drawers,
  sales <- [s \in Sales |-> Bill(s)], returned <- TakenBack, refunded <- TakenBack,
  idem <- <<>>, answer <- None

\* What ShopLedger's OpenShift forbids: a shift opened next to an open one.
SecondShift ==
  /\ HasOpenShift
  /\ shifts' = Append(shifts, [open |-> TRUE, closing |-> None])
  /\ UNCHANGED <<balance, moved, returned>>

\* On PostgreSQL too adjustments, deliveries, returns and shifts are the steps
\* they are in ShopLedger, each whole or not at all, whatever the order of the
\* statements; only a second shift can be opened (services_inventory.py:11-43,
\* receiving.py:23-44, api.py:61-77).
ImplementsShopLedger == [][Shop!Next \/ SecondShift]_(Shop!vars)
=============================================================================
