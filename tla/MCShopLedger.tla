---------------------------- MODULE MCShopLedger ----------------------------
(* Small shops for ShopLedger: columns hold halves of a piece, requests     *)
(* sixths.                                                                 *)
EXTENDS ShopLedger, TLC

CONSTANTS ann, rice, soap, lost, shop, depot, k1, k2

Of(p, n) == [product |-> p, quantity |-> n]
Pay(method, n) == [method |-> method, amount |-> n]
Cart(l, c, items, payments) ==
  [location |-> l, customer |-> c, items |-> items, payments |-> payments]

\* Rice is sold by weight at 3 cents a piece, 2 to wholesale customers.
PriceList(retail, active) ==
  (rice :> [retail |-> retail, wholesale |-> 2, active |-> TRUE])
    @@ (soap :> [retail |-> 3, wholesale |-> 1, active |-> active])
FixedCatalog == {PriceList(3, TRUE)}
EditedCatalogs == {PriceList(3, TRUE), PriceList(5, FALSE)}

Half == 3

AnyKey == Permutations(Keys)

\* Five half-pieces of rice, one of them put by for somebody.
Shelf == (<<rice, shop>> :> [quantity |-> 5 * Half, reserved |-> Half])
           @@ (<<soap, shop>> :> [quantity |-> 3 * Half, reserved |-> 0])
Rice == <<rice, shop>> :> [quantity |-> 5 * Half, reserved |-> Half]

\* Half pieces, whole ones, parts that the column does not hold, two lines, two
\* ways to pay; a line named twice, a total rounded once, a customer, a location
\* and a method of payment that are not there, more than the shelf holds, nothing.
ShopCarts ==
  {Cart(shop, "none", <<Of(rice, 2 * Half)>>, <<Pay("CASH", 3)>>),
   Cart(None, "retail", <<Of(rice, Half), Of(soap, Half)>>, <<Pay("CASH", 1), Pay("POS", 3)>>),
   Cart(shop, "wholesale", <<Of(rice, 4), Of(soap, 1)>>, <<Pay("TRANSFER", 1)>>),
   Cart(shop, "none", <<Of(rice, Half), Of(soap, Half)>>, <<Pay("CASH", 3)>>),
   Cart(shop, "none", <<Of(rice, Half), Of(rice, Half)>>, <<Pay("CASH", 4)>>),
   Cart(shop, "none", <<Of(rice, 6 * Half)>>, <<Pay("CASH", 9)>>),
   Cart(depot, "none", <<Of(rice, 2 * Half)>>, <<Pay("CASH", 3)>>),
   Cart(shop, "unknown", <<Of(rice, 2 * Half)>>, <<Pay("CHEQUE", 3)>>),
   Cart(shop, "none", <<>>, <<>>)}
Back(i, n) == [item |-> i, quantity |-> n]
StockReturns ==
  {<<>>, <<Back(1, 1)>>, <<Back(1, 2)>>, <<Back(1, Half)>>, <<Back(1, 2 * Half)>>,
   <<Back(1, Half), Back(2, Half)>>, <<Back(1, 2 * Half), Back(1, Half)>>}
StockAdjustments ==
  {[product |-> rice, location |-> shop, delta |-> -5, reason |-> "spoiled"],
   [product |-> rice, location |-> shop, delta |-> Half, reason |-> ""]}
StockDeliveries ==
  {[location |-> shop, items |-> <<Of(rice, Half), Of(rice, Half)>>],
   [location |-> shop, items |-> <<Of(soap, Half), Of(lost, Half)>>]}

Drawers == {-1, 2}

OneCart == {Cart(shop, "none", <<Of(rice, 2 * Half)>>, <<Pay("CASH", 3)>>)}
TwoCarts == OneCart \cup {Cart(shop, "none", <<Of(rice, 4 * Half)>>, <<Pay("CASH", 6)>>)}
HalfReturns == {<<Back(1, Half)>>}
=============================================================================
