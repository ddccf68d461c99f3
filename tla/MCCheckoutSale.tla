--------------------------- MODULE MCCheckoutSale ---------------------------
(* Small shops for CheckoutSale.                                           *)
EXTENDS CheckoutRefinement, TLC

CONSTANTS t1, t2, k1, k2, shirt, shoe, shop, depot

Of(p, n) == [product |-> p, quantity |-> n]
Cart(ls, loc, cur) == [lines |-> ls, location |-> loc, currency |-> cur]

TwoRows == (<<shirt, shop>> :> 2) @@ (<<shoe, shop>> :> 1)

\* Enough for two carts, so that a key is still to be taken twice.
FullShelf == (<<shirt, shop>> :> 2) @@ (<<shoe, shop>> :> 2) @@ (<<shirt, depot>> :> 2)

PriceList(p) == (shirt :> [active |-> TRUE, price |-> p])
                  @@ (shoe :> [active |-> TRUE, price |-> 1])
Discontinued == (shirt :> [active |-> TRUE, price |-> 3])
                  @@ (shoe :> [active |-> FALSE, price |-> 1])

FixedCatalog == {PriceList(2)}
EditedCatalogs == {PriceList(2), Discontinued}

\* Races for the last units, with the two rows named in both orders.
Races ==
  {Cart(<<Of(shirt, 1), Of(shoe, 1)>>, shop, "NGN"),
   Cart(<<Of(shoe, 1), Of(shirt, 2)>>, shop, "NGN"),
   Cart(<<Of(shirt, 1)>>, shop, "NGN")}

\* Two carts that lock the rows in opposite orders; one of them, and one of
\* its lines, where rows are missing; less than nothing.
Mixed ==
  {Cart(<<Of(shirt, 1), Of(shoe, 1)>>, shop, "NGN"),
   Cart(<<Of(shoe, 1), Of(shirt, 2)>>, shop, "NGN"),
   Cart(<<Of(shirt, 1), Of(shoe, 1)>>, depot, "NGN"),
   Cart(<<Of(shoe, 1)>>, depot, "NGN"),
   Cart(<<Of(shirt, -1)>>, shop, "NGN")}

TwiceNamed == {Cart(<<Of(shirt, 2), Of(shirt, 2)>>, shop, "NGN")}
=============================================================================
