--------------------------- MODULE MCStockSessions ---------------------------
(* A small shop on PostgreSQL for StockSessions.                           *)
EXTENDS StockRefinement, TLC

CONSTANTS t1, t2, t3, rice, soap, salt, shop, drawer

\* Two sales of the same goods.
TwoSales ==
  (<<1, 1>> :> [sale |-> 1, product |-> rice, quantity |-> 1])
    @@ (<<1, 2>> :> [sale |-> 1, product |-> soap, quantity |-> 1])
    @@ (<<2, 1>> :> [sale |-> 2, product |-> soap, quantity |-> 1])
    @@ (<<2, 2>> :> [sale |-> 2, product |-> rice, quantity |-> 1])

\* Nothing of the salt was ever here.
Shelf == (rice :> 2) @@ (soap :> 0) @@ (salt :> None)

Of(p, n) == [product |-> p, quantity |-> n, item |-> None]
Back(i, n) == [product |-> TwoSales[i].product, quantity |-> n, item |-> i]
Asked(op, lines) == [op |-> op, sale |-> None, lines |-> lines, cash |-> None]
Return(sale, lines) == [Asked("return", lines) EXCEPT !.sale = sale]
Close(cash) == [Asked("close", <<>>) EXCEPT !.cash = cash]

\* Write-offs, deliveries and returns that name the rows in both orders, rows
\* that are missing, a return twice over, a shift opened and closed.
Requests ==
  {Asked("adjust", <<Of(rice, -2)>>), Asked("adjust", <<Of(salt, 1)>>),
   Asked("receive", <<Of(salt, 1), Of(rice, 1)>>),
   Return(1, <<Back(<<1, 1>>, 1), Back(<<1, 2>>, 1)>>),
   Return(2, <<Back(<<2, 1>>, 1), Back(<<2, 2>>, 1)>>),
   Asked("open", <<>>), Close(3), Close(4)}
=============================================================================
