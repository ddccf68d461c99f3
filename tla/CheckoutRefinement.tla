------------------------- MODULE CheckoutRefinement -------------------------
(* checkout_sale implements AtomicCheckout: every step of a session is a   *)
(* step of nobody's shop but its commit, which is the sale.                *)
EXTENDS CheckoutSale

\* The key a committed sale is recorded under.
KeyOf(s) == CHOOSE k \in Keys : records[k] # None /\ records[k].sale = s

GoodsOf(s) ==
  [i \in Items |-> SumFunction([n \in DOMAIN sales[s].lines |->
     IF sales[s].lines[n].item = i THEN sales[s].lines[n].quantity ELSE 0])]

Orders ==
  [s \in DOMAIN sales |->
     [key |-> KeyOf(s), currency |-> sales[s].currency,
      total |-> sales[s].total, goods |-> GoodsOf(s)]]
Bought == [k \in Keys |-> IF records[k] = None THEN None ELSE records[k].sale]

Promised == INSTANCE AtomicCheckout WITH stock <- quantity, orders <- Orders, bought <- Bought

\* Seen from the tables alone, sessions that interleave, deadlock and crash
\* behave like sales made one at a time, each once, each for all it asked.
ImplementsAtomicCheckout == Promised!ASpec
=============================================================================
