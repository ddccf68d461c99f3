--------------------------- MODULE AtomicCheckout ---------------------------
(***************************************************************************)
(* What checkout_sale promises its callers, whatever else runs: a key      *)
(* buys once, a sale is one indivisible step, it takes exactly the goods   *)
(* asked for and only if all of them are there, and it is charged from one *)
(* price list.                                                             *)
(***************************************************************************)
EXTENDS Integers, Sequences, Functions

CONSTANTS Keys, Requests, Opening, Catalogs, None

VARIABLES
  stock,   \* what is left of each item
  orders,  \* the sales, in order
  bought   \* the sale each key stands for; None before it buys

avars == <<stock, orders, bought>>

Lines(q) == DOMAIN q.lines
Wants(q, i) ==
  SumFunction([n \in Lines(q) |->
    IF <<q.lines[n].product, q.location>> = i THEN q.lines[n].quantity ELSE 0])
Price(q, c) ==
  SumFunction([n \in Lines(q) |-> c[q.lines[n].product].price * q.lines[n].quantity])

Sell(k, q) ==
  /\ bought[k] = None
  /\ \A n \in Lines(q) : <<q.lines[n].product, q.location>> \in DOMAIN Opening
  /\ \A i \in DOMAIN Opening : Wants(q, i) <= stock[i]
  /\ stock' = [i \in DOMAIN Opening |-> stock[i] - Wants(q, i)]
  /\ \E c \in Catalogs :
       orders' = Append(orders, [key |-> k, currency |-> q.currency, total |-> Price(q, c),
                                 goods |-> [i \in DOMAIN Opening |-> Wants(q, i)]])
  /\ bought' = [bought EXCEPT ![k] = Len(orders')]

AInit ==
  /\ stock = Opening
  /\ orders = <<>>
  /\ bought = [k \in Keys |-> None]

ANext == \E k \in Keys, q \in Requests : Sell(k, q)

ASpec == AInit /\ [][ANext]_avars
=============================================================================
