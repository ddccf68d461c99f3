------------------------------ MODULE PosTerminal ------------------------------
(***************************************************************************)
(* The till, components/POS.tsx, composed with the backend it talks to,    *)
(* which is ShopLedger.  A click sends a request and the page goes on; the *)
(* server may serve requests and the page hear answers in any order, and   *)
(* either can be lost: fetch rejects, and nothing catches it.  The page    *)
(* can be loaded anew at any time and keeps only the token.                *)
(*                                                                         *)
(* Finding a product and clicking it is one step; what is in the cart is   *)
(* as old as that step.  The box "Wholesale pricing" can be ticked or not  *)
(* at any click.  Receipts only read.                                      *)
(***************************************************************************)
EXTENDS Integers, Sequences, Bags, FiniteSetsExt

CONSTANTS
  Users, Products, Location, Stock, Catalogs, None,  \* as in ShopLedger
  Floats,        \* amounts of cash typed in
  MaxClicks,     \* sales clicked for,
  MaxInFlight,   \* requests under way,
  MaxQuantity,   \* pieces in the cart,
  MaxShifts      \* and shifts: bounds of the models

VARIABLES
  catalog, balance, moved, shifts, sales, returned, refunded, idem, answer,  \* ShopLedger
  token,      \* whose token the page has
  shift,      \* the shift it shows
  cart,       \* the lines of the cart: [product, retail, quantity]
  lastSale,   \* the sale whose receipt can be printed
  requests,   \* requests and answers under way
  basket,     \* the keys drawn before the cart was last empty
  drawn       \* for each key: the basket and the total it was drawn for

Keys == 1 .. MaxClicks

Shop == INSTANCE ShopLedger WITH
  Locations <- {Location}, ActiveLocations <- {Location}, Carts <- {}, ReturnRequests <- {},
  Adjustments <- {}, Deliveries <- {}, Scale <- 1, Least <- 1, MaxSales <- MaxClicks, MaxRefund <- 0

server == <<catalog, balance, moved, shifts, sales, returned, refunded, idem, answer>>
till == <<token, shift, cart, lastSale, basket, drawn>>
vars == <<server, till, requests>>

ASSUME StockAssumption ==
  /\ DOMAIN Stock \subseteq Products \X {Location}
  /\ \A r \in DOMAIN Stock : Stock[r] \in [quantity: Nat, reserved: Nat]
ASSUME CatalogAssumption ==
  Catalogs # {} /\ Catalogs \subseteq [Products -> [retail: Nat, wholesale: Nat, active: BOOLEAN]]
ASSUME FloatAssumption == Floats \subseteq Nat
ASSUME BoundAssumption == MaxClicks \in Nat /\ MaxQuantity \in Nat \ {0}
ASSUME NoneAssumption == None \notin Users \cup {Location} \cup Int

-----------------------------------------------------------------------------
(* Requests.                                                               *)

Blank == [kind |-> "shifts", user |-> None, shift |-> None, cash |-> 0, key |-> None,
          cart |-> None, sale |-> None, served |-> FALSE, reply |-> None, gone |-> FALSE]

\* The reply of a request that was refused; ids begin with 1.
Refused == 0

\* requests is a bag: two clicks can send the same request twice.
Sent(bag, r) ==
  /\ BagCardinality(bag) < MaxInFlight
  /\ requests' = bag (+) SetToBag({r})
Send(r) == Sent(requests, r)
Without(r) == requests (-) SetToBag({r})

\* The page that asked is gone.
Gone(r) == [r EXCEPT !.gone = TRUE]

Asks(kind) == [Blank EXCEPT !.kind = kind, !.user = token]

\* Nobody hears the answer to a page that is gone.
Serve(r, reply) ==
  requests' = IF r.gone THEN Without(r)
              ELSE Without(r) (+) SetToBag({[r EXCEPT !.served = TRUE, !.reply = reply]})

Hear(r) ==
  /\ r.served
  /\ requests' = Without(r)
  /\ UNCHANGED server

Lose(r) == requests' = Without(r) /\ UNCHANGED <<server, till>>

-----------------------------------------------------------------------------
(* The page.                                                               *)

Empties == cart' = <<>> /\ basket' = Len(drawn)

\* A password that is wrong is as a request that is lost.
ClickLogin(u) ==
  /\ token = None
  /\ Send([Blank EXCEPT !.kind = "login", !.user = u])
  /\ UNCHANGED <<server, till>>

Reload ==
  /\ token # None
  /\ LET waiting == {r \in BagToSet(requests) : ~r.served} IN
     Sent(BagOfAll(Gone, [r \in waiting |-> requests[r]]), [Blank EXCEPT !.user = token])
  /\ shift' = None /\ lastSale' = None
  /\ Empties
  /\ UNCHANGED <<server, token, drawn>>

Logout ==
  /\ token # None
  /\ token' = None /\ shift' = None
  /\ Empties
  /\ UNCHANGED <<server, lastSale, drawn, requests>>

ClickOpenShift(cash) ==
  /\ token # None /\ shift = None
  /\ Send([Asks("open") EXCEPT !.cash = cash])
  /\ UNCHANGED <<server, till>>

\* A click on the page with the cart.
Selling == token # None /\ shift # None

ClickCloseShift(cash) ==
  /\ Selling
  /\ Send([Asks("close") EXCEPT !.shift = shift, !.cash = cash])
  /\ UNCHANGED <<server, till>>

LineOf(p) == {n \in DOMAIN cart : cart[n].product = p}

\* A product that is in the cart keeps the price it came with.
Add(p) ==
  /\ Selling
  /\ LineOf(p) # {} \/ catalog[p].active
  /\ \A n \in LineOf(p) : cart[n].quantity < MaxQuantity
  /\ cart' = IF LineOf(p) = {}
             THEN Append(cart, [product |-> p, retail |-> catalog[p].retail,
                                wholesale |-> catalog[p].wholesale, quantity |-> 1])
             ELSE [n \in DOMAIN cart |-> IF n \in LineOf(p) THEN [cart[n] EXCEPT !.quantity = @ + 1]
                                                           ELSE cart[n]]
  /\ UNCHANGED <<server, token, shift, lastSale, basket, drawn, requests>>

\* The button "-"; "+" is Add with the price the line has.
Less(p) ==
  [n \in DOMAIN cart |-> IF n \in LineOf(p) THEN [cart[n] EXCEPT !.quantity = @ - 1] ELSE cart[n]]

\* filter(x => x.quantity > 0), as a recursive function of how far it is.
Filtered(lines) ==
  LET kept[n \in 0 .. Len(lines)] ==
        IF n = 0 THEN <<>>
        ELSE IF lines[n].quantity > 0 THEN Append(kept[n - 1], lines[n]) ELSE kept[n - 1]
  IN  kept[Len(lines)]

OneLess_KeepsZero(p) == Less(p)
OneLess(p) == Filtered(Less(p))

TakeOut(p) ==
  /\ Selling
  /\ LineOf(p) # {}
  /\ cart' = OneLess(p)
  /\ basket' = IF cart' = <<>> THEN Len(drawn) ELSE basket
  /\ UNCHANGED <<server, token, shift, lastSale, drawn, requests>>

ShownTotal(wholesale) ==
  SumFunction([n \in DOMAIN cart |->
                 (IF wholesale THEN cart[n].wholesale ELSE cart[n].retail) * cart[n].quantity])

\* What is sent has no customer; the amount paid is the total on the screen.
Order(wholesale) == [location |-> Location, customer |-> "none",
          items |-> [n \in DOMAIN cart |-> [product |-> cart[n].product,
                                            quantity |-> cart[n].quantity]],
          payments |-> <<[method |-> "CASH", amount |-> ShownTotal(wholesale)]>>]

\* Every click draws a key, and the button stays enabled.
ClickCheckout(wholesale) ==
  /\ Selling /\ cart # <<>>
  /\ Len(drawn) < MaxClicks
  /\ drawn' = Append(drawn, [basket |-> basket, total |-> ShownTotal(wholesale)])
  /\ Send([Asks("checkout") EXCEPT !.shift = shift, !.key = Len(drawn) + 1, !.cart = Order(wholesale)])
  /\ UNCHANGED <<server, token, shift, cart, lastSale, basket>>

\* One piece of the first item of any sale whose number is typed in.
ClickReturn(sale) ==
  /\ Selling
  /\ Send([Asks("return") EXCEPT !.sale = sale])
  /\ UNCHANGED <<server, till>>

-----------------------------------------------------------------------------
(* The server: ShopLedger's handlers, and what they answer.                *)

ServeLogin(r) ==
  /\ r.kind = "login"
  /\ Serve(r, r.user)
  /\ UNCHANGED <<server, till>>

\* A list that the server fails to give is as an empty one.
ServeShifts(r) ==
  LET mine == {s \in DOMAIN shifts : shifts[s].user = r.user /\ shifts[s].open} IN
  /\ r.kind = "shifts"
  /\ \E reply \in {None, IF mine = {} THEN None ELSE Min(mine)} : Serve(r, reply)
  /\ UNCHANGED <<server, till>>

ServeOpen(r) ==
  /\ r.kind = "open"
  /\ IF Shop!HasOpenShift(r.user)
     THEN Serve(r, Refused) /\ UNCHANGED server
     ELSE Shop!OpenShift(r.user, Location, r.cash) /\ Serve(r, Len(shifts) + 1)
  /\ UNCHANGED till

\* Somebody else's shift is not found; a closed one is shown as it is.
ServeClose(r) ==
  /\ r.kind = "close"
  /\ IF Shop!OpenShiftOf(r.user, r.shift)
     THEN Shop!CloseShift(r.user, r.shift, r.cash) /\ Serve(r, None)
     ELSE /\ Serve(r, IF shifts[r.shift].user = r.user THEN None ELSE Refused)
          /\ UNCHANGED server
  /\ UNCHANGED till

ServeCheckout(r) ==
  /\ r.kind = "checkout"
  /\ Shop!Checkout(r.user, r.key, r.shift, r.cart)
  /\ Serve(r, IF answer'.sale = None THEN Refused ELSE answer'.sale)
  /\ UNCHANGED till

ServeReturn(r) ==
  LET rows == <<[item |-> 1, quantity |-> 1]>> IN
  /\ r.kind = "return"
  /\ IF Shop!Returnable(r.sale, rows)
     THEN Shop!ReturnSale(r.sale, rows) /\ Serve(r, None)
     ELSE Serve(r, Refused) /\ UNCHANGED server
  /\ UNCHANGED till

-----------------------------------------------------------------------------
(* The page hears an answer, whatever it shows by then.                    *)

\* The effect on the token asks for the shifts of whoever has signed in.
HearLogin(r) ==
  /\ r.kind = "login" /\ r.served
  /\ token' = r.reply
  /\ requests' = IF token = r.reply THEN Without(r)
                 ELSE Without(r) (+) SetToBag({[Blank EXCEPT !.user = r.reply]})
  /\ UNCHANGED <<server, shift, cart, lastSale, basket, drawn>>

\* The list of shifts, the new shift or the end of one sets what is shown.
HearShift(r) ==
  /\ r.kind \in {"shifts", "open", "close"}
  /\ Hear(r)
  /\ shift' = IF r.reply = Refused THEN shift ELSE r.reply
  /\ UNCHANGED <<token, cart, lastSale, basket, drawn>>

Sold_Unasked(r) == r.served
Sold(r) == r.reply # Refused
HearCheckout(r) ==
  /\ r.kind = "checkout"
  /\ Hear(r)
  /\ lastSale' = IF r.reply = Refused THEN lastSale ELSE r.reply
  /\ IF Sold(r) THEN Empties ELSE UNCHANGED <<cart, basket>>
  /\ UNCHANGED <<token, shift, drawn>>

HearReturn(r) == r.kind = "return" /\ Hear(r) /\ UNCHANGED till

-----------------------------------------------------------------------------
Init ==
  /\ Shop!Init
  /\ token = None /\ shift = None
  /\ cart = <<>> /\ lastSale = None
  /\ requests = EmptyBag /\ basket = 0 /\ drawn = <<>>

Click ==
  \/ \E u \in Users : ClickLogin(u)
  \/ Reload \/ Logout
  \/ \E cash \in Floats : ClickOpenShift(cash) \/ ClickCloseShift(cash)
  \/ \E p \in Products : Add(p) \/ TakeOut(p)
  \/ \E wholesale \in BOOLEAN : ClickCheckout(wholesale)
  \/ \E sale \in DOMAIN sales : ClickReturn(sale)

Answers(r) ==
  \/ /\ ~r.served
     /\ \/ ServeLogin(r) \/ ServeShifts(r) \/ ServeOpen(r) \/ ServeClose(r)
        \/ ServeCheckout(r) \/ ServeReturn(r)
  \/ HearLogin(r) \/ HearShift(r) \/ HearCheckout(r) \/ HearReturn(r)
  \/ Lose(r)

EditCatalog == Shop!EditCatalog /\ UNCHANGED <<till, requests>>

Next == Click \/ (\E r \in BagToSet(requests) : Answers(r)) \/ EditCatalog

Spec == Init /\ [][Next]_vars

-----------------------------------------------------------------------------
(* Properties                                                              *)

\* The page shows what the server has: shifts and sales that exist, lines with
\* a positive quantity of products at a price they once had, one line each
\* (POS.tsx:6, 15, 16).
TypeOK ==
  /\ token \in Users \cup {None}
  /\ shift \in DOMAIN shifts \cup {None} /\ lastSale \in DOMAIN sales \cup {None}
  /\ \A n \in DOMAIN cart :
       /\ cart[n].quantity \in 1 .. MaxQuantity
       /\ \E c \in Catalogs : cart[n].retail = c[cart[n].product].retail
       /\ LineOf(cart[n].product) = {n}
  /\ \A r \in BagToSet(requests) : r.served => ~r.gone
  /\ \A k \in DOMAIN drawn : drawn[k].basket < k /\ drawn[k].total \in Nat

\* A click sends what the page shows, at the prices it found then.  Whatever was
\* repriced meanwhile, the sale costs what was on the screen or is refused
\* (POS.tsx:10, 15, 17; services.py:75).
ChargedAsShown ==
  \A i \in DOMAIN sales : sales[i].total = drawn[sales[i].key].total

\* However late it comes, an answer that empties the cart tells of the sale that
\* was asked for: a refusal, or the answer of any other request, leaves the cart
\* alone (POS.tsx:13, 14, 17, 19).
CartLeavesWithASale ==
  [][\A r \in BagToSet(requests) : requests' = Without(r) /\ cart' # cart
       => lastSale' \in DOMAIN sales /\ sales[lastSale'].key = r.key]_vars

\* docs/architecture/invariants/pos.md:5: "POS-003: Repeated submit/retry
\* operations are idempotent."  A cart that is submitted again because the
\* answer is late or lost is sold once (POS.tsx:17).
OneSalePerBasket ==
  \A i, j \in DOMAIN sales :
    /\ drawn[sales[i].key].basket = drawn[sales[j].key].basket
    /\ sales[i].cart = sales[j].cart
    => i = j
=============================================================================
