------------------------------ MODULE ShopLedger ------------------------------
(***************************************************************************)
(* The point-of-sale backend, backend/commerce: checkout (services.py),    *)
(* stock adjustments and returns (services_inventory.py), receiving        *)
(* (receiving.py), cashier shifts (api.py) and the drawer's reconciliation *)
(* (reconciliation.py).                                                    *)
(*                                                                         *)
(* Every handler is one database transaction.  On SQLite, the backend's    *)
(* default database and the one on which checkout runs, transactions that  *)
(* write are serial, so a handler is one step here: the steps are its      *)
(* outcomes.  A handler that raises is rolled back and leaves only its     *)
(* answer.                                                                 *)
(*                                                                         *)
(* Amounts of money count cents, as their columns do.  The columns of      *)
(* quantities have three places and requests may have more: quantities     *)
(* count units of 1 / Scale of a piece, and a column holds the multiples   *)
(* of Least.  Whatever is saved is rounded to one of them, by Django, each *)
(* column for itself; prices and checks take what was asked for.           *)
(***************************************************************************)
EXTENDS Integers, Sequences, FiniteSetsExt

CONSTANTS
  Users,            \* cashiers
  Products,         \* rows of Product
  Locations,        \* rows of InventoryLocation
  ActiveLocations,  \* those with active=True
  Stock,            \* first StockBalance rows: <<product, location>> -> [quantity, reserved]
  Catalogs,         \* contents of Product: product -> [retail, wholesale, active]
  Keys,             \* idempotency keys
  Carts,            \* checkout requests: [location, customer, items, payments]
  ReturnRequests,   \* sequences of [item, quantity]
  Adjustments,      \* [product, location, delta, reason]
  Deliveries,       \* receiving requests: [location, items]
  Floats,           \* amounts of cash a drawer is opened and closed with
  Scale,            \* units in a piece
  Least,            \* units in the least quantity a column holds
  MaxShifts, MaxSales, MaxQuantity,  \* bounds of the models,
  MaxRefund,        \* and of what parts too small for the column are refunded
  None

Rows == Products \X Locations
Methods == {"CASH", "POS", "TRANSFER"}
Customers == {"none", "retail", "wholesale", "unknown"}

\* A quantity the columns hold, and one that lies between two of them.
Exact(n) == n % Least = 0
HalfWay(n) == 2 * (n % Least) = Least

ASSUME StockAssumption ==
  /\ DOMAIN Stock \subseteq Rows
  /\ \A r \in DOMAIN Stock :
       Stock[r] \in [quantity: Nat, reserved: Nat] /\ Exact(Stock[r].quantity)
ASSUME CatalogAssumption ==
  Catalogs # {} /\ Catalogs \subseteq [Products -> [retail: Nat, wholesale: Nat, active: BOOLEAN]]
ASSUME ScaleAssumption ==
  Scale \in Nat \ {0} /\ Least \in Nat \ {0} /\ ActiveLocations \subseteq Locations

\* The products a request names need not exist.
Listed(items) ==
  items \in Seq([product: {items[n].product : n \in DOMAIN items}, quantity: Int])
ASSUME CartAssumption ==
  \A q \in Carts :
    /\ q.customer \in Customers /\ Listed(q.items)
    /\ q.payments \in Seq([method: STRING, amount: Int])
ASSUME RequestAssumption ==
  /\ ReturnRequests \subseteq Seq([item: Nat, quantity: Int])
  /\ Adjustments \subseteq [product: Products, location: Locations, delta: Int, reason: STRING]
  /\ \A d \in Deliveries : Listed(d.items) /\ \A n \in DOMAIN d.items : Exact(d.items[n].quantity)
  /\ Floats \subseteq Int
ASSUME NoneAssumption == None \notin Keys \cup Users \cup Locations \cup Int

VARIABLES
  catalog,   \* Product, edited in the admin site
  balance,   \* StockBalance.quantity of each row; None where there is no row
  moved,     \* StockMovement rows, as their sum for each product and location
  shifts,    \* CashierShift rows, by id
  sales,     \* Sale rows with their items and payments, by id
  returned,  \* SaleReturnItem.quantity, summed for each item of each sale
  refunded,  \* SaleReturnItem.refund_amount, summed likewise
  idem,      \* IdempotencyKey.response_sale; None where there is no sale
  answer     \* what the last checkout was answered, [key, sale, same]

stock == <<balance, moved>>
refunds == <<returned, refunded>>
vars == <<catalog, stock, shifts, sales, refunds, idem, answer>>

\* Decimal.quantize: how many times unit, to the nearest, halves to the even one.
Quantized(n, unit) ==
  LET q == n \div unit
      r == n % unit
  IN  IF 2 * r > unit \/ (2 * r = unit /\ q % 2 = 1) THEN q + 1 ELSE q
Cents(n) == Quantized(n, Scale)

\* What is left of a quantity in a column.
Stored(n) == Least * Quantized(n, Least)

-----------------------------------------------------------------------------
(* checkout                                                                *)

UnitPrice(q, p) ==
  IF q.customer = "wholesale" THEN catalog[p].wholesale ELSE catalog[p].retail

Lines(q) ==
  [n \in DOMAIN q.items |->
     [product |-> q.items[n].product, quantity |-> Stored(q.items[n].quantity),
      unit_price |-> UnitPrice(q, q.items[n].product),
      line_total |-> Cents(UnitPrice(q, q.items[n].product) * q.items[n].quantity)]]

Total_RoundedOnce(lines) ==
  Cents(SumFunction([n \in DOMAIN lines |-> lines[n].unit_price * lines[n].quantity]))
Total(lines) == SumFunction([n \in DOMAIN lines |-> lines[n].line_total])

Paid(payments) == SumFunction([n \in DOMAIN payments |-> payments[n].amount])

OpenShiftOf_AnyState(u, s) == s \in DOMAIN shifts /\ shifts[s].user = u
OpenShiftOf(u, s) == s \in DOMAIN shifts /\ shifts[s].user = u /\ shifts[s].open

Distinct_NotAsked(q) == q.items # <<>>
Distinct(q) ==
  q.items # <<>> /\ \A m, n \in DOMAIN q.items :
                      q.items[m].product = q.items[n].product => m = n

\* StockBalance.quantity - reserved_quantity, which no code of the backend sets.
Reserved(r) == IF r \in DOMAIN Stock THEN Stock[r].reserved ELSE 0
Available_ReservedAdded(r) == balance[r] + Reserved(r)
Available(r) == balance[r] - Reserved(r)

Sellable(q, l) ==
  \A n \in DOMAIN q.items :
    LET i == q.items[n] IN
    /\ i.quantity > 0
    /\ i.product \in Products /\ catalog[i.product].active
    /\ balance[<<i.product, l>>] # None
    /\ Available(<<i.product, l>>) >= i.quantity

Settles_WithChange(q) == Paid(q.payments) >= Total(Lines(q))
Settles(q) == Paid(q.payments) = Total(Lines(q))

\* Every check of the code: the order in which they are made shows only in the
\* wording of the refusal.
Acceptable(u, s, q) ==
  /\ OpenShiftOf(u, s)
  /\ q.location \in {None, shifts[s].location}
  /\ q.customer # "unknown"
  /\ Distinct(q)
  /\ Sellable(q, shifts[s].location)
  /\ q.payments # <<>>
  /\ \A n \in DOMAIN q.payments : q.payments[n].amount > 0 /\ q.payments[n].method \in Methods
  /\ Settles(q)

\* Each line saves the row it read while the request was checked, less its own
\* quantity, and writes its own movement.
LinesOn(q, r, l) == {n \in DOMAIN q.items : <<q.items[n].product, l>> = r}
TakeFrom(q, l) ==
  /\ balance' = [r \in Rows |-> IF LinesOn(q, r, l) = {} THEN balance[r]
                               ELSE Stored(balance[r] - q.items[Max(LinesOn(q, r, l))].quantity)]
  /\ moved' = [r \in Rows |->
                 moved[r] - SumFunction([n \in LinesOn(q, r, l) |-> Stored(q.items[n].quantity)])]

\* A checkout that is refused is answered with no sale.  Whether its cart is the
\* one its key has bought is noted for the properties.
Answered(k, q, sale) ==
  answer' = [key |-> k, sale |-> sale,
             same |-> \E i \in DOMAIN sales' : sales'[i].key = k /\ sales'[i].cart = q]

Remember_Nothing(k) == idem' = [idem EXCEPT ![k] = None]
Remember(k) == idem' = [idem EXCEPT ![k] = Len(sales) + 1]

Refuse(k, q) ==
  /\ UNCHANGED <<catalog, stock, shifts, sales, refunds, idem>>
  /\ Answered(k, q, None)

NoKey == Refuse(None, None)

\* The key has a sale: it is the answer, whoever asks and whatever for.
Replay(k, q) ==
  /\ idem[k] # None
  /\ UNCHANGED <<catalog, stock, shifts, sales, refunds, idem>>
  /\ Answered(k, q, idem[k])

Reject(u, k, s, q) ==
  /\ idem[k] = None
  /\ ~Acceptable(u, s, q)
  /\ Refuse(k, q)

\* Sale.idempotency_key is unique too.
Sell(u, k, s, q) ==
  /\ idem[k] = None
  /\ Acceptable(u, s, q)
  /\ IF \E i \in DOMAIN sales : sales[i].key = k
     THEN Refuse(k, q)
     ELSE /\ Len(sales) < MaxSales
          /\ sales' = Append(sales,
               [key |-> k, cashier |-> u, shift |-> s, location |-> shifts[s].location,
                cart |-> q, items |-> Lines(q), total |-> Total(Lines(q)),
                payments |-> q.payments])
          /\ TakeFrom(q, shifts[s].location)
          /\ returned' = Append(returned, [n \in DOMAIN q.items |-> 0])
          /\ refunded' = Append(refunded, [n \in DOMAIN q.items |-> 0])
          /\ Remember(k)
          /\ Answered(k, q, Len(sales) + 1)
          /\ UNCHANGED <<catalog, shifts>>

-----------------------------------------------------------------------------
(* return_sale, adjust_stock and receive: a request that is refused leaves *)
(* nothing behind, so only those that succeed are steps.                   *)

\* dict(...) of the rows: of two that name one item, the later one counts.
Requested(rows) ==
  [i \in {rows[x].item : x \in DOMAIN rows} |->
     rows[Max({x \in DOMAIN rows : rows[x].item = i})].quantity]

\* What earlier returns of the sale have taken back.
Existing_Ignored(sale, i) == 0
Existing(sale, i) == returned[sale][i]

RefundPrice_Current(sale, i) == catalog[sales[sale].items[i].product].retail
RefundPrice(sale, i) == sales[sale].items[i].unit_price

\* quantity is added to rows of one location; a row that is missing is created.
AddTo(l, taken) ==
  LET rows == {<<p, l>> : p \in DOMAIN taken} IN
  /\ balance' = [r \in Rows |-> IF r \notin rows THEN balance[r]
                               ELSE Stored((IF balance[r] = None THEN 0 ELSE balance[r]) + taken[r[1]])]
  /\ moved' = [r \in Rows |-> IF r \notin rows THEN moved[r] ELSE moved[r] + Stored(taken[r[1]])]

Returnable(sale, rows) ==
  LET wanted == Requested(rows) IN
  /\ sale \in DOMAIN sales
  /\ rows # <<>>
  /\ DOMAIN wanted \subseteq DOMAIN sales[sale].items
  /\ \A i \in DOMAIN wanted :
       /\ wanted[i] > 0 /\ Existing(sale, i) + wanted[i] <= sales[sale].items[i].quantity
       /\ Stored(wanted[i]) = 0 => refunded[sale][i] < MaxRefund

ReturnSale(sale, rows) ==
  LET wanted == Requested(rows)
      items == sales[sale].items
      ItemOf(p) == CHOOSE i \in DOMAIN wanted : items[i].product = p
  IN  /\ Returnable(sale, rows)
      /\ returned' = [returned EXCEPT ![sale] =
           [i \in DOMAIN items |-> IF i \in DOMAIN wanted THEN @[i] + Stored(wanted[i]) ELSE @[i]]]
      /\ refunded' = [refunded EXCEPT ![sale] =
           [i \in DOMAIN items |-> IF i \in DOMAIN wanted
                                   THEN @[i] + Cents(RefundPrice(sale, i) * wanted[i])
                                   ELSE @[i]]]
      /\ AddTo(sales[sale].location,
               [p \in {items[i].product : i \in DOMAIN wanted} |-> wanted[ItemOf(p)]])
      /\ UNCHANGED <<catalog, shifts, sales, idem, answer>>

AdjustStock(a) ==
  LET r == <<a.product, a.location>>
      before == IF balance[r] = None THEN 0 ELSE balance[r]
  IN  /\ a.delta # 0 /\ a.reason # ""
      /\ catalog[a.product].active /\ a.location \in ActiveLocations
      /\ before + a.delta >= 0
      /\ before + a.delta <= MaxQuantity
      /\ balance' = [balance EXCEPT ![r] = Stored(before + a.delta)]
      /\ moved' = [moved EXCEPT ![r] = @ + Stored(a.delta)]
      /\ UNCHANGED <<catalog, shifts, sales, refunds, idem, answer>>

Receive(d) ==
  LET products == {d.items[n].product : n \in DOMAIN d.items}
      taken == [p \in products |->
                  SumFunction([n \in {n \in DOMAIN d.items : d.items[n].product = p} |->
                                 d.items[n].quantity])]
  IN  /\ d.items # <<>> /\ \A n \in DOMAIN d.items : d.items[n].quantity > 0
      /\ d.location \in ActiveLocations
      /\ \A p \in products : p \in Products /\ catalog[p].active
      /\ \A p \in products :
           LET b == balance[<<p, d.location>>] IN
           (IF b = None THEN 0 ELSE b) + taken[p] <= MaxQuantity
      /\ AddTo(d.location, taken)
      /\ UNCHANGED <<catalog, shifts, sales, refunds, idem, answer>>

-----------------------------------------------------------------------------
(* Cashier shifts, and what the drawer should hold.                        *)

HasOpenShift(u) == \E s \in DOMAIN shifts : shifts[s].user = u /\ shifts[s].open

OpenShift(u, l, cash) ==
  /\ ~HasOpenShift(u)
  /\ cash >= 0
  /\ Len(shifts) < MaxShifts
  /\ shifts' = Append(shifts, [user |-> u, location |-> l, opening |-> cash,
                               closing |-> None, open |-> TRUE])
  /\ UNCHANGED <<catalog, stock, sales, refunds, idem, answer>>

Closed_NoCash(shift, cash) == [shift EXCEPT !.open = FALSE]
Closed(shift, cash) == [shift EXCEPT !.open = FALSE, !.closing = cash]

\* A shift that is closed already is answered as it is.
CloseShift(u, s, cash) ==
  /\ OpenShiftOf(u, s)
  /\ cash >= 0
  /\ shifts' = [shifts EXCEPT ![s] = Closed(@, cash)]
  /\ UNCHANGED <<catalog, stock, sales, refunds, idem, answer>>

\* summary: what a drawer took, should hold and is short of once it is counted.
SalesOf(s) == {i \in DOMAIN sales : sales[i].shift = s}
PaidBy(payments, method) ==
  SumFunction([n \in {n \in DOMAIN payments : payments[n].method = method} |-> payments[n].amount])
ByMethod(s, method) == SumFunction([i \in SalesOf(s) |-> PaidBy(sales[i].payments, method)])
Summary(s) ==
  LET cash == ByMethod(s, "CASH")
      expected == shifts[s].opening + cash
  IN  [cash_sales |-> cash, expected_cash |-> expected,
       variance |-> IF shifts[s].closing = None THEN None ELSE shifts[s].closing - expected]

EditCatalog ==
  /\ catalog' \in Catalogs
  /\ UNCHANGED <<stock, shifts, sales, refunds, idem, answer>>

-----------------------------------------------------------------------------
NoAnswer == [key |-> None, sale |-> None, same |-> FALSE]

Init ==
  /\ catalog \in Catalogs
  /\ balance = [r \in Rows |-> IF r \in DOMAIN Stock THEN Stock[r].quantity ELSE None]
  /\ moved = [r \in Rows |-> 0]
  /\ shifts = <<>> /\ sales = <<>> /\ returned = <<>> /\ refunded = <<>>
  /\ idem = [k \in Keys |-> None]
  /\ answer = NoAnswer

Checkout(u, k, s, q) == Replay(k, q) \/ Reject(u, k, s, q) \/ Sell(u, k, s, q)

Next ==
  \/ NoKey
  \/ \E u \in Users, k \in Keys, s \in 1 .. MaxShifts, q \in Carts : Checkout(u, k, s, q)
  \/ \E sale \in 1 .. Len(sales), rows \in ReturnRequests : ReturnSale(sale, rows)
  \/ \E a \in Adjustments : AdjustStock(a)
  \/ \E d \in Deliveries : Receive(d)
  \/ \E u \in Users, l \in Locations, cash \in Floats : OpenShift(u, l, cash)
  \/ \E u \in Users, s \in 1 .. MaxShifts, cash \in Floats : CloseShift(u, s, cash)
  \/ EditCatalog

Spec == Init /\ [][Next]_vars

-----------------------------------------------------------------------------
(* Properties                                                              *)

Units(sale) == DOMAIN sales[sale].items

ShiftRow == [user: Users, location: Locations, opening: Nat, closing: Nat \cup {None},
             open: BOOLEAN]
ItemRow == [product: Products, quantity: Nat, unit_price: Nat, line_total: Nat]
PaymentRow == [method: Methods, amount: Nat]
SaleRow == [key: Keys, cashier: Users, shift: Nat, location: Locations, cart: Carts,
            items: Seq(ItemRow), total: Nat, payments: Seq(PaymentRow)]

\* The tables have the columns of models.py and in them what these can hold;
\* what is returned and refunded is kept for every item of every sale, and a
\* closed shift has its closing cash.
TypeOK ==
  /\ catalog \in Catalogs
  /\ balance \in [Rows -> Int \cup {None}] /\ moved \in [Rows -> Int]
  /\ \A r \in Rows : balance[r] # None => Exact(balance[r])
  /\ shifts \in Seq(ShiftRow)
  /\ \A s \in DOMAIN shifts : shifts[s].open <=> shifts[s].closing = None
  /\ sales \in Seq(SaleRow) /\ \A i \in DOMAIN sales : sales[i].shift \in DOMAIN shifts
  /\ returned \in Seq(Seq(Nat)) /\ refunded \in Seq(Seq(Nat))
  /\ Len(returned) = Len(sales) /\ Len(refunded) = Len(sales)
  /\ \A i \in DOMAIN sales :
       /\ DOMAIN returned[i] = Units(i) /\ DOMAIN refunded[i] = Units(i)
       /\ \A n \in Units(i) : Exact(returned[i][n]) /\ Exact(sales[i].items[n].quantity)
  /\ idem \in [Keys -> DOMAIN sales \cup {None}]
  /\ answer \in [key: Keys \cup {None}, sale: Nat \cup {None}, same: BOOLEAN]

\* No request lies half-way between two quantities of the column.
NoHalves ==
  /\ \A q \in Carts : \A n \in DOMAIN q.items : ~HalfWay(q.items[n].quantity)
  /\ \A rows \in ReturnRequests : \A x \in DOMAIN rows : ~HalfWay(rows[x].quantity)
  /\ \A a \in Adjustments : ~HalfWay(a.delta)

\* docs/architecture/invariants/pos.md:6: "POS-004: Receipt totals, order totals,
\* payment totals, and inventory effects reconcile."  The stock of every row is
\* what it opened with plus its movements, whatever mixes of sales, returns,
\* corrections and deliveries came by, although balance and movement are rounded
\* apart from each other (services.py:82-86, services_inventory.py:19-21 and
\* 41-42, receiving.py:36-42).  It takes NoHalves: a stock of 5.001 that is
\* corrected by -0.0005 is 5.000, and the movement -0.000.
StockIsItsMovements ==
  \A r \in Rows :
    LET opening == IF r \in DOMAIN Stock THEN Stock[r].quantity ELSE 0 IN
    IF balance[r] = None THEN moved[r] = 0 /\ r \notin DOMAIN Stock
                         ELSE balance[r] = opening + moved[r]

\* Nobody sells or writes off what is not on the shelf (services.py:55-57,
\* services_inventory.py:18).
ShelvesNotNegative == \A r \in Rows : balance[r] # None => balance[r] >= 0

\* However a return is split, and however the parts are rounded, no more of an
\* item is recorded as returned than as sold (services_inventory.py:29-34).
ReturnsWithinSale ==
  \A i \in DOMAIN sales : \A n \in Units(i) : returned[i][n] <= sales[i].items[n].quantity

\* Who bought a quantity that the column holds and brings it back whole and at
\* once is paid for it what was paid, whatever the product costs by then
\* (services.py:58-59, services_inventory.py:35).
WholeReturnRefundsLine ==
  [][\A i \in DOMAIN sales, rows \in ReturnRequests : ReturnSale(i, rows) =>
       \A n \in DOMAIN Requested(rows) :
         Requested(rows)[n] = sales[i].items[n].quantity
           /\ sales[i].items[n].quantity = sales[i].cart.items[n].quantity
         => refunded'[i][n] - refunded[i][n] = sales[i].items[n].line_total]_vars

\* Once a key has a sale every later checkout of the same cart with it is
\* answered with that sale, even if the shift is closed, the shelf empty or the
\* price another by then (services.py:16-19, 89-90).
RetryGetsItsSale ==
  \A i \in DOMAIN sales :
    answer.key = sales[i].key /\ answer.same => answer.sale = i

\* docs/domain/contracts/transactional-model.md:53: "A reused key with a
\* materially different request must be rejected."  (services.py:18)
UsedKeyIsRefused ==
  \A i \in DOMAIN sales :
    answer.key = sales[i].key /\ ~answer.same => answer.sale = None

\* What a shift took, declared and is short of is final when it is closed: no
\* late sale, retry, return or second closing changes its row or its summary
\* (services.py:21-23, api.py:73, reconciliation.py:16-38).
ClosedShiftFinal ==
  [][\A s \in DOMAIN shifts : ~shifts[s].open =>
       shifts'[s] = shifts[s] /\ Summary(s)' = Summary(s)]_vars

\* The lines, the total and the payments of a sale agree to the cent although
\* every line is rounded (services.py:59-77), and so does a shift: what its
\* summary lists by method is what its sales came to (reconciliation.py:20-23).
TotalsReconcile ==
  /\ \A i \in DOMAIN sales :
       sales[i].total = SumFunction([n \in Units(i) |-> sales[i].items[n].line_total])
  /\ \A s \in DOMAIN shifts :
       SumFunction([m \in Methods |-> ByMethod(s, m)])
         = SumFunction([i \in SalesOf(s) |-> sales[i].total])

\* docs/domain/contracts/commands.md:85, of RefundSale: "cannot exceed
\* refundable value" (services_inventory.py:35).
RefundsWithinSale ==
  \A i \in DOMAIN sales : \A n \in Units(i) : refunded[i][n] <= sales[i].items[n].line_total
=============================================================================
