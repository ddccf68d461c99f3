--------------------------- MODULE ShopLedgerProofs ---------------------------
(***************************************************************************)
(* Theorems about ShopLedger, for any users, products, locations, requests *)
(* and first stock.                                                        *)
(***************************************************************************)
EXTENDS ShopLedger, FiniteSums

-----------------------------------------------------------------------------
(* The inductive invariant.                                                *)

\* A sale is under its key, it is paid to the cent, and its lines are priced as
\* its cart asked for and hold what their column does of it.
SaleOK(i) ==
  /\ idem[sales[i].key] = i
  /\ sales[i].total = Total(sales[i].items) /\ sales[i].total = Paid(sales[i].payments)
  /\ \A n \in Units(i) :
       LET item == sales[i].items[n] IN
       item.line_total = Cents(item.unit_price * sales[i].cart.items[n].quantity)

\* The sale a key has is the key's.
KeysOfSales == \A k \in Keys : idem[k] # None => sales[idem[k]].key = k

\* The stock is its movements where no request lies half-way.
Booked == NoHalves => StockIsItsMovements

Consistent ==
  /\ TypeOK /\ Booked /\ ShelvesNotNegative /\ ReturnsWithinSale
  /\ RetryGetsItsSale /\ KeysOfSales
  /\ \A i \in DOMAIN sales : SaleOK(i)

\* What of it is about the stock.
Shelves ==
  /\ balance \in [Rows -> Int \cup {None}] /\ moved \in [Rows -> Int]
  /\ \A r \in Rows : balance[r] # None => Exact(balance[r])
  /\ Booked /\ ShelvesNotNegative

LEMMA NoneIsNothing == None \notin Keys /\ None \notin Int /\ None \notin Nat
BY NoneAssumption

-----------------------------------------------------------------------------
(* Rounding.                                                               *)

LEMMA Quotient ==
  ASSUME NEW m \in Nat \ {0}, NEW n \in Int
  PROVE  /\ n \div m \in Int /\ n % m \in Int /\ 0 <= n % m /\ n % m < m
         /\ n = m * (n \div m) + (n % m)
OBVIOUS

LEMMA QuotientUnique ==
  ASSUME NEW m \in Nat \ {0}, NEW x \in Int, NEW r \in Int, 0 <= r, r < m
  PROVE  (m * x + r) \div m = x /\ (m * x + r) % m = r
<1> DEFINE n == m * x + r
           y == n \div m
           t == n % m
<1>1. n \in Int
  OBVIOUS
<1>2. y \in Int /\ t \in Int /\ 0 <= t /\ t < m /\ n = m * y + t
  BY <1>1, Quotient
<1>3. m * x + r = m * y + t
  BY <1>2
<1> HIDE DEF n, y, t
<1>4. ASSUME x < y PROVE FALSE
  <2>1. m * (x + 1) <= m * y
    BY <1>2, <1>4
  <2>2. m * (x + 1) = m * x + m
    OBVIOUS
  <2>3. m * x \in Int /\ m * y \in Int
    BY <1>2
  <2>. QED BY <1>2, <1>3, <2>1, <2>2, <2>3
<1>5. ASSUME y < x PROVE FALSE
  <2>1. m * (y + 1) <= m * x
    BY <1>2, <1>5
  <2>2. m * (y + 1) = m * y + m
    BY <1>2
  <2>3. m * x \in Int /\ m * y \in Int
    BY <1>2
  <2>. QED BY <1>2, <1>3, <2>1, <2>2, <2>3
<1>6. x = y
  BY <1>2, <1>4, <1>5
<1>7. m * x \in Int
  OBVIOUS
<1>8. r = t
  BY <1>2, <1>3, <1>6, <1>7
<1>. QED BY <1>6, <1>8 DEF n, y, t

\* What Quantized makes of a multiple and a rest.
LEMMA QuantizedAt ==
  ASSUME NEW m \in Nat \ {0}, NEW x \in Int, NEW r \in Int, 0 <= r, r < m
  PROVE  Quantized(m * x + r, m) = IF 2 * r > m \/ (2 * r = m /\ x % 2 = 1) THEN x + 1 ELSE x
BY QuotientUnique DEF Quantized

LEMMA QuantizedMultiple ==
  ASSUME NEW m \in Nat \ {0}, NEW x \in Int
  PROVE  Quantized(m * x, m) = x
<1>1. PICK r \in Int : r = 0
  OBVIOUS
<1>2. 0 <= r /\ r < m
  BY <1>1
<1>3. Quantized(m * x + r, m) = IF 2 * r > m \/ (2 * r = m /\ x % 2 = 1) THEN x + 1 ELSE x
  BY <1>2, QuantizedAt
<1>4. m * x \in Int /\ m * x + r = m * x
  BY <1>1
<1>5. ~(2 * r > m) /\ 2 * r # m
  BY <1>1
<1>. QED BY <1>3, <1>4, <1>5

LEMMA QuantizedType ==
  ASSUME NEW m \in Nat \ {0}, NEW n \in Int
  PROVE  /\ Quantized(n, m) \in Int
         /\ Quantized(n, m) = n \div m \/ (Quantized(n, m) = n \div m + 1 /\ n % m > 0)
<1>1. n \div m \in Int /\ n % m \in Int /\ 0 <= n % m
  BY Quotient
<1>. QED BY <1>1 DEF Quantized

LEMMA QuantizedNat ==
  ASSUME NEW m \in Nat \ {0}, NEW n \in Nat
  PROVE  Quantized(n, m) \in Nat
<1> DEFINE x == n \div m
           y == Quantized(n, m)
<1>1. x \in Nat
  OBVIOUS
<1>2. y \in Int /\ (y = x \/ y = x + 1)
  BY QuantizedType
<1> HIDE DEF x, y
<1>3. y \in Nat
  BY <1>1, <1>2
<1>. QED BY <1>3 DEF y

LEMMA CentsNat ==
  ASSUME NEW n \in Nat
  PROVE  Cents(n) \in Nat
BY QuantizedNat, ScaleAssumption DEF Cents

LEMMA ExactTimes ==
  ASSUME NEW x \in Int
  PROVE  Least * x \in Int /\ Exact(Least * x)
<1>1. Least \in Nat \ {0} /\ Least * x \in Int /\ Least * x = Least * x + 0
  BY ScaleAssumption
<1>2. (Least * x + 0) % Least = 0
  BY <1>1, QuotientUnique
<1>. QED BY <1>1, <1>2 DEF Exact

LEMMA ExactIs ==
  ASSUME NEW n \in Int, Exact(n)
  PROVE  \E x \in Int : n = Least * x
<1>1. n \div Least \in Int /\ n = Least * (n \div Least) + (n % Least) /\ n % Least = 0
  BY Quotient, ScaleAssumption DEF Exact
<1>2. Least * (n \div Least) \in Int
  BY <1>1, ScaleAssumption
<1>. QED BY <1>1, <1>2

LEMMA ExactSum ==
  ASSUME NEW a \in Int, NEW b \in Int, Exact(a), Exact(b)
  PROVE  Exact(a + b) /\ Exact(a - b)
<1>1. PICK x \in Int : a = Least * x
  BY ExactIs
<1>2. PICK y \in Int : b = Least * y
  BY ExactIs
<1>3. Least * x + Least * y = Least * (x + y) /\ Least * x - Least * y = Least * (x - y)
  BY ScaleAssumption
<1>4. x + y \in Int /\ x - y \in Int
  OBVIOUS
<1>. QED BY <1>1, <1>2, <1>3, <1>4, ExactTimes

LEMMA ExactIsWhole ==
  ASSUME NEW n \in Int, Exact(n)
  PROVE  ~HalfWay(n)
BY ScaleAssumption DEF Exact, HalfWay

LEMMA ExactZero == Exact(0)
<1>1. Least * 0 = 0
  BY ScaleAssumption
<1>. QED BY <1>1, ExactTimes

\* What is left of a quantity in a column.
LEMMA StoredType ==
  ASSUME NEW n \in Int
  PROVE  Stored(n) \in Int /\ Exact(Stored(n)) /\ (n >= 0 => Stored(n) \in Nat)
<1>1. Least \in Nat \ {0}
  BY ScaleAssumption
<1>2. Quantized(n, Least) \in Int /\ (n >= 0 => Quantized(n, Least) \in Nat)
  BY <1>1, QuantizedType, QuantizedNat
<1>3. ASSUME NEW x \in Nat PROVE Least * x \in Nat
  BY <1>1
<1>. QED BY <1>2, <1>3, ExactTimes DEF Stored

LEMMA StoredExact ==
  ASSUME NEW n \in Int, Exact(n)
  PROVE  Stored(n) = n
<1>1. PICK x \in Int : n = Least * x
  BY ExactIs
<1>2. Least \in Nat \ {0} /\ Least * x \in Int
  BY ScaleAssumption
<1>3. Quantized(Least * x, Least) = x
  BY <1>2, QuantizedMultiple
<1>. QED BY <1>1, <1>2, <1>3 DEF Stored

\* Rounding passes no quantity that the column holds.
LEMMA StoredWithin ==
  ASSUME NEW n \in Int, NEW b \in Int, Exact(b), n <= b
  PROVE  Stored(n) <= b
<1> DEFINE q == n \div Least
           r == n % Least
<1>0. Least \in Nat \ {0}
  BY ScaleAssumption
<1>1. PICK x \in Int : b = Least * x
  BY ExactIs
<1>2. q \in Int /\ r \in Int /\ 0 <= r /\ r < Least /\ n = Least * q + r
  BY <1>0, Quotient
<1>3. Quantized(n, Least) \in Int /\ (Quantized(n, Least) = q \/ (Quantized(n, Least) = q + 1 /\ r > 0))
  BY <1>0, QuantizedType
<1> HIDE DEF q, r
<1>4. Least * q \in Int /\ Least * x \in Int
  BY <1>0, <1>2
<1>5. q <= x
  <2> SUFFICES ASSUME q >= x + 1 PROVE FALSE
    BY <1>2
  <2>1. Least * q >= Least * (x + 1) /\ Least * (x + 1) = Least * x + Least
    BY <1>0, <1>2
  <2>. QED BY <1>0, <1>1, <1>2, <1>4, <2>1
<1>6. Quantized(n, Least) <= x
  <2>1. CASE q = x
    <3>1. r <= 0
      BY <1>1, <1>2, <1>4, <2>1
    <3>. QED BY <1>2, <1>3, <2>1, <3>1
  <2>2. CASE q # x
    BY <1>2, <1>3, <1>5, <2>2
  <2>. QED BY <2>1, <2>2
<1>7. PICK y \in Int : y = Quantized(n, Least)
  BY <1>3
<1>8. Least * y <= Least * x
  <2>1. y <= x
    BY <1>6, <1>7
  <2>. QED BY <1>0, <2>1
<1>. QED BY <1>1, <1>7, <1>8 DEF Stored

\* Balance and movement are rounded to the same effect, but for a half.
LEMMA StoredPlus ==
  ASSUME NEW b \in Int, Exact(b), NEW n \in Int, ~HalfWay(n)
  PROVE  Stored(b + n) = b + Stored(n)
<1> DEFINE q == n \div Least
           r == n % Least
<1>0. Least \in Nat \ {0}
  BY ScaleAssumption
<1>1. PICK x \in Int : b = Least * x
  BY ExactIs
<1>2. q \in Int /\ r \in Int /\ 0 <= r /\ r < Least /\ n = Least * q + r
  BY <1>0, Quotient
<1>3. 2 * r # Least
  BY DEF HalfWay
<1> HIDE DEF q, r
<1>4. b + n = Least * (x + q) + r /\ x + q \in Int
  <2>1. Least * (x + q) = Least * x + Least * q /\ Least * x \in Int /\ Least * q \in Int
    BY <1>0, <1>2
  <2>. QED BY <1>1, <1>2, <2>1
<1>5. Quantized(n, Least) = IF 2 * r > Least THEN q + 1 ELSE q
  BY <1>0, <1>2, <1>3, QuantizedAt
<1>6. Quantized(b + n, Least) = IF 2 * r > Least THEN x + q + 1 ELSE x + q
  <2> DEFINE z == x + q
  <2> HIDE DEF z
  <2>1. z \in Int /\ b + n = Least * z + r
    BY <1>4 DEF z
  <2>2. Quantized(Least * z + r, Least) = IF 2 * r > Least THEN z + 1 ELSE z
    BY <1>0, <1>2, <1>3, <2>1, QuantizedAt
  <2>. QED BY <2>1, <2>2 DEF z
<1>7. PICK y \in Int : y = Quantized(n, Least)
  BY <1>2, <1>5
<1>8. Quantized(b + n, Least) = x + y
  BY <1>2, <1>5, <1>6, <1>7
<1>9. Least * (x + y) = Least * x + Least * y
  BY <1>0
<1>. QED BY <1>1, <1>7, <1>8, <1>9 DEF Stored

LEMMA StoredMinus ==
  ASSUME NEW b \in Int, Exact(b), NEW n \in Int, ~HalfWay(n)
  PROVE  Stored(b - n) = b - Stored(n)
<1> DEFINE q == n \div Least
           r == n % Least
<1>0. Least \in Nat \ {0}
  BY ScaleAssumption
<1>1. PICK x \in Int : b = Least * x
  BY ExactIs
<1>2. q \in Int /\ r \in Int /\ 0 <= r /\ r < Least /\ n = Least * q + r
  BY <1>0, Quotient
<1>3. 2 * r # Least
  BY DEF HalfWay
<1> HIDE DEF q, r
<1>4. Least * x \in Int /\ Least * q \in Int
  BY <1>0, <1>2
<1>5. Quantized(n, Least) = IF 2 * r > Least THEN q + 1 ELSE q
  BY <1>0, <1>2, <1>3, QuantizedAt
<1>6. Quantized(b - n, Least) = x - Quantized(n, Least)
  <2>1. CASE r = 0
    <3>1. b - n = Least * (x - q) + 0 /\ x - q \in Int
      <4>1. Least * (x - q) = Least * x - Least * q
        BY <1>0, <1>2
      <4>. QED BY <1>1, <1>2, <1>4, <2>1, <4>1
    <3>2. Quantized(b - n, Least) = x - q
      <4> DEFINE z == x - q
      <4> HIDE DEF z
      <4>1. z \in Int /\ b - n = Least * z /\ Least * z \in Int
        BY <1>0, <3>1 DEF z
      <4>2. Quantized(Least * z, Least) = z
        BY <1>0, <4>1, QuantizedMultiple
      <4>. QED BY <4>1, <4>2 DEF z
    <3>. QED BY <1>0, <1>5, <2>1, <3>2
  <2>2. CASE r # 0
    <3> DEFINE z == x - q - 1
               w == Least - r
    <3>1. b - n = Least * z + w /\ z \in Int /\ w \in Int /\ 0 <= w /\ w < Least
      <4>1. Least * z = Least * x - Least * q - Least
        BY <1>0, <1>2
      <4>. QED BY <1>0, <1>1, <1>2, <1>4, <2>2, <4>1
    <3>2. 2 * w # Least /\ (2 * w > Least <=> 2 * r < Least)
      BY <1>0, <1>2, <1>3
    <3> HIDE DEF z, w
    <3>3. Quantized(b - n, Least) = IF 2 * w > Least THEN z + 1 ELSE z
      <4>1. Quantized(Least * z + w, Least) = IF 2 * w > Least THEN z + 1 ELSE z
        BY <1>0, <3>1, <3>2, QuantizedAt
      <4>. QED BY <3>1, <4>1
    <3>. QED BY <1>0, <1>2, <1>3, <1>5, <3>2, <3>3 DEF z
  <2>. QED BY <2>1, <2>2
<1>7. PICK y \in Int : y = Quantized(n, Least)
  BY <1>2, <1>5
<1>8. Least * (x - y) = Least * x - Least * y
  BY <1>0
<1>. QED BY <1>1, <1>6, <1>7, <1>8 DEF Stored

-----------------------------------------------------------------------------
(* Requests and amounts.                                                   *)

LEMMA ListedLines ==
  ASSUME NEW items, Listed(items)
  PROVE  /\ Len(items) \in Nat /\ DOMAIN items = 1 .. Len(items) /\ IsFiniteSet(DOMAIN items)
         /\ \A n \in DOMAIN items : items[n].quantity \in Int
<1> DEFINE R == [product: {items[n].product : n \in DOMAIN items}, quantity: Int]
<1>1. items \in Seq(R)
  BY DEF Listed
<1> HIDE DEF R
<1>2. Len(items) \in Nat /\ DOMAIN items = 1 .. Len(items) /\ \A n \in DOMAIN items : items[n] \in R
  BY <1>1
<1>3. IsFiniteSet(1 .. Len(items))
  BY <1>2, FS_Interval
<1>. QED BY <1>2, <1>3 DEF R

LEMMA Payments ==
  ASSUME NEW q \in Carts
  PROVE  /\ Len(q.payments) \in Nat /\ DOMAIN q.payments = 1 .. Len(q.payments)
         /\ IsFiniteSet(DOMAIN q.payments)
         /\ \A n \in DOMAIN q.payments : q.payments[n] \in [method: STRING, amount: Int]
<1> DEFINE R == [method: STRING, amount: Int]
<1>1. q.payments \in Seq(R)
  BY CartAssumption
<1> HIDE DEF R
<1>2. /\ Len(q.payments) \in Nat /\ DOMAIN q.payments = 1 .. Len(q.payments)
      /\ \A n \in DOMAIN q.payments : q.payments[n] \in R
  BY <1>1
<1>3. IsFiniteSet(1 .. Len(q.payments))
  BY <1>2, FS_Interval
<1>. QED BY <1>2, <1>3 DEF R

LEMMA TotalNat ==
  ASSUME NEW lines \in Seq(ItemRow)
  PROVE  Total(lines) \in Nat
<1> DEFINE f == [n \in DOMAIN lines |-> lines[n].line_total]
<1>1. Len(lines) \in Nat /\ DOMAIN lines = 1 .. Len(lines) /\ \A n \in DOMAIN lines : lines[n] \in ItemRow
  <2> HIDE DEF ItemRow
  <2>. QED OBVIOUS
<1>2. IsFiniteSet(1 .. Len(lines))
  BY <1>1, FS_Interval
<1>3. \A n \in DOMAIN lines : f[n] \in Nat
  BY <1>1 DEF ItemRow
<1>4. SumFunctionOnSet(f, DOMAIN lines) \in Nat
  <2> HIDE DEF f
  <2>. QED BY <1>1, <1>2, <1>3, SumNat
<1>. QED BY <1>4 DEF Total, SumFunction

\* The lines of a cart that is accepted.
LEMMA AcceptedLines ==
  ASSUME TypeOK, NEW q \in Carts, NEW u, NEW s, Acceptable(u, s, q)
  PROVE  /\ Lines(q) \in Seq(ItemRow) /\ DOMAIN Lines(q) = DOMAIN q.items
         /\ Len(Lines(q)) = Len(q.items)
         /\ \A n \in DOMAIN q.items :
              /\ Exact(Lines(q)[n].quantity)
              /\ Lines(q)[n].line_total = Cents(Lines(q)[n].unit_price * q.items[n].quantity)
<1> DEFINE L == Lines(q)
<1>1. /\ Len(q.items) \in Nat /\ DOMAIN q.items = 1 .. Len(q.items)
      /\ \A n \in DOMAIN q.items : q.items[n].quantity \in Int
  BY CartAssumption, ListedLines
<1>2. \A n \in DOMAIN q.items : q.items[n].quantity \in Nat /\ q.items[n].product \in Products
  <2>1. Sellable(q, shifts[s].location)
    BY DEF Acceptable
  <2>2. ASSUME NEW n \in DOMAIN q.items PROVE q.items[n].quantity > 0 /\ q.items[n].product \in Products
    BY <2>1 DEF Sellable
  <2>. QED BY <1>1, <2>2
<1>3. \A n \in DOMAIN q.items : UnitPrice(q, q.items[n].product) \in Nat
  BY <1>2, CatalogAssumption DEF UnitPrice, TypeOK
<1>4. ASSUME NEW n \in DOMAIN q.items
      PROVE  /\ L[n] \in ItemRow /\ Exact(L[n].quantity)
             /\ L[n].line_total = Cents(L[n].unit_price * q.items[n].quantity)
  <2> DEFINE price == UnitPrice(q, q.items[n].product)
             quantity == q.items[n].quantity
  <2>1. L[n] = [product |-> q.items[n].product, quantity |-> Stored(quantity),
                unit_price |-> price, line_total |-> Cents(price * quantity)]
    BY DEF Lines
  <2>2. price \in Nat /\ quantity \in Nat /\ q.items[n].product \in Products
    BY <1>2, <1>3
  <2> HIDE DEF price, quantity
  <2>3. price * quantity \in Nat
    BY <2>2
  <2>4. Cents(price * quantity) \in Nat
    BY <2>3, CentsNat
  <2>5. Stored(quantity) \in Nat /\ Exact(Stored(quantity))
    BY <2>2, StoredType
  <2>6. L[n].line_total = Cents(L[n].unit_price * quantity)
    BY <2>1
  <2>. QED BY <2>1, <2>2, <2>4, <2>5, <2>6 DEF ItemRow, quantity
<1>5. DOMAIN L = 1 .. Len(q.items)
  BY <1>1 DEF Lines
<1>6. L \in Seq(ItemRow) /\ Len(L) = Len(q.items)
  <2>1. L = [n \in 1 .. Len(q.items) |-> L[n]]
    BY <1>1 DEF Lines
  <2> HIDE DEF L
  <2>2. L \in [1 .. Len(q.items) -> ItemRow]
    BY <1>1, <1>4, <2>1
  <2>. QED BY <1>1, <2>2, FunctionIsSeq
<1>. QED BY <1>1, <1>4, <1>5, <1>6

LEMMA InitConsistent == Init => Consistent
<1> SUFFICES ASSUME Init PROVE Consistent
  OBVIOUS
<1>1. TypeOK
  BY StockAssumption DEF Init, TypeOK, NoAnswer
<1>2. Booked /\ ShelvesNotNegative
  BY StockAssumption, NoneIsNothing DEF Init, Booked, StockIsItsMovements, ShelvesNotNegative
<1>. QED BY <1>1, <1>2 DEF Init, Consistent, ReturnsWithinSale, RetryGetsItsSale, KeysOfSales

-----------------------------------------------------------------------------
(* checkout                                                                *)

\* Sales as a sequence.
LEMMA SalesSeq ==
  ASSUME TypeOK
  PROVE  /\ Len(sales) \in Nat /\ DOMAIN sales = 1 .. Len(sales)
         /\ Len(shifts) \in Nat /\ DOMAIN shifts = 1 .. Len(shifts)
         /\ Len(returned) = Len(sales) /\ DOMAIN returned = 1 .. Len(sales)
         /\ Len(refunded) = Len(sales) /\ DOMAIN refunded = 1 .. Len(sales)
         /\ \A i \in DOMAIN sales : sales[i] \in SaleRow
         /\ \A s \in DOMAIN shifts : shifts[s] \in ShiftRow
         /\ \A i \in DOMAIN sales : returned[i] \in Seq(Nat) /\ refunded[i] \in Seq(Nat)
<1> DEFINE S == SaleRow
           H == ShiftRow
           N == Seq(Nat)
<1>1. /\ sales \in Seq(S) /\ shifts \in Seq(H) /\ returned \in Seq(N) /\ refunded \in Seq(N)
      /\ Len(returned) = Len(sales) /\ Len(refunded) = Len(sales)
  BY DEF TypeOK
<1> HIDE DEF S, H, N
<1>2. /\ Len(sales) \in Nat /\ DOMAIN sales = 1 .. Len(sales) /\ \A i \in DOMAIN sales : sales[i] \in S
      /\ Len(shifts) \in Nat /\ DOMAIN shifts = 1 .. Len(shifts) /\ \A i \in DOMAIN shifts : shifts[i] \in H
      /\ DOMAIN returned = 1 .. Len(returned) /\ \A i \in DOMAIN returned : returned[i] \in N
      /\ DOMAIN refunded = 1 .. Len(refunded) /\ \A i \in DOMAIN refunded : refunded[i] \in N
  BY <1>1
<1>. QED BY <1>1, <1>2 DEF S, H, N

LEMMA ItemsOfSale ==
  ASSUME TypeOK, NEW i \in DOMAIN sales
  PROVE  /\ Len(sales[i].items) \in Nat /\ Units(i) = 1 .. Len(sales[i].items)
         /\ \A n \in Units(i) : sales[i].items[n] \in ItemRow
         /\ DOMAIN returned[i] = Units(i) /\ DOMAIN refunded[i] = Units(i)
         /\ \A n \in Units(i) : returned[i][n] \in Nat /\ refunded[i][n] \in Nat
<1>1. sales[i].items \in Seq(ItemRow) /\ returned[i] \in Seq(Nat) /\ refunded[i] \in Seq(Nat)
  BY SalesSeq DEF SaleRow
<1>2. DOMAIN returned[i] = Units(i) /\ DOMAIN refunded[i] = Units(i)
  BY DEF TypeOK
<1> HIDE DEF ItemRow
<1>3. Len(sales[i].items) \in Nat /\ Units(i) = 1 .. Len(sales[i].items)
  BY <1>1 DEF Units
<1>4. \A n \in Units(i) : sales[i].items[n] \in ItemRow
  BY <1>1 DEF Units
<1>5. \A n \in Units(i) : returned[i][n] \in Nat /\ refunded[i][n] \in Nat
  <2>1. \A n \in DOMAIN returned[i] : returned[i][n] \in Nat
    BY <1>1
  <2>2. \A n \in DOMAIN refunded[i] : refunded[i][n] \in Nat
    BY <1>1
  <2>. QED BY <1>2, <2>1, <2>2
<1>. QED BY <1>2, <1>3, <1>4, <1>5

\* A step that changes nothing but the answer.
LEMMA AnswerOnly ==
  ASSUME Consistent, UNCHANGED <<catalog, stock, shifts, sales, refunds, idem>>,
         NEW k \in Keys \cup {None}, NEW q, NEW i \in Nat \cup {None}, Answered(k, q, i),
         \A j \in DOMAIN sales : k = sales[j].key => i = j
  PROVE  Consistent'
<1>0. UNCHANGED <<catalog, balance, moved, shifts, sales, returned, refunded, idem>>
  BY DEF stock, refunds
<1>1. PICK same \in BOOLEAN : answer' = [key |-> k, sale |-> i, same |-> same]
  BY DEF Answered
<1>2. TypeOK'
  <2>1. answer' \in [key: Keys \cup {None}, sale: Nat \cup {None}, same: BOOLEAN]
    BY <1>1
  <2>. QED BY <1>0, <2>1 DEF Consistent, TypeOK, Units
<1>3. (Booked /\ ShelvesNotNegative /\ ReturnsWithinSale /\ KeysOfSales)'
  BY <1>0 DEF Consistent, Booked, StockIsItsMovements, ShelvesNotNegative, ReturnsWithinSale,
              KeysOfSales, Units
<1>4. RetryGetsItsSale'
  BY <1>0, <1>1 DEF RetryGetsItsSale
<1>5. ASSUME NEW j \in DOMAIN sales PROVE SaleOK(j)'
  BY <1>0 DEF Consistent, SaleOK, Units
<1>. QED BY <1>0, <1>2, <1>3, <1>4, <1>5 DEF Consistent

LEMMA RefuseOK ==
  ASSUME Consistent, NEW k \in Keys, NEW q, idem[k] = None, Refuse(k, q)
  PROVE  Consistent'
<1>1. \A j \in DOMAIN sales : sales[j].key # k
  BY SalesSeq, NoneIsNothing DEF Consistent, SaleOK
<1>. QED BY <1>1, AnswerOnly DEF Refuse

LEMMA NoKeyOK ==
  ASSUME Consistent, NoKey
  PROVE  Consistent'
<1>1. \A j \in DOMAIN sales : sales[j].key # None
  BY SalesSeq, NoneIsNothing DEF Consistent, SaleRow
<1>. QED BY <1>1, AnswerOnly DEF NoKey, Refuse

LEMMA ReplayOK ==
  ASSUME Consistent, NEW k \in Keys, NEW q, Replay(k, q)
  PROVE  Consistent'
<1>1. idem[k] \in Nat
  BY SalesSeq DEF Consistent, TypeOK, Replay
<1>2. \A j \in DOMAIN sales : k = sales[j].key => idem[k] = j
  BY DEF Consistent, SaleOK
<1>. QED BY <1>1, <1>2, AnswerOnly DEF Replay

\* A row that stays, or is brought to a quantity its column holds and, where no
\* request lies half-way, is moved by as much as is booked.
Opened(r) == IF balance[r] = None THEN 0 ELSE balance[r]
RowMoved(r) ==
  \/ balance'[r] = balance[r] /\ moved'[r] = moved[r]
  \/ /\ balance'[r] \in Nat /\ Exact(balance'[r]) /\ moved'[r] \in Int
     /\ NoHalves => balance'[r] - Opened(r) = moved'[r] - moved[r]

LEMMA ShelvesMoved ==
  ASSUME Consistent, balance' = [r \in Rows |-> balance'[r]], moved' = [r \in Rows |-> moved'[r]],
         \A r \in Rows : RowMoved(r)
  PROVE  Shelves'
<1>1. \A r \in Rows : balance[r] \in Int \cup {None} /\ moved[r] \in Int
  BY DEF Consistent, TypeOK
<1>2. \A r \in Rows : balance'[r] \in Int \cup {None} /\ moved'[r] \in Int
  BY <1>1 DEF RowMoved
<1>3. balance' \in [Rows -> Int \cup {None}] /\ moved' \in [Rows -> Int]
  BY <1>2
<1>4. \A r \in Rows : balance'[r] # None => Exact(balance'[r]) /\ balance'[r] >= 0
  BY DEF RowMoved, Consistent, TypeOK, ShelvesNotNegative
<1>5. ASSUME NoHalves, NEW r \in Rows
      PROVE  IF balance'[r] = None THEN moved'[r] = 0 /\ r \notin DOMAIN Stock
             ELSE balance'[r] = (IF r \in DOMAIN Stock THEN Stock[r].quantity ELSE 0) + moved'[r]
  <2>1. IF balance[r] = None THEN moved[r] = 0 /\ r \notin DOMAIN Stock
        ELSE balance[r] = (IF r \in DOMAIN Stock THEN Stock[r].quantity ELSE 0) + moved[r]
    BY <1>5 DEF Consistent, Booked, StockIsItsMovements
  <2>2. (IF r \in DOMAIN Stock THEN Stock[r].quantity ELSE 0) \in Int
    BY StockAssumption
  <2>3. CASE balance'[r] = balance[r] /\ moved'[r] = moved[r]
    BY <2>1, <2>3
  <2>4. CASE /\ balance'[r] \in Nat /\ moved'[r] \in Int
             /\ balance'[r] - Opened(r) = moved'[r] - moved[r]
    BY <1>1, <2>1, <2>2, <2>4, NoneIsNothing DEF Opened
  <2>. QED BY <1>5, <2>3, <2>4 DEF RowMoved
<1>6. Booked'
  BY <1>5 DEF Booked, StockIsItsMovements
<1>. QED BY <1>3, <1>4, <1>6 DEF Shelves, ShelvesNotNegative

\* What checkout takes off the shelf is there, and is what it books.
LEMMA TakeFromOK ==
  ASSUME Consistent, NEW q \in Carts, NEW l \in Locations, Distinct(q), Sellable(q, l),
         TakeFrom(q, l)
  PROVE  Shelves'
<1>0. /\ Len(q.items) \in Nat /\ DOMAIN q.items = 1 .. Len(q.items)
      /\ \A n \in DOMAIN q.items : q.items[n].quantity \in Int
  BY CartAssumption, ListedLines
<1>1. ASSUME NEW r \in Rows PROVE RowMoved(r)
  <2> DEFINE L == LinesOn(q, r, l)
             f == [n \in L |-> Stored(q.items[n].quantity)]
  <2>0. /\ balance'[r] = IF L = {} THEN balance[r] ELSE Stored(balance[r] - q.items[Max(L)].quantity)
        /\ moved'[r] = moved[r] - SumFunctionOnSet(f, L)
        /\ moved[r] \in Int /\ balance[r] \in Int \cup {None}
        /\ balance[r] # None => Exact(balance[r])
    BY DEF TakeFrom, SumFunction, Consistent, TypeOK
  <2>1. CASE L = {}
    <3> HIDE DEF f, L
    <3>1. SumFunctionOnSet(f, {}) = 0
      BY SumEmpty
    <3>. QED BY <2>0, <2>1, <3>1 DEF RowMoved
  <2>2. CASE L # {}
    <3>1. PICK n \in L : TRUE
      BY <2>2
    <3>2. n \in DOMAIN q.items /\ <<q.items[n].product, l>> = r
      BY <3>1 DEF LinesOn
    <3>3. L = {n}
      <4> SUFFICES ASSUME NEW m \in L PROVE m = n
        BY <3>1
      <4>1. m \in DOMAIN q.items /\ <<q.items[m].product, l>> = r
        BY DEF LinesOn
      <4>. QED BY <3>2, <4>1 DEF Distinct
    <3>4. Max(L) = n
      BY <1>0, <3>2, <3>3 DEF Max
    <3>5. Stored(q.items[n].quantity) \in Int
      BY <1>0, <3>2, StoredType
    <3>6. SumFunctionOnSet(f, L) = Stored(q.items[n].quantity)
      <4>1. f[n] = Stored(q.items[n].quantity) /\ f[n] \in Int
        BY <3>1, <3>5
      <4> HIDE DEF f, L
      <4>. QED BY <3>3, <4>1, SumSingle
    <3>7. /\ q.items[n].quantity > 0
          /\ balance[r] # None /\ balance[r] - Reserved(r) >= q.items[n].quantity
      BY <3>2 DEF Sellable, Available
    <3>8. Reserved(r) \in Nat
      BY StockAssumption DEF Reserved
    <3> DEFINE quantity == q.items[n].quantity
               rest == balance[r] - quantity
    <3>9. quantity \in Int /\ balance[r] \in Int /\ rest \in Int /\ rest >= 0
      BY <1>0, <2>0, <3>2, <3>7, <3>8
    <3>10. balance'[r] = Stored(rest) /\ moved'[r] = moved[r] - Stored(quantity)
      BY <2>0, <2>2, <3>4, <3>6
    <3>11. balance'[r] \in Nat /\ Exact(balance'[r])
      <4> HIDE DEF rest
      <4>. QED BY <3>9, <3>10, StoredType
    <3>12. ASSUME NoHalves PROVE balance'[r] = balance[r] - Stored(quantity)
      <4>1. ~HalfWay(quantity) /\ Exact(balance[r])
        BY <2>0, <3>2, <3>7, <3>12 DEF NoHalves
      <4> HIDE DEF quantity
      <4>. QED BY <3>9, <3>10, <4>1, StoredMinus
    <3> HIDE DEF quantity, rest
    <3>13. Stored(quantity) \in Int
      BY <3>5 DEF quantity
    <3>. QED BY <2>0, <3>7, <3>9, <3>10, <3>11, <3>12, <3>13 DEF RowMoved, Opened
  <2>. QED BY <2>1, <2>2
<1>2. balance' = [r \in Rows |-> balance'[r]] /\ moved' = [r \in Rows |-> moved'[r]]
  BY DEF TakeFrom
<1>. QED BY <1>1, <1>2, ShelvesMoved

\* A sequence with one more element.
LEMMA Appended ==
  ASSUME NEW R, NEW f \in Seq(R), NEW e \in R
  PROVE  /\ Append(f, e) \in Seq(R) /\ Len(Append(f, e)) = Len(f) + 1 /\ Len(f) \in Nat
         /\ DOMAIN Append(f, e) = 1 .. Len(f) + 1
         /\ Append(f, e)[Len(f) + 1] = e
         /\ \A n \in 1 .. Len(f) : Append(f, e)[n] = f[n]
OBVIOUS

\* What is due for a cart, paid to the cent.
LEMMA PaidExactly ==
  ASSUME NEW q \in Carts, NEW u, NEW s, Acceptable(u, s, q)
  PROVE  q.payments \in Seq(PaymentRow) /\ Paid(q.payments) = Total(Lines(q))
<1>1. /\ Len(q.payments) \in Nat /\ DOMAIN q.payments = 1 .. Len(q.payments)
      /\ \A n \in DOMAIN q.payments : q.payments[n] \in [method: STRING, amount: Int]
  BY Payments
<1>2. ASSUME NEW n \in DOMAIN q.payments PROVE q.payments[n] \in PaymentRow
  <2>1. q.payments[n] \in [method: STRING, amount: Int]
    BY <1>1
  <2>2. q.payments[n].amount > 0 /\ q.payments[n].method \in Methods
    BY DEF Acceptable
  <2>. QED BY <2>1, <2>2 DEF PaymentRow
<1> HIDE DEF PaymentRow
<1>3. q.payments \in [1 .. Len(q.payments) -> PaymentRow]
  <2> DEFINE R == [method: STRING, amount: Int]
  <2>1. q.payments \in Seq(R)
    BY CartAssumption
  <2> HIDE DEF R
  <2>. QED BY <1>1, <1>2, <2>1
<1>4. Paid(q.payments) = Total(Lines(q))
  BY DEF Acceptable, Settles
<1>. QED BY <1>1, <1>3, <1>4, FunctionIsSeq

LEMMA SellOK ==
  ASSUME Consistent, NEW u \in Users, NEW k \in Keys, NEW s, NEW q \in Carts, Sell(u, k, s, q)
  PROVE  /\ Consistent' /\ shifts' = shifts /\ shifts[s].open
         /\ DOMAIN sales' = 1 .. Len(sales) + 1 /\ sales'[Len(sales) + 1].shift = s
         /\ \A i \in DOMAIN sales : sales'[i] = sales[i] /\ returned'[i] = returned[i]
<1> DEFINE new == Len(sales) + 1
           l == shifts[s].location
           row == [key |-> k, cashier |-> u, shift |-> s, location |-> l,
                   cart |-> q, items |-> Lines(q), total |-> Total(Lines(q)),
                   payments |-> q.payments]
           zeros == [n \in DOMAIN q.items |-> 0]
<1>0. TypeOK /\ idem[k] = None /\ Acceptable(u, s, q)
  BY DEF Consistent, Sell
<1>1. \A i \in DOMAIN sales : sales[i].key # k
  BY <1>0, SalesSeq, NoneIsNothing DEF Consistent, SaleOK
<1>2. /\ sales' = Append(sales, row) /\ TakeFrom(q, l)
      /\ returned' = Append(returned, zeros) /\ refunded' = Append(refunded, zeros)
      /\ idem' = [idem EXCEPT ![k] = new] /\ Answered(k, q, new)
      /\ UNCHANGED <<catalog, shifts>>
  BY <1>1 DEF Sell, Remember
<1>b. PICK same \in BOOLEAN : answer' = [key |-> k, sale |-> new, same |-> same]
  BY <1>2 DEF Answered
<1>3. /\ s \in DOMAIN shifts /\ s \in Nat /\ shifts[s] \in ShiftRow /\ l \in Locations
  BY <1>0, SalesSeq DEF Acceptable, OpenShiftOf, ShiftRow
<1>4. /\ Lines(q) \in Seq(ItemRow) /\ DOMAIN Lines(q) = DOMAIN q.items /\ Total(Lines(q)) \in Nat
      /\ q.payments \in Seq(PaymentRow) /\ Paid(q.payments) = Total(Lines(q))
  BY <1>0, AcceptedLines, TotalNat, PaidExactly
<1>5. row \in SaleRow
  <2> DEFINE A == Seq(ItemRow)
             B == Seq(PaymentRow)
  <2>1. Lines(q) \in A /\ q.payments \in B
    BY <1>4
  <2> HIDE DEF A, B
  <2>2. SaleRow = [key: Keys, cashier: Users, shift: Nat, location: Locations, cart: Carts,
                   items: A, total: Nat, payments: B]
    BY DEF SaleRow, A, B
  <2>. QED BY <1>3, <1>4, <2>1, <2>2
<1>6. zeros \in Seq(Nat) /\ \A n \in DOMAIN q.items : zeros[n] = 0
  <2>1. Len(q.items) \in Nat /\ DOMAIN q.items = 1 .. Len(q.items)
    BY CartAssumption, ListedLines
  <2>2. zeros \in [1 .. Len(q.items) -> Nat]
    BY <2>1
  <2> HIDE DEF zeros
  <2>3. zeros \in Seq(Nat)
    BY <2>1, <2>2, FunctionIsSeq
  <2>. QED BY <2>3 DEF zeros
<1>7. /\ sales \in Seq(SaleRow) /\ returned \in Seq(Seq(Nat)) /\ refunded \in Seq(Seq(Nat))
      /\ Len(returned) = Len(sales) /\ Len(refunded) = Len(sales) /\ Len(sales) \in Nat
      /\ DOMAIN sales = 1 .. Len(sales)
  BY <1>0, SalesSeq DEF TypeOK
<1>8. /\ sales' \in Seq(SaleRow) /\ returned' \in Seq(Seq(Nat)) /\ refunded' \in Seq(Seq(Nat))
      /\ Len(sales') = new /\ Len(returned') = new /\ Len(refunded') = new
      /\ DOMAIN sales' = 1 .. new /\ new \in Nat
      /\ sales'[new] = row /\ returned'[new] = zeros /\ refunded'[new] = zeros
      /\ \A i \in 1 .. Len(sales) : /\ sales'[i] = sales[i]
                                  /\ returned'[i] = returned[i] /\ refunded'[i] = refunded[i]
  <2> HIDE DEF row, zeros
  <2> DEFINE N == Seq(Nat)
  <2>1. zeros \in N /\ returned \in Seq(N) /\ refunded \in Seq(N)
    BY <1>6, <1>7
  <2>2. returned' \in Seq(N) /\ refunded' \in Seq(N)
    BY <1>2, <2>1, Appended
  <2> HIDE DEF N
  <2>3. /\ Len(returned') = new /\ Len(refunded') = new
        /\ returned'[new] = zeros /\ refunded'[new] = zeros
        /\ \A i \in 1 .. Len(sales) : returned'[i] = returned[i] /\ refunded'[i] = refunded[i]
    BY <1>2, <1>7, <2>1, Appended
  <2>4. /\ sales' \in Seq(SaleRow) /\ Len(sales') = new /\ DOMAIN sales' = 1 .. new /\ new \in Nat
        /\ sales'[new] = row /\ \A i \in 1 .. Len(sales) : sales'[i] = sales[i]
    BY <1>2, <1>5, <1>7, Appended
  <2>. QED BY <2>2, <2>3, <2>4 DEF N
<1>9. /\ row.key = k /\ row.shift = s /\ row.items = Lines(q) /\ row.total = Total(Lines(q))
      /\ row.payments = q.payments /\ row.cart = q
  OBVIOUS
<1>10. \A i \in 1 .. new : i = new \/ i \in 1 .. Len(sales)
  BY <1>7
<1> HIDE DEF row, zeros, new
<1>11. /\ idem' \in [Keys -> DOMAIN sales' \cup {None}] /\ idem'[k] = new
       /\ \A j \in Keys : j # k => idem'[j] = idem[j]
  <2>1. idem \in [Keys -> DOMAIN sales \cup {None}] /\ new \in DOMAIN sales' /\ DOMAIN sales \subseteq DOMAIN sales'
    BY <1>0, <1>7, <1>8 DEF TypeOK, new
  <2>. QED BY <1>2, <2>1
<1>12. TypeOK'
  <2>1. /\ catalog' \in Catalogs /\ shifts' \in Seq(ShiftRow)
        /\ \A j \in DOMAIN shifts' : shifts'[j].open <=> shifts'[j].closing = None
    BY <1>0, <1>2 DEF TypeOK
  <2>2. Shelves'
    BY <1>0, <1>2, <1>3, TakeFromOK DEF Acceptable
  <2>3. \A i \in DOMAIN sales' : sales'[i].shift \in DOMAIN shifts'
    BY <1>0, <1>2, <1>3, <1>7, <1>8, <1>9, <1>10 DEF TypeOK
  <2>4. \A i \in DOMAIN sales' : DOMAIN returned'[i] = Units(i)' /\ DOMAIN refunded'[i] = Units(i)'
    <3>1. DOMAIN zeros = DOMAIN q.items
      BY DEF zeros
    <3>. QED BY <1>0, <1>4, <1>7, <1>8, <1>9, <1>10, <3>1 DEF TypeOK, Units
  <2>5. answer' \in [key: Keys \cup {None}, sale: Nat \cup {None}, same: BOOLEAN]
    BY <1>b, <1>8
  <2>6. ASSUME NEW i \in DOMAIN sales', NEW n \in Units(i)'
        PROVE  Exact(returned'[i][n]) /\ Exact(sales'[i].items[n].quantity)
    <3>1. CASE i = new
      <4>1. n \in DOMAIN q.items
        BY <1>4, <1>8, <1>9, <3>1 DEF Units
      <4>. QED BY <1>0, <1>6, <1>8, <1>9, <3>1, <4>1, AcceptedLines, ExactZero
    <3>2. CASE i # new
      BY <1>0, <1>7, <1>8, <1>10, <3>2 DEF TypeOK, Units
    <3>. QED BY <3>1, <3>2
  <2>. QED BY <1>8, <1>11, <2>1, <2>2, <2>3, <2>4, <2>5, <2>6 DEF TypeOK, Shelves
<1>13. Booked' /\ ShelvesNotNegative'
  BY <1>0, <1>2, <1>3, TakeFromOK DEF Acceptable, Shelves
<1>14. ReturnsWithinSale'
  <2> SUFFICES ASSUME NEW i \in DOMAIN sales', NEW n \in Units(i)'
               PROVE  returned'[i][n] <= sales'[i].items[n].quantity
    BY DEF ReturnsWithinSale
  <2>1. CASE i = new
    <3>1. n \in DOMAIN q.items
      BY <1>4, <1>8, <1>9, <2>1 DEF Units
    <3>2. Lines(q)[n] \in ItemRow
      BY <1>4, <3>1
    <3>. QED BY <1>6, <1>8, <1>9, <2>1, <3>1, <3>2 DEF ItemRow
  <2>2. CASE i # new
    BY <1>7, <1>8, <1>10, <2>2 DEF Consistent, ReturnsWithinSale, Units
  <2>. QED BY <2>1, <2>2
<1>15. RetryGetsItsSale'
  BY <1>1, <1>b, <1>7, <1>8, <1>9, <1>10 DEF RetryGetsItsSale
<1>16. KeysOfSales'
  <2> SUFFICES ASSUME NEW j \in Keys, idem'[j] # None PROVE sales'[idem'[j]].key = j
    BY DEF KeysOfSales
  <2>1. CASE j = k
    BY <1>8, <1>9, <1>11, <2>1
  <2>2. CASE j # k
    <3>1. idem'[j] = idem[j] /\ idem[j] \in 1 .. Len(sales)
      BY <1>0, <1>7, <1>11, <2>2 DEF TypeOK
    <3>. QED BY <1>8, <3>1 DEF Consistent, KeysOfSales
  <2>. QED BY <2>1, <2>2
<1>17. ASSUME NEW i \in DOMAIN sales' PROVE SaleOK(i)'
  <2>1. CASE i = new
    <3>1. Units(i)' = DOMAIN q.items
      BY <1>4, <1>8, <1>9, <2>1 DEF Units
    <3>2. \A n \in DOMAIN q.items :
            Lines(q)[n].line_total = Cents(Lines(q)[n].unit_price * q.items[n].quantity)
      BY <1>0, AcceptedLines
    <3>3. sales'[i].items = Lines(q) /\ sales'[i].total = Total(Lines(q)) /\ sales'[i].payments = q.payments
          /\ sales'[i].key = k /\ sales'[i].cart = q
      BY <1>8, <1>9, <2>1
    <3>. QED BY <1>4, <1>11, <2>1, <3>1, <3>2, <3>3 DEF SaleOK
  <2>2. CASE i # new
    <3>1. /\ i \in DOMAIN sales /\ SaleOK(i) /\ sales'[i] = sales[i]
          /\ returned'[i] = returned[i] /\ refunded'[i] = refunded[i] /\ sales[i].key # k /\ sales[i].key \in Keys
      BY <1>0, <1>1, <1>7, <1>8, <1>10, <2>2, SalesSeq DEF Consistent, SaleRow
    <3>. QED BY <1>11, <3>1 DEF SaleOK, Units
  <2>. QED BY <2>1, <2>2
<1>18. Consistent'
  BY <1>12, <1>13, <1>14, <1>15, <1>16, <1>17 DEF Consistent
<1>19. shifts[s].open
  BY <1>0 DEF Acceptable, OpenShiftOf
<1>. QED BY <1>2, <1>7, <1>8, <1>9, <1>18, <1>19 DEF new

-----------------------------------------------------------------------------
(* Returns, adjustments and deliveries.                                    *)

\* What comes in is booked.
LEMMA AddToOK ==
  ASSUME Consistent, NEW l \in Locations, NEW taken,
         \A p \in DOMAIN taken : taken[p] \in Nat /\ (NoHalves => ~HalfWay(taken[p])),
         AddTo(l, taken)
  PROVE  Shelves'
<1> DEFINE rows == {<<p, l>> : p \in DOMAIN taken}
<1>1. /\ balance' = [r \in Rows |-> IF r \notin rows THEN balance[r] ELSE Stored(Opened(r) + taken[r[1]])]
      /\ moved' = [r \in Rows |-> IF r \notin rows THEN moved[r] ELSE moved[r] + Stored(taken[r[1]])]
  BY DEF AddTo, Opened
<1>2. \A r \in rows : taken[r[1]] \in Nat /\ (NoHalves => ~HalfWay(taken[r[1]]))
  OBVIOUS
<1> HIDE DEF rows
<1>3. ASSUME NEW r \in Rows PROVE RowMoved(r)
  <2>1. CASE r \notin rows
    BY <1>1, <2>1 DEF RowMoved
  <2>2. CASE r \in rows
    <3> DEFINE n == taken[r[1]]
               b == Opened(r)
    <3>1. n \in Nat /\ (NoHalves => ~HalfWay(n))
      BY <1>2, <2>2
    <3>2. b \in Int /\ b >= 0 /\ Exact(b) /\ moved[r] \in Int
      BY ExactZero DEF Opened, Consistent, TypeOK, ShelvesNotNegative
    <3>3. balance'[r] = Stored(b + n) /\ moved'[r] = moved[r] + Stored(n)
      BY <1>1, <2>2
    <3> HIDE DEF n, b
    <3>4. balance'[r] \in Nat /\ Exact(balance'[r])
      <4>1. b + n \in Int /\ b + n >= 0
        BY <3>1, <3>2
      <4>. QED BY <3>3, <4>1, StoredType
    <3>5. ASSUME NoHalves PROVE balance'[r] = b + Stored(n)
      BY <3>1, <3>2, <3>3, <3>5, StoredPlus
    <3>6. Stored(n) \in Int
      BY <3>1, StoredType
    <3>7. NoHalves => balance'[r] - b = moved'[r] - moved[r]
      BY <3>2, <3>3, <3>5, <3>6
    <3>. QED BY <3>2, <3>3, <3>4, <3>6, <3>7 DEF RowMoved, b
  <2>. QED BY <2>1, <2>2
<1>4. balance' = [r \in Rows |-> balance'[r]] /\ moved' = [r \in Rows |-> moved'[r]]
  BY <1>1
<1>. QED BY <1>3, <1>4, ShelvesMoved

\* A step that changes only the stock.
LEMMA StockOnly ==
  ASSUME Consistent, UNCHANGED <<catalog, shifts, sales, refunds, idem, answer>>, Shelves'
  PROVE  Consistent'
<1>0. UNCHANGED <<catalog, shifts, sales, returned, refunded, idem, answer>>
  BY DEF refunds
<1>1. TypeOK'
  BY <1>0 DEF Consistent, TypeOK, Units, Shelves
<1>2. (ReturnsWithinSale /\ KeysOfSales /\ RetryGetsItsSale)'
  BY <1>0 DEF Consistent, ReturnsWithinSale, KeysOfSales, RetryGetsItsSale, Units
<1>3. ASSUME NEW j \in DOMAIN sales PROVE SaleOK(j)'
  BY <1>0 DEF Consistent, SaleOK, Units
<1>. QED BY <1>0, <1>1, <1>2, <1>3 DEF Consistent, Shelves

LEMMA AdjustStockOK ==
  ASSUME Consistent, NEW a \in Adjustments, AdjustStock(a)
  PROVE  Consistent'
<1> DEFINE r == <<a.product, a.location>>
           n == a.delta
           b == Opened(r)
<1>0. r \in Rows /\ n \in Int /\ (NoHalves => ~HalfWay(n))
  BY RequestAssumption DEF Rows, NoHalves
<1>1. /\ b + n >= 0
      /\ balance' = [balance EXCEPT ![r] = Stored(b + n)]
      /\ moved' = [moved EXCEPT ![r] = @ + Stored(n)]
      /\ UNCHANGED <<catalog, shifts, sales, refunds, idem, answer>>
  BY DEF AdjustStock, Opened
<1>2. b \in Int /\ Exact(b) /\ moved[r] \in Int
  BY <1>0, ExactZero DEF Opened, Consistent, TypeOK
<1> HIDE DEF n, b, r
<1>3. balance \in [Rows -> Int \cup {None}] /\ moved \in [Rows -> Int]
  BY DEF Consistent, TypeOK
<1>4. /\ balance'[r] = Stored(b + n) /\ moved'[r] = moved[r] + Stored(n)
      /\ \A s \in Rows \ {r} : balance'[s] = balance[s] /\ moved'[s] = moved[s]
      /\ balance' = [s \in Rows |-> balance'[s]] /\ moved' = [s \in Rows |-> moved'[s]]
  BY <1>0, <1>1, <1>3
<1>5. balance'[r] \in Nat /\ Exact(balance'[r])
  <2>1. b + n \in Int
    BY <1>0, <1>2
  <2>. QED BY <1>1, <1>4, <2>1, StoredType
<1>6. Stored(n) \in Int
  BY <1>0, StoredType
<1>7. ASSUME NoHalves PROVE balance'[r] - b = moved'[r] - moved[r]
  <2>1. balance'[r] = b + Stored(n)
    BY <1>0, <1>2, <1>4, <1>7, StoredPlus
  <2>. QED BY <1>2, <1>4, <1>6, <2>1
<1>8. RowMoved(r)
  BY <1>2, <1>4, <1>5, <1>6, <1>7 DEF RowMoved, b
<1>9. \A s \in Rows : RowMoved(s)
  BY <1>4, <1>8 DEF RowMoved
<1>. QED BY <1>1, <1>4, <1>9, ShelvesMoved, StockOnly

\* Quantities that the column holds add up to one.
LEMMA SumExact ==
  ASSUME NEW S, IsFiniteSet(S), NEW f, \A x \in S : f[x] \in Int /\ Exact(f[x])
  PROVE  Exact(SumFunctionOnSet(f, S))
<1> DEFINE C == {T \in SUBSET S : Exact(SumFunctionOnSet(f, T))}
<1>1. {} \in C
  BY SumEmpty, ExactZero
<1>2. ASSUME NEW T \in SUBSET S, NEW y \in S \ T, T \in C PROVE T \cup {y} \in C
  <2>1. IsFiniteSet(T) /\ \A x \in T \cup {y} : f[x] \in Int
    BY FS_Subset
  <2>2. SumFunctionOnSet(f, T \cup {y}) = f[y] + SumFunctionOnSet(f, T)
    BY <2>1, SumAdding
  <2>3. SumFunctionOnSet(f, T) \in Int /\ Exact(SumFunctionOnSet(f, T)) /\ f[y] \in Int /\ Exact(f[y])
    BY <1>2, <2>1, SumType
  <2>. QED BY <2>2, <2>3, ExactSum
<1> HIDE DEF C
<1>3. S \in C
  BY <1>1, <1>2, SetsInduct
<1>. QED BY <1>3 DEF C

LEMMA ReceiveOK ==
  ASSUME Consistent, NEW d \in Deliveries, Receive(d)
  PROVE  Consistent'
<1> DEFINE products == {d.items[n].product : n \in DOMAIN d.items}
           f(p) == [n \in {n \in DOMAIN d.items : d.items[n].product = p} |-> d.items[n].quantity]
           taken == [p \in products |-> SumFunction(f(p))]
<1>1. /\ AddTo(d.location, taken) /\ UNCHANGED <<catalog, shifts, sales, refunds, idem, answer>>
      /\ \A n \in DOMAIN d.items : d.items[n].quantity > 0
      /\ d.location \in Locations
  BY ScaleAssumption DEF Receive
<1>2. /\ IsFiniteSet(DOMAIN d.items)
      /\ \A n \in DOMAIN d.items : d.items[n].quantity \in Int /\ Exact(d.items[n].quantity)
  BY ListedLines, RequestAssumption
<1>3. ASSUME NEW p \in products PROVE SumFunction(f(p)) \in Nat /\ Exact(SumFunction(f(p)))
  <2> DEFINE S == {n \in DOMAIN d.items : d.items[n].product = p}
  <2>1. IsFiniteSet(S)
    BY <1>2, FS_Subset
  <2>2. DOMAIN f(p) = S /\ \A n \in S : f(p)[n] \in Nat /\ Exact(f(p)[n])
    BY <1>1, <1>2
  <2> HIDE DEF f, S
  <2>3. SumFunctionOnSet(f(p), S) \in Nat
    BY <2>1, <2>2, SumNat
  <2>4. Exact(SumFunctionOnSet(f(p), S))
    <3>1. \A n \in S : f(p)[n] \in Int /\ Exact(f(p)[n])
      BY <2>2
    <3>. QED BY <2>1, <3>1, SumExact
  <2>. QED BY <2>2, <2>3, <2>4 DEF SumFunction
<1> HIDE DEF f, products
<1>4. ASSUME NEW p \in DOMAIN taken PROVE taken[p] \in Nat /\ ~HalfWay(taken[p])
  <2>1. taken[p] \in Nat /\ Exact(taken[p])
    BY <1>3
  <2> HIDE DEF taken
  <2>. QED BY <2>1, ExactIsWhole
<1> HIDE DEF taken
<1>5. Shelves'
  BY <1>1, <1>4, AddToOK
<1>. QED BY <1>1, <1>5, StockOnly

LEMMA RequestedType ==
  ASSUME NEW rows \in ReturnRequests
  PROVE  \A i \in DOMAIN Requested(rows) :
           Requested(rows)[i] \in Int /\ (NoHalves => ~HalfWay(Requested(rows)[i]))
<1> DEFINE R == [item: Nat, quantity: Int]
<1>1. rows \in Seq(R)
  BY RequestAssumption
<1> HIDE DEF R
<1>2. Len(rows) \in Nat /\ DOMAIN rows = 1 .. Len(rows) /\ \A x \in DOMAIN rows : rows[x] \in R
  BY <1>1
<1>3. IsFiniteSet(1 .. Len(rows))
  BY <1>2, FS_Interval
<1> SUFFICES ASSUME NEW i \in {rows[x].item : x \in DOMAIN rows}
             PROVE  LET n == rows[Max({x \in DOMAIN rows : rows[x].item = i})].quantity
                    IN  n \in Int /\ (NoHalves => ~HalfWay(n))
  BY DEF Requested
<1> DEFINE X == {x \in DOMAIN rows : rows[x].item = i}
<1>4. X \in SUBSET (1 .. Len(rows)) /\ X # {}
  BY <1>2
<1> DEFINE W == 1 .. Len(rows)
<1>a. X \subseteq W /\ W \subseteq Int
  BY <1>2, <1>4
<1> HIDE DEF X, W
<1>b. IsFiniteSet(X)
  <2>1. IsFiniteSet(W)
    BY <1>3 DEF W
  <2>. QED BY <1>a, <2>1, FS_Subset
<1>5. Max(X) \in X
  <2>1. \E m \in X : \A x \in X : m >= x
    BY <1>4, <1>a, <1>b, MaxExists
  <2>. QED BY <2>1 DEF Max
<1>6. Max(X) \in DOMAIN rows
  BY <1>5 DEF X
<1>7. rows[Max(X)].quantity \in Int /\ (NoHalves => ~HalfWay(rows[Max(X)].quantity))
  BY <1>2, <1>6 DEF R, NoHalves
<1>. QED BY <1>7 DEF X

\* What a return that is accepted does to its sale.
LEMMA Returns ==
  ASSUME Consistent, NEW sale \in 1 .. Len(sales), NEW rows \in ReturnRequests,
         ReturnSale(sale, rows)
  PROVE  LET wanted == Requested(rows) IN
         /\ DOMAIN wanted \subseteq Units(sale)
         /\ \A i \in DOMAIN wanted :
              /\ wanted[i] \in Nat /\ Stored(wanted[i]) \in Nat /\ Exact(Stored(wanted[i]))
              /\ returned[sale][i] + Stored(wanted[i]) <= sales[sale].items[i].quantity
         /\ returned' \in Seq(Seq(Nat)) /\ refunded' \in Seq(Seq(Nat))
         /\ Len(returned') = Len(sales) /\ Len(refunded') = Len(sales)
         /\ \A j \in DOMAIN sales : j # sale => returned'[j] = returned[j] /\ refunded'[j] = refunded[j]
         /\ DOMAIN returned'[sale] = Units(sale) /\ DOMAIN refunded'[sale] = Units(sale)
         /\ \A i \in Units(sale) :
              IF i \in DOMAIN wanted
              THEN /\ returned'[sale][i] = returned[sale][i] + Stored(wanted[i])
                   /\ refunded'[sale][i] =
                        refunded[sale][i] + Cents(sales[sale].items[i].unit_price * wanted[i])
              ELSE returned'[sale][i] = returned[sale][i] /\ refunded'[sale][i] = refunded[sale][i]
<1> DEFINE wanted == Requested(rows)
           items == sales[sale].items
           back == [i \in DOMAIN items |-> IF i \in DOMAIN wanted THEN returned[sale][i] + Stored(wanted[i])
                                           ELSE returned[sale][i]]
           paid == [i \in DOMAIN items |-> IF i \in DOMAIN wanted
                                           THEN refunded[sale][i] + Cents(items[i].unit_price * wanted[i])
                                           ELSE refunded[sale][i]]
<1>0. TypeOK /\ sale \in DOMAIN sales
  BY SalesSeq DEF Consistent
<1>1. /\ Len(items) \in Nat /\ Units(sale) = 1 .. Len(items) /\ DOMAIN items = Units(sale)
      /\ \A n \in Units(sale) : items[n] \in ItemRow
      /\ \A n \in Units(sale) : returned[sale][n] \in Nat /\ refunded[sale][n] \in Nat
  BY <1>0, ItemsOfSale DEF Units
<1>2. Returnable(sale, rows)
  BY DEF ReturnSale
<1>3. DOMAIN wanted \subseteq Units(sale)
  BY <1>2 DEF Returnable, Units
<1>4. ASSUME NEW i \in DOMAIN wanted
      PROVE  /\ wanted[i] \in Nat /\ Stored(wanted[i]) \in Nat /\ Exact(Stored(wanted[i]))
             /\ returned[sale][i] + Stored(wanted[i]) <= items[i].quantity
  <2>1. wanted[i] \in Int
    BY RequestedType
  <2>2. wanted[i] > 0 /\ returned[sale][i] + wanted[i] <= items[i].quantity
    BY <1>2 DEF Returnable, Existing
  <2>3. /\ returned[sale][i] \in Nat /\ items[i].quantity \in Nat
        /\ Exact(returned[sale][i]) /\ Exact(items[i].quantity)
    BY <1>0, <1>1, <1>3 DEF TypeOK, ItemRow
  <2> DEFINE n == wanted[i]
             a == returned[sale][i]
             b == items[i].quantity
  <2>4. n \in Nat /\ n <= b - a /\ a \in Int /\ b \in Int /\ b - a \in Int
    BY <2>1, <2>2, <2>3
  <2>5. Exact(a) /\ Exact(b)
    BY <2>3
  <2> HIDE DEF n, a, b
  <2>6. Exact(b - a)
    BY <2>4, <2>5, ExactSum
  <2>7. Stored(n) \in Nat /\ Exact(Stored(n))
    BY <2>4, StoredType
  <2>8. Stored(n) <= b - a
    BY <2>4, <2>6, StoredWithin
  <2>9. a + Stored(n) <= b
    BY <2>4, <2>7, <2>8
  <2>. QED BY <2>4, <2>7, <2>9 DEF n, a, b
<1>5. returned' = [returned EXCEPT ![sale] = back] /\ refunded' = [refunded EXCEPT ![sale] = paid]
  BY DEF ReturnSale, RefundPrice
<1> HIDE DEF wanted
<1>6. back \in Seq(Nat) /\ paid \in Seq(Nat)
  <2>1. \A i \in Units(sale) : back[i] \in Nat
    BY <1>1, <1>4
  <2>2. \A i \in Units(sale) : paid[i] \in Nat
    <3> SUFFICES ASSUME NEW i \in Units(sale), i \in DOMAIN wanted
                 PROVE  refunded[sale][i] + Cents(items[i].unit_price * wanted[i]) \in Nat
      BY <1>1
    <3>1. items[i].unit_price \in Nat /\ wanted[i] \in Nat
      BY <1>1, <1>4 DEF ItemRow
    <3>2. items[i].unit_price * wanted[i] \in Nat
      BY <3>1
    <3>3. Cents(items[i].unit_price * wanted[i]) \in Nat
      BY <3>2, CentsNat
    <3>. QED BY <1>1, <3>3
  <2>3. back \in [1 .. Len(items) -> Nat] /\ paid \in [1 .. Len(items) -> Nat]
    BY <1>1, <2>1, <2>2
  <2> HIDE DEF back, paid, items
  <2>. QED BY <1>1, <2>3, FunctionIsSeq
<1>7. /\ returned' \in Seq(Seq(Nat)) /\ refunded' \in Seq(Seq(Nat))
      /\ Len(returned') = Len(sales) /\ Len(refunded') = Len(sales)
      /\ returned'[sale] = back /\ refunded'[sale] = paid
      /\ \A j \in DOMAIN sales : j # sale => returned'[j] = returned[j] /\ refunded'[j] = refunded[j]
  <2> DEFINE N == Seq(Nat)
  <2>1. back \in N /\ paid \in N /\ returned \in Seq(N) /\ refunded \in Seq(N)
    BY <1>0, <1>6 DEF TypeOK
  <2>2. /\ DOMAIN returned = 1 .. Len(sales) /\ DOMAIN refunded = 1 .. Len(sales)
        /\ Len(returned) = Len(sales) /\ Len(refunded) = Len(sales) /\ Len(sales) \in Nat
        /\ DOMAIN sales = 1 .. Len(sales)
    BY <1>0, SalesSeq
  <2> HIDE DEF N, back, paid
  <2>3. returned' \in Seq(N) /\ refunded' \in Seq(N) /\ Len(returned') = Len(sales) /\ Len(refunded') = Len(sales)
    BY <1>5, <2>1, <2>2, ExceptSeq
  <2>4. /\ returned'[sale] = back /\ refunded'[sale] = paid
        /\ \A j \in DOMAIN sales : j # sale => returned'[j] = returned[j] /\ refunded'[j] = refunded[j]
    BY <1>5, <2>2
  <2>. QED BY <2>3, <2>4 DEF N
<1>8. \A i \in Units(sale) :
        IF i \in DOMAIN wanted
        THEN /\ back[i] = returned[sale][i] + Stored(wanted[i])
             /\ paid[i] = refunded[sale][i] + Cents(items[i].unit_price * wanted[i])
        ELSE back[i] = returned[sale][i] /\ paid[i] = refunded[sale][i]
  BY <1>1
<1>9. DOMAIN back = Units(sale) /\ DOMAIN paid = Units(sale)
  BY <1>1
<1> HIDE DEF back, paid
<1>. QED BY <1>3, <1>4, <1>7, <1>8, <1>9 DEF wanted

LEMMA ReturnStock ==
  ASSUME Consistent, NEW sale \in 1 .. Len(sales), NEW rows \in ReturnRequests,
         ReturnSale(sale, rows)
  PROVE  Shelves'
<1> DEFINE wanted == Requested(rows)
           items == sales[sale].items
           ItemOf(p) == CHOOSE i \in DOMAIN wanted : items[i].product = p
           goods == {items[i].product : i \in DOMAIN wanted}
           taken == [p \in goods |-> wanted[ItemOf(p)]]
<1>1. AddTo(sales[sale].location, taken)
  BY DEF ReturnSale
<1>2. sales[sale].location \in Locations
  BY SalesSeq DEF Consistent, SaleRow
<1>3. \A i \in DOMAIN wanted : wanted[i] \in Nat /\ (NoHalves => ~HalfWay(wanted[i]))
  BY Returns, RequestedType
<1>4. \A p \in goods : ItemOf(p) \in DOMAIN wanted
  <2> HIDE DEF wanted, items
  <2>. QED OBVIOUS
<1> HIDE DEF wanted, items, ItemOf, goods
<1>5. \A p \in DOMAIN taken : taken[p] \in Nat /\ (NoHalves => ~HalfWay(taken[p]))
  BY <1>3, <1>4
<1> HIDE DEF taken
<1>. QED BY <1>1, <1>2, <1>5, AddToOK

LEMMA ReturnSaleOK ==
  ASSUME Consistent, NEW sale \in 1 .. Len(sales), NEW rows \in ReturnRequests,
         ReturnSale(sale, rows)
  PROVE  Consistent'
<1> DEFINE wanted == Requested(rows)
<1>0. TypeOK /\ sale \in DOMAIN sales /\ UNCHANGED <<catalog, shifts, sales, idem, answer>>
  BY SalesSeq DEF Consistent, ReturnSale
<1>1. /\ DOMAIN wanted \subseteq Units(sale)
      /\ \A i \in DOMAIN wanted :
           /\ Stored(wanted[i]) \in Nat /\ Exact(Stored(wanted[i]))
           /\ returned[sale][i] + Stored(wanted[i]) <= sales[sale].items[i].quantity
      /\ returned' \in Seq(Seq(Nat)) /\ refunded' \in Seq(Seq(Nat))
      /\ Len(returned') = Len(sales) /\ Len(refunded') = Len(sales)
      /\ \A j \in DOMAIN sales : j # sale => returned'[j] = returned[j] /\ refunded'[j] = refunded[j]
      /\ DOMAIN returned'[sale] = Units(sale) /\ DOMAIN refunded'[sale] = Units(sale)
      /\ \A i \in Units(sale) :
           IF i \in DOMAIN wanted
           THEN returned'[sale][i] = returned[sale][i] + Stored(wanted[i])
           ELSE returned'[sale][i] = returned[sale][i]
  BY Returns
<1> HIDE DEF wanted
<1>2. Shelves'
  BY ReturnStock
<1>3. \A n \in Units(sale) : returned[sale][n] \in Nat /\ Exact(returned[sale][n])
  BY <1>0, ItemsOfSale DEF TypeOK
<1>4. ASSUME NEW j \in DOMAIN sales, NEW n \in Units(j)
      PROVE  Exact(returned'[j][n]) /\ returned'[j][n] <= sales[j].items[n].quantity
  <2>1. CASE j # sale
    BY <1>0, <1>1, <2>1 DEF TypeOK, Consistent, ReturnsWithinSale
  <2>2. CASE j = sale /\ n \in DOMAIN wanted
    <3>1. returned'[j][n] = returned[j][n] + Stored(wanted[n])
      BY <1>1, <2>2
    <3>2. /\ Stored(wanted[n]) \in Int /\ Exact(Stored(wanted[n]))
          /\ returned[j][n] \in Int /\ Exact(returned[j][n])
      BY <1>1, <1>3, <2>2
    <3>3. Exact(returned[j][n] + Stored(wanted[n]))
      BY <3>2, ExactSum
    <3>. QED BY <1>1, <2>2, <3>1, <3>3
  <2>3. CASE j = sale /\ n \notin DOMAIN wanted
    BY <1>0, <1>1, <2>3 DEF TypeOK, Consistent, ReturnsWithinSale
  <2>. QED BY <2>1, <2>2, <2>3
<1>5. TypeOK'
  <2>1. \A j \in DOMAIN sales : DOMAIN returned'[j] = Units(j) /\ DOMAIN refunded'[j] = Units(j)
    BY <1>0, <1>1 DEF TypeOK
  <2>2. \A j \in DOMAIN sales : \A n \in Units(j) : Exact(sales[j].items[n].quantity)
    BY <1>0 DEF TypeOK
  <2>. QED BY <1>0, <1>1, <1>2, <1>4, <2>1, <2>2 DEF TypeOK, Shelves, Units
<1>6. ReturnsWithinSale'
  BY <1>0, <1>4 DEF ReturnsWithinSale, Units
<1>7. (RetryGetsItsSale /\ KeysOfSales)'
  BY <1>0 DEF Consistent, RetryGetsItsSale, KeysOfSales
<1>8. ASSUME NEW j \in DOMAIN sales PROVE SaleOK(j)'
  BY <1>0 DEF Consistent, SaleOK, Units
<1>. QED BY <1>0, <1>2, <1>5, <1>6, <1>7, <1>8 DEF Consistent, Shelves

\* Who brings a line back whole, of a quantity its column holds, is paid what
\* it cost.
LEMMA ReturnPays ==
  ASSUME Consistent, NEW sale \in DOMAIN sales, NEW rows \in ReturnRequests,
         ReturnSale(sale, rows), NEW n \in DOMAIN Requested(rows),
         Requested(rows)[n] = sales[sale].items[n].quantity,
         sales[sale].items[n].quantity = sales[sale].cart.items[n].quantity
  PROVE  refunded'[sale][n] - refunded[sale][n] = sales[sale].items[n].line_total
<1> DEFINE item == sales[sale].items[n]
<1>1. TypeOK /\ SaleOK(sale) /\ sale \in 1 .. Len(sales)
  BY SalesSeq DEF Consistent
<1>2. /\ n \in Units(sale)
      /\ refunded'[sale][n] = refunded[sale][n] + Cents(item.unit_price * Requested(rows)[n])
  BY <1>1, Returns
<1>3. item.line_total = Cents(item.unit_price * Requested(rows)[n])
  BY <1>1, <1>2 DEF SaleOK
<1>4. refunded[sale][n] \in Nat /\ item \in ItemRow
  BY <1>1, <1>2, ItemsOfSale
<1>5. item.line_total \in Nat
  BY <1>4 DEF ItemRow
<1>. QED BY <1>2, <1>3, <1>4, <1>5

-----------------------------------------------------------------------------
(* Shifts and the catalogue.                                               *)

\* A step that changes the catalogue, or shifts without moving a sale.
LEMMA ShiftsOnly ==
  ASSUME Consistent, UNCHANGED <<stock, sales, refunds, idem, answer>>,
         catalog' \in Catalogs, shifts' \in Seq(ShiftRow), DOMAIN shifts \subseteq DOMAIN shifts',
         \A s \in DOMAIN shifts' : shifts'[s].open <=> shifts'[s].closing = None
  PROVE  Consistent'
<1>0. UNCHANGED <<balance, moved, sales, returned, refunded, idem, answer>>
  BY DEF stock, refunds
<1>1. TypeOK'
  BY <1>0 DEF Consistent, TypeOK, Units
<1>2. (Booked /\ ShelvesNotNegative /\ ReturnsWithinSale /\ KeysOfSales /\ RetryGetsItsSale)'
  BY <1>0 DEF Consistent, Booked, StockIsItsMovements, ShelvesNotNegative, ReturnsWithinSale,
              KeysOfSales, RetryGetsItsSale, Units
<1>3. ASSUME NEW j \in DOMAIN sales PROVE SaleOK(j)'
  BY <1>0 DEF Consistent, SaleOK, Units
<1>. QED BY <1>0, <1>1, <1>2, <1>3 DEF Consistent

LEMMA OpenShiftOK ==
  ASSUME Consistent, NEW u \in Users, NEW l \in Locations, NEW cash \in Floats,
         OpenShift(u, l, cash)
  PROVE  /\ Consistent'
         /\ \A s \in DOMAIN shifts : shifts'[s] = shifts[s]
<1> DEFINE new == [user |-> u, location |-> l, opening |-> cash, closing |-> None, open |-> TRUE]
           H == ShiftRow
<1>1. new \in H
  <2>1. cash \in Nat
    BY RequestAssumption DEF OpenShift
  <2>. QED BY <2>1 DEF ShiftRow
<1>2. /\ shifts' = Append(shifts, new) /\ shifts \in Seq(H)
      /\ UNCHANGED <<catalog, stock, sales, refunds, idem, answer>>
  BY DEF OpenShift, Consistent, TypeOK
<1>3. Len(shifts) \in Nat /\ DOMAIN shifts = 1 .. Len(shifts)
  BY SalesSeq DEF Consistent
<1>4. new.open = TRUE /\ new.closing = None
  OBVIOUS
<1> HIDE DEF new, H
<1>5. /\ shifts' \in Seq(H) /\ DOMAIN shifts' = 1 .. Len(shifts) + 1
      /\ shifts'[Len(shifts) + 1] = new /\ \A s \in 1 .. Len(shifts) : shifts'[s] = shifts[s]
  BY <1>1, <1>2, Appended
<1>6. \A s \in DOMAIN shifts' : shifts'[s].open <=> shifts'[s].closing = None
  <2>1. \A s \in 1 .. Len(shifts) : shifts[s].open <=> shifts[s].closing = None
    BY <1>3 DEF Consistent, TypeOK
  <2>2. ASSUME NEW s \in DOMAIN shifts' PROVE s \in 1 .. Len(shifts) \/ s = Len(shifts) + 1
    BY <1>3, <1>5
  <2>. QED BY <1>4, <1>5, <2>1, <2>2
<1>7. catalog' \in Catalogs /\ DOMAIN shifts \subseteq DOMAIN shifts'
  BY <1>2, <1>3, <1>5 DEF Consistent, TypeOK
<1>8. shifts' \in Seq(ShiftRow)
  BY <1>5 DEF H
<1>. QED BY <1>2, <1>3, <1>5, <1>6, <1>7, <1>8, ShiftsOnly

LEMMA CloseShiftOK ==
  ASSUME Consistent, NEW u \in Users, NEW s, NEW cash \in Floats, CloseShift(u, s, cash)
  PROVE  /\ Consistent'
         /\ \A t \in DOMAIN shifts : ~shifts[t].open => shifts'[t] = shifts[t]
<1> DEFINE H == ShiftRow
           new == Closed(shifts[s], cash)
<1>1. /\ s \in DOMAIN shifts /\ shifts[s].open /\ shifts' = [shifts EXCEPT ![s] = new]
      /\ UNCHANGED <<catalog, stock, sales, refunds, idem, answer>>
  BY DEF CloseShift, OpenShiftOf
<1>2. /\ Len(shifts) \in Nat /\ DOMAIN shifts = 1 .. Len(shifts)
      /\ \A t \in DOMAIN shifts : shifts[t] \in ShiftRow
  BY SalesSeq DEF Consistent
<1>3. new \in H /\ new.open = FALSE /\ new.closing # None
  <2>1. cash \in Nat
    BY RequestAssumption DEF CloseShift
  <2>. QED BY <1>1, <1>2, <2>1, NoneIsNothing DEF Closed, ShiftRow
<1>4. shifts \in Seq(H)
  BY DEF Consistent, TypeOK
<1> HIDE DEF new, H
<1>5. shifts' \in Seq(H) /\ Len(shifts') = Len(shifts)
  BY <1>1, <1>3, <1>4, ExceptSeq
<1>6. /\ DOMAIN shifts' = DOMAIN shifts /\ shifts'[s] = new
      /\ \A t \in DOMAIN shifts : t # s => shifts'[t] = shifts[t]
  BY <1>1
<1>7. \A t \in DOMAIN shifts' : shifts'[t].open <=> shifts'[t].closing = None
  BY <1>3, <1>6 DEF Consistent, TypeOK
<1>8. shifts' \in Seq(ShiftRow) /\ catalog' \in Catalogs
  BY <1>1, <1>5 DEF H, Consistent, TypeOK
<1>. QED BY <1>1, <1>6, <1>7, <1>8, ShiftsOnly

LEMMA EditCatalogOK ==
  ASSUME Consistent, EditCatalog
  PROVE  Consistent'
<1>1. shifts' \in Seq(ShiftRow) /\ \A s \in DOMAIN shifts' : shifts'[s].open <=> shifts'[s].closing = None
  BY DEF EditCatalog, Consistent, TypeOK
<1>. QED BY <1>1, ShiftsOnly DEF EditCatalog

-----------------------------------------------------------------------------
(* Steps: what they keep besides the invariant.                            *)

ClosedKept ==
  \A s \in DOMAIN shifts : ~shifts[s].open =>
    shifts'[s] = shifts[s] /\ Summary(s)' = Summary(s)

StepOK == Consistent' /\ ClosedKept

\* The summary of a shift is that of its row and its sales.
LEMMA SummaryKept ==
  ASSUME NEW s, shifts'[s] = shifts[s], DOMAIN sales \subseteq DOMAIN sales',
         \A i \in DOMAIN sales : sales'[i] = sales[i],
         \A i \in DOMAIN sales' \ DOMAIN sales : sales'[i].shift # s
  PROVE  Summary(s)' = Summary(s)
<1>1. SalesOf(s)' = SalesOf(s) /\ SalesOf(s) \subseteq DOMAIN sales
  BY DEF SalesOf
<1> DEFINE f == [i \in SalesOf(s) |-> PaidBy(sales[i].payments, "CASH")]
           g == [i \in SalesOf(s)' |-> PaidBy(sales'[i].payments, "CASH")]
<1>2. g = f
  BY <1>1
<1>3. ByMethod(s, "CASH")' = ByMethod(s, "CASH")
  <2>1. ByMethod(s, "CASH") = SumFunction(f) /\ ByMethod(s, "CASH")' = SumFunction(g)
    BY DEF ByMethod, PaidBy
  <2> HIDE DEF f, g
  <2>. QED BY <1>2, <2>1
<1>. QED BY <1>3 DEF Summary

LEMMA NextOK == Consistent /\ [Next]_vars => StepOK
<1> SUFFICES ASSUME Consistent, [Next]_vars PROVE StepOK
  OBVIOUS
<1>0. /\ Len(sales) \in Nat /\ DOMAIN sales = 1 .. Len(sales)
  BY SalesSeq DEF Consistent
<1>1. ASSUME UNCHANGED sales,
             \A s \in DOMAIN shifts : ~shifts[s].open => shifts'[s] = shifts[s]
      PROVE  ClosedKept
  <2>1. ASSUME NEW s \in DOMAIN shifts, ~shifts[s].open
        PROVE  shifts'[s] = shifts[s] /\ Summary(s)' = Summary(s)
    BY <1>1, <2>1, SummaryKept
  <2>. QED BY <2>1 DEF ClosedKept
<1>2. CASE UNCHANGED vars
  <2>0. UNCHANGED <<catalog, balance, moved, shifts, sales, returned, refunded, idem, answer>>
    BY <1>2 DEF vars, stock, refunds
  <2>1. TypeOK'
    BY <2>0 DEF Consistent, TypeOK, Units
  <2>2. (Booked /\ ShelvesNotNegative /\ ReturnsWithinSale /\ KeysOfSales /\ RetryGetsItsSale)'
    BY <2>0 DEF Consistent, Booked, StockIsItsMovements, ShelvesNotNegative, ReturnsWithinSale,
                KeysOfSales, RetryGetsItsSale, Units
  <2>3. ASSUME NEW j \in DOMAIN sales PROVE SaleOK(j)'
    BY <2>0 DEF Consistent, SaleOK, Units
  <2>. QED BY <1>1, <2>0, <2>1, <2>2, <2>3 DEF Consistent, StepOK
<1>3. CASE NoKey
  <2>1. UNCHANGED <<sales, shifts>>
    BY <1>3 DEF NoKey, Refuse, refunds
  <2>. QED BY <1>1, <1>3, <2>1, NoKeyOK DEF StepOK
<1>4. ASSUME NEW u \in Users, NEW k \in Keys, NEW s \in 1 .. MaxShifts, NEW q \in Carts,
             Checkout(u, k, s, q)
      PROVE  StepOK
  <2>1. CASE Replay(k, q) \/ Reject(u, k, s, q)
    <3>1. UNCHANGED <<sales, shifts>>
      BY <2>1 DEF Replay, Reject, Refuse, refunds
    <3>. QED BY <1>1, <2>1, <3>1, ReplayOK, RefuseOK DEF StepOK, Reject
  <2>2. CASE Sell(u, k, s, q)
    <3>1. /\ Consistent' /\ shifts' = shifts /\ shifts[s].open
          /\ DOMAIN sales' = 1 .. Len(sales) + 1 /\ sales'[Len(sales) + 1].shift = s
          /\ \A i \in DOMAIN sales : sales'[i] = sales[i] /\ returned'[i] = returned[i]
      BY <2>2, SellOK
    <3>2. ASSUME NEW t \in DOMAIN shifts, ~shifts[t].open
          PROVE  Summary(t)' = Summary(t)
      <4>1. \A i \in DOMAIN sales' \ DOMAIN sales : sales'[i].shift # t
        BY <1>0, <3>1, <3>2
      <4>2. DOMAIN sales \subseteq DOMAIN sales'
        BY <1>0, <3>1
      <4>. QED BY <3>1, <4>1, <4>2, SummaryKept
    <3>. QED BY <3>1, <3>2 DEF StepOK, ClosedKept
  <2>. QED BY <1>4, <2>1, <2>2 DEF Checkout
<1>5. ASSUME NEW sale \in 1 .. Len(sales), NEW rows \in ReturnRequests, ReturnSale(sale, rows)
      PROVE  StepOK
  <2>1. UNCHANGED <<sales, shifts>>
    BY <1>5 DEF ReturnSale
  <2>2. ASSUME NEW s \in DOMAIN shifts PROVE Summary(s)' = Summary(s)
    BY <2>1, SummaryKept
  <2>. QED BY <1>5, <2>1, <2>2, ReturnSaleOK DEF StepOK, ClosedKept
<1>6. ASSUME NEW a \in Adjustments, AdjustStock(a) PROVE StepOK
  <2>1. UNCHANGED <<sales, shifts>>
    BY <1>6 DEF AdjustStock, refunds
  <2>. QED BY <1>1, <1>6, <2>1, AdjustStockOK DEF StepOK
<1>7. ASSUME NEW d \in Deliveries, Receive(d) PROVE StepOK
  <2>1. UNCHANGED <<sales, shifts>>
    BY <1>7 DEF Receive, refunds
  <2>. QED BY <1>1, <1>7, <2>1, ReceiveOK DEF StepOK
<1>8. ASSUME NEW u \in Users, NEW l \in Locations, NEW cash \in Floats, OpenShift(u, l, cash)
      PROVE  StepOK
  <2>1. UNCHANGED sales
    BY <1>8 DEF OpenShift, refunds
  <2>. QED BY <1>1, <1>8, <2>1, OpenShiftOK DEF StepOK
<1>9. ASSUME NEW u \in Users, NEW s \in 1 .. MaxShifts, NEW cash \in Floats, CloseShift(u, s, cash)
      PROVE  StepOK
  <2>1. UNCHANGED sales
    BY <1>9 DEF CloseShift, refunds
  <2>. QED BY <1>1, <1>9, <2>1, CloseShiftOK DEF StepOK
<1>10. CASE EditCatalog
  <2>1. UNCHANGED <<sales, shifts>>
    BY <1>10 DEF EditCatalog, refunds
  <2>. QED BY <1>1, <1>10, <2>1, EditCatalogOK DEF StepOK
<1>. QED BY <1>2, <1>3, <1>4, <1>5, <1>6, <1>7, <1>8, <1>9, <1>10 DEF Next

-----------------------------------------------------------------------------
(* Totals.                                                                 *)

LEMMA SumOverMethods ==
  ASSUME NEW f, f["CASH"] \in Int, f["POS"] \in Int, f["TRANSFER"] \in Int
  PROVE  SumFunctionOnSet(f, Methods) = f["CASH"] + f["POS"] + f["TRANSFER"]
<1>1. SumFunctionOnSet(f, {"CASH"}) = f["CASH"]
  BY SumSingle
<1>2. IsFiniteSet({"CASH"}) /\ IsFiniteSet({"CASH"} \cup {"POS"})
  BY FS_Singleton, FS_AddElement
<1>3. SumFunctionOnSet(f, {"CASH"} \cup {"POS"}) = f["POS"] + SumFunctionOnSet(f, {"CASH"})
  BY <1>2, SumAdding
<1>4. SumFunctionOnSet(f, ({"CASH"} \cup {"POS"}) \cup {"TRANSFER"})
        = f["TRANSFER"] + SumFunctionOnSet(f, {"CASH"} \cup {"POS"})
  BY <1>2, SumAdding
<1>5. Methods = ({"CASH"} \cup {"POS"}) \cup {"TRANSFER"}
  BY DEF Methods
<1>. QED BY <1>1, <1>3, <1>4, <1>5

\* What is paid is paid in some method.
LEMMA PaidByMethods ==
  ASSUME NEW payments \in Seq(PaymentRow)
  PROVE  /\ \A m \in Methods : PaidBy(payments, m) \in Nat
         /\ Paid(payments) = PaidBy(payments, "CASH") + PaidBy(payments, "POS")
                                + PaidBy(payments, "TRANSFER")
<1> DEFINE D == DOMAIN payments
           f == [n \in D |-> payments[n].amount]
           By(m) == {n \in D : payments[n].method = m}
<1>1. IsFiniteSet(D) /\ \A n \in D : payments[n] \in PaymentRow
  <2> HIDE DEF PaymentRow
  <2>1. Len(payments) \in Nat /\ D = 1 .. Len(payments) /\ \A n \in D : payments[n] \in PaymentRow
    OBVIOUS
  <2>2. IsFiniteSet(1 .. Len(payments))
    BY <2>1, FS_Interval
  <2>. QED BY <2>1, <2>2
<1>2. \A n \in D : f[n] \in Nat /\ payments[n].method \in Methods
  BY <1>1 DEF PaymentRow
<1>3. ASSUME NEW m
      PROVE  /\ IsFiniteSet(By(m)) /\ By(m) \subseteq D
             /\ PaidBy(payments, m) = SumFunctionOnSet(f, By(m)) /\ PaidBy(payments, m) \in Nat
  <2> DEFINE g == [n \in {n \in DOMAIN payments : payments[n].method = m} |-> payments[n].amount]
             B == By(m)
  <2>1. B \subseteq D /\ \A n \in B : f[n] \in Int /\ f[n] \in Nat /\ f[n] = g[n]
    BY <1>2
  <2>2. IsFiniteSet(B)
    BY <1>1, FS_Subset
  <2>3. PaidBy(payments, m) = SumFunctionOnSet(g, B)
    BY DEF PaidBy, SumFunction
  <2> HIDE DEF f, g, B
  <2>4. SumFunctionOnSet(f, B) = SumFunctionOnSet(g, B) /\ SumFunctionOnSet(f, B) \in Nat
    BY <2>1, <2>2, SumAgrees, SumNat
  <2>. QED BY <2>1, <2>2, <2>3, <2>4 DEF B
<1> DEFINE C == By("CASH")
           P == By("POS")
           T == By("TRANSFER")
<1>4. D = (C \cup P) \cup T /\ C \cap P = {} /\ (C \cup P) \cap T = {}
  BY <1>2 DEF Methods
<1>5. Paid(payments) = SumFunctionOnSet(f, D)
  BY DEF Paid, SumFunction
<1>6. /\ IsFiniteSet(C) /\ IsFiniteSet(P) /\ IsFiniteSet(T)
      /\ PaidBy(payments, "CASH") = SumFunctionOnSet(f, C)
      /\ PaidBy(payments, "POS") = SumFunctionOnSet(f, P)
      /\ PaidBy(payments, "TRANSFER") = SumFunctionOnSet(f, T)
  BY <1>3
<1>7. \A n \in D : f[n] \in Int
  BY <1>2
<1> HIDE DEF D, f, By, C, P, T
<1>8. SumFunctionOnSet(f, C \cup P) = SumFunctionOnSet(f, C) + SumFunctionOnSet(f, P)
  BY <1>4, <1>6, <1>7, SumUnion
<1>9. IsFiniteSet(C \cup P)
  BY <1>6, FS_Union
<1>10. SumFunctionOnSet(f, D) = SumFunctionOnSet(f, C \cup P) + SumFunctionOnSet(f, T)
  BY <1>4, <1>6, <1>7, <1>9, SumUnion
<1>. QED BY <1>3, <1>5, <1>6, <1>8, <1>10

LEMMA ConsistentTotals == Consistent => TotalsReconcile
<1> SUFFICES ASSUME Consistent PROVE TotalsReconcile
  OBVIOUS
<1>1. ASSUME NEW i \in DOMAIN sales
      PROVE  sales[i].total = SumFunction([n \in Units(i) |-> sales[i].items[n].line_total])
  BY DEF Consistent, SaleOK, Total, Units
<1>2. ASSUME NEW s \in DOMAIN shifts
      PROVE  SumFunction([m \in Methods |-> ByMethod(s, m)])
               = SumFunction([i \in SalesOf(s) |-> sales[i].total])
  <2> DEFINE S == SalesOf(s)
             by(m) == [i \in S |-> PaidBy(sales[i].payments, m)]
             two == [i \in S |-> by("CASH")[i] + by("POS")[i]]
             all == [i \in S |-> sales[i].total]
             f == [m \in Methods |-> ByMethod(s, m)]
  <2>1. /\ S \subseteq DOMAIN sales /\ IsFiniteSet(S)
        /\ \A i \in S : sales[i].payments \in Seq(PaymentRow) /\ sales[i].total = Paid(sales[i].payments)
    <3>1. IsFiniteSet(1 .. Len(sales)) /\ DOMAIN sales = 1 .. Len(sales)
      BY SalesSeq, FS_Interval DEF Consistent
    <3>2. S \subseteq DOMAIN sales
      BY DEF SalesOf
    <3>3. ASSUME NEW i \in S
          PROVE  sales[i].payments \in Seq(PaymentRow) /\ sales[i].total = Paid(sales[i].payments)
      <4>1. sales[i] \in SaleRow /\ SaleOK(i)
        BY <3>2, SalesSeq DEF Consistent
      <4>. QED BY <4>1 DEF SaleRow, SaleOK
    <3>. QED BY <3>1, <3>2, <3>3, FS_Subset
  <2>2. ASSUME NEW i \in S
        PROVE  /\ \A m \in Methods : by(m)[i] \in Int
               /\ all[i] = two[i] + by("TRANSFER")[i] /\ two[i] \in Int
               /\ two[i] = by("CASH")[i] + by("POS")[i]
    <3> DEFINE p == sales[i].payments
    <3>1. /\ \A m \in Methods : PaidBy(p, m) \in Nat
          /\ Paid(p) = PaidBy(p, "CASH") + PaidBy(p, "POS") + PaidBy(p, "TRANSFER")
      BY <2>1, PaidByMethods
    <3>2. all[i] = Paid(p)
      BY <2>1
    <3>3. \A m \in Methods : by(m)[i] = PaidBy(p, m)
      OBVIOUS
    <3>4. two[i] = by("CASH")[i] + by("POS")[i]
      OBVIOUS
    <3>5. {"CASH", "POS", "TRANSFER"} \subseteq Methods
      BY DEF Methods
    <3> HIDE DEF by, all, two, p
    <3>. QED BY <3>1, <3>2, <3>3, <3>4, <3>5
  <2>3. \A m \in Methods : f[m] = SumFunctionOnSet(by(m), S)
    BY DEF ByMethod, SumFunction
  <2>4. DOMAIN f = Methods /\ DOMAIN all = S
    OBVIOUS
  <2>5. {"CASH", "POS", "TRANSFER"} \subseteq Methods
    BY DEF Methods
  <2> HIDE DEF S, by, two, all, f
  <2>6. SumFunctionOnSet(two, S) = SumFunctionOnSet(by("CASH"), S) + SumFunctionOnSet(by("POS"), S)
    BY <2>1, <2>2, <2>5, SumPlus
  <2>7. SumFunctionOnSet(all, S) = SumFunctionOnSet(two, S) + SumFunctionOnSet(by("TRANSFER"), S)
    BY <2>1, <2>2, <2>5, SumPlus
  <2>8. \A m \in Methods : f[m] \in Int
    BY <2>1, <2>2, <2>3, SumType
  <2>9. SumFunctionOnSet(f, Methods) = f["CASH"] + f["POS"] + f["TRANSFER"]
    BY <2>5, <2>8, SumOverMethods
  <2>10. SumFunctionOnSet(f, Methods) = SumFunctionOnSet(all, S)
    BY <2>3, <2>5, <2>6, <2>7, <2>8, <2>9
  <2>. QED BY <2>4, <2>10 DEF SumFunction, f, all, S
<1>. QED BY <1>1, <1>2 DEF TotalsReconcile

-----------------------------------------------------------------------------
(* The theorems.                                                           *)

\* A sale, its lines, its payments, its key and the stock it took hold together
\* whatever is sold, returned, corrected, delivered, opened and closed: the
\* invariant the theorems below rest on.
THEOREM ConsistencyInvariant == Spec => []Consistent
<1>1. Consistent /\ [Next]_vars => Consistent'
  BY NextOK DEF StepOK
<1>. QED BY <1>1, InitConsistent, PTL DEF Spec

\* Rows have the columns of models.py, and every sale is of a shift.
THEOREM TypeCorrect == Spec => []TypeOK
<1>1. Consistent => TypeOK
  BY DEF Consistent
<1>. QED BY <1>1, ConsistencyInvariant, PTL

\* Where no request lies half-way between two quantities of the column, every
\* balance is what it opened with plus its movements, however fine the requests.
THEOREM StockBooked ==
  ASSUME NoHalves
  PROVE  Spec => []StockIsItsMovements
<1>1. Consistent => StockIsItsMovements
  BY DEF Consistent, Booked
<1>. QED BY <1>1, ConsistencyInvariant, PTL

\* No balance becomes negative, whatever is reserved of it.
THEOREM NothingOversold == Spec => []ShelvesNotNegative
<1>1. Consistent => ShelvesNotNegative
  BY DEF Consistent
<1>. QED BY <1>1, ConsistencyInvariant, PTL

\* No more of an item is recorded as returned than as sold, however often a
\* request names it, in however many returns and however these are rounded.
THEOREM ReturnsFitSale == Spec => []ReturnsWithinSale
<1>1. Consistent => ReturnsWithinSale
  BY DEF Consistent
<1>. QED BY <1>1, ConsistencyInvariant, PTL

\* Whoever asks again with a key for what it bought is answered with its sale.
THEOREM RetryAnswered == Spec => []RetryGetsItsSale
<1>1. Consistent => RetryGetsItsSale
  BY DEF Consistent
<1>. QED BY <1>1, ConsistencyInvariant, PTL

\* The lines of a sale, and what was paid by cash, card and transfer in a
\* shift, come to the totals, at any scale and any prices.
THEOREM DrawerReconciles == Spec => []TotalsReconcile
BY ConsistentTotals, ConsistencyInvariant, PTL

\* A line of a quantity its column holds that comes back whole is paid back
\* whole, whatever the product costs by then.
THEOREM WholeReturnPaid == Spec => WholeReturnRefundsLine
<1>1. Consistent =>
        [\A i \in DOMAIN sales, rows \in ReturnRequests : ReturnSale(i, rows) =>
           \A n \in DOMAIN Requested(rows) :
             Requested(rows)[n] = sales[i].items[n].quantity
               /\ sales[i].items[n].quantity = sales[i].cart.items[n].quantity
             => refunded'[i][n] - refunded[i][n] = sales[i].items[n].line_total]_vars
  BY ReturnPays
<1>. QED BY <1>1, ConsistencyInvariant, PTL DEF Spec, WholeReturnRefundsLine

\* A closed shift keeps its row and its summary.
THEOREM ClosedStaysClosed == Spec => ClosedShiftFinal
<1>1. Consistent /\ [Next]_vars =>
        [\A s \in DOMAIN shifts : ~shifts[s].open =>
           shifts'[s] = shifts[s] /\ Summary(s)' = Summary(s)]_vars
  BY NextOK DEF StepOK, ClosedKept
<1>. QED BY <1>1, ConsistencyInvariant, PTL DEF Spec, ClosedShiftFinal
===============================================================================
