------------------------- MODULE CheckoutBooksProofs -------------------------
(***************************************************************************)
(* What sessions add up line by line, and what is left of it in the tables *)
(* of CheckoutSale: theorems for any sessions, keys, requests, stock and   *)
(* price lists, and the proof that checkout_sale implements AtomicCheckout. *)
(***************************************************************************)
EXTENDS CheckoutSaleProofs, CheckoutRefinement, FiniteSums

-----------------------------------------------------------------------------
(* What a request costs and takes, line by line.                           *)

Costs(q, c) == [n \in LineNos(q) |-> c[q.lines[n].product].price * q.lines[n].quantity]
Takes(q, i) == [n \in LineNos(q) |-> IF ItemOf(q, n) = i THEN q.lines[n].quantity ELSE 0]
Cost(q, c, lines) == SumFunctionOnSet(Costs(q, c), lines)
Taken(q, i, lines) == SumFunctionOnSet(Takes(q, i), lines)

LEMMA Amounts ==
  ASSUME NEW q \in Requests
  PROVE  /\ IsFiniteSet(LineNos(q))
         /\ \A c \in Catalogs : \A n \in LineNos(q) : Costs(q, c)[n] \in Int
         /\ \A i \in Items : \A n \in LineNos(q) : Takes(q, i)[n] \in Int
<1>1. IsFiniteSet(LineNos(q))
  BY RequestLines, FS_Interval
<1>2. ASSUME NEW c \in Catalogs, NEW n \in LineNos(q) PROVE Costs(q, c)[n] \in Int
  <2>1. c[q.lines[n].product].price \in Int /\ q.lines[n].quantity \in Int
    BY RequestLines, CatalogPrice
  <2>2. c[q.lines[n].product].price * q.lines[n].quantity \in Int
    BY <2>1
  <2>. QED BY <2>2 DEF Costs
<1>3. ASSUME NEW i \in Items, NEW n \in LineNos(q) PROVE Takes(q, i)[n] \in Int
  BY RequestLines DEF Takes
<1>. QED BY <1>1, <1>2, <1>3

LEMMA AmountsInt ==
  ASSUME NEW q \in Requests, NEW lines \in SUBSET LineNos(q)
  PROVE  /\ \A c \in Catalogs : Cost(q, c, lines) \in Int
         /\ \A i \in Items : Taken(q, i, lines) \in Int
<1>1. IsFiniteSet(lines)
  BY Amounts, FS_Subset
<1>. QED BY <1>1, Amounts, SumType DEF Cost, Taken

\* One line more.
LEMMA NextAmount ==
  ASSUME NEW q \in Requests, NEW n \in LineNos(q)
  PROVE  /\ \A c \in Catalogs : Cost(q, c, 1 .. n) = Cost(q, c, 1 .. n - 1) + Costs(q, c)[n]
         /\ \A i \in Items : Taken(q, i, 1 .. n) = Taken(q, i, 1 .. n - 1) + Takes(q, i)[n]
<1> DEFINE S == 1 .. n - 1
<1>1. n \in Nat /\ 1 .. n = S \cup {n} /\ n \notin S /\ S \cup {n} \subseteq LineNos(q)
  BY RequestLines
<1>2. IsFiniteSet(S)
  BY <1>1, FS_Interval
<1> HIDE DEF S
<1>3. ASSUME NEW f, \A x \in S \cup {n} : f[x] \in Int
      PROVE  SumFunctionOnSet(f, S \cup {n}) = SumFunctionOnSet(f, S) + f[n]
  <2>1. SumFunctionOnSet(f, S) \in Int
    BY <1>2, <1>3, SumType
  <2>2. SumFunctionOnSet(f, S \cup {n}) = f[n] + SumFunctionOnSet(f, S)
    BY <1>1, <1>2, <1>3, SumAdding
  <2>. QED BY <1>3, <2>1, <2>2
<1>4. ASSUME NEW c \in Catalogs
      PROVE  SumFunctionOnSet(Costs(q, c), S \cup {n})
               = SumFunctionOnSet(Costs(q, c), S) + Costs(q, c)[n]
  BY <1>1, <1>3, Amounts
<1>5. ASSUME NEW i \in Items
      PROVE  SumFunctionOnSet(Takes(q, i), S \cup {n})
               = SumFunctionOnSet(Takes(q, i), S) + Takes(q, i)[n]
  BY <1>1, <1>3, Amounts
<1>. QED BY <1>1, <1>4, <1>5 DEF Cost, Taken, S

\* Before the first line.
LEMMA NoAmount ==
  ASSUME NEW q, NEW c, NEW i
  PROVE  Cost(q, c, {}) = 0 /\ Taken(q, i, {}) = 0
BY SumEmpty DEF Cost, Taken

-----------------------------------------------------------------------------
(* What a session has added up when it is at a line.                       *)

Checked(p, m) ==
  IF p = "resolve" THEN 1 .. m.line - 1
  ELSE IF p \in {"write", "record", "commit"} THEN LineNos(m.req) ELSE {}
Booked(p, m) ==
  IF p = "write" THEN 1 .. m.line - 1
  ELSE IF p \in {"record", "commit"} THEN LineNos(m.req) ELSE {}

Counted(p, m) ==
  /\ m.total = Cost(m.req, m.seen, Checked(p, m))
  /\ \A i \in Items : m.delta[i] = -Taken(m.req, i, Booked(p, m))

Counting == \A t \in Txns : Counted(pc[t], mem[t])

\* A session that is before the loops has added up nothing.
LEMMA CountedBefore ==
  ASSUME NEW p \in {"idle", "products", "lock"}, NEW m, m.total = 0, m.delta = Zero
  PROVE  Counted(p, m)
<1>1. Checked(p, m) = {} /\ Booked(p, m) = {}
  BY DEF Checked, Booked
<1>2. \A i \in Items : m.delta[i] = 0
  BY DEF Zero
<1>3. \A q, c, i : Cost(q, c, {}) = 0 /\ Taken(q, i, {}) = 0
  BY NoAmount
<1>. QED BY <1>1, <1>2, <1>3 DEF Counted

\* A session before the loops stays as it is until it reads its first line.
LEMMA Uncounted ==
  ASSUME NEW p \in {"idle", "products", "lock"}, NEW m \in Locals, Counted(p, m)
  PROVE  m.total = 0 /\ m.delta = Zero
<1>1. Checked(p, m) = {} /\ Booked(p, m) = {}
  BY DEF Checked, Booked
<1>2. \A q, c, i : Cost(q, c, {}) = 0 /\ Taken(q, i, {}) = 0
  BY NoAmount
<1>3. m.total = 0 /\ \A i \in Items : m.delta[i] = 0
  BY <1>1, <1>2 DEF Counted
<1>4. m.delta \in [Items -> Int]
  BY DEF Locals
<1>. QED BY <1>3, <1>4 DEF Zero

\* The others are not disturbed.
LEMMA CountingOf ==
  ASSUME Counting, NEW t \in Txns, Counted(pc'[t], mem'[t]),
         \A u \in Txns \ {t} : pc'[u] = pc[u] /\ mem'[u] = mem[u]
  PROVE  Counting'
BY DEF Counting

LEMMA FinishCounting ==
  ASSUME TypeOK, Counting, NEW t \in Txns,
         mem' = [mem EXCEPT ![t] = Blank], pc' = [pc EXCEPT ![t] = "idle"]
  PROVE  Counting'
<1>1. /\ pc'[t] = "idle" /\ mem'[t] = Blank
      /\ \A u \in Txns \ {t} : pc'[u] = pc[u] /\ mem'[u] = mem[u]
  BY DEF TypeOK, Sessions
<1>2. Blank.total = 0 /\ Blank.delta = Zero
  BY DEF Blank
<1>3. Counted("idle", Blank)
  BY <1>2, CountedBefore
<1>. QED BY <1>1, <1>3, CountingOf

LEMMA StartCounting ==
  ASSUME TypeOK, Counting, NEW t \in Txns, NEW k, NEW q, Start(t, k, q)
  PROVE  Counting'
<1>1. /\ pc'[t] = "products" /\ mem'[t] = [Blank EXCEPT !.key = k, !.req = q]
      /\ \A u \in Txns \ {t} : pc'[u] = pc[u] /\ mem'[u] = mem[u]
  BY DEF Start, TypeOK, Sessions
<1>2. mem'[t].total = 0 /\ mem'[t].delta = Zero
  BY <1>1 DEF Blank
<1>3. Counted(pc'[t], mem'[t])
  BY <1>1, <1>2, CountedBefore
<1>. QED BY <1>1, <1>3, CountingOf

LEMMA ReadProductsCounting ==
  ASSUME TypeOK, Counting, NEW t \in Txns, ReadProducts(t)
  PROVE  Counting'
<1>1. /\ pc[t] = "products" /\ pc'[t] = "lock" /\ mem[t] \in Locals
      /\ mem'[t].total = mem[t].total /\ mem'[t].delta = mem[t].delta
      /\ \A u \in Txns \ {t} : pc'[u] = pc[u] /\ mem'[u] = mem[u]
  BY DEF ReadProducts, TypeOK, Sessions, Locals
<1>2. mem[t].total = 0 /\ mem[t].delta = Zero
  BY <1>1, Uncounted DEF Counting
<1>3. Counted(pc'[t], mem'[t])
  BY <1>1, <1>2, CountedBefore
<1>. QED BY <1>1, <1>3, CountingOf

LEMMA LockRowCounting ==
  ASSUME TypeOK, Counting, NEW t \in Txns, LockRow(t)
  PROVE  Counting'
<1>1. /\ pc[t] = "lock" /\ mem[t] \in Locals
      /\ pc'[t] = "lock" \/ (pc'[t] = "resolve" /\ mem'[t].line = 1)
      /\ \A u \in Txns \ {t} : pc'[u] = pc[u] /\ mem'[u] = mem[u]
  BY DEF LockRow, TypeOK, Sessions, Locals
<1>2. mem'[t].total = mem[t].total /\ mem'[t].delta = mem[t].delta
  BY DEF LockRow, TypeOK, Sessions, Locals
<1>3. mem'[t].total = 0 /\ mem'[t].delta = Zero
  BY <1>1, <1>2, Uncounted DEF Counting
<1>4. CASE pc'[t] = "lock"
  <2>1. Counted(pc'[t], mem'[t])
    BY <1>3, <1>4, CountedBefore
  <2>. QED BY <1>1, <2>1, CountingOf
<1>5. CASE pc'[t] = "resolve" /\ mem'[t].line = 1
  <2>1. Checked(pc'[t], mem'[t]) = {} /\ Booked(pc'[t], mem'[t]) = {}
    BY <1>5 DEF Checked, Booked
  <2>2. \A q, c, i : Cost(q, c, {}) = 0 /\ Taken(q, i, {}) = 0
    BY NoAmount
  <2>3. Counted(pc'[t], mem'[t])
    BY <1>3, <2>1, <2>2 DEF Counted, Zero
  <2>. QED BY <1>1, <2>3, CountingOf
<1>. QED BY <1>1, <1>4, <1>5

LEMMA ResolveCounting ==
  ASSUME TypeOK, Counting, NEW t \in Txns, Resolve(t)
  PROVE  Counting'
<1> DEFINE q == mem[t].req
           n == mem[t].line
           c == mem[t].seen
<1>1. /\ pc[t] = "resolve" /\ mem[t] \in Locals /\ q \in Requests /\ n \in LineNos(q)
      /\ c \in Catalogs /\ Advance(t) \in LineNos(q)
  BY AtLine DEF Resolve
<1>2. /\ mem'[t].total = mem[t].total + Costs(q, c)[n]
      /\ mem'[t].req = q /\ mem'[t].seen = c /\ mem'[t].delta = mem[t].delta
      /\ mem'[t].line = Advance(t)
      /\ pc'[t] = (IF LastLine(t) THEN "write" ELSE "resolve")
      /\ \A u \in Txns \ {t} : pc'[u] = pc[u] /\ mem'[u] = mem[u]
  <2>1. UnitPrice(t) * Line(t).quantity = Costs(q, c)[n]
    BY <1>1 DEF UnitPrice, Line, Costs
  <2>2. /\ mem' = [mem EXCEPT ![t].total = @ + UnitPrice(t) * Line(t).quantity, ![t].line = Advance(t)]
        /\ pc' = IF LastLine(t) THEN [pc EXCEPT ![t] = "write"] ELSE pc
    BY DEF Resolve
  <2>. QED BY <1>1, <2>1, <2>2 DEF TypeOK, Sessions, Locals
<1>3. Checked(pc'[t], mem'[t]) = 1 .. n /\ Booked(pc'[t], mem'[t]) = {}
  <2>1. LineNos(q) = 1 .. Len(q.lines) /\ Len(q.lines) \in Nat /\ n \in Nat
    BY <1>1, RequestLines
  <2>2. CASE LastLine(t)
    BY <1>2, <2>1, <2>2 DEF Checked, Booked, LastLine, Advance
  <2>3. CASE ~LastLine(t)
    BY <1>2, <2>1, <2>3 DEF Checked, Booked, LastLine, Advance
  <2>. QED BY <2>2, <2>3
<1>4. /\ mem[t].total = Cost(q, c, 1 .. n - 1)
      /\ \A i \in Items : mem[t].delta[i] = -Taken(q, i, {})
  BY <1>1 DEF Counting, Counted, Checked, Booked
<1>5. Cost(q, c, 1 .. n) = Cost(q, c, 1 .. n - 1) + Costs(q, c)[n]
  BY <1>1, NextAmount
<1> HIDE DEF q, n, c
<1>6. Counted(pc'[t], mem'[t])
  BY <1>2, <1>3, <1>4, <1>5 DEF Counted
<1>. QED BY <1>2, <1>6, CountingOf

LEMMA WriteLineCounting ==
  ASSUME TypeOK, Counting, NEW t \in Txns, WriteLine(t)
  PROVE  Counting'
<1> DEFINE q == mem[t].req
           n == mem[t].line
           c == mem[t].seen
<1>1. /\ pc[t] = "write" /\ mem[t] \in Locals /\ q \in Requests /\ n \in LineNos(q)
      /\ c \in Catalogs /\ Advance(t) \in LineNos(q)
      /\ LineItem(t) \in Items /\ Line(t).quantity \in Int
  BY AtLine DEF WriteLine
<1>0. LineNos(q) = 1 .. Len(q.lines) /\ Len(q.lines) \in Nat /\ n \in Nat /\ Advance(t) \in Nat
  BY <1>1, RequestLines
<1>2. /\ mem'[t].total = mem[t].total /\ mem'[t].req = q /\ mem'[t].seen = c
      /\ mem'[t].delta = Less(mem[t].delta, LineItem(t), Line(t).quantity)
      /\ mem'[t].line = Advance(t)
      /\ pc'[t] = (IF LastLine(t) THEN "record" ELSE "write")
      /\ \A u \in Txns \ {t} : pc'[u] = pc[u] /\ mem'[u] = mem[u]
  <2>1. /\ mem'[t] = Written(mem[t], LineItem(t), Line(t).quantity, Advance(t))
        /\ pc'[t] = (IF LastLine(t) THEN "record" ELSE "write")
        /\ \A u \in Txns \ {t} : mem'[u] = mem[u] /\ pc'[u] = pc[u]
    BY DEF WriteLine, TypeOK, Sessions, Written
  <2>2. mem'[t].delta = Less(mem[t].delta, LineItem(t), Line(t).quantity)
    <3>1. Written(mem[t], LineItem(t), Line(t).quantity, Advance(t)).delta
            = Less(mem[t].delta, LineItem(t), Line(t).quantity)
      BY <1>0, <1>1, LocalsWrite
    <3>. QED BY <2>1, <3>1
  <2>3. /\ mem'[t].total = mem[t].total /\ mem'[t].req = q /\ mem'[t].seen = c
        /\ mem'[t].line = Advance(t)
    BY <1>1 DEF WriteLine, TypeOK, Sessions, Locals
  <2>. QED BY <2>1, <2>2, <2>3
<1>3. Checked(pc'[t], mem'[t]) = LineNos(q) /\ Booked(pc'[t], mem'[t]) = 1 .. n
  <2>2. CASE LastLine(t)
    BY <1>0, <1>2, <2>2 DEF Checked, Booked, LastLine, Advance
  <2>3. CASE ~LastLine(t)
    BY <1>0, <1>2, <2>3 DEF Checked, Booked, LastLine, Advance
  <2>. QED BY <2>2, <2>3
<1>4. /\ mem[t].total = Cost(q, c, LineNos(q))
      /\ \A i \in Items : mem[t].delta[i] = -Taken(q, i, 1 .. n - 1)
  BY <1>1 DEF Counting, Counted, Checked, Booked
<1>5. ASSUME NEW i \in Items PROVE mem'[t].delta[i] = -Taken(q, i, 1 .. n)
  <2>1. mem[t].delta \in [Items -> Int]
    BY <1>1 DEF Locals
  <2>2. mem'[t].delta[i] = IF i = LineItem(t) THEN mem[t].delta[i] - Line(t).quantity
                           ELSE mem[t].delta[i]
    BY <1>1, <1>2, <2>1 DEF Less
  <2>3. Takes(q, i)[n] = IF i = LineItem(t) THEN Line(t).quantity ELSE 0
    BY <1>1 DEF Takes, LineItem, Line
  <2>4. Taken(q, i, 1 .. n) = Taken(q, i, 1 .. n - 1) + Takes(q, i)[n]
    BY <1>1, NextAmount
  <2>5. Taken(q, i, 1 .. n - 1) \in Int
    <3>1. 1 .. n - 1 \in SUBSET LineNos(q)
      BY <1>0, <1>1
    <3>. QED BY <1>1, <3>1, AmountsInt
  <2> HIDE DEF q, n
  <2>. QED BY <1>1, <1>4, <2>2, <2>3, <2>4, <2>5
<1> HIDE DEF q, n, c
<1>6. Counted(pc'[t], mem'[t])
  BY <1>2, <1>3, <1>4, <1>5 DEF Counted
<1>. QED BY <1>2, <1>6, CountingOf

LEMMA InitCounting == Init => Counting
<1>1. Blank.total = 0 /\ Blank.delta = Zero
  BY DEF Blank
<1>2. Counted("idle", Blank)
  BY <1>1, CountedBefore
<1>. QED BY <1>2 DEF Init, Counting

LEMMA NextCounting == TypeOK /\ Counting /\ [Next]_vars => Counting'
<1> SUFFICES ASSUME TypeOK, Counting, [Next]_vars PROVE Counting'
  OBVIOUS
<1>1. CASE UNCHANGED vars \/ EditCatalog
  BY <1>1 DEF vars, tables, EditCatalog, Counting
<1>2. ASSUME NEW t \in Txns, NEW k \in Keys, NEW q \in Requests,
             Replay(t, k, q) \/ Conflict(t, k, q) \/ Start(t, k, q)
      PROVE  Counting'
  BY <1>2, FinishCounting, StartCounting DEF Replay, Conflict, Finish
<1>3. ASSUME NEW t \in Txns, Raises(t) PROVE Counting'
  BY <1>3, RaisesRaise, FinishCounting DEF Raise, Finish
<1>4. ASSUME NEW t \in Txns, RecordKey(t) PROVE Counting'
  <2>1. /\ pc[t] = "record" /\ pc'[t] = "commit" /\ mem' = mem
        /\ \A u \in Txns \ {t} : pc'[u] = pc[u]
    BY <1>4 DEF RecordKey, TypeOK, Sessions
  <2>2. Counted("record", mem[t])
    BY <2>1 DEF Counting
  <2>3. Counted("commit", mem[t])
    BY <2>2 DEF Counted, Checked, Booked
  <2>. QED BY <2>1, <2>3, CountingOf
<1>5. ASSUME NEW t \in Txns, Commit(t) PROVE Counting'
  BY <1>5, FinishCounting DEF Commit, Finish
<1>6. ASSUME NEW t \in Txns, ReadProducts(t) \/ LockRow(t) \/ Resolve(t) \/ WriteLine(t)
      PROVE  Counting'
  BY <1>6, ReadProductsCounting, LockRowCounting, ResolveCounting, WriteLineCounting
<1>. QED BY <1>1, <1>2, <1>3, <1>4, <1>5, <1>6, NextCases
-----------------------------------------------------------------------------
(* What is left in the tables.                                             *)

\* What a sale lists of item i.
Listed(lines, i) ==
  [n \in DOMAIN lines |-> IF lines[n].item = i THEN lines[n].quantity ELSE 0]

LEMMA SaleAmounts ==
  ASSUME NEW q \in Requests, NEW c \in Catalogs
  PROVE  LET lines == SaleLines(q, c) IN
         /\ \A i \in Items : SumFunction(Listed(lines, i)) = Taken(q, i, LineNos(q))
         /\ SumFunction([n \in DOMAIN lines |-> lines[n].line_total]) = Cost(q, c, LineNos(q))
<1> DEFINE lines == SaleLines(q, c)
           f == [n \in DOMAIN lines |-> lines[n].line_total]
<1>1. DOMAIN lines = LineNos(q)
  BY DEF SaleLines
<1>2. ASSUME NEW i \in Items PROVE SumFunction(Listed(lines, i)) = Taken(q, i, LineNos(q))
  <2>1. Listed(lines, i) = Takes(q, i) /\ DOMAIN Takes(q, i) = LineNos(q)
    BY <1>1 DEF Listed, SaleLines, Takes
  <2>. QED BY <2>1 DEF SumFunction, Taken
<1>3. f = Costs(q, c) /\ DOMAIN Costs(q, c) = LineNos(q)
  BY <1>1 DEF SaleLines, Costs
<1> HIDE DEF f
<1>4. SumFunction(f) = Cost(q, c, LineNos(q))
  BY <1>3 DEF SumFunction, Cost
<1>. QED BY <1>2, <1>4 DEF f

LEMMA SalesTyped ==
  ASSUME TypeOK
  PROVE  /\ Len(sales) \in Nat /\ DOMAIN sales = 1 .. Len(sales)
         /\ \A s \in DOMAIN sales : /\ sales[s].total \in Int
                                    /\ \E q \in Requests, c \in Catalogs : sales[s].lines = SaleLines(q, c)
<1>1. sales \in Seq(SaleType)
  BY DEF TypeOK, Tables
<1>2. Len(sales) \in Nat /\ DOMAIN sales = 1 .. Len(sales) /\ \A s \in DOMAIN sales : sales[s] \in SaleType
  <2> HIDE DEF SaleType
  <2>. QED BY <1>1
<1>. QED BY <1>2 DEF SaleType

\* The sale and the record a commit leaves.
LEMMA CommitRows ==
  ASSUME TypeOK, Keyed, NEW t \in Txns, Commit(t)
  PROVE  \E id \in Nat :
           /\ id = Len(sales) + 1 /\ IsFiniteSet(DOMAIN sales) /\ id \notin DOMAIN sales
           /\ DOMAIN sales' = DOMAIN sales \cup {id}
           /\ \A s \in DOMAIN sales : sales'[s] = sales[s]
           /\ sales'[id].location = mem[t].req.location
           /\ sales'[id].currency = mem[t].req.currency
           /\ sales'[id].total = mem[t].total
           /\ sales'[id].lines = SaleLines(mem[t].req, mem[t].seen)
           /\ records'[mem[t].key].sale = id /\ records'[mem[t].key].total = mem[t].total
           /\ records'[mem[t].key].fingerprint = Fingerprint(mem[t].req)
           /\ audit' = audit \cup {[sale |-> id, total |-> mem[t].total]}
<1> DEFINE row == [location |-> mem[t].req.location, currency |-> mem[t].req.currency,
                   total |-> mem[t].total, lines |-> SaleLines(mem[t].req, mem[t].seen)]
           record(n) == [fingerprint |-> Fingerprint(mem[t].req), sale |-> n,
                         total |-> mem[t].total]
<1>1. /\ Len(sales) \in Nat /\ DOMAIN sales = 1 .. Len(sales)
      /\ DOMAIN sales' = 1 .. Len(sales) + 1
      /\ \A s \in 1 .. Len(sales) : sales'[s] = sales[s]
      /\ sales'[Len(sales) + 1] = row /\ records'[mem[t].key] = record(Len(sales) + 1)
  BY CommitAppends
<1>2. audit' = audit \cup {[sale |-> Len(sales) + 1, total |-> mem[t].total]}
  BY DEF Commit
<1>3. /\ row.location = mem[t].req.location /\ row.currency = mem[t].req.currency
      /\ row.total = mem[t].total /\ row.lines = SaleLines(mem[t].req, mem[t].seen)
  OBVIOUS
<1>4. \A n : /\ record(n).fingerprint = Fingerprint(mem[t].req) /\ record(n).sale = n
             /\ record(n).total = mem[t].total
  OBVIOUS
<1> HIDE DEF row, record
<1>5. PICK id \in Nat : id = Len(sales) + 1
  BY <1>1
<1>6. IsFiniteSet(1 .. Len(sales))
  BY <1>1, FS_Interval
<1>7. id \notin DOMAIN sales /\ DOMAIN sales' = DOMAIN sales \cup {id}
  BY <1>1, <1>5
<1>. QED BY <1>1, <1>2, <1>3, <1>4, <1>5, <1>6, <1>7

LEMMA CommitSold ==
  ASSUME TypeOK, Keyed, NEW t \in Txns, Commit(t), NEW i \in Items
  PROVE  /\ Sold(i) \in Int
         /\ Sold(i)' = Sold(i) + Taken(mem[t].req, i, LineNos(mem[t].req))
<1> DEFINE S == DOMAIN sales
           f == [s \in DOMAIN sales |-> SumFunction(Listed(sales[s].lines, i))]
           g == [s \in DOMAIN sales' |-> SumFunction(Listed(sales'[s].lines, i))]
<1>0. PICK id \in Nat :
        /\ IsFiniteSet(S) /\ id \notin S /\ DOMAIN sales' = S \cup {id}
        /\ \A s \in S : sales'[s] = sales[s]
        /\ sales'[id].lines = SaleLines(mem[t].req, mem[t].seen)
  BY CommitRows
<1>1. mem[t].req \in Requests /\ mem[t].seen \in Catalogs
  BY AtCommit DEF Commit
<1>3. Sold(i) = SumFunctionOnSet(f, S) /\ Sold(i)' = SumFunctionOnSet(g, S \cup {id})
  <2>1. Sold(i) = SumFunction(f) /\ Sold(i)' = SumFunction(g)
    BY DEF Sold, Listed
  <2>2. DOMAIN f = S /\ DOMAIN g = S \cup {id}
    BY <1>0
  <2> HIDE DEF f, g
  <2>. QED BY <2>1, <2>2 DEF SumFunction
<1>4. \A s \in S : f[s] \in Int /\ g[s] = f[s]
  <2> SUFFICES ASSUME NEW s \in S PROVE f[s] \in Int /\ g[s] = f[s]
    OBVIOUS
  <2>1. PICK q \in Requests, c \in Catalogs : sales[s].lines = SaleLines(q, c)
    BY SalesTyped
  <2>2. SumFunction(Listed(sales[s].lines, i)) = Taken(q, i, LineNos(q))
    BY <2>1, SaleAmounts
  <2>3. Taken(q, i, LineNos(q)) \in Int
    BY AmountsInt
  <2>4. sales'[s] = sales[s] /\ s \in DOMAIN sales /\ s \in DOMAIN sales'
    BY <1>0
  <2>. QED BY <2>2, <2>3, <2>4
<1>5. g[id] = Taken(mem[t].req, i, LineNos(mem[t].req)) /\ g[id] \in Int
  <2>1. SumFunction(Listed(sales'[id].lines, i)) = Taken(mem[t].req, i, LineNos(mem[t].req))
    BY <1>0, <1>1, SaleAmounts
  <2>2. Taken(mem[t].req, i, LineNos(mem[t].req)) \in Int
    BY <1>1, AmountsInt
  <2>3. id \in DOMAIN sales'
    BY <1>0
  <2>. QED BY <2>1, <2>2, <2>3
<1> HIDE DEF f, g, S
<1>6. SumFunctionOnSet(g, S \cup {id}) = g[id] + SumFunctionOnSet(g, S)
  BY <1>0, <1>4, <1>5, SumAdding
<1>7. SumFunctionOnSet(g, S) = SumFunctionOnSet(f, S) /\ SumFunctionOnSet(f, S) \in Int
  BY <1>0, <1>4, SumAgrees, SumType
<1>. QED BY <1>3, <1>5, <1>6, <1>7

\* A sale that was there has the lines and the total it had.
LEMMA LineTotalsKept ==
  ASSUME NEW s, sales'[s] = sales[s]
  PROVE  LineTotals(s)' = LineTotals(s)
<1> DEFINE f == [n \in DOMAIN sales[s].lines |-> sales[s].lines[n].line_total]
           g == [n \in DOMAIN sales'[s].lines |-> sales'[s].lines[n].line_total]
<1>1. f = g
  OBVIOUS
<1>2. LineTotals(s) = SumFunction(f) /\ LineTotals(s)' = SumFunction(g)
  BY DEF LineTotals
<1> HIDE DEF f, g
<1>. QED BY <1>1, <1>2

LEMMA CommitBooks ==
  ASSUME TypeOK, Keyed, Counting, BooksAgree, NEW t \in Txns, Commit(t)
  PROVE  BooksAgree'
<1> DEFINE q == mem[t].req
           c == mem[t].seen
           key == mem[t].key
<1>0. PICK id \in Nat :
        /\ id \notin DOMAIN sales /\ DOMAIN sales' = DOMAIN sales \cup {id}
        /\ \A s \in DOMAIN sales : sales'[s] = sales[s]
        /\ sales'[id].total = mem[t].total /\ sales'[id].lines = SaleLines(q, c)
        /\ records'[key].sale = id /\ records'[key].total = mem[t].total
        /\ audit' = audit \cup {[sale |-> id, total |-> mem[t].total]}
  BY CommitRows
<1>1. /\ key \in Keys /\ q \in Requests /\ c \in Catalogs
      /\ \A k \in Keys \ {key} : records'[k] = records[k]
  BY CommitAppends, AtCommit
<1>2. /\ mem[t].total = Cost(q, c, LineNos(q))
      /\ \A i \in Items : mem[t].delta[i] = -Taken(q, i, LineNos(q))
  <2>1. pc[t] = "commit"
    BY DEF Commit
  <2>. QED BY <2>1 DEF Counting, Counted, Checked, Booked
<1>3. moved' = [i \in Items |-> moved[i] + mem[t].delta[i]]
  BY DEF Commit
<1>4. ASSUME NEW i \in Items PROVE moved'[i] = -(Sold(i)')
  <2>1. moved[i] = -Sold(i) /\ moved'[i] = moved[i] + mem[t].delta[i]
    BY <1>3 DEF BooksAgree
  <2>2. mem[t].delta[i] = -Taken(q, i, LineNos(q)) /\ Taken(q, i, LineNos(q)) \in Int
    BY <1>1, <1>2, AmountsInt
  <2>3. Sold(i) \in Int /\ Sold(i)' = Sold(i) + Taken(q, i, LineNos(q))
    BY CommitSold
  <2>. QED BY <2>1, <2>2, <2>3
<1>5. ASSUME NEW s \in DOMAIN sales' PROVE sales'[s].total = LineTotals(s)'
  <2>1. CASE s = id
    <3>1. LineTotals(id)' = SumFunction([n \in DOMAIN sales'[id].lines |-> sales'[id].lines[n].line_total])
      BY DEF LineTotals
    <3>2. SumFunction([n \in DOMAIN sales'[id].lines |-> sales'[id].lines[n].line_total])
            = Cost(q, c, LineNos(q))
      BY <1>0, <1>1, SaleAmounts
    <3>. QED BY <1>0, <1>2, <2>1, <3>1, <3>2
  <2>2. CASE s # id
    <3>1. s \in DOMAIN sales /\ sales'[s] = sales[s]
      BY <1>0, <2>2
    <3>. QED BY <3>1, LineTotalsKept DEF BooksAgree
  <2>. QED BY <2>1, <2>2
<1>6. ASSUME NEW k \in Keys, records'[k] # None PROVE records'[k].total = sales'[records'[k].sale].total
  <2>1. CASE k = key
    BY <1>0, <2>1
  <2>2. CASE k # key
    <3>1. records'[k] = records[k] /\ records[k].sale \in DOMAIN sales
      BY <1>1, <1>6, <2>2 DEF Keyed, OneSalePerKey
    <3>. QED BY <1>0, <1>6, <3>1 DEF BooksAgree
  <2>. QED BY <2>1, <2>2
<1>7. audit' = {[sale |-> s, total |-> sales'[s].total] : s \in DOMAIN sales'}
  <2>1. audit = {[sale |-> s, total |-> sales[s].total] : s \in DOMAIN sales}
    BY DEF BooksAgree
  <2>. QED BY <1>0, <2>1
<1>. QED BY <1>4, <1>5, <1>6, <1>7 DEF BooksAgree

\* A step that commits nothing.
LEMMA BooksUnchanged ==
  ASSUME BooksAgree, UNCHANGED <<moved, sales, records, audit>>
  PROVE  BooksAgree'
<1>1. \A i \in Items : Sold(i)' = Sold(i)
  BY DEF Sold
<1>2. \A s \in DOMAIN sales : LineTotals(s)' = LineTotals(s)
  BY LineTotalsKept
<1>. QED BY <1>1, <1>2 DEF BooksAgree

LEMMA InitBooks == Init => BooksAgree
<1> SUFFICES ASSUME Init PROVE BooksAgree
  OBVIOUS
<1>1. DOMAIN sales = {} /\ audit = {} /\ \A k \in Keys : records[k] = None
  BY DEF Init
<1>2. ASSUME NEW i \in Items PROVE moved[i] = -Sold(i)
  <2> DEFINE f == [s \in DOMAIN sales |-> SumFunction(Listed(sales[s].lines, i))]
  <2>1. Sold(i) = SumFunction(f) /\ DOMAIN f = {}
    BY <1>1 DEF Sold, Listed
  <2> HIDE DEF f
  <2>2. SumFunction(f) = 0
    BY <2>1, SumEmpty DEF SumFunction
  <2>3. moved[i] = 0
    BY DEF Init, Zero
  <2>4. Sold(i) = 0
    BY <2>1, <2>2
  <2>5. \A y, z \in Int : y + z = 0 => y = -z
    OBVIOUS
  <2>6. moved[i] \in Int /\ Sold(i) \in Int /\ moved[i] + Sold(i) = 0
    BY <2>3, <2>4
  <2>. QED BY <2>5, <2>6
<1>. QED BY <1>1, <1>2 DEF BooksAgree
-----------------------------------------------------------------------------
(* What callers are told.                                                  *)

\* A record is of the sale it names, made from a request with its fingerprint.
RecordOf(k) ==
  \E q \in Requests, c \in Catalogs :
    /\ records[k].fingerprint = Fingerprint(q)
    /\ sales[records[k].sale].location = q.location
    /\ sales[records[k].sale].currency = q.currency
    /\ sales[records[k].sale].lines = SaleLines(q, c)

RecordsHold == \A k \in Keys : records[k] # None => RecordOf(k)

\* Who is told of a sale is told what the record of the key says.
Told(a) ==
  a.outcome = "sale" =>
    /\ a.key \in Keys /\ a.req \in Requests /\ records[a.key] # None
    /\ records[a.key].sale = a.sale /\ records[a.key].fingerprint = Fingerprint(a.req)

AllTold == \A t \in Txns : Told(answer[t])

LEMMA ToldHolds ==
  ASSUME TypeOK, Keyed, RecordsHold, AllTold
  PROVE  AnswersHold
<1> SUFFICES ASSUME NEW t \in Txns, answer[t].outcome = "sale"
             PROVE  LET a == answer[t] IN
                    /\ records[a.key] # None /\ records[a.key].sale = a.sale
                    /\ a.sale \in DOMAIN sales
                    /\ sales[a.sale].location = a.req.location
                    /\ sales[a.sale].currency = a.req.currency
                    /\ [n \in DOMAIN sales[a.sale].lines |-> sales[a.sale].lines[n].item]
                         = [n \in LineNos(a.req) |-> ItemOf(a.req, n)]
                    /\ [n \in DOMAIN sales[a.sale].lines |-> sales[a.sale].lines[n].quantity]
                         = [n \in LineNos(a.req) |-> a.req.lines[n].quantity]
  BY DEF AnswersHold
<1> DEFINE a == answer[t]
           r == a.req
           sale == sales[a.sale]
<1>1. /\ a.key \in Keys /\ r \in Requests /\ records[a.key] # None
      /\ records[a.key].sale = a.sale /\ records[a.key].fingerprint = Fingerprint(r)
  BY DEF AllTold, Told
<1>2. a.sale \in DOMAIN sales
  BY <1>1 DEF Keyed, OneSalePerKey
<1>3. PICK q \in Requests, c \in Catalogs :
        /\ Fingerprint(r) = Fingerprint(q) /\ sale.location = q.location
        /\ sale.currency = q.currency /\ sale.lines = SaleLines(q, c)
  BY <1>1 DEF RecordsHold, RecordOf
<1>4. q.location = r.location /\ q.currency = r.currency /\ q.lines = r.lines
  BY <1>3 DEF Fingerprint
<1>5. DOMAIN sale.lines = LineNos(r)
  BY <1>3, <1>4 DEF SaleLines, LineNos
<1>6. ASSUME NEW n \in LineNos(r)
      PROVE  sale.lines[n].item = ItemOf(r, n) /\ sale.lines[n].quantity = r.lines[n].quantity
  <2>1. n \in LineNos(q) /\ ItemOf(q, n) = ItemOf(r, n) /\ q.lines[n].quantity = r.lines[n].quantity
    BY <1>4 DEF LineNos, ItemOf
  <2>2. SaleLines(q, c)[n].item = ItemOf(q, n) /\ SaleLines(q, c)[n].quantity = q.lines[n].quantity
    BY <2>1 DEF SaleLines
  <2>. QED BY <1>3, <2>1, <2>2
<1> HIDE DEF a, r, sale
<1>7. /\ [n \in DOMAIN sale.lines |-> sale.lines[n].item] = [n \in LineNos(r) |-> ItemOf(r, n)]
      /\ [n \in DOMAIN sale.lines |-> sale.lines[n].quantity]
           = [n \in LineNos(r) |-> r.lines[n].quantity]
  BY <1>5, <1>6
<1>. QED BY <1>1, <1>2, <1>3, <1>4, <1>7 DEF a, r, sale

\* A step that answers one session from what is recorded, and commits nothing.
LEMMA ToldOf ==
  ASSUME TypeOK, RecordsHold, AllTold, UNCHANGED <<sales, records>>, NEW t \in Txns,
         Told(answer'[t]), \A u \in Txns \ {t} : answer'[u] = answer[u]
  PROVE  (RecordsHold /\ AllTold)'
<1>1. RecordsHold'
  BY DEF RecordsHold, RecordOf
<1>2. ASSUME NEW u \in Txns PROVE Told(answer[u])'
  BY DEF AllTold, Told
<1>. QED BY <1>1, <1>2 DEF AllTold

LEMMA CommitTold ==
  ASSUME TypeOK, Keyed, RecordsHold, AllTold, NEW t \in Txns, Commit(t)
  PROVE  (RecordsHold /\ AllTold)'
<1> DEFINE q == mem[t].req
           key == mem[t].key
<1>0. PICK id \in Nat :
        /\ id = Len(sales) + 1
        /\ \A s \in DOMAIN sales : sales'[s] = sales[s]
        /\ sales'[id].location = q.location /\ sales'[id].currency = q.currency
        /\ sales'[id].lines = SaleLines(q, mem[t].seen)
        /\ records'[key].sale = id /\ records'[key].fingerprint = Fingerprint(q)
  BY CommitRows
<1>1. /\ key \in Keys /\ q \in Requests /\ mem[t].seen \in Catalogs /\ records[key] = None
      /\ \A k \in Keys \ {key} : records'[k] = records[k]
  BY CommitAppends, AtCommit
<1>2. records'[key] # None
  <2>1. key \in Keys /\ records' = [records EXCEPT ![key] =
          [fingerprint |-> Fingerprint(q), sale |-> Len(sales) + 1, total |-> mem[t].total]]
    BY <1>1 DEF Commit
  <2>2. mem[t].total \in Int /\ Len(sales) + 1 \in Nat
    BY AtCommit DEF Commit
  <2>3. [fingerprint |-> Fingerprint(q), sale |-> Len(sales) + 1, total |-> mem[t].total] \in RecordType
    BY <1>1, <2>2 DEF RecordType
  <2>. QED BY <2>1, <2>3, RecordAssumption DEF TypeOK, Tables
<1>3. ASSUME NEW k \in Keys, records'[k] # None PROVE RecordOf(k)'
  <2>1. CASE k = key
    BY <1>0, <1>1, <2>1 DEF RecordOf
  <2>2. CASE k # key
    <3>1. records'[k] = records[k] /\ RecordOf(k) /\ records[k].sale \in DOMAIN sales
      BY <1>1, <1>3, <2>2 DEF RecordsHold, Keyed, OneSalePerKey
    <3>. QED BY <1>0, <3>1 DEF RecordOf
  <2>. QED BY <2>1, <2>2
<1>4. /\ answer'[t] = [outcome |-> "sale", key |-> key, req |-> q, sale |-> id]
      /\ \A u \in Txns \ {t} : answer'[u] = answer[u]
  BY <1>0 DEF Commit, Finish, TypeOK, Sessions
<1>5. ASSUME NEW u \in Txns PROVE Told(answer[u])'
  <2>1. CASE u = t
    BY <1>0, <1>1, <1>2, <1>4, <2>1 DEF Told
  <2>2. CASE u # t
    <3>1. Told(answer[u]) /\ answer'[u] = answer[u]
      BY <1>4, <2>2 DEF AllTold
    <3>2. ASSUME NEW k \in Keys, records[k] # None PROVE records'[k] = records[k]
      BY <1>1, <3>2
    <3>. QED BY <3>1, <3>2 DEF Told
  <2>. QED BY <2>1, <2>2
<1>. QED BY <1>3, <1>5 DEF RecordsHold, AllTold

LEMMA NextTold ==
  TypeOK /\ Keyed /\ RecordsHold /\ AllTold /\ [Next]_vars => (RecordsHold /\ AllTold)'
<1> SUFFICES ASSUME TypeOK, Keyed, RecordsHold, AllTold, [Next]_vars
             PROVE  (RecordsHold /\ AllTold)'
  OBVIOUS
<1>1. ASSUME UNCHANGED <<sales, records, answer>> PROVE (RecordsHold /\ AllTold)'
  BY <1>1 DEF RecordsHold, RecordOf, AllTold, Told
<1>2. CASE UNCHANGED vars \/ EditCatalog
  BY <1>1, <1>2 DEF vars, tables, EditCatalog
<1>3. ASSUME NEW t \in Txns, NEW k \in Keys, NEW q \in Requests, Replay(t, k, q)
      PROVE  (RecordsHold /\ AllTold)'
  <2>1. /\ records[k] # None /\ records[k].fingerprint = Fingerprint(q) /\ UNCHANGED <<sales, records>>
        /\ answer'[t] = [outcome |-> "sale", key |-> k, req |-> q, sale |-> records[k].sale]
        /\ \A u \in Txns \ {t} : answer'[u] = answer[u]
    BY <1>3 DEF Replay, Finish, tables, TypeOK, Sessions
  <2>2. Told(answer'[t])
    BY <2>1 DEF Told
  <2>. QED BY <2>1, <2>2, ToldOf
<1>4. ASSUME NEW t \in Txns, UNCHANGED <<sales, records>>, answer'[t].outcome # "sale",
             \A u \in Txns \ {t} : answer'[u] = answer[u]
      PROVE  (RecordsHold /\ AllTold)'
  <2>1. Told(answer'[t])
    BY <1>4 DEF Told
  <2>. QED BY <1>4, <2>1, ToldOf
<1>5. ASSUME NEW t \in Txns, NEW k \in Keys, NEW q \in Requests, Conflict(t, k, q) \/ Start(t, k, q)
      PROVE  (RecordsHold /\ AllTold)'
  <2>1. /\ UNCHANGED <<sales, records>> /\ answer'[t].outcome # "sale"
        /\ \A u \in Txns \ {t} : answer'[u] = answer[u]
    BY <1>5 DEF Conflict, Start, Finish, NoAnswer, tables, TypeOK, Sessions
  <2>. QED BY <1>4, <2>1
<1>6. ASSUME NEW t \in Txns, Raises(t) PROVE (RecordsHold /\ AllTold)'
  <2>1. PICK outcome \in Outcomes \ {"sale"} : Raise(t, outcome)
    BY <1>6 DEF Raises, Outcomes, Invalid, Unavailable, NoRows, MissingRow, DeadlockVictim,
                Insufficient, KeyTaken, Crash
  <2>2. /\ UNCHANGED <<sales, records>> /\ answer'[t].outcome # "sale"
        /\ \A u \in Txns \ {t} : answer'[u] = answer[u]
    BY <2>1 DEF Raise, Finish, tables, TypeOK, Sessions
  <2>. QED BY <1>4, <2>2
<1>7. ASSUME NEW t \in Txns,
             ReadProducts(t) \/ LockRow(t) \/ Resolve(t) \/ WriteLine(t) \/ RecordKey(t)
      PROVE  (RecordsHold /\ AllTold)'
  BY <1>1, <1>7 DEF ReadProducts, LockRow, Resolve, WriteLine, RecordKey, tables
<1>8. ASSUME NEW t \in Txns, Commit(t) PROVE (RecordsHold /\ AllTold)'
  BY <1>8, CommitTold
<1>. QED BY <1>2, <1>3, <1>5, <1>6, <1>7, <1>8, NextCases

-----------------------------------------------------------------------------
(* The theorems.                                                           *)

Accounts == Counting /\ BooksAgree /\ RecordsHold /\ AllTold

LEMMA NextBooks == TypeOK /\ Keyed /\ Counting /\ BooksAgree /\ [Next]_vars => BooksAgree'
<1> SUFFICES ASSUME TypeOK, Keyed, Counting, BooksAgree, [Next]_vars PROVE BooksAgree'
  OBVIOUS
<1>1. CASE UNCHANGED vars \/ EditCatalog
  BY <1>1, BooksUnchanged DEF vars, tables, EditCatalog
<1>2. ASSUME NEW t \in Txns, NEW k \in Keys, NEW q \in Requests,
             Replay(t, k, q) \/ Conflict(t, k, q) \/ Start(t, k, q)
      PROVE  BooksAgree'
  BY <1>2, BooksUnchanged DEF Replay, Conflict, Start, tables
<1>3. ASSUME NEW t \in Txns, Raises(t) PROVE BooksAgree'
  BY <1>3, RaisesRaise, BooksUnchanged DEF Raise, tables
<1>4. ASSUME NEW t \in Txns,
             ReadProducts(t) \/ LockRow(t) \/ Resolve(t) \/ WriteLine(t) \/ RecordKey(t)
      PROVE  BooksAgree'
  BY <1>4, BooksUnchanged DEF ReadProducts, LockRow, Resolve, WriteLine, RecordKey, tables
<1>5. ASSUME NEW t \in Txns, Commit(t) PROVE BooksAgree'
  BY <1>5, CommitBooks
<1>. QED BY <1>1, <1>2, <1>3, <1>4, <1>5, NextCases

\* What sessions have added up is what they will commit, and what is recorded
\* under a key is what its caller asked for.
THEOREM AccountsInvariant == Spec => [](TypeOK /\ Keyed /\ Accounts)
<1>1. Init => TypeOK /\ Keyed /\ Accounts
  <2>1. Init => RecordsHold /\ AllTold
    BY DEF Init, RecordsHold, AllTold, Told, NoAnswer
  <2>. QED BY <2>1, InitTypeOK, InitKeyed, InitCounting, InitBooks DEF Accounts
<1>2. TypeOK /\ Keyed /\ Accounts /\ [Next]_vars => (TypeOK /\ Keyed /\ Accounts)'
  BY NextTypeOK, NextKeyed, NextCounting, NextBooks, NextTold DEF Accounts
<1>. QED BY <1>1, <1>2, PTL DEF Spec

\* Sales, movements, records and audit trail agree, whatever interleaves,
\* deadlocks or crashes and however prices are edited meanwhile.
THEOREM BooksBalance == Spec => []BooksAgree
<1>1. Accounts => BooksAgree
  BY DEF Accounts
<1>. QED BY <1>1, AccountsInvariant, PTL

\* No caller is told of a sale that is not committed, not its own key's or not
\* of what it asked for.
THEOREM AnswersTrue == Spec => []AnswersHold
<1>1. TypeOK /\ Keyed /\ Accounts => AnswersHold
  BY ToldHolds DEF Accounts
<1>. QED BY <1>1, AccountsInvariant, PTL
-----------------------------------------------------------------------------
(* checkout_sale implements AtomicCheckout.                                *)

KeyIn(recs, s) == CHOOSE k \in Keys : recs[k] # None /\ recs[k].sale = s
GoodsIn(lines) == [i \in Items |-> SumFunction(Listed(lines, i))]
Order(key, sale) ==
  [key |-> key, currency |-> sale.currency, total |-> sale.total, goods |-> GoodsIn(sale.lines)]

LEMMA OrdersAre ==
  /\ Orders = [s \in DOMAIN sales |-> Order(KeyIn(records, s), sales[s])]
  /\ Orders' = [s \in DOMAIN sales' |-> Order(KeyIn(records', s), sales'[s])]
<1>1. \A s : KeyOf(s) = KeyIn(records, s) /\ GoodsOf(s) = GoodsIn(sales[s].lines)
  BY DEF KeyOf, KeyIn, GoodsOf, GoodsIn, Listed
<1>2. \A s : KeyOf(s)' = KeyIn(records', s) /\ GoodsOf(s)' = GoodsIn(sales'[s].lines)
  BY DEF KeyOf, KeyIn, GoodsOf, GoodsIn, Listed
<1>3. Orders = [s \in DOMAIN sales |-> Order(KeyIn(records, s), sales[s])]
  BY <1>1 DEF Orders, Order
<1>4. Orders' = [s \in DOMAIN sales' |-> Order(KeyIn(records', s), sales'[s])]
  BY <1>2 DEF Orders, Order
<1>. QED BY <1>3, <1>4

\* A sale has one key.
LEMMA KeyUnique ==
  ASSUME NEW recs, NEW s, NEW k \in Keys, recs[k] # None, recs[k].sale = s,
         \A l \in Keys : recs[l] # None /\ recs[l].sale = s => l = k
  PROVE  KeyIn(recs, s) = k
BY DEF KeyIn

LEMMA OneMore ==
  ASSUME NEW n \in Nat, NEW f, f = [i \in 1 .. n |-> f[i]],
         NEW g, g = [i \in 1 .. n + 1 |-> g[i]], \A i \in 1 .. n : g[i] = f[i]
  PROVE  g = Append(f, g[n + 1]) /\ Len(g) = n + 1
<1> DEFINE R == {g[i] : i \in 1 .. n + 1}
           e == g[n + 1]
<1>1. e \in R /\ (\A i \in 1 .. n : f[i] \in R) /\ (\A i \in 1 .. n + 1 : g[i] \in R)
  OBVIOUS
<1>2. (\A i \in 1 .. n : g[i] = f[i]) /\ g[n + 1] = e
  OBVIOUS
<1> HIDE DEF R, e
<1>3. f \in [1 .. n -> R] /\ g \in [1 .. n + 1 -> R]
  BY <1>1
<1>4. f \in Seq(R) /\ Len(f) = n /\ g \in Seq(R) /\ Len(g) = n + 1
  BY <1>3, FunctionIsSeq
<1>5. g = Append(f, e)
  BY <1>1, <1>2, <1>3, <1>4
<1>. QED BY <1>4, <1>5 DEF e

\* AtomicCheckout sums as CheckoutSale does.
LEMMA SameSum ==
  ASSUME NEW f
  PROVE  Promised!SumFunction(f) = SumFunction(f)
<1>1. Promised!SumFunction(f) = (CHOOSE it : Adds(f, SUBSET DOMAIN f, it))[DOMAIN f]
  BY DEF Promised!SumFunction, Promised!SumFunctionOnSet, Promised!FoldFunctionOnSet,
         Promised!MapThenFoldSet, Adds, Chosen
<1>2. SumFunction(f) = (CHOOSE it : Adds(f, SUBSET DOMAIN f, it))[DOMAIN f]
  BY SumUnfolds DEF SumFunction
<1>. QED BY <1>1, <1>2

\* What is asked for, as AtomicCheckout says it.
LEMMA Asked ==
  ASSUME NEW q, NEW c, NEW i
  PROVE  /\ Promised!Wants(q, i) = Taken(q, i, LineNos(q))
         /\ Promised!Price(q, c) = Cost(q, c, LineNos(q))
<1> DEFINE f == [n \in DOMAIN q.lines |->
                   IF <<q.lines[n].product, q.location>> = i THEN q.lines[n].quantity ELSE 0]
           g == [n \in DOMAIN q.lines |-> c[q.lines[n].product].price * q.lines[n].quantity]
<1>1. Promised!Wants(q, i) = Promised!SumFunction(f) /\ Promised!Price(q, c) = Promised!SumFunction(g)
  BY DEF Promised!Wants, Promised!Price, Promised!Lines
<1>2. f = Takes(q, i) /\ g = Costs(q, c)
  BY DEF Takes, Costs, LineNos, ItemOf
<1>3. DOMAIN f = LineNos(q) /\ DOMAIN g = LineNos(q)
  BY DEF LineNos
<1> HIDE DEF f, g
<1>. QED BY <1>1, <1>2, <1>3, SameSum DEF SumFunction, Taken, Cost

\* The row a session takes from holds what it takes.
LEMMA CommitStock ==
  ASSUME TypeOK, Isolated, Counting, Supplied, NEW t \in Txns, Commit(t), NEW i \in Items
  PROVE  LET taken == Taken(mem[t].req, i, LineNos(mem[t].req)) IN
         taken <= quantity[i] /\ quantity'[i] = quantity[i] - taken
<1> DEFINE q == mem[t].req
           taken == Taken(q, i, LineNos(q))
<1>1. /\ pc[t] = "commit" /\ q \in Requests /\ mem[t].inv[i] \in Int /\ quantity[i] \in Int
      /\ held[t] \subseteq Items
  BY AtCommit DEF Commit, TypeOK, Tables
<1>2. mem[t].delta[i] = -taken /\ taken \in Int
  <2>1. taken \in Int
    BY <1>1, AmountsInt
  <2>2. mem[t].delta[i] = -taken
    BY <1>1 DEF Counting, Counted, Booked
  <2>. QED BY <2>1, <2>2
<1>3. IF i \in held[t] THEN mem[t].inv[i] = quantity[i] + mem[t].delta[i] ELSE mem[t].delta[i] = 0
  BY DEF Isolated, FreshRows, Fresh
<1>4. quantity'[i] = IF i \in held[t] THEN mem[t].inv[i] ELSE quantity[i]
  BY DEF Commit
<1>5. (i \in held[t] => mem[t].inv[i] >= 0) /\ quantity[i] >= 0
  BY DEF Supplied, Covered, NeverOversold
<1> HIDE DEF q, taken
<1>6. taken <= quantity[i] /\ quantity'[i] = quantity[i] - taken
  <2>1. CASE i \in held[t]
    BY <1>1, <1>2, <1>3, <1>4, <1>5, <2>1
  <2>2. CASE i \notin held[t]
    <3>1. taken = 0
      BY <1>2, <1>3, <2>2
    <3>. QED BY <1>1, <1>4, <1>5, <2>2, <3>1
  <2>. QED BY <2>1, <2>2
<1>. QED BY <1>6 DEF q, taken

LEMMA CommitRefines ==
  ASSUME TypeOK, Isolated, Keyed, Counting, Supplied, NEW t \in Txns, Commit(t)
  PROVE  \E k \in Keys, q \in Requests : Promised!Sell(k, q)
<1> DEFINE q == mem[t].req
           c == mem[t].seen
           key == mem[t].key
<1>0. PICK id \in Nat :
        /\ id = Len(sales) + 1
        /\ id \notin DOMAIN sales /\ DOMAIN sales' = DOMAIN sales \cup {id}
        /\ \A s \in DOMAIN sales : sales'[s] = sales[s]
        /\ sales'[id].currency = q.currency
        /\ sales'[id].total = mem[t].total /\ sales'[id].lines = SaleLines(q, c)
        /\ records'[key].sale = id
  BY CommitRows
<1>1. /\ key \in Keys /\ q \in Requests /\ c \in Catalogs /\ records[key] = None
      /\ Len(sales) \in Nat /\ DOMAIN sales = 1 .. Len(sales) /\ DOMAIN sales' = 1 .. Len(sales) + 1
      /\ \A k \in Keys \ {key} : records'[k] = records[k]
  BY CommitAppends, AtCommit
<1>2. Keyed' /\ TypeOK'
  BY CommitKeyed, CommitTypeOK
<1>3. records'[key] # None
  <2>1. PICK k \in Keys : records'[k] # None /\ records'[k].sale = id
    BY <1>0, <1>2 DEF Keyed, OneSalePerKey
  <2>2. k = key
    <3> SUFFICES ASSUME k # key PROVE FALSE
      OBVIOUS
    <3>1. records[k] # None /\ records[k].sale = id
      BY <1>1, <2>1
    <3>. QED BY <1>0, <3>1 DEF Keyed, OneSalePerKey
  <2>. QED BY <2>1, <2>2
<1>4. /\ mem[t].total = Cost(q, c, LineNos(q))
      /\ held[t] = Named(q) /\ held[t] \subseteq Items
  BY AtCommit DEF Commit, Counting, Counted, Checked
<1>5. Bought[key] = None /\ Bought' = [Bought EXCEPT ![key] = id]
  BY <1>0, <1>1, <1>3 DEF Bought
<1>6. \A n \in DOMAIN q.lines : <<q.lines[n].product, q.location>> \in DOMAIN Opening
  BY <1>4 DEF Named, ItemOf, LineNos, Items
<1>7. ASSUME NEW i \in DOMAIN Opening
      PROVE  /\ Promised!Wants(q, i) <= quantity[i]
             /\ quantity'[i] = quantity[i] - Promised!Wants(q, i)
  BY CommitStock, Asked DEF Items
<1>8. quantity' = [i \in DOMAIN Opening |-> quantity[i] - Promised!Wants(q, i)]
  <2>1. quantity' = [i \in DOMAIN Opening |-> quantity'[i]]
    BY DEF Commit, Items
  <2>. QED BY <1>7, <2>1
<1>9. Orders'[id] = [key |-> key, currency |-> q.currency, total |-> Promised!Price(q, c),
                     goods |-> [i \in DOMAIN Opening |-> Promised!Wants(q, i)]]
  <2>1. Orders'[id] = Order(KeyIn(records', id), sales'[id])
    BY <1>0, OrdersAre
  <2>2. KeyIn(records', id) = key
    <3>1. \A l \in Keys : records'[l] # None /\ records'[l].sale = id => l = key
      BY <1>0, <1>1, <1>2, <1>3 DEF Keyed, OneSalePerKey
    <3>. QED BY <1>0, <1>1, <1>3, <3>1, KeyUnique
  <2>3. GoodsIn(sales'[id].lines) = [i \in DOMAIN Opening |-> Promised!Wants(q, i)]
    <3>1. ASSUME NEW i \in Items
          PROVE  SumFunction(Listed(sales'[id].lines, i)) = Promised!Wants(q, i)
      <4>1. SumFunction(Listed(SaleLines(q, c), i)) = Taken(q, i, LineNos(q))
        BY <1>1, SaleAmounts
      <4>2. Promised!Wants(q, i) = Taken(q, i, LineNos(q))
        BY Asked
      <4>. QED BY <1>0, <4>1, <4>2
    <3>. QED BY <3>1 DEF GoodsIn, Items
  <2>4. sales'[id].total = Promised!Price(q, c)
    BY <1>0, <1>4, Asked
  <2>. QED BY <1>0, <2>1, <2>2, <2>3, <2>4 DEF Order
<1>10. \A s \in DOMAIN sales : Orders'[s] = Orders[s]
  <2> SUFFICES ASSUME NEW s \in DOMAIN sales PROVE Orders'[s] = Orders[s]
    OBVIOUS
  <2>1. PICK k \in Keys : records[k] # None /\ records[k].sale = s
    BY DEF Keyed, OneSalePerKey
  <2>2. \A l \in Keys : records[l] # None /\ records[l].sale = s => l = k
    BY <2>1 DEF Keyed, OneSalePerKey
  <2>3. records'[k] # None /\ records'[k].sale = s
    BY <1>1, <2>1
  <2>4. \A l \in Keys : records'[l] # None /\ records'[l].sale = s => l = k
    BY <1>2, <2>3 DEF Keyed, OneSalePerKey
  <2>5. KeyIn(records, s) = k /\ KeyIn(records', s) = k
    BY <2>1, <2>2, <2>3, <2>4, KeyUnique
  <2>6. Orders[s] = Order(k, sales[s]) /\ Orders'[s] = Order(k, sales'[s])
    BY <1>0, <2>5, OrdersAre
  <2>. QED BY <1>0, <2>6
<1>11. Orders' = Append(Orders, Orders'[id]) /\ Len(Orders') = id
  <2>1. PICK n \in Nat : n = Len(sales)
    BY <1>1
  <2>2. Orders = [s \in 1 .. n |-> Orders[s]] /\ Orders' = [s \in 1 .. n + 1 |-> Orders'[s]]
    BY <1>1, <2>1, OrdersAre
  <2>3. \A s \in 1 .. n : Orders'[s] = Orders[s]
    BY <1>1, <1>10, <2>1
  <2>4. Orders' = Append(Orders, Orders'[n + 1]) /\ Len(Orders') = n + 1
    BY <2>2, <2>3, OneMore
  <2>. QED BY <1>0, <2>1, <2>4
<1>12. Promised!Sell(key, q)
  BY <1>1, <1>5, <1>6, <1>7, <1>8, <1>9, <1>11 DEF Promised!Sell, Promised!Lines
<1>. QED BY <1>1, <1>12

LEMMA QuietRefines ==
  ASSUME UNCHANGED <<quantity, sales, records>>
  PROVE  UNCHANGED <<quantity, Orders, Bought>>
<1>1. Orders' = Orders
  BY OrdersAre
<1>2. Bought' = Bought
  BY DEF Bought
<1>. QED BY <1>1, <1>2

LEMMA StepRefines ==
  ASSUME TypeOK, Isolated, Keyed, Counting, Supplied, [Next]_vars
  PROVE  [Promised!ANext]_(Promised!avars)
<1>1. CASE UNCHANGED <<quantity, sales, records>>
  BY <1>1, QuietRefines DEF Promised!avars
<1>2. ASSUME NEW t \in Txns, Commit(t) PROVE Promised!ANext
  BY <1>2, CommitRefines DEF Promised!ANext
<1>3. (\E t \in Txns : Commit(t)) \/ UNCHANGED <<quantity, sales, records>>
  <2>1. UNCHANGED vars \/ EditCatalog => UNCHANGED <<quantity, sales, records>>
    BY DEF vars, tables, EditCatalog
  <2>2. ASSUME NEW t \in Txns, NEW k \in Keys, NEW q \in Requests,
               Replay(t, k, q) \/ Conflict(t, k, q) \/ Start(t, k, q)
        PROVE  UNCHANGED <<quantity, sales, records>>
    BY <2>2 DEF Replay, Conflict, Start, tables
  <2>3. ASSUME NEW t \in Txns, Raises(t) PROVE UNCHANGED <<quantity, sales, records>>
    BY <2>3, RaisesRaise DEF Raise, tables
  <2>4. ASSUME NEW t \in Txns,
               ReadProducts(t) \/ LockRow(t) \/ Resolve(t) \/ WriteLine(t) \/ RecordKey(t)
        PROVE  UNCHANGED <<quantity, sales, records>>
    BY <2>4 DEF ReadProducts, LockRow, Resolve, WriteLine, RecordKey, tables
  <2>. QED BY <2>1, <2>2, <2>3, <2>4, NextCases
<1>. QED BY <1>1, <1>2, <1>3

LEMMA InitRefines == Init => Promised!AInit
<1> SUFFICES ASSUME Init PROVE Promised!AInit
  OBVIOUS
<1>1. Bought = [k \in Keys |-> None] /\ quantity = Opening
  BY DEF Init, Bought
<1>2. Orders = <<>>
  <2>1. DOMAIN sales = {}
    BY DEF Init
  <2>. QED BY <2>1 DEF Orders
<1>. QED BY <1>1, <1>2 DEF Promised!AInit

\* Where no request names a product twice, any number of sessions, statement by
\* statement, with their locks, deadlocks, crashes and retries, do only what
\* sales made one at a time would do.
THEOREM SalesAtomic ==
  ASSUME \A q \in Requests : NamedOnce(q)
  PROVE  Spec => ImplementsAtomicCheckout
<1> DEFINE Inv == TypeOK /\ Isolated /\ Keyed /\ Counting /\ Supplied
<1>1. Init => Inv
  BY InitTypeOK, InitIsolated, InitKeyed, InitCounting, InitSupplied
<1>2. Inv /\ [Next]_vars => Inv'
  BY NextTypeOK, NextIsolated, NextKeyed, NextCounting, NextSupplied
<1>3. Inv /\ [Next]_vars => [Promised!ANext]_(Promised!avars)
  BY StepRefines
<1>. QED BY <1>1, <1>2, <1>3, InitRefines, PTL DEF Spec, ImplementsAtomicCheckout, Promised!ASpec
==============================================================================
