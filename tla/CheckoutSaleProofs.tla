------------------------- MODULE CheckoutSaleProofs -------------------------
(***************************************************************************)
(* Theorems about CheckoutSale, for any sessions, keys, requests, stock    *)
(* and price lists.                                                        *)
(***************************************************************************)
EXTENDS CheckoutSale, TLAPS

-----------------------------------------------------------------------------
(* Types.                                                                  *)

LEMMA RequestLines ==
  ASSUME NEW q \in Requests
  PROVE  /\ q # None
         /\ q.lines \in Seq(LineType)
         /\ Len(q.lines) \in Nat
         /\ LineNos(q) = 1..Len(q.lines)
         /\ \A n \in LineNos(q) : q.lines[n].product \in Products /\ q.lines[n].quantity \in Int
<1>1. q # None /\ q.lines \in Seq(LineType)
  BY RequestAssumption
<1>2. Len(q.lines) \in Nat /\ LineNos(q) = 1..Len(q.lines)
  BY <1>1 DEF LineNos
<1>3. \A n \in LineNos(q) : q.lines[n] \in LineType
  BY <1>1, <1>2
<1>. QED BY <1>1, <1>2, <1>3 DEF LineType

LEMMA ZeroType == Zero \in [Items -> Int]
BY DEF Zero

LEMMA BlankType == Blank \in Locals
BY ZeroType DEF Blank, Locals

LEMMA CatalogPrice ==
  ASSUME NEW c \in Catalogs, NEW p \in Products
  PROVE  c[p].price \in Int
BY CatalogAssumption

\* What LockRow, Resolve and WriteLine assign to a session's local variables.
Locked(m, i, x, w) == [m EXCEPT !.inv[i] = x, !.want = w]
LockedLast(m, i, x) == [m EXCEPT !.inv[i] = x, !.want = None, !.line = 1]
Priced(m, x, n) == [m EXCEPT !.total = @ + x, !.line = n]
Less(f, i, x) == [f EXCEPT ![i] = @ - x]
Written(m, i, x, n) == [m EXCEPT !.inv[i] = @ - x, !.delta[i] = @ - x, !.line = n]

LEMMA LocalsLock ==
  ASSUME NEW m \in Locals, NEW i \in Items, NEW x \in Int, NEW w \in Items
  PROVE  /\ Locked(m, i, x, w) \in Locals
         /\ Locked(m, i, x, w).inv = [m.inv EXCEPT ![i] = x]
         /\ Locked(m, i, x, w).delta = m.delta
<1> DEFINE f == [m.inv EXCEPT ![i] = x]
<1>1. f \in [Items -> Int]
  BY DEF Locals
<1>2. Locked(m, i, x, w) = [m EXCEPT !.inv = f, !.want = w]
  BY DEF Locals, Locked
<1> HIDE DEF f
<1>3. [m EXCEPT !.inv = f, !.want = w] \in Locals
  BY <1>1 DEF Locals
<1>4. [m EXCEPT !.inv = f, !.want = w].inv = f /\ [m EXCEPT !.inv = f, !.want = w].delta = m.delta
  BY DEF Locals
<1>. QED BY <1>2, <1>3, <1>4, Zenon DEF f

LEMMA LocalsLockLast ==
  ASSUME NEW m \in Locals, NEW i \in Items, NEW x \in Int
  PROVE  /\ LockedLast(m, i, x) \in Locals
         /\ LockedLast(m, i, x).inv = [m.inv EXCEPT ![i] = x]
         /\ LockedLast(m, i, x).delta = m.delta
<1> DEFINE f == [m.inv EXCEPT ![i] = x]
<1>1. f \in [Items -> Int]
  BY DEF Locals
<1>2. LockedLast(m, i, x) = [m EXCEPT !.inv = f, !.want = None, !.line = 1]
  BY DEF Locals, LockedLast
<1> HIDE DEF f
<1>3. [m EXCEPT !.inv = f, !.want = None, !.line = 1] \in Locals
  BY <1>1 DEF Locals
<1>4. /\ [m EXCEPT !.inv = f, !.want = None, !.line = 1].inv = f
      /\ [m EXCEPT !.inv = f, !.want = None, !.line = 1].delta = m.delta
  BY DEF Locals
<1>. QED BY <1>2, <1>3, <1>4, Zenon DEF f

LEMMA LocalsResolve ==
  ASSUME NEW m \in Locals, NEW x \in Int, NEW n \in Nat
  PROVE  /\ Priced(m, x, n) \in Locals
         /\ Priced(m, x, n).inv = m.inv
         /\ Priced(m, x, n).delta = m.delta
<1>1. m.total + x \in Int
  BY DEF Locals
<1>. QED BY <1>1 DEF Locals, Priced

LEMMA LocalsWrite ==
  ASSUME NEW m \in Locals, NEW i \in Items, NEW x \in Int, NEW n \in Nat
  PROVE  /\ Written(m, i, x, n) \in Locals
         /\ Written(m, i, x, n).inv = Less(m.inv, i, x)
         /\ Written(m, i, x, n).delta = Less(m.delta, i, x)
<1> DEFINE f == Less(m.inv, i, x)
           g == Less(m.delta, i, x)
<1>1. m.inv[i] - x \in Int /\ m.delta[i] - x \in Int
  BY DEF Locals
<1>2. f \in [Items -> Int] /\ g \in [Items -> Int]
  BY <1>1 DEF Locals, Less
<1>3. Written(m, i, x, n) = [m EXCEPT !.inv = f, !.delta = g, !.line = n]
  BY DEF Locals, Written, Less
<1> HIDE DEF f, g
<1>4. [m EXCEPT !.inv = f, !.delta = g, !.line = n] \in Locals
  BY <1>2 DEF Locals
<1>5. /\ [m EXCEPT !.inv = f, !.delta = g, !.line = n].inv = f
      /\ [m EXCEPT !.inv = f, !.delta = g, !.line = n].delta = g
  BY DEF Locals
<1>. QED BY <1>3, <1>4, <1>5, Zenon DEF f, g

THEOREM InitTypeOK == Init => TypeOK
<1> SUFFICES ASSUME Init PROVE TypeOK
  OBVIOUS
<1>1. Tables
  <2>1. Opening \in [Items -> Int]
    BY OpeningAssumption
  <2>. QED BY <2>1, ZeroType DEF Init, Tables
<1>2. Sessions
  BY BlankType DEF Init, Sessions, NoAnswer, Outcomes
<1>3. \A t \in Txns : Ready(t)
  BY DEF Init, Ready
<1>. QED BY <1>1, <1>2, <1>3 DEF TypeOK

\* Ready is about the session's own variables.
LEMMA ReadyOfUnchanged ==
  ASSUME NEW u \in Txns, Ready(u), UNCHANGED <<pc[u], mem[u], held[u]>>
  PROVE  Ready(u)'
BY DEF Ready

\* A call that ends leaves its session as it was before the call.
LEMMA FinishReady ==
  ASSUME TypeOK, NEW t \in Txns, NEW k \in Keys \cup {None},
         NEW q \in Requests \cup {None}, NEW outcome \in Outcomes, NEW sale \in Nat,
         Finish(t, k, q, outcome, sale)
  PROVE  Sessions' /\ \A u \in Txns : Ready(u)'
<1>1. Sessions'
  BY BlankType DEF TypeOK, Sessions, Finish
<1>2. ASSUME NEW u \in Txns PROVE Ready(u)'
  <2>1. CASE u = t
    BY <2>1 DEF Ready, Finish, TypeOK, Sessions
  <2>2. CASE u # t
    BY <2>2, ReadyOfUnchanged DEF Finish, TypeOK, Sessions
  <2>. QED BY <2>1, <2>2
<1>. QED BY <1>1, <1>2

LEMMA RaiseTypeOK ==
  ASSUME TypeOK, NEW t \in Txns, NEW outcome \in Outcomes, Raise(t, outcome)
  PROVE  TypeOK'
<1>1. Sessions' /\ \A u \in Txns : Ready(u)'
  BY FinishReady DEF Raise
<1>2. Tables'
  BY DEF Raise, TypeOK, Tables, tables
<1>. QED BY <1>1, <1>2 DEF TypeOK

\* The steps of a call that raise an exception.
Raises(t) ==
  \/ \E k \in Keys, q \in Requests : Invalid(t, k, q)
  \/ Unavailable(t) \/ NoRows(t) \/ MissingRow(t) \/ DeadlockVictim(t)
  \/ Insufficient(t) \/ KeyTaken(t) \/ Crash(t)

LEMMA RaisesRaise ==
  ASSUME NEW t \in Txns, Raises(t)
  PROVE  \E outcome \in Outcomes : Raise(t, outcome)
BY DEF Raises, Outcomes, Invalid, Unavailable, NoRows, MissingRow, DeadlockVictim,
       Insufficient, KeyTaken, Crash

\* The steps that only move the session itself on, towards its commit.
LEMMA StartTypeOK ==
  ASSUME TypeOK, NEW t \in Txns, NEW k \in Keys, NEW q \in Requests, Start(t, k, q)
  PROVE  TypeOK'
<1>1. Tables'
  BY DEF Start, TypeOK, Tables, tables
<1>2. [Blank EXCEPT !.key = k, !.req = q] \in Locals
  BY BlankType DEF Locals
<1>3. Sessions'
  BY <1>2 DEF Start, TypeOK, Sessions, NoAnswer, Outcomes
<1>4. ASSUME NEW u \in Txns PROVE Ready(u)'
  <2>1. CASE u = t
    <3>1. mem'[t].key = k /\ mem'[t].req = q /\ pc'[t] = "products" /\ held'[t] = {}
      BY DEF Start, TypeOK, Sessions, Blank, Ready
    <3>. QED BY <2>1, <3>1, KeyAssumption, RequestAssumption DEF Ready, Start
  <2>2. CASE u # t
    BY <2>2, ReadyOfUnchanged DEF Start, TypeOK, Sessions
  <2>. QED BY <2>1, <2>2
<1>. QED BY <1>1, <1>3, <1>4 DEF TypeOK

LEMMA ReadProductsTypeOK ==
  ASSUME TypeOK, NEW t \in Txns, ReadProducts(t)
  PROVE  TypeOK'
<1>1. Tables'
  BY DEF ReadProducts, TypeOK, Tables, tables
<1>2. PICK i \in Rows(mem[t].req) : mem' = [mem EXCEPT ![t].seen = catalog, ![t].want = i]
  BY DEF ReadProducts
<1>3. mem[t] \in Locals /\ catalog \in Catalogs /\ i \in Items
  BY <1>2 DEF TypeOK, Sessions, Tables, Rows
<1>4. mem'[t] \in Locals /\ \A u \in Txns \ {t} : mem'[u] = mem[u]
  BY <1>2, <1>3 DEF Locals, TypeOK, Sessions
<1>5. Sessions'
  BY <1>2, <1>4 DEF ReadProducts, TypeOK, Sessions
<1>6. ASSUME NEW u \in Txns PROVE Ready(u)'
  <2>1. CASE u = t
    <3>1. /\ pc[t] = "products" /\ pc'[t] = "lock" /\ held'[t] = {}
          /\ mem'[t].key = mem[t].key /\ mem'[t].req = mem[t].req
          /\ mem'[t].seen = catalog /\ mem'[t].want = i
      BY <1>2, <1>3 DEF ReadProducts, TypeOK, Sessions, Ready, Locals
    <3>2. catalog # None
      BY <1>3, CatalogAssumption
    <3>. QED BY <2>1, <3>1, <3>2, <1>2 DEF Ready, TypeOK
  <2>2. CASE u # t
    BY <1>4, <2>2, ReadyOfUnchanged DEF ReadProducts, TypeOK, Sessions
  <2>. QED BY <2>1, <2>2
<1>. QED BY <1>1, <1>5, <1>6 DEF TypeOK

LEMMA LockRowTypeOK ==
  ASSUME TypeOK, NEW t \in Txns, LockRow(t)
  PROVE  TypeOK'
<1> DEFINE i == mem[t].want
           q == mem[t].req
           rest == (Rows(q) \ held[t]) \ {i}
<1>1. Tables'
  BY DEF LockRow, TypeOK, Tables, tables
<1>2. /\ mem[t] \in Locals /\ q \in Requests /\ Valid(q) /\ mem[t].key # None
      /\ mem[t].seen # None /\ q # None
      /\ i \in Rows(q) \ held[t] /\ held[t] \subseteq Rows(q)
      /\ pc[t] = "lock" /\ Rows(q) \subseteq Items
  BY DEF LockRow, TypeOK, Sessions, Ready, Rows, Locals
<1>3. quantity[i] \in Int
  BY <1>2 DEF TypeOK, Tables
<1>4. held' = [held EXCEPT ![t] = @ \cup {i}]
  BY DEF LockRow
<1>5. held'[t] = held[t] \cup {i} /\ held' \in [Txns -> SUBSET Items]
  BY <1>2, <1>4 DEF TypeOK, Sessions
<1>6. CASE rest # {}
  <2>1. PICK j \in rest : mem' = [mem EXCEPT ![t].inv[i] = quantity[i], ![t].want = j]
    BY <1>6 DEF LockRow
  <2>2. pc' = pc /\ answer' = answer
    BY <1>6 DEF LockRow
  <2>3. /\ mem'[t] = [mem[t] EXCEPT !.inv[i] = quantity[i], !.want = j]
        /\ \A u \in Txns \ {t} : mem'[u] = mem[u]
        /\ mem' = [mem EXCEPT ![t] = mem'[t]]
    BY <2>1 DEF TypeOK, Sessions
  <2>4. mem'[t] \in Locals
    <3>1. i \in Items /\ j \in Items
      BY <1>2
    <3>2. mem'[t] = Locked(mem[t], i, quantity[i], j)
      BY <2>3 DEF Locked
    <3>3. Locked(mem[t], i, quantity[i], j) \in Locals
      BY <3>1, <1>2, <1>3, LocalsLock, Zenon
    <3>. QED BY <3>2, <3>3, Zenon
  <2>5. Sessions'
    BY <1>5, <2>2, <2>3, <2>4 DEF TypeOK, Sessions
  <2>6. ASSUME NEW u \in Txns PROVE Ready(u)'
    <3>1. CASE u = t
      BY <3>1, <2>2, <2>3, <1>2, <1>5 DEF Ready, Locals
    <3>2. CASE u # t
      BY <3>2, <2>2, <2>3, <1>4, ReadyOfUnchanged DEF TypeOK, Sessions
    <3>. QED BY <3>1, <3>2
  <2>. QED BY <1>1, <2>5, <2>6 DEF TypeOK
<1>7. CASE rest = {}
  <2>1. /\ mem' = [mem EXCEPT ![t].inv[i] = quantity[i], ![t].want = None, ![t].line = 1]
        /\ pc' = [pc EXCEPT ![t] = "resolve"] /\ answer' = answer
        /\ Rows(q) = Named(q)
    BY <1>7 DEF LockRow
  <2>2. held'[t] = Named(q)
    BY <1>2, <1>5, <1>7, <2>1
  <2>3. /\ mem'[t] = [mem[t] EXCEPT !.inv[i] = quantity[i], !.want = None, !.line = 1]
        /\ \A u \in Txns \ {t} : mem'[u] = mem[u]
        /\ mem' = [mem EXCEPT ![t] = mem'[t]]
    BY <2>1 DEF TypeOK, Sessions
  <2>4. mem'[t] \in Locals
    <3>1. i \in Items
      BY <1>2
    <3>2. mem'[t] = LockedLast(mem[t], i, quantity[i])
      BY <2>3 DEF LockedLast
    <3>3. LockedLast(mem[t], i, quantity[i]) \in Locals
      BY <3>1, <1>2, <1>3, LocalsLockLast, Zenon
    <3>. QED BY <3>2, <3>3, Zenon
  <2>5. Sessions'
    BY <1>5, <2>1, <2>3, <2>4 DEF TypeOK, Sessions
  <2>6. 1 \in LineNos(q)
    BY <1>2, RequestLines DEF Valid
  <2>7. ASSUME NEW u \in Txns PROVE Ready(u)'
    <3>1. CASE u = t
      <4>1. /\ pc'[t] = "resolve" /\ mem'[t].req = q /\ mem'[t].key = mem[t].key
            /\ mem'[t].seen = mem[t].seen /\ mem'[t].line = 1
        BY <2>1, <2>3, <1>2 DEF TypeOK, Sessions, Locals
      <4>. QED BY <3>1, <4>1, <2>2, <2>6, <1>2 DEF Ready
    <3>2. CASE u # t
      BY <3>2, <2>1, <2>3, <1>4, ReadyOfUnchanged DEF TypeOK, Sessions
    <3>. QED BY <3>1, <3>2
  <2>. QED BY <1>1, <2>5, <2>7 DEF TypeOK
<1>. QED BY <1>6, <1>7

\* Facts of a session at a line of its request, in either loop.
LEMMA AtLine ==
  ASSUME TypeOK, NEW t \in Txns, pc[t] \in {"resolve", "write"}
  PROVE  /\ mem[t] \in Locals
         /\ mem[t].req \in Requests /\ mem[t].req # None /\ Valid(mem[t].req)
         /\ mem[t].key # None /\ mem[t].seen \in Catalogs /\ mem[t].seen # None
         /\ mem[t].line \in LineNos(mem[t].req)
         /\ held[t] = Named(mem[t].req)
         /\ LineItem(t) \in held[t] /\ LineItem(t) \in Items
         /\ Line(t).quantity \in Int /\ UnitPrice(t) \in Int
         /\ Advance(t) \in LineNos(mem[t].req)
<1>1. /\ mem[t] \in Locals
      /\ mem[t].req \in Requests /\ mem[t].req # None /\ Valid(mem[t].req)
      /\ mem[t].key # None /\ mem[t].seen \in Catalogs /\ mem[t].seen # None
      /\ mem[t].line \in LineNos(mem[t].req)
      /\ held[t] = Named(mem[t].req) /\ held[t] \subseteq Items
  BY DEF TypeOK, Sessions, Ready, Locals
<1>2. LineItem(t) \in held[t] /\ LineItem(t) \in Items
  BY <1>1 DEF LineItem, Named
<1>3. Line(t).quantity \in Int /\ Line(t).product \in Products
  BY <1>1, RequestLines DEF Line
<1>4. UnitPrice(t) \in Int
  BY <1>1, <1>3, CatalogPrice DEF UnitPrice
<1>5. Advance(t) \in LineNos(mem[t].req)
  <2> DEFINE n == mem[t].line
             N == Len(mem[t].req.lines)
  <2>1. n \in 1..N /\ N \in Nat /\ LineNos(mem[t].req) = 1..N
    BY <1>1, RequestLines
  <2>. QED BY <2>1 DEF Advance, LastLine
<1>. QED BY <1>1, <1>2, <1>3, <1>4, <1>5

LEMMA ResolveTypeOK ==
  ASSUME TypeOK, NEW t \in Txns, Resolve(t)
  PROVE  TypeOK'
<1> DEFINE cost == UnitPrice(t) * Line(t).quantity
<1>1. Tables'
  BY DEF Resolve, TypeOK, Tables, tables
<1>2. /\ pc[t] = "resolve" /\ held' = held /\ answer' = answer
      /\ mem' = [mem EXCEPT ![t].total = @ + cost, ![t].line = Advance(t)]
      /\ pc' = IF LastLine(t) THEN [pc EXCEPT ![t] = "write"] ELSE pc
  BY DEF Resolve
<1>3. cost \in Int /\ Advance(t) \in Nat
  <2>1. UnitPrice(t) \in Int /\ Line(t).quantity \in Int /\ mem[t].req \in Requests
        /\ Advance(t) \in LineNos(mem[t].req)
    BY <1>2, AtLine
  <2>. QED BY <2>1, RequestLines
<1>4. /\ mem'[t] = [mem[t] EXCEPT !.total = @ + cost, !.line = Advance(t)]
      /\ \A u \in Txns \ {t} : mem'[u] = mem[u]
      /\ mem' = [mem EXCEPT ![t] = mem'[t]]
  BY <1>2 DEF TypeOK, Sessions
<1>5. mem[t] \in Locals /\ mem'[t] \in Locals
  <2>1. mem[t] \in Locals
    BY <1>2, AtLine
  <2>2. mem'[t] = Priced(mem[t], cost, Advance(t))
    BY <1>4 DEF Priced
  <2>. QED BY <2>1, <2>2, <1>3, LocalsResolve
<1>6. Sessions'
  BY <1>2, <1>4, <1>5 DEF TypeOK, Sessions
<1>7. ASSUME NEW u \in Txns PROVE Ready(u)'
  <2>1. CASE u = t
    <3>1. /\ pc'[t] \in {"resolve", "write"} /\ held'[t] = held[t]
          /\ mem'[t].req = mem[t].req /\ mem'[t].key = mem[t].key
          /\ mem'[t].seen = mem[t].seen /\ mem'[t].line = Advance(t)
      BY <1>2, <1>4, <1>5 DEF TypeOK, Sessions, Locals
    <3>. QED BY <2>1, <3>1, <1>2, AtLine DEF Ready
  <2>2. CASE u # t
    BY <2>2, <1>2, <1>4, ReadyOfUnchanged DEF TypeOK, Sessions
  <2>. QED BY <2>1, <2>2
<1>. QED BY <1>1, <1>6, <1>7 DEF TypeOK

LEMMA WriteLineTypeOK ==
  ASSUME TypeOK, NEW t \in Txns, WriteLine(t)
  PROVE  TypeOK'
<1> DEFINE i == LineItem(t)
           n == Line(t).quantity
<1>1. Tables'
  BY DEF WriteLine, TypeOK, Tables, tables
<1>2. /\ pc[t] = "write" /\ held' = held /\ answer' = answer
      /\ mem' = [mem EXCEPT ![t].inv[i] = @ - n, ![t].delta[i] = @ - n,
                            ![t].line = Advance(t)]
      /\ pc' = IF LastLine(t) THEN [pc EXCEPT ![t] = "record"] ELSE pc
  BY DEF WriteLine
<1>3. /\ mem[t] \in Locals /\ i \in Items /\ n \in Int /\ Advance(t) \in Nat
  <2>1. mem[t].req \in Requests /\ Advance(t) \in LineNos(mem[t].req)
    BY <1>2, AtLine
  <2>. QED BY <2>1, <1>2, AtLine, RequestLines
<1>4. /\ mem'[t] = [mem[t] EXCEPT !.inv[i] = @ - n, !.delta[i] = @ - n, !.line = Advance(t)]
      /\ \A u \in Txns \ {t} : mem'[u] = mem[u]
      /\ mem' = [mem EXCEPT ![t] = mem'[t]]
  BY <1>2 DEF TypeOK, Sessions
<1>5. mem'[t] \in Locals
  <2>1. mem'[t] = Written(mem[t], i, n, Advance(t))
    BY <1>4 DEF Written
  <2>2. Written(mem[t], i, n, Advance(t)) \in Locals
    BY <1>3, LocalsWrite, Zenon
  <2>. QED BY <2>1, <2>2, Zenon
<1>6. Sessions'
  BY <1>2, <1>4, <1>5 DEF TypeOK, Sessions
<1>7. ASSUME NEW u \in Txns PROVE Ready(u)'
  <2>1. CASE u = t
    <3>1. /\ pc'[t] = (IF LastLine(t) THEN "record" ELSE "write") /\ held'[t] = held[t]
          /\ mem'[t].req = mem[t].req /\ mem'[t].key = mem[t].key
          /\ mem'[t].seen = mem[t].seen /\ mem'[t].line = Advance(t)
      BY <1>2, <1>3, <1>4 DEF TypeOK, Sessions, Locals
    <3>. QED BY <2>1, <3>1, <1>2, AtLine DEF Ready
  <2>2. CASE u # t
    BY <2>2, <1>2, <1>4, ReadyOfUnchanged DEF TypeOK, Sessions
  <2>. QED BY <2>1, <2>2
<1>. QED BY <1>1, <1>6, <1>7 DEF TypeOK

LEMMA RecordKeyTypeOK ==
  ASSUME TypeOK, NEW t \in Txns, RecordKey(t)
  PROVE  TypeOK'
<1>1. Tables'
  BY DEF RecordKey, TypeOK, Tables, tables
<1>2. Sessions'
  BY DEF RecordKey, TypeOK, Sessions
<1>3. ASSUME NEW u \in Txns PROVE Ready(u)'
  <2>1. CASE u = t
    <3>1. /\ pc[t] = "record" /\ pc'[t] = "commit"
          /\ mem'[t] = mem[t] /\ held'[t] = held[t]
      BY DEF RecordKey, TypeOK, Sessions
    <3>. QED BY <2>1, <3>1 DEF Ready, TypeOK
  <2>2. CASE u # t
    BY <2>2, ReadyOfUnchanged DEF RecordKey, TypeOK, Sessions
  <2>. QED BY <2>1, <2>2
<1>. QED BY <1>1, <1>2, <1>3 DEF TypeOK

\* What a session that is about to commit knows.
LEMMA AtCommit ==
  ASSUME TypeOK, NEW t \in Txns, pc[t] = "commit"
  PROVE  /\ mem[t] \in Locals
         /\ mem[t].key \in Keys /\ mem[t].req \in Requests /\ Valid(mem[t].req)
         /\ mem[t].seen \in Catalogs /\ mem[t].total \in Int
         /\ mem[t].inv \in [Items -> Int] /\ mem[t].delta \in [Items -> Int]
         /\ held[t] = Named(mem[t].req) /\ held[t] \subseteq Items
         /\ Len(sales) \in Nat
  BY DEF TypeOK, Tables, Sessions, Ready, Locals

LEMMA CommitTypeOK ==
  ASSUME TypeOK, NEW t \in Txns, Commit(t)
  PROVE  TypeOK'
<1> DEFINE m == mem[t]
           id == Len(sales) + 1
           sale == [location |-> m.req.location, currency |-> m.req.currency,
                    total |-> m.total, lines |-> SaleLines(m.req, m.seen)]
           record == [fingerprint |-> Fingerprint(m.req), sale |-> id, total |-> m.total]
<1>1. /\ pc[t] = "commit" /\ catalog' = catalog
      /\ quantity' = [i \in Items |-> IF i \in held[t] THEN m.inv[i] ELSE quantity[i]]
      /\ moved' = [i \in Items |-> moved[i] + m.delta[i]]
      /\ sales' = Append(sales, sale)
      /\ records' = [records EXCEPT ![m.key] = record]
      /\ audit' = audit \cup {[sale |-> id, total |-> m.total]}
      /\ Finish(t, m.key, m.req, "sale", id)
  BY DEF Commit
<1>2. id \in Nat
  BY <1>1, AtCommit
<1>3. quantity' \in [Items -> Int] /\ moved' \in [Items -> Int]
  BY <1>1, AtCommit DEF TypeOK, Tables
<1>4. sale \in SaleType
  BY <1>1, AtCommit DEF SaleType
<1>5. sales' \in Seq(SaleType)
  BY <1>1, <1>4 DEF TypeOK, Tables
<1>6. record \in RecordType
  BY <1>1, <1>2, AtCommit DEF RecordType
<1>7. records' \in [Keys -> RecordType \cup {None}]
  BY <1>1, <1>6 DEF TypeOK, Tables
<1>8. audit' \subseteq [sale: Nat, total: Int]
  BY <1>1, <1>2, AtCommit DEF TypeOK, Tables
<1>9. Tables'
  BY <1>1, <1>3, <1>5, <1>7, <1>8 DEF TypeOK, Tables
<1>10. Sessions' /\ \A u \in Txns : Ready(u)'
  BY <1>1, <1>2, AtCommit, FinishReady, "sale" \in Outcomes DEF Outcomes
<1>. QED BY <1>9, <1>10 DEF TypeOK

\* A call that is answered from the record of its key.
LEMMA ReplayTypeOK ==
  ASSUME TypeOK, NEW t \in Txns, NEW k \in Keys, NEW q \in Requests,
         Replay(t, k, q) \/ Conflict(t, k, q)
  PROVE  TypeOK'
<1>1. records[k].sale \in Nat
  BY DEF TypeOK, Tables, RecordType, Replay, Conflict
<1>2. \E outcome \in Outcomes, sale \in Nat : Finish(t, k, q, outcome, sale)
  BY <1>1 DEF Replay, Conflict, Outcomes
<1>3. Sessions' /\ \A u \in Txns : Ready(u)'
  BY <1>2, FinishReady
<1>4. Tables'
  BY DEF Replay, Conflict, TypeOK, Tables, tables
<1>. QED BY <1>3, <1>4 DEF TypeOK

LEMMA EditCatalogTypeOK ==
  ASSUME TypeOK, EditCatalog
  PROVE  TypeOK'
<1>1. Tables' /\ Sessions'
  BY DEF EditCatalog, TypeOK, Tables, Sessions, tables
<1>2. \A u \in Txns : Ready(u)'
  BY DEF EditCatalog, TypeOK, Ready
<1>. QED BY <1>1, <1>2 DEF TypeOK

\* The cases of a step, for the proofs of every invariant below.
LEMMA NextCases ==
  ASSUME Next
  PROVE  \/ EditCatalog
         \/ \E t \in Txns :
              \/ \E k \in Keys, q \in Requests :
                   Replay(t, k, q) \/ Conflict(t, k, q) \/ Start(t, k, q)
              \/ Raises(t)
              \/ ReadProducts(t) \/ LockRow(t) \/ Resolve(t) \/ WriteLine(t)
              \/ RecordKey(t) \/ Commit(t)
BY DEF Next, Call, Step, Raises

LEMMA NextTypeOK == TypeOK /\ [Next]_vars => TypeOK'
<1> SUFFICES ASSUME TypeOK, [Next]_vars PROVE TypeOK'
  OBVIOUS
<1>1. CASE UNCHANGED vars
  BY <1>1 DEF vars, tables, TypeOK, Tables, Sessions, Ready
<1>2. CASE EditCatalog
  BY <1>2, EditCatalogTypeOK
<1>3. ASSUME NEW t \in Txns, NEW k \in Keys, NEW q \in Requests,
             Replay(t, k, q) \/ Conflict(t, k, q) \/ Start(t, k, q)
      PROVE  TypeOK'
  BY <1>3, ReplayTypeOK, StartTypeOK
<1>4. ASSUME NEW t \in Txns, Raises(t) PROVE TypeOK'
  BY <1>4, RaisesRaise, RaiseTypeOK
<1>5. ASSUME NEW t \in Txns,
             \/ ReadProducts(t) \/ LockRow(t) \/ Resolve(t) \/ WriteLine(t)
             \/ RecordKey(t) \/ Commit(t)
      PROVE  TypeOK'
  BY <1>5, ReadProductsTypeOK, LockRowTypeOK, ResolveTypeOK, WriteLineTypeOK,
     RecordKeyTypeOK, CommitTypeOK
<1>. QED BY <1>1, <1>2, <1>3, <1>4, <1>5, NextCases

\* In every behaviour of checkout_sale each table and each session's local
\* variables have the shape the code gives them.
THEOREM TypeCorrect == Spec => []TypeOK
BY InitTypeOK, NextTypeOK, PTL DEF Spec

-----------------------------------------------------------------------------
(* Isolation: the row locks make the read-check-write of each session one  *)
(* step, so the stock on record and the movements never disagree.          *)

LocksExclusive == \A t, u \in Txns : t # u => held[t] \cap held[u] = {}

Isolated == LocksExclusive /\ FreshRows /\ LedgerExact

\* A step that changes nothing that Fresh(u) speaks of.
LEMMA FreshOfUnchanged ==
  ASSUME NEW u \in Txns, Fresh(u), held'[u] = held[u],
         mem'[u].inv = mem[u].inv, mem'[u].delta = mem[u].delta,
         \A i \in held[u] : quantity'[i] = quantity[i]
  PROVE  Fresh(u)'
BY DEF Fresh

\* A session that ends without a commit drops its locks and its changes.
LEMMA RollbackIsolated ==
  ASSUME TypeOK, Isolated, NEW t \in Txns, UNCHANGED <<quantity, moved>>,
         held' = [held EXCEPT ![t] = {}], mem' = [mem EXCEPT ![t] = Blank]
  PROVE  Isolated'
<1>1. LocksExclusive'
  BY DEF Isolated, LocksExclusive, TypeOK, Sessions
<1>2. ASSUME NEW u \in Txns PROVE Fresh(u)'
  <2>1. CASE u = t
    BY <2>1 DEF Fresh, Blank, Zero, TypeOK, Sessions
  <2>2. CASE u # t
    BY <2>2, FreshOfUnchanged DEF Isolated, FreshRows, TypeOK, Sessions
  <2>. QED BY <2>1, <2>2
<1>. QED BY <1>1, <1>2 DEF Isolated, FreshRows, LedgerExact

\* A step that changes no row, no lock and none of the values it protects.
LEMMA StutterIsolated ==
  ASSUME TypeOK, Isolated, UNCHANGED <<quantity, moved, held>>,
         \A u \in Txns : mem'[u].inv = mem[u].inv /\ mem'[u].delta = mem[u].delta
  PROVE  Isolated'
BY FreshOfUnchanged DEF Isolated, LocksExclusive, FreshRows, LedgerExact

LEMMA LockRowIsolated ==
  ASSUME TypeOK, Isolated, NEW t \in Txns, LockRow(t)
  PROVE  Isolated'
<1> DEFINE i == mem[t].want
<1>1. /\ held' = [held EXCEPT ![t] = @ \cup {i}]
      /\ UNCHANGED <<quantity, moved>> /\ Free(i)
  BY DEF LockRow, tables
<1>2. i \in Items /\ mem[t] \in Locals /\ quantity[i] \in Int
  BY DEF LockRow, TypeOK, Tables, Sessions, Ready, Rows
<1>3. LocksExclusive'
  BY <1>1 DEF Free, Isolated, LocksExclusive, TypeOK, Sessions
<1>4. /\ mem'[t].inv = [mem[t].inv EXCEPT ![i] = quantity[i]]
      /\ mem'[t].delta = mem[t].delta
      /\ \A u \in Txns \ {t} : mem'[u] = mem[u]
  <2>1. /\ \/ \E w \in Items : mem'[t] = Locked(mem[t], i, quantity[i], w)
           \/ mem'[t] = LockedLast(mem[t], i, quantity[i])
        /\ \A u \in Txns \ {t} : mem'[u] = mem[u]
    BY DEF LockRow, TypeOK, Sessions, Rows, Locked, LockedLast
  <2>. QED BY <2>1, <1>2, LocalsLock, LocalsLockLast
<1>5. mem[t].delta[i] = 0 /\ mem[t].inv \in [Items -> Int]
  BY <1>1, <1>2 DEF Free, Isolated, FreshRows, Fresh, Locals
<1>6. ASSUME NEW u \in Txns PROVE Fresh(u)'
  <2>1. CASE u = t
    <3>1. held'[t] = held[t] \cup {i}
      BY <1>1 DEF TypeOK, Sessions
    <3>2. Fresh(t)
      BY DEF Isolated, FreshRows
    <3>. QED BY <2>1, <3>1, <3>2, <1>1, <1>2, <1>4, <1>5 DEF Fresh
  <2>2. CASE u # t
    BY <2>2, <1>1, <1>4, FreshOfUnchanged DEF Isolated, FreshRows, TypeOK, Sessions
  <2>. QED BY <2>1, <2>2
<1>. QED BY <1>1, <1>3, <1>6 DEF Isolated, FreshRows, LedgerExact

LEMMA WriteLineIsolated ==
  ASSUME TypeOK, Isolated, NEW t \in Txns, WriteLine(t)
  PROVE  Isolated'
<1> DEFINE i == LineItem(t)
           n == Line(t).quantity
<1>1. UNCHANGED <<quantity, moved, held>> /\ pc[t] = "write"
  BY DEF WriteLine, tables
<1>2. /\ i \in held[t] /\ i \in Items /\ n \in Int /\ mem[t] \in Locals
      /\ mem[t].req \in Requests /\ Advance(t) \in LineNos(mem[t].req)
  BY <1>1, AtLine
<1>3. Advance(t) \in Nat
  BY <1>2, RequestLines
<1>4. /\ mem'[t].inv = Less(mem[t].inv, i, n)
      /\ mem'[t].delta = Less(mem[t].delta, i, n)
      /\ \A u \in Txns \ {t} : mem'[u] = mem[u]
  <2>1. /\ mem'[t] = Written(mem[t], i, n, Advance(t))
        /\ \A u \in Txns \ {t} : mem'[u] = mem[u]
    BY DEF WriteLine, TypeOK, Sessions, Written
  <2>. QED BY <2>1, <1>2, <1>3, LocalsWrite
<1>5. ASSUME NEW u \in Txns PROVE Fresh(u)'
  <2>1. CASE u = t
    <3>1. mem[t].inv \in [Items -> Int] /\ mem[t].delta \in [Items -> Int]
      BY <1>2 DEF Locals
    <3>2. Fresh(t) /\ quantity \in [Items -> Int]
      BY DEF Isolated, FreshRows, TypeOK, Tables
    <3>. QED BY <2>1, <3>1, <3>2, <1>1, <1>2, <1>4 DEF Fresh, Less
  <2>2. CASE u # t
    BY <2>2, <1>1, <1>4, FreshOfUnchanged DEF Isolated, FreshRows
  <2>. QED BY <2>1, <2>2
<1>. QED BY <1>1, <1>5 DEF Isolated, LocksExclusive, FreshRows, LedgerExact

LEMMA CommitIsolated ==
  ASSUME TypeOK, Isolated, NEW t \in Txns, Commit(t)
  PROVE  Isolated'
<1> DEFINE m == mem[t]
<1>1. /\ pc[t] = "commit"
      /\ quantity' = [i \in Items |-> IF i \in held[t] THEN m.inv[i] ELSE quantity[i]]
      /\ moved' = [i \in Items |-> moved[i] + m.delta[i]]
      /\ held' = [held EXCEPT ![t] = {}] /\ mem' = [mem EXCEPT ![t] = Blank]
  BY DEF Commit, Finish
<1>2. LocksExclusive'
  BY <1>1 DEF Isolated, LocksExclusive, TypeOK, Sessions
<1>3. ASSUME NEW u \in Txns PROVE Fresh(u)'
  <2>1. CASE u = t
    BY <1>1, <2>1 DEF Fresh, Blank, Zero, TypeOK, Sessions
  <2>2. CASE u # t
    <3>1. mem'[u] = mem[u] /\ held'[u] = held[u] /\ Fresh(u) /\ held[u] \subseteq Items
      BY <1>1, <2>2 DEF Isolated, FreshRows, TypeOK, Sessions
    <3>2. \A i \in held[u] : quantity'[i] = quantity[i]
      BY <1>1, <2>2, <3>1 DEF Isolated, LocksExclusive
    <3>. QED BY <3>1, <3>2, FreshOfUnchanged
  <2>. QED BY <2>1, <2>2
<1>4. ASSUME NEW i \in Items PROVE quantity'[i] = Opening[i] + moved'[i]
  <2>1. /\ m.inv[i] \in Int /\ m.delta[i] \in Int /\ quantity[i] \in Int /\ moved[i] \in Int
        /\ Opening[i] \in Int
    BY <1>1, AtCommit, OpeningAssumption DEF TypeOK, Tables
  <2>2. /\ quantity[i] = Opening[i] + moved[i]
        /\ IF i \in held[t] THEN m.inv[i] = quantity[i] + m.delta[i] ELSE m.delta[i] = 0
    BY DEF Isolated, LedgerExact, FreshRows, Fresh
  <2>. QED BY <1>1, <2>1, <2>2
<1>. QED BY <1>2, <1>3, <1>4 DEF Isolated, LedgerExact, FreshRows

LEMMA InitIsolated == Init => Isolated
<1> SUFFICES ASSUME Init PROVE Isolated
  OBVIOUS
<1>1. LocksExclusive /\ FreshRows
  BY DEF Init, LocksExclusive, FreshRows, Fresh, Blank, Zero
<1>2. LedgerExact
  BY OpeningAssumption DEF Init, LedgerExact, Zero
<1>. QED BY <1>1, <1>2 DEF Isolated

LEMMA NextIsolated == TypeOK /\ Isolated /\ [Next]_vars => Isolated'
<1> SUFFICES ASSUME TypeOK, Isolated, [Next]_vars PROVE Isolated'
  OBVIOUS
<1>1. CASE UNCHANGED vars
  BY <1>1, StutterIsolated DEF vars, tables
<1>2. CASE EditCatalog
  BY <1>2, StutterIsolated DEF EditCatalog, tables
<1>3. ASSUME NEW t \in Txns, NEW k \in Keys, NEW q \in Requests,
             Replay(t, k, q) \/ Conflict(t, k, q)
      PROVE  Isolated'
  BY <1>3, RollbackIsolated DEF Replay, Conflict, Finish, tables
<1>4. ASSUME NEW t \in Txns, NEW k \in Keys, NEW q \in Requests, Start(t, k, q)
      PROVE  Isolated'
  <2>1. held[t] = {} /\ held' = held /\ UNCHANGED <<quantity, moved>>
    BY <1>4 DEF Start, TypeOK, Ready, tables
  <2>2. /\ mem'[t].delta = Zero
        /\ \A u \in Txns \ {t} : mem'[u] = mem[u]
    BY <1>4 DEF Start, TypeOK, Sessions, Blank
  <2>3. ASSUME NEW u \in Txns PROVE Fresh(u)'
    <3>1. CASE u = t
      BY <2>1, <2>2, <3>1 DEF Fresh, Zero
    <3>2. CASE u # t
      BY <2>1, <2>2, <3>2, FreshOfUnchanged DEF Isolated, FreshRows
    <3>. QED BY <3>1, <3>2
  <2>. QED BY <2>1, <2>3 DEF Isolated, LocksExclusive, FreshRows, LedgerExact
<1>5. ASSUME NEW t \in Txns, Raises(t) PROVE Isolated'
  BY <1>5, RaisesRaise, RollbackIsolated DEF Raise, Finish, tables
<1>6. ASSUME NEW t \in Txns, ReadProducts(t) \/ Resolve(t) PROVE Isolated'
  <2>1. \A u \in Txns : mem'[u].inv = mem[u].inv /\ mem'[u].delta = mem[u].delta
    <3>1. CASE ReadProducts(t)
      BY <3>1 DEF ReadProducts, TypeOK, Sessions, Locals
    <3>2. CASE Resolve(t)
      <4>1. /\ mem'[t] = Priced(mem[t], UnitPrice(t) * Line(t).quantity, Advance(t))
            /\ \A u \in Txns \ {t} : mem'[u] = mem[u]
        BY <3>2 DEF Resolve, TypeOK, Sessions, Priced
      <4>2. mem[t] \in Locals /\ UnitPrice(t) * Line(t).quantity \in Int /\ Advance(t) \in Nat
        <5>1. UnitPrice(t) \in Int /\ Line(t).quantity \in Int /\ mem[t].req \in Requests
              /\ Advance(t) \in LineNos(mem[t].req) /\ mem[t] \in Locals
          BY <3>2, AtLine DEF Resolve
        <5>. QED BY <5>1, RequestLines
      <4>3. mem'[t].inv = mem[t].inv /\ mem'[t].delta = mem[t].delta
        BY <4>1, <4>2, LocalsResolve
      <4>. QED BY <4>1, <4>3
    <3>. QED BY <1>6, <3>1, <3>2
  <2>. QED BY <2>1, <1>6, StutterIsolated DEF ReadProducts, Resolve, tables
<1>7. ASSUME NEW t \in Txns, RecordKey(t) PROVE Isolated'
  BY <1>7, StutterIsolated DEF RecordKey, tables
<1>8. ASSUME NEW t \in Txns, LockRow(t) \/ WriteLine(t) \/ Commit(t) PROVE Isolated'
  BY <1>8, LockRowIsolated, WriteLineIsolated, CommitIsolated
<1>. QED BY <1>1, <1>2, <1>3, <1>4, <1>5, <1>6, <1>7, <1>8, NextCases

LEMMA IsolationInvariant == Spec => [](TypeOK /\ Isolated)
<1>1. Init => TypeOK /\ Isolated
  BY InitTypeOK, InitIsolated
<1>2. TypeOK /\ Isolated /\ [Next]_vars => (TypeOK /\ Isolated)'
  BY NextTypeOK, NextIsolated
<1>. QED BY <1>1, <1>2, PTL DEF Spec

\* Whatever sessions interleave, deadlock or crash, the stock of every row is
\* its opening stock plus the movements recorded for it: no update is lost.
THEOREM StockMatchesLedger == Spec => []LedgerExact
BY IsolationInvariant, PTL DEF Isolated

\* No session ever checks or writes back a quantity that another has changed.
THEOREM RowsFresh == Spec => []FreshRows
BY IsolationInvariant, PTL DEF Isolated

-----------------------------------------------------------------------------
(* Idempotency: the unique index on the key lets one session at a time get *)
(* past the insert of its record, and only if there is none.               *)

KeyExclusive(t) ==
  pc[t] = "commit" =>
    /\ records[mem[t].key] = None
    /\ \A u \in Txns \ {t} : pc[u] = "commit" => mem[u].key # mem[t].key

Keyed == OneSalePerKey /\ \A t \in Txns : KeyExclusive(t)

\* A step that commits nothing and lets no session past its insert.
LEMMA StutterKeyed ==
  ASSUME TypeOK, Keyed, UNCHANGED <<sales, records>>,
         \A u \in Txns : pc'[u] = "commit" => pc[u] = "commit" /\ mem'[u].key = mem[u].key
  PROVE  Keyed'
<1>1. OneSalePerKey'
  BY DEF Keyed, OneSalePerKey
<1>2. ASSUME NEW u \in Txns PROVE KeyExclusive(u)'
  BY DEF Keyed, KeyExclusive
<1>. QED BY <1>1, <1>2 DEF Keyed

LEMMA RecordKeyKeyed ==
  ASSUME TypeOK, Keyed, NEW t \in Txns, RecordKey(t)
  PROVE  Keyed'
<1>1. /\ KeyFree(t) /\ UNCHANGED <<sales, records, mem>>
      /\ pc'[t] = "commit" /\ \A u \in Txns \ {t} : pc'[u] = pc[u]
  BY DEF RecordKey, tables, TypeOK, Sessions
<1>2. OneSalePerKey'
  BY <1>1 DEF Keyed, OneSalePerKey
<1>3. ASSUME NEW u \in Txns PROVE KeyExclusive(u)'
  BY <1>1 DEF Keyed, KeyExclusive, KeyFree
<1>. QED BY <1>2, <1>3 DEF Keyed

\* What a commit does to the sales and the records.
LEMMA CommitAppends ==
  ASSUME TypeOK, Keyed, NEW t \in Txns, Commit(t)
  PROVE  /\ pc[t] = "commit" /\ mem[t].key \in Keys /\ records[mem[t].key] = None
         /\ Len(sales) \in Nat /\ DOMAIN sales = 1..Len(sales)
         /\ DOMAIN sales' = 1..(Len(sales) + 1)
         /\ \A s \in 1..Len(sales) : sales'[s] = sales[s]
         /\ sales'[Len(sales) + 1] =
              [location |-> mem[t].req.location, currency |-> mem[t].req.currency,
               total |-> mem[t].total, lines |-> SaleLines(mem[t].req, mem[t].seen)]
         /\ records'[mem[t].key] =
              [fingerprint |-> Fingerprint(mem[t].req), sale |-> Len(sales) + 1,
               total |-> mem[t].total]
         /\ \A k \in Keys \ {mem[t].key} : records'[k] = records[k]
<1> DEFINE sale == [location |-> mem[t].req.location, currency |-> mem[t].req.currency,
                    total |-> mem[t].total, lines |-> SaleLines(mem[t].req, mem[t].seen)]
<1>1. pc[t] = "commit" /\ mem[t].key \in Keys /\ sales' = Append(sales, sale)
  BY AtCommit DEF Commit
<1>2. sales \in Seq(SaleType) /\ records \in [Keys -> RecordType \cup {None}]
  BY DEF TypeOK, Tables
<1>3. records[mem[t].key] = None
  BY <1>1 DEF Keyed, KeyExclusive
<1>4. sale \in SaleType
  BY <1>1, AtCommit DEF SaleType
<1> HIDE DEF sale
<1>5. /\ Len(sales) \in Nat /\ DOMAIN sales = 1..Len(sales)
      /\ DOMAIN sales' = 1..(Len(sales) + 1)
      /\ \A s \in 1..Len(sales) : sales'[s] = sales[s]
      /\ sales'[Len(sales) + 1] = sale
  BY <1>1, <1>2, <1>4
<1>6. records' = [records EXCEPT ![mem[t].key] =
                    [fingerprint |-> Fingerprint(mem[t].req), sale |-> Len(sales) + 1,
                     total |-> mem[t].total]]
  BY DEF Commit
<1>. QED BY <1>1, <1>2, <1>3, <1>5, <1>6 DEF sale

LEMMA CommitKeyed ==
  ASSUME TypeOK, Keyed, NEW t \in Txns, Commit(t)
  PROVE  Keyed'
<1> DEFINE key == mem[t].key
           id == Len(sales) + 1
<1>1. /\ key \in Keys /\ records[key] = None /\ pc[t] = "commit"
      /\ DOMAIN sales = 1..Len(sales) /\ DOMAIN sales' = 1..id /\ Len(sales) \in Nat
      /\ records'[key] # None /\ records'[key].sale = id
      /\ \A k \in Keys \ {key} : records'[k] = records[k]
  <2>1. records'[key] = [fingerprint |-> Fingerprint(mem[t].req), sale |-> id,
                         total |-> mem[t].total]
    BY CommitAppends
  <2>2. records'[key] # None
    <3>1. /\ Fingerprint(mem[t].req) \in {Fingerprint(q) : q \in Requests}
          /\ id \in Nat /\ mem[t].total \in Int
      BY AtCommit DEF Commit
    <3>2. records'[key] \in RecordType
      BY <2>1, <3>1 DEF RecordType
    <3>. QED BY <3>2, RecordAssumption
  <2>3. records'[key].sale = id
    BY <2>1
  <2>. QED BY <2>2, <2>3, CommitAppends
<1>2. OneSalePerKey'
  <2>1. ASSUME NEW s \in 1..id
        PROVE  \E k \in Keys : records'[k] # None /\ records'[k].sale = s
    <3>1. CASE s = id
      BY <3>1, <1>1
    <3>2. CASE s # id
      <4>1. s \in DOMAIN sales
        BY <3>2, <1>1
      <4>2. PICK k \in Keys : records[k] # None /\ records[k].sale = s
        BY <4>1 DEF Keyed, OneSalePerKey
      <4>3. k # key
        BY <4>2, <1>1
      <4>. QED BY <4>2, <4>3, <1>1
    <3>. QED BY <3>1, <3>2
  <2>2. \A k \in Keys : records'[k] # None => records'[k].sale \in 1..id
    BY <1>1 DEF Keyed, OneSalePerKey
  <2>3. \A k, l \in Keys :
          records'[k] # None /\ records'[l] # None /\ records'[k].sale = records'[l].sale
            => k = l
    BY <1>1 DEF Keyed, OneSalePerKey
  <2>. QED BY <1>1, <2>1, <2>2, <2>3 DEF OneSalePerKey
<1>3. ASSUME NEW u \in Txns PROVE KeyExclusive(u)'
  <2>1. pc'[t] = "idle" /\ \A v \in Txns \ {t} : pc'[v] = pc[v] /\ mem'[v] = mem[v]
    BY DEF Commit, Finish, TypeOK, Sessions
  <2>2. CASE u = t
    BY <2>1, <2>2 DEF KeyExclusive
  <2>3. CASE u # t
    <3>1. pc[u] = "commit" => mem[u].key # key /\ mem[u].key \in Keys
      BY <1>1, <2>3, AtCommit DEF Keyed, KeyExclusive
    <3>. QED BY <1>1, <2>1, <2>3, <3>1 DEF Keyed, KeyExclusive
  <2>. QED BY <2>2, <2>3
<1>. QED BY <1>2, <1>3 DEF Keyed

LEMMA InitKeyed == Init => Keyed
BY DEF Init, Keyed, OneSalePerKey, KeyExclusive

LEMMA NextKeyed == TypeOK /\ Keyed /\ [Next]_vars => Keyed'
<1> SUFFICES ASSUME TypeOK, Keyed, [Next]_vars PROVE Keyed'
  OBVIOUS
<1>1. CASE UNCHANGED vars
  BY <1>1, StutterKeyed DEF vars, tables
<1>2. CASE EditCatalog
  BY <1>2, StutterKeyed DEF EditCatalog, tables
<1>3. ASSUME NEW t \in Txns, NEW k \in Keys, NEW q \in Requests,
             Replay(t, k, q) \/ Conflict(t, k, q) \/ Start(t, k, q)
      PROVE  Keyed'
  <2>1. \A u \in Txns : pc'[u] = "commit" => pc[u] = "commit" /\ mem'[u].key = mem[u].key
    BY <1>3 DEF Replay, Conflict, Start, Finish, TypeOK, Sessions
  <2>. QED BY <1>3, <2>1, StutterKeyed DEF Replay, Conflict, Start, tables
<1>4. ASSUME NEW t \in Txns, Raises(t) PROVE Keyed'
  <2>1. PICK outcome \in Outcomes : Raise(t, outcome)
    BY <1>4, RaisesRaise
  <2>2. \A u \in Txns : pc'[u] = "commit" => pc[u] = "commit" /\ mem'[u].key = mem[u].key
    BY <2>1 DEF Raise, Finish, TypeOK, Sessions
  <2>. QED BY <2>1, <2>2, StutterKeyed DEF Raise, tables
<1>5. ASSUME NEW t \in Txns, ReadProducts(t) \/ LockRow(t) \/ Resolve(t) \/ WriteLine(t)
      PROVE  Keyed'
  <2>1. \A u \in Txns : pc'[u] = "commit" => pc[u] = "commit" /\ mem'[u].key = mem[u].key
    <3>1. pc'[t] # "commit"
      BY <1>5 DEF ReadProducts, LockRow, Resolve, WriteLine, TypeOK, Sessions
    <3>2. \A u \in Txns \ {t} : pc'[u] = pc[u] /\ mem'[u] = mem[u]
      BY <1>5 DEF ReadProducts, LockRow, Resolve, WriteLine, TypeOK, Sessions
    <3>. QED BY <3>1, <3>2
  <2>. QED BY <1>5, <2>1, StutterKeyed DEF ReadProducts, LockRow, Resolve, WriteLine, tables
<1>6. ASSUME NEW t \in Txns, RecordKey(t) \/ Commit(t) PROVE Keyed'
  BY <1>6, RecordKeyKeyed, CommitKeyed
<1>. QED BY <1>1, <1>2, <1>3, <1>4, <1>5, <1>6, NextCases

LEMMA KeyInvariant == Spec => [](TypeOK /\ Keyed)
<1>1. Init => TypeOK /\ Keyed
  BY InitTypeOK, InitKeyed
<1>2. TypeOK /\ Keyed /\ [Next]_vars => (TypeOK /\ Keyed)'
  BY NextTypeOK, NextKeyed
<1>. QED BY <1>1, <1>2, PTL DEF Spec

\* Any number of sessions running one key leave one sale, and every sale is
\* under one key.
THEOREM KeyBuysOnce == Spec => []OneSalePerKey
BY KeyInvariant, PTL DEF Keyed

\* No step changes a committed sale or the record of its key.
THEOREM HistoryNeverChanges == Spec => HistoryPermanent
<1> DEFINE Kept == /\ Len(sales) <= Len(sales')
                   /\ \A s \in DOMAIN sales : sales'[s] = sales[s]
                   /\ \A k \in Keys : records[k] # None => records'[k] = records[k]
<1>1. TypeOK /\ Keyed /\ [Next]_vars => [Kept]_vars
  <2> SUFFICES ASSUME TypeOK, Keyed, Next PROVE Kept
    OBVIOUS
  <2>0. Len(sales) \in Nat
    BY DEF TypeOK, Tables
  <2>1. CASE UNCHANGED <<sales, records>>
    BY <2>0, <2>1
  <2>2. ASSUME NEW t \in Txns, Commit(t) PROVE Kept
    <3>1. Len(sales') = Len(sales) + 1
      <4>1. \E sale : sales' = Append(sales, sale)
        BY <2>2 DEF Commit
      <4>. QED BY <4>1 DEF TypeOK, Tables
    <3>2. \A s \in DOMAIN sales : sales'[s] = sales[s]
      BY <2>2, CommitAppends
    <3>3. \A k \in Keys : records[k] # None => records'[k] = records[k]
      BY <2>2, CommitAppends
    <3>. QED BY <2>0, <3>1, <3>2, <3>3
  <2>3. (\E t \in Txns : Commit(t)) \/ UNCHANGED <<sales, records>>
    <3>1. EditCatalog => UNCHANGED <<sales, records>>
      BY DEF EditCatalog, tables
    <3>2. ASSUME NEW t \in Txns, NEW k \in Keys, NEW q \in Requests,
                 Replay(t, k, q) \/ Conflict(t, k, q) \/ Start(t, k, q)
          PROVE  UNCHANGED <<sales, records>>
      BY <3>2 DEF Replay, Conflict, Start, tables
    <3>3. ASSUME NEW t \in Txns, Raises(t) PROVE UNCHANGED <<sales, records>>
      BY <3>3, RaisesRaise DEF Raise, tables
    <3>4. ASSUME NEW t \in Txns,
                 ReadProducts(t) \/ LockRow(t) \/ Resolve(t) \/ WriteLine(t) \/ RecordKey(t)
          PROVE  UNCHANGED <<sales, records>>
      BY <3>4 DEF ReadProducts, LockRow, Resolve, WriteLine, RecordKey, tables
    <3>. QED BY <3>1, <3>2, <3>3, <3>4, NextCases
  <2>. QED BY <2>1, <2>2, <2>3
<1>. QED BY <1>1, KeyInvariant, PTL DEF Spec, HistoryPermanent

-----------------------------------------------------------------------------
(* Overselling: the check looks at one line at a time, so it is enough     *)
(* exactly when no request names a product twice.                          *)

NamedOnce(q) ==
  \A n, m \in LineNos(q) : q.lines[n].product = q.lines[m].product => n = m

\* The lines checked so far, or not yet written, are there to be taken.
Covered(t) ==
  /\ \A i \in held[t] : mem[t].inv[i] >= 0
  /\ pc[t] = "resolve" =>
       \A n \in LineNos(mem[t].req) : n < mem[t].line =>
         mem[t].inv[ItemOf(mem[t].req, n)] >= mem[t].req.lines[n].quantity
  /\ pc[t] = "write" =>
       \A n \in LineNos(mem[t].req) : n >= mem[t].line =>
         mem[t].inv[ItemOf(mem[t].req, n)] >= mem[t].req.lines[n].quantity

Supplied == NeverOversold /\ \A t \in Txns : Covered(t)

LEMMA CoveredOfUnchanged ==
  ASSUME NEW u \in Txns, Covered(u), UNCHANGED <<pc[u], mem[u], held[u]>>
  PROVE  Covered(u)'
BY DEF Covered

LEMMA RollbackSupplied ==
  ASSUME TypeOK, Supplied, NEW t \in Txns, UNCHANGED <<quantity, moved>>,
         held' = [held EXCEPT ![t] = {}], mem' = [mem EXCEPT ![t] = Blank],
         pc' = [pc EXCEPT ![t] = "idle"]
  PROVE  Supplied'
<1>1. ASSUME NEW u \in Txns PROVE Covered(u)'
  <2>1. CASE u = t
    BY <2>1 DEF Covered, TypeOK, Sessions
  <2>2. CASE u # t
    BY <2>2, CoveredOfUnchanged DEF Supplied, TypeOK, Sessions
  <2>. QED BY <2>1, <2>2
<1>. QED BY <1>1 DEF Supplied, NeverOversold

LEMMA LockRowSupplied ==
  ASSUME TypeOK, Supplied, NEW t \in Txns, LockRow(t)
  PROVE  Supplied'
<1> DEFINE i == mem[t].want
<1>1. /\ held' = [held EXCEPT ![t] = @ \cup {i}] /\ UNCHANGED <<quantity, moved>>
      /\ pc[t] = "lock"
  BY DEF LockRow, tables
<1>2. i \in Items /\ mem[t] \in Locals /\ quantity[i] \in Int /\ quantity[i] >= 0
      /\ held[t] \subseteq Items
  BY DEF LockRow, TypeOK, Tables, Sessions, Ready, Rows, Supplied, NeverOversold
<1>3. /\ mem'[t].inv = [mem[t].inv EXCEPT ![i] = quantity[i]]
      /\ \A u \in Txns \ {t} : mem'[u] = mem[u]
  <2>1. /\ \/ \E w \in Items : mem'[t] = Locked(mem[t], i, quantity[i], w)
           \/ mem'[t] = LockedLast(mem[t], i, quantity[i])
        /\ \A u \in Txns \ {t} : mem'[u] = mem[u]
    BY DEF LockRow, TypeOK, Sessions, Rows, Locked, LockedLast
  <2>. QED BY <2>1, <1>2, LocalsLock, LocalsLockLast
<1>4. /\ pc'[t] = "lock" \/ (pc'[t] = "resolve" /\ mem'[t].line = 1)
      /\ \A u \in Txns \ {t} : pc'[u] = pc[u]
  BY <1>2 DEF LockRow, TypeOK, Sessions, Locals
<1>5. ASSUME NEW u \in Txns PROVE Covered(u)'
  <2>1. CASE u = t
    <3>1. held'[t] = held[t] \cup {i} /\ mem[t].inv \in [Items -> Int]
      BY <1>1, <1>2 DEF TypeOK, Sessions, Locals
    <3>2. \A j \in held[t] : mem[t].inv[j] >= 0
      BY DEF Supplied, Covered
    <3>3. \A j \in held'[t] : mem'[t].inv[j] >= 0
      BY <3>1, <3>2, <1>2, <1>3
    <3>4. pc'[t] = "resolve" => \A n \in LineNos(mem'[t].req) : ~(n < mem'[t].line)
      <4>1. TypeOK'
        BY LockRowTypeOK
      <4>2. pc'[t] # "idle" => mem'[t].req \in Requests
        BY <4>1 DEF TypeOK, Sessions, Ready, Locals
      <4>. QED BY <4>2, <1>4, RequestLines
    <3>. QED BY <2>1, <3>3, <3>4, <1>4 DEF Covered
  <2>2. CASE u # t
    BY <2>2, <1>1, <1>3, <1>4, CoveredOfUnchanged DEF Supplied, TypeOK, Sessions
  <2>. QED BY <2>1, <2>2
<1>. QED BY <1>1, <1>5 DEF Supplied, NeverOversold

LEMMA ResolveSupplied ==
  ASSUME TypeOK, Supplied, NEW t \in Txns, Resolve(t)
  PROVE  Supplied'
<1> DEFINE q == mem[t].req
           l == mem[t].line
<1>1. /\ pc[t] = "resolve" /\ UNCHANGED <<quantity, moved, held>> /\ Enough(t)
      /\ pc' = IF LastLine(t) THEN [pc EXCEPT ![t] = "write"] ELSE pc
  BY DEF Resolve, tables
<1>2. /\ mem[t] \in Locals /\ q \in Requests /\ l \in LineNos(q)
      /\ UnitPrice(t) \in Int /\ Line(t).quantity \in Int /\ Advance(t) \in LineNos(q)
  BY <1>1, AtLine
<1>3. LineNos(q) = 1..Len(q.lines) /\ Len(q.lines) \in Nat
  BY <1>2, RequestLines
<1>4. /\ mem'[t].inv = mem[t].inv /\ mem'[t].req = q /\ mem'[t].line = Advance(t)
      /\ \A u \in Txns \ {t} : mem'[u] = mem[u] /\ pc'[u] = pc[u]
  BY <1>1, <1>2 DEF Resolve, TypeOK, Sessions, Locals
<1>5. /\ \A n \in LineNos(q) : n < l => mem[t].inv[ItemOf(q, n)] >= q.lines[n].quantity
      /\ mem[t].inv[ItemOf(q, l)] >= q.lines[l].quantity
      /\ \A i \in held[t] : mem[t].inv[i] >= 0
  BY <1>1 DEF Supplied, Covered, Enough, LineItem, Line
<1>6. Covered(t)'
  <2>1. CASE LastLine(t)
    <3>1. pc'[t] = "write" /\ \A n \in LineNos(q) : n <= l
      BY <2>1, <1>1, <1>2, <1>3 DEF LastLine, TypeOK, Sessions
    <3>2. \A n \in LineNos(q) : mem[t].inv[ItemOf(q, n)] >= q.lines[n].quantity
      BY <3>1, <1>2, <1>3, <1>5
    <3>. QED BY <3>1, <3>2, <1>1, <1>4, <1>5 DEF Covered
  <2>2. CASE ~LastLine(t)
    <3>1. pc'[t] = "resolve" /\ mem'[t].line = l + 1
      BY <2>2, <1>1, <1>4 DEF Advance
    <3>2. \A n \in LineNos(q) : n < l + 1 => mem[t].inv[ItemOf(q, n)] >= q.lines[n].quantity
      BY <1>2, <1>3, <1>5
    <3>. QED BY <3>1, <3>2, <1>1, <1>4, <1>5 DEF Covered
  <2>. QED BY <2>1, <2>2
<1>7. ASSUME NEW u \in Txns PROVE Covered(u)'
  BY <1>1, <1>4, <1>6, CoveredOfUnchanged DEF Supplied
<1>. QED BY <1>1, <1>7 DEF Supplied, NeverOversold

LEMMA WriteLineSupplied ==
  ASSUME TypeOK, Supplied, NEW t \in Txns, WriteLine(t), NamedOnce(mem[t].req)
  PROVE  Supplied'
<1> DEFINE q == mem[t].req
           l == mem[t].line
           i == LineItem(t)
           taken == Line(t).quantity
<1>1. /\ pc[t] = "write" /\ UNCHANGED <<quantity, moved, held>>
      /\ pc' = IF LastLine(t) THEN [pc EXCEPT ![t] = "record"] ELSE pc
  BY DEF WriteLine, tables
<1>2. /\ mem[t] \in Locals /\ q \in Requests /\ l \in LineNos(q)
      /\ i \in Items /\ taken \in Int /\ Advance(t) \in LineNos(q) /\ held[t] = Named(q)
      /\ held[t] \subseteq Items
  BY <1>1, AtLine DEF TypeOK, Sessions
<1>3. LineNos(q) = 1..Len(q.lines) /\ Len(q.lines) \in Nat /\ Advance(t) \in Nat
  BY <1>2, RequestLines
<1>4. /\ mem'[t].inv = Less(mem[t].inv, i, taken)
      /\ mem'[t].req = q /\ mem'[t].line = Advance(t)
      /\ \A u \in Txns \ {t} : mem'[u] = mem[u] /\ pc'[u] = pc[u]
  <2>1. /\ mem'[t] = Written(mem[t], i, taken, Advance(t))
        /\ \A u \in Txns \ {t} : mem'[u] = mem[u] /\ pc'[u] = pc[u]
    BY <1>1 DEF WriteLine, TypeOK, Sessions, Written
  <2>2. mem'[t].inv = Less(mem[t].inv, i, taken)
    <3>1. Written(mem[t], i, taken, Advance(t)).inv = Less(mem[t].inv, i, taken)
      BY <1>2, <1>3, LocalsWrite
    <3>. QED BY <2>1, <3>1
  <2>3. mem'[t].req = q /\ mem'[t].line = Advance(t)
    BY <1>2 DEF WriteLine, TypeOK, Sessions, Locals
  <2>. QED BY <2>1, <2>2, <2>3
<1>5. /\ \A n \in LineNos(q) : n >= l => mem[t].inv[ItemOf(q, n)] >= q.lines[n].quantity
      /\ \A j \in held[t] : mem[t].inv[j] >= 0
      /\ mem[t].inv[i] >= taken
      /\ mem[t].inv \in [Items -> Int]
  <2>1. /\ \A n \in LineNos(q) : n >= l => mem[t].inv[ItemOf(q, n)] >= q.lines[n].quantity
        /\ \A j \in held[t] : mem[t].inv[j] >= 0
    BY <1>1 DEF Supplied, Covered
  <2>2. mem[t].inv[i] >= taken
    BY <2>1, <1>2, <1>3 DEF LineItem, Line
  <2>. QED BY <2>1, <2>2, <1>2 DEF Locals
<1>6. \A j \in held[t] : mem'[t].inv[j] >= 0
  BY <1>2, <1>4, <1>5 DEF Less
<1>7. \A n \in LineNos(q) : n > l => mem'[t].inv[ItemOf(q, n)] >= q.lines[n].quantity
  <2>1. ASSUME NEW n \in LineNos(q), n > l PROVE ItemOf(q, n) # i
    <3>1. n # l
      BY <2>1, <1>2, <1>3
    <3>2. q.lines[n].product # q.lines[l].product
      BY <3>1, <1>2 DEF NamedOnce
    <3>. QED BY <3>2 DEF ItemOf, LineItem
  <2>2. \A n \in LineNos(q) : ItemOf(q, n) \in Items
    BY <1>2 DEF Named
  <2>3. ASSUME NEW n \in LineNos(q), n > l
        PROVE  mem'[t].inv[ItemOf(q, n)] = mem[t].inv[ItemOf(q, n)]
    BY <2>1, <2>2, <2>3, <1>4, <1>5 DEF Less
  <2>4. ASSUME NEW n \in LineNos(q), n > l
        PROVE  mem[t].inv[ItemOf(q, n)] >= q.lines[n].quantity
    BY <2>4, <1>2, <1>3, <1>5
  <2>. QED BY <2>3, <2>4
<1>8. Covered(t)'
  <2>1. CASE LastLine(t)
    <3>1. pc'[t] = "record"
      BY <2>1, <1>1 DEF TypeOK, Sessions
    <3>. QED BY <3>1, <1>1, <1>6 DEF Covered
  <2>2. CASE ~LastLine(t)
    <3>1. pc'[t] = "write" /\ mem'[t].line = l + 1
      BY <2>2, <1>1, <1>4 DEF Advance
    <3>2. \A n \in LineNos(q) : n >= l + 1 => mem'[t].inv[ItemOf(q, n)] >= q.lines[n].quantity
      BY <1>2, <1>3, <1>7
    <3>. QED BY <3>1, <3>2, <1>1, <1>4, <1>6 DEF Covered
  <2>. QED BY <2>1, <2>2
<1>9. ASSUME NEW u \in Txns PROVE Covered(u)'
  BY <1>1, <1>4, <1>8, CoveredOfUnchanged DEF Supplied
<1>. QED BY <1>1, <1>9 DEF Supplied, NeverOversold

LEMMA CommitSupplied ==
  ASSUME TypeOK, Isolated, Supplied, NEW t \in Txns, Commit(t)
  PROVE  Supplied'
<1>1. /\ quantity' = [i \in Items |-> IF i \in held[t] THEN mem[t].inv[i] ELSE quantity[i]]
      /\ held' = [held EXCEPT ![t] = {}] /\ mem' = [mem EXCEPT ![t] = Blank]
      /\ pc' = [pc EXCEPT ![t] = "idle"]
  BY DEF Commit, Finish
<1>2. \A i \in Items : quantity'[i] >= 0
  BY <1>1 DEF Supplied, NeverOversold, Covered
<1>3. NeverOversold'
  BY <1>2, CommitIsolated DEF Isolated, LedgerExact, NeverOversold
<1>4. ASSUME NEW u \in Txns PROVE Covered(u)'
  <2>1. CASE u = t
    BY <1>1, <2>1 DEF Covered, TypeOK, Sessions
  <2>2. CASE u # t
    BY <1>1, <2>2, CoveredOfUnchanged DEF Supplied, TypeOK, Sessions
  <2>. QED BY <2>1, <2>2
<1>. QED BY <1>3, <1>4 DEF Supplied

LEMMA InitSupplied == Init => Supplied
<1> SUFFICES ASSUME Init PROVE Supplied
  OBVIOUS
<1>1. NeverOversold
  BY OpeningAssumption DEF Init, NeverOversold, Zero
<1>2. \A t \in Txns : Covered(t)
  BY DEF Init, Covered
<1>. QED BY <1>1, <1>2 DEF Supplied

LEMMA NextSupplied ==
  ASSUME \A q \in Requests : NamedOnce(q), TypeOK, Isolated, Supplied, [Next]_vars
  PROVE  Supplied'
<1>1. CASE UNCHANGED vars
  BY <1>1, CoveredOfUnchanged DEF vars, tables, Supplied, NeverOversold
<1>2. CASE EditCatalog
  BY <1>2, CoveredOfUnchanged DEF EditCatalog, tables, Supplied, NeverOversold
<1>3. ASSUME NEW t \in Txns, NEW k \in Keys, NEW q \in Requests,
             Replay(t, k, q) \/ Conflict(t, k, q)
      PROVE  Supplied'
  BY <1>3, RollbackSupplied DEF Replay, Conflict, Finish, tables
<1>4. ASSUME NEW t \in Txns, Raises(t) PROVE Supplied'
  BY <1>4, RaisesRaise, RollbackSupplied DEF Raise, Finish, tables
<1>5. ASSUME NEW t \in Txns,
             ReadProducts(t) \/ RecordKey(t) \/ \E k \in Keys, q \in Requests : Start(t, k, q)
      PROVE  Supplied'
  <2>1. UNCHANGED <<quantity, moved, held>>
    BY <1>5 DEF ReadProducts, RecordKey, Start, tables
  <2>2. /\ pc'[t] \notin {"resolve", "write"}
        /\ \A u \in Txns \ {t} : pc'[u] = pc[u] /\ mem'[u] = mem[u]
    BY <1>5 DEF ReadProducts, RecordKey, Start, TypeOK, Sessions
  <2>3. held[t] = {} \/ mem'[t].inv = mem[t].inv
    BY <1>5 DEF ReadProducts, RecordKey, Start, TypeOK, Ready
  <2>4. ASSUME NEW u \in Txns PROVE Covered(u)'
    <3>1. CASE u = t
      BY <3>1, <2>1, <2>2, <2>3 DEF Covered, Supplied
    <3>2. CASE u # t
      BY <3>2, <2>1, <2>2, CoveredOfUnchanged DEF Supplied
    <3>. QED BY <3>1, <3>2
  <2>. QED BY <2>1, <2>4 DEF Supplied, NeverOversold
<1>6. ASSUME NEW t \in Txns, LockRow(t) \/ Resolve(t) \/ Commit(t) PROVE Supplied'
  BY <1>6, LockRowSupplied, ResolveSupplied, CommitSupplied
<1>7. ASSUME NEW t \in Txns, WriteLine(t) PROVE Supplied'
  <2>1. mem[t].req \in Requests
    BY <1>7, AtLine DEF WriteLine
  <2>. QED BY <1>7, <2>1, WriteLineSupplied
<1>. QED BY <1>1, <1>2, <1>3, <1>4, <1>5, <1>6, <1>7, NextCases

\* If no request names a product twice, no interleaving of checkouts sells
\* more of any row than it held.
THEOREM NoOversell ==
  ASSUME \A q \in Requests : NamedOnce(q)
  PROVE  Spec => []NeverOversold
<1>1. Init => TypeOK /\ Isolated /\ Supplied
  BY InitTypeOK, InitIsolated, InitSupplied
<1>2. TypeOK /\ Isolated /\ Supplied /\ [Next]_vars => (TypeOK /\ Isolated /\ Supplied)'
  BY NextTypeOK, NextIsolated, NextSupplied
<1>3. Supplied => NeverOversold
  BY DEF Supplied
<1>. QED BY <1>1, <1>2, <1>3, PTL DEF Spec
=============================================================================
