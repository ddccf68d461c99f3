------------------------- MODULE StockSessionsProofs -------------------------
(***************************************************************************)
(* Theorems about StockSessions, for any sessions, calls, products, sales  *)
(* and opening stock.                                                      *)
(***************************************************************************)
EXTENDS StockSessions, TLAPS

-----------------------------------------------------------------------------
(* The inductive invariant.                                                *)

Quantity(b) == IF b = None THEN 0 ELSE b

\* The statements each operation runs.
Looping == {"row", "create", "write"}
OnCourse(t) ==
  /\ pc[t] \in Looping => call[t].op \in {"adjust", "receive", "return"}
  /\ pc[t] = "sale" => call[t].op = "return" /\ line[t] = 1
  /\ pc[t] = "look" => call[t].op = "open"
  /\ pc[t] = "shift" => call[t].op = "close"

\* A session that has done nothing yet, or has ended, has no locks.
Unlocked(t) ==
  pc[t] \in {"sale", "look", "shift", "done"} => \A r \in Locks : holder[r] # t

\* What t has written is under its locks: the balance it will leave is the one
\* it found plus the movements it inserts, and is not negative.
Booked(t) ==
  \A p \in Products :
    IF draft[t][p] = None THEN posted[t][p] = 0
    ELSE /\ holder[p] = t
         /\ draft[t][p] = Quantity(balance[p]) + posted[t][p]
         /\ draft[t][p] >= 0

\* What t has read is what it would read now.
Fresh(t) ==
  /\ pc[t] = "create" => draft[t][Row(t)] = None
  /\ pc[t] = "write" => /\ holder[Row(t)] = t
                        /\ Seen(t, Row(t)) # None /\ read[t] = Seen(t, Row(t))

\* A return past its checks has the sale and its location, its request still
\* fits what is left to return, and it takes back only what it asked for.
Returning(t) == call[t].op = "return" /\ pc[t] \notin {"sale", "done"}
Granted(t) ==
  Returning(t) =>
    /\ holder[call[t].sale] = t /\ holder[Location] = t
    /\ Refundable(call[t])
TakenAsAsked(t) ==
  \A i \in Items : taken[t][i] # 0 =>
    /\ Returning(t)
    /\ \E n \in DOMAIN call[t].lines :
         /\ call[t].lines[n].item = i /\ taken[t][i] = call[t].lines[n].quantity
         /\ n < line[t] \/ pc[t] = "commit"

\* A session about to close the shift has it, open; one about to open another
\* had found none open.
Counting(t) ==
  /\ pc[t] = "commit" /\ call[t].op = "close" => holder[Shift] = t /\ shifts[1].open
  /\ pc[t] = "commit" /\ call[t].op = "open" =>
       read[t] \in 0 .. Len(shifts) /\ \A s \in 1 .. read[t] : ~shifts[s].open

SessionOK(t) ==
  /\ OnCourse(t) /\ Unlocked(t) /\ Booked(t) /\ Fresh(t)
  /\ Granted(t) /\ TakenAsAsked(t) /\ Counting(t)

Consistent ==
  /\ TypeOK /\ StockIsItsMovements /\ ShelvesNotNegative /\ ReturnsWithinSale
  /\ \A t \in Sessions : SessionOK(t)

-----------------------------------------------------------------------------
(* Requests and locks.                                                     *)

LEMMA NoneIsNobody == None \notin Sessions /\ None \notin Int
BY NoneAssumption

LEMMA CallLines ==
  ASSUME NEW c \in Calls
  PROVE  /\ Len(c.lines) \in Nat /\ DOMAIN c.lines = 1 .. Len(c.lines)
         /\ \A n \in DOMAIN c.lines :
              /\ c.lines[n].product \in Products /\ c.lines[n].quantity \in Int
              /\ c.lines[n].item \in Items \cup {None}
<1> DEFINE R == [product: Products, quantity: Int, item: Items \cup {None}]
<1>1. c.lines \in Seq(R)
  BY CallAssumption
<1> HIDE DEF R
<1>2. Len(c.lines) \in Nat /\ DOMAIN c.lines = 1 .. Len(c.lines)
  BY <1>1
<1>3. \A n \in DOMAIN c.lines : c.lines[n] \in R
  BY <1>1
<1>. QED BY <1>2, <1>3 DEF R

\* The line a session is at.
LEMMA LineType ==
  ASSUME TypeOK, NEW t \in Sessions, pc[t] \in Looping
  PROVE  /\ line[t] \in DOMAIN call[t].lines /\ line[t] \in 1 .. Len(call[t].lines)
         /\ Len(call[t].lines) \in Nat
         /\ Row(t) \in Products /\ Row(t) \in Locks
         /\ Line(t).quantity \in Int /\ Line(t).item \in Items \cup {None}
<1>1. call[t] \in Calls /\ line[t] \in DOMAIN call[t].lines
  BY DEF TypeOK, SessionsType, AtLine, Looping
<1>. QED BY <1>1, CallLines DEF Row, Line, Locks

LEMMA SoldRow ==
  ASSUME NEW i \in Items
  PROVE  Sold[i].sale \in Sales /\ Sold[i].sale \in Locks /\ Sold[i].quantity \in Nat
BY SoldAssumption DEF Locks

LEMMA Takes ==
  ASSUME SessionsType, NEW t \in Sessions, NEW rows \in SUBSET Locks,
         \A r \in rows : Free(t, r), Take(t, rows)
  PROVE  /\ holder' \in [Locks -> Sessions \cup {None}]
         /\ \A r \in rows : holder'[r] = t
         /\ \A r \in Locks : holder[r] = t => holder'[r] = t
         /\ \A u \in Sessions \ {t}, r \in Locks : (holder[r] = u) <=> (holder'[r] = u)
<1>1. holder' \in [Locks -> Sessions \cup {None}]
  BY DEF SessionsType, Take
<1>2. \A r \in Locks : holder'[r] = IF r \in rows THEN t ELSE holder[r]
  BY DEF Take
<1>3. \A r \in rows : holder[r] = t \/ holder[r] = None
  BY DEF Free
<1>. QED BY <1>1, <1>2, <1>3, NoneIsNobody

-----------------------------------------------------------------------------
(* What a step of one session leaves alone for another.                    *)

Undisturbed(u) ==
  /\ pc'[u] = pc[u] /\ call'[u] = call[u] /\ line'[u] = line[u] /\ read'[u] = read[u]
  /\ draft'[u] = draft[u] /\ posted'[u] = posted[u] /\ taken'[u] = taken[u]
  /\ outcome'[u] = outcome[u]
  /\ \A r \in Locks : (holder[r] = u) <=> (holder'[r] = u)
  /\ \A p \in Products : holder[p] = u => balance'[p] = balance[p]
  /\ \A i \in Items : holder[Sold[i].sale] = u => returned'[i] = returned[i]
  /\ holder[Shift] = u => shifts'[1] = shifts[1]
  /\ Len(shifts) <= Len(shifts')
  /\ \A s \in 1 .. Len(shifts) : ~shifts[s].open => shifts'[s] = shifts[s]

LEMMA UndisturbedOK ==
  ASSUME TypeOK, TypeOK', NEW u \in Sessions, SessionOK(u), Undisturbed(u)
  PROVE  SessionOK(u)'
<1>0. call[u] \in Calls
  BY DEF TypeOK, SessionsType
<1>1. OnCourse(u)' /\ Unlocked(u)'
  BY DEF SessionOK, OnCourse, Unlocked, Undisturbed
<1>2. Booked(u)'
  BY DEF SessionOK, Booked, Undisturbed, Locks
<1>3. Fresh(u)'
  <2>1. pc[u] \in Looping => Row(u) \in Products /\ Row(u) \in Locks /\ Row(u)' = Row(u)
    BY LineType DEF Row, Line, Undisturbed
  <2>2. pc[u] = "create" => draft'[u][Row(u)'] = None
    BY <2>1 DEF SessionOK, Fresh, Undisturbed, Looping
  <2>3. pc[u] = "write" =>
          holder'[Row(u)'] = u /\ Seen(u, Row(u))' = Seen(u, Row(u)) /\ read'[u] = read[u]
    BY <2>1 DEF SessionOK, Fresh, Undisturbed, Looping, Seen
  <2>. QED BY <2>2, <2>3 DEF SessionOK, Fresh, Undisturbed
<1>4. Granted(u)'
  <2>1. SUFFICES ASSUME Returning(u) PROVE Granted(u)'
    BY DEF Granted, Returning, Undisturbed
  <2>2. call[u].sale \in Locks /\ Location \in Locks
    BY <1>0, <2>1, CallAssumption DEF Returning, Locks
  <2>3. holder[call[u].sale] = u /\ holder[Location] = u /\ Refundable(call[u])
    BY <2>1 DEF SessionOK, Granted
  <2>4. ASSUME NEW n \in DOMAIN call[u].lines
        PROVE  returned'[call[u].lines[n].item] = returned[call[u].lines[n].item]
    <3>1. call[u].lines[n].item \in Items
      BY <1>0, <2>1, CallAssumption DEF Returning
    <3>2. Sold[call[u].lines[n].item].sale = call[u].sale
      BY <2>3 DEF Refundable
    <3>. QED BY <2>3, <3>1, <3>2 DEF Undisturbed
  <2>5. Refundable(call[u])'
    BY <2>3, <2>4 DEF Refundable, Undisturbed
  <2>. QED BY <2>2, <2>3, <2>5 DEF Granted, Undisturbed
<1>5. TakenAsAsked(u)'
  BY DEF SessionOK, TakenAsAsked, Returning, Undisturbed
<1>6. Counting(u)'
  <2>1. Shift \in Locks /\ Len(shifts) \in Nat /\ Len(shifts') \in Nat
    BY DEF Locks, TypeOK, TablesType
  <2>. QED BY <2>1 DEF SessionOK, Counting, Undisturbed, TypeOK, SessionsType
<1>. QED BY <1>1, <1>2, <1>3, <1>4, <1>5, <1>6 DEF SessionOK

\* A step of t that changes no table.
LEMMA QuietStepOK ==
  ASSUME Consistent, NEW t \in Sessions, UNCHANGED tables, TypeOK', SessionOK(t)',
         \A u \in Sessions \ {t} :
           /\ pc'[u] = pc[u] /\ call'[u] = call[u] /\ line'[u] = line[u] /\ read'[u] = read[u]
           /\ draft'[u] = draft[u] /\ posted'[u] = posted[u] /\ taken'[u] = taken[u]
           /\ outcome'[u] = outcome[u]
           /\ \A r \in Locks : (holder[r] = u) <=> (holder'[r] = u)
  PROVE  Consistent'
<1>1. \A u \in Sessions \ {t} : Undisturbed(u)
  <2>1. Len(shifts) \in Nat
    BY DEF Consistent, TypeOK, TablesType
  <2>. QED BY <2>1 DEF Undisturbed, tables
<1>2. \A u \in Sessions : SessionOK(u)'
  BY <1>1, UndisturbedOK DEF Consistent
<1>3. (StockIsItsMovements /\ ShelvesNotNegative /\ ReturnsWithinSale)'
  BY DEF Consistent, StockIsItsMovements, ShelvesNotNegative, ReturnsWithinSale, tables
<1>. QED BY <1>2, <1>3 DEF Consistent

LEMMA QuietTypes ==
  ASSUME TypeOK, UNCHANGED tables
  PROVE  TablesType'
BY DEF TypeOK, TablesType, tables

-----------------------------------------------------------------------------
(* The steps of a session, but its commit.                                 *)

LEMMA InitConsistent == Init => Consistent
<1> SUFFICES ASSUME Init PROVE Consistent
  OBVIOUS
<1>0. \A t \in Sessions : call[t] \in Calls /\ call[t].op \in Operations /\ pc[t] = First(call[t])
  BY CallAssumption DEF Init
<1>1. TablesType
  <2>1. shifts = <<[open |-> TRUE, closing |-> None]>>
    BY DEF Init
  <2>2. [open |-> TRUE, closing |-> None] \in Shifts
    BY DEF Shifts
  <2>3. shifts \in Seq(Shifts) /\ shifts # <<>> /\ DOMAIN shifts = {1} /\ shifts[1] = [open |-> TRUE, closing |-> None]
    BY <2>1, <2>2
  <2>4. \A s \in DOMAIN shifts : shifts[s].open <=> shifts[s].closing = None
    BY <2>3
  <2>5. balance \in [Products -> Int \cup {None}] /\ moved \in [Products -> Int] /\ returned \in [Items -> Int]
    BY OpeningAssumption DEF Init
  <2>. QED BY <2>3, <2>4, <2>5 DEF TablesType
<1>2. SessionsType
  BY <1>0 DEF Init, SessionsType, Points, Outcomes, First
<1>3. \A t \in Sessions : AtLine(t)
  <2> SUFFICES ASSUME NEW t \in Sessions, pc[t] \in Looping PROVE 1 \in DOMAIN call[t].lines
    BY DEF Init, AtLine, Looping
  <2>1. call[t].op \in {"adjust", "receive", "return"}
    BY <1>0 DEF First, Operations, Looping
  <2>2. call[t].lines # <<>> /\ call[t] \in Calls
    BY <1>0, <2>1, CallAssumption
  <2> DEFINE R == [product: Products, quantity: Int, item: Items \cup {None}]
  <2>3. call[t].lines \in Seq(R)
    BY <2>2, CallAssumption
  <2> HIDE DEF R
  <2>. QED BY <2>2, <2>3
<1>4. StockIsItsMovements /\ ShelvesNotNegative
  BY OpeningAssumption, NoneIsNobody DEF Init, StockIsItsMovements, ShelvesNotNegative
<1>5. ReturnsWithinSale
  BY SoldRow DEF Init, ReturnsWithinSale
<1>6. ASSUME NEW t \in Sessions PROVE SessionOK(t)
  <2>1. /\ pc[t] \in {"sale", "look", "shift", "row"} /\ outcome[t] = "none" /\ t # None
        /\ line[t] = 1
    BY <1>0, NoneIsNobody DEF Init, First
  <2>2. OnCourse(t)
    BY <1>0, <2>1 DEF OnCourse, Looping, First, Operations
  <2>3. Unlocked(t) /\ Booked(t) /\ Fresh(t) /\ TakenAsAsked(t) /\ Counting(t)
    BY <2>1 DEF Init, Unlocked, Booked, Fresh, TakenAsAsked, Counting
  <2>4. ~Returning(t)
    BY <1>0 DEF Returning, First
  <2>. QED BY <2>2, <2>3, <2>4 DEF SessionOK, Granted
<1>. QED BY <1>1, <1>2, <1>3, <1>4, <1>5, <1>6 DEF Consistent, TypeOK

\* A session that has ended has no locks and nothing left to write.
LEMMA Ends ==
  ASSUME SessionsType, NEW t \in Sessions, NEW how \in Outcomes, End(t, how)
  PROVE  /\ SessionsType'
         /\ pc'[t] = "done" /\ outcome'[t] = how /\ call' = call
         /\ \A p \in Products : draft'[t][p] = None /\ posted'[t][p] = 0
         /\ \A i \in Items : taken'[t][i] = 0
         /\ \A r \in Locks : holder'[r] # t
         /\ \A u \in Sessions \ {t} :
              /\ pc'[u] = pc[u] /\ line'[u] = line[u] /\ read'[u] = read[u]
              /\ draft'[u] = draft[u] /\ posted'[u] = posted[u] /\ taken'[u] = taken[u]
              /\ outcome'[u] = outcome[u]
              /\ \A r \in Locks : (holder[r] = u) <=> (holder'[r] = u)
<1>1. SessionsType'
  BY DEF SessionsType, End, Points
<1>2. /\ pc'[t] = "done" /\ outcome'[t] = how /\ call' = call
      /\ \A p \in Products : draft'[t][p] = None /\ posted'[t][p] = 0
      /\ \A i \in Items : taken'[t][i] = 0
  BY DEF SessionsType, End
<1>3. \A r \in Locks : holder'[r] = IF holder[r] = t THEN None ELSE holder[r]
  BY DEF End
<1>4. \A u \in Sessions \ {t} :
        /\ pc'[u] = pc[u] /\ line'[u] = line[u] /\ read'[u] = read[u]
        /\ draft'[u] = draft[u] /\ posted'[u] = posted[u] /\ taken'[u] = taken[u]
        /\ outcome'[u] = outcome[u]
  BY DEF SessionsType, End
<1>. QED BY <1>1, <1>2, <1>3, <1>4, NoneIsNobody

LEMMA EndedOK ==
  ASSUME SessionsType, NEW t \in Sessions, NEW how \in Outcomes, End(t, how)
  PROVE  SessionOK(t)' /\ AtLine(t)'
<1>1. /\ pc'[t] = "done" /\ outcome'[t] = how /\ call' = call
      /\ \A p \in Products : draft'[t][p] = None /\ posted'[t][p] = 0
      /\ \A i \in Items : taken'[t][i] = 0
      /\ \A r \in Locks : holder'[r] # t
  BY Ends
<1>. QED BY <1>1 DEF SessionOK, OnCourse, Unlocked, Booked, Fresh, Granted, Returning,
                     TakenAsAsked, Counting, AtLine, Looping

LEMMA AbortOK ==
  ASSUME Consistent, NEW t \in Sessions, NEW how \in Outcomes, Abort(t, how)
  PROVE  Consistent'
<1>0. SessionsType /\ End(t, how) /\ UNCHANGED tables
  BY DEF Consistent, TypeOK, Abort
<1>1. /\ SessionsType' /\ call' = call
      /\ \A u \in Sessions \ {t} :
           /\ pc'[u] = pc[u] /\ line'[u] = line[u] /\ read'[u] = read[u]
           /\ draft'[u] = draft[u] /\ posted'[u] = posted[u] /\ taken'[u] = taken[u]
           /\ outcome'[u] = outcome[u]
           /\ \A r \in Locks : (holder[r] = u) <=> (holder'[r] = u)
  BY <1>0, Ends
<1>2. SessionOK(t)' /\ AtLine(t)'
  BY <1>0, EndedOK
<1>3. \A u \in Sessions : AtLine(u)'
  BY <1>1, <1>2 DEF Consistent, TypeOK, AtLine
<1>4. TypeOK'
  BY <1>0, <1>1, <1>3, QuietTypes DEF Consistent, TypeOK
<1>. QED BY <1>0, <1>1, <1>2, <1>4, QuietStepOK

\* A session goes on: others keep their local variables and locks.
LEMMA GoesOn ==
  ASSUME Consistent, NEW t \in Sessions, NEW next \in Points, Goto(t, next), SessionsType',
         AtLine(t)', SessionOK(t)',
         \A u \in Sessions \ {t} :
           /\ line'[u] = line[u] /\ read'[u] = read[u]
           /\ draft'[u] = draft[u] /\ posted'[u] = posted[u] /\ taken'[u] = taken[u]
           /\ \A r \in Locks : (holder[r] = u) <=> (holder'[r] = u)
  PROVE  Consistent'
<1>1. UNCHANGED tables /\ call' = call /\ outcome' = outcome
  BY DEF Goto
<1>2. \A u \in Sessions \ {t} : pc'[u] = pc[u]
  BY DEF Goto, Consistent, TypeOK, SessionsType
<1>3. \A u \in Sessions : AtLine(u)'
  BY <1>1, <1>2 DEF Consistent, TypeOK, AtLine
<1>4. TypeOK'
  BY <1>1, <1>3, QuietTypes DEF Consistent, TypeOK
<1>. QED BY <1>1, <1>2, <1>4, QuietStepOK

LEMMA LockSaleOK ==
  ASSUME Consistent, NEW t \in Sessions, LockSale(t)
  PROVE  Consistent'
<1> DEFINE c == call[t]
<1>0. /\ SessionOK(t) /\ TypeOK /\ SessionsType /\ c \in Calls /\ pc[t] = "sale" /\ c.op = "return"
      /\ c.sale \in Sales /\ c.lines # <<>>
  BY CallAssumption DEF Consistent, TypeOK, SessionsType, SessionOK, OnCourse, LockSale
<1>1. CASE ~Refundable(c)
  BY <1>1, AbortOK DEF LockSale, Outcomes
<1>2. CASE Refundable(c)
  <2>1. Take(t, SaleRows(c)) /\ Goto(t, "row") /\ UNCHANGED <<line, read, written>>
    BY <1>2 DEF LockSale
  <2>2. SaleRows(c) \subseteq Locks /\ \A r \in SaleRows(c) : Free(t, r)
    BY <1>0 DEF LockSale, SaleRows, Locks
  <2>3. /\ holder' \in [Locks -> Sessions \cup {None}]
        /\ \A r \in SaleRows(c) : holder'[r] = t
        /\ \A u \in Sessions \ {t}, r \in Locks : (holder[r] = u) <=> (holder'[r] = u)
    BY <1>0, <2>1, <2>2, Takes
  <2>4. SessionsType'
    BY <1>0, <2>1, <2>3 DEF SessionsType, Goto, written, Points
  <2>5. pc'[t] = "row" /\ call' = call /\ UNCHANGED <<tables, line, read, written, outcome>>
    BY <1>0, <2>1 DEF Goto, SessionsType
  <2>6. \A p \in Products : draft[t][p] = None /\ posted[t][p] = 0
    BY <1>0 DEF SessionOK, Booked, Unlocked, Locks
  <2>7. \A i \in Items : taken[t][i] = 0
    BY <1>0 DEF SessionOK, TakenAsAsked, Returning
  <2>8. SessionOK(t)'
    <3>1. OnCourse(t)' /\ Unlocked(t)' /\ Booked(t)' /\ Fresh(t)'
      BY <1>0, <2>5, <2>6 DEF SessionOK, OnCourse, Unlocked, Booked, Fresh, Looping, written
    <3>2. Granted(t)'
      BY <1>2, <2>3, <2>5 DEF Granted, SaleRows, Refundable, tables
    <3>3. TakenAsAsked(t)' /\ Counting(t)'
      BY <2>5, <2>7 DEF TakenAsAsked, Counting, written
    <3>. QED BY <3>1, <3>2, <3>3 DEF SessionOK
  <2>9. AtLine(t)'
    <3> DEFINE R == [product: Products, quantity: Int, item: Items \cup {None}]
    <3>1. c.lines \in Seq(R)
      BY <1>0, CallAssumption
    <3> HIDE DEF R
    <3>2. 1 \in DOMAIN c.lines
      BY <1>0, <3>1
    <3>3. line[t] = 1
      BY <1>0 DEF SessionOK, OnCourse
    <3>. QED BY <3>2, <3>3, <2>5 DEF AtLine
  <2>. QED BY <2>1, <2>3, <2>4, <2>8, <2>9, GoesOn DEF Points, written
<1>. QED BY <1>1, <1>2

\* The locks and the request of a return stay good while it goes on.
LEMMA GrantKept ==
  ASSUME TypeOK, NEW t \in Sessions, Granted(t), pc[t] \in Looping, UNCHANGED tables,
         call'[t] = call[t], \A r \in Locks : holder[r] = t => holder'[r] = t
  PROVE  Granted(t)'
<1> SUFFICES ASSUME call[t].op = "return"
             PROVE  holder'[call[t].sale] = t /\ holder'[Location] = t /\ Refundable(call[t])'
  BY DEF Granted, Returning, Refundable
<1>1. call[t].sale \in Locks /\ Location \in Locks
  BY CallAssumption DEF TypeOK, SessionsType, Locks
<1>2. holder[call[t].sale] = t /\ holder[Location] = t /\ Refundable(call[t])
  BY DEF Granted, Returning, Looping
<1>. QED BY <1>1, <1>2 DEF Refundable, tables

LEMMA LockRowOK ==
  ASSUME Consistent, NEW t \in Sessions, LockRow(t)
  PROVE  Consistent'
<1> DEFINE p == Row(t)
<1>0. SessionOK(t) /\ TypeOK /\ SessionsType /\ TablesType /\ pc[t] = "row" /\ pc[t] \in Looping
  BY DEF Consistent, TypeOK, LockRow, Looping
<1>1. p \in Products /\ p \in Locks /\ line[t] \in DOMAIN call[t].lines
  BY <1>0, LineType
<1>2. /\ Take(t, {p}) /\ Goto(t, "write") /\ read' = [read EXCEPT ![t] = Seen(t, p)]
      /\ Seen(t, p) # None /\ UNCHANGED <<line, written>>
  BY DEF LockRow
<1>3. /\ holder' \in [Locks -> Sessions \cup {None}]
      /\ holder'[p] = t
      /\ \A r \in Locks : holder[r] = t => holder'[r] = t
      /\ \A u \in Sessions \ {t}, r \in Locks : (holder[r] = u) <=> (holder'[r] = u)
  <2>1. \A r \in {p} : Free(t, r)
    BY DEF LockRow
  <2>. QED BY <1>0, <1>1, <1>2, <2>1, Takes
<1>4. Seen(t, p) \in Int
  BY <1>0, <1>1, <1>2 DEF Seen, TablesType, SessionsType
<1>5. SessionsType'
  BY <1>0, <1>2, <1>3, <1>4 DEF SessionsType, Goto, written, Points
<1>6. /\ pc'[t] = "write" /\ read'[t] = Seen(t, p)
      /\ UNCHANGED <<call, tables, line, draft, posted, taken, outcome>>
  BY <1>0, <1>2 DEF Goto, SessionsType, written
<1>7. Row(t)' = p /\ Seen(t, p)' = Seen(t, p)
  BY <1>6 DEF Row, Line, Seen, tables
<1>8. SessionOK(t)'
  <2>1. OnCourse(t)' /\ Unlocked(t)' /\ Counting(t)'
    BY <1>0, <1>6 DEF SessionOK, OnCourse, Unlocked, Counting, Looping
  <2>2. Booked(t)'
    BY <1>0, <1>3, <1>6 DEF SessionOK, Booked, tables, Locks
  <2>3. Fresh(t)'
    BY <1>2, <1>3, <1>6, <1>7 DEF Fresh
  <2>4. Granted(t)'
    BY <1>0, <1>3, <1>6, GrantKept DEF SessionOK, Looping
  <2>5. TakenAsAsked(t)'
    BY <1>0, <1>6 DEF SessionOK, TakenAsAsked, Returning
  <2>. QED BY <2>1, <2>2, <2>3, <2>4, <2>5 DEF SessionOK
<1>9. AtLine(t)'
  BY <1>1, <1>6 DEF AtLine
<1>. QED BY <1>2, <1>3, <1>5, <1>6, <1>8, <1>9, GoesOn DEF Points, SessionsType

LEMMA FindNoRowOK ==
  ASSUME Consistent, NEW t \in Sessions, FindNoRow(t)
  PROVE  Consistent'
<1>0. SessionOK(t) /\ TypeOK /\ SessionsType /\ pc[t] = "row" /\ pc[t] \in Looping
  BY DEF Consistent, TypeOK, FindNoRow, Looping
<1>1. line[t] \in DOMAIN call[t].lines
  BY <1>0, LineType
<1>2. Goto(t, "create") /\ Seen(t, Row(t)) = None /\ UNCHANGED <<holder, line, read, written>>
  BY DEF FindNoRow
<1>3. /\ pc'[t] = "create"
      /\ UNCHANGED <<call, tables, holder, line, read, draft, posted, taken, outcome>>
  BY <1>0, <1>2 DEF Goto, SessionsType, written
<1>4. SessionsType'
  BY <1>0, <1>2, <1>3 DEF SessionsType, Goto, Points
<1>5. SessionOK(t)'
  <2>1. OnCourse(t)' /\ Unlocked(t)' /\ Counting(t)'
    BY <1>0, <1>3 DEF SessionOK, OnCourse, Unlocked, Counting, Looping
  <2>2. Booked(t)'
    BY <1>0, <1>3 DEF SessionOK, Booked, tables
  <2>3. Fresh(t)'
    BY <1>2, <1>3 DEF Fresh, Seen, Row, Line
  <2>4. Granted(t)'
    BY <1>0, <1>3, GrantKept DEF SessionOK
  <2>5. TakenAsAsked(t)'
    BY <1>0, <1>3 DEF SessionOK, TakenAsAsked, Returning
  <2>. QED BY <2>1, <2>2, <2>3, <2>4, <2>5 DEF SessionOK
<1>6. AtLine(t)'
  BY <1>1, <1>3 DEF AtLine
<1>. QED BY <1>2, <1>3, <1>4, <1>5, <1>6, GoesOn DEF Points

LEMMA CreateRowOK ==
  ASSUME Consistent, NEW t \in Sessions, CreateRow(t)
  PROVE  Consistent'
<1> DEFINE p == Row(t)
<1>0. SessionOK(t) /\ TypeOK /\ SessionsType /\ pc[t] = "create" /\ pc[t] \in Looping
  BY DEF Consistent, TypeOK, CreateRow, Looping
<1>1. p \in Products /\ p \in Locks /\ line[t] \in DOMAIN call[t].lines
  BY <1>0, LineType
<1>2. /\ Take(t, {p}) /\ Goto(t, "write") /\ read' = [read EXCEPT ![t] = 0]
      /\ draft' = [draft EXCEPT ![t][p] = 0]
      /\ balance[p] = None /\ UNCHANGED <<line, posted, taken>>
  BY DEF CreateRow
<1>3. /\ holder' \in [Locks -> Sessions \cup {None}]
      /\ holder'[p] = t
      /\ \A r \in Locks : holder[r] = t => holder'[r] = t
      /\ \A u \in Sessions \ {t}, r \in Locks : (holder[r] = u) <=> (holder'[r] = u)
  <2>1. \A r \in {p} : Free(t, r)
    BY DEF CreateRow
  <2>. QED BY <1>0, <1>1, <1>2, <2>1, Takes
<1>4. /\ draft' \in [Sessions -> [Products -> Int \cup {None}]]
      /\ draft'[t][p] = 0 /\ \A q \in Products \ {p} : draft'[t][q] = draft[t][q]
      /\ \A u \in Sessions \ {t} : draft'[u] = draft[u]
  BY <1>0, <1>1, <1>2 DEF SessionsType
<1>5. SessionsType'
  BY <1>0, <1>2, <1>3, <1>4 DEF SessionsType, Goto, Points
<1>6. /\ pc'[t] = "write" /\ read'[t] = 0
      /\ \A u \in Sessions \ {t} : read'[u] = read[u]
      /\ UNCHANGED <<call, tables, line, posted, taken, outcome>>
  BY <1>0, <1>2 DEF Goto, SessionsType
<1>7. Row(t)' = p /\ Seen(t, p)' = 0
  BY <1>4, <1>6, NoneIsNobody DEF Row, Line, Seen
<1>8. SessionOK(t)'
  <2>1. OnCourse(t)' /\ Unlocked(t)' /\ Counting(t)'
    BY <1>0, <1>6 DEF SessionOK, OnCourse, Unlocked, Counting, Looping
  <2>2. Booked(t)'
    <3> SUFFICES ASSUME NEW q \in Products
                 PROVE  IF draft'[t][q] = None THEN posted'[t][q] = 0
                        ELSE /\ holder'[q] = t
                             /\ draft'[t][q] = Quantity(balance'[q]) + posted'[t][q]
                             /\ draft'[t][q] >= 0
      BY DEF Booked, Quantity
    <3>1. CASE q = p
      <4>1. posted[t][p] = 0
        BY <1>0, <1>1 DEF SessionOK, Fresh, Booked
      <4>. QED BY <3>1, <4>1, <1>2, <1>3, <1>4, <1>6, NoneIsNobody DEF Quantity, tables
    <3>2. CASE q # p
      BY <3>2, <1>0, <1>3, <1>4, <1>6 DEF SessionOK, Booked, tables, Locks
    <3>. QED BY <3>1, <3>2
  <2>3. Fresh(t)'
    BY <1>3, <1>6, <1>7, NoneIsNobody DEF Fresh
  <2>4. Granted(t)'
    BY <1>0, <1>3, <1>6, GrantKept DEF SessionOK
  <2>5. TakenAsAsked(t)'
    BY <1>0, <1>6 DEF SessionOK, TakenAsAsked, Returning
  <2>. QED BY <2>1, <2>2, <2>3, <2>4, <2>5 DEF SessionOK
<1>9. AtLine(t)'
  BY <1>1, <1>6 DEF AtLine
<1>. QED BY <1>2, <1>3, <1>4, <1>5, <1>6, <1>8, <1>9, GoesOn DEF Points

LEMMA RowTakenOK ==
  ASSUME Consistent, NEW t \in Sessions, RowTaken(t)
  PROVE  Consistent'
<1>0. SessionOK(t) /\ TypeOK /\ SessionsType /\ pc[t] = "create" /\ pc[t] \in Looping
  BY DEF Consistent, TypeOK, RowTaken, Looping
<1>1. line[t] \in DOMAIN call[t].lines /\ call[t].op \in {"adjust", "receive", "return"}
  BY <1>0, LineType DEF SessionOK, OnCourse
<1>2. CASE ~Recovers(call[t])
  BY <1>2, AbortOK DEF RowTaken, Outcomes
<1>3. CASE Recovers(call[t])
  <2>1. Goto(t, "row") /\ UNCHANGED <<holder, line, read, written>>
    BY <1>3 DEF RowTaken
  <2>2. /\ pc'[t] = "row"
        /\ UNCHANGED <<call, tables, holder, line, read, draft, posted, taken, outcome>>
    BY <1>0, <2>1 DEF Goto, SessionsType, written
  <2>3. SessionsType'
    BY <1>0, <2>1, <2>2 DEF SessionsType, Goto, Points
  <2>4. SessionOK(t)'
    <3>1. OnCourse(t)' /\ Unlocked(t)' /\ Counting(t)' /\ Fresh(t)'
      BY <1>0, <2>2 DEF SessionOK, OnCourse, Unlocked, Counting, Looping, Fresh
    <3>2. Booked(t)'
      BY <1>0, <2>2 DEF SessionOK, Booked, tables
    <3>3. Granted(t)'
      BY <1>0, <2>2, GrantKept DEF SessionOK
    <3>4. TakenAsAsked(t)'
      BY <1>0, <2>2 DEF SessionOK, TakenAsAsked, Returning
    <3>. QED BY <3>1, <3>2, <3>3, <3>4 DEF SessionOK
  <2>5. AtLine(t)'
    BY <1>1, <2>2 DEF AtLine
  <2>. QED BY <2>1, <2>2, <2>3, <2>4, <2>5, GoesOn DEF Points
<1>. QED BY <1>2, <1>3

\* The quantity of a line a return or a delivery brings is not negative.
LEMMA BringsMore ==
  ASSUME TypeOK, NEW t \in Sessions, Granted(t), pc[t] \in Looping,
         call[t].op \in {"receive", "return"}
  PROVE  Line(t).quantity > 0
<1>1. line[t] \in DOMAIN call[t].lines /\ call[t] \in Calls
  BY LineType DEF TypeOK, SessionsType
<1>2. CASE call[t].op = "receive"
  BY <1>1, <1>2, CallAssumption DEF Line
<1>3. CASE call[t].op = "return"
  <2>1. Refundable(call[t])
    BY <1>3 DEF Granted, Returning, Looping
  <2>. QED BY <1>1, <2>1 DEF Refundable, Line
<1>. QED BY <1>2, <1>3

\* Before it writes a line a return has not yet taken its item back.
LEMMA NotTakenYet ==
  ASSUME TypeOK, NEW t \in Sessions, TakenAsAsked(t), pc[t] \in Looping,
         NEW i \in Items, i = Line(t).item
  PROVE  call[t].op = "return" /\ taken[t][i] = 0
<1>1. line[t] \in DOMAIN call[t].lines /\ line[t] \in Int /\ call[t] \in Calls
      /\ DOMAIN call[t].lines = 1 .. Len(call[t].lines)
  BY LineType, CallLines DEF TypeOK, SessionsType
<1>2. i # None
  BY NoneAssumption
<1>3. call[t].op = "return"
  BY <1>1, <1>2, CallAssumption DEF Line
<1>4. ASSUME taken[t][i] # 0 PROVE FALSE
  <2>1. PICK n \in DOMAIN call[t].lines : call[t].lines[n].item = i /\ n < line[t]
    BY <1>4 DEF TakenAsAsked, Looping
  <2>2. n = line[t]
    BY <1>1, <1>3, <2>1, CallAssumption DEF Line
  <2>. QED BY <1>1, <2>1, <2>2
<1>. QED BY <1>3, <1>4

LEMMA WriteRowOK ==
  ASSUME Consistent, NEW t \in Sessions, WriteRow(t)
  PROVE  Consistent'
<1> DEFINE p == Row(t)
           q == Line(t).quantity
           i == Line(t).item
           after == read[t] + q
<1>0. /\ SessionOK(t) /\ TypeOK /\ SessionsType /\ TablesType
      /\ pc[t] = "write" /\ pc[t] \in Looping
  BY DEF Consistent, TypeOK, WriteRow, Looping
<1>1. /\ p \in Products /\ p \in Locks /\ q \in Int /\ i \in Items \cup {None}
      /\ line[t] \in 1 .. Len(call[t].lines) /\ line[t] \in DOMAIN call[t].lines
      /\ Len(call[t].lines) \in Nat /\ DOMAIN call[t].lines = 1 .. Len(call[t].lines)
      /\ call[t] \in Calls /\ read[t] \in Int
  BY <1>0, LineType, CallLines DEF SessionsType
<1>2. CASE Overdraws(call[t], after)
  BY <1>2, AbortOK DEF WriteRow, Outcomes
<1>3. CASE ~Overdraws(call[t], after)
  <2>1. /\ draft' = [draft EXCEPT ![t][p] = after]
        /\ posted' = [posted EXCEPT ![t][p] = @ + q]
        /\ taken' = IF i = None THEN taken ELSE [taken EXCEPT ![t][i] = @ + q]
        /\ line' = [line EXCEPT ![t] = IF AtLast(t) THEN @ ELSE @ + 1]
        /\ Goto(t, IF AtLast(t) THEN "commit" ELSE "row")
        /\ UNCHANGED <<holder, read>>
    BY <1>3 DEF WriteRow
  <2>2. /\ draft' \in [Sessions -> [Products -> Int \cup {None}]]
        /\ draft'[t][p] = after /\ \A r \in Products \ {p} : draft'[t][r] = draft[t][r]
        /\ \A u \in Sessions \ {t} : draft'[u] = draft[u]
    BY <1>0, <1>1, <2>1 DEF SessionsType
  <2>3. /\ posted' \in [Sessions -> [Products -> Int]]
        /\ posted'[t][p] = posted[t][p] + q
        /\ \A r \in Products \ {p} : posted'[t][r] = posted[t][r]
        /\ \A u \in Sessions \ {t} : posted'[u] = posted[u]
    BY <1>0, <1>1, <2>1 DEF SessionsType
  <2>4. /\ taken' \in [Sessions -> [Items -> Int]]
        /\ \A j \in Items : taken'[t][j] = IF j = i THEN taken[t][j] + q ELSE taken[t][j]
        /\ \A u \in Sessions \ {t} : taken'[u] = taken[u]
    <3>1. CASE i = None
      BY <3>1, <1>0, <2>1, NoneAssumption DEF SessionsType
    <3>2. CASE i \in Items
      BY <3>2, <1>0, <1>1, <2>1, NoneAssumption DEF SessionsType
    <3>. QED BY <1>1, <3>1, <3>2
  <2>5. /\ line' \in [Sessions -> Nat \ {0}]
        /\ line'[t] = IF AtLast(t) THEN line[t] ELSE line[t] + 1
        /\ \A u \in Sessions \ {t} : line'[u] = line[u]
    BY <1>0, <2>1 DEF SessionsType
  <2>6. /\ pc'[t] = IF AtLast(t) THEN "commit" ELSE "row"
        /\ UNCHANGED <<call, tables, holder, read, outcome>>
    BY <1>0, <2>1 DEF Goto, SessionsType
  <2>7. SessionsType'
    BY <1>0, <2>1, <2>2, <2>3, <2>4, <2>5, <2>6 DEF SessionsType, Goto, Points
  <2>8. /\ holder[p] = t /\ Seen(t, p) # None /\ read[t] = Seen(t, p)
        /\ call[t].op \in {"adjust", "receive", "return"}
    BY <1>0 DEF SessionOK, Fresh, OnCourse
  <2>9. read[t] = Quantity(balance[p]) + posted[t][p] /\ read[t] >= 0
    <3>1. posted[t][p] \in Int /\ (balance[p] # None => balance[p] \in Int /\ balance[p] >= 0)
      BY <1>0, <1>1 DEF TablesType, SessionsType, Consistent, ShelvesNotNegative
    <3>2. CASE draft[t][p] = None
      BY <3>1, <3>2, <1>0, <1>1, <2>8 DEF SessionOK, Booked, Seen, Quantity
    <3>3. CASE draft[t][p] # None
      BY <3>3, <1>0, <1>1, <2>8 DEF SessionOK, Booked, Seen
    <3>. QED BY <3>2, <3>3
  <2>10. after >= 0
    <3>1. CASE call[t].op = "adjust"
      BY <3>1, <1>3, <1>1 DEF Overdraws
    <3>2. CASE call[t].op \in {"receive", "return"}
      <4>1. q > 0
        BY <3>2, <1>0, BringsMore DEF SessionOK
      <4>. QED BY <4>1, <1>1, <2>9
    <3>. QED BY <2>8, <3>1, <3>2
  <2>11. Booked(t)'
    <3> SUFFICES ASSUME NEW r \in Products
                 PROVE  IF draft'[t][r] = None THEN posted'[t][r] = 0
                        ELSE /\ holder'[r] = t
                             /\ draft'[t][r] = Quantity(balance'[r]) + posted'[t][r]
                             /\ draft'[t][r] >= 0
      BY DEF Booked, Quantity
    <3>1. CASE r = p
      <4>1. Quantity(balance[p]) \in Int /\ posted[t][p] \in Int
        BY <1>0, <1>1 DEF TablesType, SessionsType, Quantity
      <4>. QED BY <3>1, <4>1, <1>1, <2>2, <2>3, <2>6, <2>8, <2>9, <2>10, NoneIsNobody DEF tables
    <3>2. CASE r # p
      BY <3>2, <1>0, <2>2, <2>3, <2>6 DEF SessionOK, Booked, tables
    <3>. QED BY <3>1, <3>2
  <2>12. TakenAsAsked(t)'
    <3> SUFFICES ASSUME NEW j \in Items, taken'[t][j] # 0
                 PROVE  /\ Returning(t)'
                        /\ \E n \in DOMAIN call'[t].lines :
                             /\ call'[t].lines[n].item = j
                             /\ taken'[t][j] = call'[t].lines[n].quantity
                             /\ n < line'[t] \/ pc'[t] = "commit"
      BY DEF TakenAsAsked
    <3>1. CASE j = i
      <4>1. call[t].op = "return" /\ taken[t][j] = 0
        BY <3>1, <1>0, NotTakenYet DEF SessionOK
      <4>2. taken'[t][j] = call[t].lines[line[t]].quantity /\ call[t].lines[line[t]].item = j
        BY <3>1, <4>1, <1>1, <2>4 DEF Line
      <4>3. line[t] < line'[t] \/ pc'[t] = "commit"
        BY <1>1, <2>5, <2>6
      <4>4. Returning(t)'
        BY <4>1, <2>6 DEF Returning
      <4>. QED BY <4>2, <4>3, <4>4, <1>1, <2>6
    <3>2. CASE j # i
      <4>1. taken[t][j] # 0 /\ taken'[t][j] = taken[t][j]
        BY <3>2, <2>4
      <4>2. Returning(t)
        BY <4>1, <1>0 DEF SessionOK, TakenAsAsked
      <4>3. PICK n \in DOMAIN call[t].lines :
              /\ call[t].lines[n].item = j /\ taken[t][j] = call[t].lines[n].quantity
              /\ n < line[t]
        BY <4>1, <1>0 DEF SessionOK, TakenAsAsked
      <4>4. n < line'[t]
        BY <4>3, <1>1, <2>5
      <4>5. Returning(t)'
        BY <4>2, <2>6 DEF Returning
      <4>. QED BY <4>1, <4>3, <4>4, <4>5, <2>6
    <3>. QED BY <3>1, <3>2
  <2>13. OnCourse(t)' /\ Unlocked(t)' /\ Counting(t)' /\ Fresh(t)'
    BY <1>0, <2>6, <2>8 DEF SessionOK, OnCourse, Unlocked, Counting, Looping, Fresh
  <2>14. Granted(t)'
    BY <1>0, <2>6, GrantKept DEF SessionOK
  <2>15. SessionOK(t)'
    BY <2>11, <2>12, <2>13, <2>14 DEF SessionOK
  <2>16. AtLine(t)'
    BY <1>1, <2>5, <2>6 DEF AtLine, AtLast
  <2>. QED BY <2>1, <2>2, <2>3, <2>4, <2>5, <2>6, <2>7, <2>15, <2>16, GoesOn DEF Points
<1>. QED BY <1>2, <1>3

LEMMA LookForShiftOK ==
  ASSUME Consistent, NEW t \in Sessions, LookForShift(t)
  PROVE  Consistent'
<1>0. /\ SessionOK(t) /\ TypeOK /\ SessionsType /\ TablesType /\ pc[t] = "look"
      /\ call[t].op = "open" /\ Len(shifts) \in Nat /\ DOMAIN shifts = 1 .. Len(shifts)
  BY DEF Consistent, TypeOK, TablesType, LookForShift, SessionOK, OnCourse
<1>1. CASE HasOpenShift
  BY <1>1, AbortOK DEF LookForShift, Outcomes
<1>2. CASE ~HasOpenShift
  <2>1. read' = [read EXCEPT ![t] = Len(shifts)] /\ Goto(t, "commit") /\ UNCHANGED <<holder, line, written>>
    BY <1>2 DEF LookForShift
  <2>2. /\ pc'[t] = "commit" /\ read'[t] = Len(shifts)
        /\ \A u \in Sessions \ {t} : read'[u] = read[u]
        /\ UNCHANGED <<call, tables, holder, line, draft, posted, taken, outcome>>
    BY <1>0, <2>1 DEF Goto, SessionsType, written
  <2>3. SessionsType'
    BY <1>0, <2>1, <2>2 DEF SessionsType, Goto, Points
  <2>4. OnCourse(t)' /\ Unlocked(t)' /\ Booked(t)' /\ Fresh(t)' /\ Granted(t)'
    BY <1>0, <2>2 DEF SessionOK, OnCourse, Unlocked, Booked, Fresh, Granted, Returning, Looping, tables
  <2>5. TakenAsAsked(t)'
    BY <1>0, <2>2 DEF SessionOK, TakenAsAsked, Returning
  <2>6. Counting(t)'
    BY <1>0, <1>2, <2>2 DEF Counting, HasOpenShift, tables
  <2>7. AtLine(t)'
    BY <2>2 DEF AtLine
  <2>. QED BY <2>1, <2>2, <2>3, <2>4, <2>5, <2>6, <2>7, GoesOn DEF Points, SessionOK
<1>. QED BY <1>1, <1>2

LEMMA LockShiftOK ==
  ASSUME Consistent, NEW t \in Sessions, LockShift(t)
  PROVE  Consistent'
<1>0. /\ SessionOK(t) /\ TypeOK /\ SessionsType /\ pc[t] = "shift" /\ call[t].op = "close"
  BY DEF Consistent, TypeOK, LockShift, SessionOK, OnCourse
<1>1. CASE ~shifts[1].open
  BY <1>1, AbortOK DEF LockShift, Outcomes
<1>2. CASE shifts[1].open
  <2>1. Take(t, {Shift}) /\ Goto(t, "commit") /\ UNCHANGED <<line, read, written>>
    BY <1>2 DEF LockShift, ShiftRow
  <2>2. /\ holder' \in [Locks -> Sessions \cup {None}]
        /\ holder'[Shift] = t
        /\ \A u \in Sessions \ {t}, r \in Locks : (holder[r] = u) <=> (holder'[r] = u)
    <3>1. {Shift} \subseteq Locks /\ \A r \in {Shift} : Free(t, r)
      BY DEF LockShift, ShiftRow, Locks
    <3>. QED BY <1>0, <2>1, <3>1, Takes
  <2>3. /\ pc'[t] = "commit"
        /\ UNCHANGED <<call, tables, line, read, draft, posted, taken, outcome>>
    BY <1>0, <2>1 DEF Goto, SessionsType, written
  <2>4. SessionsType'
    BY <1>0, <2>1, <2>2, <2>3 DEF SessionsType, Goto, Points
  <2>5. \A p \in Products : draft[t][p] = None /\ posted[t][p] = 0
    BY <1>0 DEF SessionOK, Booked, Unlocked, Locks
  <2>6. OnCourse(t)' /\ Unlocked(t)' /\ Booked(t)' /\ Fresh(t)' /\ Granted(t)'
    BY <1>0, <2>3, <2>5 DEF SessionOK, OnCourse, Unlocked, Booked, Fresh, Granted, Returning, Looping
  <2>7. TakenAsAsked(t)'
    BY <1>0, <2>3 DEF SessionOK, TakenAsAsked, Returning
  <2>8. Counting(t)'
    BY <1>0, <1>2, <2>2, <2>3 DEF Counting, tables
  <2>9. AtLine(t)'
    BY <2>3 DEF AtLine
  <2>. QED BY <2>1, <2>2, <2>3, <2>4, <2>6, <2>7, <2>8, <2>9, GoesOn DEF Points, SessionOK
<1>. QED BY <1>1, <1>2

-----------------------------------------------------------------------------
(* COMMIT puts what the session has written into the tables.               *)

\* What t takes back fits the sale it has locked.
LEMMA TakesBack ==
  ASSUME Consistent, NEW t \in Sessions, NEW i \in Items
  PROVE  /\ returned[i] + taken[t][i] \in 0 .. Sold[i].quantity
         /\ taken[t][i] # 0 => holder[Sold[i].sale] = t
<1>0. /\ SessionOK(t) /\ call[t] \in Calls /\ taken[t][i] \in Int
      /\ returned[i] \in 0 .. Sold[i].quantity /\ Sold[i].quantity \in Nat
  BY SoldRow DEF Consistent, TypeOK, SessionsType, ReturnsWithinSale
<1>1. CASE taken[t][i] = 0
  BY <1>0, <1>1
<1>2. CASE taken[t][i] # 0
  <2>1. Returning(t)
    BY <1>0, <1>2 DEF SessionOK, TakenAsAsked
  <2>2. PICK n \in DOMAIN call[t].lines :
          call[t].lines[n].item = i /\ taken[t][i] = call[t].lines[n].quantity
    BY <1>0, <1>2 DEF SessionOK, TakenAsAsked
  <2>3. holder[call[t].sale] = t /\ Refundable(call[t])
    BY <1>0, <2>1 DEF SessionOK, Granted
  <2>. QED BY <1>0, <2>2, <2>3 DEF Refundable
<1>. QED BY <1>1, <1>2

\* The shifts t leaves: no count is replaced, and another open one means that
\* every one t has read was closed.
ShiftsKept == \A s \in DOMAIN shifts : ~shifts[s].open => shifts'[s] = shifts[s]
RacedOnly(t) ==
  Len(shifts') > Len(shifts) => \A s \in 1 .. read[t] : ~shifts[s].open

LEMMA ShiftsCommitted ==
  ASSUME Consistent, NEW t \in Sessions, Commit(t)
  PROVE  /\ shifts' \in Seq(Shifts) /\ shifts' # <<>>
         /\ \A s \in DOMAIN shifts' : shifts'[s].open <=> shifts'[s].closing = None
         /\ \A s \in 1 .. Len(shifts) : ~shifts[s].open => shifts'[s] = shifts[s]
         /\ Len(shifts) <= Len(shifts')
         /\ holder[Shift] # t => shifts'[1] = shifts[1]
         /\ ShiftsKept /\ RacedOnly(t)
<1>0. /\ SessionOK(t) /\ call[t] \in Calls /\ pc[t] = "commit"
      /\ shifts \in Seq(Shifts) /\ shifts # <<>>
      /\ \A s \in DOMAIN shifts : shifts[s].open <=> shifts[s].closing = None
      /\ Len(shifts) \in Nat /\ DOMAIN shifts = 1 .. Len(shifts) /\ 1 \in 1 .. Len(shifts)
  BY DEF Consistent, TypeOK, TablesType, SessionsType, Commit
<1>1. shifts' = CASE call[t].op = "open" -> Append(shifts, [open |-> TRUE, closing |-> None])
                  [] call[t].op = "close" -> [shifts EXCEPT ![1] = [open |-> FALSE, closing |-> call[t].cash]]
                  [] OTHER -> shifts
  BY DEF Commit
<1>2. CASE call[t].op = "open"
  <2> DEFINE new == [open |-> TRUE, closing |-> None]
  <2>1. shifts' = Append(shifts, new) /\ new \in Shifts /\ new.open /\ new.closing = None
    BY <1>1, <1>2 DEF Shifts
  <2>2. /\ Len(shifts') = Len(shifts) + 1 /\ shifts' \in Seq(Shifts) /\ shifts' # <<>>
        /\ DOMAIN shifts' = 1 .. Len(shifts) + 1
        /\ shifts'[Len(shifts) + 1] = new
        /\ \A s \in 1 .. Len(shifts) : shifts'[s] = shifts[s]
    <3> HIDE DEF new
    <3>. QED BY <1>0, <2>1
  <2>3. \A s \in DOMAIN shifts' : shifts'[s].open <=> shifts'[s].closing = None
    <3> SUFFICES ASSUME NEW s \in DOMAIN shifts' PROVE shifts'[s].open <=> shifts'[s].closing = None
      OBVIOUS
    <3>1. CASE s = Len(shifts) + 1
      BY <3>1, <2>1, <2>2
    <3>2. CASE s \in 1 .. Len(shifts)
      BY <3>2, <1>0, <2>2
    <3>. QED BY <3>1, <3>2, <1>0, <2>2
  <2>4. RacedOnly(t)
    BY <1>0, <1>2 DEF SessionOK, Counting, RacedOnly
  <2>. QED BY <1>0, <2>2, <2>3, <2>4 DEF ShiftsKept
<1>3. CASE call[t].op = "close"
  <2> DEFINE new == [open |-> FALSE, closing |-> call[t].cash]
  <2>1. call[t].cash \in Nat /\ None \notin Nat
    BY <1>0, <1>3, CallAssumption, NoneAssumption
  <2>2. shifts' = [shifts EXCEPT ![1] = new] /\ new \in Shifts /\ ~new.open /\ new.closing # None
    BY <1>1, <1>3, <2>1 DEF Shifts
  <2>3. holder[Shift] = t /\ shifts[1].open
    BY <1>0, <1>3 DEF SessionOK, Counting
  <2>4. /\ Len(shifts') = Len(shifts) /\ shifts' \in Seq(Shifts) /\ shifts' # <<>>
        /\ DOMAIN shifts' = 1 .. Len(shifts) /\ shifts'[1] = new
        /\ \A s \in 1 .. Len(shifts) : s # 1 => shifts'[s] = shifts[s]
    <3> HIDE DEF new
    <3>. QED BY <1>0, <2>2
  <2>5. \A s \in DOMAIN shifts' : shifts'[s].open <=> shifts'[s].closing = None
    <3> SUFFICES ASSUME NEW s \in DOMAIN shifts' PROVE shifts'[s].open <=> shifts'[s].closing = None
      OBVIOUS
    <3>1. CASE s = 1
      BY <3>1, <2>2, <2>4
    <3>2. CASE s # 1
      BY <3>2, <1>0, <2>4
    <3>. QED BY <3>1, <3>2
  <2>. QED BY <1>0, <2>3, <2>4, <2>5 DEF ShiftsKept, RacedOnly
<1>4. CASE call[t].op \notin {"open", "close"}
  <2>1. shifts' = shifts
    BY <1>1, <1>4
  <2>. QED BY <1>0, <2>1 DEF ShiftsKept, RacedOnly
<1>. QED BY <1>2, <1>3, <1>4

LEMMA CommitOK ==
  ASSUME Consistent, NEW t \in Sessions, Commit(t)
  PROVE  Consistent'
<1>0. /\ SessionOK(t) /\ TypeOK /\ SessionsType /\ TablesType /\ End(t, "done")
      /\ t # None
  BY NoneIsNobody DEF Consistent, TypeOK, Commit
<1>1. /\ balance' = [p \in Products |-> Seen(t, p)]
      /\ moved' = [p \in Products |-> moved[p] + posted[t][p]]
      /\ returned' = [i \in Items |-> returned[i] + taken[t][i]]
  BY DEF Commit
<1>2. \A p \in Products :
        /\ draft[t][p] \in Int \cup {None} /\ posted[t][p] \in Int
        /\ balance[p] \in Int \cup {None} /\ moved[p] \in Int
        /\ IF draft[t][p] = None
           THEN posted[t][p] = 0 /\ balance'[p] = balance[p]
           ELSE /\ holder[p] = t /\ draft[t][p] >= 0
                /\ balance'[p] = draft[t][p]
                /\ draft[t][p] = Quantity(balance[p]) + posted[t][p]
  BY <1>0, <1>1 DEF TablesType, SessionsType, SessionOK, Booked, Seen
<1>3. SessionsType' /\ SessionOK(t)' /\ AtLine(t)'
  BY <1>0, Ends, EndedOK DEF Outcomes
<1>4. TablesType'
  <2>1. balance' \in [Products -> Int \cup {None}] /\ moved' \in [Products -> Int]
    BY <1>1, <1>2 DEF Seen
  <2>2. returned' \in [Items -> Int]
    BY <1>0, <1>1 DEF TablesType, SessionsType
  <2>. QED BY <2>1, <2>2, ShiftsCommitted DEF TablesType
<1>5. \A u \in Sessions \ {t} : Undisturbed(u)
  <2> SUFFICES ASSUME NEW u \in Sessions \ {t} PROVE Undisturbed(u)
    OBVIOUS
  <2>1. /\ pc'[u] = pc[u] /\ call'[u] = call[u] /\ line'[u] = line[u] /\ read'[u] = read[u]
        /\ draft'[u] = draft[u] /\ posted'[u] = posted[u] /\ taken'[u] = taken[u]
        /\ outcome'[u] = outcome[u]
        /\ \A r \in Locks : (holder[r] = u) <=> (holder'[r] = u)
    BY <1>0, Ends DEF Outcomes
  <2>2. \A p \in Products : holder[p] = u => balance'[p] = balance[p]
    BY <1>2
  <2>3. ASSUME NEW i \in Items, holder[Sold[i].sale] = u PROVE returned'[i] = returned[i]
    <3>1. taken[t][i] = 0 /\ returned[i] \in Int
      BY <2>3, TakesBack, <1>0 DEF TablesType
    <3>. QED BY <3>1, <1>1
  <2>4. /\ holder[Shift] = u => shifts'[1] = shifts[1]
        /\ Len(shifts) <= Len(shifts')
        /\ \A s \in 1 .. Len(shifts) : ~shifts[s].open => shifts'[s] = shifts[s]
    BY ShiftsCommitted
  <2>. QED BY <2>1, <2>2, <2>3, <2>4 DEF Undisturbed
<1>6. TypeOK'
  <2>1. \A u \in Sessions : AtLine(u)'
    BY <1>3, <1>5 DEF Consistent, TypeOK, AtLine, Undisturbed
  <2>. QED BY <1>3, <1>4, <2>1 DEF TypeOK
<1>7. \A u \in Sessions : SessionOK(u)'
  BY <1>3, <1>5, <1>6, UndisturbedOK DEF Consistent
<1>8. StockIsItsMovements' /\ ShelvesNotNegative'
  <2> SUFFICES ASSUME NEW p \in Products
               PROVE  /\ IF balance'[p] = None THEN Opening[p] = None /\ moved'[p] = 0
                         ELSE balance'[p] = (IF Opening[p] = None THEN 0 ELSE Opening[p]) + moved'[p]
                      /\ balance'[p] # None => balance'[p] >= 0
    BY DEF StockIsItsMovements, ShelvesNotNegative
  <2>1. /\ IF balance[p] = None THEN Opening[p] = None /\ moved[p] = 0
           ELSE balance[p] = (IF Opening[p] = None THEN 0 ELSE Opening[p]) + moved[p]
        /\ balance[p] # None => balance[p] >= 0
    BY DEF Consistent, StockIsItsMovements, ShelvesNotNegative
  <2>2. Opening[p] \in Int \cup {None} /\ moved'[p] = moved[p] + posted[t][p]
    BY <1>1, OpeningAssumption
  <2>. QED BY <1>2, <2>1, <2>2, NoneIsNobody DEF Quantity
<1>9. ReturnsWithinSale'
  BY <1>1, TakesBack DEF ReturnsWithinSale
<1>. QED BY <1>6, <1>7, <1>8, <1>9 DEF Consistent

-----------------------------------------------------------------------------
(* The invariant, and what each step does to the shifts.                   *)

StepOK ==
  /\ Consistent'
  /\ ShiftsKept
  /\ \A t \in Sessions : pc[t] = "commit" /\ pc'[t] = "done" => RacedOnly(t)

LEMMA TablesUnchanged ==
  ASSUME Consistent, NEW t \in Sessions, Step(t) \/ Crash(t)
  PROVE  UNCHANGED shifts \/ Commit(t)
BY DEF Step, Crash, Abort, Goto, tables, LockSale, LockRow, FindNoRow, CreateRow, RowTaken, WriteRow,
       LookForShift, LockShift, DeadlockVictim

LEMMA NextOK == Consistent /\ [Next]_vars => StepOK
<1> SUFFICES ASSUME Consistent, [Next]_vars PROVE StepOK
  OBVIOUS
<1>0. Len(shifts) \in Nat
  BY DEF Consistent, TypeOK, TablesType
<1>1. CASE UNCHANGED vars
  <2>0. UNCHANGED <<balance, moved, returned, shifts, holder, pc, call, line, read, draft, posted, taken, outcome>>
    BY <1>1 DEF vars, tables, written
  <2>1. TypeOK'
    BY <2>0 DEF Consistent, TypeOK, TablesType, SessionsType, AtLine
  <2>2. \A t \in Sessions : SessionOK(t)'
    BY <1>0, <2>0, <2>1, UndisturbedOK DEF Consistent, Undisturbed
  <2>3. (StockIsItsMovements /\ ShelvesNotNegative /\ ReturnsWithinSale)'
    BY <2>0 DEF Consistent, StockIsItsMovements, ShelvesNotNegative, ReturnsWithinSale
  <2>. QED BY <1>0, <2>0, <2>1, <2>2, <2>3 DEF Consistent, StepOK, ShiftsKept, RacedOnly
<1>2. ASSUME NEW t \in Sessions, Step(t) \/ Crash(t) PROVE StepOK
  <2>1. Consistent'
    <3>1. CASE LockSale(t)
      BY <3>1, LockSaleOK
    <3>2. CASE LockRow(t)
      BY <3>2, LockRowOK
    <3>3. CASE FindNoRow(t)
      BY <3>3, FindNoRowOK
    <3>4. CASE CreateRow(t)
      BY <3>4, CreateRowOK
    <3>5. CASE RowTaken(t)
      BY <3>5, RowTakenOK
    <3>6. CASE WriteRow(t)
      BY <3>6, WriteRowOK
    <3>7. CASE LookForShift(t)
      BY <3>7, LookForShiftOK
    <3>8. CASE LockShift(t)
      BY <3>8, LockShiftOK
    <3>9. CASE Commit(t)
      BY <3>9, CommitOK
    <3>10. CASE DeadlockVictim(t)
      BY <3>10, AbortOK DEF DeadlockVictim, Outcomes
    <3>11. CASE Crash(t)
      BY <3>11, AbortOK DEF Crash, Outcomes
    <3>. QED BY <1>2, <3>1, <3>2, <3>3, <3>4, <3>5, <3>6, <3>7, <3>8, <3>9, <3>10, <3>11 DEF Step
  <2>2. ShiftsKept /\ RacedOnly(t)
    BY <1>0, <1>2, TablesUnchanged, ShiftsCommitted DEF ShiftsKept, RacedOnly
  <2>3. \A u \in Sessions \ {t} : pc'[u] = pc[u]
    BY <1>2 DEF Step, Crash, Abort, Goto, End, Consistent, TypeOK, SessionsType,
       LockSale, LockRow, FindNoRow, CreateRow, RowTaken, WriteRow,
       LookForShift, LockShift, Commit, DeadlockVictim
  <2>. QED BY <2>1, <2>2, <2>3 DEF StepOK
<1>. QED BY <1>1, <1>2 DEF Next

-----------------------------------------------------------------------------
(* The theorems.                                                           *)

\* What a session has read, locked and written is still good when it commits,
\* whatever the others do meanwhile: the invariant the theorems below rest on.
THEOREM ConsistencyInvariant == Spec => []Consistent
<1>1. Consistent /\ [Next]_vars => Consistent'
  BY NextOK DEF StepOK
<1>. QED BY <1>1, InitConsistent, PTL DEF Spec

\* Rows have the columns of models.py, and a session is at a line of its call.
THEOREM TypeCorrect == Spec => []TypeOK
<1>1. Consistent => TypeOK
  BY DEF Consistent
<1>. QED BY <1>1, ConsistencyInvariant, PTL

\* However adjustments, returns and deliveries interleave, fail or die, every
\* balance is what it opened with plus its movements.
THEOREM NoUpdateLost == Spec => []StockIsItsMovements
<1>1. Consistent => StockIsItsMovements
  BY DEF Consistent
<1>. QED BY <1>1, ConsistencyInvariant, PTL

\* No interleaving of write-offs makes a balance negative.
THEOREM NothingOverdrawn == Spec => []ShelvesNotNegative
<1>1. Consistent => ShelvesNotNegative
  BY DEF Consistent
<1>. QED BY <1>1, ConsistencyInvariant, PTL

\* Returns of one item, at once or one after another, take back no more than
\* was sold.
THEOREM ReturnsFitSale == Spec => []ReturnsWithinSale
<1>1. Consistent => ReturnsWithinSale
  BY DEF Consistent
<1>. QED BY <1>1, ConsistencyInvariant, PTL

\* Nobody waits for a session without locks, and a return with locks has the
\* location; so of returns only, no two wait for each other.
LEMMA ReturnsInLine == Consistent => ReturnsNeverCircle
<1> SUFFICES ASSUME Consistent, NEW D \in SUBSET Sessions, Circle(D),
                    \A t \in D : call[t].op = "return"
             PROVE  FALSE
  BY DEF ReturnsNeverCircle
<1>1. ASSUME NEW t \in D, NEW u \in D, WaitsFor(t, u)
      PROVE  u # t /\ holder[Location] = u
  <2>1. PICK r \in Wants(t) : holder[r] = u /\ u # t
    BY <1>1 DEF WaitsFor
  <2>2. r \in Locks
    <3>1. call[t] \in Calls /\ call[t].sale \in Sales
      BY CallAssumption DEF Consistent, TypeOK, SessionsType
    <3>2. pc[t] \in Looping => Row(t) \in Locks
      BY LineType DEF Consistent
    <3>. QED BY <2>1, <3>1, <3>2 DEF Wants, SaleRows, KeyShares, Locks, Looping
  <2>3. u \in Sessions /\ SessionOK(u) /\ call[u].op = "return"
    BY DEF Consistent
  <2>4. pc[u] \notin {"sale", "done"}
    BY <2>1, <2>2, <2>3 DEF SessionOK, Unlocked
  <2>. QED BY <2>1, <2>3, <2>4 DEF SessionOK, Granted, Returning
<1>2. PICK t \in D : TRUE
  BY DEF Circle, Closed
<1>3. PICK u \in D : WaitsFor(t, u)
  BY DEF Circle, Closed
<1>4. PICK v \in D : WaitsFor(u, v)
  BY DEF Circle, Closed
<1>. QED BY <1>1, <1>3, <1>4

\* Returns never wait for each other in a circle, in whatever order their
\* requests name the goods.
THEOREM ReturnsNeverDeadlock == Spec => []ReturnsNeverCircle
BY ReturnsInLine, ConsistencyInvariant, PTL

\* A drawer is counted once.
THEOREM CountStands == Spec => CountedOnce
<1>1. Consistent /\ [Next]_vars =>
        [\A s \in DOMAIN shifts : ~shifts[s].open => shifts'[s] = shifts[s]]_vars
  BY NextOK DEF StepOK, ShiftsKept
<1>. QED BY <1>1, ConsistencyInvariant, PTL DEF Spec, CountedOnce

\* A second shift is open only if the requests overlapped: every shift that
\* was there when its caller looked was closed.
THEOREM SecondShiftRaced == Spec => SecondShiftByRaceOnly
<1>1. Consistent /\ [Next]_vars =>
        [\A t \in Sessions : pc[t] = "commit" /\ pc'[t] = "done" /\ Len(shifts') > Len(shifts) =>
           \A s \in 1 .. read[t] : ~shifts[s].open]_vars
  BY NextOK DEF StepOK, RacedOnly
<1>. QED BY <1>1, ConsistencyInvariant, PTL DEF Spec, SecondShiftByRaceOnly
==============================================================================
