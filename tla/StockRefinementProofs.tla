------------------------ MODULE StockRefinementProofs ------------------------
(***************************************************************************)
(* The sessions of StockSessions implement the handlers of ShopLedger, for *)
(* any sessions, calls, products, sales and opening stock.                 *)
(***************************************************************************)
EXTENDS StockRefinement, StockSessionsProofs, FiniteSums

-----------------------------------------------------------------------------
(* What a session has done of its request, line by line.                   *)

\* What the lines of a request bring to a product.
Moving(c) == c.op \in {"adjust", "receive", "return"}
Named(c, p) == \E n \in DOMAIN c.lines : c.lines[n].product = p
Parts(c, p) == [n \in DOMAIN c.lines |-> IF c.lines[n].product = p THEN c.lines[n].quantity ELSE 0]
Brings(c, p, lines) == SumFunctionOnSet(Parts(c, p), lines)

\* What a session has written is what the lines it has done bring.
LinesDone(t) == IF pc[t] = "commit" THEN DOMAIN call[t].lines ELSE 1 .. line[t] - 1
Progressing(t) ==
  IF Moving(call[t])
  THEN pc[t] \in Looping \cup {"commit"} =>
         /\ \A p \in Products : /\ posted[t][p] = Brings(call[t], p, LinesDone(t))
                                /\ draft[t][p] # None => Named(call[t], p)
         /\ \A n \in LinesDone(t) :
              LET row == call[t].lines[n] IN
              /\ draft[t][row.product] # None
              /\ row.item # None => taken[t][row.item] = row.quantity
  ELSE \A p \in Products : draft[t][p] = None

\* There is one shift, and no more than one for every session that has ended.
Ended == {t \in Sessions : pc[t] = "done"}
FewShifts == Len(shifts) <= Cardinality(Ended) + 1

Tracked == /\ Consistent /\ FewShifts
           /\ \A t \in Sessions : Progressing(t)

LEMMA PartsInt ==
  ASSUME NEW c \in Calls, NEW p
  PROVE  /\ IsFiniteSet(DOMAIN c.lines)
         /\ \A n \in DOMAIN c.lines : Parts(c, p)[n] \in Int
<1>1. IsFiniteSet(DOMAIN c.lines)
  BY CallLines, FS_Interval
<1>. QED BY <1>1, CallLines DEF Parts

LEMMA BringsNothing ==
  ASSUME NEW c, NEW p
  PROVE  Brings(c, p, {}) = 0
BY SumEmpty DEF Brings

\* One line more.
LEMMA BringsNext ==
  ASSUME NEW c \in Calls, NEW n \in DOMAIN c.lines, NEW p
  PROVE  /\ Brings(c, p, 1 .. n - 1) \in Int
         /\ Brings(c, p, 1 .. n) =
              Brings(c, p, 1 .. n - 1) + (IF c.lines[n].product = p THEN c.lines[n].quantity ELSE 0)
<1> DEFINE S == 1 .. n - 1
           f == Parts(c, p)
<1>1. /\ n \in Nat /\ 1 .. n = S \cup {n} /\ n \notin S /\ S \cup {n} \subseteq DOMAIN c.lines
      /\ \A m \in DOMAIN c.lines : c.lines[m].quantity \in Int
  BY CallLines
<1>2. IsFiniteSet(S)
  BY <1>1, FS_Interval
<1>3. f[n] = IF c.lines[n].product = p THEN c.lines[n].quantity ELSE 0
  BY DEF Parts
<1>4. \A m \in S \cup {n} : f[m] \in Int
  BY <1>1, PartsInt
<1> HIDE DEF S, f
<1>5. SumFunctionOnSet(f, S) \in Int /\ f[n] \in Int
  BY <1>2, <1>4, SumType
<1>6. SumFunctionOnSet(f, S \cup {n}) = f[n] + SumFunctionOnSet(f, S)
  BY <1>1, <1>2, <1>4, SumAdding
<1>7. SumFunctionOnSet(f, S \cup {n}) = SumFunctionOnSet(f, S) + f[n]
  BY <1>5, <1>6
<1>. QED BY <1>1, <1>3, <1>5, <1>7 DEF Brings, S, f

\* The lines that name a product bring it all.
LEMMA BringsNamed ==
  ASSUME NEW c \in Calls, NEW p, NEW g, NEW N \in SUBSET DOMAIN c.lines,
         \A n \in DOMAIN c.lines : n \in N <=> c.lines[n].product = p,
         \A n \in N : g[n] = c.lines[n].quantity
  PROVE  Brings(c, p, DOMAIN c.lines) = SumFunctionOnSet(g, N)
<1> DEFINE D == DOMAIN c.lines
           f == Parts(c, p)
           M == D \ N
<1>1. IsFiniteSet(D) /\ \A n \in D : f[n] \in Int
  BY PartsInt
<1>2. (\A n \in N : f[n] = g[n]) /\ (\A n \in M : f[n] = 0)
  BY DEF Parts
<1>3. N \subseteq D /\ M \subseteq D /\ N \cup M = D /\ N \cap M = {}
  OBVIOUS
<1> HIDE DEF D, f, M
<1>4. IsFiniteSet(N) /\ IsFiniteSet(M)
  BY <1>1, <1>3, FS_Subset
<1>5. SumFunctionOnSet(f, N \cup M) = SumFunctionOnSet(f, N) + SumFunctionOnSet(f, M)
  BY <1>1, <1>3, <1>4, SumUnion
<1>6. SumFunctionOnSet(f, M) = 0
  BY <1>2, <1>4, SumZero
<1>7. SumFunctionOnSet(f, N) = SumFunctionOnSet(g, N)
  BY <1>1, <1>2, <1>3, <1>4, SumAgrees
<1>8. SumFunctionOnSet(f, N) \in Int
  BY <1>1, <1>3, <1>4, SumType
<1>9. SumFunctionOnSet(f, D) = SumFunctionOnSet(f, N) + SumFunctionOnSet(f, M)
  BY <1>3, <1>5, Zenon
<1>10. SumFunctionOnSet(f, D) = SumFunctionOnSet(g, N)
  BY <1>6, <1>7, <1>8, <1>9
<1>. QED BY <1>10 DEF Brings, f, D

\* Where one line names a product, that line.
LEMMA BringsOne ==
  ASSUME NEW c \in Calls, NEW n \in DOMAIN c.lines, NEW p, p = c.lines[n].product,
         \A m \in DOMAIN c.lines : c.lines[m].product = p => m = n
  PROVE  Brings(c, p, DOMAIN c.lines) = c.lines[n].quantity
<1>1. PICK N : N = {n}
  OBVIOUS
<1>2. N \in SUBSET DOMAIN c.lines /\ \A m \in DOMAIN c.lines : m \in N <=> c.lines[m].product = p
  BY <1>1
<1>3. PICK g : g = [m \in N |-> c.lines[n].quantity]
  OBVIOUS
<1>4. g[n] = c.lines[n].quantity /\ g[n] \in Int /\ \A m \in N : g[m] = c.lines[m].quantity
  BY <1>1, <1>3, CallLines
<1>5. Brings(c, p, DOMAIN c.lines) = SumFunctionOnSet(g, N)
  BY <1>2, <1>4, BringsNamed
<1>. QED BY <1>1, <1>4, <1>5, SumSingle

\* A session that only moves on.
LEMMA GoesOnProgressing ==
  ASSUME SessionsType, NEW t \in Sessions, Progressing(t), NEW next \in Points, Goto(t, next),
         UNCHANGED <<line, written>>,
         Moving(call[t]) => pc[t] \in {"row", "create", "write"} /\ next \in {"row", "create", "write"}
  PROVE  Progressing(t)'
<1>1. pc'[t] = next /\ call' = call /\ line' = line /\ draft' = draft /\ posted' = posted /\ taken' = taken
  BY DEF Goto, SessionsType, written
<1>2. Moving(call[t]) => LinesDone(t)' = LinesDone(t)
  BY <1>1 DEF LinesDone
<1>. QED BY <1>1, <1>2 DEF Progressing, Looping

\* What no session did shows in the others.
LEMMA OthersStand ==
  ASSUME SessionsType, NEW t \in Sessions, Step(t) \/ Crash(t), NEW u \in Sessions \ {t}
  PROVE  /\ pc'[u] = pc[u] /\ call' = call /\ line'[u] = line[u]
         /\ draft'[u] = draft[u] /\ posted'[u] = posted[u] /\ taken'[u] = taken[u]
BY DEF SessionsType, Step, Crash, Abort, Goto, End, written,
       LockSale, LockRow, FindNoRow, CreateRow, RowTaken, WriteRow,
       LookForShift, LockShift, Commit, DeadlockVictim

LEMMA StandingProgresses ==
  ASSUME NEW u \in Sessions, Progressing(u),
         /\ pc'[u] = pc[u] /\ call' = call /\ line'[u] = line[u]
         /\ draft'[u] = draft[u] /\ posted'[u] = posted[u] /\ taken'[u] = taken[u]
  PROVE  Progressing(u)'
<1>1. LinesDone(u)' = LinesDone(u)
  BY DEF LinesDone
<1>. QED BY <1>1 DEF Progressing

\* Whoever ends has nothing under way.
LEMMA EndedProgresses ==
  ASSUME SessionsType, NEW t \in Sessions, NEW how, End(t, how)
  PROVE  Progressing(t)' /\ pc'[t] = "done"
<1>1. pc'[t] = "done" /\ \A p \in Products : draft'[t][p] = None
  BY DEF End, SessionsType
<1>. QED BY <1>1 DEF Progressing, Looping

\* A return has done no line when it starts.
LEMMA SaleProgresses ==
  ASSUME Consistent, NEW t \in Sessions, Progressing(t), LockSale(t)
  PROVE  Progressing(t)'
<1>1. CASE Abort(t, "refused")
  BY <1>1, EndedProgresses DEF Abort, Consistent, TypeOK
<1>2. CASE Goto(t, "row") /\ UNCHANGED <<line, read, written>>
  <2>1. /\ pc'[t] = "row" /\ call' = call /\ line'[t] = 1
        /\ draft' = draft /\ posted' = posted /\ taken' = taken
    BY <1>2 DEF Goto, LockSale, written, Consistent, TypeOK, SessionsType, SessionOK, OnCourse
  <2>2. \A p \in Products : draft[t][p] = None /\ posted[t][p] = 0
    BY DEF LockSale, Consistent, SessionOK, Unlocked, Booked, Locks
  <2>3. LinesDone(t)' = {}
    BY <2>1 DEF LinesDone
  <2>. QED BY <2>1, <2>2, <2>3, BringsNothing DEF Progressing
<1>. QED BY <1>1, <1>2 DEF LockSale

LEMMA CreateProgresses ==
  ASSUME Consistent, NEW t \in Sessions, Progressing(t), CreateRow(t)
  PROVE  Progressing(t)'
<1> DEFINE r == Row(t)
<1>0. Moving(call[t])
  BY DEF CreateRow, Consistent, SessionOK, OnCourse, Looping, Moving
<1>1. /\ pc[t] = "create" /\ r \in Products /\ Named(call[t], r)
  BY LineType DEF CreateRow, Consistent, Looping, Named, Row, Line
<1>2. /\ pc'[t] = "write" /\ call' = call /\ line' = line /\ posted' = posted /\ taken' = taken
      /\ \A p \in Products : draft'[t][p] = IF p = r THEN 0 ELSE draft[t][p]
  BY DEF CreateRow, Goto, Consistent, TypeOK, SessionsType
<1>3. LinesDone(t)' = LinesDone(t)
  BY <1>1, <1>2 DEF LinesDone
<1>4. LinesDone(t) \subseteq DOMAIN call[t].lines
  BY <1>1, LineType, CallLines DEF LinesDone, Looping, Consistent, TypeOK, SessionsType
<1>5. \A n \in LinesDone(t) : call[t].lines[n].product \in Products
  BY <1>4, CallLines DEF Consistent, TypeOK, SessionsType
<1> HIDE DEF r
<1>. QED BY <1>0, <1>1, <1>2, <1>3, <1>5, NoneIsNobody DEF Progressing, Looping

\* The line is done.
LEMMA WriteProgresses ==
  ASSUME Consistent, NEW t \in Sessions, Progressing(t), WriteRow(t)
  PROVE  Progressing(t)'
<1> DEFINE c == call[t]
           k == line[t]
           r == Row(t)
           i == Line(t).item
           q == Line(t).quantity
<1>0. pc[t] = "write" /\ Moving(c) /\ SessionsType /\ c \in Calls /\ TypeOK
  BY DEF WriteRow, Consistent, TypeOK, SessionsType, SessionOK, OnCourse, Looping, Moving
<1>1. CASE Abort(t, "refused")
  BY <1>0, <1>1, EndedProgresses DEF Abort
<1>2. CASE /\ draft' = [draft EXCEPT ![t][r] = read[t] + q]
           /\ posted' = [posted EXCEPT ![t][r] = @ + q]
           /\ taken' = IF i = None THEN taken ELSE [taken EXCEPT ![t][i] = @ + q]
           /\ Goto(t, IF AtLast(t) THEN "commit" ELSE "row")
           /\ line' = [line EXCEPT ![t] = IF AtLast(t) THEN @ ELSE @ + 1]
  <2>1. /\ k \in DOMAIN c.lines /\ k \in Nat /\ k >= 1 /\ r \in Products /\ q \in Int
        /\ r = c.lines[k].product /\ q = c.lines[k].quantity /\ i = c.lines[k].item
        /\ i \in Items \cup {None} /\ read[t] + q \in Int
        /\ DOMAIN c.lines = 1 .. Len(c.lines) /\ Len(c.lines) \in Nat
    <3>1. /\ k \in DOMAIN c.lines /\ k \in 1 .. Len(c.lines) /\ r \in Products /\ q \in Int
          /\ i \in Items \cup {None}
      BY <1>0, LineType DEF Looping
    <3>2. DOMAIN c.lines = 1 .. Len(c.lines) /\ Len(c.lines) \in Nat
      BY <1>0, CallLines
    <3>3. read[t] \in Int
      BY <1>0 DEF SessionsType
    <3>. QED BY <3>1, <3>2, <3>3 DEF Row, Line
  <2>2. /\ pc'[t] = (IF AtLast(t) THEN "commit" ELSE "row") /\ call' = call
        /\ line'[t] = (IF AtLast(t) THEN k ELSE k + 1)
    BY <1>0, <1>2 DEF Goto, SessionsType
  <2>3. LinesDone(t)' = 1 .. k
    BY <2>1, <2>2 DEF LinesDone, AtLast
  <2>4. LinesDone(t) = 1 .. k - 1
    BY <1>0 DEF LinesDone
  <2>5. \A p \in Products : posted'[t][p] = posted[t][p] + (IF p = r THEN q ELSE 0)
    BY <1>0, <1>2, <2>1 DEF SessionsType
  <2>6. \A p \in Products : posted'[t][p] = Brings(c, p, 1 .. k)
    <3> SUFFICES ASSUME NEW p \in Products PROVE posted'[t][p] = Brings(c, p, 1 .. k)
      OBVIOUS
    <3>1. posted[t][p] = Brings(c, p, 1 .. k - 1)
      BY <1>0, <2>4 DEF Progressing, Looping
    <3>. QED BY <1>0, <2>1, <2>5, <3>1, BringsNext
  <2>7. \A p \in Products : draft'[t][p] = IF p = r THEN read[t] + q ELSE draft[t][p]
    BY <1>0, <1>2 DEF SessionsType
  <2>8. read[t] + q # None
    BY <2>1, NoneIsNobody
  <2>9. \A p \in Products : draft'[t][p] # None => Named(c, p)
    BY <1>0, <2>1, <2>7 DEF Progressing, Looping, Named
  <2>10. ASSUME NEW n \in 1 .. k
         PROVE  /\ draft'[t][c.lines[n].product] # None
                /\ c.lines[n].item # None => taken'[t][c.lines[n].item] = c.lines[n].quantity
    <3>0. n \in DOMAIN c.lines /\ c.lines[n].product \in Products /\ c.lines[n].item \in Items \cup {None}
      BY <1>0, <2>1, CallLines
    <3>1. CASE n = k
      <4>1. i # None => i \in Items /\ taken[t][i] = 0
        BY <1>0, <2>1, NotTakenYet DEF Looping, Consistent, SessionOK
      <4>2. i # None => taken'[t][i] = q
        BY <1>0, <1>2, <2>1, <4>1 DEF SessionsType
      <4>. QED BY <2>1, <2>7, <2>8, <3>1, <4>2
    <3>2. CASE n # k
      <4>1. n \in LinesDone(t)
        BY <2>1, <2>4, <3>2
      <4>2. /\ draft[t][c.lines[n].product] # None
            /\ c.lines[n].item # None => taken[t][c.lines[n].item] = c.lines[n].quantity
        BY <1>0, <4>1 DEF Progressing, Looping
      <4>3. c.lines[n].item # None => c.lines[n].item # i
        <5>1. c.lines[n].item # None => c.op = "return"
          BY <1>0, <3>0, CallAssumption
        <5>. QED BY <1>0, <2>1, <3>0, <3>2, <5>1, CallAssumption
      <4>4. c.lines[n].item # None => taken'[t][c.lines[n].item] = taken[t][c.lines[n].item]
        BY <1>0, <1>2, <3>0, <4>3 DEF SessionsType
      <4>. QED BY <2>7, <2>8, <3>0, <4>2, <4>4
    <3>. QED BY <3>1, <3>2
  <2> HIDE DEF r, i, q
  <2>. QED BY <1>0, <2>2, <2>3, <2>6, <2>9, <2>10 DEF Progressing
<1>. QED BY <1>1, <1>2 DEF WriteRow

LEMMA StepProgresses ==
  ASSUME Consistent, NEW t \in Sessions, Progressing(t), Step(t) \/ Crash(t)
  PROVE  Progressing(t)'
<1>0. SessionsType /\ SessionOK(t) /\ TypeOK
  BY DEF Consistent, TypeOK
<1>1. ASSUME NEW how, Abort(t, how) PROVE Progressing(t)'
  BY <1>0, <1>1, EndedProgresses DEF Abort
<1>2. CASE LockSale(t)
  BY <1>2, SaleProgresses
<1>3. CASE LockRow(t) \/ FindNoRow(t)
  BY <1>0, <1>3, GoesOnProgressing DEF LockRow, FindNoRow, Points, written
<1>4. CASE CreateRow(t)
  BY <1>4, CreateProgresses
<1>5. CASE RowTaken(t)
  BY <1>0, <1>1, <1>5, GoesOnProgressing DEF RowTaken, Points, written
<1>6. CASE WriteRow(t)
  BY <1>6, WriteProgresses
<1>7. CASE LookForShift(t)
  <2>1. ~Moving(call[t])
    BY <1>0, <1>7 DEF LookForShift, SessionOK, OnCourse, Moving
  <2>. QED BY <1>0, <1>1, <1>7, <2>1, GoesOnProgressing DEF LookForShift, Points, written
<1>8. CASE LockShift(t)
  <2>1. ~Moving(call[t])
    BY <1>0, <1>8 DEF LockShift, SessionOK, OnCourse, Moving
  <2>. QED BY <1>0, <1>1, <1>8, <2>1, GoesOnProgressing DEF LockShift, Points, written
<1>9. CASE Commit(t)
  BY <1>0, <1>9, EndedProgresses DEF Commit
<1>10. CASE DeadlockVictim(t) \/ Crash(t)
  BY <1>1, <1>10 DEF DeadlockVictim, Crash
<1>. QED BY <1>2, <1>3, <1>4, <1>5, <1>6, <1>7, <1>8, <1>9, <1>10 DEF Step

\* One more session has ended when one commits, and then there may be one more
\* shift.
LEMMA StepFewShifts ==
  ASSUME Consistent, FewShifts, NEW t \in Sessions, Step(t) \/ Crash(t)
  PROVE  FewShifts'
<1>0. SessionsType /\ Len(shifts) \in Nat
  BY DEF Consistent, TypeOK, TablesType
<1>1. Ended \subseteq Sessions /\ Ended' \subseteq Sessions
  BY DEF Ended
<1>2. /\ IsFiniteSet(Ended) /\ IsFiniteSet(Ended')
      /\ Cardinality(Ended) \in Nat /\ Cardinality(Ended') \in Nat
  BY <1>1, SessionsAssumption, FS_Subset, FS_CardinalityType
<1>3. CASE Commit(t)
  <2>1. t \notin Ended
    BY <1>3 DEF Commit, Ended
  <2>2. pc'[t] = "done" /\ \A u \in Sessions \ {t} : pc'[u] = pc[u]
    BY <1>0, <1>3 DEF Commit, End, SessionsType
  <2>3. Ended' = Ended \cup {t}
    BY <2>2 DEF Ended
  <2>4. Cardinality(Ended \cup {t}) = Cardinality(Ended) + 1
    BY <1>2, <2>1, FS_AddElement
  <2>5. Len(shifts') <= Len(shifts) + 1
    BY <1>0, <1>3 DEF Commit, Consistent, TypeOK, TablesType
  <2>6. Len(shifts') \in Nat /\ Cardinality(Ended') = Cardinality(Ended) + 1
    <3>1. shifts' \in Seq(Shifts)
      BY <1>3, CommitOK DEF Consistent, TypeOK, TablesType
    <3>2. Cardinality(Ended') = Cardinality(Ended \cup {t})
      BY <2>3
    <3>. QED BY <2>4, <3>1, <3>2
  <2>. QED BY <1>0, <1>2, <2>5, <2>6 DEF FewShifts
<1>4. CASE ~Commit(t)
  <2>1. shifts' = shifts
    BY <1>4, TablesUnchanged
  <2>2. pc[t] = "done" => pc'[t] = "done"
    BY <1>0 DEF SessionsType, Step, Crash, Abort, End, LockSale, LockRow, FindNoRow, CreateRow, RowTaken,
       WriteRow, LookForShift, LockShift, Commit, DeadlockVictim
  <2>3. Ended \subseteq Ended'
    BY <1>0, <2>2, OthersStand DEF Ended
  <2>4. Cardinality(Ended) <= Cardinality(Ended')
    BY <1>2, <2>3, FS_Subset
  <2>. QED BY <1>0, <1>2, <2>1, <2>4 DEF FewShifts
<1>. QED BY <1>3, <1>4

LEMMA NextTracked == Tracked /\ [Next]_vars => Tracked'
<1> SUFFICES ASSUME Tracked, [Next]_vars PROVE Tracked'
  OBVIOUS
<1>0. Consistent'
  BY NextOK DEF Tracked, StepOK
<1>1. CASE UNCHANGED vars
  <2>0. UNCHANGED <<shifts, pc, call, line, draft, posted, taken>>
    BY <1>1 DEF vars, tables, written
  <2>1. \A t \in Sessions : Progressing(t)'
    BY <2>0, StandingProgresses DEF Tracked
  <2>2. FewShifts'
    BY <2>0 DEF Tracked, FewShifts, Ended
  <2>. QED BY <1>0, <2>1, <2>2 DEF Tracked
<1>2. ASSUME NEW t \in Sessions, Step(t) \/ Crash(t) PROVE Tracked'
  <2>1. FewShifts'
    BY <1>2, StepFewShifts DEF Tracked
  <2>2. ASSUME NEW u \in Sessions \ {t} PROVE Progressing(u)'
    <3>1. SessionsType
      BY DEF Tracked, Consistent, TypeOK
    <3>2. /\ pc'[u] = pc[u] /\ call' = call /\ line'[u] = line[u]
          /\ draft'[u] = draft[u] /\ posted'[u] = posted[u] /\ taken'[u] = taken[u]
      BY <1>2, <3>1, OthersStand
    <3>. QED BY <3>2, StandingProgresses DEF Tracked
  <2>3. Progressing(t)'
    BY <1>2, StepProgresses DEF Tracked
  <2>. QED BY <1>0, <2>1, <2>2, <2>3 DEF Tracked
<1>. QED BY <1>1, <1>2 DEF Next

LEMMA InitTracked == Init => Tracked
<1> SUFFICES ASSUME Init PROVE Tracked
  OBVIOUS
<1>1. FewShifts
  <2>1. Len(shifts) = 1
    BY DEF Init
  <2>2. IsFiniteSet(Ended)
    BY SessionsAssumption, FS_Subset DEF Ended
  <2>3. Cardinality(Ended) \in Nat
    BY <2>2, FS_CardinalityType
  <2>. QED BY <2>1, <2>3 DEF FewShifts
<1>2. ASSUME NEW t \in Sessions PROVE Progressing(t)
  <2>1. /\ line[t] = 1 /\ pc[t] # "commit"
        /\ \A p \in Products : draft[t][p] = None /\ posted[t][p] = 0
    BY CallAssumption DEF Init, First, Operations
  <2>2. LinesDone(t) = {}
    BY <2>1 DEF LinesDone
  <2>. QED BY <2>1, <2>2, BringsNothing DEF Progressing
<1>. QED BY <1>1, <1>2, InitConsistent DEF Tracked

-----------------------------------------------------------------------------
(* A commit is a step of ShopLedger.                                       *)

\* What a commit leaves, by the lines of the request.
LEMMA Committed ==
  ASSUME Tracked, NEW t \in Sessions, Commit(t), Moving(call[t])
  PROVE  LET c == call[t] IN
         /\ \A p \in Products :
              IF Named(c, p)
              THEN /\ balance'[p] = Quantity(balance[p]) + Brings(c, p, DOMAIN c.lines)
                   /\ moved'[p] = moved[p] + Brings(c, p, DOMAIN c.lines)
                   /\ balance'[p] \in Nat
              ELSE balance'[p] = balance[p] /\ moved'[p] = moved[p]
         /\ \A p \in Products : Brings(c, p, DOMAIN c.lines) \in Int
         /\ \A n \in DOMAIN c.lines :
              c.lines[n].item # None =>
                taken[t][c.lines[n].item] = c.lines[n].quantity
<1> DEFINE c == call[t]
<1>0. TypeOK /\ SessionsType /\ SessionOK(t) /\ c \in Calls /\ pc[t] = "commit" /\ LinesDone(t) = DOMAIN c.lines
  BY DEF Tracked, Consistent, TypeOK, SessionsType, Commit, LinesDone
<1>1. /\ \A p \in Products : /\ posted[t][p] = Brings(c, p, DOMAIN c.lines)
                             /\ draft[t][p] # None => Named(c, p)
      /\ \A n \in DOMAIN c.lines :
           /\ draft[t][c.lines[n].product] # None
           /\ c.lines[n].item # None => taken[t][c.lines[n].item] = c.lines[n].quantity
  BY <1>0 DEF Tracked, Progressing
<1>2. \A p \in Products : draft[t][p] # None <=> Named(c, p)
  BY <1>1 DEF Named
<1>3. \A p \in Products : balance'[p] = Seen(t, p) /\ moved'[p] = moved[p] + posted[t][p]
  BY DEF Commit
<1>4. \A p \in Products : IF draft[t][p] = None THEN posted[t][p] = 0
        ELSE draft[t][p] = Quantity(balance[p]) + posted[t][p] /\ draft[t][p] >= 0
  BY <1>0 DEF SessionOK, Booked
<1>5. \A p \in Products :
        draft[t][p] \in Int \cup {None} /\ posted[t][p] \in Int /\ moved[p] \in Int
  BY <1>0 DEF TypeOK, TablesType, SessionsType
<1>. HIDE DEF c
<1>6. \A p \in Products :
        IF Named(c, p)
        THEN /\ balance'[p] = Quantity(balance[p]) + Brings(c, p, DOMAIN c.lines)
             /\ moved'[p] = moved[p] + Brings(c, p, DOMAIN c.lines)
             /\ balance'[p] \in Nat
        ELSE balance'[p] = balance[p] /\ moved'[p] = moved[p]
  BY <1>1, <1>2, <1>3, <1>4, <1>5 DEF Seen
<1>. QED BY <1>1, <1>5, <1>6 DEF c

\* What a commit of another kind leaves.
LEMMA CommittedStill ==
  ASSUME Tracked, NEW t \in Sessions, Commit(t), ~Moving(call[t])
  PROVE  UNCHANGED <<balance, moved, returned>>
<1>0. TypeOK /\ SessionsType /\ SessionOK(t) /\ TablesType
  BY DEF Tracked, Consistent, TypeOK
<1>1. \A p \in Products : draft[t][p] = None /\ posted[t][p] = 0
  BY <1>0 DEF Tracked, Progressing, SessionOK, Booked
<1>2. \A i \in Items : taken[t][i] = 0
  BY <1>0 DEF SessionOK, TakenAsAsked, Returning, Moving
<1>3. \A p \in Products : balance'[p] = balance[p] /\ moved'[p] = moved[p]
  BY <1>0, <1>1 DEF Commit, Seen, TablesType
<1>4. \A i \in Items : returned'[i] = returned[i]
  BY <1>0, <1>2 DEF Commit, TablesType
<1>5. balance' \in [Products -> Int \cup {None}] /\ moved' \in [Products -> Int] /\ returned' \in [Items -> Int]
  <2>1. Consistent'
    BY CommitOK DEF Tracked
  <2>. QED BY <2>1 DEF Consistent, TypeOK, TablesType
<1>. QED BY <1>0, <1>3, <1>4, <1>5 DEF TablesType

\* What only a return leaves.
LEMMA TakenBackStill ==
  ASSUME Tracked, NEW t \in Sessions, Commit(t), call[t].op # "return"
  PROVE  returned' = returned
<1>0. SessionOK(t) /\ TablesType
  BY DEF Tracked, Consistent, TypeOK
<1>1. \A i \in Items : taken[t][i] = 0
  BY <1>0 DEF SessionOK, TakenAsAsked, Returning
<1>2. \A i \in Items : returned'[i] = returned[i]
  BY <1>0, <1>1 DEF Commit, TablesType
<1>3. returned' \in [Items -> Int]
  <2>1. Consistent'
    BY CommitOK DEF Tracked
  <2>. QED BY <2>1 DEF Consistent, TypeOK, TablesType
<1>. QED BY <1>0, <1>2, <1>3 DEF TablesType

LEMMA ShiftsStill ==
  ASSUME NEW t \in Sessions, Commit(t), Moving(call[t])
  PROVE  shifts' = shifts
BY DEF Commit, Moving

-----------------------------------------------------------------------------
\* Shifts.
LEMMA Appended ==
  ASSUME NEW R, NEW f \in Seq(R), NEW e \in R
  PROVE  /\ Len(Append(f, e)) = Len(f) + 1 /\ Len(f) \in Nat
         /\ DOMAIN f = 1 .. Len(f) /\ DOMAIN Append(f, e) = 1 .. Len(f) + 1
         /\ Append(f, e) = [n \in 1 .. Len(f) + 1 |-> IF n = Len(f) + 1 THEN e ELSE f[n]]
<1>1. /\ Append(f, e) \in Seq(R) /\ Len(Append(f, e)) = Len(f) + 1 /\ Len(f) \in Nat
      /\ DOMAIN f = 1 .. Len(f) /\ DOMAIN Append(f, e) = 1 .. Len(f) + 1
      /\ Append(f, e)[Len(f) + 1] = e
      /\ \A n \in 1 .. Len(f) : Append(f, e)[n] = f[n]
  OBVIOUS
<1>2. PICK g : g = Append(f, e)
  OBVIOUS
<1>3. g \in [1 .. Len(f) + 1 -> R]
  <2>1. g \in Seq(R) /\ Len(g) = Len(f) + 1
    BY <1>1, <1>2
  <2>2. g \in [1 .. Len(g) -> R]
    BY <2>1, LenProperties
  <2>. QED BY <2>1, <2>2
<1>4. g = [n \in 1 .. Len(f) + 1 |-> g[n]]
  BY <1>3
<1>5. \A n \in 1 .. Len(f) + 1 : g[n] = IF n = Len(f) + 1 THEN e ELSE f[n]
  BY <1>1, <1>2
<1>6. g = [n \in 1 .. Len(f) + 1 |-> IF n = Len(f) + 1 THEN e ELSE f[n]]
  BY <1>4, <1>5
<1>. QED BY <1>1, <1>2, <1>6

Drawer(s) == [user |-> Cashier, location |-> Location, opening |-> 0,
              closing |-> s.closing, open |-> s.open]
DrawersOf(rows) == [n \in DOMAIN rows |-> Drawer(rows[n])]

LEMMA DrawersMapped ==
  ASSUME NEW rows \in Seq(Shifts)
  PROVE  Len(DrawersOf(rows)) = Len(rows) /\ DrawersOf(rows) \in Seq({Drawer(s) : s \in Shifts})
<1> DEFINE R == {Drawer(s) : s \in Shifts}
<1>1. Len(rows) \in Nat /\ DOMAIN rows = 1 .. Len(rows) /\ \A n \in DOMAIN rows : rows[n] \in Shifts
  <2> HIDE DEF Shifts
  <2>. QED OBVIOUS
<1>2. \A n \in DOMAIN rows : Drawer(rows[n]) \in R
  BY <1>1
<1> HIDE DEF R
<1>3. DrawersOf(rows) \in [1 .. Len(rows) -> R]
  BY <1>1, <1>2 DEF DrawersOf
<1>4. DrawersOf(rows) \in Seq(R) /\ Len(DrawersOf(rows)) = Len(rows)
  BY <1>1, <1>3, FunctionIsSeq
<1>. QED BY <1>4 DEF R

LEMMA DrawerAdded ==
  ASSUME NEW rows \in Seq(Shifts), NEW row \in Shifts
  PROVE  DrawersOf(Append(rows, row)) = Append(DrawersOf(rows), Drawer(row))
<1> DEFINE R == {Drawer(s) : s \in Shifts}
           k == Len(rows)
           d == DrawersOf(rows)
<1>1. Drawer(row) \in R
  OBVIOUS
<1>2. d \in Seq(R) /\ Len(d) = k
  BY DrawersMapped
<1> HIDE DEF R, d, k, Shifts
<1>3. Append(d, Drawer(row)) = [n \in 1 .. k + 1 |-> IF n = k + 1 THEN Drawer(row) ELSE d[n]]
  BY <1>1, <1>2, Appended
<1>4. /\ k \in Nat /\ DOMAIN rows = 1 .. k /\ DOMAIN Append(rows, row) = 1 .. k + 1
      /\ Append(rows, row) = [n \in 1 .. k + 1 |-> IF n = k + 1 THEN row ELSE rows[n]]
  BY Appended DEF k
<1>5. ASSUME NEW n \in 1 .. k + 1
      PROVE  Drawer(Append(rows, row)[n]) = IF n = k + 1 THEN Drawer(row) ELSE d[n]
  <2>1. Append(rows, row)[n] = IF n = k + 1 THEN row ELSE rows[n]
    BY <1>4
  <2>2. n # k + 1 => n \in DOMAIN rows
    BY <1>4
  <2>3. n # k + 1 => d[n] = Drawer(rows[n])
    BY <2>2 DEF d, DrawersOf
  <2>. QED BY <2>1, <2>3
<1>6. DrawersOf(Append(rows, row)) = [n \in 1 .. k + 1 |-> Drawer(Append(rows, row)[n])]
  BY <1>4, Zenon DEF DrawersOf
<1>. QED BY <1>3, <1>5, <1>6 DEF d

LEMMA OpenRefines ==
  ASSUME Tracked, Tracked', NEW t \in Sessions, Commit(t), call[t].op = "open"
  PROVE  Shop!Next \/ SecondShift
<1> DEFINE row == [open |-> TRUE, closing |-> None]
           drawer == [user |-> Cashier, location |-> Location, opening |-> 0,
                      closing |-> None, open |-> TRUE]
<1>1. UNCHANGED <<balance, moved, returned>> /\ shifts' = Append(shifts, row)
  BY CommittedStill DEF Moving, Commit
<1>2. CASE HasOpenShift
  BY <1>1, <1>2 DEF SecondShift
<1>3. CASE ~HasOpenShift
  <2>1. shifts \in Seq(Shifts) /\ shifts' \in Seq(Shifts) /\ Len(shifts) \in Nat
    BY DEF Tracked, Consistent, TypeOK, TablesType
  <2>2. row \in Shifts /\ Drawer(row) = drawer
    BY DEF Shifts, Drawer
  <2>3. Drawers = DrawersOf(shifts) /\ Drawers' = DrawersOf(shifts')
    BY DEF Drawers, DrawersOf, Drawer
  <2>4. Len(Drawers) = Len(shifts) /\ Drawers' = Append(Drawers, drawer)
    BY <1>1, <2>1, <2>2, <2>3, DrawersMapped, DrawerAdded
  <2>8. ~Shop!HasOpenShift(Cashier)
    BY <1>3 DEF Shop!HasOpenShift, Drawers, HasOpenShift
  <2>9. Len(Drawers) < Cardinality(Sessions) + 1
    <3>1. Len(shifts) <= Cardinality(Ended) + 1
      BY DEF Tracked, FewShifts
    <3>2. Ended \cup {t} \subseteq Sessions /\ t \notin Ended
      BY DEF Ended, Commit
    <3>3. IsFiniteSet(Ended) /\ Cardinality(Ended \cup {t}) = Cardinality(Ended) + 1
      BY <3>2, SessionsAssumption, FS_Subset, FS_AddElement
    <3>4. Cardinality(Ended \cup {t}) <= Cardinality(Sessions)
      BY <3>2, SessionsAssumption, FS_Subset
    <3>5. Cardinality(Ended) \in Nat /\ Cardinality(Sessions) \in Nat
      BY <3>3, SessionsAssumption, FS_CardinalityType
    <3>. QED BY <2>1, <2>4, <3>1, <3>3, <3>4, <3>5
  <2>10. Shop!OpenShift(Cashier, Location, 0)
    <3>1. Drawers' = Append(Drawers, drawer) /\ Len(Drawers) < Cardinality(Sessions) + 1
      BY <2>4, <2>9
    <3>2. Place(balance)' = Place(balance) /\ Place(moved)' = Place(moved) /\ TakenBack' = TakenBack
      BY <1>1 DEF Place, TakenBack
    <3>. QED BY <2>8, <3>1, <3>2 DEF Shop!OpenShift, Shop!stock, Shop!refunds
  <2>. QED BY <2>10 DEF Shop!Next
<1>. QED BY <1>2, <1>3

LEMMA CloseRefines ==
  ASSUME Tracked, Tracked', NEW t \in Sessions, Commit(t), call[t].op = "close"
  PROVE  Shop!Next
<1> DEFINE cash == call[t].cash
<1>0. SessionOK(t) /\ call[t] \in Calls /\ cash \in Nat
  BY CallAssumption DEF Tracked, Consistent, TypeOK, SessionsType
<1>1. UNCHANGED <<balance, moved, returned>> /\ shifts' = [shifts EXCEPT ![1] = [open |-> FALSE, closing |-> cash]]
  BY CommittedStill DEF Moving, Commit
<1>2. shifts \in Seq(Shifts) /\ shifts # <<>> /\ shifts[1].open
  BY <1>0 DEF Commit, SessionOK, Counting, Tracked, Consistent, TypeOK, TablesType
<1>3. Len(shifts) \in Nat /\ Len(shifts) >= 1 /\ DOMAIN shifts = 1 .. Len(shifts) /\ DOMAIN shifts' = DOMAIN shifts
  BY <1>1, <1>2
<1>4. Shop!OpenShiftOf(Cashier, 1)
  BY <1>2, <1>3 DEF Shop!OpenShiftOf, Drawers
<1>5. Drawers' = [Drawers EXCEPT ![1] = Shop!Closed(@, cash)]
  <2>1. \A s \in DOMAIN shifts : Drawers'[s] = IF s = 1 THEN Shop!Closed(Drawers[1], cash) ELSE Drawers[s]
    BY <1>1, <1>2, <1>3 DEF Drawers, Shop!Closed
  <2>2. DOMAIN Drawers = DOMAIN shifts /\ Drawers' = [s \in DOMAIN shifts |-> Drawers'[s]]
    BY <1>3 DEF Drawers
  <2> HIDE DEF cash
  <2>. QED BY <2>1, <2>2
<1>6. Place(balance)' = Place(balance) /\ Place(moved)' = Place(moved) /\ TakenBack' = TakenBack
  BY <1>1 DEF Place, TakenBack
<1>7. Shop!CloseShift(Cashier, 1, cash)
  BY <1>0, <1>4, <1>5, <1>6 DEF Shop!CloseShift, Shop!stock, Shop!refunds
<1>8. 1 \in 1 .. Cardinality(Sessions) + 1
  BY SessionsAssumption, FS_CardinalityType
<1>9. cash \in {0} \cup {c.cash : c \in Asking("close")}
  BY <1>0 DEF Asking
<1>. QED BY <1>7, <1>8, <1>9 DEF Shop!Next

-----------------------------------------------------------------------------
\* Adjustments, deliveries and returns.

\* Balances fit their column, of max_digits=14 (models.py:13): PostgreSQL fails
\* the statement that would write another.
Within == \A p \in Products : balance[p] # None => balance[p] <= MaxQuantity

LEMMA DrawersStill ==
  ASSUME UNCHANGED shifts
  PROVE  Drawers' = Drawers
BY DEF Drawers

LEMMA PlaceStands ==
  ASSUME NEW p \in Products
  PROVE  /\ <<p, Location>> \in Products \X {Location}
         /\ Place(balance)[<<p, Location>>] = balance[p] /\ Place(balance)'[<<p, Location>>] = balance'[p]
         /\ Place(moved)[<<p, Location>>] = moved[p] /\ Place(moved)'[<<p, Location>>] = moved'[p]
BY DEF Place

LEMMA PlaceChanged ==
  ASSUME NEW f, NEW g, NEW p \in Products, \A x \in Products \ {p} : g[x] = f[x]
  PROVE  Place(g) = [Place(f) EXCEPT ![<<p, Location>>] = g[p]]
<1> DEFINE D == Products \X {Location}
           e == [Place(f) EXCEPT ![<<p, Location>>] = g[p]]
<1>1. \A r \in D : r = <<r[1], Location>> /\ r[1] \in Products
  OBVIOUS
<1>2. \A r \in D : Place(g)[r] = g[r[1]] /\ Place(f)[r] = f[r[1]]
  BY DEF Place
<1>3. \A r \in D : e[r] = IF r = <<p, Location>> THEN g[p] ELSE Place(f)[r]
  BY DEF Place
<1>4. \A r \in D : Place(g)[r] = e[r]
  <2> SUFFICES ASSUME NEW r \in D PROVE Place(g)[r] = e[r]
    OBVIOUS
  <2>1. CASE r = <<p, Location>>
    BY <1>2, <1>3, <2>1
  <2>2. CASE r # <<p, Location>>
    <3>1. r[1] \in Products \ {p}
      BY <1>1, <2>2
    <3>. QED BY <1>2, <1>3, <2>2, <3>1
  <2>. QED BY <2>1, <2>2
<1>5. Place(g) = [r \in D |-> Place(g)[r]] /\ e = [r \in D |-> e[r]]
  BY DEF Place
<1> HIDE DEF D, e
<1>6. Place(g) = e
  BY <1>4, <1>5
<1>. QED BY <1>6 DEF e

\* Whole pieces and whole cents are rounded to themselves.
LEMMA WholeStays ==
  ASSUME NEW n \in Int
  PROVE  Shop!Cents(n) = n /\ Shop!Stored(n) = n
<1>1. n \div 1 = n /\ n % 1 = 0
  OBVIOUS
<1>2. Shop!Quantized(n, 1) = n
  BY <1>1 DEF Shop!Quantized
<1>. QED BY <1>2 DEF Shop!Cents, Shop!Stored

LEMMA AdjustRefines ==
  ASSUME Tracked, Tracked', Within', NEW t \in Sessions, Commit(t), call[t].op = "adjust"
  PROVE  Shop!Next
<1> DEFINE c == call[t]
           p == c.lines[1].product
           q == c.lines[1].quantity
           a == [product |-> p, location |-> Location, delta |-> q, reason |-> "counted"]
           r == <<p, Location>>
           D == Products \X {Location}
<1>0. c \in Calls /\ Moving(c) /\ TablesType
  BY DEF Tracked, Consistent, TypeOK, SessionsType, Moving
<1>1. /\ 1 \in DOMAIN c.lines /\ DOMAIN c.lines = {1}
      /\ p \in Products /\ q \in Int /\ q # 0
  <2>1. Len(c.lines) = 1 /\ q # 0
    BY <1>0, AdjustAssumption
  <2>. QED BY <1>0, <2>1, CallLines
<1>2. Brings(c, p, DOMAIN c.lines) = q /\ \A x \in Products : Named(c, x) <=> x = p
  BY <1>0, <1>1, BringsOne DEF Named
<1>3. /\ balance'[p] = Quantity(balance[p]) + q /\ moved'[p] = moved[p] + q /\ balance'[p] \in Nat
      /\ \A x \in Products \ {p} : balance'[x] = balance[x] /\ moved'[x] = moved[x]
  BY <1>0, <1>1, <1>2, Committed
<1>4. balance'[p] <= MaxQuantity
  BY <1>1, <1>3, NoneIsNobody DEF Within
<1>5. UNCHANGED <<shifts, returned>>
  BY <1>0, ShiftsStill, TakenBackStill
<1>6. Drawers' = Drawers /\ TakenBack' = TakenBack
  BY <1>5, DrawersStill DEF TakenBack
<1>7. /\ DOMAIN Place(balance) = D /\ DOMAIN Place(moved) = D
      /\ Place(balance) = [x \in D |-> balance[x[1]]] /\ Place(balance)' = [x \in D |-> balance'[x[1]]]
      /\ Place(moved) = [x \in D |-> moved[x[1]]] /\ Place(moved)' = [x \in D |-> moved'[x[1]]]
  BY DEF Place
<1>8. r \in D /\ Place(balance)[r] = balance[p] /\ Place(moved)[r] = moved[p]
      /\ \A x \in D : x # r => x[1] \in Products \ {p}
  BY <1>1, PlaceStands
<1>9. Place(balance)' = [Place(balance) EXCEPT ![r] = Quantity(balance[p]) + q]
  <2>1. PICK f, g : f = balance /\ g = balance'
    OBVIOUS
  <2>2. g[p] = Quantity(balance[p]) + q /\ \A x \in Products \ {p} : g[x] = f[x]
    BY <1>1, <1>3, <2>1
  <2>3. p \in Products
    BY <1>1
  <2> HIDE DEF p, q
  <2>4. Place(g) = [Place(f) EXCEPT ![r] = g[p]]
    BY <2>2, <2>3, PlaceChanged
  <2>5. Place(g) = [Place(f) EXCEPT ![r] = Quantity(balance[p]) + q]
    BY <2>2, <2>4, Zenon
  <2>. QED BY <2>1, <2>5 DEF Place
<1>10. Place(moved)' = [Place(moved) EXCEPT ![r] = @ + q]
  <2>1. PICK f, g : f = moved /\ g = moved'
    OBVIOUS
  <2>2. g[p] = moved[p] + q /\ \A x \in Products \ {p} : g[x] = f[x]
    BY <1>1, <1>3, <2>1
  <2>3. p \in Products
    BY <1>1
  <2> HIDE DEF p, q
  <2>4. Place(g) = [Place(f) EXCEPT ![r] = g[p]]
    BY <2>2, <2>3, PlaceChanged
  <2>5. Place(g) = [Place(f) EXCEPT ![r] = moved[p] + q]
    BY <2>2, <2>4, Zenon
  <2>6. Place(moved)' = [Place(moved) EXCEPT ![r] = moved[p] + q]
    BY <2>1, <2>5 DEF Place
  <2>. QED BY <1>8, <2>6
<1>11. Quantity(balance[p]) = IF Place(balance)[r] = None THEN 0 ELSE Place(balance)[r]
  BY <1>8 DEF Quantity
<1>12. Price[p].active
  BY <1>1 DEF Price
<1>13. a.product = p /\ a.location = Location /\ a.delta = q /\ a.reason = "counted"
  OBVIOUS
<1>14. a \in {[product |-> d.lines[1].product, location |-> Location,
               delta |-> d.lines[1].quantity, reason |-> "counted"] : d \in Asking("adjust")}
  BY <1>0 DEF Asking
<1> HIDE DEF a, p, q, r, c, D
<1>15. Quantity(balance[p]) + q >= 0 /\ Quantity(balance[p]) + q <= MaxQuantity
  BY <1>3, <1>4
<1>16. Shop!Stored(Quantity(balance[p]) + q) = Quantity(balance[p]) + q /\ Shop!Stored(q) = q
  <2>1. q \in Int /\ Quantity(balance[p]) \in Int
    BY <1>0, <1>1 DEF Quantity, TablesType
  <2>. QED BY <2>1, WholeStays
<1>17. Shop!AdjustStock(a)
  BY <1>1, <1>6, <1>9, <1>10, <1>11, <1>12, <1>13, <1>15, <1>16 DEF Shop!AdjustStock, Shop!refunds, r
<1>. QED BY <1>14, <1>17 DEF Shop!Next

\* Whole rows are added to.
LEMMA Brought ==
  ASSUME NEW gain, DOMAIN gain \subseteq Products,
         \A p \in Products :
           IF p \in DOMAIN gain
           THEN /\ balance'[p] = Quantity(balance[p]) + gain[p] /\ balance'[p] \in Int
                /\ moved'[p] = moved[p] + gain[p] /\ gain[p] \in Int
           ELSE balance'[p] = balance[p] /\ moved'[p] = moved[p]
  PROVE  Shop!AddTo(Location, gain)
<1> DEFINE D == Products \X {Location}
           rows == {<<p, Location>> : p \in DOMAIN gain}
           sum(x) == (IF Place(balance)[x] = None THEN 0 ELSE Place(balance)[x]) + gain[x[1]]
           e(x) == IF x \notin rows THEN Place(balance)[x] ELSE Shop!Stored(sum(x))
           m(x) == IF x \notin rows THEN Place(moved)[x]
                   ELSE Place(moved)[x] + Shop!Stored(gain[x[1]])
<1>1. \A x \in D : x = <<x[1], Location>> /\ x[1] \in Products
  OBVIOUS
<1>2. \A x \in D : x \in rows <=> x[1] \in DOMAIN gain
  BY <1>1
<1>3. \A x \in D : /\ Place(balance)[x] = balance[x[1]] /\ Place(moved)[x] = moved[x[1]]
                   /\ Place(balance)'[x] = balance'[x[1]] /\ Place(moved)'[x] = moved'[x[1]]
  BY DEF Place
<1>4. \A x \in D : Place(balance)'[x] = e(x) /\ Place(moved)'[x] = m(x)
  <2> HIDE DEF D, rows
  <2>1. ASSUME NEW x \in D, x \in rows
        PROVE  Shop!Stored(sum(x)) = balance'[x[1]] /\ Shop!Stored(gain[x[1]]) = gain[x[1]]
    <3>1. sum(x) = balance'[x[1]] /\ balance'[x[1]] \in Int /\ gain[x[1]] \in Int
      BY <1>1, <1>2, <1>3, <2>1 DEF Quantity
    <3>. QED BY <3>1, WholeStays
  <2>. QED BY <1>1, <1>2, <1>3, <2>1
<1>5. /\ Place(balance)' = [x \in D |-> Place(balance)'[x]]
      /\ Place(moved)' = [x \in D |-> Place(moved)'[x]]
  BY DEF Place
<1>6. Place(balance)' = [x \in D |-> e(x)] /\ Place(moved)' = [x \in D |-> m(x)]
  <2> HIDE DEF D, e, m
  <2>. QED BY <1>4, <1>5
<1>. QED BY <1>6 DEF Shop!AddTo, Shop!Rows

LEMMA ShopSums ==
  ASSUME NEW f
  PROVE  Shop!SumFunction(f) = SumFunctionOnSet(f, DOMAIN f)
BY DEF Shop!SumFunction, Shop!SumFunctionOnSet, Shop!FoldFunctionOnSet, Shop!MapThenFoldSet,
       SumFunctionOnSet, FoldFunctionOnSet, MapThenFoldSet

LEMMA ReceiveRefines ==
  ASSUME Tracked, Tracked', Within', NEW t \in Sessions, Commit(t), call[t].op = "receive"
  PROVE  Shop!Next
<1> DEFINE c == call[t]
           d == [location |-> Location, items |-> Goods(c.lines)]
           products == {d.items[n].product : n \in DOMAIN d.items}
           naming(p) == {n \in DOMAIN d.items : d.items[n].product = p}
           part(p) == [n \in naming(p) |-> d.items[n].quantity]
           gain == [p \in products |-> Shop!SumFunction(part(p))]
<1>0. c \in Calls /\ Moving(c) /\ TablesType
  BY DEF Tracked, Consistent, TypeOK, SessionsType, Moving
<1>1. /\ d.location = Location /\ DOMAIN d.items = DOMAIN c.lines
      /\ \A n \in DOMAIN c.lines : /\ d.items[n].product = c.lines[n].product
                                   /\ d.items[n].quantity = c.lines[n].quantity
  BY DEF Goods
<1>2. /\ DOMAIN c.lines # {} /\ c.lines # <<>>
      /\ \A n \in DOMAIN c.lines : c.lines[n].product \in Products /\ c.lines[n].quantity \in Int
  BY <1>0, CallLines, CallAssumption
<1>3. \A n \in DOMAIN c.lines : c.lines[n].quantity > 0
  BY <1>0, CallAssumption
<1>4. d \in {[location |-> Location, items |-> Goods(e.lines)] : e \in Asking("receive")}
  BY <1>0 DEF Asking
<1> HIDE DEF c, d
<1>5. products \subseteq Products /\ \A p \in Products : p \in products <=> Named(c, p)
  BY <1>1, <1>2 DEF Named
<1>6. ASSUME NEW p \in products PROVE gain[p] = Brings(c, p, DOMAIN c.lines)
  <2>1. /\ naming(p) \in SUBSET DOMAIN c.lines
        /\ \A n \in DOMAIN c.lines : n \in naming(p) <=> c.lines[n].product = p
        /\ \A n \in naming(p) : part(p)[n] = c.lines[n].quantity
    BY <1>1
  <2>2. DOMAIN part(p) = naming(p)
    OBVIOUS
  <2>3. gain[p] = SumFunctionOnSet(part(p), DOMAIN part(p))
    BY ShopSums
  <2> HIDE DEF naming, part, gain, products
  <2>4. Brings(c, p, DOMAIN c.lines) = SumFunctionOnSet(part(p), naming(p))
    BY <1>0, <2>1, BringsNamed DEF c
  <2>. QED BY <2>2, <2>3, <2>4
<1>7. DOMAIN gain = products
  OBVIOUS
<1>8. \A p \in Products :
        IF p \in products
        THEN /\ balance'[p] = Quantity(balance[p]) + gain[p]
             /\ moved'[p] = moved[p] + gain[p] /\ balance'[p] \in Nat /\ gain[p] \in Int
        ELSE balance'[p] = balance[p] /\ moved'[p] = moved[p]
  <2> HIDE DEF products, gain
  <2>1. \A p \in Products :
          IF Named(c, p)
          THEN /\ balance'[p] = Quantity(balance[p]) + Brings(c, p, DOMAIN c.lines)
               /\ moved'[p] = moved[p] + Brings(c, p, DOMAIN c.lines)
               /\ balance'[p] \in Nat /\ Brings(c, p, DOMAIN c.lines) \in Int
          ELSE balance'[p] = balance[p] /\ moved'[p] = moved[p]
    BY <1>0, Committed DEF c
  <2>. QED BY <1>5, <1>6, <2>1
<1>9. Shop!AddTo(Location, gain)
  <2> HIDE DEF products, gain
  <2>. QED BY <1>5, <1>7, <1>8, Brought
<1>10. \A p \in products : (IF Place(balance)[<<p, Location>>] = None THEN 0
                            ELSE Place(balance)[<<p, Location>>]) + gain[p] <= MaxQuantity
  <2> HIDE DEF products, gain
  <2>1. \A p \in products : balance'[p] # None /\ p \in Products
    BY <1>5, <1>8, NoneIsNobody
  <2>2. \A p \in products : balance'[p] <= MaxQuantity
    BY <2>1 DEF Within
  <2>. QED BY <1>5, <1>8, <2>1, <2>2, PlaceStands DEF Quantity
<1>11. Drawers' = Drawers /\ TakenBack' = TakenBack
  <2>1. UNCHANGED <<shifts, returned>>
    BY <1>0, ShiftsStill, TakenBackStill DEF c
  <2>. QED BY <2>1, DrawersStill DEF TakenBack
<1>12. \A p \in products : p \in Products /\ Price[p].active
  BY <1>5 DEF Price
<1>13. d.items # <<>> /\ \A n \in DOMAIN d.items : d.items[n].quantity > 0
  BY <1>1, <1>2, <1>3
<1>14. Shop!Receive(d)
  <2>1. \A p \in products : p \in Products /\ Price[p].active
    BY <1>12
  <2>2. UNCHANGED <<Price, Drawers, [s \in Sales |-> Bill(s)], <<TakenBack, TakenBack>>, <<>>, None>>
    BY <1>11 DEF Price, Bill
  <2>3. d.location \in {Location}
    BY <1>1
  <2>4. d.location = Location
    BY <1>1
  <2>. QED BY <1>9, <1>10, <1>13, <2>1, <2>2, <2>3, <2>4 DEF Shop!Receive, Shop!refunds
<1>. QED BY <1>4, <1>14 DEF Shop!Next

\* The lines of a return by their numbers in the sale.
No(c, n) == c.lines[n].item[2]
Request(c) == [n \in DOMAIN c.lines |-> [item |-> No(c, n), quantity |-> c.lines[n].quantity]]

LEMMA ReturnLines ==
  ASSUME Tracked, NEW t \in Sessions, Commit(t), call[t].op = "return"
  PROVE  LET c == call[t] IN
         /\ c \in Calls /\ c.sale \in Sales /\ c.lines # <<>> /\ DOMAIN c.lines \subseteq Nat
         /\ \A n \in DOMAIN c.lines :
              /\ c.lines[n].item = <<c.sale, No(c, n)>> /\ c.lines[n].item \in Items
              /\ No(c, n) \in ItemNos(c.sale) /\ c.lines[n].quantity \in Nat \ {0}
              /\ c.lines[n].product = Sold[c.lines[n].item].product /\ c.lines[n].product \in Products
              /\ returned[c.lines[n].item] + c.lines[n].quantity <= Sold[c.lines[n].item].quantity
         /\ \A m, n \in DOMAIN c.lines : /\ No(c, m) = No(c, n) => m = n
                                         /\ c.lines[m].product = c.lines[n].product => m = n
<1> DEFINE c == call[t]
<1>0. c \in Calls /\ SessionOK(t) /\ pc[t] = "commit"
  BY DEF Tracked, Consistent, TypeOK, SessionsType, Commit
<1>1. /\ c.sale \in Sales /\ c.lines # <<>> /\ DOMAIN c.lines \subseteq Nat
      /\ \A n \in DOMAIN c.lines : /\ c.lines[n].product \in Products /\ c.lines[n].quantity \in Int
                                   /\ c.lines[n].item \in Items
                                   /\ c.lines[n].product = Sold[c.lines[n].item].product
      /\ \A m, n \in DOMAIN c.lines : c.lines[m].item = c.lines[n].item => m = n
  BY <1>0, CallLines, CallAssumption
<1>2. Refundable(c)
  BY <1>0 DEF SessionOK, Granted, Returning
<1>3. \A n \in DOMAIN c.lines :
        /\ Sold[c.lines[n].item].sale = c.sale /\ c.lines[n].quantity > 0
        /\ returned[c.lines[n].item] + c.lines[n].quantity <= Sold[c.lines[n].item].quantity
  BY <1>2 DEF Refundable
<1> HIDE DEF c
<1>4. ASSUME NEW n \in DOMAIN c.lines
      PROVE  c.lines[n].item = <<c.sale, No(c, n)>> /\ No(c, n) \in ItemNos(c.sale)
  <2>1. c.lines[n].item \in Sales \X Nat /\ c.lines[n].item[1] = c.sale
    BY <1>1, <1>3, SalesAssumption
  <2>. QED BY <1>1, <2>1 DEF No, ItemNos
<1>5. \A m, n \in DOMAIN c.lines : No(c, m) = No(c, n) => m = n
  BY <1>1, <1>4
<1>6. \A m, n \in DOMAIN c.lines : c.lines[m].product = c.lines[n].product => m = n
  <2> SUFFICES ASSUME NEW m \in DOMAIN c.lines, NEW n \in DOMAIN c.lines,
                      c.lines[m].product = c.lines[n].product
               PROVE  m = n
    OBVIOUS
  <2>1. c.lines[m].item = c.lines[n].item
    BY <1>1, <1>3, SalesAssumption
  <2>. QED BY <1>1, <2>1
<1>. QED BY <1>0, <1>1, <1>3, <1>4, <1>5, <1>6 DEF c

LEMMA RequestedByLine ==
  ASSUME NEW c, DOMAIN c.lines \subseteq Nat,
         \A m, n \in DOMAIN c.lines : No(c, m) = No(c, n) => m = n
  PROVE  /\ DOMAIN Shop!Requested(Request(c)) = {No(c, n) : n \in DOMAIN c.lines}
         /\ \A n \in DOMAIN c.lines :
              Shop!Requested(Request(c))[No(c, n)] = c.lines[n].quantity
<1> DEFINE R == Request(c)
           with(i) == {x \in DOMAIN R : R[x].item = i}
<1>1. DOMAIN R = DOMAIN c.lines
      /\ \A n \in DOMAIN c.lines : R[n].item = No(c, n) /\ R[n].quantity = c.lines[n].quantity
  BY DEF Request
<1> HIDE DEF R
<1>2. {R[x].item : x \in DOMAIN R} = {No(c, n) : n \in DOMAIN c.lines}
  BY <1>1
<1>3. ASSUME NEW n \in DOMAIN c.lines PROVE Shop!Max(with(No(c, n))) = n
  <2>1. with(No(c, n)) = {n}
    BY <1>1
  <2>2. Shop!Max({n}) = n
    BY DEF Shop!Max
  <2>. QED BY <2>1, <2>2
<1>4. Shop!Requested(R) = [i \in {R[x].item : x \in DOMAIN R} |-> R[Shop!Max(with(i))].quantity]
  BY DEF Shop!Requested
<1> HIDE DEF with
<1>5. \A n \in DOMAIN c.lines : Shop!Requested(R)[No(c, n)] = c.lines[n].quantity
  BY <1>1, <1>3, <1>4
<1>. QED BY <1>2, <1>4, <1>5 DEF R

\* What a return adds to the items of its sale and to those of other sales.
LEMMA TakenBackByLine ==
  ASSUME Tracked, NEW t \in Sessions, Commit(t), call[t].op = "return"
  PROVE  LET c == call[t] IN
         /\ \A n \in DOMAIN c.lines :
              returned'[c.lines[n].item] = returned[c.lines[n].item] + c.lines[n].quantity
         /\ \A i \in Items :
              (\A n \in DOMAIN c.lines : c.lines[n].item # i) => returned'[i] = returned[i]
<1> DEFINE c == call[t]
<1>0. SessionOK(t) /\ TablesType
  BY DEF Tracked, Consistent, TypeOK
<1>1. \A i \in Items : returned'[i] = returned[i] + taken[t][i] /\ returned[i] \in Int
  BY <1>0 DEF Commit, TablesType
<1>2. \A n \in DOMAIN c.lines : c.lines[n].item \in Items /\ c.lines[n].item # None
  BY ReturnLines, NoneAssumption
<1>3. \A n \in DOMAIN c.lines : taken[t][c.lines[n].item] = c.lines[n].quantity
  BY <1>2, Committed DEF Moving
<1>4. \A i \in Items :
        (\A n \in DOMAIN c.lines : c.lines[n].item # i) => taken[t][i] = 0
  BY <1>0 DEF SessionOK, TakenAsAsked
<1>. QED BY <1>1, <1>2, <1>3, <1>4

LEMMA ReturnRefines ==
  ASSUME Tracked, Tracked', NEW t \in Sessions, Commit(t), call[t].op = "return"
  PROVE  Shop!Next
<1> DEFINE c == call[t]
           s == c.sale
           R == Request(c)
           wanted == Shop!Requested(R)
           bills == [x \in Sales |-> Bill(x)]
           items == bills[s].items
           ItemOf(p) == CHOOSE i \in DOMAIN wanted : items[i].product = p
           gain == [p \in {items[i].product : i \in DOMAIN wanted} |-> wanted[ItemOf(p)]]
<1>0. Moving(c) /\ c \in Calls
  BY ReturnLines DEF Moving
<1>1. /\ s \in Sales /\ c.lines # <<>> /\ DOMAIN c.lines # {} /\ DOMAIN c.lines \subseteq Nat
      /\ \A n \in DOMAIN c.lines :
           /\ c.lines[n].item = <<s, No(c, n)>> /\ <<s, No(c, n)>> \in Items
           /\ No(c, n) \in ItemNos(s) /\ c.lines[n].quantity \in Nat \ {0}
           /\ c.lines[n].product = Sold[<<s, No(c, n)>>].product /\ c.lines[n].product \in Products
           /\ returned[<<s, No(c, n)>>] + c.lines[n].quantity <= Sold[<<s, No(c, n)>>].quantity
      /\ \A m, n \in DOMAIN c.lines : /\ No(c, m) = No(c, n) => m = n
                                      /\ c.lines[m].product = c.lines[n].product => m = n
  BY <1>0, CallLines, ReturnLines
<1>2. /\ DOMAIN wanted = {No(c, n) : n \in DOMAIN c.lines}
      /\ \A n \in DOMAIN c.lines : wanted[No(c, n)] = c.lines[n].quantity
  <2>1. DOMAIN c.lines \subseteq Nat /\ \A m, n \in DOMAIN c.lines : No(c, m) = No(c, n) => m = n
    BY <1>1
  <2> HIDE DEF c
  <2>. QED BY <2>1, RequestedByLine
<1>3. /\ DOMAIN items = ItemNos(s) /\ bills[s].location = Location
      /\ \A i \in ItemNos(s) : /\ items[i].product = Sold[<<s, i>>].product
                               /\ items[i].quantity = Sold[<<s, i>>].quantity
                               /\ items[i].unit_price = 1
  BY <1>1 DEF Bill
<1>4. DOMAIN TakenBack[s] = ItemNos(s) /\ \A i \in ItemNos(s) : TakenBack[s][i] = returned[<<s, i>>]
  BY <1>1 DEF TakenBack
<1>5. R \in {[n \in DOMAIN e.lines |-> [item |-> e.lines[n].item[2], quantity |-> e.lines[n].quantity]]
               : e \in Asking("return")}
  BY <1>0 DEF Asking, Request, No
<1>6. s \in 1 .. Len(bills) /\ DOMAIN bills = Sales
  <2>1. Cardinality(Sales) \in Nat /\ Sales = 1 .. Cardinality(Sales)
    BY SalesAssumption, FS_CardinalityType
  <2>2. PICK k \in Nat : k = Cardinality(Sales)
    BY <2>1
  <2>3. PICK f : f = bills
    OBVIOUS
  <2>4. f \in [1 .. k -> {Bill(x) : x \in Sales}]
    BY <2>1, <2>2, <2>3
  <2> HIDE DEF bills
  <2>5. Len(f) = k
    BY <2>4, FunctionIsSeq
  <2>. QED BY <1>1, <2>1, <2>2, <2>3, <2>5 DEF bills
<1> HIDE DEF c, s, R, wanted, bills, items
<1>19. ASSUME NEW i \in DOMAIN wanted
       PROVE  /\ i \in ItemNos(s) /\ wanted[i] \in Int /\ wanted[i] > 0
              /\ returned[<<s, i>>] + wanted[i] <= Sold[<<s, i>>].quantity
  <2>1. PICK n \in DOMAIN c.lines : i = No(c, n)
    BY <1>2
  <2>2. wanted[i] = c.lines[n].quantity
    BY <1>2, <2>1
  <2>3. /\ No(c, n) \in ItemNos(s) /\ c.lines[n].quantity \in Nat \ {0}
        /\ returned[<<s, No(c, n)>>] + c.lines[n].quantity <= Sold[<<s, No(c, n)>>].quantity
    BY <1>1
  <2>. QED BY <2>1, <2>2, <2>3
<1>20. \A i, j \in ItemNos(s) : Sold[<<s, i>>].product = Sold[<<s, j>>].product => i = j
  <2>1. \A i \in ItemNos(s) : <<s, i>> \in Items /\ Sold[<<s, i>>].sale = s
    BY SalesAssumption DEF ItemNos
  <2> SUFFICES ASSUME NEW i \in ItemNos(s), NEW j \in ItemNos(s),
                      Sold[<<s, i>>].product = Sold[<<s, j>>].product
               PROVE  i = j
    OBVIOUS
  <2>2. <<s, i>> = <<s, j>>
    BY <2>1, SalesAssumption
  <2>. QED BY <2>2
<1>7. Shop!Returnable(s, R)
  <2>1. R # <<>>
    BY <1>1 DEF R, Request
  <2>2. ASSUME NEW i \in DOMAIN wanted
        PROVE  /\ i \in DOMAIN items /\ wanted[i] > 0
               /\ TakenBack[s][i] + wanted[i] <= items[i].quantity /\ Shop!Stored(wanted[i]) # 0
    <3>1. wanted[i] \in Int /\ wanted[i] > 0
      BY <1>19
    <3>2. Shop!Stored(wanted[i]) # 0
      BY <3>1, WholeStays
    <3>. QED BY <1>3, <1>4, <1>19, <3>2
  <2>3. s \in DOMAIN bills
    BY <1>1, <1>6
  <2>4. DOMAIN wanted \subseteq DOMAIN items
    BY <2>2
  <2>5. \A i \in DOMAIN wanted : /\ wanted[i] > 0 /\ Shop!Stored(wanted[i]) # 0
                                 /\ TakenBack[s][i] + wanted[i] <= items[i].quantity
    BY <2>2
  <2>. QED BY <2>1, <2>3, <2>4, <2>5, Zenon DEF Shop!Returnable, Shop!Existing, wanted, items, bills
<1>8. ASSUME NEW x \in Sales, NEW i \in ItemNos(x)
      PROVE  /\ <<x, i>> \in Items
             /\ returned'[<<x, i>>] = IF x = s /\ i \in DOMAIN wanted THEN returned[<<x, i>>] + wanted[i]
                                      ELSE returned[<<x, i>>]
  <2>1. <<x, i>> \in Items
    BY SalesAssumption DEF ItemNos
  <2>2. CASE x = s /\ i \in DOMAIN wanted
    <3>1. PICK n \in DOMAIN c.lines : i = No(c, n)
      BY <1>2, <2>2
    <3>2. wanted[i] = c.lines[n].quantity /\ c.lines[n].item = <<x, i>>
      BY <1>1, <1>2, <2>2, <3>1
    <3>3. returned'[c.lines[n].item] = returned[c.lines[n].item] + c.lines[n].quantity
      BY TakenBackByLine DEF c
    <3>. QED BY <2>1, <2>2, <3>2, <3>3
  <2>3. CASE ~(x = s /\ i \in DOMAIN wanted)
    <3>1. ASSUME NEW n \in DOMAIN c.lines PROVE c.lines[n].item # <<x, i>>
      <4>1. c.lines[n].item = <<s, No(c, n)>>
        BY <1>1
      <4>2. No(c, n) \in DOMAIN wanted
        BY <1>2
      <4>. QED BY <2>3, <4>1, <4>2
    <3>2. (\A n \in DOMAIN c.lines : c.lines[n].item # <<x, i>>) => returned'[<<x, i>>] = returned[<<x, i>>]
      BY <2>1, TakenBackByLine DEF c
    <3>. QED BY <2>1, <2>3, <3>1, <3>2
  <2>. QED BY <2>2, <2>3
<1>10. ASSUME NEW gained, \A i \in DOMAIN wanted : gained[i] = wanted[i]
       PROVE  TakenBack' = [TakenBack EXCEPT ![s] =
                [i \in DOMAIN items |-> IF i \in DOMAIN wanted THEN @[i] + gained[i] ELSE @[i]]]
  <2> DEFINE more == [i \in DOMAIN items |-> IF i \in DOMAIN wanted THEN TakenBack[s][i] + gained[i]
                                             ELSE TakenBack[s][i]]
             e == [TakenBack EXCEPT ![s] = more]
  <2>1. TakenBack' = [x \in Sales |-> [i \in ItemNos(x) |-> returned'[<<x, i>>]]]
    BY DEF TakenBack
  <2>2. more = [i \in ItemNos(s) |-> returned'[<<s, i>>]]
    BY <1>1, <1>3, <1>4, <1>8, <1>10
  <2>3. \A x \in Sales : x # s => TakenBack[x] = [i \in ItemNos(x) |-> returned'[<<x, i>>]]
    BY <1>8 DEF TakenBack
  <2> HIDE DEF more
  <2>4. \A x \in Sales : e[x] = [i \in ItemNos(x) |-> returned'[<<x, i>>]]
    BY <1>1, <2>2, <2>3 DEF TakenBack
  <2>5. e = [x \in Sales |-> e[x]]
    BY DEF TakenBack
  <2> HIDE DEF e
  <2>6. TakenBack' = e
    BY <2>1, <2>4, <2>5
  <2>. QED BY <2>6 DEF e, more
<1>11. TakenBack' = [TakenBack EXCEPT ![s] =
         [i \in DOMAIN items |-> IF i \in DOMAIN wanted THEN @[i] + Shop!Stored(wanted[i]) ELSE @[i]]]
  <2> DEFINE back == [i \in DOMAIN wanted |-> Shop!Stored(wanted[i])]
  <2>1. \A i \in DOMAIN wanted : back[i] = wanted[i]
    BY <1>19, WholeStays
  <2>2. \A i \in DOMAIN wanted : back[i] = Shop!Stored(wanted[i])
    OBVIOUS
  <2> HIDE DEF back
  <2>3. TakenBack' = [TakenBack EXCEPT ![s] =
          [i \in DOMAIN items |-> IF i \in DOMAIN wanted THEN @[i] + back[i] ELSE @[i]]]
    BY <1>10, <2>1
  <2>. QED BY <2>2, <2>3
<1>12. TakenBack' = [TakenBack EXCEPT ![s] =
         [i \in DOMAIN items |-> IF i \in DOMAIN wanted
                                 THEN @[i] + Shop!Cents(Shop!RefundPrice(s, i) * wanted[i]) ELSE @[i]]]
  <2> DEFINE worth == [i \in DOMAIN wanted |-> Shop!Cents(Shop!RefundPrice(s, i) * wanted[i])]
  <2>1. ASSUME NEW i \in DOMAIN wanted PROVE worth[i] = wanted[i]
    <3>1. i \in DOMAIN items /\ wanted[i] \in Int
      BY <1>3, <1>19
    <3>2. Shop!RefundPrice(s, i) = 1
      BY <1>3, <3>1 DEF Shop!RefundPrice, items, bills
    <3>3. Shop!RefundPrice(s, i) * wanted[i] = wanted[i]
      BY <3>1, <3>2
    <3>. QED BY <3>1, <3>3, WholeStays
  <2>2. \A i \in DOMAIN wanted : worth[i] = Shop!Cents(Shop!RefundPrice(s, i) * wanted[i])
    OBVIOUS
  <2> HIDE DEF worth
  <2>3. TakenBack' = [TakenBack EXCEPT ![s] =
          [i \in DOMAIN items |-> IF i \in DOMAIN wanted THEN @[i] + worth[i] ELSE @[i]]]
    BY <1>10, <2>1
  <2>. QED BY <2>2, <2>3
<1>13. ASSUME NEW n \in DOMAIN c.lines
       PROVE  Brings(c, c.lines[n].product, DOMAIN c.lines) = c.lines[n].quantity
  BY <1>0, <1>1, BringsOne DEF c
<1>14. ASSUME NEW i \in DOMAIN wanted PROVE ItemOf(items[i].product) = i
  <2>1. \A j \in DOMAIN wanted : items[j].product = items[i].product => j = i
    BY <1>3, <1>19, <1>20
  <2>. QED BY <2>1
<1>15. /\ DOMAIN gain \subseteq Products
       /\ \A p \in Products : p \in DOMAIN gain <=> Named(c, p)
       /\ \A p \in DOMAIN gain : gain[p] = Brings(c, p, DOMAIN c.lines)
  <2>1. DOMAIN gain = {items[i].product : i \in DOMAIN wanted}
    OBVIOUS
  <2>2. \A n \in DOMAIN c.lines : No(c, n) \in DOMAIN wanted /\ items[No(c, n)].product = c.lines[n].product
    BY <1>1, <1>2, <1>3
  <2>3. \A p \in DOMAIN gain : \E n \in DOMAIN c.lines : p = c.lines[n].product
    BY <1>2, <2>1, <2>2
  <2>4. \A n \in DOMAIN c.lines : c.lines[n].product \in DOMAIN gain
    BY <2>1, <2>2
  <2>5. ASSUME NEW n \in DOMAIN c.lines
        PROVE  gain[c.lines[n].product] = c.lines[n].quantity
    <3>1. ItemOf(c.lines[n].product) = No(c, n)
      BY <1>14, <2>2
    <3>2. gain[c.lines[n].product] = wanted[ItemOf(c.lines[n].product)]
      BY <2>1, <2>4, Zenon
    <3> HIDE DEF ItemOf, gain
    <3>. QED BY <1>2, <3>1, <3>2
  <2> HIDE DEF gain
  <2>6. \A n \in DOMAIN c.lines :
          /\ c.lines[n].product \in Products
          /\ gain[c.lines[n].product] = Brings(c, c.lines[n].product, DOMAIN c.lines)
    BY <1>1, <1>13, <2>5
  <2>7. \A p \in Products : p \in DOMAIN gain <=> Named(c, p)
    BY <2>3, <2>4 DEF Named
  <2>. QED BY <2>3, <2>6, <2>7
<1>16. Shop!AddTo(Location, gain)
  <2> HIDE DEF gain
  <2>1. \A p \in Products :
          IF Named(c, p)
          THEN /\ balance'[p] = Quantity(balance[p]) + Brings(c, p, DOMAIN c.lines)
               /\ moved'[p] = moved[p] + Brings(c, p, DOMAIN c.lines)
               /\ balance'[p] \in Nat /\ Brings(c, p, DOMAIN c.lines) \in Int
          ELSE balance'[p] = balance[p] /\ moved'[p] = moved[p]
    BY <1>0, Committed DEF c
  <2>2. \A p \in Products :
          IF p \in DOMAIN gain
          THEN /\ balance'[p] = Quantity(balance[p]) + gain[p] /\ balance'[p] \in Int
               /\ moved'[p] = moved[p] + gain[p] /\ gain[p] \in Int
          ELSE balance'[p] = balance[p] /\ moved'[p] = moved[p]
    BY <1>15, <2>1
  <2>. QED BY <1>15, <2>2, Brought
<1>17. UNCHANGED <<Price, Drawers, bills, <<>>, None>>
  <2>1. Drawers' = Drawers
    BY <1>0, ShiftsStill, DrawersStill DEF c
  <2>2. bills' = bills
    BY DEF bills, Bill
  <2>. QED BY <2>1, <2>2 DEF Price
<1>18. Shop!ReturnSale(s, R)
  <2>1. Shop!AddTo(bills[s].location, gain)
    BY <1>3, <1>16
  <2> HIDE DEF gain
  <2>. QED BY <1>7, <1>11, <1>12, <1>17, <2>1, Zenon DEF Shop!ReturnSale, wanted, items, bills, gain, ItemOf
<1>. QED BY <1>5, <1>6, <1>18 DEF Shop!Next, bills

LEMMA CommitRefines ==
  ASSUME Tracked, Tracked', Within', NEW t \in Sessions, Commit(t)
  PROVE  Shop!Next \/ SecondShift
<1>1. call[t].op \in Operations
  BY CallAssumption DEF Tracked, Consistent, TypeOK, SessionsType
<1>. QED BY <1>1, OpenRefines, CloseRefines, AdjustRefines, ReceiveRefines, ReturnRefines DEF Operations

LEMMA TablesStand ==
  ASSUME UNCHANGED tables
  PROVE  UNCHANGED Shop!vars
<1>1. UNCHANGED <<balance, moved, returned, shifts>>
  BY DEF tables
<1>2. Place(balance)' = Place(balance) /\ Place(moved)' = Place(moved)
  BY <1>1 DEF Place
<1>3. Drawers' = Drawers /\ TakenBack' = TakenBack
  BY <1>1, DrawersStill DEF TakenBack
<1>4. [s \in Sales |-> Bill(s)]' = [s \in Sales |-> Bill(s)] /\ Price' = Price
  BY DEF Bill, Price
<1>. QED BY <1>2, <1>3, <1>4 DEF Shop!vars, Shop!stock, Shop!refunds

\* Every statement of a session is a step of ShopLedger or none.
LEMMA NextRefines ==
  Tracked /\ Tracked' /\ Within' /\ [Next]_vars => [Shop!Next \/ SecondShift]_(Shop!vars)
<1> SUFFICES ASSUME Tracked, Tracked', Within', [Next]_vars
             PROVE  [Shop!Next \/ SecondShift]_(Shop!vars)
  OBVIOUS
<1>1. CASE UNCHANGED vars
  BY <1>1, TablesStand DEF vars, tables
<1>2. ASSUME NEW t \in Sessions, Step(t) \/ Crash(t)
      PROVE  [Shop!Next \/ SecondShift]_(Shop!vars)
  <2>1. CASE Commit(t)
    BY <2>1, CommitRefines
  <2>2. CASE ~Commit(t)
    <3>1. UNCHANGED tables
      BY <1>2, <2>2 DEF Step, Crash, Abort, Goto, LockSale, LockRow, FindNoRow, CreateRow, RowTaken,
         WriteRow, LookForShift, LockShift, DeadlockVictim
    <3>. QED BY <3>1, TablesStand
  <2>. QED BY <2>1, <2>2
<1>. QED BY <1>1, <1>2 DEF Next

\* The handlers run statement by statement on PostgreSQL, and still adjust_stock,
\* receive, return_sale and the closing of shifts are the steps that ShopLedger
\* takes, whole or not at all, for any sessions and calls as long as balances fit
\* their column; only opening a shift is not, when two requests race
\* (services_inventory.py:11-43, receiving.py:23-44, api.py:61-77).
THEOREM SessionsAreHandlers == Spec /\ []Within => ImplementsShopLedger
<1>1. Spec => []Tracked
  BY InitTracked, NextTracked, PTL DEF Spec
<1>2. Tracked /\ Tracked' /\ Within' /\ [Next]_vars => [Shop!Next \/ SecondShift]_(Shop!vars)
  BY NextRefines
<1>. QED BY <1>1, <1>2, PTL DEF Spec, ImplementsShopLedger
=============================================================================
