----------------------------- MODULE StockSessions -----------------------------
(***************************************************************************)
(* The handlers of backend/commerce that run on PostgreSQL, where requests *)
(* interleave: adjust_stock and return_sale (services_inventory.py),       *)
(* receive (receiving.py), and opening and closing a shift (api.py), at    *)
(* one location and for one cashier.  (checkout does not run there:        *)
(* services.py:17 locks the nullable side of an outer join.)               *)
(*                                                                         *)
(* Each session makes one call, in one transaction at READ COMMITTED.      *)
(* Three things PostgreSQL does matter here: SELECT ... FOR UPDATE locks a *)
(* row of every table it joins and sees no row another session is about to *)
(* insert; the insert waits for that session instead; and the foreign keys *)
(* Django creates are deferred, so that COMMIT of a transaction that       *)
(* inserted rows of a location must lock the location FOR KEY SHARE, which *)
(* waits for a FOR UPDATE lock of somebody else.                           *)
(***************************************************************************)
EXTENDS Integers, Sequences

CONSTANTS
  Sessions,  \* database sessions, one call each
  Products,  \* rows of Product
  Sales,     \* rows of Sale
  Sold,      \* SaleItem rows: item -> [sale, product, quantity]
  Opening,   \* first StockBalance rows: product -> quantity, None where there is none
  Calls,     \* what a session may ask for: [op, sale, lines, cash]
  Location,  \* the row of InventoryLocation
  Shift,     \* the row of the cashier's first CashierShift
  None

Items == DOMAIN Sold
Locks == Products \cup Sales \cup {Location, Shift}
Operations == {"adjust", "receive", "return", "open", "close"}

ASSUME OpeningAssumption == Opening \in [Products -> Nat \cup {None}]
ASSUME SoldAssumption == Sold \in [Items -> [sale: Sales, product: Products, quantity: Nat]]
ASSUME CallAssumption ==
  \A c \in Calls :
    /\ c.op \in Operations
    /\ c.lines \in Seq([product: Products, quantity: Int, item: Items \cup {None}])
    /\ c.op \in {"adjust", "receive", "return"} => c.lines # <<>>
    /\ c.op = "return" =>
         /\ c.sale \in Sales
         /\ \A m, n \in DOMAIN c.lines : c.lines[m].item = c.lines[n].item => m = n
         /\ \A n \in DOMAIN c.lines :
              c.lines[n].item \in Items /\ c.lines[n].product = Sold[c.lines[n].item].product
    /\ c.op # "return" => \A n \in DOMAIN c.lines : c.lines[n].item = None
    /\ c.op = "receive" => \A n \in DOMAIN c.lines : c.lines[n].quantity > 0
    /\ c.op = "close" => c.cash \in Nat
ASSUME NoneAssumption == None \notin Int \cup Sessions \cup Calls \cup Items
ASSUME LockAssumption ==
  Location # Shift /\ {Location, Shift} \cap (Products \cup Sales) = {} /\ Products \cap Sales = {}

VARIABLES
  balance,   \* StockBalance.quantity, committed; None where there is no row
  moved,     \* committed StockMovement rows, as their sum for each product
  returned,  \* committed SaleReturnItem.quantity, summed for each item
  shifts,    \* committed CashierShift rows of the cashier: [open, closing]
  holder,    \* who has locked a row or is inserting it
  pc,        \* the statement each session runs next
  call,      \* what it was asked
  line,      \* the line its loop is at
  read,      \* the quantity, or the number of shifts, it has read
  draft,     \* the balances it has written and not committed; None where none
  posted,    \* the movements it has inserted likewise, as their sum
  taken,     \* the items it has taken back likewise
  outcome    \* how its call ended

tables == <<balance, moved, returned, shifts>>
written == <<draft, posted, taken>>
vars == <<tables, holder, pc, call, line, read, written, outcome>>

Line(t) == call[t].lines[line[t]]
Row(t) == Line(t).product

\* What t sees of a balance: its own write, or else what is committed.
Seen(t, p) == IF draft[t][p] # None THEN draft[t][p] ELSE balance[p]

\* Nobody else has r.
Free(t, r) == holder[r] \in {t, None}
Take(t, rows) == holder' = [r \in Locks |-> IF r \in rows THEN t ELSE holder[r]]

\* The transaction of t ends and its locks go.
End(t, how) ==
  /\ holder' = [r \in Locks |-> IF holder[r] = t THEN None ELSE holder[r]]
  /\ pc' = [pc EXCEPT ![t] = "done"]
  /\ read' = [read EXCEPT ![t] = 0]
  /\ draft' = [draft EXCEPT ![t] = [p \in Products |-> None]]
  /\ posted' = [posted EXCEPT ![t] = [p \in Products |-> 0]]
  /\ taken' = [taken EXCEPT ![t] = [i \in Items |-> 0]]
  /\ outcome' = [outcome EXCEPT ![t] = how]
  /\ UNCHANGED <<call, line>>

\* A refusal or an exception: everything is rolled back.
Abort(t, how) == End(t, how) /\ UNCHANGED tables

Goto(t, next) == pc' = [pc EXCEPT ![t] = next] /\ UNCHANGED <<tables, call, outcome>>

\* The first statement of each handler.
First(c) == CASE c.op = "return" -> "sale" [] c.op = "open" -> "look"
              [] c.op = "close" -> "shift" [] OTHER -> "row"

-----------------------------------------------------------------------------
(* return_sale: the sale is selected for update together with its location *)
(* and both are locked; what was taken back before is read after that.     *)

SaleRows_NoForUpdate(c) == {}
SaleRows_SaleOnly(c) == {c.sale}
SaleRows(c) == {c.sale, Location}

Refundable(c) ==
  \A n \in DOMAIN c.lines :
    LET i == c.lines[n].item IN
    /\ Sold[i].sale = c.sale
    /\ c.lines[n].quantity > 0
    /\ returned[i] + c.lines[n].quantity <= Sold[i].quantity

LockSale(t) ==
  LET c == call[t] IN
  /\ pc[t] = "sale"
  /\ \A r \in SaleRows(c) : Free(t, r)
  /\ IF Refundable(c)
     THEN Take(t, SaleRows(c)) /\ Goto(t, "row") /\ UNCHANGED <<line, read, written>>
     ELSE Abort(t, "refused")

-----------------------------------------------------------------------------
(* The loop over the rows of an adjustment (one line), a delivery or a     *)
(* return: lock the balance or create it, then write it and its movement.  *)

LockRow_NoForUpdate(t) ==
  /\ pc[t] = "row"
  /\ Seen(t, Row(t)) # None
  /\ read' = [read EXCEPT ![t] = Seen(t, Row(t))]
  /\ Goto(t, "write")
  /\ UNCHANGED <<holder, line, written>>
LockRow(t) ==
  /\ pc[t] = "row"
  /\ Seen(t, Row(t)) # None
  /\ Free(t, Row(t))
  /\ Take(t, {Row(t)})
  /\ read' = [read EXCEPT ![t] = Seen(t, Row(t))]
  /\ Goto(t, "write")
  /\ UNCHANGED <<line, written>>

FindNoRow(t) ==
  /\ pc[t] = "row"
  /\ Seen(t, Row(t)) = None
  /\ Goto(t, "create")
  /\ UNCHANGED <<holder, line, read, written>>

\* The unique index lets one session insert the row; the others wait for it.
CreateRow(t) ==
  /\ pc[t] = "create"
  /\ balance[Row(t)] = None
  /\ Free(t, Row(t))
  /\ Take(t, {Row(t)})
  /\ read' = [read EXCEPT ![t] = 0]
  /\ draft' = [draft EXCEPT ![t][Row(t)] = 0]
  /\ Goto(t, "write")
  /\ UNCHANGED <<line, posted, taken>>

\* Somebody has created it meanwhile: get_or_create looks again, create fails.
Recovers(c) == c.op = "receive"

RowTaken_TriesAgain(t) ==
  /\ pc[t] = "create"
  /\ balance[Row(t)] # None
  /\ UNCHANGED vars
RowTaken(t) ==
  /\ pc[t] = "create"
  /\ balance[Row(t)] # None
  /\ IF Recovers(call[t]) THEN Goto(t, "row") /\ UNCHANGED <<holder, line, read, written>>
                          ELSE Abort(t, "integrity")

\* Only an adjustment can make stock negative, and is refused.
Overdraws_Unasked(c, n) == c.lines = <<>> /\ n < 0
Overdraws(c, n) == c.op = "adjust" /\ n < 0

AtLast_OffByOne(t) == line[t] > Len(call[t].lines)
AtLast(t) == line[t] = Len(call[t].lines)

WriteRow(t) ==
  LET after == read[t] + Line(t).quantity
      i == Line(t).item
  IN
  /\ pc[t] = "write"
  /\ IF Overdraws(call[t], after)
     THEN Abort(t, "refused")
     ELSE /\ draft' = [draft EXCEPT ![t][Row(t)] = after]
          /\ posted' = [posted EXCEPT ![t][Row(t)] = @ + Line(t).quantity]
          /\ taken' = IF i = None THEN taken
                      ELSE [taken EXCEPT ![t][i] = @ + Line(t).quantity]
          /\ line' = [line EXCEPT ![t] = IF AtLast(t) THEN @ ELSE @ + 1]
          /\ Goto(t, IF AtLast(t) THEN "commit" ELSE "row")
          /\ UNCHANGED <<holder, read>>

-----------------------------------------------------------------------------
(* Shifts: whether one is open is asked without a lock; one is closed under *)
(* its row lock.                                                            *)

HasOpenShift_Unasked == shifts = <<None>>
HasOpenShift == \E s \in DOMAIN shifts : shifts[s].open

LookForShift(t) ==
  /\ pc[t] = "look"
  /\ IF HasOpenShift
     THEN Abort(t, "refused")
     ELSE /\ read' = [read EXCEPT ![t] = Len(shifts)]
          /\ Goto(t, "commit")
          /\ UNCHANGED <<holder, line, written>>

\* The caller of a shift that is closed already is told how it was closed.
ShiftRow_NoForUpdate(t) == {}
ShiftRow(t) == {Shift}
LockShift(t) ==
  /\ pc[t] = "shift"
  /\ \A r \in ShiftRow(t) : Free(t, r)
  /\ IF shifts[1].open
     THEN Take(t, ShiftRow(t)) /\ Goto(t, "commit") /\ UNCHANGED <<line, read, written>>
     ELSE Abort(t, "done")

-----------------------------------------------------------------------------
(* The end of the transaction.                                             *)

\* What the deferred checks of foreign keys have to lock.
KeyShares(c) == IF c.op = "close" THEN {} ELSE {Location}

Commit(t) ==
  LET c == call[t] IN
  /\ pc[t] = "commit"
  /\ \A r \in KeyShares(c) : Free(t, r)
  /\ balance' = [p \in Products |-> Seen(t, p)]
  /\ moved' = [p \in Products |-> moved[p] + posted[t][p]]
  /\ returned' = [i \in Items |-> returned[i] + taken[t][i]]
  /\ shifts' = CASE c.op = "open" -> Append(shifts, [open |-> TRUE, closing |-> None])
                 [] c.op = "close" -> [shifts EXCEPT ![1] = [open |-> FALSE, closing |-> c.cash]]
                 [] OTHER -> shifts
  /\ End(t, "done")

Crash(t) ==
  /\ pc[t] # "done"
  /\ Abort(t, "crash")

\* Whom t waits for.
Wants(t) ==
  CASE pc[t] = "sale" -> SaleRows(call[t])
    [] pc[t] = "row" /\ Seen(t, Row(t)) # None -> {Row(t)}
    [] pc[t] = "create" /\ balance[Row(t)] = None -> {Row(t)}
    [] pc[t] = "shift" -> {Shift}
    [] pc[t] = "commit" -> KeyShares(call[t])
    [] OTHER -> {}
WaitsFor(t, u) == \E r \in Wants(t) : holder[r] = u /\ u # t

\* Sessions each of which waits for another one of them, and no fewer of them do.
Closed(D) == D # {} /\ \A u \in D : \E v \in D : WaitsFor(u, v)
Circle(D) == Closed(D) /\ \A E \in SUBSET D : Closed(E) => E = D

\* PostgreSQL finds the circle and makes one of its sessions fail.
DeadlockVictim(t) ==
  /\ \E D \in SUBSET Sessions : t \in D /\ Circle(D)
  /\ Abort(t, "deadlock")

-----------------------------------------------------------------------------
Init ==
  /\ balance = Opening
  /\ moved = [p \in Products |-> 0]
  /\ returned = [i \in Items |-> 0]
  /\ shifts = <<[open |-> TRUE, closing |-> None]>>
  /\ holder = [r \in Locks |-> None]
  /\ call \in [Sessions -> Calls]
  /\ pc = [t \in Sessions |-> First(call[t])]
  /\ line = [t \in Sessions |-> 1]
  /\ read = [t \in Sessions |-> 0]
  /\ draft = [t \in Sessions |-> [p \in Products |-> None]]
  /\ posted = [t \in Sessions |-> [p \in Products |-> 0]]
  /\ taken = [t \in Sessions |-> [i \in Items |-> 0]]
  /\ outcome = [t \in Sessions |-> "none"]

Step(t) ==
  \/ LockSale(t)
  \/ LockRow(t) \/ FindNoRow(t) \/ CreateRow(t) \/ RowTaken(t) \/ WriteRow(t)
  \/ LookForShift(t) \/ LockShift(t)
  \/ Commit(t) \/ DeadlockVictim(t)

Next == \E t \in Sessions : Step(t) \/ Crash(t)

Spec == Init /\ [][Next]_vars

\* A session that can run does; PostgreSQL serves those that wait for a row in
\* turn and looks for circles.
FairSpec == Spec /\ \A t \in Sessions : SF_vars(Step(t))

-----------------------------------------------------------------------------
(* Properties                                                              *)

Points == {"sale", "row", "create", "write", "look", "shift", "commit", "done"}
Outcomes == {"none", "done", "refused", "integrity", "deadlock", "crash"}

Shifts == [open: BOOLEAN, closing: Nat \cup {None}]

TablesType ==
  /\ balance \in [Products -> Int \cup {None}] /\ moved \in [Products -> Int]
  /\ returned \in [Items -> Int]
  /\ shifts \in Seq(Shifts) /\ shifts # <<>>
  /\ \A s \in DOMAIN shifts : shifts[s].open <=> shifts[s].closing = None
SessionsType ==
  /\ holder \in [Locks -> Sessions \cup {None}]
  /\ pc \in [Sessions -> Points] /\ outcome \in [Sessions -> Outcomes]
  /\ call \in [Sessions -> Calls] /\ line \in [Sessions -> Nat \ {0}]
  /\ read \in [Sessions -> Int]
  /\ draft \in [Sessions -> [Products -> Int \cup {None}]]
  /\ posted \in [Sessions -> [Products -> Int]] /\ taken \in [Sessions -> [Items -> Int]]
AtLine(t) == pc[t] \in {"row", "create", "write"} => line[t] \in DOMAIN call[t].lines

\* Rows have the columns of models.py, and a session is at a line of its call.
TypeOK == TablesType /\ SessionsType /\ \A t \in Sessions : AtLine(t)

\* However adjustments, returns and deliveries interleave, fail or die, every
\* balance is what it opened with plus its movements: no update is lost and no
\* row is created twice (services_inventory.py:16-21, 39-42; receiving.py:35-42).
StockIsItsMovements ==
  \A p \in Products :
    IF balance[p] = None THEN Opening[p] = None /\ moved[p] = 0
    ELSE balance[p] = (IF Opening[p] = None THEN 0 ELSE Opening[p]) + moved[p]

\* Two write-offs of the last piece: the second sees what the first has left
\* (services_inventory.py:16-18).
ShelvesNotNegative == \A p \in Products : balance[p] # None => balance[p] >= 0

\* Two returns of one item at once do not take back more than was sold
\* (services_inventory.py:26-34).
ReturnsWithinSale == \A i \in Items : returned[i] \in 0 .. Sold[i].quantity

\* Returns lock balances in the order of their requests (services_inventory.py:32,
\* 39) and still never wait for each other in a circle, because the sale is
\* locked together with its location (:26); a circle takes another kind of call.
ReturnsNeverCircle ==
  \A D \in SUBSET Sessions : Circle(D) => \E t \in D : call[t].op # "return"

\* A drawer is counted once: of two requests that close a shift at the same
\* time the later one does not replace the count (api.py:71-76).
CountedOnce ==
  [][\A s \in DOMAIN shifts : ~shifts[s].open => shifts'[s] = shifts[s]]_vars

\* Two shifts of a cashier are open only if their requests overlapped: whoever
\* looked after a shift was committed does not open another (api.py:63).
SecondShiftByRaceOnly ==
  [][\A t \in Sessions : pc[t] = "commit" /\ pc'[t] = "done" /\ Len(shifts') > Len(shifts) =>
        \A s \in 1 .. read[t] : ~shifts[s].open]_vars

\* Every call ends, be it as the victim of a circle: of the rows that calls wait
\* for, create at once and look for again, and the location that a COMMIT waits
\* for, none keeps a session for good (services_inventory.py:16-17,
\* receiving.py:35).
CallsEnd == \A t \in Sessions : <>(pc[t] = "done")
=============================================================================
