----------------------------- MODULE CheckoutSale -----------------------------
(***************************************************************************)
(* checkout_sale of services/api/transactional/services.py, statement by   *)
(* statement, as any number of database sessions run it at once against    *)
(* PostgreSQL at its default isolation level, READ COMMITTED: a plain read *)
(* sees what is committed when its statement runs, SELECT ... FOR UPDATE   *)
(* waits for the row and then reads the committed version, and what a      *)
(* transaction writes is seen by nobody before its COMMIT.                 *)
(***************************************************************************)
EXTENDS Integers, Sequences, Functions

CONSTANTS
  Txns,      \* the database sessions that run checkout_sale
  Keys,      \* idempotency keys
  Products,  \* rows of the Product table
  Requests,  \* the requests callers make: [lines, location, currency]
  Opening,   \* rows of InventoryItem, <<product, location>>, and their first quantity
  Catalogs,  \* the contents Product may have: product -> [active, price]
  None       \* no key, no request, no row

Items == DOMAIN Opening
LineType == [product: Products, quantity: Int]

ASSUME OpeningAssumption ==
  /\ Opening \in [Items -> Nat]
  /\ \A i \in Items : i # None

ASSUME RequestAssumption ==
  \A q \in Requests : q # None /\ q.lines \in Seq(LineType)

ASSUME CatalogAssumption ==
  /\ Catalogs \subseteq [Products -> [active: BOOLEAN, price: Nat]]
  /\ Catalogs # {} /\ None \notin Catalogs

ASSUME KeyAssumption == \A k \in Keys : k # None

VARIABLES
  catalog,   \* Product: edited by code outside this service
  quantity,  \* InventoryItem.quantity, committed
  moved,     \* committed InventoryMovement rows, as their sum per item
  sales,     \* committed Sale rows with their SaleLines, in commit order
  records,   \* IdempotencyRecord by key; None where there is none
  audit,     \* committed AuditEvent rows "sale.completed"
  pc,        \* the statement each session runs next
  mem,       \* its call and local variables
  held,      \* the InventoryItem rows it has locked
  answer     \* what its last finished call was answered

tables == <<quantity, moved, sales, records, audit>>
vars == <<catalog, tables, pc, mem, held, answer>>

-----------------------------------------------------------------------------
(* Requests and the rows they name.                                        *)

LineNos(q) == DOMAIN q.lines
ItemOf(q, n) == <<q.lines[n].product, q.location>>
Named(q) == {ItemOf(q, n) : n \in LineNos(q)}
Rows(q) == Named(q) \cap Items

\* The checks before the first statement.
Valid(q) == q.lines # <<>> /\ \A n \in LineNos(q) : q.lines[n].quantity > 0

\* sha256 of "location|currency|id:qty|id:qty...": it tells two requests apart
\* by everything in them, the order of the lines included.
Fingerprint_LinesOnly(q) == <<q.lines>>
Fingerprint(q) == <<q.location, q.currency, q.lines>>

\* IdempotencyRecord: the fingerprint and what the caller was answered.
RecordType ==
  [fingerprint: {Fingerprint(q) : q \in Requests}, sale: Nat, total: Int]

ASSUME RecordAssumption == None \notin RecordType

SaleLines(q, seen) ==
  [n \in LineNos(q) |->
     [item |-> ItemOf(q, n), quantity |-> q.lines[n].quantity,
      unit_price |-> seen[q.lines[n].product].price,
      line_total |-> seen[q.lines[n].product].price * q.lines[n].quantity]]

Zero == [i \in Items |-> 0]
Blank == [key |-> None, req |-> None, seen |-> None, want |-> None,
          inv |-> Zero, delta |-> Zero, line |-> 0, total |-> 0]
NoAnswer == [outcome |-> "none", key |-> None, req |-> None, sale |-> 0]

\* No session has locked row i.
Free_NoForUpdate(i) == i \in Items
Free(i) == \A u \in Txns : i \notin held[u]

-----------------------------------------------------------------------------
(* How a call ends: the transaction commits or rolls back, its row locks   *)
(* go, and the caller has an answer.                                       *)

Finish(t, k, q, outcome, sale) ==
  /\ pc' = [pc EXCEPT ![t] = "idle"]
  /\ mem' = [mem EXCEPT ![t] = Blank]
  /\ held' = [held EXCEPT ![t] = {}]
  /\ answer' = [answer EXCEPT ![t] =
                  [outcome |-> outcome, key |-> k, req |-> q, sale |-> sale]]

\* An exception leaves the atomic block: everything written is rolled back.
\* Of such an answer only the kind of error is kept.
Raise(t, outcome) ==
  /\ Finish(t, None, None, outcome, 0)
  /\ UNCHANGED <<tables, catalog>>

-----------------------------------------------------------------------------
(* The call: input checks and the first statement, the read of the         *)
(* idempotency record.  It takes no lock.                                  *)

Invalid(t, k, q) ==
  /\ pc[t] = "idle"
  /\ ~Valid(q)
  /\ Raise(t, "invalid")

Replay(t, k, q) ==
  /\ pc[t] = "idle"
  /\ Valid(q)
  /\ records[k] # None
  /\ records[k].fingerprint = Fingerprint(q)
  /\ Finish(t, k, q, "sale", records[k].sale)
  /\ UNCHANGED <<tables, catalog>>

Conflict(t, k, q) ==
  /\ pc[t] = "idle"
  /\ Valid(q)
  /\ records[k] # None
  /\ records[k].fingerprint # Fingerprint(q)
  /\ Finish(t, k, q, "conflict", 0)
  /\ UNCHANGED <<tables, catalog>>

Start(t, k, q) ==
  /\ pc[t] = "idle"
  /\ Valid(q)
  /\ records[k] = None
  /\ pc' = [pc EXCEPT ![t] = "products"]
  /\ mem' = [mem EXCEPT ![t] = [Blank EXCEPT !.key = k, !.req = q]]
  /\ answer' = [answer EXCEPT ![t] = NoAnswer]
  /\ UNCHANGED <<tables, catalog, held>>
-----------------------------------------------------------------------------
(* Product.objects.filter(id__in=..., is_active=True): one statement, so   *)
(* all prices come from one committed catalog.                             *)

Active(q) == \A n \in LineNos(q) : catalog[q.lines[n].product].active

Unavailable(t) ==
  /\ pc[t] = "products"
  /\ ~Active(mem[t].req)
  /\ Raise(t, "unavailable")

ReadProducts(t) ==
  /\ pc[t] = "products"
  /\ Active(mem[t].req)
  /\ \E i \in Rows(mem[t].req) :
       mem' = [mem EXCEPT ![t].seen = catalog, ![t].want = i]
  /\ pc' = [pc EXCEPT ![t] = "lock"]
  /\ UNCHANGED <<tables, catalog, held, answer>>

\* The locking read finds no row at all.
NoRows(t) ==
  /\ pc[t] = "products"
  /\ Active(mem[t].req)
  /\ Rows(mem[t].req) = {}
  /\ Raise(t, "missing")

-----------------------------------------------------------------------------
(* InventoryItem ... select_for_update(): the rows that exist are locked   *)
(* one by one.  The query has no ORDER BY, so the next row is any of them; *)
(* once the scan is at a row it waits there.                               *)

LockRow(t) ==
  LET i == mem[t].want
      q == mem[t].req
      rest == (Rows(q) \ held[t]) \ {i}
  IN  /\ pc[t] = "lock"
      /\ Free(i)
      /\ rest # {} \/ Rows(q) = Named(q)
      /\ held' = [held EXCEPT ![t] = @ \cup {i}]
      /\ IF rest # {}
         THEN /\ \E j \in rest :
                   mem' = [mem EXCEPT ![t].inv[i] = quantity[i], ![t].want = j]
              /\ pc' = pc
         ELSE /\ mem' = [mem EXCEPT ![t].inv[i] = quantity[i], ![t].want = None,
                                    ![t].line = 1]
              /\ pc' = [pc EXCEPT ![t] = "resolve"]
      /\ UNCHANGED <<tables, catalog, answer>>

\* Fewer rows came back than products were named.
MissingRow(t) ==
  /\ pc[t] = "lock"
  /\ Free(mem[t].want)
  /\ (Rows(mem[t].req) \ held[t]) = {mem[t].want}
  /\ Rows(mem[t].req) # Named(mem[t].req)
  /\ Raise(t, "missing")

\* A session waits for one row, which one other holds: a set in which everyone
\* waits for a member and is waited for by one consists of circles.
WaitsFor(u, v) == pc[u] = "lock" /\ mem[u].want \in held[v]
Deadlocked(t) ==
  \E D \in SUBSET Txns :
    /\ t \in D
    /\ \A u \in D : (\E v \in D \ {u} : WaitsFor(u, v)) /\ (\E w \in D \ {u} : WaitsFor(w, u))

\* PostgreSQL finds the cycle and makes one of its members fail.
DeadlockVictim(t) ==
  /\ Deadlocked(t)
  /\ Raise(t, "deadlock")

-----------------------------------------------------------------------------
(* The loop over the lines that checks stock and adds up the total: each   *)
(* line is compared with the quantity read, no line has been taken off it. *)

Line(t) == mem[t].req.lines[mem[t].line]
LineItem(t) == ItemOf(mem[t].req, mem[t].line)

Enough_AnyStock(t) == mem[t].inv[LineItem(t)] > 0
Enough(t) == mem[t].inv[LineItem(t)] >= Line(t).quantity

\* The price is the one of the catalog read before the locks.
UnitPrice_Reread(t) == catalog[Line(t).product].price
UnitPrice(t) == mem[t].seen[Line(t).product].price

Insufficient(t) ==
  /\ pc[t] = "resolve"
  /\ ~Enough(t)
  /\ Raise(t, "insufficient")

LastLine(t) == mem[t].line = Len(mem[t].req.lines)
Advance_NoReset(t) == mem[t].line + 1
Advance(t) == IF LastLine(t) THEN 1 ELSE mem[t].line + 1

Resolve(t) ==
  /\ pc[t] = "resolve"
  /\ Enough(t)
  /\ mem' = [mem EXCEPT
       ![t].total = @ + UnitPrice(t) * Line(t).quantity,
       ![t].line = Advance(t)]
  /\ pc' = IF LastLine(t) THEN [pc EXCEPT ![t] = "write"] ELSE pc
  /\ UNCHANGED <<tables, catalog, held, answer>>

(* The loop that writes SaleLine, InventoryItem and InventoryMovement rows *)
(* of one line.  Nobody sees them before the commit.                       *)

WriteLine(t) ==
  /\ pc[t] = "write"
  /\ mem' = [mem EXCEPT
       ![t].inv[LineItem(t)] = @ - Line(t).quantity,
       ![t].delta[LineItem(t)] = @ - Line(t).quantity,
       ![t].line = Advance(t)]
  /\ pc' = IF LastLine(t) THEN [pc EXCEPT ![t] = "record"] ELSE pc
  /\ UNCHANGED <<tables, catalog, held, answer>>

-----------------------------------------------------------------------------
(* IdempotencyRecord.objects.create: the unique index on key makes the     *)
(* insert wait for a transaction that has inserted the same key, and fail  *)
(* if that one has committed.                                              *)

KeyFree_NoUniqueIndex(t) == t \in Txns
KeyFree(t) ==
  /\ records[mem[t].key] = None
  /\ \A u \in Txns \ {t} : ~(pc[u] = "commit" /\ mem[u].key = mem[t].key)

RecordKey(t) ==
  /\ pc[t] = "record"
  /\ KeyFree(t)
  /\ pc' = [pc EXCEPT ![t] = "commit"]
  /\ UNCHANGED <<tables, catalog, mem, held, answer>>

KeyTaken_TriesAgain(t) ==
  /\ pc[t] = "record"
  /\ records[mem[t].key] # None
  /\ UNCHANGED vars
KeyTaken(t) ==
  /\ pc[t] = "record"
  /\ records[mem[t].key] # None
  /\ Raise(t, "integrity")

Commit(t) ==
  LET m == mem[t]
      id == Len(sales) + 1
  IN  /\ pc[t] = "commit"
      /\ quantity' = [i \in Items |-> IF i \in held[t] THEN m.inv[i] ELSE quantity[i]]
      /\ moved' = [i \in Items |-> moved[i] + m.delta[i]]
      /\ sales' = Append(sales, [location |-> m.req.location,
                                 currency |-> m.req.currency, total |-> m.total,
                                 lines |-> SaleLines(m.req, m.seen)])
      /\ records' = [records EXCEPT ![m.key] =
                       [fingerprint |-> Fingerprint(m.req), sale |-> id,
                        total |-> m.total]]
      /\ audit' = audit \cup {[sale |-> id, total |-> m.total]}
      /\ Finish(t, m.key, m.req, "sale", id)
      /\ UNCHANGED catalog

\* The worker dies or its connection drops: the server rolls back.
Crash(t) ==
  /\ pc[t] # "idle"
  /\ Raise(t, "crash")

\* Products are edited by code outside this service.
EditCatalog ==
  /\ catalog' \in Catalogs \ {catalog}
  /\ UNCHANGED <<tables, pc, mem, held, answer>>

-----------------------------------------------------------------------------
Init ==
  /\ catalog \in Catalogs
  /\ quantity = Opening
  /\ moved = Zero
  /\ sales = <<>>
  /\ records = [k \in Keys |-> None]
  /\ audit = {}
  /\ pc = [t \in Txns |-> "idle"]
  /\ mem = [t \in Txns |-> Blank]
  /\ held = [t \in Txns |-> {}]
  /\ answer = [t \in Txns |-> NoAnswer]

Call(t) ==
  \E k \in Keys, q \in Requests :
    Invalid(t, k, q) \/ Replay(t, k, q) \/ Conflict(t, k, q) \/ Start(t, k, q)

\* The steps that take a call that has started towards its answer.
Step(t) ==
  \/ Unavailable(t) \/ ReadProducts(t) \/ NoRows(t)
  \/ LockRow(t) \/ MissingRow(t) \/ DeadlockVictim(t)
  \/ Insufficient(t) \/ Resolve(t) \/ WriteLine(t)
  \/ RecordKey(t) \/ KeyTaken(t) \/ Commit(t)

Next == EditCatalog \/ \E t \in Txns : Call(t) \/ Step(t) \/ Crash(t)

Spec == Init /\ [][Next]_vars

\* A session keeps running its call, and a row or key that is released again
\* and again is granted in the end: PostgreSQL queues the waiters.
FairSpec == Spec /\ \A t \in Txns : SF_vars(Step(t))

-----------------------------------------------------------------------------
(* Properties.                                                             *)

Locals ==
  [key: Keys \cup {None}, req: Requests \cup {None}, seen: Catalogs \cup {None},
   want: Items \cup {None}, inv: [Items -> Int], delta: [Items -> Int],
   line: Nat, total: Int]

Outcomes == {"none", "sale", "invalid", "conflict", "unavailable", "missing",
             "insufficient", "integrity", "deadlock", "crash"}

SaleType ==
  [location: {q.location : q \in Requests}, currency: {q.currency : q \in Requests},
   total: Int, lines: UNION {{SaleLines(q, c) : q \in Requests} : c \in Catalogs}]

Tables ==
  /\ catalog \in Catalogs
  /\ quantity \in [Items -> Int]
  /\ moved \in [Items -> Int]
  /\ sales \in Seq(SaleType)
  /\ records \in [Keys -> RecordType \cup {None}]
  /\ audit \subseteq [sale: Nat, total: Int]

Sessions ==
  /\ pc \in [Txns -> {"idle", "products", "lock", "resolve", "write", "record", "commit"}]
  /\ mem \in [Txns -> Locals]
  /\ held \in [Txns -> SUBSET Items]
  /\ answer \in [Txns -> [outcome: Outcomes, key: Keys \cup {None},
                            req: Requests \cup {None}, sale: Nat]]

\* What a session has set before it reaches each statement.
Ready(t) ==
  /\ pc[t] # "idle" =>
       mem[t].key # None /\ mem[t].req # None /\ Valid(mem[t].req)
  /\ pc[t] \in {"idle", "products"} => held[t] = {}
  /\ pc[t] \notin {"idle", "products"} => mem[t].seen # None
  /\ pc[t] = "lock" =>
       /\ mem[t].want \in Rows(mem[t].req) \ held[t]
       /\ held[t] \subseteq Rows(mem[t].req)
  /\ pc[t] \in {"resolve", "write", "record", "commit"} =>
       held[t] = Named(mem[t].req)
  /\ pc[t] \in {"resolve", "write"} => mem[t].line \in LineNos(mem[t].req)

\* Every table and every local variable of a session has the shape its code
\* gives it: a session that is in a loop over the lines is at a line of its
\* request and holds the rows of all of them.
TypeOK == Tables /\ Sessions /\ \A t \in Txns : Ready(t)

\* The stock on record is the opening stock plus every recorded movement
\* (ADR-002): of two checkouts of the same row at once neither overwrites
\* what the other took (item.quantity -= quantity; item.save()).
LedgerExact == \A i \in Items : quantity[i] = Opening[i] + moved[i]

Fresh(t) ==
  \A i \in Items :
    IF i \in held[t] THEN mem[t].inv[i] = quantity[i] + mem[t].delta[i]
                     ELSE mem[t].delta[i] = 0

\* What a session read under its lock is still what the table holds, but for
\* the lines it has itself taken off: the value that is compared with the
\* request, and later written back, is never stale.
FreshRows == \A t \in Txns : Fresh(t)

\* Checkouts that race for the last units together sell no more than there
\* were (INV-004), as long as no request names a product twice.
NeverOversold == \A i \in Items : Opening[i] + moved[i] >= 0 /\ quantity[i] >= 0

\* One sale per idempotency key and one key per sale (SALE-003, POS-003):
\* sessions that run the same key at once leave one sale, and no sale is
\* without the record that makes its retry harmless.
OneSalePerKey ==
  /\ \A s \in DOMAIN sales : \E k \in Keys : records[k] # None /\ records[k].sale = s
  /\ \A k \in Keys : records[k] # None => records[k].sale \in DOMAIN sales
  /\ \A k, l \in Keys :
       records[k] # None /\ records[l] # None /\ records[k].sale = records[l].sale => k = l

Sold(i) ==
  SumFunction([s \in DOMAIN sales |->
    SumFunction([n \in DOMAIN sales[s].lines |->
      IF sales[s].lines[n].item = i THEN sales[s].lines[n].quantity ELSE 0])])

LineTotals(s) ==
  SumFunction([n \in DOMAIN sales[s].lines |-> sales[s].lines[n].line_total])

\* Sales, stock movements and the audit trail tell the same story (SALE-004,
\* POS-004): what left each row is what the sales list, each total is the
\* sum of its lines although prices may be edited during the call, the record
\* a retry is answered from has the same total, and each sale is audited once.
BooksAgree ==
  /\ \A i \in Items : moved[i] = -Sold(i)
  /\ \A s \in DOMAIN sales : sales[s].total = LineTotals(s)
  /\ \A k \in Keys : records[k] # None => records[k].total = sales[records[k].sale].total
  /\ audit = {[sale |-> s, total |-> sales[s].total] : s \in DOMAIN sales}

\* A caller that is told "sale" is told of a committed sale of exactly what it
\* asked for, recorded under its key, whether it made the sale or replayed it.
AnswersHold ==
  \A t \in Txns : answer[t].outcome = "sale" =>
    LET a == answer[t] IN
      /\ records[a.key] # None /\ records[a.key].sale = a.sale
      /\ a.sale \in DOMAIN sales
      /\ sales[a.sale].location = a.req.location
      /\ sales[a.sale].currency = a.req.currency
      /\ [n \in DOMAIN sales[a.sale].lines |-> sales[a.sale].lines[n].item]
           = [n \in LineNos(a.req) |-> ItemOf(a.req, n)]
      /\ [n \in DOMAIN sales[a.sale].lines |-> sales[a.sale].lines[n].quantity]
           = [n \in LineNos(a.req) |-> a.req.lines[n].quantity]

\* A completed sale and the record of its key are never touched again
\* (SALE-001), whatever calls, crashes and retries follow.
HistoryPermanent ==
  [][/\ Len(sales) <= Len(sales')
     /\ \A s \in DOMAIN sales : sales'[s] = sales[s]
     /\ \A k \in Keys : records[k] # None => records'[k] = records[k]]_vars

\* A call that has started is answered, be it as the victim of a circle: neither
\* rows that are locked in any order nor a key that is inserted twice at once
\* keep a session for good (services.py:64-69, 121-126).
CallsEnd == \A t \in Txns : (pc[t] # "idle") ~> (pc[t] = "idle")

\* Replaying a key with the same request returns the original result
\* (docs/domain/contracts/transactional-model.md:51): no call whose request is
\* already recorded under its key ends in an error.
ReplayReturnsOriginal ==
  [][\A t \in Txns :
       /\ pc[t] # "idle" /\ pc'[t] = "idle"
       /\ records[mem[t].key] # None
       /\ records[mem[t].key].fingerprint = Fingerprint(mem[t].req)
       => answer'[t].outcome \in {"sale", "deadlock", "crash"}]_vars
=============================================================================
