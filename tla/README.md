# Formal models of Tokad Mart

TLA+ specifications of the parts of Tokad Mart where money and stock change
hands, TLC runs that check them on small shops, and TLAPS proofs of what matters
most for shops of any size. `PROJECT.json` lists the components, runs, mutants,
findings, hazards and theorems, and names for every definition the lines of the
source it stands for.

## 1. The system

Tokad Mart holds two backends that do not know each other, a browser till for
one of them, and scripts for coding agents.

| Part | State | Operations | Talks to | What is hard | Correct when |
|---|---|---|---|---|---|
| **Transactional checkout** `services/api/transactional/services.py` | `InventoryItem`, `InventoryMovement`, `Sale`, `SaleLine`, `IdempotencyRecord`, `AuditEvent`; reads `Product` | `checkout_sale` | PostgreSQL | sessions interleave at every statement; row locks, deadlocks, retries that overlap the original, rollback | no update lost, nothing oversold, one sale per key, books agree, every call answered |
| **Payment initiation** `payment_initiation.py` | `Payment`, `OutboxEvent`; reads `Sale` | `request_external_payment_initialization` | PostgreSQL, the outbox | one key from two callers, a sale cancelled meanwhile, failed events to revive | one payment per key and request, only for open sales, work queued with the payment |
| **Payment initiation handler** `payment_initiation_outbox.py` | `Payment`, `AuditEvent` | `handle(event)` | the outbox, the provider | delivery at least once, crashes between the provider's answer and its storage, payments settled meanwhile | no payment without an answer forgotten, no settled payment touched, one initiation |
| Outbox, providers, payment services | `OutboxEvent` | leasing, retry, settling | the two above | not in the repository | external |
| **POS backend** `backend/commerce/services.py`, `services_inventory.py`, `receiving.py` | `StockBalance`, `StockMovement`, `Sale`, `SaleItem`, `Payment`, `IdempotencyKey`, `SaleReturn`, `SaleReturnItem`, `InventoryAdjustment` | `checkout`, `return_sale`, `adjust_stock`, `receive` | SQLite or PostgreSQL, the till | rounding, returns in parts, retries, price edits | stock is its movements, shelves not negative, returns and refunds within the sale, retries replayed, used keys refused to others |
| **Cashier shifts** `backend/commerce/api.py`, `reconciliation.py` | `CashierShift` | open, close, list, summary | checkout, the till | late sales, second closings, two requests at once | a second open shift only by a race, closed shifts final, counted once, drawers reconcile |
| **POS web client** `components/POS.tsx` | cart, shift, token, last sale | sign in and out, add, change, checkout, open, close, return, print | POS backend over HTTP | double clicks, lost answers, late answers, stale prices, reloads | charged as shown, a cart emptied by the answer of a sale only, one sale per purchase |
| Agent worktrees `scripts/agent/worktree.sh` | branches, directories | create, remove, path | git | names that share a directory, branches left behind | what was created can be removed and created again |
| Agent checks, hooks, workflows | none | run tools | | linear | |
| Scanner, printer, permissions, roles, configuration, health check | none | reads and echoes | | | |

Two things about the source that shape the models:

* `services/api/transactional` targets PostgreSQL at READ COMMITTED, so its
  modules interleave at every statement that reads or locks. Its payment code
  imports modules (`outbox`, `payment_providers`, `payment_services`,
  `exceptions`) and uses columns and a table that are not in the repository;
  they are modelled from how the two files use them.
* `backend/commerce` runs on SQLite by default and on PostgreSQL under
  `docker-compose.yml`. `services.py:17` locks a row joined to the nullable
  `response_sale`, which PostgreSQL refuses ("FOR UPDATE cannot be applied to
  the nullable side of an outer join"), so checkout works on SQLite only. There,
  a transaction that writes is serial: it holds the one write lock, and one
  whose snapshot is stale fails with "database is locked" and changes nothing.
  `ShopLedger` therefore has one step per handler. The handlers that do run on
  PostgreSQL interleave there, and `StockSessions` has them statement by
  statement. Since checkout does not run there, the sales it returns were
  entered in the admin site or carried over with the data.

## 2. The modules

| Module | Models | Uses |
|---|---|---|
| `CheckoutSale` | `checkout_sale`, statement by statement | standard modules |
| `AtomicCheckout` | what it promises: each sale is one indivisible step | standard modules |
| `CheckoutRefinement` | the mapping from the first to the second | `CheckoutSale`, instance of `AtomicCheckout` |
| `CheckoutSaleProofs` | theorems about `CheckoutSale`: types, isolation, keys, stock | `CheckoutSale` |
| `CheckoutBooksProofs` | theorems about its books and answers, and that it implements `AtomicCheckout` | `CheckoutSaleProofs`, `CheckoutRefinement`, `FiniteSums` |
| `PaymentInitiation` | payment requests, the outbox, the handler | standard modules |
| `PaymentPromise` | what they promise together: the life of a key | none |
| `PaymentRefinement` | the mapping from the first to the second | `PaymentInitiation`, instance of `PaymentPromise` |
| `PaymentInitiationProofs` | theorems about `PaymentInitiation`, and that it implements `PaymentPromise` | `PaymentRefinement` |
| `ShopLedger` | the POS backend and its shifts, a step per handler | standard modules |
| `ShopLedgerProofs` | theorems about `ShopLedger` | `ShopLedger`, `FiniteSums` |
| `StockSessions` | its stock and shift handlers as sessions on PostgreSQL | standard modules |
| `StockSessionsProofs` | theorems about `StockSessions` | `StockSessions` |
| `StockRefinement` | the mapping from the sessions to `ShopLedger` | `StockSessions`, instance of `ShopLedger` |
| `StockRefinementProofs` | that the sessions implement `ShopLedger` | `StockRefinement`, `StockSessionsProofs`, `FiniteSums` |
| `PosTerminal` | the till and the network, composed with the backend | instance of `ShopLedger` |
| `PosTerminalProofs` | theorems about `PosTerminal` | `PosTerminal`, `FiniteSums` |
| `FiniteSums` | lemmas about finite sums, greatest elements and sequences | standard modules |
| `MCCheckoutSale`, `MCPaymentInitiation`, `MCShopLedger`, `MCStockSessions`, `MCPosTerminal` | instances for TLC: carts, stocks, price lists, requests | the modules they are named for |

An operator with a suffix, such as `Free_NoForUpdate`, is the definition of that
name with a plausible bug. Nothing uses it; `PROJECT.json` pairs each with the
property that a run sees violated when it takes the definition's place.

### CheckoutSale

| Code | Model |
|---|---|
| tables | `quantity`, `moved` (movements summed per row), `sales` (with their lines), `records`, `audit`; `catalog` is `Product`, edited from outside |
| a session in `checkout_sale` | `pc[t]` (the next statement), `mem[t]` (arguments and local variables), `held[t]` (rows locked) |
| lines 45-55, input checks and the idempotency lookup | `Invalid`, `Replay`, `Conflict`, `Start` |
| lines 57-60, products | `Unavailable`, `ReadProducts` |
| lines 62-69, `select_for_update` | `LockRow`, one row at a time in any order, since the query has no `ORDER BY`; `NoRows`, `MissingRow`, `DeadlockVictim` |
| lines 73-80, the loop that checks and prices | `Insufficient`, `Resolve`: a step per line |
| lines 92-110, the loop that writes | `WriteLine`: a step per line, into `mem[t].inv` and `mem[t].delta`, seen by nobody else |
| lines 121-126, the record | `RecordKey` takes the unique index on the key or waits for it, `KeyTaken` is its refusal |
| the end of the atomic block | `Commit` publishes everything; `Crash` and every exception publish nothing |

Abstracted: SKUs, names, references and times; the fingerprint is the tuple of
what the hash is taken of, order included; movements are kept as their sums.

### PaymentInitiation

| Code | Model |
|---|---|
| `pg_advisory_xact_lock`, `select_for_update` on the sale | `keyLock`, `saleLock`; released by `Answer`, the end of the transaction |
| lines 42-51 | `Request`, `NoEmail`, `LockKey`, `SaleNotFound`, `LockSale` |
| lines 53-100, the key is known | `KeyConflict`, `ReplayPayment`, `ResumePayment`, `ReadEvent`, `Enqueue`, `ReviveEvent` |
| lines 102-139, it is new | `SaleClosed`, `NewPayment`, `CreatePayment` |
| handler lines 27-38 | `ProviderMismatch`, `AlreadySettled`, `CopyPayment` |
| handler lines 40-73 | `InitiatePayment`, `UnexpectedIntent`, `ProviderError`, `NoteError` |
| handler lines 75-101 | `SettledMeanwhile`, `StoreLink` |
| external | `Claim`, `LeaseExpires`, `HandlerReturned`, `HandlerRaised`, `WorkerCrash` (the outbox); `SettlePayment`, `CancelSale`; `CallerCrash` |

Assumed of the outbox: an event goes to a worker under a lease, the lease can run
out while its worker is busy, the outcome of a handler counts only while it has
the lease, and an event whose handler raises is retried and after `MaxAttempts`
deliveries is `FAILED`, which is the state line 85 revives. Assumed of settling: it is done under
the row lock of the sale, by the transitions `docs/domain/contracts/state-machines.md` lists (a pending
payment succeeds, fails or is cancelled, and one that succeeded may be refunded), and success only for a payment the
provider knows. Nothing is assumed of the provider's answer: it may be for another payment, and its
`checkout_url` and `access_code` may both be blank. `link` says what of it is stored: nothing yet (`none`), a
`blank` answer or a `usable` one; line 70 counts only the last as something to pay with, and a later answer
replaces an earlier one, for better or worse. Abstracted: amounts, references and metadata other than the
address, the link and whether an error is noted. An address is what is left of it
after `strip()`; `None` is a blank one.

### ShopLedger

| Code | Model |
|---|---|
| `checkout` | `NoKey`, `Replay`, `Reject`, `Sell`; `Acceptable` is its checks, `TakeFrom` its writes, each line from its own copy of the balance row |
| `return_sale` | `ReturnSale`; `Requested` collapses rows that name one item, as the dict of line 27 does |
| `adjust_stock`, `receive` | `AdjustStock`, `Receive` |
| shifts | `OpenShift`, `CloseShift`; closing a closed shift changes nothing and is no step |
| `summary` | `ByMethod`, `Summary` |
| the admin site | `EditCatalog`, of products only |

Money is in cents, as in its columns. Quantities are not: a request may have more places than the three of a
column, and no code rounds it. So quantities are integers that count 1 / `Scale` of a piece, a column holds
the multiples of `Least`, and what is saved is `Stored` of what was computed, each column for itself: a
balance and its movement may be rounded differently. Checks, prices and refunds take the request as it came.
`Cents` and `Stored` are both `Decimal.quantize` with its default rounding, halves to the even digit, which
the code calls for money and Django for every decimal column. Opening stocks and deliveries are exact: the
former come from the columns, and a delivery's serializer refuses more than three places. `version` is written and never read, and is left out. A refused return,
adjustment or delivery changes nothing and is no step; a refused checkout is one,
because its answer matters to the properties of keys.

### StockSessions

One location, one cashier, and any number of sessions that make one call each.

| Code | Model |
|---|---|
| tables | `balance`, `moved` (movements summed per product), `returned`, `shifts` |
| a session | `pc[t]`, `call[t]`, `line[t]` (where its loop is), `read[t]`; `draft[t]`, `posted[t]`, `taken[t]` are what it has written and not committed |
| `services_inventory.py:26`, `select_for_update().select_related('location')` | `LockSale`: the sale and the location together |
| lines 16, 39, `receiving.py:35`, lock a balance | `LockRow`; `FindNoRow` if there is none |
| lines 17, 40, `create`; `receiving.py:35`, `get_or_create` | `CreateRow`; `RowTaken` if somebody was faster, from which only `get_or_create` recovers |
| lines 18-21, 41-42, `receiving.py:36-42` | `WriteRow` |
| `api.py:63`; `api.py:71-73` | `LookForShift`; `LockShift` |
| COMMIT, and the deferred foreign keys | `Commit`, which needs the location FOR KEY SHARE (`KeyShares`) |
| rollback, deadlock detection | `Abort`, `Crash`, `DeadlockVictim` |

`holder` has row locks and inserts under way alike: a session that inserts a row
is waited for by whoever inserts the same one. Abstracted: rounding (every quantity is one that its column holds)
and refunds, users, references; the rows of `SaleItem`, which line 33 locks too, are locked
under the sale already.

### PosTerminal

| Code | Model |
|---|---|
| state of the page, line 6 | `token`, `shift`, `cart`, `lastSale`; `basket` and `drawn` remember for the properties what each key was drawn for |
| lines 11, 12 | `ClickLogin`, `Logout`; `Reload` keeps the token, which is in local storage |
| lines 13, 14, 17, 19, up to `await` | `ClickOpenShift`, `ClickCloseShift`, `ClickCheckout`, `ClickReturn`: a request is sent |
| the same lines after `await`, and `then` of line 9 | `HearLogin` (from which the effect of line 9 asks for the shifts), `HearShift`, `HearCheckout`, `HearReturn`, whatever the page shows by then |
| lines 15, 16 | `Add`, `TakeOut`; the `filter` that drops a line of quantity zero is `Filtered`, a recursive function |
| `api.py:43-77` | `ServeCheckout`, `ServeReturn`, `ServeOpen`, `ServeClose`: `ShopLedger`'s steps and what they answer; `ServeShifts`, which may fail and then reads as an empty list; `ServeLogin` |
| the network | `requests`, a bag in no order; `Lose` |

Finding a product changes nothing and is one step with the click that follows. A password that is refused
is as a request that is lost. A return is of one piece of the first item of a sale.

### PaymentPromise

For each key a life (nothing, bare, queued, given up, blank, linked, settled) and the terms it stands for,
and for each caller what it was last told. `PaymentRefinement` reads the life off the rows of `Payment`
and `OutboxEvent`; a payment that is pending with no answer stored while its event is done has the life "lost", which
the promise does not know. A blank answer is a life it does know, and it promises nothing of it: see what was noticed in section 3.

## 3. What the runs show

### Runs that pass

| Run | Instance | Shows |
|---|---|---|
| `checkout_sessions` | 2 sessions, 2 keys, 3 rows, carts that lock in opposite orders and compete for the last units, odd carts, prices edited during calls | `LedgerExact`, `FreshRows`: the row lock spans read and commit. `NeverOversold`, `OneSalePerKey`, `HistoryPermanent`: races, deadlock victims, crashes and retries neither oversell, nor sell twice, nor rewrite a sale. `BooksAgree`: sales, movements, totals, records and audit agree. `AnswersHold`: who is told "sale" has the sale it asked for. `ImplementsAtomicCheckout`, and `CallsEnd` under fairness |
| `payment_requests` | 2 callers, 2 keys, 2 sales, 3 requests | `OneRequestPerKey`, `NobodyCollides`, `PaysOpenSale`, and `CallersAnswered` under fairness |
| `payment_deliveries` | 1 caller, 2 workers, 1 key, 4 requests, 2 deliveries | `WorkKept`: no pending payment without an answer has lost its event. `SettledStays`: late results leave settled payments alone, and only a refund changes one. `KeepsPromise`: caller and handler implement `PaymentPromise` |
| `shop_days` | 1 cashier, 2 shifts, 2 sales, 9 carts, returns in parts, a correction and deliveries, quantities that the columns round, prices edited | `StockIsItsMovements`, `ShelvesNotNegative`, `ReturnsWithinSale`, `WholeReturnRefundsLine`, `RetryGetsItsSale`, `TotalsReconcile`, `ClosedShiftFinal` |
| `stock_sessions` | 3 sessions, each with one of 8 calls; 3 products, one without a row; 2 sales of the same goods | the stock properties again, statement by statement; `ReturnsNeverCircle`, `CountedOnce`, `SecondShiftByRaceOnly`; `ImplementsShopLedger`; `CallsEnd` under fairness |
| `pos_till` | 1 cashier, 1 till, 1 product at 2 prices, 1 shift, 2 clicks on checkout, 2 requests under way | `ChargedAsShown`; `CartLeavesWithASale`: a refusal, or the answer of another request, leaves the cart alone |

Some of them deserve a word.

* `ImplementsShopLedger` says what the one-step handlers of `ShopLedger` are worth on PostgreSQL: every
  COMMIT of a stock or shift handler is one step of `ShopLedger`, and the other statements are none. The one
  exception is in the property: `SecondShift`, opened next to an open one, since `api.py:63` asks without a
  lock. `SecondShiftByRaceOnly` bounds it: whoever looked after a shift was committed does not open another.
* `ReturnsNeverCircle`: returns lock balances in the order of the request and could wait for each other;
  that line 26 locks the location with the sale keeps returns of one location apart. The
  same lock makes a return wait for, and be waited for by, every session that inserted a movement there and
  commits, so circles of a return and another call do exist, and the detector ends them.
* `CallsEnd`, in both runs, is about what the code does when it is interrupted: a session that finds its row,
  or its key, taken by another must give up or go on, and not try the same again. Since PostgreSQL fails a victim of every
  circle and a call that failed has ended, it says nothing about the order in which locks are taken; `ReturnsNeverCircle` does.
* `StockIsItsMovements` holds in `shop_days` because none of its requests lies half-way between two
  quantities of the column (`NoHalves`): what is added to a stock that the column holds is then rounded the same way
  with the stock and without. Half-way it need not be, since halves go to the even digit and each column is rounded for
  itself (`services_inventory.py:19, 21`): a stock of 5.001 corrected by -0.0005 becomes 5.000, with a movement of -0.000, and
  POS-004 (`docs/architecture/invariants/pos.md:6`) is broken by a thousandth. `WholeReturnRefundsLine` speaks of lines
  sold in a quantity the column holds for a like reason: 1.0004 pieces are charged as 1.0004 and can be returned as 1.000 only.
* `ChargedAsShown`: the box "Wholesale pricing" of the till changes what is shown and sent as the payment, but
  no customer is sent, so the backend charges retail; that payments must match to the cent
  (`services.py:75`) turns this, and every stale price, into a refusal and never into a wrong sale.

### Runs that find a violation

| Run | What happens |
|---|---|
| `checkout_twice_named` | A cart with two lines of one product, each within the stock, drives `quantity` below zero: `services.py:76` compares each line with the whole stock. `ShopLedger`'s checkout refuses such carts. |
| `checkout_replay_race` | The retry reads no record at `services.py:51`, the original commits, and the retry is refused for lack of stock or by the index of the key, although its sale is there. A later retry would be replayed. |
| `payment_redelivery` | A worker stores the link and dies, or outlives its lease; the event is handled again, the provider called again, the link replaced and a second `payment.initiated` audited: line 78 asks for the status, not for the link. |
| `shop_refunds` | One piece at 0.03 is returned in halves, each 0.015 and refunded as 0.02. |
| `shop_key_reuse` | A key that has sold is sent with another cart, and `services.py:18` answers with the first sale; `transactional-model.md:53` wants it rejected. |
| `pos_retry` | Checkout is clicked, and clicked again before the answer is there or after it was lost. Each click draws a key of its own, so the backend's replay of keys never sees a retry, and the cart is sold twice. |

Noticed, and not the subject of a run, since most of it takes no more than a few calls in a row:

* A provider's answer with a blank `checkout_url` and `access_code` is stored like any other
  (`payment_initiation_outbox.py:81-87`), and the event is done. A later request for the key finds nothing to pay with
  (`payment_initiation.py:70`) and leaves the event alone, since line 85 revives failed ones only. The payment stays pending and
  nobody works on it again.
* A part of a line too small for the column is refunded and recorded as 0 returned (`services_inventory.py:34-38`), so
  it can be returned without end; `ReturnsWithinSale` is about what is recorded. `RefundsWithinSale` fails that way too.
* A return has no key, neither in `doReturn` (`POS.tsx:19`) nor in `return_sale`: one that is submitted again is made
  again while the sale has any left, although POS-003 (`pos.md:5`) and ADR-004 want retries to be idempotent and
  `commands.md:81` lists a key among the inputs of `RefundSale`.
* A success that is heard late empties whatever cart is shown by then (`POS.tsx:17`): a product scanned while a sale is
  under way is thrown out with the cart, and so is the cart of a cashier who signed in meanwhile.
* The page can show a shift that is closed or another cashier's, when an answer arrives late (`POS.tsx:9, 13, 14`). This is
  harmless, since the server asks for owner and openness in the step that sells (`services.py:21`).
* The wholesale box makes every sale with a wholesale price of its own fail.

### Bounds, and why they are enough

Two sessions are what a lost update, a race for a unique index, a lock cycle or
an overlapping retry needs; the third of `stock_sessions` waits behind both, or closes a
circle of three, and the proofs have any number of sessions. Rows and carts that name them in both orders give lock cycles; an opening stock of 2 shirts
lets a cart with one and a cart with two compete for the last, and there are shoes for both, so that sessions also meet at the index of a key. Two keys separate "the same call again"
from "another call". Two workers and two deliveries let a lease run out under a
busy worker while another finishes; `MaxAttempts = 2` is the least at which an
event is both retried and given up. In `ShopLedger`, columns hold half pieces
(`Least = 3` of `Scale = 6`), whose prices have the halves of a cent that rounding is about, and requests have sixths: one is
rounded away, two are rounded up. With an odd `Least` nothing lies half-way. `MaxSales`, `MaxShifts`, `MaxQuantity` and `MaxRefund`
(beyond which parts that are stored as nothing are not returned again) are bounds of
the models only, and two sales and two shifts suffice for properties that relate
at most two of them. One cashier suffices for `shop_days`, since shifts of different cashiers share no state but
stock. It suffices for `pos_till` too, where a sign-in, a sign-out and a reload already make the page show what late answers
are not about: whose drawer is whose is decided by the server in the step that sells, and the proofs have any number of cashiers.
Its one shift can be closed while shown; its two clicks and two requests under way are a double click, a retry, or one request overtaken
by another. Its `MaxQuantity = 1` keeps a second piece out of the cart; quantities are what
`shop_days` is about, and `pos_retry` has two. `audits` stops counting at 2, which already is once too often.

`PaymentDeliveries` and `ShopDays` use symmetry of
callers and workers, and of keys. The runs with a liveness property do not.
Only `StockSessions` disables the deadlock check, because each of its sessions makes one call and all
of them may be done; that none stops before is `CallsEnd`. Elsewhere some session can always start, and some
till can always be clicked.

### Fairness

`CheckoutSale!FairSpec`, `PaymentInitiation!FairSpec` and `StockSessions!FairSpec` assume strong fairness of
each session's steps as a whole: a session that can run does, and one that waits for a
lock gets it if it becomes free again and again. PostgreSQL's lock queues serve
waiters in order, and its deadlock detector, which is a step of the victim, ends cycles.
Nobody is assumed to start a call, to retry, to crash or not to crash. No fairness is assumed of the
outbox, whose code is not in the repository, of cashiers or of the network, so nothing is claimed about
when an event is handled or a click is answered.

## 4. What is proved

Every safety property of the passing runs is proved too, for every value of the constants that meets
the assumptions their module declares on them. These say what the code's types and queries say (stocks and
prices are natural numbers, requests are sequences of rows, `None` is none of the values it is told apart
from); where a theorem needs more, its row has it under "if". Sets of sessions, keys, products, requests and
stocks are arbitrary, and may be infinite where nothing counts them.

Each module of proofs has the same shape: an invariant that is inductive, a lemma per action that preserves
it, with the lemmas on the operators that it takes, and theorems that read the properties off. The
last step combines `Init`, `Next` and the invariant with `PTL`.

| Theorem | Statement |
|---|---|
| **`CheckoutSaleProofs`** | |
| `TypeCorrect` | `Spec => []TypeOK` |
| `StockMatchesLedger` | `Spec => []LedgerExact` |
| `RowsFresh` | `Spec => []FreshRows` |
| `KeyBuysOnce` | `Spec => []OneSalePerKey` |
| `HistoryNeverChanges` | `Spec => HistoryPermanent` |
| `NoOversell` | `Spec => []NeverOversold`, if no request names a product twice |
| **`CheckoutBooksProofs`** | |
| `AccountsInvariant` | `Spec => [](TypeOK /\ Keyed /\ Accounts)` |
| `BooksBalance` | `Spec => []BooksAgree` |
| `AnswersTrue` | `Spec => []AnswersHold` |
| `SalesAtomic` | `Spec => ImplementsAtomicCheckout`, if no request names a product twice |
| **`PaymentInitiationProofs`** | |
| `ConsistencyInvariant`, `TypeCorrect` | `Spec => []Consistent`, `Spec => []TypeOK` |
| `NoCollision` | `Spec => []NobodyCollides` |
| `KeysKeepApart` | `Spec => []OneRequestPerKey`, if there is no payment older than the outbox (`Legacy = {}`) |
| `OpenSalesOnly` | `Spec => PaysOpenSale` |
| `WorkIsKept` | `Spec => []WorkKept` |
| `SettledForGood` | `Spec => SettledStays` |
| `PromiseKept` | `Spec => KeepsPromise` |
| **`ShopLedgerProofs`** | |
| `ConsistencyInvariant`, `TypeCorrect` | `Spec => []Consistent`, `Spec => []TypeOK` |
| `StockBooked` | `Spec => []StockIsItsMovements`, if no request lies half-way between two quantities of the column (`NoHalves`) |
| `NothingOversold` | `Spec => []ShelvesNotNegative` |
| `ReturnsFitSale` | `Spec => []ReturnsWithinSale` |
| `RetryAnswered` | `Spec => []RetryGetsItsSale` |
| `DrawerReconciles` | `Spec => []TotalsReconcile` |
| `WholeReturnPaid` | `Spec => WholeReturnRefundsLine` |
| `ClosedStaysClosed` | `Spec => ClosedShiftFinal` |
| **`StockSessionsProofs`** | |
| `ConsistencyInvariant`, `TypeCorrect` | `Spec => []Consistent`, `Spec => []TypeOK` |
| `NoUpdateLost` | `Spec => []StockIsItsMovements` |
| `NothingOverdrawn` | `Spec => []ShelvesNotNegative` |
| `ReturnsFitSale` | `Spec => []ReturnsWithinSale` |
| `ReturnsNeverDeadlock` | `Spec => []ReturnsNeverCircle` |
| `CountStands` | `Spec => CountedOnce` |
| `SecondShiftRaced` | `Spec => SecondShiftByRaceOnly` |
| **`StockRefinementProofs`** | |
| `SessionsAreHandlers` | `Spec /\ []Within => ImplementsShopLedger` |
| **`PosTerminalProofs`** | |
| `ConsistencyInvariant`, `TypeCorrect` | `Spec => []Consistent`, `Spec => []TypeOK` |
| `PaidAsShown` | `Spec => []ChargedAsShown` |
| `CartGoesWithItsSale` | `Spec => CartLeavesWithASale` |

The hypotheses under "if" are needed. `checkout_twice_named` is what happens to `NoOversell`, and so to
`SalesAtomic`, when a cart names a product twice, and section 3 says what happens to `StockBooked` without `NoHalves`. A payment that is older than the outbox has no
address on record and answers callers of every address (`payment_initiation.py:61-65`). `Within` says that balances fit their column; the code does not
look, and PostgreSQL fails the statement that would write a larger one, which `StockSessions` leaves out and
`ShopLedger` has as `MaxQuantity`.

### The arguments

**Checkout.** `TypeOK` contains `Ready(t)`, which ties the program counter of a session to
its local variables: in the loops it is at a line of its request and holds all of its rows.
`Isolated` adds that no two sessions hold one row and that what a session read under its lock is
the committed quantity less what it has itself taken, which is what `FreshRows` says and what makes
`Commit` add exactly its movements to `LedgerExact`; neither of the two is inductive without the
other. `Keyed` says that a session that has passed the unique index of its key is alone with it and
that the key has no record, from which one sale per key and the permanence of records follow.
`Supplied` says that what a session still has to write is covered by the rows it holds.

**Its books.** A commit publishes sums, and it does so in one step after loops that took many. `Counting`
bridges the two: at every line, the total a session has added up is the sum over the lines it has checked, at the
prices it has read, and the movements it has made are those of the lines it has written (`Checked`, `Booked`).
`Accounts` adds `RecordsHold`, that a record stands for the sale its key asked for, and `AllTold`, that each caller
was told the truth. `SalesAtomic` needs them all: the commit of a session is the `AtomicCheckout` step of its
request because the rows it takes from still have what it read.

**Payments.** `Consistent` has four parts. `RowOK`: an event has a holder exactly while it is `PROCESSING`, an event
is `DONE` only when its payment has an answer, usable or blank, or is settled, and only a legacy payment is pending without one. `Locked`: which locks a caller has at
which statement. `Fresh`: what it has read under them is still so, and this is why the insert cannot collide and why a
revived event was failed. `Given` and `Reported`: what callers were told and handlers
return is true of the rows. For `PromiseKept`, `Lives` shows that under this invariant no payment has the life
"lost", and every action is shown to be one step of `PaymentPromise` for the one key it touches, or none (`Alike`).

**The POS backend.** `Consistent` joins the properties that need each other: returns stay within a sale because
`returned` has a row for each of its items, a retry gets its sale because a key and its sale name each other
(`SaleOK`, `KeysOfSales`), a line sold in a quantity the column holds is refunded to the cent because
`line_total` is then `Cents` of the same product. What the columns round off is handled by a few lemmas on `Quantized`:
`Stored` is exact, never less than an exact bound below nor more than one above, so that balances stay natural numbers and
returns within what was sold however their parts are rounded; and unless a request lies half-way, an exact stock plus
a request is stored as that stock plus the request stored, which is all `StockBooked` needs beyond the rest. `TotalsReconcile` is a sum over
sales of sums over payments; it is exchanged with the sum over methods by the lemmas of `FiniteSums`.

**Its sessions.** `Booked(t)` is the heart of `Consistent`: what a session has written and not committed is under its
locks, and is the committed balance plus the movements it has made. With `Fresh(t)` (what it read is what
it would read now), `Granted(t)` (a return that passed its checks still fits, since it has the sale) and `TakenAsAsked(t)`, every commit
keeps the stock, the shelves and the returns. `ReturnsNeverDeadlock` takes no induction of its own: of the
sessions in a circle that are all returns, one past line 26 holds the location, so nobody else is past it.

**Sessions as handlers.** `Tracked` adds to `Consistent` that what a session has written is what the lines it has done
bring (`Progressing`), and that there is no more than one shift for each session that has ended
(`FewShifts`), which is what lets `ShopLedger`'s bound on shifts be met. Then there is a lemma for each kind of call:
`AdjustRefines`, `ReceiveRefines`, `ReturnRefines`, `OpenRefines`, `CloseRefines`. The commit of a delivery is the
interesting one, and that of a return: the sessions go line by line, `ShopLedger` adds to each product the sum over the lines
that name it, or looks up the one item that has it.

**The till.** `Consistent` has what the server keeps (`ServerOK`), what the page shows (`PageOK`) and what is true of every
message under way, early or late (`TrafficOK`): a request for a checkout pays what its key was drawn for, an answer names the sale
of the key that was sent, and the answer to a sign-in names who asked for it. Because every key is drawn for one cart at one total, it does not matter which
of them is served, when, or heard by which page.

### Induction

The library's induction theorems take an operator as a parameter, which the provers here cannot instantiate.
`FiniteSums` gets around it: `NaturalsInduct` and `SetsInduct` are induction with a set in place of an operator, and follow
from the pigeonhole principle (`FS_Injection`) and from removing an element of a finite set. From them come the facts on
`SumFunctionOnSet` (`SumAdding`, `SumUnion`, `SumAgrees`, `SumPlus`...), `MaxExists`, and in `PosTerminalProofs` what
`Filtered` returns.

## 5. What is only model-checked

* `CallsEnd` and `CallersAnswered`: liveness under fairness, which rests on `ENABLED` and is out of the prover's reach.
  That every circle of waiting sessions is ended is PostgreSQL's doing, and modelled.
* The properties of the runs that find a violation: they do not hold.

## 6. Not modelled, and why

* Scanner, printer, receipts, product and stock reads, health check: no state changes. Customers are plain CRUD that
  no other operation depends on beyond their existence.
* Permissions, roles, settings, migrations: configuration and generated code. That the admin site
  can overwrite stock, sales and payments by hand is listed as a hazard; any table can be changed so in any way,
  and a model of it would show nothing.
* Agent worktrees, checks, hooks and workflows: scripts that one person runs one at a time, around git and other
  tools that are not in the repository.
* The outbox, providers and payment services beyond what section 2 assumes: not in the repository.
* Liveness of payment work ("every payment is linked or settled in the end"): it would rest on fairness of
  the outbox's worker, which is not in the repository. `WorkKept` and `KeepsPromise` are what the repository's code
  owes to it.
* `checkout` of the POS backend on PostgreSQL: it fails there at its second statement (section 1).

## 7. Plan

Written, in this order: `CheckoutSale` with its abstract specification and proofs, because it
is where concurrency, retries and money meet; `PaymentInitiation`, because it is distributed; `ShopLedger`,
because the shop runs on it; `StockSessions`, `PosTerminal` and `PaymentPromise`, which put sessions, a till and a
promise around them. No component with state of its own is left to model.
The theorems followed in this order: `CheckoutSale`, `PaymentInitiation`, `StockSessions`, `ShopLedger`, then what takes sums
(`CheckoutBooksProofs`, the drawers of `ShopLedger`), the refinements, and `PosTerminal`. Left:

1. `PosTerminal` takes `ShopLedger`'s steps; that it implements `ShopLedger` as a whole, so that the theorems of
   `ShopLedgerProofs` carry over to the shop with its till, is one more refinement to state and prove.
2. Theorems about `AtomicCheckout` and `PaymentPromise` themselves: what a reader may conclude from the promise alone.
3. The faults of section 3 mended, such as a key drawn once per cart: what would then be true of every shop.

## 8. Running

```
tlc -config CheckoutSessions.cfg MCCheckoutSale   # and the other cfg files
tlapm CheckoutSaleProofs.tla                      # and the other modules of proofs: one to a few minutes each
```
