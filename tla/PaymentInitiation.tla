--------------------------- MODULE PaymentInitiation ---------------------------
(***************************************************************************)
(* External payments of services/api/transactional: the transaction that   *)
(* records a pending payment and durably queues the call to the provider   *)
(* (payment_initiation.py), and the outbox handler that makes the call and *)
(* stores its result (payment_initiation_outbox.py), as callers and outbox *)
(* workers run them at once.                                               *)
(*                                                                         *)
(* The outbox itself, the provider and the code that settles payments are  *)
(* not in the repository.  They are modelled from what the two files use   *)
(* of them: an event is delivered at least once, to a worker that leases   *)
(* it; a lease may run out while its worker is still busy; an event whose  *)
(* handler keeps raising ends FAILED; a provider call may succeed, answer  *)
(* nonsense, or fail with or without having reached the provider.          *)
(***************************************************************************)
EXTENDS Naturals

CONSTANTS
  Callers,          \* sessions that run request_external_payment_initialization
  Workers,          \* outbox workers that run the handler
  Keys,             \* payment idempotency keys
  Requests,         \* what callers ask for: [sale, email, provider]
  SaleRows,         \* the Sale rows and their first status
  Legacy,           \* requests whose Payment row may be older than the outbox
  HandlerProvider,  \* the provider the handler was made for
  MaxAttempts,      \* deliveries after which an event that fails is FAILED
  None

Sales == DOMAIN SaleRows
SaleStatuses == {"DRAFT", "PENDING_PAYMENT", "COMPLETED", "PAYMENT_FAILED", "CANCELLED"}
PaymentStatuses == {"PENDING", "SUCCEEDED", "FAILED", "CANCELLED", "REFUNDED"}

\* What is stored of the provider's answer: nothing yet, an answer whose
\* checkout_url and access_code are both blank, or one to pay with.
Links == {"none", "blank", "usable"}

Terms ==
  [sale: {q.sale : q \in Requests}, provider: {q.provider : q \in Requests},
   email: {q.email : q \in Requests} \cup {None}]
PaymentRows ==
  [sale: Sales, provider: {q.provider : q \in Requests},
   email: {q.email : q \in Requests} \cup {None}, status: PaymentStatuses,
   link: Links, error: BOOLEAN]
EventRows ==
  [status: {"PENDING", "PROCESSING", "DONE", "FAILED"}, holder: Workers \cup {None},
   attempts: 0 .. MaxAttempts]

ASSUME SaleAssumption == SaleRows \in [Sales -> SaleStatuses] /\ None \notin Sales
ASSUME LegacyAssumption == Legacy \subseteq {q \in Requests : q.sale \in Sales}
ASSUME AttemptsAssumption == MaxAttempts \in Nat \ {0}
ASSUME RequestAssumption == Requests \subseteq Terms
ASSUME NoneAssumption ==
  /\ None \notin Callers \cup Workers \cup Keys
  /\ None \notin Terms /\ None \notin PaymentRows /\ None \notin EventRows

VARIABLES
  sale,      \* Sale.status
  payment,   \* Payment by idempotency key; None where there is none
  event,     \* OutboxEvent "payment-initiation:<key>"; None where there is none
  audits,    \* AuditEvent rows "payment.initiated" of each payment; 2 is two or more
  opened,    \* payments the provider knows of
  keyLock,   \* the advisory lock of each key: the caller that has it, or None
  saleLock,  \* the row lock of each sale: the caller that has it, or None
  cpc,       \* the statement each caller runs next
  call,      \* the caller's arguments and the sale status it read
  answer,    \* what each caller was answered last
  wpc,       \* the statement each worker runs next
  job        \* the key of the event each worker was handed

database == <<sale, payment, event, audits, opened>>
callers == <<keyLock, saleLock, cpc, call, answer>>
workers == <<wpc, job>>
vars == <<database, callers, workers>>

NoCall == [key |-> None, req |-> None, status |-> None]
NoAnswer == [outcome |-> "none", key |-> None, req |-> None]

\* enqueue_outbox_event, as a new row.
Queued == [status |-> "PENDING", holder |-> None, attempts |-> 0]

PendingPayment_SaleStatus(q, email) ==
  [sale |-> q.sale, provider |-> q.provider, email |-> email, status |-> "PENDING_PAYMENT",
   link |-> "none", error |-> FALSE]
PendingPayment(q, email) ==
  [sale |-> q.sale, provider |-> q.provider, email |-> email, status |-> "PENDING",
   link |-> "none", error |-> FALSE]

-----------------------------------------------------------------------------
(* request_external_payment_initialization: one transaction, that holds    *)
(* the advisory lock of its key and the row lock of its sale to the end.   *)

Release_SessionLock(lock, c) ==
  [x \in DOMAIN lock |-> IF lock[x] = c /\ x \in Sales THEN None ELSE lock[x]]
Release(lock, c) == [x \in DOMAIN lock |-> IF lock[x] = c THEN None ELSE lock[x]]

\* What a caller is told; what it asked for is kept when it gets a payment.
Told(c, outcome) ==
  IF outcome = "payment" THEN [outcome |-> outcome, key |-> call[c].key, req |-> call[c].req]
                         ELSE [NoAnswer EXCEPT !.outcome = outcome]

\* The transaction of c ends, and the caller has an answer.
Answer(c, outcome) ==
  /\ keyLock' = Release(keyLock, c)
  /\ saleLock' = Release(saleLock, c)
  /\ cpc' = [cpc EXCEPT ![c] = "idle"]
  /\ call' = [call EXCEPT ![c] = NoCall]
  /\ answer' = [answer EXCEPT ![c] = Told(c, outcome)]
  /\ UNCHANGED workers

Raise(c, outcome) == Answer(c, outcome) /\ UNCHANGED database

\* A request without an email address is refused before any statement.
Request(c, k, q) ==
  /\ cpc[c] = "idle"
  /\ q.email # None
  /\ cpc' = [cpc EXCEPT ![c] = "key"]
  /\ call' = [call EXCEPT ![c] = [key |-> k, req |-> q, status |-> None]]
  /\ answer' = [answer EXCEPT ![c] = NoAnswer]
  /\ UNCHANGED <<database, keyLock, saleLock, workers>>

NoEmail(c, k, q) ==
  /\ cpc[c] = "idle"
  /\ q.email = None
  /\ Raise(c, "invalid")

\* _lock_payment_key
KeyFree_NoAdvisoryLock(k) == k \in Keys
KeyFree(k) == keyLock[k] = None

LockKey(c) ==
  /\ cpc[c] = "key"
  /\ KeyFree(call[c].key)
  /\ keyLock' = [keyLock EXCEPT ![call[c].key] = c]
  /\ cpc' = [cpc EXCEPT ![c] = "sale"]
  /\ UNCHANGED <<database, saleLock, call, answer, workers>>

\* Sale.objects.select_for_update().get(id=sale_id)
SaleNotFound(c) ==
  /\ cpc[c] = "sale"
  /\ call[c].req.sale \notin Sales
  /\ Raise(c, "no sale")

SaleFree(s) == saleLock[s] = None

LockSale_NoForUpdate(c) ==
  /\ cpc[c] = "sale"
  /\ call[c].req.sale \in Sales
  /\ call' = [call EXCEPT ![c].status = sale[call[c].req.sale]]
  /\ cpc' = [cpc EXCEPT ![c] = "payment"]
  /\ UNCHANGED <<database, keyLock, saleLock, answer, workers>>
LockSale(c) ==
  LET s == call[c].req.sale IN
  /\ cpc[c] = "sale"
  /\ s \in Sales
  /\ SaleFree(s)
  /\ saleLock' = [saleLock EXCEPT ![s] = c]
  /\ call' = [call EXCEPT ![c].status = sale[s]]
  /\ cpc' = [cpc EXCEPT ![c] = "payment"]
  /\ UNCHANGED <<database, keyLock, answer, workers>>

\* The key was used before for another sale, provider or email address.  A
\* legacy payment has no address to compare with.
Reused_IgnoresEmail(p, q) == p.sale # q.sale \/ p.provider # q.provider
Reused(p, q) ==
  \/ p.sale # q.sale
  \/ p.provider # q.provider
  \/ p.email # None /\ p.email # q.email

KeyConflict(c) ==
  LET p == payment[call[c].key] IN
  /\ cpc[c] = "payment"
  /\ p # None
  /\ Reused(p, call[c].req)
  /\ Raise(c, "conflict")

\* The payment is settled, or there is something to pay it with.
ReplayPayment(c) ==
  LET p == payment[call[c].key] IN
  /\ cpc[c] = "payment"
  /\ p # None
  /\ ~Reused(p, call[c].req)
  /\ p.status # "PENDING" \/ p.link = "usable"
  /\ Raise(c, "payment")

\* There is nothing to pay it with yet: is its event alive?
ResumePayment(c) ==
  LET p == payment[call[c].key] IN
  /\ cpc[c] = "payment"
  /\ p # None
  /\ ~Reused(p, call[c].req)
  /\ p.status = "PENDING" /\ p.link # "usable"
  /\ cpc' = [cpc EXCEPT ![c] = "event"]
  /\ UNCHANGED <<database, keyLock, saleLock, call, answer, workers>>

Alive_AnyStatus(e) == e # None
Alive(e) == e # None /\ e.status # "FAILED"

ReadEvent(c) ==
  LET e == event[call[c].key] IN
  /\ cpc[c] = "event"
  /\ IF Alive(e)
     THEN Raise(c, "payment")
     ELSE /\ cpc' = [cpc EXCEPT ![c] = IF e = None THEN "enqueue" ELSE "revive"]
          /\ UNCHANGED <<database, keyLock, saleLock, call, answer, workers>>

\* The index on the event's key refuses a second row and the transaction is
\* rolled back.
Enqueue(c) ==
  LET k == call[c].key IN
  /\ cpc[c] = "enqueue"
  /\ IF event[k] = None
     THEN /\ event' = [event EXCEPT ![k] = Queued]
          /\ Answer(c, "payment")
          /\ UNCHANGED <<sale, payment, audits, opened>>
     ELSE Raise(c, "integrity")

\* event.save(update_fields=[...]): the attempts are not reset.
ReviveEvent(c) ==
  LET k == call[c].key IN
  /\ cpc[c] = "revive"
  /\ event' = [event EXCEPT ![k].status = "PENDING", ![k].holder = None]
  /\ Answer(c, "payment")
  /\ UNCHANGED <<sale, payment, audits, opened>>

\* No payment has the key.
SaleClosed(c) ==
  /\ cpc[c] = "payment"
  /\ payment[call[c].key] = None
  /\ call[c].status # "PENDING_PAYMENT"
  /\ Raise(c, "sale state")

NewPayment(c) ==
  /\ cpc[c] = "payment"
  /\ payment[call[c].key] = None
  /\ call[c].status = "PENDING_PAYMENT"
  /\ cpc' = [cpc EXCEPT ![c] = "create"]
  /\ UNCHANGED <<database, keyLock, saleLock, call, answer, workers>>

\* The payment and its event are written by one transaction, which the
\* indexes on provider_reference and on the event's key refuse to run twice.
CreatePayment(c) ==
  LET k == call[c].key
      q == call[c].req
  IN  /\ cpc[c] = "create"
      /\ IF payment[k] = None /\ event[k] = None
         THEN /\ payment' = [payment EXCEPT ![k] = PendingPayment(q, q.email)]
              /\ event' = [event EXCEPT ![k] = Queued]
              /\ Answer(c, "payment")
              /\ UNCHANGED <<sale, audits, opened>>
         ELSE Raise(c, "integrity")

\* The caller's process dies: its transaction is rolled back.
CallerCrash(c) ==
  /\ cpc[c] # "idle"
  /\ Raise(c, "crash")

-----------------------------------------------------------------------------
(* The outbox hands events to workers.                                     *)

Claim(w, k) ==
  /\ wpc[w] = "idle"
  /\ event[k] # None /\ event[k].status = "PENDING"
  /\ event' = [event EXCEPT ![k] =
       [status |-> "PROCESSING", holder |-> w,
        attempts |-> IF @.attempts < MaxAttempts THEN @.attempts + 1 ELSE @.attempts]]
  /\ wpc' = [wpc EXCEPT ![w] = "check"]
  /\ job' = [job EXCEPT ![w] = k]
  /\ UNCHANGED <<sale, payment, audits, opened, callers>>

\* locked_until passes: the event may be handed to another worker, although
\* its worker may still be busy with it.
LeaseExpires(k) ==
  /\ event[k] # None /\ event[k].status = "PROCESSING"
  /\ event' = [event EXCEPT ![k].status = "PENDING", ![k].holder = None]
  /\ UNCHANGED <<sale, payment, audits, opened, callers, workers>>

\* The handler of w has ended; the outcome counts if w still has the lease.
Settle(w, status) ==
  LET k == job[w] IN
  /\ event' = IF event[k].holder = w
              THEN [event EXCEPT ![k].status = status, ![k].holder = None]
              ELSE event
  /\ wpc' = [wpc EXCEPT ![w] = "idle"]
  /\ job' = [job EXCEPT ![w] = None]
  /\ UNCHANGED <<sale, payment, audits, opened, callers>>

HandlerReturned(w) ==
  /\ wpc[w] = "return"
  /\ Settle(w, "DONE")

HandlerRaised(w) ==
  /\ wpc[w] = "raise"
  /\ Settle(w, IF event[job[w]].attempts < MaxAttempts THEN "PENDING" ELSE "FAILED")

WorkerCrash(w) ==
  /\ wpc[w] # "idle"
  /\ wpc' = [wpc EXCEPT ![w] = "idle"]
  /\ job' = [job EXCEPT ![w] = None]
  /\ UNCHANGED <<database, callers>>

-----------------------------------------------------------------------------
(* handle(event): each of its transactions locks the payment row, and the  *)
(* provider is called between them.                                        *)

Goto(w, next) ==
  /\ wpc' = [wpc EXCEPT ![w] = next]
  /\ UNCHANGED <<job, callers>>

ProviderMismatch(w) ==
  /\ wpc[w] = "check"
  /\ payment[job[w]].provider # HandlerProvider
  /\ Goto(w, "raise")
  /\ UNCHANGED database

AlreadySettled(w) ==
  /\ wpc[w] = "check"
  /\ payment[job[w]].provider = HandlerProvider
  /\ payment[job[w]].status # "PENDING"
  /\ Goto(w, "return")
  /\ UNCHANGED database

CopyPayment(w) ==
  /\ wpc[w] = "check"
  /\ payment[job[w]].provider = HandlerProvider
  /\ payment[job[w]].status = "PENDING"
  /\ Goto(w, "call")
  /\ UNCHANGED database

InitiatePayment(w) ==
  /\ wpc[w] = "call"
  /\ opened' = [opened EXCEPT ![job[w]] = TRUE]
  /\ Goto(w, "store")
  /\ UNCHANGED <<sale, payment, event, audits>>

\* The intent is for another provider, reference, amount or currency.
UnexpectedIntent(w) ==
  /\ wpc[w] = "call"
  /\ opened' \in {opened, [opened EXCEPT ![job[w]] = TRUE]}
  /\ Goto(w, "raise")
  /\ UNCHANGED <<sale, payment, event, audits>>

\* initiate_payment raises PaymentProviderError: it may have reached the
\* provider, whose answer was lost.
ProviderError(w) ==
  /\ wpc[w] = "call"
  /\ opened' \in {opened, [opened EXCEPT ![job[w]] = TRUE]}
  /\ Goto(w, "note")
  /\ UNCHANGED <<sale, payment, event, audits>>

\* The error is noted in the payment, whatever its status is by now, and
\* raised again.
NoteError_Swallowed(w) ==
  /\ wpc[w] = "note"
  /\ payment' = [payment EXCEPT ![job[w]].error = TRUE]
  /\ Goto(w, "return")
  /\ UNCHANGED <<sale, event, audits, opened>>
NoteError(w) ==
  /\ wpc[w] = "note"
  /\ payment' = [payment EXCEPT ![job[w]].error = TRUE]
  /\ Goto(w, "raise")
  /\ UNCHANGED <<sale, event, audits, opened>>

\* The second look at the status, after the call.
StillPending_NotAsked(w) == w \in Workers
StillPending(w) == payment[job[w]].status = "PENDING"

SettledMeanwhile(w) ==
  /\ wpc[w] = "store"
  /\ ~StillPending(w)
  /\ Goto(w, "return")
  /\ UNCHANGED database

\* Both fields are stored as the intent has them, and so replace what an
\* earlier delivery may have stored.
StoreLink(w, link) ==
  /\ wpc[w] = "store"
  /\ StillPending(w)
  /\ payment' = [payment EXCEPT ![job[w]].link = link]
  /\ audits' = [audits EXCEPT ![job[w]] = IF @ < 2 THEN @ + 1 ELSE @]
  /\ Goto(w, "return")
  /\ UNCHANGED <<sale, event, opened>>

-----------------------------------------------------------------------------
(* Code outside the repository settles and refunds payments and cancels    *)
(* sales, under the row lock of the sale.                                  *)

Transitions ==
  ({"PENDING"} \X {"SUCCEEDED", "FAILED", "CANCELLED"}) \cup {<<"SUCCEEDED", "REFUNDED">>}

SettlePayment(k, status) ==
  /\ payment[k] # None /\ <<payment[k].status, status>> \in Transitions
  /\ status = "SUCCEEDED" => opened[k]
  /\ saleLock[payment[k].sale] = None
  /\ payment' = [payment EXCEPT ![k].status = status]
  /\ sale' = IF sale[payment[k].sale] = "PENDING_PAYMENT" /\ status \in {"SUCCEEDED", "FAILED"}
             THEN [sale EXCEPT ![payment[k].sale] =
                     IF status = "SUCCEEDED" THEN "COMPLETED" ELSE "PAYMENT_FAILED"]
             ELSE sale
  /\ UNCHANGED <<event, audits, opened, callers, workers>>

CancelSale(s) ==
  /\ sale[s] = "PENDING_PAYMENT"
  /\ saleLock[s] = None
  /\ sale' = [sale EXCEPT ![s] = "CANCELLED"]
  /\ UNCHANGED <<payment, event, audits, opened, callers, workers>>

-----------------------------------------------------------------------------
Init ==
  /\ sale = SaleRows
  /\ payment \in [Keys -> {None} \cup {PendingPayment(q, None) : q \in Legacy}]
  /\ event = [k \in Keys |-> None]
  /\ audits = [k \in Keys |-> 0]
  /\ opened = [k \in Keys |-> FALSE]
  /\ keyLock = [k \in Keys |-> None]
  /\ saleLock = [s \in Sales |-> None]
  /\ cpc = [c \in Callers |-> "idle"]
  /\ call = [c \in Callers |-> NoCall]
  /\ answer = [c \in Callers |-> NoAnswer]
  /\ wpc = [w \in Workers |-> "idle"]
  /\ job = [w \in Workers |-> None]

CallerStep(c) ==
  \/ LockKey(c) \/ SaleNotFound(c) \/ LockSale(c)
  \/ KeyConflict(c) \/ ReplayPayment(c) \/ ResumePayment(c) \/ ReadEvent(c)
  \/ Enqueue(c) \/ ReviveEvent(c)
  \/ SaleClosed(c) \/ NewPayment(c) \/ CreatePayment(c)

HandlerStep(w) ==
  \/ ProviderMismatch(w) \/ AlreadySettled(w) \/ CopyPayment(w)
  \/ InitiatePayment(w) \/ UnexpectedIntent(w) \/ ProviderError(w) \/ NoteError(w)
  \/ SettledMeanwhile(w) \/ (\E link \in Links \ {"none"} : StoreLink(w, link))
  \/ HandlerReturned(w) \/ HandlerRaised(w)

Next ==
  \/ \E c \in Callers :
       \/ \E k \in Keys, q \in Requests : Request(c, k, q) \/ NoEmail(c, k, q)
       \/ CallerStep(c) \/ CallerCrash(c)
  \/ \E w \in Workers :
       (\E k \in Keys : Claim(w, k)) \/ HandlerStep(w) \/ WorkerCrash(w)
  \/ \E k \in Keys :
       LeaseExpires(k) \/ \E status \in PaymentStatuses : SettlePayment(k, status)
  \/ \E s \in Sales : CancelSale(s)

Spec == Init /\ [][Next]_vars

\* A caller that can run goes on, and one that waits for a lock gets it if it
\* is free again and again: PostgreSQL queues those who wait.
FairSpec == Spec /\ \A c \in Callers : SF_vars(CallerStep(c))

-----------------------------------------------------------------------------
(* Properties                                                              *)

CallerPoints == {"idle", "key", "sale", "payment", "event", "enqueue", "revive", "create"}
WorkerPoints == {"idle", "check", "call", "note", "store", "return", "raise"}
Outcomes ==
  {"none", "invalid", "no sale", "conflict", "payment", "sale state", "integrity", "crash"}

CallRows ==
  [key: Keys \cup {None}, req: Requests \cup {None}, status: SaleStatuses \cup {None}]
AnswerRows == [outcome: Outcomes, key: Keys \cup {None}, req: Requests \cup {None}]

DatabaseType ==
  /\ sale \in [Sales -> SaleStatuses]
  /\ payment \in [Keys -> PaymentRows \cup {None}]
  /\ event \in [Keys -> EventRows \cup {None}]
  /\ audits \in [Keys -> 0 .. 2] /\ opened \in [Keys -> BOOLEAN]
CallersType ==
  /\ keyLock \in [Keys -> Callers \cup {None}]
  /\ saleLock \in [Sales -> Callers \cup {None}]
  /\ cpc \in [Callers -> CallerPoints]
  /\ call \in [Callers -> CallRows]
  /\ answer \in [Callers -> AnswerRows]
WorkersType ==
  /\ wpc \in [Workers -> WorkerPoints]
  /\ job \in [Workers -> Keys \cup {None}]

\* What a caller asks for is known while it runs; a worker has an event of a
\* payment while it runs the handler.
Busy(c) == IF cpc[c] = "idle" THEN call[c] = NoCall
           ELSE call[c].key \in Keys /\ call[c].req \in Requests
Handed(w) == IF wpc[w] = "idle" THEN job[w] = None
             ELSE job[w] \in Keys /\ payment[job[w]] # None /\ event[job[w]] # None

\* The rows and the local variables have the shape the models and the two
\* functions give them: statuses are those of models.py, a worker has an event
\* exactly while it runs the handler.
TypeOK ==
  /\ DatabaseType /\ CallersType /\ WorkersType
  /\ \A c \in Callers : Busy(c)
  /\ \A w \in Workers : Handed(w)

\* A pending payment for which no answer of the provider is stored is never
\* forgotten: unless it is older than the outbox, its event is still queued,
\* being handled, or FAILED for a retry to revive (payment_initiation.py:127-137,
\* payment_initiation_outbox.py:47-56).
WorkKept ==
  \A k \in Keys :
    payment[k] # None /\ payment[k].status = "PENDING" /\ payment[k].link = "none" =>
      IF event[k] = None THEN payment[k].email = None ELSE event[k].status # "DONE"

\* Two callers that were both given the payment of one key had asked for the
\* same thing (payment_initiation.py:55-64).
OneRequestPerKey ==
  \A c, d \in Callers :
    /\ answer[c].outcome = "payment" /\ answer[d].outcome = "payment"
    /\ answer[c].key = answer[d].key
    => answer[c].req = answer[d].req

\* However callers race, the advisory lock and the row lock see to it that
\* nobody meets a unique index: losing a race is not an error
\* (payment_initiation.py:25-30, 46-53).
NobodyCollides == \A c \in Callers : answer[c].outcome # "integrity"

\* A payment row appears only while its sale waits for payment, at the moment
\* of the insert and not merely when the status was read
\* (payment_initiation.py:49, 102-105).
PaysOpenSale ==
  [][\A k \in Keys : payment[k] = None /\ payment'[k] # None =>
        sale[payment'[k].sale] = "PENDING_PAYMENT"]_vars

\* What is settled stays so: a late or repeated answer of the provider neither
\* reopens a payment nor touches its link, no payment changes hands, and the
\* one way on is the refund of a payment that succeeded
\* (payment_initiation_outbox.py:75-79, PAY-004, state-machines.md:20-25).
SettledStays ==
  [][\A k \in Keys : payment[k] # None =>
        /\ payment'[k].sale = payment[k].sale /\ payment'[k].email = payment[k].email
        /\ payment[k].status # "PENDING" =>
             /\ payment'[k].link = payment[k].link
             /\ \/ payment'[k].status = payment[k].status
                \/ payment[k].status = "SUCCEEDED" /\ payment'[k].status = "REFUNDED"]_vars

\* Every caller is answered: no order of locks leaves two waiting for each
\* other (payment_initiation.py:46-49).
CallersAnswered == \A c \in Callers : cpc[c] # "idle" ~> cpc[c] = "idle"

\* docs/decisions/ADR-004-idempotency.md: "Background jobs must be safe to
\* retry where they mutate business state." A payment is initiated once.
InitiatedOnce == \A k \in Keys : audits[k] < 2
=============================================================================
