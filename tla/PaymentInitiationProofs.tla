----------------------- MODULE PaymentInitiationProofs -----------------------
(***************************************************************************)
(* Theorems about PaymentInitiation, for any callers, workers, keys,       *)
(* requests, sales and number of deliveries: first its invariants, then    *)
(* that it implements PaymentPromise.                                      *)
(***************************************************************************)
EXTENDS PaymentRefinement, TLAPS

-----------------------------------------------------------------------------
(* The inductive invariant.                                                *)

\* The handler has nothing left to do for the payment of k.
Finished(k) == payment[k].status # "PENDING" \/ payment[k].link # "none"

\* The payment of k is what q asks for.
AskedFor(k, q) == payment[k] # None /\ ~Reused(payment[k], q)

\* Only a legacy payment, without address, is ever pending without an event,
\* and an event is DONE only when its payment is finished.
RowOK(k) ==
  /\ event[k] # None => payment[k] # None
  /\ event[k] # None => (event[k].holder # None <=> event[k].status = "PROCESSING")
  /\ payment[k] # None /\ event[k] = None => payment[k].link = "none"
  /\ payment[k] # None /\ event[k] = None /\ payment[k].status = "PENDING"
     => payment[k].email = None
  /\ event[k] # None /\ event[k].status = "DONE" => Finished(k)

\* The locks a caller has at each of its statements.
InSale == {"payment", "event", "enqueue", "revive", "create"}
Locked(c) ==
  /\ cpc[c] \notin {"idle", "key"} => keyLock[call[c].key] = c
  /\ cpc[c] \in InSale => call[c].req.sale \in Sales /\ saleLock[call[c].req.sale] = c

\* What a caller has read is still so: nobody changed it behind its locks.
Fresh(c) ==
  LET k == call[c].key
      q == call[c].req
  IN  /\ cpc[c] # "idle" => q.email # None
      /\ cpc[c] \in InSale => call[c].status = sale[q.sale]
      /\ cpc[c] \in {"event", "enqueue", "revive"} =>
           AskedFor(k, q) /\ payment[k].status = "PENDING"
      /\ cpc[c] = "enqueue" => event[k] = None
      /\ cpc[c] = "revive" => event[k] # None /\ event[k].status = "FAILED"
      /\ cpc[c] = "create" => payment[k] = None /\ call[c].status = "PENDING_PAYMENT"

\* A caller was told only of a payment it had asked for, and never met an index.
Given(c) ==
  /\ answer[c].outcome # "integrity"
  /\ answer[c].outcome = "payment" =>
       /\ answer[c].key \in Keys /\ answer[c].req \in Requests
       /\ answer[c].req.email # None
       /\ AskedFor(answer[c].key, answer[c].req)

\* A handler returns only when its payment is finished.
Reported(w) == wpc[w] = "return" => Finished(job[w])

CallerOK(c) == Busy(c) /\ Locked(c) /\ Fresh(c) /\ Given(c)
WorkerOK(w) == Handed(w) /\ Reported(w)

Consistent ==
  /\ DatabaseType /\ CallersType /\ WorkersType
  /\ \A k \in Keys : RowOK(k)
  /\ \A c \in Callers : CallerOK(c)
  /\ \A w \in Workers : WorkerOK(w)

-----------------------------------------------------------------------------
(* Rows and answers.                                                       *)

LEMMA NoneIsNoRow ==
  /\ None \notin PaymentRows /\ None \notin EventRows
  /\ None \notin Callers /\ None \notin Workers /\ None \notin Keys
  /\ None \notin Sales /\ None \notin Requests
BY NoneAssumption, SaleAssumption, RequestAssumption

LEMMA InitConsistent == Init => Consistent
<1> SUFFICES ASSUME Init PROVE Consistent
  OBVIOUS
<1>1. \A q \in Legacy : PendingPayment(q, None) \in PaymentRows
  BY LegacyAssumption DEF PendingPayment, PaymentRows, PaymentStatuses, Links
<1>2. payment \in [Keys -> PaymentRows \cup {None}]
  BY <1>1 DEF Init
<1>3. DatabaseType
  BY <1>2, SaleAssumption DEF Init, DatabaseType
<1>4. NoCall \in CallRows /\ NoAnswer \in AnswerRows
  BY DEF NoCall, NoAnswer, CallRows, AnswerRows, Outcomes
<1>5. CallersType /\ WorkersType
  BY <1>4 DEF Init, CallersType, WorkersType, CallerPoints, WorkerPoints
<1>6. (\A c \in Callers : Busy(c)) /\ (\A w \in Workers : Handed(w))
  BY DEF Init, Busy, Handed
<1>7. ASSUME NEW k \in Keys PROVE RowOK(k)
  <2>1. event[k] = None
    BY DEF Init
  <2>2. payment[k] # None => payment[k].link = "none" /\ payment[k].email = None
    BY DEF Init, PendingPayment
  <2>. QED BY <2>1, <2>2 DEF RowOK
<1>8. \A c \in Callers : Locked(c) /\ Fresh(c) /\ Given(c)
  BY DEF Init, Locked, Fresh, Given, InSale, NoAnswer
<1>9. \A w \in Workers : Reported(w)
  BY DEF Init, Reported
<1>. QED BY <1>3, <1>5, <1>6, <1>7, <1>8, <1>9 DEF Consistent, CallerOK, WorkerOK

-----------------------------------------------------------------------------
(* What every step keeps of a payment.                                     *)

\* What a settled payment may become.
Onward(s, t) == t = s \/ (s = "SUCCEEDED" /\ t = "REFUNDED")

\* A payment keeps its terms, is settled once and changes its link only while
\* it is pending, and its event stays; a new one is for an open sale.
Grows(k) ==
  /\ payment[k] # None =>
       /\ payment'[k] # None
       /\ payment'[k].sale = payment[k].sale
       /\ payment'[k].provider = payment[k].provider
       /\ payment'[k].email = payment[k].email
       /\ payment[k].status # "PENDING" =>
            Onward(payment[k].status, payment'[k].status) /\ payment'[k].link = payment[k].link
       /\ payment[k].link # "none" => payment'[k].link # "none"
  /\ payment[k] = None /\ payment'[k] # None =>
       payment'[k].email # None /\ sale[payment'[k].sale] = "PENDING_PAYMENT"
  /\ event[k] # None => event'[k] # None

\* A sound step leads from a consistent state to one.
StepOK == Consistent' /\ \A k \in Keys : Grows(k)

LEMMA SameGrows ==
  ASSUME UNCHANGED payment, UNCHANGED event
  PROVE  \A k \in Keys : Grows(k)
BY DEF Grows, Onward

\* A row that is written again.
Noted(p) == [p EXCEPT !.error = TRUE]
Linked(p, link) == [p EXCEPT !.link = link]
Became(p, s) == [p EXCEPT !.status = s]

LEMMA RowProgress ==
  ASSUME NEW p \in PaymentRows
  PROVE  /\ Noted(p).status = p.status /\ Noted(p).link = p.link
         /\ \A l \in Links : Linked(p, l).status = p.status /\ Linked(p, l).link = l
         /\ \A s \in PaymentStatuses : Became(p, s).status = s /\ Became(p, s).link = p.link
BY DEF PaymentRows, Noted, Linked, Became

\* A row keeps its terms when it is written again, and once it is settled its
\* status and its link.
Rewrites(p, r) ==
  /\ r \in PaymentRows
  /\ r.sale = p.sale /\ r.provider = p.provider /\ r.email = p.email
  /\ p.status # "PENDING" => Onward(p.status, r.status) /\ r.link = p.link
  /\ p.link # "none" => r.link # "none"

LEMMA RowRewritten ==
  ASSUME NEW p \in PaymentRows
  PROVE  /\ Rewrites(p, Noted(p))
         /\ \A l \in Links \ {"none"} : p.status = "PENDING" => Rewrites(p, Linked(p, l))
         /\ \A s \in PaymentStatuses :
              <<p.status, s>> \in Transitions => Rewrites(p, Became(p, s))
BY DEF PaymentRows, Rewrites, Noted, Linked, Became, Onward, Transitions

LEMMA EventUpdates ==
  ASSUME NEW e \in EventRows, NEW s \in {"PENDING", "DONE", "FAILED"}
  PROVE  [e EXCEPT !.status = s, !.holder = None] \in EventRows
BY DEF EventRows

\* The outbox hands out, takes back and closes events; a caller queues one.
LEMMA EventGrows ==
  ASSUME DatabaseType, UNCHANGED payment, NEW k \in Keys, NEW e \in EventRows,
         event' = [event EXCEPT ![k] = e]
  PROVE  \A j \in Keys : Grows(j)
BY NoneIsNoRow DEF DatabaseType, Grows, Onward

LEMMA PaymentGrows ==
  ASSUME DatabaseType, UNCHANGED event, NEW k \in Keys, NEW r, payment[k] # None,
         Rewrites(payment[k], r), payment' = [payment EXCEPT ![k] = r]
  PROVE  \A j \in Keys : Grows(j)
<1>1. payment'[k] = r /\ \A j \in Keys \ {k} : payment'[j] = payment[j]
  BY DEF DatabaseType
<1>2. Grows(k)
  BY <1>1, NoneIsNoRow DEF Grows, Rewrites
<1>. QED BY <1>1, <1>2 DEF Grows, Onward

-----------------------------------------------------------------------------
(* What a step leaves alone.                                               *)

\* A step of somebody else: the locks of d keep what they protect as it is.
Undisturbed(d) ==
  /\ cpc'[d] = cpc[d] /\ call'[d] = call[d] /\ answer'[d] = answer[d]
  /\ \A s \in Sales : saleLock[s] = d =>
       /\ saleLock'[s] = d /\ sale'[s] = sale[s]
       /\ \A k \in Keys : payment[k] # None /\ payment[k].sale = s =>
            payment'[k].status = payment[k].status
  /\ \A k \in Keys : keyLock[k] = d =>
       /\ keyLock'[k] = d
       /\ payment[k] = None => payment'[k] = None
       /\ event[k] = None => event'[k] = None
       /\ event[k] # None /\ event[k].status = "FAILED" => event'[k].status = "FAILED"

LEMMA UndisturbedOK ==
  ASSUME NEW d \in Callers, CallerOK(d), Undisturbed(d), \A k \in Keys : Grows(k)
  PROVE  CallerOK(d)'
<1> DEFINE k == call[d].key
           q == call[d].req
<1>1. Busy(d)'
  BY DEF Busy, CallerOK, Undisturbed
<1>2. cpc[d] # "idle" => k \in Keys /\ q \in Requests
  BY DEF Busy, CallerOK
<1>3. Locked(d)'
  BY <1>2 DEF Locked, CallerOK, Undisturbed, InSale
<1>4. Fresh(d)'
  <2>1. cpc[d] # "idle" => q.email # None
    BY DEF CallerOK, Fresh
  <2>2. cpc[d] \in InSale => call[d].status = sale'[q.sale]
    BY DEF CallerOK, Fresh, Locked, Undisturbed, InSale
  <2>3. cpc[d] \in {"event", "enqueue", "revive"} => AskedFor(k, q)' /\ payment'[k].status = "PENDING"
    BY <1>2 DEF CallerOK, Fresh, Locked, Undisturbed, InSale, AskedFor, Grows, Reused
  <2>4. cpc[d] = "enqueue" => event'[k] = None
    BY <1>2 DEF CallerOK, Fresh, Locked, Undisturbed
  <2>5. cpc[d] = "revive" => event'[k] # None /\ event'[k].status = "FAILED"
    BY <1>2 DEF CallerOK, Fresh, Locked, Undisturbed, Grows
  <2>6. cpc[d] = "create" => payment'[k] = None /\ call[d].status = "PENDING_PAYMENT"
    BY <1>2 DEF CallerOK, Fresh, Locked, Undisturbed
  <2>. QED BY <2>1, <2>2, <2>3, <2>4, <2>5, <2>6 DEF Fresh, Undisturbed, AskedFor
<1>5. Given(d)'
  BY DEF Given, CallerOK, Undisturbed, Grows, AskedFor, Reused
<1>. QED BY <1>1, <1>3, <1>4, <1>5 DEF CallerOK

LEMMA WorkerStays ==
  ASSUME NEW w \in Workers, WorkerOK(w), wpc'[w] = wpc[w], job'[w] = job[w],
         \A k \in Keys : Grows(k)
  PROVE  WorkerOK(w)'
<1>1. Handed(w)'
  BY DEF WorkerOK, Handed, Grows
<1>2. Reported(w)'
  BY DEF WorkerOK, Reported, Finished, Handed, Grows, Onward
<1>. QED BY <1>1, <1>2 DEF WorkerOK

\* A step of one caller.
LEMMA CallerStepOK ==
  ASSUME Consistent, NEW c \in Callers, UNCHANGED workers, DatabaseType', CallersType',
         \A k \in Keys : Grows(k) /\ RowOK(k)',
         \A d \in Callers \ {c} : Undisturbed(d),
         CallerOK(c)'
  PROVE  StepOK
<1>1. \A d \in Callers : CallerOK(d)'
  BY UndisturbedOK DEF Consistent
<1>2. \A w \in Workers : WorkerOK(w)'
  BY WorkerStays DEF Consistent, workers
<1>3. WorkersType'
  BY DEF Consistent, WorkersType, workers
<1>. QED BY <1>1, <1>2, <1>3 DEF Consistent, StepOK

\* A step of one worker.
LEMMA WorkerStepOK ==
  ASSUME Consistent, NEW w \in Workers, UNCHANGED callers, DatabaseType', WorkersType',
         \A k \in Keys : Grows(k) /\ RowOK(k)',
         \A d \in Callers : Undisturbed(d),
         \A v \in Workers \ {w} : wpc'[v] = wpc[v] /\ job'[v] = job[v],
         WorkerOK(w)'
  PROVE  StepOK
<1>1. \A d \in Callers : CallerOK(d)'
  BY UndisturbedOK DEF Consistent
<1>2. \A v \in Workers : WorkerOK(v)'
  BY WorkerStays DEF Consistent
<1>3. CallersType'
  BY DEF Consistent, CallersType, callers
<1>. QED BY <1>1, <1>2, <1>3 DEF Consistent, StepOK

\* A step of the database alone.
LEMMA OtherStepOK ==
  ASSUME Consistent, UNCHANGED <<callers, workers>>, DatabaseType',
         \A k \in Keys : Grows(k) /\ RowOK(k)',
         \A d \in Callers : Undisturbed(d)
  PROVE  StepOK
<1>1. \A d \in Callers : CallerOK(d)'
  BY UndisturbedOK DEF Consistent
<1>2. \A v \in Workers : WorkerOK(v)'
  BY WorkerStays DEF Consistent, workers
<1>3. CallersType' /\ WorkersType'
  BY DEF Consistent, CallersType, WorkersType, callers, workers
<1>. QED BY <1>1, <1>2, <1>3 DEF Consistent, StepOK

\* A step that changes no row.
LEMMA QuietDatabase ==
  ASSUME Consistent, UNCHANGED database
  PROVE  DatabaseType' /\ \A k \in Keys : Grows(k) /\ RowOK(k)'
<1>1. \A k \in Keys : RowOK(k)'
  BY DEF Consistent, RowOK, Finished, database
<1>. QED BY <1>1, SameGrows DEF Consistent, DatabaseType, database

-----------------------------------------------------------------------------
(* The steps of a caller.                                                  *)

\* A caller that is answered gives up its own locks and no others.
LEMMA AnswerFrees ==
  ASSUME CallersType, NEW c \in Callers, NEW outcome \in Outcomes, Busy(c), Answer(c, outcome)
  PROVE  /\ CallersType'
         /\ cpc'[c] = "idle" /\ call'[c] = NoCall /\ answer'[c] = Told(c, outcome)
         /\ \A d \in Callers \ {c} :
              /\ cpc'[d] = cpc[d] /\ call'[d] = call[d] /\ answer'[d] = answer[d]
              /\ \A s \in Sales : saleLock[s] = d => saleLock'[s] = d
              /\ \A k \in Keys : keyLock[k] = d => keyLock'[k] = d
<1>1. keyLock' \in [Keys -> Callers \cup {None}] /\ saleLock' \in [Sales -> Callers \cup {None}]
  BY DEF Answer, Release, CallersType
<1>2. Told(c, outcome) \in AnswerRows
  BY DEF Told, NoAnswer, AnswerRows, CallersType, CallRows, Outcomes
<1>3. NoCall \in CallRows
  BY DEF NoCall, CallRows
<1>4. CallersType'
  BY <1>1, <1>2, <1>3 DEF Answer, CallersType, CallerPoints
<1>5. cpc'[c] = "idle" /\ call'[c] = NoCall /\ answer'[c] = Told(c, outcome)
  BY DEF Answer, CallersType
<1>6. \A d \in Callers \ {c} :
        cpc'[d] = cpc[d] /\ call'[d] = call[d] /\ answer'[d] = answer[d]
  BY DEF Answer, CallersType
<1>7. \A d \in Callers \ {c} :
        /\ \A s \in Sales : saleLock[s] = d => saleLock'[s] = d
        /\ \A k \in Keys : keyLock[k] = d => keyLock'[k] = d
  BY DEF Answer, CallersType, Release
<1>. QED BY <1>4, <1>5, <1>6, <1>7

\* A caller may be told anything but that it met an index, and of a payment
\* only if it asked for it.
LEMMA AnsweredOK ==
  ASSUME Consistent, NEW c \in Callers, NEW outcome \in Outcomes \ {"integrity"},
         Answer(c, outcome), NEW k, NEW q, k = call[c].key, q = call[c].req,
         outcome = "payment" => cpc[c] # "idle" /\ AskedFor(k, q)'
  PROVE  CallerOK(c)'
<1>1. Busy(c) /\ CallersType /\ Fresh(c)
  BY DEF Consistent, CallerOK
<1>2. cpc'[c] = "idle" /\ call'[c] = NoCall /\ answer'[c] = Told(c, outcome)
  BY <1>1, AnswerFrees
<1>3. Busy(c)' /\ Locked(c)' /\ Fresh(c)'
  BY <1>2 DEF Busy, Locked, Fresh, InSale
<1>4. Given(c)'
  <2>1. CASE outcome = "payment"
    <3>1. answer'[c] = [outcome |-> "payment", key |-> k, req |-> q]
      BY <1>2, <2>1 DEF Told
    <3>2. k \in Keys /\ q \in Requests /\ q.email # None
      BY <1>1, <2>1 DEF Busy, Fresh
    <3>. QED BY <2>1, <3>1, <3>2 DEF Given
  <2>2. CASE outcome # "payment"
    BY <1>2, <2>2 DEF Told, Given, NoAnswer
  <2>. QED BY <2>1, <2>2
<1>. QED BY <1>3, <1>4 DEF CallerOK

LEMMA RaiseOK ==
  ASSUME Consistent, NEW c \in Callers, NEW outcome \in Outcomes \ {"integrity"},
         Raise(c, outcome),
         outcome = "payment" => cpc[c] # "idle" /\ AskedFor(call[c].key, call[c].req)
  PROVE  StepOK
<1>1. Answer(c, outcome) /\ UNCHANGED database /\ UNCHANGED workers
  BY DEF Raise, Answer
<1>2. CallersType' /\ \A d \in Callers \ {c} : Undisturbed(d)
  BY <1>1, AnswerFrees DEF Consistent, CallerOK, Undisturbed, database
<1>3. CallerOK(c)'
  <2> DEFINE k == call[c].key
             q == call[c].req
  <2>1. AskedFor(k, q) => payment'[k] # None /\ ~Reused(payment'[k], q)
    BY <1>1 DEF AskedFor, database
  <2>2. PICK j, r : j = k /\ r = q
    OBVIOUS
  <2>3. outcome = "payment" => AskedFor(j, r)'
    BY <2>1, <2>2 DEF AskedFor, Reused
  <2>. QED BY <1>1, <2>2, <2>3, AnsweredOK
<1>. QED BY <1>1, <1>2, <1>3, QuietDatabase, CallerStepOK

\* The steps that answer a caller and write nothing.
Raises(c) ==
  \/ \E k \in Keys, q \in Requests : NoEmail(c, k, q)
  \/ SaleNotFound(c) \/ KeyConflict(c) \/ ReplayPayment(c) \/ SaleClosed(c) \/ CallerCrash(c)

LEMMA RaisesOK ==
  ASSUME Consistent, NEW c \in Callers, Raises(c)
  PROVE  StepOK
<1>1. CASE ReplayPayment(c)
  BY <1>1, RaiseOK DEF ReplayPayment, AskedFor, Outcomes
<1>2. CASE ~ReplayPayment(c)
  <2>1. \E outcome \in Outcomes \ {"integrity", "payment"} : Raise(c, outcome)
    BY <1>2 DEF Raises, NoEmail, SaleNotFound, KeyConflict, SaleClosed, CallerCrash, Outcomes
  <2>. QED BY <2>1, RaiseOK
<1>. QED BY <1>1, <1>2

\* Moving on, a caller disturbs nobody.
LEMMA MoveOK ==
  ASSUME Consistent, NEW c \in Callers, UNCHANGED <<database, workers>>, CallersType',
         CallerOK(c)',
         \A d \in Callers \ {c} :
           /\ cpc'[d] = cpc[d] /\ call'[d] = call[d] /\ answer'[d] = answer[d]
           /\ \A s \in Sales : saleLock[s] = d => saleLock'[s] = d
           /\ \A k \in Keys : keyLock[k] = d => keyLock'[k] = d
  PROVE  StepOK
<1>1. \A d \in Callers \ {c} : Undisturbed(d)
  BY DEF Undisturbed, database
<1>. QED BY <1>1, QuietDatabase, CallerStepOK

LEMMA RequestOK ==
  ASSUME Consistent, NEW c \in Callers, NEW k \in Keys, NEW q \in Requests, Request(c, k, q)
  PROVE  StepOK
<1> DEFINE m == [key |-> k, req |-> q, status |-> None]
<1>1. m \in CallRows /\ NoAnswer \in AnswerRows
  BY DEF CallRows, AnswerRows, NoAnswer, Outcomes
<1>2. CallersType'
  BY <1>1 DEF Request, Consistent, CallersType, CallerPoints
<1>3. cpc'[c] = "key" /\ call'[c].key = k /\ call'[c].req = q /\ answer'[c].outcome = "none"
  BY DEF Request, Consistent, CallersType, NoAnswer
<1>4. CallerOK(c)'
  <2>1. Busy(c)' /\ Locked(c)' /\ Given(c)'
    BY <1>3 DEF Busy, Locked, Given, InSale
  <2>2. Fresh(c)'
    BY <1>3 DEF Request, Fresh, InSale
  <2>. QED BY <2>1, <2>2 DEF CallerOK
<1>. QED BY <1>2, <1>4, MoveOK DEF Request, Consistent, CallersType

LEMMA LockKeyOK ==
  ASSUME Consistent, NEW c \in Callers, LockKey(c)
  PROVE  StepOK
<1> DEFINE k == call[c].key
<1>0. k \in Keys /\ CallersType /\ CallerOK(c) /\ cpc[c] = "key"
  BY DEF Consistent, CallerOK, Busy, LockKey
<1>1. CallersType'
  BY <1>0 DEF LockKey, CallersType, CallerPoints
<1>2. cpc'[c] = "sale" /\ call'[c] = call[c] /\ answer'[c] = answer[c] /\ keyLock'[k] = c
  BY <1>0 DEF LockKey, CallersType
<1>3. CallerOK(c)'
  <2>1. Busy(c)' /\ Locked(c)' /\ Fresh(c)'
    BY <1>0, <1>2 DEF CallerOK, Busy, Locked, Fresh, InSale
  <2>2. Given(c)'
    BY <1>0, <1>2 DEF LockKey, CallerOK, Given, AskedFor, database
  <2>. QED BY <2>1, <2>2 DEF CallerOK
<1>4. \A j \in Keys, d \in Callers : keyLock[j] = d => keyLock'[j] = d
  BY <1>0, NoneIsNoRow DEF LockKey, KeyFree, CallersType
<1>. QED BY <1>0, <1>1, <1>3, <1>4, MoveOK DEF LockKey, CallersType

LEMMA LockSaleOK ==
  ASSUME Consistent, NEW c \in Callers, LockSale(c)
  PROVE  StepOK
<1> DEFINE s == call[c].req.sale
<1>0. s \in Sales /\ CallersType /\ CallerOK(c) /\ cpc[c] = "sale" /\ call[c] \in CallRows
  BY DEF Consistent, CallerOK, CallersType, LockSale
<1>1. sale[s] \in SaleStatuses
  BY <1>0 DEF Consistent, DatabaseType
<1>2. /\ [call[c] EXCEPT !.status = sale[s]] \in CallRows
      /\ [call[c] EXCEPT !.status = sale[s]].key = call[c].key
      /\ [call[c] EXCEPT !.status = sale[s]].req = call[c].req
      /\ [call[c] EXCEPT !.status = sale[s]].status = sale[s]
  BY <1>0, <1>1 DEF CallRows
<1>3. call' = [call EXCEPT ![c] = [call[c] EXCEPT !.status = sale[s]]]
  BY DEF LockSale
<1>4. CallersType'
  BY <1>0, <1>2, <1>3 DEF LockSale, CallersType, CallerPoints
<1>5. /\ cpc'[c] = "payment" /\ answer'[c] = answer[c]
      /\ saleLock'[s] = c /\ keyLock'[call[c].key] = keyLock[call[c].key]
      /\ call'[c].key = call[c].key /\ call'[c].req = call[c].req /\ call'[c].status = sale'[s]
  BY <1>0, <1>2, <1>3 DEF LockSale, CallersType, database
<1>6. CallerOK(c)'
  <2>1. Busy(c)' /\ Locked(c)'
    BY <1>0, <1>5 DEF CallerOK, Busy, Locked, InSale
  <2>2. Fresh(c)'
    BY <1>0, <1>5 DEF CallerOK, Fresh, InSale
  <2>3. Given(c)'
    BY <1>0, <1>5 DEF LockSale, CallerOK, Given, AskedFor, database
  <2>. QED BY <2>1, <2>2, <2>3 DEF CallerOK
<1>7. \A d \in Callers \ {c} : cpc'[d] = cpc[d] /\ call'[d] = call[d] /\ answer'[d] = answer[d]
  BY <1>0, <1>3 DEF LockSale, CallersType
<1>8. \A x \in Sales, d \in Callers : saleLock[x] = d => saleLock'[x] = d
  BY <1>0, NoneIsNoRow DEF LockSale, SaleFree, CallersType
<1>. QED BY <1>4, <1>6, <1>7, <1>8, MoveOK DEF LockSale

\* The steps that only tell a caller what to do next.
Decides(c) ==
  \/ ResumePayment(c)
  \/ ReadEvent(c) /\ ~Alive(event[call[c].key])
  \/ NewPayment(c)

LEMMA DecidesOK ==
  ASSUME Consistent, NEW c \in Callers, Decides(c)
  PROVE  StepOK
<1> DEFINE k == call[c].key
           q == call[c].req
<1>0. CallersType /\ CallerOK(c) /\ cpc[c] \in {"payment", "event"} /\ k \in Keys
  BY DEF Consistent, CallerOK, Busy, Decides, ResumePayment, ReadEvent, NewPayment
<1>1. PICK next \in {"event", "enqueue", "revive", "create"} : cpc' = [cpc EXCEPT ![c] = next]
  BY DEF Decides, ResumePayment, ReadEvent, NewPayment
<1>2. UNCHANGED <<database, keyLock, saleLock, call, answer, workers>>
  BY DEF Decides, ResumePayment, ReadEvent, NewPayment
<1>3. CallersType'
  BY <1>0, <1>1, <1>2 DEF CallersType, CallerPoints
<1>4. cpc'[c] = next /\ \A d \in Callers \ {c} : cpc'[d] = cpc[d]
  BY <1>0, <1>1 DEF CallersType
<1>5. next = "event" => AskedFor(k, q) /\ payment[k].status = "PENDING"
  BY <1>0, <1>4 DEF Decides, ResumePayment, ReadEvent, NewPayment, AskedFor, CallersType
<1>6. next \in {"enqueue", "revive"} =>
        /\ AskedFor(k, q) /\ payment[k].status = "PENDING"
        /\ next = "enqueue" => event[k] = None
        /\ next = "revive" => event[k] # None /\ event[k].status = "FAILED"
  BY <1>0, <1>4 DEF Decides, ResumePayment, ReadEvent, NewPayment, Alive, CallerOK, Fresh, CallersType
<1>7. next = "create" => payment[k] = None /\ call[c].status = "PENDING_PAYMENT"
  BY <1>0, <1>4 DEF Decides, ResumePayment, ReadEvent, NewPayment, CallersType
<1>8. CallerOK(c)'
  <2>1. Busy(c)' /\ Locked(c)'
    BY <1>0, <1>2, <1>4 DEF CallerOK, Busy, Locked, InSale
  <2>2. Fresh(c)'
    BY <1>0, <1>2, <1>4, <1>5, <1>6, <1>7 DEF CallerOK, Fresh, InSale, AskedFor, database
  <2>3. Given(c)'
    BY <1>0, <1>2 DEF CallerOK, Given, AskedFor, database
  <2>. QED BY <2>1, <2>2, <2>3 DEF CallerOK
<1>. QED BY <1>2, <1>3, <1>4, <1>8, MoveOK

LEMMA ReadEventOK ==
  ASSUME Consistent, NEW c \in Callers, ReadEvent(c)
  PROVE  StepOK
<1>1. CASE Alive(event[call[c].key])
  <2>1. Raise(c, "payment") /\ cpc[c] = "event"
    BY <1>1 DEF ReadEvent
  <2>2. AskedFor(call[c].key, call[c].req)
    BY <2>1 DEF Consistent, CallerOK, Fresh
  <2>. QED BY <2>1, <2>2, RaiseOK DEF Outcomes
<1>2. CASE ~Alive(event[call[c].key])
  BY <1>2, DecidesOK DEF Decides
<1>. QED BY <1>1, <1>2

LEMMA QueuedRow == Queued \in EventRows /\ Queued.status = "PENDING" /\ Queued.holder = None
BY AttemptsAssumption DEF Queued, EventRows

\* A row of the table of events is written; those of other keys stay.
LEMMA EventWritten ==
  ASSUME DatabaseType, NEW k \in Keys, NEW e \in EventRows, event' = [event EXCEPT ![k] = e]
  PROVE  /\ event' \in [Keys -> EventRows \cup {None}] /\ event'[k] = e
         /\ \A j \in Keys \ {k} : event'[j] = event[j]
BY DEF DatabaseType

LEMMA EnqueueOK ==
  ASSUME Consistent, NEW c \in Callers, Enqueue(c)
  PROVE  StepOK
<1>0. PICK k \in Keys, q \in Requests : k = call[c].key /\ q = call[c].req
  BY DEF Consistent, CallerOK, Busy, Enqueue
<1>1. /\ AskedFor(k, q) /\ payment[k].status = "PENDING" /\ event[k] = None
      /\ keyLock[k] = c /\ CallersType /\ DatabaseType /\ Busy(c) /\ cpc[c] = "enqueue"
  BY <1>0 DEF Consistent, CallerOK, Fresh, Locked, Enqueue
<1>2. /\ event' = [event EXCEPT ![k] = Queued] /\ Answer(c, "payment")
      /\ UNCHANGED <<sale, payment, audits, opened, workers>>
  BY <1>0, <1>1 DEF Enqueue, Answer
<1>3. /\ event' \in [Keys -> EventRows \cup {None}] /\ event'[k] = Queued
      /\ \A j \in Keys \ {k} : event'[j] = event[j]
  BY <1>1, <1>2, QueuedRow, EventWritten
<1>4. DatabaseType' /\ \A j \in Keys : Grows(j)
  BY <1>1, <1>2, <1>3, QueuedRow, EventGrows DEF DatabaseType
<1>5. ASSUME NEW j \in Keys PROVE RowOK(j)'
  <2>1. CASE j = k
    BY <2>1, <1>1, <1>2, <1>3, QueuedRow, NoneIsNoRow DEF RowOK, AskedFor
  <2>2. CASE j # k
    BY <2>2, <1>2, <1>3 DEF Consistent, RowOK, Finished
  <2>. QED BY <2>1, <2>2
<1>6. /\ CallersType'
      /\ \A d \in Callers \ {c} :
           /\ cpc'[d] = cpc[d] /\ call'[d] = call[d] /\ answer'[d] = answer[d]
           /\ \A s \in Sales : saleLock[s] = d => saleLock'[s] = d
           /\ \A j \in Keys : keyLock[j] = d => keyLock'[j] = d
  BY <1>1, <1>2, AnswerFrees DEF Outcomes
<1>7. ASSUME NEW d \in Callers \ {c} PROVE Undisturbed(d)
  BY <1>1, <1>2, <1>3, <1>6 DEF Undisturbed
<1>8. AskedFor(k, q)'
  BY <1>1, <1>2 DEF AskedFor, Reused
<1>9. CallerOK(c)'
  BY <1>0, <1>1, <1>2, <1>8, AnsweredOK DEF Outcomes
<1>. QED BY <1>2, <1>4, <1>5, <1>6, <1>7, <1>9, CallerStepOK

LEMMA ReviveEventOK ==
  ASSUME Consistent, NEW c \in Callers, ReviveEvent(c)
  PROVE  StepOK
<1>0. PICK k \in Keys, q \in Requests : k = call[c].key /\ q = call[c].req
  BY DEF Consistent, CallerOK, Busy, ReviveEvent
<1> DEFINE e == [event[k] EXCEPT !.status = "PENDING", !.holder = None]
<1>1. /\ AskedFor(k, q) /\ payment[k].status = "PENDING" /\ event[k] # None
      /\ keyLock[k] = c /\ CallersType /\ DatabaseType /\ Busy(c) /\ cpc[c] = "revive"
  BY <1>0 DEF Consistent, CallerOK, Fresh, Locked, ReviveEvent
<1>2. /\ event' = [event EXCEPT ![k] = e] /\ Answer(c, "payment")
      /\ UNCHANGED <<sale, payment, audits, opened, workers>>
  BY <1>0, <1>1 DEF ReviveEvent, Answer, DatabaseType
<1>3. e \in EventRows /\ e.status = "PENDING" /\ e.holder = None
  BY <1>1 DEF DatabaseType, EventRows
<1> HIDE DEF e
<1>4. /\ event' \in [Keys -> EventRows \cup {None}] /\ event'[k] = e
      /\ \A j \in Keys \ {k} : event'[j] = event[j]
  BY <1>1, <1>2, <1>3, EventWritten
<1>5. DatabaseType' /\ \A j \in Keys : Grows(j)
  BY <1>1, <1>2, <1>3, <1>4, EventGrows DEF DatabaseType
<1>6. ASSUME NEW j \in Keys PROVE RowOK(j)'
  <2>1. CASE j = k
    BY <2>1, <1>1, <1>2, <1>3, <1>4, NoneIsNoRow DEF RowOK, AskedFor
  <2>2. CASE j # k
    BY <2>2, <1>2, <1>4 DEF Consistent, RowOK, Finished
  <2>. QED BY <2>1, <2>2
<1>7. /\ CallersType'
      /\ \A d \in Callers \ {c} :
           /\ cpc'[d] = cpc[d] /\ call'[d] = call[d] /\ answer'[d] = answer[d]
           /\ \A s \in Sales : saleLock[s] = d => saleLock'[s] = d
           /\ \A j \in Keys : keyLock[j] = d => keyLock'[j] = d
  BY <1>1, <1>2, AnswerFrees DEF Outcomes
<1>8. ASSUME NEW d \in Callers \ {c} PROVE Undisturbed(d)
  BY <1>1, <1>2, <1>4, <1>7 DEF Undisturbed
<1>9. AskedFor(k, q)'
  BY <1>1, <1>2 DEF AskedFor, Reused
<1>10. CallerOK(c)'
  BY <1>0, <1>1, <1>2, <1>9, AnsweredOK DEF Outcomes
<1>. QED BY <1>2, <1>5, <1>6, <1>7, <1>8, <1>10, CallerStepOK

LEMMA CreatePaymentOK ==
  ASSUME Consistent, NEW c \in Callers, CreatePayment(c)
  PROVE  StepOK
<1>0. PICK k \in Keys, q \in Requests : k = call[c].key /\ q = call[c].req
  BY DEF Consistent, CallerOK, Busy, CreatePayment
<1> DEFINE p == PendingPayment(q, q.email)
<1>1. /\ payment[k] = None /\ event[k] = None /\ q.email # None /\ q.sale \in Sales
      /\ keyLock[k] = c /\ CallersType /\ DatabaseType /\ Busy(c) /\ cpc[c] = "create"
      /\ sale[q.sale] = "PENDING_PAYMENT"
  BY <1>0 DEF Consistent, CallerOK, Fresh, Locked, CreatePayment, RowOK, InSale
<1>2. /\ payment' = [payment EXCEPT ![k] = p] /\ event' = [event EXCEPT ![k] = Queued]
      /\ Answer(c, "payment") /\ UNCHANGED <<sale, audits, opened, workers>>
  BY <1>0, <1>1 DEF CreatePayment, Answer
<1>3. p \in PaymentRows /\ ~Reused(p, q) /\ p.status = "PENDING"
      /\ p.sale = q.sale /\ p.email = q.email
  BY <1>1 DEF PendingPayment, PaymentRows, PaymentStatuses, Reused, Links
<1> HIDE DEF p
<1>4. /\ payment' \in [Keys -> PaymentRows \cup {None}] /\ payment'[k] = p
      /\ \A j \in Keys \ {k} : payment'[j] = payment[j]
  BY <1>1, <1>2, <1>3 DEF DatabaseType
<1>5. /\ event' \in [Keys -> EventRows \cup {None}] /\ event'[k] = Queued
      /\ \A j \in Keys \ {k} : event'[j] = event[j]
  BY <1>1, <1>2, QueuedRow, EventWritten
<1>6. DatabaseType'
  BY <1>1, <1>2, <1>4, <1>5 DEF DatabaseType
<1>7. \A j \in Keys : Grows(j)
  BY <1>1, <1>3, <1>4, <1>5 DEF Grows, Onward
<1>8. ASSUME NEW j \in Keys PROVE RowOK(j)'
  <2>1. CASE j = k
    BY <2>1, <1>3, <1>4, <1>5, QueuedRow, NoneIsNoRow DEF RowOK
  <2>2. CASE j # k
    BY <2>2, <1>4, <1>5 DEF Consistent, RowOK, Finished
  <2>. QED BY <2>1, <2>2
<1>9. /\ CallersType'
      /\ \A d \in Callers \ {c} :
           /\ cpc'[d] = cpc[d] /\ call'[d] = call[d] /\ answer'[d] = answer[d]
           /\ \A s \in Sales : saleLock[s] = d => saleLock'[s] = d
           /\ \A j \in Keys : keyLock[j] = d => keyLock'[j] = d
  BY <1>1, <1>2, AnswerFrees DEF Outcomes
<1>10. ASSUME NEW d \in Callers \ {c} PROVE Undisturbed(d)
  BY <1>1, <1>2, <1>4, <1>5, <1>9 DEF Undisturbed
<1>11. AskedFor(k, q)'
  BY <1>3, <1>4, NoneIsNoRow DEF AskedFor, Reused
<1>12. CallerOK(c)'
  BY <1>0, <1>1, <1>2, <1>11, AnsweredOK DEF Outcomes
<1>. QED BY <1>2, <1>6, <1>7, <1>8, <1>9, <1>10, <1>12, CallerStepOK

-----------------------------------------------------------------------------
(* The steps of the outbox.                                                *)

\* The outbox writes the event of k, and FAILED ones are not its business.
LEMMA OutboxWrites ==
  ASSUME Consistent, NEW k \in Keys, NEW e \in EventRows, event[k] # None,
         event[k].status # "FAILED",
         event' = [event EXCEPT ![k] = e],
         e.holder # None <=> e.status = "PROCESSING",
         e.status = "DONE" => Finished(k),
         UNCHANGED <<sale, payment, audits, opened, callers>>
  PROVE  /\ DatabaseType'
         /\ \A j \in Keys : Grows(j) /\ RowOK(j)'
         /\ \A d \in Callers : Undisturbed(d)
<1>1. /\ event' \in [Keys -> EventRows \cup {None}] /\ event'[k] = e
      /\ \A j \in Keys \ {k} : event'[j] = event[j]
  BY EventWritten DEF Consistent
<1>2. DatabaseType' /\ \A j \in Keys : Grows(j)
  BY <1>1, EventGrows DEF Consistent, DatabaseType
<1>3. ASSUME NEW j \in Keys PROVE RowOK(j)'
  <2>1. RowOK(j)
    BY DEF Consistent
  <2>2. CASE j = k
    BY <1>1, <2>1, <2>2, NoneIsNoRow DEF RowOK, Finished
  <2>3. CASE j # k
    BY <1>1, <2>1, <2>3 DEF RowOK, Finished
  <2>. QED BY <2>2, <2>3
<1>4. \A d \in Callers : Undisturbed(d)
  BY <1>1 DEF Undisturbed, callers
<1>. QED BY <1>2, <1>3, <1>4

LEMMA ClaimOK ==
  ASSUME Consistent, NEW w \in Workers, NEW k \in Keys, Claim(w, k)
  PROVE  StepOK
<1> DEFINE n == IF event[k].attempts < MaxAttempts THEN event[k].attempts + 1
                                                   ELSE event[k].attempts
           e == [status |-> "PROCESSING", holder |-> w, attempts |-> n]
<1>1. event[k] \in EventRows /\ event[k].status = "PENDING" /\ event[k] # None
  BY DEF Consistent, DatabaseType, Claim
<1>2. e \in EventRows /\ e.status = "PROCESSING" /\ e.holder # None
  BY <1>1, AttemptsAssumption, NoneIsNoRow DEF EventRows
<1>3. event' = [event EXCEPT ![k] = e]
  BY DEF Claim, Consistent, DatabaseType
<1> HIDE DEF e
<1>4. /\ DatabaseType'
      /\ \A j \in Keys : Grows(j) /\ RowOK(j)'
      /\ \A d \in Callers : Undisturbed(d)
  BY <1>1, <1>2, <1>3, OutboxWrites DEF Claim
<1>5. WorkersType' /\ wpc'[w] = "check" /\ job'[w] = k
  BY DEF Claim, Consistent, WorkersType, WorkerPoints
<1>6. WorkerOK(w)'
  <2>1. payment[k] # None
    BY <1>1 DEF Consistent, RowOK
  <2>2. payment'[k] # None /\ event'[k] # None
    BY <1>1, <1>4, <2>1 DEF Grows
  <2>. QED BY <1>5, <2>2 DEF WorkerOK, Handed, Reported
<1>7. \A v \in Workers \ {w} : wpc'[v] = wpc[v] /\ job'[v] = job[v]
  BY DEF Claim, Consistent, WorkersType
<1>. QED BY <1>4, <1>5, <1>6, <1>7, WorkerStepOK DEF Claim

\* What the outbox writes when it takes an event back or closes it.
LEMMA EventClosed ==
  ASSUME NEW e \in EventRows, NEW s \in {"PENDING", "DONE", "FAILED"}
  PROVE  LET r == [e EXCEPT !.status = s, !.holder = None]
         IN  r \in EventRows /\ r.status = s /\ r.holder = None
BY DEF EventRows

LEMMA LeaseExpiresOK ==
  ASSUME Consistent, NEW k \in Keys, LeaseExpires(k)
  PROVE  StepOK
<1> DEFINE e == [event[k] EXCEPT !.status = "PENDING", !.holder = None]
<1>1. event[k] \in EventRows /\ event[k].status = "PROCESSING" /\ event[k] # None
  BY DEF Consistent, DatabaseType, LeaseExpires
<1>2. e \in EventRows /\ e.status = "PENDING" /\ e.holder = None
  BY <1>1, EventClosed
<1>3. event' = [event EXCEPT ![k] = e]
  BY DEF LeaseExpires, Consistent, DatabaseType
<1> HIDE DEF e
<1>. QED BY <1>1, <1>2, <1>3, OutboxWrites, OtherStepOK DEF LeaseExpires

LEMMA SettleOK ==
  ASSUME Consistent, NEW w \in Workers, wpc[w] # "idle", NEW s \in {"PENDING", "DONE", "FAILED"},
         Settle(w, s), s = "DONE" => Finished(job[w])
  PROVE  StepOK
<1> DEFINE k == job[w]
           e == [event[k] EXCEPT !.status = s, !.holder = None]
<1>1. k \in Keys /\ payment[k] # None /\ event[k] # None /\ event[k] \in EventRows
  BY DEF Consistent, WorkerOK, Handed, DatabaseType
<1>2. /\ DatabaseType'
      /\ \A j \in Keys : Grows(j) /\ RowOK(j)'
      /\ \A d \in Callers : Undisturbed(d)
  <2>1. CASE event[k].holder = w
    <3>1. event[k].status = "PROCESSING"
      BY <1>1, <2>1, NoneIsNoRow DEF Consistent, RowOK
    <3>2. e \in EventRows /\ e.status = s /\ e.holder = None
      BY <1>1, EventClosed
    <3>3. event' = [event EXCEPT ![k] = e]
      BY <2>1 DEF Settle, Consistent, DatabaseType
    <3> HIDE DEF e
    <3>4. e.holder # None <=> e.status = "PROCESSING"
      BY <3>2
    <3>. QED BY <1>1, <3>1, <3>2, <3>3, <3>4, OutboxWrites DEF Settle
  <2>2. CASE event[k].holder # w
    <3>1. UNCHANGED database
      BY <2>2 DEF Settle, database
    <3>2. \A d \in Callers : Undisturbed(d)
      BY <3>1 DEF Undisturbed, Settle, callers, database
    <3>. QED BY <3>1, <3>2, QuietDatabase
  <2>. QED BY <2>1, <2>2
<1>3. WorkersType' /\ wpc'[w] = "idle" /\ job'[w] = None
  BY DEF Settle, Consistent, WorkersType, WorkerPoints
<1>4. WorkerOK(w)'
  BY <1>3 DEF WorkerOK, Handed, Reported
<1>5. \A v \in Workers \ {w} : wpc'[v] = wpc[v] /\ job'[v] = job[v]
  BY DEF Settle, Consistent, WorkersType
<1>. QED BY <1>2, <1>3, <1>4, <1>5, WorkerStepOK DEF Settle

LEMMA WorkerCrashOK ==
  ASSUME Consistent, NEW w \in Workers, WorkerCrash(w)
  PROVE  StepOK
<1>1. WorkersType' /\ wpc'[w] = "idle" /\ job'[w] = None
  BY DEF WorkerCrash, Consistent, WorkersType, WorkerPoints
<1>2. WorkerOK(w)'
  BY <1>1 DEF WorkerOK, Handed, Reported
<1>3. \A v \in Workers \ {w} : wpc'[v] = wpc[v] /\ job'[v] = job[v]
  BY DEF WorkerCrash, Consistent, WorkersType
<1>4. \A d \in Callers : Undisturbed(d)
  BY DEF WorkerCrash, Undisturbed, callers, database
<1>. QED BY <1>1, <1>2, <1>3, <1>4, QuietDatabase, WorkerStepOK DEF WorkerCrash

-----------------------------------------------------------------------------
(* The steps of the handler.                                               *)

\* The handler moves on to next.
LEMMA GotoOK ==
  ASSUME Consistent, NEW w \in Workers, NEW next \in WorkerPoints \ {"idle"}, wpc[w] # "idle",
         Goto(w, next), UNCHANGED <<sale, event>>, DatabaseType',
         \A k \in Keys : Grows(k) /\ RowOK(k)',
         \A k \in Keys : payment[k] # None => payment'[k].status = payment[k].status,
         \A k \in Keys : payment[k] = None => payment'[k] = None,
         next = "return" => Finished(job[w])'
  PROVE  StepOK
<1>1. WorkersType' /\ wpc'[w] = next /\ job'[w] = job[w]
  BY DEF Goto, Consistent, WorkersType
<1>2. WorkerOK(w)'
  BY <1>1 DEF WorkerOK, Handed, Reported, Consistent, Grows
<1>3. \A v \in Workers \ {w} : wpc'[v] = wpc[v] /\ job'[v] = job[v]
  BY DEF Goto, Consistent, WorkersType
<1>4. \A d \in Callers : Undisturbed(d)
  BY DEF Goto, Undisturbed, callers
<1>. QED BY <1>1, <1>2, <1>3, <1>4, WorkerStepOK DEF Goto

\* The handler reads, or calls the provider.
Looks(w) ==
  \/ ProviderMismatch(w) \/ AlreadySettled(w) \/ CopyPayment(w) \/ SettledMeanwhile(w)
  \/ InitiatePayment(w) \/ UnexpectedIntent(w) \/ ProviderError(w)

LEMMA LooksOK ==
  ASSUME Consistent, NEW w \in Workers, Looks(w)
  PROVE  StepOK
<1>1. PICK next \in WorkerPoints \ {"idle"} :
        Goto(w, next) /\ (next = "return" => payment[job[w]].status # "PENDING")
  BY DEF Looks, ProviderMismatch, AlreadySettled, CopyPayment, SettledMeanwhile,
         InitiatePayment, UnexpectedIntent, ProviderError, WorkerPoints, StillPending
<1>2. wpc[w] # "idle" /\ job[w] \in Keys /\ UNCHANGED <<sale, payment, event, audits>>
  BY DEF Looks, ProviderMismatch, AlreadySettled, CopyPayment, SettledMeanwhile,
         InitiatePayment, UnexpectedIntent, ProviderError, database, Consistent, WorkerOK, Handed
<1>3. opened' \in [Keys -> BOOLEAN]
  BY <1>2 DEF Looks, ProviderMismatch, AlreadySettled, CopyPayment, SettledMeanwhile,
         InitiatePayment, UnexpectedIntent, ProviderError, database, Consistent, DatabaseType
<1>4. DatabaseType' /\ \A k \in Keys : Grows(k) /\ RowOK(k)'
  BY <1>2, <1>3, SameGrows DEF Consistent, DatabaseType, RowOK, Finished
<1>5. next = "return" => Finished(job[w])'
  BY <1>1, <1>2 DEF Finished, Goto
<1>. QED BY <1>1, <1>2, <1>4, <1>5, GotoOK

\* A row of the table of payments is written again.
LEMMA PaymentRewritten ==
  ASSUME Consistent, NEW k \in Keys, NEW r, payment[k] # None, Rewrites(payment[k], r),
         payment' = [payment EXCEPT ![k] = r], event' = event,
         sale' \in [Sales -> SaleStatuses], audits' \in [Keys -> 0 .. 2], opened' = opened,
         r.link # "none" => payment[k].link # "none" \/ event[k] # None
  PROVE  /\ DatabaseType'
         /\ \A j \in Keys : Grows(j) /\ RowOK(j)'
         /\ payment'[k] = r /\ \A j \in Keys \ {k} : payment'[j] = payment[j]
<1>1. payment'[k] = r /\ \A j \in Keys \ {k} : payment'[j] = payment[j]
  BY DEF Consistent, DatabaseType
<1>2. \A j \in Keys : Grows(j)
  BY PaymentGrows DEF Consistent
<1>3. DatabaseType'
  BY DEF Consistent, DatabaseType, Rewrites
<1>4. ASSUME NEW j \in Keys PROVE RowOK(j)'
  <2>1. RowOK(j)
    BY DEF Consistent
  <2>2. CASE j = k
    BY <1>1, <2>1, <2>2, NoneIsNoRow DEF RowOK, Finished, Rewrites, Onward
  <2>3. CASE j # k
    BY <1>1, <2>1, <2>3 DEF RowOK, Finished
  <2>. QED BY <2>2, <2>3
<1>. QED BY <1>1, <1>2, <1>3, <1>4

LEMMA NoteErrorOK ==
  ASSUME Consistent, NEW w \in Workers, NoteError(w)
  PROVE  StepOK
<1> DEFINE k == job[w]
<1>1. k \in Keys /\ payment[k] # None /\ payment[k] \in PaymentRows
  BY DEF Consistent, WorkerOK, Handed, DatabaseType, NoteError
<1>2. payment' = [payment EXCEPT ![k] = Noted(payment[k])]
  BY DEF NoteError, Noted
<1>3. UNCHANGED <<sale, event, audits, opened>> /\ wpc[w] # "idle"
  BY DEF NoteError
<1>4. /\ DatabaseType' /\ \A j \in Keys : Grows(j) /\ RowOK(j)'
      /\ payment'[k] = Noted(payment[k]) /\ \A j \in Keys \ {k} : payment'[j] = payment[j]
  <2>1. sale' \in [Sales -> SaleStatuses] /\ audits' \in [Keys -> 0 .. 2]
    BY <1>3 DEF Consistent, DatabaseType
  <2>2. Noted(payment[k]).link = payment[k].link
    BY <1>1, RowProgress
  <2>. QED BY <1>1, <1>2, <1>3, <2>1, <2>2, RowRewritten, PaymentRewritten
<1>5. \A j \in Keys : payment[j] # None => payment'[j].status = payment[j].status
  BY <1>1, <1>4, RowProgress
<1>6. \A j \in Keys : payment[j] = None => payment'[j] = None
  BY <1>1, <1>4
<1>. QED BY <1>3, <1>4, <1>5, <1>6, GotoOK DEF NoteError, WorkerPoints

LEMMA StoreLinkOK ==
  ASSUME Consistent, NEW w \in Workers, NEW l \in Links \ {"none"}, StoreLink(w, l)
  PROVE  StepOK
<1> DEFINE k == job[w]
<1>1. /\ k \in Keys /\ payment[k] # None /\ payment[k] \in PaymentRows
      /\ event[k] # None /\ payment[k].status = "PENDING"
  BY DEF Consistent, WorkerOK, Handed, DatabaseType, StoreLink, StillPending
<1>2. payment' = [payment EXCEPT ![k] = Linked(payment[k], l)]
  BY DEF StoreLink, Linked
<1>3. UNCHANGED <<sale, event, opened>> /\ wpc[w] # "idle"
  BY DEF StoreLink
<1>4. /\ DatabaseType' /\ \A j \in Keys : Grows(j) /\ RowOK(j)'
      /\ payment'[k] = Linked(payment[k], l) /\ \A j \in Keys \ {k} : payment'[j] = payment[j]
  <2>1. sale' \in [Sales -> SaleStatuses] /\ audits' \in [Keys -> 0 .. 2]
    <3>1. audits[k] \in 0 .. 2 /\ audits \in [Keys -> 0 .. 2]
      BY <1>1 DEF Consistent, DatabaseType
    <3>2. (IF audits[k] < 2 THEN audits[k] + 1 ELSE audits[k]) \in 0 .. 2
      BY <3>1
    <3>3. audits' \in [Keys -> 0 .. 2]
      BY <3>1, <3>2 DEF StoreLink
    <3>. QED BY <1>3, <3>3 DEF Consistent, DatabaseType
  <2>. QED BY <1>1, <1>2, <1>3, <2>1, RowRewritten, PaymentRewritten
<1>5. \A j \in Keys : payment[j] # None => payment'[j].status = payment[j].status
  BY <1>1, <1>4, RowProgress
<1>6. \A j \in Keys : payment[j] = None => payment'[j] = None
  BY <1>1, <1>4
<1>7. Finished(k)'
  BY <1>1, <1>4, RowProgress DEF Finished, StoreLink, Goto
<1>. QED BY <1>3, <1>4, <1>5, <1>6, <1>7, GotoOK DEF StoreLink, WorkerPoints

-----------------------------------------------------------------------------
(* The steps of the code outside the repository.                           *)

LEMMA SettlePaymentOK ==
  ASSUME Consistent, NEW k \in Keys, NEW status \in PaymentStatuses, SettlePayment(k, status)
  PROVE  StepOK
<1> DEFINE s == payment[k].sale
           p == Became(payment[k], status)
<1>1. /\ payment[k] # None /\ payment[k] \in PaymentRows
      /\ <<payment[k].status, status>> \in Transitions
  BY DEF Consistent, DatabaseType, SettlePayment
<1>2. s \in Sales /\ saleLock[s] = None
  BY <1>1 DEF PaymentRows, SettlePayment
<1>3. payment' = [payment EXCEPT ![k] = p]
  BY DEF SettlePayment, Became
<1>4. sale' \in [Sales -> SaleStatuses] /\ \A x \in Sales \ {s} : sale'[x] = sale[x]
  BY DEF SettlePayment, Consistent, DatabaseType, SaleStatuses
<1>5. Rewrites(payment[k], p) /\ p.link = payment[k].link
  BY <1>1, RowRewritten, RowProgress
<1> HIDE DEF p
<1>6. /\ DatabaseType' /\ \A j \in Keys : Grows(j) /\ RowOK(j)'
      /\ payment'[k] = p /\ \A j \in Keys \ {k} : payment'[j] = payment[j]
  <2>1. audits' \in [Keys -> 0 .. 2] /\ event' = event /\ opened' = opened
    BY DEF SettlePayment, Consistent, DatabaseType
  <2>. QED BY <1>1, <1>3, <1>4, <1>5, <2>1, PaymentRewritten
<1>7. \A d \in Callers : Undisturbed(d)
  BY <1>1, <1>2, <1>4, <1>6, NoneIsNoRow DEF SettlePayment, Undisturbed, callers
<1>. QED BY <1>6, <1>7, OtherStepOK DEF SettlePayment

LEMMA CancelSaleOK ==
  ASSUME Consistent, NEW s \in Sales, CancelSale(s)
  PROVE  StepOK
<1>1. sale' \in [Sales -> SaleStatuses] /\ \A x \in Sales \ {s} : sale'[x] = sale[x]
  BY DEF CancelSale, Consistent, DatabaseType, SaleStatuses
<1>2. DatabaseType' /\ \A k \in Keys : Grows(k) /\ RowOK(k)'
  BY <1>1, SameGrows DEF CancelSale, Consistent, DatabaseType, RowOK, Finished
<1>3. \A d \in Callers : Undisturbed(d)
  BY <1>1, NoneIsNoRow DEF CancelSale, Undisturbed, callers
<1>. QED BY <1>2, <1>3, OtherStepOK DEF CancelSale

-----------------------------------------------------------------------------
(* The theorems.                                                           *)

LEMMA NextOK == Consistent /\ [Next]_vars => StepOK
<1> SUFFICES ASSUME Consistent, [Next]_vars PROVE StepOK
  OBVIOUS
<1>1. CASE UNCHANGED vars
  BY <1>1, QuietDatabase, OtherStepOK DEF vars, Undisturbed, database, callers
<1>2. ASSUME NEW c \in Callers, NEW k \in Keys, NEW q \in Requests, Request(c, k, q)
      PROVE  StepOK
  BY <1>2, RequestOK
<1>3. ASSUME NEW c \in Callers, Raises(c) PROVE StepOK
  BY <1>3, RaisesOK
<1>4. ASSUME NEW c \in Callers, CallerStep(c) PROVE StepOK
  BY <1>3, <1>4, LockKeyOK, LockSaleOK, DecidesOK, ReadEventOK, EnqueueOK, ReviveEventOK,
     CreatePaymentOK DEF CallerStep, Decides, Raises
<1>5. ASSUME NEW w \in Workers, NEW k \in Keys, Claim(w, k) PROVE StepOK
  BY <1>5, ClaimOK
<1>6. ASSUME NEW w \in Workers, HandlerReturned(w) PROVE StepOK
  <2>1. Finished(job[w])
    BY <1>6 DEF HandlerReturned, Consistent, WorkerOK, Reported
  <2>. QED BY <1>6, <2>1, SettleOK DEF HandlerReturned
<1>7. ASSUME NEW w \in Workers, HandlerRaised(w) PROVE StepOK
  BY <1>7, SettleOK DEF HandlerRaised
<1>8. ASSUME NEW w \in Workers, HandlerStep(w) PROVE StepOK
  BY <1>6, <1>7, <1>8, LooksOK, NoteErrorOK, StoreLinkOK DEF HandlerStep, Looks
<1>9. ASSUME NEW k \in Keys, LeaseExpires(k) PROVE StepOK
  BY <1>9, LeaseExpiresOK
<1>. QED BY <1>1, <1>2, <1>3, <1>4, <1>5, <1>8, <1>9, WorkerCrashOK, SettlePaymentOK,
            CancelSaleOK DEF Next, Raises

\* No interleaving of callers, workers, crashes, deliveries and settlements
\* breaks the invariant that ties the rows to what each session knows.
THEOREM ConsistencyInvariant == Spec => []Consistent
<1>1. Consistent /\ [Next]_vars => Consistent'
  BY NextOK DEF StepOK
<1>. QED BY <1>1, InitConsistent, PTL DEF Spec

\* Whoever runs at once, every row and every local variable keeps its shape.
THEOREM TypeCorrect == Spec => []TypeOK
<1>1. Consistent => TypeOK
  BY DEF Consistent, TypeOK, CallerOK, WorkerOK
<1>. QED BY <1>1, ConsistencyInvariant, PTL

\* Losing a race never shows as a violated index: nobody is told "integrity".
THEOREM NoCollision == Spec => []NobodyCollides
<1>1. Consistent => NobodyCollides
  BY DEF Consistent, CallerOK, Given, NobodyCollides
<1>. QED BY <1>1, ConsistencyInvariant, PTL

\* The work on a pending payment that the provider has not answered is never
\* forgotten: after any crashes and redeliveries its event is there and not DONE.
THEOREM WorkIsKept == Spec => []WorkKept
<1>1. Consistent => WorkKept
  BY DEF Consistent, RowOK, Finished, WorkKept
<1>. QED BY <1>1, ConsistencyInvariant, PTL

\* A payment keeps its sale and address, and once it is settled its link too,
\* whatever a late worker does; after that it can only be refunded.
THEOREM SettledForGood == Spec => SettledStays
<1>1. Consistent /\ [Next]_vars =>
        [\A k \in Keys : payment[k] # None =>
           /\ payment'[k].sale = payment[k].sale /\ payment'[k].email = payment[k].email
           /\ payment[k].status # "PENDING" =>
                /\ payment'[k].link = payment[k].link
                /\ \/ payment'[k].status = payment[k].status
                   \/ payment[k].status = "SUCCEEDED" /\ payment'[k].status = "REFUNDED"]_vars
  BY NextOK DEF StepOK, Grows, Onward
<1>. QED BY <1>1, ConsistencyInvariant, PTL DEF Spec, SettledStays

\* A payment appears only while its sale waits for one, at the very moment of
\* the insert, however sales are settled and cancelled meanwhile.
THEOREM OpenSalesOnly == Spec => PaysOpenSale
<1>1. Consistent /\ [Next]_vars =>
        [\A k \in Keys : payment[k] = None /\ payment'[k] # None =>
           sale[payment'[k].sale] = "PENDING_PAYMENT"]_vars
  BY NextOK DEF StepOK, Grows
<1>. QED BY <1>1, ConsistencyInvariant, PTL DEF Spec, PaysOpenSale

-----------------------------------------------------------------------------
(* Without payments older than the outbox every payment has its address.   *)

Addressed == \A k \in Keys : payment[k] # None => payment[k].email # None

LEMMA NextAddressed == Consistent /\ Addressed /\ [Next]_vars => Addressed'
<1> SUFFICES ASSUME Consistent, Addressed, [Next]_vars, NEW k \in Keys, payment'[k] # None
             PROVE  payment'[k].email # None
  BY DEF Addressed
<1>. QED BY NextOK DEF Addressed, StepOK, Grows

LEMMA SameRequest ==
  ASSUME NEW q \in Requests, NEW r \in Requests,
         q.sale = r.sale, q.provider = r.provider, q.email = r.email
  PROVE  q = r
<1>1. PICK S, P, E : Terms = [sale : S, provider : P, email : E]
  BY DEF Terms
<1>2. q \in [sale : S, provider : P, email : E] /\ r \in [sale : S, provider : P, email : E]
  BY <1>1, RequestAssumption
<1>. QED BY <1>2

\* Two callers that were both given the payment of one key had asked for the
\* same thing, if no payment is older than the outbox: one that is has no
\* address, and two callers with different ones may share it.
THEOREM KeysKeepApart ==
  ASSUME Legacy = {}
  PROVE  Spec => []OneRequestPerKey
<1>1. Init => Addressed
  BY DEF Init, Addressed
<1>2. Consistent /\ Addressed => OneRequestPerKey
  <2> SUFFICES ASSUME Consistent, Addressed, NEW c \in Callers, NEW d \in Callers,
                      answer[c].outcome = "payment", answer[d].outcome = "payment",
                      answer[c].key = answer[d].key
               PROVE  answer[c].req = answer[d].req
    BY DEF OneRequestPerKey
  <2> DEFINE p == payment[answer[c].key]
             q == answer[c].req
             r == answer[d].req
  <2>1. q \in Requests /\ r \in Requests /\ p # None /\ ~Reused(p, q) /\ ~Reused(p, r)
        /\ answer[c].key \in Keys
    BY DEF Consistent, CallerOK, Given, AskedFor
  <2>2. q.sale = r.sale /\ q.provider = r.provider /\ q.email = r.email
    BY <2>1 DEF Reused, Addressed
  <2>. QED BY <2>1, <2>2, SameRequest
<1>3. Consistent /\ Addressed /\ [Next]_vars => Addressed'
  BY NextAddressed
<1>. QED BY <1>1, <1>2, <1>3, ConsistencyInvariant, PTL DEF Spec

-----------------------------------------------------------------------------
(* The life of a payment.                                                  *)

\* What each life stands for where no work is lost.
Waiting(k) == payment[k] # None /\ payment[k].status = "PENDING" /\ payment[k].link = "none"
GivenUp(k) == event[k] # None /\ event[k].status = "FAILED"
LifeMeans(k) ==
  /\ LifeOf(k) \in {"none", "bare", "queued", "given up", "blank", "linked", "settled"}
  /\ (LifeOf(k) = "none") <=> (payment[k] = None)
  /\ (LifeOf(k) = "settled") <=> (payment[k] # None /\ payment[k].status # "PENDING")
  /\ (LifeOf(k) = "linked") <=>
       (payment[k] # None /\ payment[k].status = "PENDING" /\ payment[k].link = "usable")
  /\ (LifeOf(k) = "blank") <=>
       (payment[k] # None /\ payment[k].status = "PENDING" /\ payment[k].link = "blank")
  /\ (LifeOf(k) = "bare") <=> (Waiting(k) /\ event[k] = None)
  /\ (LifeOf(k) = "given up") <=> (Waiting(k) /\ GivenUp(k))

LEMMA Lives == Consistent => \A k \in Keys : LifeMeans(k)
<1> SUFFICES ASSUME Consistent, NEW k \in Keys PROVE LifeMeans(k)
  OBVIOUS
<1>1. RowOK(k) /\ (payment[k] # None => payment[k].link \in Links)
  BY DEF Consistent, DatabaseType, PaymentRows
<1>. QED BY <1>1 DEF LifeMeans, Waiting, GivenUp, LifeOf, Settled, RowOK, Finished, Links

LEMMA LivesOn == Consistent' => \A k \in Keys : LifeMeans(k)'
<1>1. (Consistent => \A k \in Keys : LifeMeans(k))'
  BY Lives, PTL
<1>. QED BY <1>1

\* A step that leaves the progress of a payment leaves its life and terms.
Alike(k) ==
  /\ (payment[k] = None) <=> (payment'[k] = None)
  /\ payment[k] # None =>
       /\ payment'[k].status = payment[k].status
       /\ payment'[k].link = payment[k].link
  /\ Waiting(k) => /\ (event[k] = None) <=> (event'[k] = None)
                   /\ GivenUp(k) <=> GivenUp(k)'

LEMMA AlikeLives ==
  ASSUME Consistent, StepOK, NEW k \in Keys, Alike(k)
  PROVE  LifeOf(k)' = LifeOf(k) /\ TermsOf(k)' = TermsOf(k)
<1>1. LifeMeans(k) /\ LifeMeans(k)'
  BY Lives, LivesOn DEF StepOK
<1>2. (payment'[k] = None) <=> (payment[k] = None)
  BY DEF Alike
<1>3. Waiting(k)' <=> Waiting(k)
  BY DEF Alike, Waiting
<1>4. LifeOf(k)' = LifeOf(k)
  <2>1. CASE payment[k] = None
    BY <1>1, <1>2, <2>1 DEF LifeMeans
  <2>2. CASE payment[k] # None /\ payment[k].status # "PENDING"
    BY <1>1, <1>2, <2>2 DEF LifeMeans, Alike
  <2>3. CASE payment[k] # None /\ payment[k].status = "PENDING" /\ payment[k].link = "usable"
    BY <1>1, <1>2, <2>3 DEF LifeMeans, Alike
  <2>4. CASE payment[k] # None /\ payment[k].status = "PENDING" /\ payment[k].link = "blank"
    BY <1>1, <1>2, <2>4 DEF LifeMeans, Alike
  <2>5. CASE Waiting(k)
    BY <1>1, <1>3, <2>5 DEF LifeMeans, Alike, Waiting
  <2>6. payment[k] # None => payment[k].link \in Links
    BY DEF Consistent, DatabaseType, PaymentRows
  <2>. QED BY <2>1, <2>2, <2>3, <2>4, <2>5, <2>6 DEF Waiting, Links
<1>5. TermsOf(k)' = TermsOf(k)
  BY DEF Alike, TermsOf, StepOK, Grows
<1>. QED BY <1>4, <1>5

\* A payment that is there keeps its terms.
LEMMA TermsStay ==
  ASSUME StepOK, NEW k \in Keys, payment[k] # None
  PROVE  TermsOf(k)' = TermsOf(k)
BY DEF TermsOf, StepOK, Grows

-----------------------------------------------------------------------------
(* Steps that change no life.                                              *)

LEMMA Unchanging ==
  ASSUME Consistent, StepOK, \A k \in Keys : Alike(k)
  PROVE  Life' = Life /\ Standing' = Standing
BY AlikeLives DEF Life, Standing

LEMMA Stutters ==
  ASSUME Consistent, StepOK, \A k \in Keys : Alike(k), UNCHANGED answer
  PROVE  UNCHANGED Promise!pvars
<1>1. Informed' = Informed
  BY DEF Informed
<1>. QED BY <1>1, Unchanging DEF Promise!pvars

LEMMA QuietAlike ==
  ASSUME UNCHANGED <<payment, event>>
  PROVE  \A k \in Keys : Alike(k)
BY DEF Alike, GivenUp

\* What the callers know after c is given a payment, or anything else.
LEMMA PaymentInforms ==
  ASSUME Consistent, NEW c \in Callers, Answer(c, "payment"),
         NEW k \in Keys, NEW q \in Requests, k = call[c].key, q = call[c].req
  PROVE  Informed' = [Informed EXCEPT ![c] = <<k, q>>]
<1>1. answer'[c] = Told(c, "payment") /\ \A d \in Callers \ {c} : answer'[d] = answer[d]
  BY AnswerFrees DEF Consistent, CallerOK, Outcomes
<1>2. answer'[c].outcome = "payment" /\ answer'[c].key = k /\ answer'[c].req = q
  BY <1>1 DEF Told
<1>. QED BY <1>1, <1>2 DEF Informed

LEMMA RefusalInforms ==
  ASSUME Consistent, NEW c \in Callers, NEW outcome \in Outcomes \ {"payment"},
         Answer(c, outcome)
  PROVE  Informed' = [Informed EXCEPT ![c] = None]
<1>1. answer'[c] = Told(c, outcome) /\ \A d \in Callers \ {c} : answer'[d] = answer[d]
  BY AnswerFrees DEF Consistent, CallerOK
<1>2. answer'[c].outcome = outcome
  BY <1>1 DEF Told, NoAnswer
<1>. QED BY <1>1, <1>2 DEF Informed

\* A caller asks anew, or is refused: it knows of no payment.
LEMMA Forgets ==
  ASSUME Consistent, StepOK, NEW c \in Callers, UNCHANGED <<payment, event>>,
         Informed' = [Informed EXCEPT ![c] = None]
  PROVE  Promise!PNext
<1>1. Life' = Life /\ Standing' = Standing
  BY QuietAlike, Unchanging
<1>. QED BY <1>1 DEF Promise!PNext, Promise!Forget

\* The caller c is told of the payment it asked for.
LEMMA Tells ==
  ASSUME Consistent', NEW c \in Callers, NEW k \in Keys, NEW q \in Requests,
         Informed' = [Informed EXCEPT ![c] = <<k, q>>],
         AskedFor(k, q)', LifeOf(k)' \in {"queued", "blank", "linked", "settled"}
  PROVE  Promise!Tell(c, k, q)
<1>1. Promise!Fits(q, TermsOf(k)')
  BY DEF Promise!Fits, AskedFor, Reused, TermsOf
<1>. QED BY <1>1 DEF Promise!Tell, Life, Standing
-----------------------------------------------------------------------------
(* The steps of a caller.                                                  *)

PStep == [Promise!PNext]_Promise!pvars

\* A caller is given the payment that it had read.
LEMMA RecallsOK ==
  ASSUME Consistent, StepOK, NEW c \in Callers, Raise(c, "payment"), cpc[c] # "idle",
         AskedFor(call[c].key, call[c].req),
         LifeOf(call[c].key) \in {"queued", "blank", "linked", "settled"}
  PROVE  PStep
<1>0. PICK k \in Keys, q \in Requests : k = call[c].key /\ q = call[c].req
  BY DEF Consistent, CallerOK, Busy
<1>1. UNCHANGED <<payment, event>> /\ Answer(c, "payment")
  BY DEF Raise, database
<1>2. Informed' = [Informed EXCEPT ![c] = <<k, q>>]
  BY <1>0, <1>1, PaymentInforms
<1>3. Life' = Life /\ Standing' = Standing
  BY <1>1, QuietAlike, Unchanging
<1>4. AskedFor(k, q)' /\ LifeOf(k)' \in {"queued", "blank", "linked", "settled"}
  BY <1>0, <1>1, AlikeLives, QuietAlike DEF AskedFor, Reused
<1>5. Promise!Tell(c, k, q)
  BY <1>2, <1>4, Tells DEF StepOK
<1>. QED BY <1>3, <1>5 DEF PStep, Promise!PNext, Promise!Recall

\* A caller is refused, or ends without an answer.
LEMMA RefusesOK ==
  ASSUME Consistent, StepOK, NEW c \in Callers, NEW outcome \in Outcomes \ {"payment"},
         Raise(c, outcome)
  PROVE  PStep
<1>1. Informed' = [Informed EXCEPT ![c] = None]
  BY RefusalInforms DEF Raise
<1>. QED BY <1>1, Forgets DEF Raise, database, PStep

LEMMA ReplayRefines ==
  ASSUME Consistent, StepOK, NEW c \in Callers, ReplayPayment(c)
  PROVE  PStep
<1>1. call[c].key \in Keys
  BY DEF Consistent, CallerOK, Busy, ReplayPayment
<1>2. LifeOf(call[c].key) \in {"linked", "settled"}
  BY <1>1, Lives DEF LifeMeans, ReplayPayment
<1>. QED BY <1>2, RecallsOK DEF ReplayPayment, AskedFor

LEMMA ReadEventRefines ==
  ASSUME Consistent, StepOK, NEW c \in Callers, ReadEvent(c)
  PROVE  PStep
<1> DEFINE k == call[c].key
<1>1. k \in Keys /\ AskedFor(k, call[c].req) /\ payment[k].status = "PENDING"
  BY DEF Consistent, CallerOK, Busy, Fresh, ReadEvent
<1>2. CASE Alive(event[k])
  <2>1. LifeOf(k) \in {"queued", "blank", "linked", "settled"}
    BY <1>1, <1>2, Lives DEF LifeMeans, Alive, AskedFor, GivenUp
  <2>2. Raise(c, "payment") /\ cpc[c] # "idle"
    BY <1>2 DEF ReadEvent
  <2>. QED BY <1>1, <2>1, <2>2, RecallsOK
<1>3. CASE ~Alive(event[k])
  BY <1>3, Stutters, QuietAlike DEF ReadEvent, database, PStep
<1>. QED BY <1>2, <1>3

\* A caller queues the work on a payment again.
LEMMA RequeuesOK ==
  ASSUME Consistent, StepOK, NEW c \in Callers, NEW k \in Keys, NEW q \in Requests,
         k = call[c].key, q = call[c].req, cpc[c] # "idle", Answer(c, "payment"),
         AskedFor(k, q), payment[k].status = "PENDING",
         event[k] = None \/ event[k].status = "FAILED",
         UNCHANGED payment, event'[k] # None, event'[k].status = "PENDING",
         \A j \in Keys \ {k} : event'[j] = event[j]
  PROVE  PStep
<1>1. Informed' = [Informed EXCEPT ![c] = <<k, q>>]
  BY PaymentInforms
<1>2. \A j \in Keys : TermsOf(j)' = TermsOf(j)
  BY DEF TermsOf
<1>3. \A j \in Keys \ {k} : LifeOf(j)' = LifeOf(j)
  BY AlikeLives DEF Alike, GivenUp
<1>4. LifeMeans(k) /\ LifeMeans(k)'
  BY Lives, LivesOn DEF StepOK
<1>5. AskedFor(k, q)'
  BY DEF AskedFor, Reused
<1>6. CASE payment[k].link # "none"
  <2>0. payment[k].link \in Links
    BY DEF AskedFor, Consistent, DatabaseType, PaymentRows
  <2>1. LifeOf(k)' = LifeOf(k) /\ LifeOf(k) \in {"blank", "linked"}
    BY <1>4, <1>6, <2>0 DEF LifeMeans, AskedFor, Links
  <2>2. Life' = Life /\ Standing' = Standing
    BY <1>2, <1>3, <2>1 DEF Life, Standing
  <2>3. Promise!Tell(c, k, q)
    BY <1>1, <1>5, <2>1, Tells DEF StepOK
  <2>. QED BY <2>2, <2>3 DEF PStep, Promise!PNext, Promise!Recall
<1>7. CASE payment[k].link = "none"
  <2>1. LifeOf(k) \in {"bare", "given up"}
    BY <1>4, <1>7 DEF LifeMeans, AskedFor, Waiting, GivenUp
  <2>2. LifeOf(k)' = "queued"
    BY <1>4, <1>7 DEF LifeMeans, AskedFor, Waiting, GivenUp
  <2>3. Life' = [Life EXCEPT ![k] = "queued"] /\ Life[k] \in {"bare", "given up"}
    BY <1>3, <2>1, <2>2 DEF Life
  <2>4. Standing' = Standing
    BY <1>2 DEF Standing
  <2>5. Promise!TakeUp(k)
    BY <2>3, <2>4 DEF Promise!TakeUp, Promise!Becomes
  <2>6. Promise!Tell(c, k, q)
    BY <1>1, <1>5, <2>2, Tells DEF StepOK
  <2>. QED BY <2>5, <2>6 DEF PStep, Promise!PNext
<1>. QED BY <1>6, <1>7

LEMMA EnqueueRefines ==
  ASSUME Consistent, StepOK, NEW c \in Callers, Enqueue(c)
  PROVE  PStep
<1>0. PICK k \in Keys, q \in Requests : k = call[c].key /\ q = call[c].req
  BY DEF Consistent, CallerOK, Busy, Enqueue
<1>1. AskedFor(k, q) /\ payment[k].status = "PENDING" /\ event[k] = None /\ cpc[c] # "idle"
  BY <1>0 DEF Consistent, CallerOK, Fresh, Enqueue
<1>2. event' = [event EXCEPT ![k] = Queued] /\ Answer(c, "payment") /\ UNCHANGED payment
  BY <1>0, <1>1 DEF Enqueue
<1>3. event'[k] = Queued /\ \A j \in Keys \ {k} : event'[j] = event[j]
  BY <1>2, QueuedRow, EventWritten DEF Consistent
<1>. QED BY <1>0, <1>1, <1>2, <1>3, QueuedRow, NoneIsNoRow, RequeuesOK

LEMMA ReviveEventRefines ==
  ASSUME Consistent, StepOK, NEW c \in Callers, ReviveEvent(c)
  PROVE  PStep
<1>0. PICK k \in Keys, q \in Requests : k = call[c].key /\ q = call[c].req
  BY DEF Consistent, CallerOK, Busy, ReviveEvent
<1> DEFINE e == [event[k] EXCEPT !.status = "PENDING", !.holder = None]
<1>1. /\ AskedFor(k, q) /\ payment[k].status = "PENDING" /\ event[k] # None
      /\ event[k].status = "FAILED" /\ cpc[c] # "idle" /\ event[k] \in EventRows
  BY <1>0 DEF Consistent, CallerOK, Fresh, ReviveEvent, DatabaseType
<1>2. event' = [event EXCEPT ![k] = e] /\ Answer(c, "payment") /\ UNCHANGED payment
  BY <1>0, <1>1 DEF ReviveEvent, Consistent, DatabaseType
<1>3. e \in EventRows /\ e.status = "PENDING"
  BY <1>1, EventClosed
<1> HIDE DEF e
<1>4. event'[k] = e /\ \A j \in Keys \ {k} : event'[j] = event[j]
  BY <1>2, <1>3, EventWritten DEF Consistent
<1>. QED BY <1>0, <1>1, <1>2, <1>3, <1>4, NoneIsNoRow, RequeuesOK

LEMMA RequestRecord ==
  ASSUME NEW q \in Requests
  PROVE  q = [sale |-> q.sale, email |-> q.email, provider |-> q.provider]
<1>1. PICK S, P, E : Terms = [sale : S, provider : P, email : E]
  BY DEF Terms
<1>2. q \in [sale : S, provider : P, email : E]
  BY <1>1, RequestAssumption
<1>. QED BY <1>2

LEMMA CreatePaymentRefines ==
  ASSUME Consistent, StepOK, NEW c \in Callers, CreatePayment(c)
  PROVE  PStep
<1>0. PICK k \in Keys, q \in Requests : k = call[c].key /\ q = call[c].req
  BY DEF Consistent, CallerOK, Busy, CreatePayment
<1> DEFINE p == PendingPayment(q, q.email)
<1>1. payment[k] = None /\ event[k] = None /\ q.sale \in Sales /\ cpc[c] # "idle"
  BY <1>0 DEF Consistent, CallerOK, Fresh, Locked, CreatePayment, RowOK, InSale
<1>2. /\ payment' = [payment EXCEPT ![k] = p] /\ event' = [event EXCEPT ![k] = Queued]
      /\ Answer(c, "payment")
  BY <1>0, <1>1 DEF CreatePayment
<1>3. /\ p \in PaymentRows /\ p.status = "PENDING" /\ p.link = "none"
      /\ p.sale = q.sale /\ p.provider = q.provider /\ p.email = q.email
  BY <1>1 DEF PendingPayment, PaymentRows, PaymentStatuses, Links
<1> HIDE DEF p
<1>4. payment'[k] = p /\ \A j \in Keys \ {k} : payment'[j] = payment[j]
  BY <1>2 DEF Consistent, DatabaseType
<1>5. event'[k] = Queued /\ \A j \in Keys \ {k} : event'[j] = event[j]
  BY <1>2, QueuedRow, EventWritten DEF Consistent
<1>6. Informed' = [Informed EXCEPT ![c] = <<k, q>>]
  BY <1>0, <1>2, PaymentInforms
<1>7. \A j \in Keys \ {k} : LifeOf(j)' = LifeOf(j) /\ TermsOf(j)' = TermsOf(j)
  BY <1>4, <1>5, AlikeLives DEF Alike, GivenUp
<1>8. LifeOf(k) = "none" /\ LifeOf(k)' = "queued"
  <2>1. LifeMeans(k) /\ LifeMeans(k)'
    BY Lives, LivesOn DEF StepOK
  <2>2. payment'[k] # None /\ event'[k] # None /\ event'[k].status = "PENDING"
    BY <1>3, <1>4, <1>5, QueuedRow, NoneIsNoRow
  <2>. QED BY <1>1, <1>3, <1>4, <2>1, <2>2 DEF LifeMeans, Waiting, GivenUp
<1>9. TermsOf(k)' = q
  <2>1. payment'[k] # None
    BY <1>3, <1>4, NoneIsNoRow
  <2>2. TermsOf(k)' = [sale |-> q.sale, email |-> q.email, provider |-> q.provider]
    BY <1>3, <1>4, <2>1 DEF TermsOf
  <2>. QED BY <2>2, RequestRecord
<1>10. Promise!Accept(k, q)
  BY <1>7, <1>8, <1>9 DEF Promise!Accept, Promise!Becomes, Life, Standing
<1>11. AskedFor(k, q)'
  BY <1>3, <1>4, NoneIsNoRow DEF AskedFor, Reused
<1>12. Promise!Tell(c, k, q)
  BY <1>6, <1>8, <1>11, Tells DEF StepOK
<1>. QED BY <1>10, <1>12 DEF PStep, Promise!PNext

-----------------------------------------------------------------------------
(* The steps of the outbox, of the handler and of the code elsewhere.      *)

\* Only one key is written.
LEMMA OnlyKey ==
  ASSUME Consistent, StepOK, NEW k \in Keys, UNCHANGED answer,
         \A j \in Keys \ {k} : payment'[j] = payment[j] /\ event'[j] = event[j],
         payment[k] # None
  PROVE  /\ Life' = [Life EXCEPT ![k] = LifeOf(k)']
         /\ Standing' = Standing /\ Informed' = Informed
<1>1. \A j \in Keys \ {k} : LifeOf(j)' = LifeOf(j) /\ TermsOf(j)' = TermsOf(j)
  BY AlikeLives DEF Alike, GivenUp
<1>2. TermsOf(k)' = TermsOf(k)
  BY TermsStay
<1>. QED BY <1>1, <1>2 DEF Life, Standing, Informed

\* The outbox writes the event of k again.
LEMMA EventRefines ==
  ASSUME Consistent, StepOK, NEW k \in Keys, NEW e \in EventRows,
         event[k] # None, event[k].status \notin {"FAILED", "DONE"},
         event' = [event EXCEPT ![k] = e], UNCHANGED <<payment, answer>>
  PROVE  PStep
<1>1. event'[k] = e /\ e # None /\ \A j \in Keys \ {k} : event'[j] = event[j]
  BY NoneIsNoRow, EventWritten DEF Consistent
<1>2. CASE Waiting(k) /\ e.status = "FAILED"
  <2>1. LifeMeans(k) /\ LifeMeans(k)'
    BY Lives, LivesOn DEF StepOK
  <2>2. LifeOf(k) = "queued"
    BY <1>2, <2>1 DEF LifeMeans, Waiting, GivenUp
  <2>3. LifeOf(k)' = "given up"
    BY <1>1, <1>2, <2>1 DEF LifeMeans, Waiting, GivenUp
  <2>4. payment[k] # None
    BY <1>2 DEF Waiting
  <2>5. Promise!GiveUp(k)
    BY <1>1, <2>2, <2>3, <2>4, OnlyKey DEF Promise!GiveUp, Promise!Becomes, Life
  <2>. QED BY <2>5 DEF PStep, Promise!PNext
<1>3. CASE ~(Waiting(k) /\ e.status = "FAILED")
  <2>1. Alike(k)
    BY <1>1, <1>3 DEF Alike, GivenUp
  <2>2. \A j \in Keys \ {k} : Alike(j)
    BY <1>1 DEF Alike, GivenUp
  <2>. QED BY <2>1, <2>2, Stutters DEF PStep
<1>. QED BY <1>2, <1>3

LEMMA SettleRefines ==
  ASSUME Consistent, StepOK, NEW w \in Workers, wpc[w] # "idle",
         NEW s \in {"PENDING", "DONE", "FAILED"}, Settle(w, s)
  PROVE  PStep
<1> DEFINE k == job[w]
           e == [event[k] EXCEPT !.status = s, !.holder = None]
<1>1. k \in Keys /\ event[k] # None /\ event[k] \in EventRows
  BY DEF Consistent, WorkerOK, Handed, DatabaseType
<1>2. UNCHANGED <<payment, answer>>
  BY DEF Settle, callers
<1>3. CASE event[k].holder = w
  <2>1. event[k].status = "PROCESSING"
    BY <1>1, <1>3, NoneIsNoRow DEF Consistent, RowOK
  <2>2. e \in EventRows
    BY <1>1, EventClosed
  <2>3. event' = [event EXCEPT ![k] = e]
    BY <1>3 DEF Settle, Consistent, DatabaseType
  <2> HIDE DEF e
  <2>. QED BY <1>1, <1>2, <2>1, <2>2, <2>3, EventRefines
<1>4. CASE event[k].holder # w
  <2>1. UNCHANGED <<payment, event>>
    BY <1>4 DEF Settle
  <2>. QED BY <1>2, <2>1, QuietAlike, Stutters DEF PStep
<1>. QED BY <1>3, <1>4

LEMMA ClaimRefines ==
  ASSUME Consistent, StepOK, NEW w \in Workers, NEW k \in Keys, Claim(w, k)
  PROVE  PStep
<1>1. event[k] # None /\ event[k].status = "PENDING" /\ UNCHANGED <<payment, answer>>
  BY DEF Claim, callers
<1>2. event' \in [Keys -> EventRows \cup {None}] /\ event'[k] # None
  BY <1>1 DEF StepOK, Consistent, DatabaseType, Grows
<1>3. event' = [event EXCEPT ![k] = event'[k]]
  BY <1>2 DEF Claim, Consistent, DatabaseType
<1>. QED BY <1>1, <1>2, <1>3, EventRefines

LEMMA LeaseExpiresRefines ==
  ASSUME Consistent, StepOK, NEW k \in Keys, LeaseExpires(k)
  PROVE  PStep
<1>1. event[k] # None /\ event[k].status = "PROCESSING" /\ UNCHANGED <<payment, answer>>
  BY DEF LeaseExpires, callers
<1>2. event' \in [Keys -> EventRows \cup {None}] /\ event'[k] # None
  BY <1>1 DEF StepOK, Consistent, DatabaseType, Grows
<1>3. event' = [event EXCEPT ![k] = event'[k]]
  BY <1>2 DEF LeaseExpires, Consistent, DatabaseType
<1>. QED BY <1>1, <1>2, <1>3, EventRefines

LEMMA NoteErrorRefines ==
  ASSUME Consistent, StepOK, NEW w \in Workers, NoteError(w)
  PROVE  PStep
<1>0. PICK k \in Keys : k = job[w]
  BY DEF Consistent, WorkerOK, Handed, NoteError
<1>1. payment[k] # None /\ payment[k] \in PaymentRows
  BY <1>0 DEF Consistent, WorkerOK, Handed, DatabaseType, NoteError
<1>2. payment' = [payment EXCEPT ![k] = Noted(payment[k])] /\ UNCHANGED <<event, answer>>
  BY <1>0 DEF NoteError, Noted, Goto, callers
<1>3. payment'[k] = Noted(payment[k]) /\ \A j \in Keys \ {k} : payment'[j] = payment[j]
  BY <1>1, <1>2 DEF Consistent, DatabaseType
<1>4. Alike(k)
  BY <1>1, <1>2, <1>3, RowProgress, RowRewritten, NoneIsNoRow DEF Alike, GivenUp, Rewrites
<1>5. \A j \in Keys \ {k} : Alike(j)
  BY <1>2, <1>3 DEF Alike, GivenUp
<1>. QED BY <1>2, <1>4, <1>5, Stutters DEF PStep

LEMMA StoreLinkRefines ==
  ASSUME Consistent, StepOK, NEW w \in Workers, NEW l \in Links \ {"none"}, StoreLink(w, l)
  PROVE  PStep
<1>0. PICK k \in Keys : k = job[w]
  BY DEF Consistent, WorkerOK, Handed, StoreLink
<1>1. /\ payment[k] # None /\ payment[k] \in PaymentRows
      /\ event[k] # None /\ payment[k].status = "PENDING"
  BY <1>0 DEF Consistent, WorkerOK, Handed, DatabaseType, StoreLink, StillPending
<1>2. payment' = [payment EXCEPT ![k] = Linked(payment[k], l)] /\ UNCHANGED <<event, answer>>
  BY <1>0 DEF StoreLink, Linked, Goto, callers
<1>3. payment'[k] = Linked(payment[k], l) /\ \A j \in Keys \ {k} : payment'[j] = payment[j]
  BY <1>1, <1>2 DEF Consistent, DatabaseType
<1>4. /\ Life' = [Life EXCEPT ![k] = LifeOf(k)'] /\ Standing' = Standing /\ Informed' = Informed
  BY <1>1, <1>2, <1>3, OnlyKey
<1>5. LifeMeans(k) /\ LifeMeans(k)'
  BY <1>1, Lives, LivesOn DEF StepOK
<1>6. payment'[k] # None /\ payment'[k].status = "PENDING" /\ payment'[k].link = l
  BY <1>1, <1>3, RowProgress, RowRewritten, NoneIsNoRow DEF Rewrites
<1>7. LifeOf(k) \in {"queued", "given up", "blank", "linked"}
  BY <1>1, <1>5 DEF LifeMeans, Waiting
<1>8. CASE l = "usable"
  <2>1. LifeOf(k)' = "linked"
    BY <1>5, <1>6, <1>8 DEF LifeMeans
  <2>2. CASE LifeOf(k) = "linked"
    BY <1>1, <1>4, <2>1, <2>2 DEF PStep, Promise!pvars, Life
  <2>3. CASE LifeOf(k) # "linked"
    <3>1. Promise!Link(k)
      BY <1>1, <1>4, <1>7, <2>1, <2>3 DEF Promise!Link, Promise!Becomes, Life
    <3>. QED BY <1>1, <3>1 DEF PStep, Promise!PNext
  <2>. QED BY <2>2, <2>3
<1>9. CASE l = "blank"
  <2>1. LifeOf(k)' = "blank"
    BY <1>5, <1>6, <1>9 DEF LifeMeans
  <2>2. CASE LifeOf(k) = "blank"
    BY <1>1, <1>4, <2>1, <2>2 DEF PStep, Promise!pvars, Life
  <2>3. CASE LifeOf(k) # "blank"
    <3>1. Promise!Blank(k)
      BY <1>1, <1>4, <1>7, <2>1, <2>3 DEF Promise!Blank, Promise!Becomes, Life
    <3>. QED BY <1>1, <3>1 DEF PStep, Promise!PNext
  <2>. QED BY <2>2, <2>3
<1>. QED BY <1>8, <1>9 DEF Links

LEMMA SettlePaymentRefines ==
  ASSUME Consistent, StepOK, NEW k \in Keys, NEW status \in PaymentStatuses,
         SettlePayment(k, status)
  PROVE  PStep
<1>1. /\ payment[k] # None /\ payment[k] \in PaymentRows
      /\ <<payment[k].status, status>> \in Transitions
  BY DEF Consistent, DatabaseType, SettlePayment
<1>2. payment' = [payment EXCEPT ![k] = Became(payment[k], status)]
      /\ UNCHANGED <<event, answer>>
  BY DEF SettlePayment, Became, callers
<1>3. /\ payment'[k] = Became(payment[k], status)
      /\ \A j \in Keys \ {k} : payment'[j] = payment[j]
  BY <1>2 DEF Consistent, DatabaseType
<1>4. /\ Life' = [Life EXCEPT ![k] = LifeOf(k)'] /\ Standing' = Standing /\ Informed' = Informed
  BY <1>1, <1>2, <1>3, OnlyKey
<1>5. LifeMeans(k) /\ LifeMeans(k)'
  BY Lives, LivesOn DEF StepOK
<1>6. payment'[k] # None /\ payment'[k].status # "PENDING"
  BY <1>1, <1>3, RowProgress, RowRewritten, NoneIsNoRow DEF Rewrites, Transitions
<1>7. LifeOf(k)' = "settled"
      /\ LifeOf(k) \in {"bare", "queued", "given up", "blank", "linked", "settled"}
  BY <1>1, <1>5, <1>6 DEF LifeMeans
<1>8. CASE LifeOf(k) = "settled"
  BY <1>4, <1>7, <1>8 DEF PStep, Promise!pvars, Life
<1>9. CASE LifeOf(k) # "settled"
  <2>1. Promise!Settle(k)
    BY <1>4, <1>7, <1>9 DEF Promise!Settle, Promise!Becomes, Life
  <2>. QED BY <2>1 DEF PStep, Promise!PNext
<1>. QED BY <1>8, <1>9

-----------------------------------------------------------------------------
(* The refinement.                                                         *)

LEMMA InitRefines == Init => Promise!PInit
<1> SUFFICES ASSUME Init PROVE Promise!PInit
  OBVIOUS
<1>1. ASSUME NEW k \in Keys
      PROVE  /\ TermsOf(k) \in {None} \cup {[l EXCEPT !.email = None] : l \in Legacy}
             /\ LifeOf(k) = IF TermsOf(k) = None THEN "none" ELSE "bare"
  <2>1. CASE payment[k] = None
    BY <2>1 DEF LifeOf, TermsOf
  <2>2. CASE payment[k] # None
    <3>1. PICK l \in Legacy : payment[k] = PendingPayment(l, None)
      BY <2>2 DEF Init
    <3>2. TermsOf(k) = [sale |-> l.sale, email |-> None, provider |-> l.provider]
      BY <2>2, <3>1 DEF TermsOf, PendingPayment
    <3>3. [l EXCEPT !.email = None] = [sale |-> l.sale, email |-> None, provider |-> l.provider]
      BY RequestRecord, LegacyAssumption
    <3>4. TermsOf(k) # None
      BY <3>2, <3>3, LegacyAssumption, RequestAssumption, NoneAssumption DEF Terms
    <3>5. LifeOf(k) = "bare"
      BY <2>2, <3>1 DEF LifeOf, Settled, PendingPayment, Init
    <3>. QED BY <3>2, <3>3, <3>4, <3>5
  <2>. QED BY <2>1, <2>2
<1>2. Informed = [c \in Callers |-> None]
  BY DEF Informed, Init, NoAnswer
<1>. QED BY <1>1, <1>2 DEF Promise!PInit, Life, Standing

LEMMA NextRefines == Consistent /\ [Next]_vars => [Promise!PNext]_Promise!pvars
<1> SUFFICES ASSUME Consistent, [Next]_vars PROVE PStep
  BY DEF PStep
<1>0. StepOK
  BY NextOK
<1>1. CASE UNCHANGED <<payment, event, answer>>
  BY <1>0, <1>1, QuietAlike, Stutters DEF PStep
<1>2. ASSUME NEW c \in Callers, NEW k \in Keys, NEW q \in Requests, Request(c, k, q)
      PROVE  PStep
  <2>1. Informed' = [Informed EXCEPT ![c] = None]
    BY <1>2 DEF Request, Informed, Consistent, CallersType, NoAnswer
  <2>. QED BY <1>0, <1>2, <2>1, Forgets DEF Request, database, PStep
<1>3. ASSUME NEW c \in Callers, Raises(c) PROVE PStep
  <2>1. CASE ReplayPayment(c)
    BY <1>0, <2>1, ReplayRefines
  <2>2. CASE ~ReplayPayment(c)
    <3>1. \E outcome \in Outcomes \ {"payment"} : Raise(c, outcome)
      BY <1>3, <2>2 DEF Raises, NoEmail, SaleNotFound, KeyConflict, SaleClosed, CallerCrash, Outcomes
    <3>. QED BY <1>0, <3>1, RefusesOK
  <2>. QED BY <2>1, <2>2
<1>4. ASSUME NEW c \in Callers, CallerStep(c) PROVE PStep
  <2>1. CASE LockKey(c) \/ LockSale(c) \/ ResumePayment(c) \/ NewPayment(c)
    BY <1>1, <2>1 DEF LockKey, LockSale, ResumePayment, NewPayment, database
  <2>. QED BY <1>0, <1>3, <1>4, <2>1, ReadEventRefines, EnqueueRefines, ReviveEventRefines,
              CreatePaymentRefines DEF CallerStep, Raises
<1>5. ASSUME NEW w \in Workers, HandlerStep(w) PROVE PStep
  <2>1. CASE Looks(w)
    BY <1>1, <2>1 DEF Looks, ProviderMismatch, AlreadySettled, CopyPayment, SettledMeanwhile,
       InitiatePayment, UnexpectedIntent, ProviderError, Goto, database, callers
  <2>2. CASE HandlerReturned(w)
    BY <1>0, <2>2, SettleRefines DEF HandlerReturned
  <2>3. CASE HandlerRaised(w)
    BY <1>0, <2>3, SettleRefines DEF HandlerRaised
  <2>. QED BY <1>0, <1>5, <2>1, <2>2, <2>3, NoteErrorRefines, StoreLinkRefines DEF HandlerStep, Looks
<1>6. ASSUME NEW w \in Workers, WorkerCrash(w) PROVE PStep
  BY <1>1, <1>6 DEF WorkerCrash, database, callers
<1>7. ASSUME NEW s \in Sales, CancelSale(s) PROVE PStep
  BY <1>1, <1>7 DEF CancelSale, callers
<1>8. CASE UNCHANGED vars
  BY <1>1, <1>8 DEF vars, database, callers
<1>. QED BY <1>0, <1>2, <1>3, <1>4, <1>5, <1>6, <1>7, <1>8, ClaimRefines, LeaseExpiresRefines,
            SettlePaymentRefines DEF Next, Raises

\* The transactions of callers and workers, crashes, expired leases and repeated
\* deliveries included, do to each payment only what PaymentPromise allows:
\* nobody is told of a payment whose work is lost or given up.
THEOREM PromiseKept == Spec => KeepsPromise
BY InitRefines, NextRefines, ConsistencyInvariant, PTL DEF Spec, KeepsPromise, Promise!PSpec

==============================================================================
