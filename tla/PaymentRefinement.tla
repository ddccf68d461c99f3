--------------------------- MODULE PaymentRefinement ---------------------------
(* The initiation of payments and its outbox handler keep PaymentPromise.   *)
EXTENDS PaymentInitiation

Settled(k) == payment[k].status # "PENDING"

\* Every event is some work on its payment but one that is DONE.
LifeOf(k) ==
  CASE payment[k] = None -> "none"
    [] payment[k] # None /\ Settled(k) -> "settled"
    [] payment[k] # None /\ ~Settled(k) /\ payment[k].link = "usable" -> "linked"
    [] payment[k] # None /\ ~Settled(k) /\ payment[k].link = "blank" -> "blank"
    [] OTHER -> IF event[k] = None THEN "bare"
                ELSE CASE event[k].status = "FAILED" -> "given up"
                       [] event[k].status = "DONE" -> "lost"
                       [] OTHER -> "queued"

TermsOf(k) ==
  IF payment[k] = None THEN None
  ELSE [sale |-> payment[k].sale, email |-> payment[k].email, provider |-> payment[k].provider]

Life == [k \in Keys |-> LifeOf(k)]
Standing == [k \in Keys |-> TermsOf(k)]
Informed == [c \in Callers |-> IF answer[c].outcome = "payment"
                               THEN <<answer[c].key, answer[c].req>> ELSE None]

Promise == INSTANCE PaymentPromise WITH life <- Life, terms <- Standing, told <- Informed

\* The two transactions of a caller and the three of a worker, with the call to
\* the provider between them, keep the promise across crashes, leases that run
\* out and events delivered twice (payment_initiation.py:46-139,
\* payment_initiation_outbox.py:27-101): nobody is told of a payment whose work
\* is lost or given up, and no payment that the provider never answered is left
\* without work.
KeepsPromise == Promise!PSpec
=============================================================================
