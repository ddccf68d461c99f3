---------------------------- MODULE PaymentPromise ----------------------------
(***************************************************************************)
(* What the initiation of external payments promises, whoever asks, races, *)
(* crashes or is delivered twice.  A key stands for one payment with fixed *)
(* terms.  Until the provider has answered or the payment is settled       *)
(* somebody is at work on it, or the work was given up and a retry takes   *)
(* it up again.  That the answer can be paid with is not promised: it may  *)
(* be blank, and then no work need be left.  A caller is told of a payment *)
(* only when it asked for those terms and the payment is not given up.     *)
(***************************************************************************)
CONSTANTS Callers, Keys, Requests, Legacy, None

VARIABLES
  life,   \* none, bare (older than the outbox), queued, given up, blank, linked, settled
  terms,  \* the request a key stands for
  told    \* the key and request of the payment each caller was last told of

pvars == <<life, terms, told>>

\* Of a legacy payment no address is known.
Fits(q, t) == q.sale = t.sale /\ q.provider = t.provider /\ t.email \in {None, q.email}

Tell(c, k, q) ==
  /\ life'[k] \in {"queued", "blank", "linked", "settled"}
  /\ Fits(q, terms'[k])
  /\ told' = [told EXCEPT ![c] = <<k, q>>]
Forget(c) == told' = [told EXCEPT ![c] = None] /\ UNCHANGED <<life, terms>>

Becomes(k, from, to) ==
  /\ life[k] \in from
  /\ life' = [life EXCEPT ![k] = to]

Accept(k, q) == Becomes(k, {"none"}, "queued") /\ terms' = [terms EXCEPT ![k] = q]
TakeUp(k) == Becomes(k, {"bare", "given up"}, "queued") /\ UNCHANGED terms
GiveUp(k) == Becomes(k, {"queued"}, "given up") /\ UNCHANGED <<terms, told>>

\* A later answer replaces an earlier one, for better or worse.
Link(k) == Becomes(k, {"queued", "given up", "blank"}, "linked") /\ UNCHANGED <<terms, told>>
Blank(k) == Becomes(k, {"queued", "given up", "linked"}, "blank") /\ UNCHANGED <<terms, told>>
Settle(k) ==
  /\ Becomes(k, {"bare", "queued", "given up", "blank", "linked"}, "settled")
  /\ UNCHANGED <<terms, told>>
Recall == UNCHANGED <<life, terms>>

PInit ==
  /\ terms \in [Keys -> {None} \cup {[l EXCEPT !.email = None] : l \in Legacy}]
  /\ life = [k \in Keys |-> IF terms[k] = None THEN "none" ELSE "bare"]
  /\ told = [c \in Callers |-> None]

PNext ==
  \/ \E k \in Keys : GiveUp(k) \/ Link(k) \/ Blank(k) \/ Settle(k)
  \/ \E c \in Callers :
       \/ Forget(c)
       \/ \E k \in Keys, q \in Requests :
            (Accept(k, q) \/ TakeUp(k) \/ Recall) /\ Tell(c, k, q)

PSpec == PInit /\ [][PNext]_pvars
=============================================================================
