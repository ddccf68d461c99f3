------------------------- MODULE MCPaymentInitiation -------------------------
(* Small instances of PaymentInitiation.                                   *)
EXTENDS PaymentRefinement, TLC

CONSTANTS c1, c2, w1, w2, k1, k2, s1, s2, s3, ada, bola, paystack, opay

Twins == Permutations(Callers) \cup Permutations(Workers)

Ask(s, email, provider) == [sale |-> s, email |-> email, provider |-> provider]

OneOpenSale == s1 :> "PENDING_PAYMENT"
TwoOpenSales == (s1 :> "PENDING_PAYMENT") @@ (s2 :> "PENDING_PAYMENT")

OneAsk == {Ask(s1, ada, paystack)}

\* One key for two sales and two payers.
Confused == {Ask(s1, ada, paystack), Ask(s1, bola, paystack), Ask(s2, ada, paystack)}

\* A provider the handler is not for, a sale that is not there and an address
\* left blank.
Odd == {Ask(s1, ada, paystack), Ask(s1, ada, opay), Ask(s3, ada, paystack), Ask(s1, None, paystack)}
=============================================================================
