SPECIFICATION Spec
CONSTANTS
  c1 = c1  c2 = c2  w1 = w1  w2 = w2  k1 = k1  k2 = k2
  s1 = s1  s2 = s2  s3 = s3  ada = ada  bola = bola  paystack = paystack  opay = opay
  None = None
  Callers = {c1}
  Workers = {w1, w2}
  Keys = {k1}
  Requests <- OneAsk
  SaleRows <- OneOpenSale
  Legacy = {}
  HandlerProvider = paystack
  MaxAttempts = 2
INVARIANT InitiatedOnce
