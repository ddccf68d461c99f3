SPECIFICATION FairSpec
CONSTANTS
  c1 = c1  c2 = c2  w1 = w1  w2 = w2  k1 = k1  k2 = k2
  s1 = s1  s2 = s2  s3 = s3  ada = ada  bola = bola  paystack = paystack  opay = opay
  None = None
  Callers = {c1, c2}
  Workers = {}
  Keys = {k1, k2}
  Requests <- Confused
  SaleRows <- TwoOpenSales
  Legacy = {}
  HandlerProvider = paystack
  MaxAttempts = 1
INVARIANTS OneRequestPerKey NobodyCollides
PROPERTIES PaysOpenSale CallersAnswered
