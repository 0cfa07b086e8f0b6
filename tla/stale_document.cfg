SPECIFICATION SystemSpec
CONSTANTS
  w1 = w1
  w2 = w2
  a = a
  b = b
  c = c
  x = x
  o1 = o1
  NoMsg = NoMsg
  Orders = {o1}
  Workers = {w1}
  Skus <- ThreeSkus
  SkuNames = {a, b, c, x}
  Currency <- MixedCurrency
  InitialStock <- OneOfEachSku
  Carts <- OneCart
  Parts = 5
  MaxAttempts = 1
  BaseDelayMs = 1
  FaultBudget <- NoFaults
  Prefetch = 2
INVARIANT
  ReadStoreSettles
CHECK_DEADLOCK FALSE
