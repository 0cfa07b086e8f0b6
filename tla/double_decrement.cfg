SPECIFICATION Spec
CONSTANTS
  o1 = o1
  o2 = o2
  w1 = w1
  w2 = w2
  a = a
  b = b
  c = c
  x = x
  NoMsg = NoMsg
  Orders = {o1}
  Workers = {w1}
  Skus <- ThreeSkus
  SkuNames = {a, b, c, x}
  Currency <- MixedCurrency
  InitialStock <- StockOneTwo
  Carts <- SimpleCart
  Parts = 5
  MaxAttempts = 2
  BaseDelayMs = 1
  FaultBudget <- OneCrash
INVARIANT
  NeverDecrementedTwice
CHECK_DEADLOCK FALSE
