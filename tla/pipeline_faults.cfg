SPECIFICATION Spec
CONSTANTS
  o1 = o1
  o2 = o2
  w1 = w1
  w2 = w2
  a = a
  b = b
  c = c
  x = x
  NoMsg = NoMsg
  Orders = {o1, o2}
  Workers = {w1, w2}
  Skus <- ThreeSkus
  SkuNames = {a, b, c, x}
  Currency <- MixedCurrency
  InitialStock <- StockOneTwo
  Carts <- FaultCarts
  Parts = 5
  MaxAttempts = 2
  BaseDelayMs = 1
  FaultBudget <- OneOfEachKind
CONSTRAINTS
  DbErrorAlone
  OneFaultBesideIdle
  SnapshotSoonSent
SYMMETRY Interchangeable
INVARIANTS
  TypeOK
  IInv
  FaultFreeInv
  ReservedBeforeConfirmed
  NoOversell
  RejectedOnlyIfShort
  SnapshotsTellTheTruth
  DeadLettersMeanFaults
  ExactReservation
  CopiesBounded
  AcceptedIsTracked
PROPERTIES
  EventsHeldUntilResolved
  ImplementsLifecycle
CHECK_DEADLOCK FALSE
