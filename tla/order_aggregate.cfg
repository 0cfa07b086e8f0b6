SPECIFICATION Spec
CONSTANTS
  Skus = {s1, s2}
  Quantities = {0, 1, 2}
  Reasons = {short}
  NoReason = NoReason
  MaxLines = 3
INVARIANTS
  TypeOK
  SubmittedHasLines
  ReasonFitsStatus
PROPERTIES
  FrozenOnceSubmitted
  ImplementsLifecycle
CHECK_DEADLOCK FALSE
