SPECIFICATION Spec
CONSTANTS
  Requests = {r1, r2}
  Users = {u1, u2}
  Emails = {e1}
  Tokens = {t1, t2, t3, t4}
  NoAccount = NoAccount
  NoToken = NoToken
  NoUser = NoUser
  FaultBudget = 1
SYMMETRY Interchangeable
INVARIANTS
  TypeOK
  RegisteredOnce
  RetiredIsRevoked
  NoLateReissue
  ForksNeedOverlap
  SessionSurvives
CHECK_DEADLOCK FALSE
