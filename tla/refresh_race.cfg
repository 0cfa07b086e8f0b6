SPECIFICATION Spec
CONSTANTS
  Requests = {r1, r2}
  Users = {u1}
  Emails = {e1}
  Tokens = {t1, t2, t3}
  NoAccount = NoAccount
  NoToken = NoToken
  NoUser = NoUser
  FaultBudget = 0
SYMMETRY Interchangeable
INVARIANT SingleUse
CHECK_DEADLOCK FALSE
