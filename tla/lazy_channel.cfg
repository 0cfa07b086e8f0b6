SPECIFICATION FairSpec
CONSTANTS
  Callers = {r1, r2}
  MaxConnections = 8
  FaultBudget = 2
INVARIANTS
  TypeOK
  CachedChannelWorks
  NoFailureWithoutFault
  OneConnection
PROPERTIES
  SelfHeals
