SPECIFICATION Spec
CONSTANTS
  ip = ip
  customer = customer
  admin = admin
  NoBearer = NoBearer
  Arrivals <- EveryKind
  Ips = {ip}
  Users = {customer, admin}
  Role <- Roles
  Capacity <- Capacities
  Cost = 3
  Refill = 2
  Slack = 2
  MaxClock = 5
  MaxDelay = 1
  MaxBack = 1
  MaxLosses = 1
INVARIANTS
  TypeOK
  GrantsBounded
  ExpiryForgetsNothing
  PollingIsFree
  NobodyGetsAround
CHECK_DEADLOCK FALSE
