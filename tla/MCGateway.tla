------------------------------ MODULE MCGateway ------------------------------
(* An instance of Gateway for TLC. *)
EXTENDS Gateway

CONSTANTS ip, customer, admin

Roles == [u \in Users |-> IF u = admin THEN "ADMIN" ELSE "CUSTOMER"]

\* Two requests for the API as a whole, one for each of the others.  The key of
\* the former lives 5 ticks, of the latter 4, so within MaxClock a key expires and
\* the next request, or one that waited, finds it gone.
Capacities == [l \in Limiters |-> IF l = "api" THEN 6 ELSE 3]

Asks(route, bearer) == [route |-> route, ip |-> ip, bearer |-> bearer]

\* Requests of each way through the chain, and a refusal.
EveryKind == <<{Asks("list", admin)},
               {Asks("auth", NoBearer), Asks("create", customer)},
               {Asks("list", customer)}>>
==============================================================================
