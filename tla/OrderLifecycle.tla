---------------------------- MODULE OrderLifecycle ----------------------------
(***************************************************************************)
(* What the system promises about the status of its orders, whatever        *)
(* happens to processes, messages and connections: the lifecycle that the   *)
(* header comment of domain/Order.js describes.  An order is submitted      *)
(* once, decided at most once, and a confirmed order stays confirmed.       *)
(* Order (the aggregate object) and OrderPipeline (API, broker, workers and *)
(* database) are shown to implement this specification.                     *)
(***************************************************************************)
CONSTANT Orders

VARIABLE status

STATUS == {"DRAFT", "PENDING", "CONFIRMED", "REJECTED", "CANCELLED"}

Init == status = [o \in Orders |-> "DRAFT"]

Move(o, from, to) ==
  /\ status[o] \in from
  /\ status' = [status EXCEPT ![o] = to]

Submit(o)  == Move(o, {"DRAFT"}, "PENDING")
Confirm(o) == Move(o, {"PENDING"}, "CONFIRMED")
Reject(o)  == Move(o, {"PENDING"}, "REJECTED")
Cancel(o)  == Move(o, STATUS \ {"CONFIRMED"}, "CANCELLED")

Next == \E o \in Orders : Submit(o) \/ Confirm(o) \/ Reject(o) \/ Cancel(o)

Spec == Init /\ [][Next]_status
=============================================================================
