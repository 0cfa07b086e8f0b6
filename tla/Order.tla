-------------------------------- MODULE Order --------------------------------
(***************************************************************************)
(* The Order aggregate of domain/Order.js as an object that can be called   *)
(* in any order.  A call the code answers by throwing changes nothing and   *)
(* so is no step.  Definitions marked "Fault" are wrong variants of the one *)
(* that follows.                                                            *)
(***************************************************************************)
EXTENDS Integers, Sequences

CONSTANTS
  Skus,          \* the product codes a line may name
  Quantities,    \* the quantities a caller may pass, positive or not
  Reasons,       \* the texts reject() may be given
  NoReason,      \* the null of rejectionReason
  MaxLines       \* bound: how many lines a caller adds

ASSUME OrderAssumption ==
  /\ Quantities \subseteq Int
  /\ NoReason \notin Reasons
  /\ MaxLines \in Nat

VARIABLES status, lineItems, rejectionReason

vars == <<status, lineItems, rejectionReason>>

OrderLineItem == [sku : Skus, quantity : {q \in Quantities : q > 0}]

Init ==
  /\ status = "DRAFT"
  /\ lineItems = <<>>
  /\ rejectionReason = NoReason

\* Fault: a line of any quantity.
AddAnyLineItem(sku, quantity) ==
  /\ status = "DRAFT"
  /\ Len(lineItems) < MaxLines
  /\ lineItems' = Append(lineItems, [sku |-> sku, quantity |-> quantity])
  /\ UNCHANGED <<status, rejectionReason>>

\* Fault: at any time.
AddLineItemLate(sku, quantity) ==
  /\ quantity > 0
  /\ Len(lineItems) < MaxLines
  /\ lineItems' = Append(lineItems, [sku |-> sku, quantity |-> quantity])
  /\ UNCHANGED <<status, rejectionReason>>

AddLineItem(sku, quantity) ==
  /\ status = "DRAFT"
  /\ quantity > 0
  /\ Len(lineItems) < MaxLines
  /\ lineItems' = Append(lineItems, [sku |-> sku, quantity |-> quantity])
  /\ UNCHANGED <<status, rejectionReason>>

\* Fault: without a look at the lines.
SubmitEmpty ==
  /\ status = "DRAFT"
  /\ status' = "PENDING"
  /\ UNCHANGED <<lineItems, rejectionReason>>

Submit ==
  /\ status = "DRAFT"
  /\ lineItems # <<>>
  /\ status' = "PENDING"
  /\ UNCHANGED <<lineItems, rejectionReason>>

Confirm ==
  /\ status = "PENDING"
  /\ status' = "CONFIRMED"
  /\ UNCHANGED <<lineItems, rejectionReason>>

\* Fault: assigns the reason before it looks at the status.
RejectReasonFirst(reason) ==
  /\ rejectionReason' = reason
  /\ status' = IF status = "PENDING" THEN "REJECTED" ELSE status
  /\ UNCHANGED lineItems

Reject(reason) ==
  /\ status = "PENDING"
  /\ status' = "REJECTED"
  /\ rejectionReason' = reason
  /\ UNCHANGED lineItems

\* Fault: even a confirmed order.
CancelAlways ==
  /\ status' = "CANCELLED"
  /\ UNCHANGED <<lineItems, rejectionReason>>

Cancel ==
  /\ status # "CONFIRMED"
  /\ status' = "CANCELLED"
  /\ UNCHANGED <<lineItems, rejectionReason>>

Next ==
  \/ \E sku \in Skus, quantity \in Quantities : AddLineItem(sku, quantity)
  \/ Submit
  \/ Confirm
  \/ \E reason \in Reasons : Reject(reason)
  \/ Cancel

Spec == Init /\ [][Next]_vars

------------------------------------------------------------------------------
\* The fields of an Order hold what domain/Order.js puts there; a line item
\* always has a positive quantity.
TypeOK ==
  /\ status \in {"DRAFT", "PENDING", "CONFIRMED", "REJECTED", "CANCELLED"}
  /\ lineItems \in Seq(OrderLineItem)
  /\ rejectionReason \in Reasons \cup {NoReason}

\* "Cannot be empty when submitted" (domain/Order.js:31): an order that reaches
\* the worker or a decision has something to reserve, through any calls.
SubmittedHasLines ==
  status \in {"PENDING", "CONFIRMED", "REJECTED"} => lineItems # <<>>

\* "Cannot add items once no longer DRAFT" (domain/Order.js:32): what was
\* submitted, and announced to the worker and the read store, never changes.
FrozenOnceSubmitted ==
  [][status # "DRAFT" => lineItems' = lineItems]_vars

\* A reason is only ever found on an order that was rejected, and an order that
\* was rejected and not cancelled since has one (domain/Order.js:80-93).
ReasonFitsStatus ==
  /\ rejectionReason # NoReason => status \in {"REJECTED", "CANCELLED"}
  /\ status = "REJECTED" => rejectionReason # NoReason

\* The object lives the lifecycle its header comment promises
\* (domain/Order.js:23-34), as OrderLifecycle states it.
Lifecycle ==
  INSTANCE OrderLifecycle
    WITH Orders <- {"this"}, status <- [o \in {"this"} |-> status]

ImplementsLifecycle == Lifecycle!Spec
=============================================================================
