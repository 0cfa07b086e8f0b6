---------------------------- MODULE OrderProofs ----------------------------
(***************************************************************************)
(* Proofs about the Order aggregate, for any products, quantities, reasons  *)
(* and number of lines, under every sequence of calls.                      *)
(***************************************************************************)
EXTENDS Order, TLAPS

IInv == TypeOK /\ SubmittedHasLines /\ ReasonFitsStatus

LEMMA InitIInv == Init => IInv
BY DEF Init, IInv, TypeOK, SubmittedHasLines, ReasonFitsStatus

LEMMA AddLineItemIInv ==
  ASSUME IInv, NEW sku \in Skus, NEW quantity \in Quantities,
         AddLineItem(sku, quantity)
  PROVE  IInv'
<1> USE DEF IInv, AddLineItem
<1>1. [sku |-> sku, quantity |-> quantity] \in OrderLineItem
  BY DEF OrderLineItem
<1>2. TypeOK'
  BY <1>1 DEF TypeOK
<1>3. SubmittedHasLines' /\ ReasonFitsStatus'
  BY DEF SubmittedHasLines, ReasonFitsStatus
<1> QED
  BY <1>2, <1>3

LEMMA NextIInv == IInv /\ [Next]_vars => IInv'
<1> SUFFICES ASSUME IInv, [Next]_vars PROVE IInv'
  OBVIOUS
<1> USE DEF IInv, TypeOK, SubmittedHasLines, ReasonFitsStatus
<1>1. ASSUME NEW sku \in Skus, NEW quantity \in Quantities,
             AddLineItem(sku, quantity)
      PROVE  IInv'
  BY <1>1, AddLineItemIInv
<1>2. CASE Submit
  BY <1>2 DEF Submit
<1>3. CASE Confirm
  BY <1>3 DEF Confirm
<1>4. ASSUME NEW reason \in Reasons, Reject(reason) PROVE IInv'
  BY <1>4, OrderAssumption DEF Reject
<1>5. CASE Cancel
  BY <1>5 DEF Cancel
<1>6. CASE UNCHANGED vars
  BY <1>6 DEF vars
<1> QED
  BY <1>1, <1>2, <1>3, <1>4, <1>5, <1>6 DEF Next

\* The inductive invariant of the aggregate.
LEMMA Invariance == Spec => []IInv
BY InitIInv, NextIInv, PTL DEF Spec

\* The fields keep their types; no line ever has a quantity that is not
\* positive (domain/Order.js:7-9).
THEOREM TypeCorrect == Spec => []TypeOK
<1>1. IInv => TypeOK
  BY DEF IInv
<1> QED
  BY <1>1, Invariance, PTL

\* No order gets past DRAFT without lines (domain/Order.js:31, 61-69).
THEOREM NeverEmpty == Spec => []SubmittedHasLines
<1>1. IInv => SubmittedHasLines
  BY DEF IInv
<1> QED
  BY <1>1, Invariance, PTL

\* A reason is found where an order was rejected and nowhere else
\* (domain/Order.js:80-93).
THEOREM ReasonsFit == Spec => []ReasonFitsStatus
<1>1. IInv => ReasonFitsStatus
  BY DEF IInv
<1> QED
  BY <1>1, Invariance, PTL

\* No call changes the lines of an order that was submitted
\* (domain/Order.js:53-58).
THEOREM LinesAreFrozen == Spec => FrozenOnceSubmitted
<1>1. [Next]_vars => [status # "DRAFT" => lineItems' = lineItems]_vars
  BY DEF Next, AddLineItem, Submit, Confirm, Reject, Cancel, vars
<1> QED
  BY <1>1, PTL DEF Spec, FrozenOnceSubmitted

\* The object lives the lifecycle of its header comment (domain/Order.js:23-34).
THEOREM Refinement == Spec => ImplementsLifecycle
<1> DEFINE bar == [o \in {"this"} |-> status]
<1>1. Init => Lifecycle!Init
  BY DEF Init, Lifecycle!Init
<1>2. ASSUME TypeOK, [Next]_vars PROVE [Lifecycle!Next]_bar
  <2>1. CASE Submit
    BY <1>2, <2>1 DEF Submit, Lifecycle!Next, Lifecycle!Submit, Lifecycle!Move
  <2>2. CASE Confirm
    BY <1>2, <2>2 DEF Confirm, Lifecycle!Next, Lifecycle!Confirm, Lifecycle!Move
  <2>3. ASSUME NEW reason \in Reasons, Reject(reason) PROVE Lifecycle!Next
    BY <1>2, <2>3 DEF Reject, Lifecycle!Next, Lifecycle!Reject, Lifecycle!Move
  <2>4. CASE Cancel
    BY <1>2, <2>4 DEF Cancel, TypeOK, Lifecycle!Next, Lifecycle!Cancel,
                      Lifecycle!Move, Lifecycle!STATUS
  <2>5. CASE UNCHANGED status
    BY <2>5
  <2> QED
    BY <1>2, <2>1, <2>2, <2>3, <2>4, <2>5 DEF Next, AddLineItem, vars
<1> QED
  BY <1>1, <1>2, TypeCorrect, PTL DEF Spec, ImplementsLifecycle, Lifecycle!Spec
==============================================================================
