--------------------------- MODULE MCOrderPipeline ---------------------------
(* Instances of OrderPipeline for TLC. *)
EXTENDS OrderPipeline, TLC

CONSTANTS o1, o2, w1, w2, a, b, c, x

ThreeSkus     == {a, b, c}
MixedCurrency == [s \in Skus |-> IF s = c THEN "EUR" ELSE "USD"]

\* One unit of a to fight for, enough of the others for both of two orders.
StockOneTwo == [s \in Skus |-> IF s = a THEN 1 ELSE 2]

\* Quantities are counted in fifths of a unit; two of them are stored as zero.
Line(sku, qty) == [sku |-> sku, qty |-> qty * Parts]
TinyCart == <<[sku |-> b, qty |-> 2]>>
One(sku, qty) == <<Line(sku, qty)>>
Two(sku1, qty1, sku2, qty2) == <<Line(sku1, qty1), Line(sku2, qty2)>>

\* A cart that is refused, one of one line, one that is taken line by line and
\* has no total, and one that cannot be read; the two in the middle fight for a.
FaultCarts == {<<>>, One(a, 1), Two(c, 1, a, 1), TinyCart}

\* The last unit of a asked for twice, and an order nothing is special about.
DuplicateCart == {Two(a, 1, a, 1)}
SimpleCart    == {One(b, 1)}

Budget(crash, dbFaults, conn) ==
  [f \in Faults |-> CASE f = "crash" -> crash [] f = "db" -> dbFaults
                      [] OTHER -> conn]
OneOfEachKind   == Budget(1, 1, 1)
OneCrash        == Budget(1, 0, 0)
NoFaults        == Budget(0, 0, 0)

\* The database fails where nothing else does: a failing query together with a
\* crash or a lost connection is left to order_system.
DbErrorAlone ==
  \/ faults["db"] = FaultBudget["db"]
  \/ faults["crash"] = FaultBudget["crash"] /\ faults["conn"] = FaultBudget["conn"]

\* An order that cannot be read, or whose event the broker never gets, keeps
\* nobody else from anything, and a request that goes without its 202 is explored
\* in order_system: one fault beside it, or of it, will do.
Idles(o) ==
  \/ ~Readable(orders[o].lines)
  \/ api[o].event = "lost"
  \/ api[o].state \in {"failed", "dropped"}

OneFaultBesideIdle ==
  \/ \A o \in Orders : ~Idles(o)
  \/ MapThenSumSet(Suffered, Faults) <= 1

\* Snapshots leave the buffer before a worker begins with an event; the other
\* order of the two is left to order_system.
SnapshotSoonSent ==
  (\E w \in Workers : Holds(w)) =>
    \A o \in Orders : api[o].snapshot # "buffered"

Interchangeable == Permutations(Workers) \cup Permutations(Orders)
==============================================================================
