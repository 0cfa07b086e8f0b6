---------------------------- MODULE MCOrderSystem ----------------------------
(* Instances of OrderSystem for TLC. *)
EXTENDS OrderSystem, TLC

CONSTANTS o1, w1, w2, a, b, c, x

ThreeSkus     == {a, b, c}
MixedCurrency == [s \in Skus |-> IF s = c THEN "EUR" ELSE "USD"]
OneOfEachSku  == [s \in Skus |-> 1]

\* Quantities are counted in fifths of a unit; two of them are stored as zero.
Line(sku, qty) == [sku |-> sku, qty |-> qty * Parts]
TinyCart == <<[sku |-> a, qty |-> 2]>>

\* Carts that are refused, served, served line by line, short, without a
\* total, and that cannot be read.
AllCarts == {<<Line(x, 1)>>, <<>>, <<Line(a, 1)>>, <<Line(a, 1), Line(b, 1)>>,
             <<Line(a, 2)>>, <<Line(a, 1), Line(c, 1)>>,
             TinyCart}
OneCart  == {<<Line(a, 1)>>}

OneOfEach     == [f \in Faults |-> 1]
OneCrashOneDb == [f \in Faults |-> IF f = "conn" THEN 0 ELSE 1]
NoFaults      == [f \in Faults |-> 0]

Interchangeable == Permutations(Workers)
==============================================================================
