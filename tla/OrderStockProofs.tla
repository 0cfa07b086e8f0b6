--------------------------- MODULE OrderStockProofs ---------------------------
(***************************************************************************)
(* Proofs about OrderPipeline that count units of stock: what was taken for *)
(* the lines of orders, unit by unit, is missing from the shelf, and what   *)
(* confirmed orders promise is among it.                                    *)
(***************************************************************************)
EXTENDS OrderPipelineProofs, FiniteSetTheorems

------------------------------------------------------------------------------
(* Units.                                                                   *)

\* The units of a product taken so far: the unit u of the t-th decrement for
\* the line i of the order o is <<<<o, i, t>>, u>>.
Gone(s) ==
  {y \in (Orders \X Nat \X Nat) \X Nat :
     LET o == y[1][1]
         i == y[1][2]
     IN  /\ i \in DOMAIN orders[o].lines
         /\ orders[o].lines[i].sku = s
         /\ y[1][3] \in 1..taken[o][i]
         /\ y[2] \in 1..orders[o].lines[i].qty}

\* What is gone and what is left are no more than there was.
StockInv ==
  \A s \in Skus : /\ IsFiniteSet(Gone(s))
                  /\ Cardinality(Gone(s)) + stock[s] <= InitialStock[s]

\* Taking less.
LEMMA FewerGone ==
  ASSUME IInv, IInv', StockInv, NEW s \in Skus, Gone(s)' \subseteq Gone(s),
         stock'[s] = stock[s]
  PROVE  IsFiniteSet(Gone(s)') /\ Cardinality(Gone(s)') + stock'[s] <= InitialStock[s]
<1>1. IsFiniteSet(Gone(s)) /\ Cardinality(Gone(s)) + stock[s] <= InitialStock[s]
  BY DEF StockInv
<1>2. IsFiniteSet(Gone(s)') /\ Cardinality(Gone(s)') <= Cardinality(Gone(s))
  BY <1>1, FS_Subset
<1>3. Cardinality(Gone(s)) \in Nat /\ Cardinality(Gone(s)') \in Nat
  BY <1>1, <1>2, FS_CardinalityType
<1>4. stock[s] \in Nat /\ InitialStock[s] \in Nat
  BY PipelineAssumption DEF IInv, TypeOK
<1> QED
  BY <1>1, <1>2, <1>3, <1>4

\* Taking n units more, under names of their own or not.
LEMMA MoreGone ==
  ASSUME IInv, IInv', StockInv, NEW s \in Skus, NEW n \in Nat, NEW x,
         Gone(s)' \subseteq Gone(s) \cup ({x} \X (1..n)),
         stock'[s] = stock[s] - n
  PROVE  IsFiniteSet(Gone(s)') /\ Cardinality(Gone(s)') + stock'[s] <= InitialStock[s]
<1> DEFINE new == {x} \X (1..n)
<1>1. IsFiniteSet(Gone(s)) /\ Cardinality(Gone(s)) + stock[s] <= InitialStock[s]
  BY DEF StockInv
<1>2. IsFiniteSet(new) /\ Cardinality(new) = n
  <2>1. IsFiniteSet({x}) /\ Cardinality({x}) = 1
    BY FS_Singleton
  <2>2. IsFiniteSet(1..n) /\ Cardinality(1..n) = n
    BY FS_Interval
  <2>3. IsFiniteSet(new) /\ Cardinality(new) = Cardinality({x}) * Cardinality(1..n)
    BY <2>1, <2>2, FS_Product
  <2> QED
    BY <2>1, <2>2, <2>3
<1> HIDE DEF new
<1>3. /\ IsFiniteSet(Gone(s) \cup new)
      /\ Cardinality(Gone(s) \cup new)
           = Cardinality(Gone(s)) + Cardinality(new) - Cardinality(Gone(s) \cap new)
  BY <1>1, <1>2, FS_Union
<1>4. IsFiniteSet(Gone(s) \cap new) /\ Cardinality(Gone(s) \cap new) \in Nat
  BY <1>1, FS_Intersection, FS_CardinalityType
<1>5. /\ IsFiniteSet(Gone(s)')
      /\ Cardinality(Gone(s)') <= Cardinality(Gone(s) \cup new)
  BY <1>3, FS_Subset DEF new
<1>6. /\ Cardinality(Gone(s)) \in Nat /\ Cardinality(Gone(s)') \in Nat
      /\ Cardinality(Gone(s) \cup new) \in Nat
  BY <1>1, <1>3, <1>5, FS_CardinalityType
<1>7. stock[s] \in Nat /\ InitialStock[s] \in Nat
  BY PipelineAssumption DEF IInv, TypeOK
<1> QED
  BY <1>1, <1>2, <1>3, <1>4, <1>5, <1>6, <1>7

\* Storing an order takes nothing.
LEMMA StoreGone ==
  ASSUME IInv, NEW o \in Orders, NEW cart \in Carts, api[o].state = "new", Store(o, cart), NEW s
  PROVE  Gone(s)' \subseteq Gone(s)
<1>1. cart \in Seq([sku : SkuNames, qty : Int])
  BY PipelineAssumption
<1>2. /\ orders'[o] = Stored(cart)
      /\ taken'[o] = [i \in DOMAIN cart |-> 0]
      /\ \A p \in Orders \ {o} : orders'[p] = orders[p] /\ taken'[p] = taken[p]
  BY DEF Store, IInv, TypeOK
<1>3. DOMAIN orders'[o].lines = DOMAIN cart
  BY <1>2 DEF Stored
<1> SUFFICES ASSUME NEW y \in Gone(s)' PROVE y \in Gone(s)
  OBVIOUS
<1>4. y \in (Orders \X Nat \X Nat) \X Nat /\ y[1][1] \in Orders
  BY DEF Gone
<1>5. y[1][1] # o
  <2> SUFFICES ASSUME y[1][1] = o PROVE FALSE
    OBVIOUS
  <2>1. y[1][2] \in DOMAIN cart /\ y[1][3] \in 1..taken'[o][y[1][2]]
    BY <1>3 DEF Gone
  <2> QED
    BY <1>2, <2>1
<1> QED
  BY <1>2, <1>4, <1>5 DEF Gone

\* Neither does deciding one.
LEMMA DecideGone ==
  ASSUME IInv, NEW w \in Workers, worker[w].pc \in {"confirm", "reject"}, UpdateStatus(w), NEW s
  PROVE  Gone(s)' \subseteq Gone(s)
<1>1. \A o \in Orders : orders'[o].lines = orders[o].lines
  BY Handling DEF UpdateStatus, IInv, TypeOK
<1>2. UNCHANGED taken
  BY DEF UpdateStatus
<1> QED
  BY <1>1, <1>2 DEF Gone

\* A decrement takes as many units as it takes off the shelf.
LEMMA DecrementGone ==
  ASSUME IInv, NEW w \in Workers, worker[w].pc = "reserve", Decrement(w), NEW s \in Skus
  PROVE  \/ Gone(s)' \subseteq Gone(s) /\ stock'[s] = stock[s]
         \/ /\ LineOf(w).qty \in Nat
            /\ stock'[s] = stock[s] - LineOf(w).qty
            /\ \E x : Gone(s)' \subseteq Gone(s) \cup ({x} \X (1..LineOf(w).qty))
<1> DEFINE o == OrderOf(w)
           l == worker[w].line
           q == LineOf(w).qty
           k == LineOf(w).sku
           n == taken[o][l] + 1
<1>1. /\ o \in Orders /\ l \in 1..Len(taken[o]) /\ taken[o] \in Seq(Nat)
      /\ l \in DOMAIN orders[o].lines /\ l \in Nat
      /\ q \in Nat /\ k \in Skus
  <2>1. o \in Orders /\ Len(taken[o]) = Len(orders[o].lines)
    BY Handling
  <2>2. l \in 1..Len(orders[o].lines) /\ q \in Nat /\ k \in Skus
    BY AtLine
  <2>3. taken[o] \in Seq(Nat)
    BY <2>1 DEF IInv, TypeOK
  <2>4. l \in DOMAIN orders[o].lines
    BY DEF IInv, WorkerInv
  <2> QED
    BY <2>1, <2>2, <2>3, <2>4
<1>2. /\ UNCHANGED orders
      /\ stock' = [stock EXCEPT ![k] = stock[k] - q]
      /\ taken' = [taken EXCEPT ![o][l] = n]
  BY DEF Decrement
<1>3. n \in Nat
  BY <1>1
<1>4. LineOf(w) = orders[o].lines[l]
  BY DEF LineOf
<1> HIDE DEF o, l, q, k, n
<1>5. /\ \A p \in Orders \ {o} : taken'[p] = taken[p]
      /\ taken'[o][l] = n
      /\ \A i \in 1..Len(taken[o]) : i # l => taken'[o][i] = taken[o][i]
  <2>1. taken \in [Orders -> Seq(Nat)]
    BY DEF IInv, TypeOK
  <2>2. taken'[o] = [taken[o] EXCEPT ![l] = n] /\ \A p \in Orders \ {o} : taken'[p] = taken[p]
    BY <1>1, <1>2, <2>1
  <2> QED
    BY <1>1, <1>3, <2>2
<1>6. n - 1 = taken[o][l]
  BY <1>1 DEF n
<1>7. ASSUME NEW y \in Gone(s)', y \notin Gone(s)
      PROVE  s = k /\ y \in {<<o, l, n>>} \X (1..q)
  <2>1. /\ y \in (Orders \X Nat \X Nat) \X Nat
        /\ y[1][1] \in Orders /\ y[1][2] \in DOMAIN orders[y[1][1]].lines
        /\ orders[y[1][1]].lines[y[1][2]].sku = s
        /\ y[1][3] \in 1..taken'[y[1][1]][y[1][2]]
        /\ y[2] \in 1..orders[y[1][1]].lines[y[1][2]].qty
    BY <1>2 DEF Gone
  <2>2. y[1][3] \notin 1..taken[y[1][1]][y[1][2]]
    BY <1>7, <2>1 DEF Gone
  <2>3. y[1][1] = o
    BY <1>5, <2>1, <2>2
  <2>4. y[1][2] \in 1..Len(taken[o])
    <3>1. Len(taken[o]) = Len(orders[o].lines) /\ orders[o].lines \in Seq([sku : SkuNames, qty : Int])
      BY <1>1 DEF IInv, RowsInv, TypeOK, OrderRow
    <3> QED
      BY <2>1, <2>3, <3>1
  <2>5. y[1][2] = l
    BY <1>5, <2>1, <2>2, <2>3, <2>4
  <2>6. y[1][3] = n
    BY <1>3, <1>5, <1>6, <2>1, <2>2, <2>3, <2>5
  <2>7. y = <<<<o, l, n>>, y[2]>>
    BY <2>1, <2>3, <2>5, <2>6
  <2>8. y[2] \in 1..q /\ s = k
    BY <1>4, <2>1, <2>3, <2>5 DEF q, k
  <2> QED
    BY <2>7, <2>8
<1>8. CASE s = k
  <2>1. stock'[s] = stock[s] - q
    BY <1>1, <1>2, <1>8 DEF IInv, TypeOK
  <2>2. Gone(s)' \subseteq Gone(s) \cup ({<<o, l, n>>} \X (1..q))
    BY <1>7
  <2> QED
    BY <1>1, <2>1, <2>2 DEF q
<1>9. CASE s # k
  <2>1. stock'[s] = stock[s]
    BY <1>2, <1>9 DEF IInv, TypeOK
  <2> QED
    BY <1>7, <1>9, <2>1
<1> QED
  BY <1>8, <1>9

LEMMA NextStock == IInv /\ IInv' /\ StockInv /\ [Next]_vars => StockInv'
<1> SUFFICES ASSUME IInv, IInv', StockInv, [Next]_vars, NEW s \in Skus
             PROVE  /\ IsFiniteSet(Gone(s)')
                    /\ Cardinality(Gone(s)') + stock'[s] <= InitialStock[s]
  BY DEF StockInv
<1>1. CASE UNCHANGED db
  <2>1. Gone(s)' \subseteq Gone(s) /\ stock'[s] = stock[s]
    BY <1>1 DEF db, Gone
  <2> QED
    BY <2>1, FewerGone
<1>2. ASSUME NEW o \in Orders, NEW cart \in Carts, api[o].state = "new", Store(o, cart)
      PROVE  Gone(s)' \subseteq Gone(s) /\ stock'[s] = stock[s]
  BY <1>2, StoreGone DEF Store
<1>3. ASSUME NEW w \in Workers, worker[w].pc \in {"confirm", "reject"}, UpdateStatus(w)
      PROVE  Gone(s)' \subseteq Gone(s) /\ stock'[s] = stock[s]
  BY <1>3, DecideGone DEF UpdateStatus
<1>4. ASSUME NEW w \in Workers, worker[w].pc = "reserve", Decrement(w)
      PROVE  /\ IsFiniteSet(Gone(s)')
             /\ Cardinality(Gone(s)') + stock'[s] <= InitialStock[s]
  BY <1>4, DecrementGone, FewerGone, MoreGone
<1> QED
  BY <1>1, <1>2, <1>3, <1>4, TableCases, FewerGone

------------------------------------------------------------------------------
\* What confirmed orders promise was taken: the first time the line was
\* decremented, unit by unit.
LEMMA PromisedIsGone ==
  ASSUME IInv, StockInv, NEW s \in Skus
  PROVE  /\ IsFiniteSet(Promised(s))
         /\ Cardinality(Promised(s)) <= Cardinality(Gone(s))
<1> DEFINE f == [p \in Promised(s) |-> <<<<p[1][1], p[1][2], 1>>, p[2]>>]
<1>1. ASSUME NEW p \in Promised(s)
      PROVE  /\ p = <<<<p[1][1], p[1][2]>>, p[2]>>
             /\ p[1][1] \in Orders
             /\ orders[p[1][1]].status = "CONFIRMED"
             /\ p[1][2] \in DOMAIN orders[p[1][1]].lines
             /\ orders[p[1][1]].lines[p[1][2]].sku = s
             /\ p[2] \in 1..orders[p[1][1]].lines[p[1][2]].qty
  <2>1. PICK x : /\ p \in {x} \X (1..orders[x[1]].lines[x[2]].qty)
                 /\ x \in UNION {{o} \X DOMAIN orders[o].lines : o \in Orders}
                 /\ orders[x[1]].status = "CONFIRMED"
                 /\ orders[x[1]].lines[x[2]].sku = s
    BY DEF Promised
  <2>2. PICK o \in Orders : x \in {o} \X DOMAIN orders[o].lines
    BY <2>1
  <2>3. x = <<o, x[2]>> /\ x[2] \in DOMAIN orders[o].lines
    BY <2>2
  <2>4. p = <<x, p[2]>> /\ p[2] \in 1..orders[x[1]].lines[x[2]].qty
    BY <2>1
  <2> QED
    BY <2>1, <2>2, <2>3, <2>4
<1>2. ASSUME NEW p \in Promised(s) PROVE f[p] \in Gone(s)
  <2> DEFINE o == p[1][1]
             i == p[1][2]
             u == p[2]
  <2>1. /\ o \in Orders /\ i \in DOMAIN orders[o].lines /\ u \in 1..orders[o].lines[i].qty
        /\ orders[o].lines[i].sku = s /\ orders[o].status = "CONFIRMED"
    BY <1>1
  <2>2. taken[o][i] >= 1
    BY <2>1 DEF IInv, ReservedBeforeConfirmed
  <2>3. i \in Nat /\ u \in Nat /\ taken[o][i] \in Nat
    <3>1. /\ orders[o].lines \in Seq([sku : SkuNames, qty : Int]) /\ taken[o] \in Seq(Nat)
          /\ Len(taken[o]) = Len(orders[o].lines)
      BY <2>1 DEF IInv, TypeOK, OrderRow, RowsInv
    <3>2. i \in 1..Len(taken[o])
      BY <2>1, <3>1
    <3> HIDE DEF o, i, u
    <3> QED
      BY <2>1, <3>1, <3>2
  <2>4. f[p] = <<<<o, i, 1>>, u>>
    OBVIOUS
  <2> HIDE DEF o, i, u, f
  <2> QED
    BY <2>1, <2>2, <2>3, <2>4 DEF Gone
<1>3. f \in Injection(Promised(s), Gone(s))
  <2>1. f \in [Promised(s) -> Gone(s)]
    BY <1>2
  <2>2. ASSUME NEW p \in Promised(s), NEW r \in Promised(s), f[p] = f[r] PROVE p = r
    <3>1. p[1][1] = r[1][1] /\ p[1][2] = r[1][2] /\ p[2] = r[2]
      BY <2>2
    <3> QED
      BY <1>1, <3>1
  <2> QED
    BY <2>1, <2>2 DEF Injection, IsInjective
<1> HIDE DEF f
<1> QED
  BY <1>3, FS_Injection DEF StockInv

LEMMA InitStock == Init => StockInv
<1> SUFFICES ASSUME Init, NEW s \in Skus
             PROVE  IsFiniteSet(Gone(s)) /\ Cardinality(Gone(s)) + stock[s] <= InitialStock[s]
  BY DEF StockInv
<1>1. Gone(s) = {}
  BY DEF Init, NoOrder, Gone
<1>2. InitialStock[s] \in Nat
  BY PipelineAssumption
<1> QED
  BY <1>1, <1>2, FS_EmptySet DEF Init

LEMMA StockSuffices == IInv /\ StockInv => NoOversell
<1> SUFFICES ASSUME IInv, StockInv, NEW s \in Skus
             PROVE  Cardinality(Promised(s)) <= InitialStock[s]
  BY DEF NoOversell
<1>1. /\ IsFiniteSet(Promised(s)) /\ IsFiniteSet(Gone(s))
      /\ Cardinality(Promised(s)) <= Cardinality(Gone(s))
      /\ Cardinality(Gone(s)) + stock[s] <= InitialStock[s]
  BY PromisedIsGone DEF StockInv
<1>2. Cardinality(Promised(s)) \in Nat /\ Cardinality(Gone(s)) \in Nat
  BY <1>1, FS_CardinalityType
<1>3. stock[s] \in Nat /\ InitialStock[s] \in Nat
  BY PipelineAssumption DEF IInv, TypeOK
<1> QED
  BY <1>1, <1>2, <1>3

\* Stock promised to confirmed orders was there, whatever the workers read
\* before, and in spite of crashes, redeliveries and lost connections
\* (repositories/InventoryRepository.js:21-37).
THEOREM NothingOversold == Spec => []NoOversell
BY Invariance, InitStock, NextStock, StockSuffices, PTL DEF Spec
==============================================================================
