------------------------- MODULE OrderPipelineProofs -------------------------
(***************************************************************************)
(* Proofs about OrderPipeline for every number of orders and workers, all   *)
(* carts, stocks and retry limits, and any number of faults.                *)
(***************************************************************************)
EXTENDS OrderPipeline, SequenceTheorems, TLAPS

(* What the steps have in common.                                           *)

\* A worker that is handling a message has one, about a stored order.
LEMMA Handling ==
  ASSUME IInv, NEW w \in Workers, worker[w].pc \notin {"down", "idle"}
  PROVE  /\ worker[w] \in WorkerState
         /\ worker[w].msg \in Msg
         /\ worker[w].msg # NoMsg
         /\ OrderOf(w) \in Orders
         /\ orders[OrderOf(w)] \in OrderRow
         /\ orders[OrderOf(w)].status # "NONE"
         /\ Storable(orders[OrderOf(w)].lines)
         /\ Len(taken[OrderOf(w)]) = Len(orders[OrderOf(w)].lines)
<1>1. worker[w] \in WorkerState /\ worker[w].msg # NoMsg
  BY DEF IInv, WorkerInv, TypeOK
<1>2. worker[w].msg \in Msg
  BY <1>1 DEF WorkerState
<1>3. OrderOf(w) \in Orders
  BY <1>2 DEF Msg, OrderOf
<1>4. orders[OrderOf(w)] \in OrderRow
  BY <1>3 DEF IInv, TypeOK
<1>5. orders[OrderOf(w)].status # "NONE"
  BY <1>1 DEF IInv, WorkerInv
<1> QED
  BY <1>1, <1>2, <1>3, <1>4, <1>5 DEF IInv, RowsInv

LEMMA DomainElement ==
  ASSUME NEW S, NEW s \in Seq(S), NEW i \in DOMAIN s
  PROVE  s[i] \in S /\ i \in 1..Len(s)
OBVIOUS

\* The line a handler is at is a line of its order, for a known product.
LEMMA AtLine ==
  ASSUME IInv, NEW w \in Workers, worker[w].pc \in {"check", "reserve"}
  PROVE  /\ worker[w].line \in 1..Len(orders[OrderOf(w)].lines)
         /\ LineOf(w).sku \in Skus
         /\ LineOf(w).qty \in Nat
         /\ stock[LineOf(w).sku] \in Nat
<1>1. orders[OrderOf(w)] \in OrderRow /\ Storable(orders[OrderOf(w)].lines)
  BY Handling
<1>2. orders[OrderOf(w)].lines \in Seq([sku : SkuNames, qty : Int])
  BY <1>1 DEF OrderRow
<1>3. worker[w].line \in DOMAIN orders[OrderOf(w)].lines
  BY DEF IInv, WorkerInv
<1>4. LineOf(w) \in [sku : SkuNames, qty : Int]
  BY <1>2, <1>3, DomainElement DEF LineOf
<1>5. worker[w].line \in 1..Len(orders[OrderOf(w)].lines)
  BY <1>2, <1>3, DomainElement
<1> QED
  BY <1>1, <1>3, <1>4, <1>5 DEF LineOf, Storable, IInv, TypeOK

\* A step that leaves the tables, the snapshots and the requests alone keeps
\* the invariant when the worker that takes it fits where it goes.
LEMMA QuietStep ==
  ASSUME IInv, UNCHANGED <<db, sync, api>>, EventsInv',
         ready' \in [Msg -> Nat], waiting' \in [Msg -> Nat],
         dead' \in [Msg -> Nat], faults' \in [Faults -> Nat],
         NEW w \in Workers, NEW r \in WorkerState, Become(w, r),
         worker'[w] = r => WorkerInv(w)'
  PROVE  IInv'
<1> USE DEF IInv, db
<1>1. /\ worker' \in [Workers -> WorkerState]
      /\ worker'[w] = r
      /\ \A v \in Workers \ {w} : worker'[v] = worker[v]
  BY DEF TypeOK, Become
<1>2. TypeOK'
  BY <1>1 DEF TypeOK
<1>3. RowsInv' /\ RequestsInv' /\ ReservedBeforeConfirmed'
      /\ RejectedOnlyIfShort' /\ SnapshotsTellTheTruth'
  BY DEF RowsInv, RequestsInv, InStep, UnderWay, IsBuffered, ReservedBeforeConfirmed,
         RejectedOnlyIfShort, Short, SnapshotsTellTheTruth
<1>4. ASSUME NEW v \in Workers PROVE WorkerInv(v)'
  <2>1. CASE v = w
    BY <2>1, <1>1
  <2>2. CASE v # w
    <3>1. worker'[v] = worker[v] /\ WorkerInv(v)
      BY <2>2, <1>1
    <3> QED
      BY <3>1 DEF WorkerInv, OrderOf, Outcome, Resolved, Short
  <2> QED
    BY <2>1, <2>2
<1> QED
  BY <1>2, <1>3, <1>4

\* Queues count what is in them.
LEMMA PutCounts ==
  ASSUME NEW S, NEW queue \in [S -> Nat], NEW m \in S
  PROVE  /\ Put(queue, m) \in [S -> Nat]
         /\ \A n \in S : Put(queue, m)[n] > 0 => n = m \/ queue[n] > 0
         /\ \A n \in S : queue[n] > 0 => Put(queue, m)[n] > 0
         /\ Put(queue, m)[m] > 0
BY DEF Put

LEMMA TakeCounts ==
  ASSUME NEW S, NEW queue \in [S -> Nat], NEW m \in S, queue[m] > 0
  PROVE  /\ Take(queue, m) \in [S -> Nat]
         /\ \A n \in S : Take(queue, m)[n] > 0 => queue[n] > 0
         /\ \A n \in S \ {m} : Take(queue, m)[n] = queue[n]
BY DEF Take

LEMMA InSomeQueue ==
  ASSUME NEW x \in Nat, NEW y \in Nat, NEW z \in Nat
  PROVE  x + y + z > 0 <=> x > 0 \/ y > 0 \/ z > 0
OBVIOUS

\* Spending a fault leaves a budget.
LEMMA SufferType ==
  ASSUME TypeOK, NEW kind \in Faults, Suffer(kind)
  PROVE  faults' \in [Faults -> Nat]
BY DEF TypeOK, Suffer

\* A worker loses its message to the processing queue, where it belongs.
LEMMA RequeueKeeps ==
  ASSUME IInv, NEW w \in Workers, Requeue(w), UNCHANGED orders,
         UNCHANGED <<waiting, dead>>
  PROVE  ready' \in [Msg -> Nat] /\ EventsInv'
<1>1. CASE Holds(w)
  <2>1. worker[w].pc \notin {"down", "idle"}
    BY <1>1 DEF Holds, IInv, WorkerInv
  <2>2. worker[w].msg \in Msg /\ orders[worker[w].msg.order].status # "NONE"
    BY <2>1, Handling DEF OrderOf
  <2> QED
    BY <1>1, <2>2 DEF Requeue, Put, IInv, TypeOK, EventsInv
<1>2. CASE ~Holds(w)
  BY <1>2 DEF Requeue, IInv, TypeOK, EventsInv
<1> QED
  BY <1>1, <1>2

\* The retry or dead-letter copy of a message is about the same stored order
\* and counts no more retries than the policy allows.
LEMMA ResendKeeps ==
  ASSUME IInv, NEW m \in Msg, Resend(m), orders[m.order].status # "NONE",
         UNCHANGED orders, ready' \in [Msg -> Nat],
         \A n \in Msg : ready'[n] > 0 => orders[n.order].status # "NONE"
  PROVE  waiting' \in [Msg -> Nat] /\ dead' \in [Msg -> Nat] /\ EventsInv'
<1> USE DEF IInv
<1>q. ready \in [Msg -> Nat] /\ waiting \in [Msg -> Nat] /\ dead \in [Msg -> Nat]
  BY DEF TypeOK
<1>e. \A n \in Msg : waiting[n] > 0 \/ dead[n] > 0 => orders[n.order].status # "NONE"
  BY <1>q DEF EventsInv
<1>1. CASE m.retry >= MaxAttempts
  <2>1. dead' = Put(dead, m) /\ UNCHANGED waiting
    BY <1>1 DEF Resend, DecideRetry
  <2>2. dead' \in [Msg -> Nat] /\ \A n \in Msg : dead'[n] > 0 => n = m \/ dead[n] > 0
    BY <2>1, <1>q, PutCounts
  <2> QED
    BY <2>1, <2>2, <1>q, <1>e, InSomeQueue DEF EventsInv
<1>2. CASE ~(m.retry >= MaxAttempts)
  <2> DEFINE copy == [order |-> m.order, retry |-> m.retry + 1]
  <2>1. waiting' = Put(waiting, copy) /\ UNCHANGED dead
    BY <1>2 DEF Resend, DecideRetry
  <2>2. copy \in Msg /\ copy.order = m.order
    BY <1>2, PipelineAssumption DEF Msg
  <2> HIDE DEF copy
  <2>3. waiting' \in [Msg -> Nat] /\ \A n \in Msg : waiting'[n] > 0 => n = copy \/ waiting[n] > 0
    BY <2>1, <2>2, <1>q, PutCounts
  <2> QED
    BY <2>1, <2>2, <2>3, <1>q, <1>e, InSomeQueue DEF EventsInv
<1> QED
  BY <1>1, <1>2

------------------------------------------------------------------------------
(* The initial states.                                                      *)

LEMMA InitIInv == Init => IInv
<1> SUFFICES ASSUME Init PROVE IInv
  OBVIOUS
<1> USE PipelineAssumption DEF Init, NoOrder, Idle, State, Msg, Snapshot, Faults
<1>1. TypeOK
  <2>1. api \in [Orders -> Requests]
    BY DEF Request, Requests, Handlers, Stages
  <2> QED
    BY <2>1 DEF TypeOK, OrderRow, WorkerState, WorkerPcs, DbPcs
<1>2. RowsInv
  BY DEF RowsInv
<1>3. RequestsInv
  BY DEF RequestsInv, InStep, UnderWay, IsBuffered, Request
<1>4. EventsInv
  BY DEF EventsInv
<1>5. \A w \in Workers : WorkerInv(w)
  BY DEF WorkerInv
<1>6. ReservedBeforeConfirmed
  BY DEF ReservedBeforeConfirmed
<1>7. RejectedOnlyIfShort
  BY DEF RejectedOnlyIfShort
<1>8. SnapshotsTellTheTruth
  BY DEF SnapshotsTellTheTruth
<1> QED
  BY <1>1, <1>2, <1>3, <1>4, <1>5, <1>6, <1>7, <1>8 DEF IInv

------------------------------------------------------------------------------
(* The steps of a worker that touch no table.                               *)

LEMMA DeliverIInv ==
  ASSUME IInv, NEW w \in Workers, NEW m \in Msg, Deliver(w, m)
  PROVE  IInv'
<1> USE DEF Deliver
<1>1. Begin(m) \in WorkerState
  BY DEF Begin, State, WorkerState, WorkerPcs, DbPcs
<1>2. ready' \in [Msg -> Nat] /\ EventsInv'
  BY DEF Take, IInv, TypeOK, EventsInv, db
<1>3. orders[m.order].status # "NONE"
  BY DEF IInv, TypeOK, EventsInv
<1>4. worker'[w] = Begin(m) => WorkerInv(w)'
  BY <1>3, PipelineAssumption DEF Begin, State, WorkerInv, OrderOf, db, Msg
<1> QED
  BY <1>1, <1>2, <1>4, QuietStep DEF IInv, TypeOK

\* ... and that leave the queues alone as well.
LEMMA LocalStep ==
  ASSUME IInv, UNCHANGED <<db, queues, sync, api>>,
         faults' \in [Faults -> Nat],
         NEW w \in Workers, NEW r \in WorkerState, Become(w, r),
         worker'[w] = r => WorkerInv(w)'
  PROVE  IInv'
<1>1. EventsInv'
  BY DEF IInv, EventsInv, queues, db
<1> QED
  BY <1>1, QuietStep DEF IInv, TypeOK, queues

\* A handler that has returned or thrown.
LEMMA LeaveIInv ==
  ASSUME IInv, UNCHANGED <<db, queues, sync, api>>,
         faults' \in [Faults -> Nat],
         NEW w \in Workers, worker[w].pc \notin {"down", "idle"},
         NEW pc \in {"ack", "fail"}, Leave(w, pc),
         pc = "ack" => Resolved(OrderOf(w))
  PROVE  IInv'
<1> DEFINE r == State(pc, worker[w].msg, 0, 1, FALSE, worker[w].live)
<1>1. worker[w].live \in BOOLEAN
  BY Handling DEF WorkerState
<1>2. r \in WorkerState
  BY <1>1, Handling DEF State, WorkerState, WorkerPcs
<1>3. worker'[w] = r => WorkerInv(w)'
  BY Handling DEF State, WorkerInv, OrderOf, db, Resolved
<1>4. Become(w, r)
  BY DEF Leave, Go
<1> HIDE DEF r
<1> QED
  BY <1>2, <1>3, <1>4, LocalStep

\* A worker that is done with its message, or gone.
LEMMA RestIInv ==
  ASSUME IInv, UNCHANGED <<db, sync, api>>, EventsInv',
         ready' \in [Msg -> Nat], waiting' \in [Msg -> Nat],
         dead' \in [Msg -> Nat], faults' \in [Faults -> Nat],
         NEW w \in Workers, NEW r \in {Idle, Deaf, Down}, Become(w, r)
  PROVE  IInv'
<1>1. Idle \in WorkerState /\ Deaf \in WorkerState /\ Down \in WorkerState
  BY DEF Idle, Deaf, Down, State, WorkerState, WorkerPcs
<1>2. worker'[w] = r => WorkerInv(w)'
  BY DEF Idle, Deaf, Down, State, WorkerInv
<1> QED
  BY <1>1, <1>2, QuietStep

LEMMA FindOrderIInv ==
  ASSUME IInv, NEW w \in Workers, FindOrder(w)
  PROVE  IInv'
<1> USE DEF FindOrder
<1>0. faults' \in [Faults -> Nat]
  BY DEF IInv, TypeOK
<1>1. CASE /\ orders[OrderOf(w)].status = "PENDING"
           /\ Readable(orders[OrderOf(w)].lines)
  <2> DEFINE r == State("check", worker[w].msg, 1, 1, FALSE, worker[w].live)
  <2>1. orders[OrderOf(w)].version = 1
    BY <1>1, Handling DEF IInv, RowsInv
  <2>2. Become(w, r)
    BY <1>1, <2>1 DEF Go
  <2>3. r \in WorkerState
    BY Handling DEF State, WorkerState, WorkerPcs, DbPcs
  <2>4. 1 \in DOMAIN orders[OrderOf(w)].lines
    BY Handling DEF OrderRow, Storable
  <2>5. worker'[w] = r => WorkerInv(w)'
    BY <2>4, Handling DEF State, WorkerInv, OrderOf, db
  <2> HIDE DEF r
  <2> QED
    BY <1>0, <2>2, <2>3, <2>5, LocalStep
<1>2. CASE /\ orders[OrderOf(w)].status # "PENDING"
           /\ Readable(orders[OrderOf(w)].lines)
  <2>1. Leave(w, "ack") /\ Resolved(OrderOf(w))
    BY <1>2, Handling DEF OrderRow, Resolved
  <2> QED
    BY <1>0, <2>1, LeaveIInv
<1>3. CASE ~Readable(orders[OrderOf(w)].lines)
  <2>1. Leave(w, "fail")
    BY <1>3
  <2> QED
    BY <1>0, <2>1, LeaveIInv
<1> QED
  BY <1>1, <1>2, <1>3

LEMMA CheckLineIInv ==
  ASSUME IInv, NEW w \in Workers, CheckLine(w)
  PROVE  IInv'
<1> DEFINE short == worker[w].short \/ stock[LineOf(w).sku] < LineOf(w).qty
           last  == State(IF short THEN "reject" ELSE "reserve", worker[w].msg,
                          worker[w].version, 1, short, worker[w].live)
           next  == State("check", worker[w].msg, worker[w].version,
                          worker[w].line + 1, short, worker[w].live)
<1>0. /\ worker[w].pc = "check" /\ UNCHANGED <<db, queues, sync, api, faults>>
      /\ IF IsLast(w) THEN Become(w, last) ELSE Become(w, next)
  BY DEF CheckLine, Go
<1>1. short \in BOOLEAN /\ faults' \in [Faults -> Nat]
  BY <1>0, Handling, AtLine DEF WorkerState, IInv, TypeOK
<1>2. worker[w].version = 1
  BY <1>0 DEF IInv, WorkerInv
<1>s. short => Short(OrderOf(w))
  <2>1. worker[w].short => Short(OrderOf(w))
    BY <1>0 DEF IInv, WorkerInv
  <2>2. worker[w].line \in DOMAIN orders[OrderOf(w)].lines
    BY <1>0 DEF IInv, WorkerInv
  <2> QED
    BY <2>1, <2>2 DEF Short, LineOf
<1> HIDE DEF short
<1>3. CASE IsLast(w)
  <2>1. last \in WorkerState
    BY <1>0, <1>1, <1>2, Handling DEF State, WorkerState, WorkerPcs, DbPcs
  <2>2. worker'[w] = last => WorkerInv(w)'
    BY <1>0, <1>1, <1>2, <1>s, Handling, AtLine
       DEF State, WorkerInv, OrderOf, db, OrderRow, Short
  <2> HIDE DEF last
  <2> QED
    BY <1>0, <1>1, <1>3, <2>1, <2>2, LocalStep
<1>4. CASE ~IsLast(w)
  <2>1. next \in WorkerState
    BY <1>0, <1>1, <1>2, Handling, AtLine DEF State, WorkerState, WorkerPcs, DbPcs
  <2>2. worker[w].line + 1 \in DOMAIN orders[OrderOf(w)].lines
    BY <1>0, <1>4, Handling, AtLine DEF IsLast, OrderRow
  <2>3. worker'[w] = next => WorkerInv(w)'
    <3>1. /\ next.pc = "check" /\ next.msg = worker[w].msg
          /\ next.version = 1 /\ next.line = worker[w].line + 1
          /\ next.short = short
      BY <1>2 DEF State
    <3> HIDE DEF next
    <3> QED
      BY <1>0, <1>s, <2>2, <3>1, Handling DEF WorkerInv, OrderOf, db, Short
  <2> HIDE DEF next
  <2> QED
    BY <1>0, <1>1, <1>4, <2>1, <2>3, LocalStep
<1> QED
  BY <1>3, <1>4

\* A handler that throws.
LEMMA ThrowIInv ==
  ASSUME IInv, NEW w \in Workers,
         ReserveRefused(w) \/ LockConflict(w) \/ SnapshotThrows(w)
  PROVE  IInv'
<1>1. /\ worker[w].pc \notin {"down", "idle"}
      /\ Leave(w, "fail")
      /\ UNCHANGED <<db, queues, sync, api, faults>>
  BY DEF ReserveRefused, LockConflict, SnapshotThrows
<1> QED
  BY <1>1, LeaveIInv DEF IInv, TypeOK

\* A worker becomes idle or ends without giving anything back.
LEMMA StopIInv ==
  ASSUME IInv, NEW w \in Workers, Ack(w) \/ DieOnDeadChannel(w) \/ Restart(w)
  PROVE  IInv'
<1>1. /\ Become(w, Idle) \/ Become(w, Down)
      /\ UNCHANGED <<db, queues, sync, api, faults>>
  BY DEF Ack, DieOnDeadChannel, Restart
<1>2. EventsInv'
  BY <1>1 DEF IInv, EventsInv, queues, db
<1> QED
  BY <1>1, <1>2, RestIInv DEF IInv, TypeOK, queues

LEMMA HandleFailureIInv ==
  ASSUME IInv, NEW w \in Workers, HandleFailure(w)
  PROVE  IInv'
<1> USE DEF HandleFailure
<1>1. \A n \in Msg : ready[n] > 0 => orders[n.order].status # "NONE"
  BY DEF IInv, TypeOK, EventsInv
<1>2. waiting' \in [Msg -> Nat] /\ dead' \in [Msg -> Nat] /\ EventsInv'
  BY <1>1, ResendKeeps, Handling DEF IInv, TypeOK, db, OrderOf
<1> QED
  BY <1>2, RestIInv DEF IInv, TypeOK

LEMMA CrashIInv ==
  ASSUME IInv, NEW w \in Workers, Crash(w)
  PROVE  IInv'
<1> USE DEF Crash
<1>1. ready' \in [Msg -> Nat] /\ EventsInv'
  BY RequeueKeeps DEF db
<1>2. faults' \in [Faults -> Nat]
  BY SufferType DEF IInv, Faults
<1> QED
  BY <1>1, <1>2, RestIInv DEF IInv, TypeOK

\* A message put back for redelivery, its copy already published or not.
LEMMA RequeueAndResend ==
  ASSUME IInv, NEW w \in Workers, worker[w].pc \in {"ack", "fail"}, Requeue(w),
         UNCHANGED <<waiting, dead>> \/ Resend(worker[w].msg),
         UNCHANGED <<db, sync, api>>, faults' \in [Faults -> Nat],
         NEW r \in {Deaf, Down}, Become(w, r)
  PROVE  IInv'
<1>1. worker[w].msg \in Msg /\ orders[worker[w].msg.order].status # "NONE"
  BY Handling DEF OrderOf
<1>2. /\ ready' \in [Msg -> Nat]
      /\ \A n \in Msg : ready'[n] > 0 => orders[n.order].status # "NONE"
  <2>1. /\ ready \in [Msg -> Nat]
        /\ \A n \in Msg : ready[n] > 0 => orders[n.order].status # "NONE"
    BY DEF IInv, TypeOK, EventsInv
  <2>2. ready' = Put(ready, worker[w].msg) \/ ready' = ready
    BY DEF Requeue
  <2> QED
    BY <1>1, <2>1, <2>2, PutCounts
<1>3. waiting' \in [Msg -> Nat] /\ dead' \in [Msg -> Nat] /\ EventsInv'
  <2>1. CASE UNCHANGED <<waiting, dead>>
    BY <2>1, RequeueKeeps DEF IInv, TypeOK, db
  <2>2. CASE Resend(worker[w].msg)
    BY <1>1, <1>2, <2>2, ResendKeeps DEF db
  <2> QED
    BY <2>1, <2>2
<1> QED
  BY <1>2, <1>3, RestIInv

LEMMA CrashBetweenPublishAndAckIInv ==
  ASSUME IInv, NEW w \in Workers, CrashBetweenPublishAndAck(w)
  PROVE  IInv'
<1>1. faults' \in [Faults -> Nat]
  BY SufferType DEF CrashBetweenPublishAndAck, IInv, Faults
<1> QED
  BY <1>1, RequeueAndResend DEF CrashBetweenPublishAndAck

LEMMA LoseAckIInv ==
  ASSUME IInv, NEW w \in Workers, LoseAck(w)
  PROVE  IInv'
<1>1. faults' \in [Faults -> Nat]
  BY SufferType DEF LoseAck, IInv, Faults
<1> QED
  BY <1>1, RequeueAndResend DEF LoseAck

LEMMA LoseConnectionIInv ==
  ASSUME IInv, NEW w \in Workers, LoseConnection(w)
  PROVE  IInv'
<1> DEFINE r == [worker[w] EXCEPT !.live = FALSE]
<1> USE DEF LoseConnection
<1>1. ready' \in [Msg -> Nat] /\ EventsInv'
  BY RequeueKeeps DEF db
<1>2. faults' \in [Faults -> Nat]
  BY SufferType DEF IInv, Faults
<1>3. worker[w] \in WorkerState
  BY DEF IInv, TypeOK
<1>4. r \in WorkerState
  BY <1>3 DEF WorkerState
<1>5. worker'[w] = r => WorkerInv(w)'
  BY <1>3 DEF IInv, WorkerInv, OrderOf, Outcome, Resolved, Short, db, WorkerState
<1> HIDE DEF r
<1>6. Become(w, r)
  BY DEF r
<1> QED
  BY <1>1, <1>2, <1>4, <1>5, <1>6, QuietStep DEF IInv, TypeOK

LEMMA LoseSnapshotIInv ==
  ASSUME IInv, NEW w \in Workers, LoseSnapshot(w)
  PROVE  IInv'
<1> DEFINE r == State("ack", worker[w].msg, 0, 1, FALSE, FALSE)
<1> USE DEF LoseSnapshot
<1>1. ready' \in [Msg -> Nat] /\ EventsInv'
  BY RequeueKeeps DEF db
<1>2. faults' \in [Faults -> Nat]
  BY SufferType DEF IInv, Faults
<1>3. r \in WorkerState
  BY Handling DEF WorkerState, State, WorkerPcs
<1>4. Resolved(OrderOf(w))
  BY DEF IInv, WorkerInv, Resolved, Outcome
<1>5. worker'[w] = r => WorkerInv(w)'
  BY <1>4, Handling DEF State, WorkerInv, OrderOf, Resolved, db
<1> HIDE DEF r
<1>6. CASE Become(w, r)
  BY <1>1, <1>2, <1>3, <1>5, <1>6, QuietStep DEF IInv, TypeOK
<1>7. CASE Become(w, Deaf)
  BY <1>1, <1>2, <1>7, RestIInv DEF IInv, TypeOK
<1> QED
  BY <1>6, <1>7 DEF r

------------------------------------------------------------------------------
(* The steps that change a table or publish.                                *)

\* Short after the step, of the order that is o before it.
StillShort(o) ==
  \E i \in DOMAIN orders'[o].lines :
    stock'[orders'[o].lines[i].sku] < orders'[o].lines[i].qty

\* What every step does to an order that is stored: nothing undoes a decision,
\* a line, a reservation or a shortage.
Keeps(o) ==
  orders[o].status # "NONE" =>
    /\ orders'[o].status # "NONE"
    /\ orders'[o].lines = orders[o].lines
    /\ Resolved(o) => orders'[o].status = orders[o].status
    /\ \A i \in DOMAIN orders[o].lines : taken[o][i] >= 1 => taken'[o][i] >= 1
    /\ Short(o) => StillShort(o)

\* A handler is not disturbed by what the others do.
LEMMA OthersIInv ==
  ASSUME IInv, \A o \in Orders : Keeps(o),
         NEW v \in Workers, worker'[v] = worker[v]
  PROVE  WorkerInv(v)'
<1>1. CASE worker[v].pc \in {"down", "idle"}
  BY <1>1 DEF IInv, WorkerInv
<1>2. CASE worker[v].pc \notin {"down", "idle"}
  <2>1. /\ OrderOf(v) \in Orders
        /\ orders[OrderOf(v)].status # "NONE"
        /\ OrderOf(v)' = OrderOf(v)
        /\ worker[v] \in WorkerState
        /\ Len(taken[OrderOf(v)]) = Len(orders[OrderOf(v)].lines)
        /\ orders[OrderOf(v)] \in OrderRow
    BY <1>2, Handling DEF OrderOf
  <2>2. Keeps(OrderOf(v))
    BY <2>1
  <2>3. WorkerInv(v)
    BY DEF IInv
  <2>4. worker[v].pc = "reserve" =>
          \A i \in 1..(worker[v].line - 1) : i \in DOMAIN orders[OrderOf(v)].lines
    BY <2>1, <2>3 DEF WorkerInv, WorkerState, OrderRow
  <2>5. worker[v].pc = "snapshot" => Resolved(OrderOf(v))
    BY <2>3 DEF WorkerInv, Resolved, Outcome
  <2> QED
    BY <1>2, <2>1, <2>2, <2>3, <2>4, <2>5
       DEF WorkerInv, Keeps, Short, StillShort, Outcome, Resolved
<1> QED
  BY <1>1, <1>2

\* The stored quantity of a positive one is a natural number.
LEMMA RoundedIsNat ==
  ASSUME NEW qty \in Int, qty > 0
  PROVE  Rounded(qty) \in Nat
<1> DEFINE p == 2 * Parts
           n == 2 * qty + Parts
<1>1. p \in Nat /\ p > 0 /\ n \in Nat
  BY PipelineAssumption
<1> HIDE DEF p, n
<1>2. n \div p \in Nat
  BY <1>1
<1> QED
  BY <1>2 DEF Rounded, p, n

\* What is stored of an acceptable cart fits the columns, line by line.
LEMMA StoredCart ==
  ASSUME NEW cart \in Carts, Acceptable(cart)
  PROVE  /\ Stored(cart) \in OrderRow
         /\ Storable(Stored(cart).lines)
         /\ Len(Stored(cart).lines) = Len(cart)
<1> DEFINE lines == [i \in DOMAIN cart |->
                       [sku |-> cart[i].sku, qty |-> Rounded(cart[i].qty)]]
<1>1. cart \in Seq([sku : SkuNames, qty : Int])
  BY PipelineAssumption
<1>2. ASSUME NEW i \in DOMAIN cart
      PROVE  cart[i].sku \in Skus /\ Rounded(cart[i].qty) \in Nat
  <2>1. cart[i] \in [sku : SkuNames, qty : Int]
    BY <1>1, <1>2, DomainElement
  <2>2. cart[i].qty \in Int /\ cart[i].qty > 0 /\ cart[i].sku \in Skus
    BY <1>2, <2>1 DEF Acceptable
  <2> QED
    BY <2>2, RoundedIsNat
<1>3. /\ lines \in Seq([sku : SkuNames, qty : Int])
      /\ Len(lines) = Len(cart)
      /\ DOMAIN lines = DOMAIN cart
  <2>1. Skus \subseteq SkuNames
    BY PipelineAssumption
  <2>2. ASSUME NEW i \in DOMAIN cart
        PROVE  lines[i] \in [sku : SkuNames, qty : Int]
    BY <1>2, <2>1, <2>2
  <2>3. DOMAIN cart = 1..Len(cart) /\ Len(cart) \in Nat
    BY <1>1
  <2>4. DOMAIN lines = DOMAIN cart
    OBVIOUS
  <2> HIDE DEF lines
  <2>5. lines = [i \in 1..Len(cart) |-> lines[i]]
    <3>1. lines = [i \in DOMAIN lines |-> lines[i]]
      BY DEF lines
    <3> QED
      BY <3>1, <2>3, <2>4
  <2>6. \A i \in 1..Len(cart) : lines[i] \in [sku : SkuNames, qty : Int]
    BY <2>2, <2>3
  <2>7. lines \in [1..Len(cart) -> [sku : SkuNames, qty : Int]]
    BY <2>5, <2>6
  <2>8. lines \in Seq([sku : SkuNames, qty : Int])
    BY <2>3, <2>7, SeqDef
  <2> QED
    BY <2>3, <2>4, <2>8
<1>4. Storable(lines)
  <2>1. Len(lines) # 0
    BY <1>1, <1>3 DEF Acceptable
  <2>2. \A i \in DOMAIN lines : lines[i].sku \in Skus /\ lines[i].qty \in Nat
    BY <1>2
  <2> QED
    BY <1>3, <2>1, <2>2 DEF Storable
<1>5. Stored(cart) = [status |-> "PENDING", version |-> 1, lines |-> lines]
  BY DEF Stored
<1> HIDE DEF lines
<1> QED
  BY <1>3, <1>4, <1>5 DEF OrderRow

\* The fields of a request, and what a lost buffer leaves of the requests.
LEMMA RequestIs ==
  ASSUME NEW state \in Handlers, NEW event \in Stages, NEW snapshot \in Stages
  PROVE  /\ Request(state, event, snapshot) \in Requests
         /\ Request(state, event, snapshot).state = state
         /\ Request(state, event, snapshot).event = event
         /\ Request(state, event, snapshot).snapshot = snapshot
BY DEF Request, Requests

LEMMA UnsentStage ==
  ASSUME NEW stage \in Stages
  PROVE  /\ Unsent(stage) \in Stages
         /\ Unsent(stage) # "buffered"
         /\ stage # "buffered" => Unsent(stage) = stage
         /\ stage = "buffered" => Unsent(stage) = "lost"
BY DEF Unsent, Stages

LEMMA BufferLostIs ==
  ASSUME IInv
  PROVE  /\ BufferLost \in [Orders -> Requests]
         /\ \A o \in Orders :
              /\ BufferLost[o].state = api[o].state
              /\ BufferLost[o].event = Unsent(api[o].event)
              /\ BufferLost[o].snapshot = Unsent(api[o].snapshot)
              /\ BufferLost[o].event # "buffered" /\ BufferLost[o].snapshot # "buffered"
<1> SUFFICES ASSUME NEW o \in Orders
             PROVE  /\ BufferLost[o] \in Requests
                    /\ BufferLost[o].state = api[o].state
                    /\ BufferLost[o].event = Unsent(api[o].event)
                    /\ BufferLost[o].snapshot = Unsent(api[o].snapshot)
                    /\ BufferLost[o].event # "buffered" /\ BufferLost[o].snapshot # "buffered"
  BY DEF BufferLost
<1>1. api[o].state \in Handlers /\ api[o].event \in Stages /\ api[o].snapshot \in Stages
  BY DEF IInv, TypeOK, Requests
<1>2. BufferLost[o] =
        Request(api[o].state, Unsent(api[o].event), Unsent(api[o].snapshot))
  BY DEF BufferLost
<1> QED
  BY <1>1, <1>2, UnsentStage, RequestIs

\* A request stores its order.
LEMMA StoreIInv ==
  ASSUME IInv, NEW o \in Orders, orders[o].status = "NONE",
         NEW cart \in Carts, Acceptable(cart), Store(o, cart),
         UNCHANGED <<queues, sync, worker>>,
         faults' \in [Faults -> Nat],
         api[o].state = "new", NEW answer \in {"saved", "failed"}, Answer(o, answer)
  PROVE  IInv'
<1> USE DEF Store, queues
<1>0. cart \in Seq([sku : SkuNames, qty : Int])
  BY PipelineAssumption
<1>a. /\ orders'[o] = Stored(cart)
      /\ \A p \in Orders \ {o} : orders'[p] = orders[p] /\ taken'[p] = taken[p]
      /\ taken'[o] = [i \in DOMAIN cart |-> 0]
  BY DEF IInv, TypeOK
<1>b. /\ Stored(cart) \in OrderRow
      /\ Storable(Stored(cart).lines)
      /\ Len(Stored(cart).lines) = Len(cart)
  BY StoredCart
<1>d. Stored(cart).status = "PENDING" /\ Stored(cart).version = 1
  BY DEF Stored
<1>c. [i \in DOMAIN cart |-> 0] \in Seq(Nat) /\ Len([i \in DOMAIN cart |-> 0]) = Len(cart)
  BY <1>0
<1>e. /\ api' \in [Orders -> Requests]
      /\ api'[o].state = answer /\ api'[o].event = api[o].event
      /\ \A p \in Orders \ {o} : api'[p] = api[p]
  <2>1. answer \in Handlers /\ api \in [Orders -> Requests]
    BY DEF Handlers, IInv, TypeOK
  <2> QED
    BY <2>1, RequestIs DEF Answer, Requests
<1>1. TypeOK'
  BY <1>b, <1>c, <1>e DEF IInv, TypeOK
<1>2. RowsInv'
  BY <1>a, <1>b, <1>c, <1>d DEF IInv, RowsInv
<1>3. RequestsInv'
  BY <1>a, <1>d, <1>e DEF IInv, RequestsInv, InStep, UnderWay, IsBuffered
<1>4. EventsInv'
  BY <1>a, <1>d DEF IInv, EventsInv, Msg
<1>5. \A p \in Orders : Keeps(p)
  BY <1>a DEF Keeps, Short, StillShort
<1>6. \A v \in Workers : WorkerInv(v)'
  BY <1>5, OthersIInv
<1>7. ReservedBeforeConfirmed'
  BY <1>a, <1>d DEF IInv, ReservedBeforeConfirmed
<1>7a. RejectedOnlyIfShort'
  BY <1>a, <1>d DEF IInv, RejectedOnlyIfShort, Short
<1>8. SnapshotsTellTheTruth'
  BY <1>a, <1>d DEF IInv, SnapshotsTellTheTruth, Snapshot
<1> QED
  BY <1>1, <1>2, <1>3, <1>4, <1>6, <1>7, <1>7a, <1>8 DEF IInv

\* A request handler that changes nothing but its own state.
LEMMA AnswerIInv ==
  ASSUME IInv, UNCHANGED <<db, queues, sync, worker>>,
         faults' \in [Faults -> Nat],
         api' \in [Orders -> Requests],
         \A o \in Orders :
           /\ InStep(api'[o])
           /\ api'[o].state = "new" => api[o].state = "new"
           /\ UnderWay(o)' \/ IsBuffered(o)' => UnderWay(o) \/ IsBuffered(o)
  PROVE  IInv'
<1> USE DEF IInv, db, queues
<1>1. TypeOK'
  BY DEF TypeOK
<1>2. RequestsInv'
  BY DEF RequestsInv
<1>3. \A v \in Workers : WorkerInv(v)'
  BY DEF WorkerInv, OrderOf, Outcome, Resolved, Short
<1>4. RowsInv' /\ EventsInv' /\ ReservedBeforeConfirmed'
      /\ RejectedOnlyIfShort' /\ SnapshotsTellTheTruth'
  BY DEF RowsInv, EventsInv, ReservedBeforeConfirmed, RejectedOnlyIfShort,
         Short, SnapshotsTellTheTruth
<1> QED
  BY <1>1, <1>2, <1>3, <1>4

\* A snapshot is published by a handler whose order looks like that, or did
\* when it was pending.
LEMMA PublishedSnapshot ==
  ASSUME IInv, NEW s \in Snapshot, sync' = Put(sync, s), UNCHANGED orders,
         orders[s.order].status # "NONE",
         s.status \in {"PENDING", orders[s.order].status}
  PROVE  sync' \in [Snapshot -> Nat] /\ SnapshotsTellTheTruth'
<1>1. sync \in [Snapshot -> Nat]
  BY DEF IInv, TypeOK
<1> QED
  BY <1>1, PutCounts DEF IInv, SnapshotsTellTheTruth

\* The queues change, the tables and the workers do not.
LEMMA BrokerIInv ==
  ASSUME IInv, UNCHANGED <<db, worker, faults>>, EventsInv',
         ready' \in [Msg -> Nat], waiting' \in [Msg -> Nat],
         dead' \in [Msg -> Nat], sync' \in [Snapshot -> Nat],
         SnapshotsTellTheTruth', RequestsInv', api' \in [Orders -> Requests]
  PROVE  IInv'
<1> USE DEF IInv, db
<1>1. TypeOK'
  BY DEF TypeOK
<1>2. \A v \in Workers : WorkerInv(v)'
  BY DEF WorkerInv, OrderOf, Outcome, Resolved, Short
<1>3. RowsInv' /\ ReservedBeforeConfirmed' /\ RejectedOnlyIfShort'
  BY DEF RowsInv, ReservedBeforeConfirmed, RejectedOnlyIfShort, Short
<1> QED
  BY <1>1, <1>2, <1>3

LEMMA FlushEventIInv ==
  ASSUME IInv, NEW o \in Orders, FlushEvent(o)
  PROVE  IInv'
<1> DEFINE m == [order |-> o, retry |-> 0]
<1> USE DEF FlushEvent
<1>1. m \in Msg /\ m.order = o
  BY PipelineAssumption DEF Msg
<1>2. orders[o].status # "NONE"
  BY DEF IInv, RequestsInv, IsBuffered
<1>3. ready \in [Msg -> Nat] /\ waiting \in [Msg -> Nat] /\ dead \in [Msg -> Nat]
  BY DEF IInv, TypeOK
<1> HIDE DEF m
<1>4. /\ ready' \in [Msg -> Nat]
      /\ \A n \in Msg : ready'[n] > 0 => n = m \/ ready[n] > 0
  BY <1>1, <1>3, PutCounts DEF m
<1>5. EventsInv'
  BY <1>1, <1>2, <1>3, <1>4, InSomeQueue DEF IInv, EventsInv, db
<1>6. api' \in [Orders -> Requests] /\ RequestsInv'
  <2>1. /\ api' \in [Orders -> Requests]
        /\ api'[o].state = api[o].state
        /\ api'[o].event = api[o].event \/ api'[o].event = "sent"
        /\ api'[o].snapshot = api[o].snapshot \/ api'[o].snapshot = "sent"
        /\ \A p \in Orders \ {o} : api'[p] = api[p]
    <3>1. /\ api[o].state \in Handlers /\ api[o].event \in Stages
          /\ api[o].snapshot \in Stages /\ "sent" \in Stages
          /\ api \in [Orders -> Requests]
      BY DEF IInv, TypeOK, Requests, Stages
    <3>2. api' = [api EXCEPT ![o] = Request(api[o].state, "sent", api[o].snapshot)]
      OBVIOUS
    <3> QED
      BY <3>1, <3>2, RequestIs
  <2> QED
    BY <1>2, <2>1 DEF IInv, RequestsInv, InStep, UnderWay, IsBuffered, db
<1>7. SnapshotsTellTheTruth'
  BY DEF IInv, SnapshotsTellTheTruth, db
<1> QED
  BY <1>4, <1>5, <1>6, <1>7, BrokerIInv DEF IInv, TypeOK

LEMMA FlushSnapshotIInv ==
  ASSUME IInv, NEW o \in Orders, FlushSnapshot(o)
  PROVE  IInv'
<1> DEFINE s == [order |-> o, status |-> "PENDING"]
<1> USE DEF FlushSnapshot
<1>1. s \in Snapshot /\ s.order = o /\ s.status = "PENDING"
  BY DEF Snapshot
<1>2. orders[o].status # "NONE"
  BY DEF IInv, RequestsInv, IsBuffered
<1> HIDE DEF s
<1>3. sync' \in [Snapshot -> Nat] /\ SnapshotsTellTheTruth'
  BY <1>1, <1>2, PublishedSnapshot DEF s, db
<1>4. EventsInv'
  BY DEF IInv, EventsInv, db, queues
<1>5. api' \in [Orders -> Requests] /\ RequestsInv'
  <2>1. /\ api' \in [Orders -> Requests]
        /\ api'[o].state = api[o].state
        /\ api'[o].event = api[o].event
        /\ api'[o].snapshot = api[o].snapshot \/ api'[o].snapshot = "sent"
        /\ \A p \in Orders \ {o} : api'[p] = api[p]
    <3>1. /\ api[o].state \in Handlers /\ api[o].event \in Stages
          /\ api[o].snapshot \in Stages /\ "sent" \in Stages
          /\ api \in [Orders -> Requests]
      BY DEF IInv, TypeOK, Requests, Stages
    <3>2. api' = [api EXCEPT ![o] = Request(api[o].state, api[o].event, "sent")]
      OBVIOUS
    <3> QED
      BY <3>1, <3>2, RequestIs
  <2> QED
    BY <1>2, <2>1 DEF IInv, RequestsInv, InStep, UnderWay, IsBuffered, db
<1> QED
  BY <1>3, <1>4, <1>5, BrokerIInv DEF IInv, TypeOK, queues

LEMMA ExpireRetryIInv ==
  ASSUME IInv, NEW m \in Msg, ExpireRetry(m)
  PROVE  IInv'
<1> USE DEF ExpireRetry
<1>1. ready \in [Msg -> Nat] /\ waiting \in [Msg -> Nat] /\ dead \in [Msg -> Nat]
  BY DEF IInv, TypeOK
<1>2. /\ waiting' \in [Msg -> Nat]
      /\ \A n \in Msg : waiting'[n] > 0 => waiting[n] > 0
  BY <1>1, TakeCounts
<1>3. /\ ready' \in [Msg -> Nat]
      /\ \A n \in Msg : ready'[n] > 0 => n = m \/ ready[n] > 0
  BY <1>1, PutCounts
<1>4. EventsInv'
  BY <1>1, <1>2, <1>3, InSomeQueue DEF IInv, EventsInv, db
<1>5. RequestsInv' /\ SnapshotsTellTheTruth'
  BY DEF IInv, RequestsInv, InStep, UnderWay, IsBuffered, SnapshotsTellTheTruth, db
<1> QED
  BY <1>1, <1>2, <1>3, <1>4, <1>5, BrokerIInv DEF IInv, TypeOK

LEMMA PublishSnapshotIInv ==
  ASSUME IInv, NEW w \in Workers, PublishSnapshot(w)
  PROVE  IInv'
<1> DEFINE s == [order |-> OrderOf(w), status |-> Outcome(w)]
           r == State("ack", worker[w].msg, 0, 1, FALSE, worker[w].live)
<1> USE DEF PublishSnapshot
<1>1. orders[OrderOf(w)].status = Outcome(w) /\ Resolved(OrderOf(w))
  BY DEF IInv, WorkerInv, Resolved, Outcome
<1>2. s \in Snapshot /\ s.order = OrderOf(w) /\ s.status = Outcome(w)
  BY Handling DEF Snapshot, Outcome
<1> HIDE DEF s
<1>3. sync' \in [Snapshot -> Nat] /\ SnapshotsTellTheTruth'
  BY <1>1, <1>2, Handling, PublishedSnapshot DEF s, db
<1>4. r \in WorkerState
  BY Handling DEF State, WorkerState, WorkerPcs
<1>5. worker' = [worker EXCEPT ![w] = r]
  BY DEF Leave, Go, Become
<1>6. worker'[w] = r /\ \A v \in Workers \ {w} : worker'[v] = worker[v]
  BY <1>5 DEF IInv, TypeOK
<1>7. TypeOK'
  BY <1>3, <1>4, <1>5 DEF IInv, TypeOK, db, queues
<1>8. RowsInv' /\ RequestsInv' /\ EventsInv' /\ ReservedBeforeConfirmed'
      /\ RejectedOnlyIfShort'
  BY DEF IInv, RowsInv, RequestsInv, InStep, UnderWay, IsBuffered, EventsInv,
         ReservedBeforeConfirmed, RejectedOnlyIfShort, Short, db, queues
<1>9. WorkerInv(w)'
  BY <1>1, <1>6, Handling DEF State, WorkerInv, OrderOf, Resolved, db
<1>10. \A o \in Orders : Keeps(o)
  BY DEF Keeps, Short, StillShort, db
<1>11. \A v \in Workers \ {w} : WorkerInv(v)'
  BY <1>6, <1>10, OthersIInv
<1> QED
  BY <1>3, <1>7, <1>8, <1>9, <1>11 DEF IInv

\* A line of an order is reserved; only the counters of its stock change.
LEMMA DecrementKeeps ==
  ASSUME IInv, NEW w \in Workers, worker[w].pc = "reserve", Decrement(w)
  PROVE  /\ stock' \in [Skus -> Nat]
         /\ taken' \in [Orders -> Seq(Nat)]
         /\ \A o \in Orders : Keeps(o) /\ Len(taken'[o]) = Len(taken[o])
         /\ taken'[OrderOf(w)][worker[w].line] >= 1
<1> DEFINE o == OrderOf(w)
           l == worker[w].line
<1> USE DEF Decrement
<1>1. o \in Orders /\ l \in 1..Len(taken[o]) /\ taken[o] \in Seq(Nat)
  BY Handling, AtLine DEF IInv, TypeOK
<1>2. stock' \in [Skus -> Nat]
  BY AtLine DEF IInv, TypeOK
<1>3. taken[o][l] \in Nat
  BY <1>1
<1> DEFINE t == [taken[o] EXCEPT ![l] = taken[o][l] + 1]
<1>4. /\ t \in Seq(Nat) /\ Len(t) = Len(taken[o])
      /\ \A i \in 1..Len(taken[o]) :
           t[i] = IF i = l THEN taken[o][l] + 1 ELSE taken[o][i]
  <2> HIDE DEF o, l
  <2>1. taken[o][l] + 1 \in Nat
    BY <1>3
  <2> QED
    BY <1>1, <2>1, ExceptSeq
<1>5. taken' = [taken EXCEPT ![o] = t]
  OBVIOUS
<1> HIDE DEF t
<1>6. taken'[o] = t /\ \A p \in Orders \ {o} : taken'[p] = taken[p]
  BY <1>1, <1>5 DEF IInv, TypeOK
<1>7. taken' \in [Orders -> Seq(Nat)]
  BY <1>4, <1>5 DEF IInv, TypeOK
<1>8. /\ Len(taken[o]) = Len(orders[o].lines)
      /\ orders[o].lines \in Seq([sku : SkuNames, qty : Int])
  BY Handling DEF OrderRow
<1> HIDE DEF o, l
<1>s. \A p \in Orders : orders[p].status # "NONE" /\ Short(p) => StillShort(p)
  <2>1. ASSUME NEW p \in Orders, NEW i \in DOMAIN orders[p].lines,
               orders[p].status # "NONE",
               stock[orders[p].lines[i].sku] < orders[p].lines[i].qty
        PROVE  stock'[orders[p].lines[i].sku] < orders[p].lines[i].qty
    <3>1. orders[p].lines \in Seq([sku : SkuNames, qty : Int])
      BY DEF IInv, TypeOK, OrderRow
    <3>2. orders[p].lines[i] \in [sku : SkuNames, qty : Int]
      BY <3>1, DomainElement
    <3>3. orders[p].lines[i].qty \in Int /\ orders[p].lines[i].sku \in Skus
      BY <2>1, <3>2 DEF IInv, RowsInv, Storable
    <3> QED
      BY <2>1, <3>3, AtLine DEF IInv, TypeOK
  <2> QED
    BY <2>1 DEF Short, StillShort
<1>9. Keeps(o)
  <2>1. \A i \in 1..Len(taken[o]) : taken[o][i] >= 1 => t[i] >= 1
    BY <1>3, <1>4
  <2>2. DOMAIN orders[o].lines = 1..Len(taken[o])
    BY <1>8
  <2> QED
    BY <1>1, <1>6, <1>s, <2>1, <2>2 DEF Keeps, Resolved
<1>10. \A p \in Orders \ {o} : Keeps(p)
  BY <1>6, <1>s DEF Keeps, Resolved
<1> QED
  BY <1>1, <1>2, <1>3, <1>4, <1>6, <1>7, <1>9, <1>10 DEF o, l

\* A step of one worker under which every order keeps what it has.
LEMMA TableStep ==
  ASSUME IInv, UNCHANGED <<queues, sync, api>>,
         faults' \in [Faults -> Nat],
         NEW w \in Workers, NEW r \in WorkerState, Become(w, r),
         orders' \in [Orders -> OrderRow], stock' \in [Skus -> Nat],
         taken' \in [Orders -> Seq(Nat)], RowsInv',
         \A o \in Orders : Keeps(o),
         \A o \in Orders : orders[o].status = "NONE" => orders'[o] = orders[o],
         ReservedBeforeConfirmed', RejectedOnlyIfShort',
         worker'[w] = r => WorkerInv(w)'
  PROVE  IInv'
<1>1. /\ worker' \in [Workers -> WorkerState]
      /\ worker'[w] = r
      /\ \A v \in Workers \ {w} : worker'[v] = worker[v]
  BY DEF IInv, TypeOK, Become
<1>2. TypeOK'
  BY <1>1 DEF IInv, TypeOK, queues
<1>3. \A v \in Workers : WorkerInv(v)'
  BY <1>1, OthersIInv
<1>4. RequestsInv'
  BY DEF IInv, RequestsInv, InStep, UnderWay, IsBuffered, Keeps
<1>5. EventsInv'
  BY DEF IInv, EventsInv, Keeps, queues, Msg
<1>6. SnapshotsTellTheTruth'
  <2>1. ASSUME NEW s \in Snapshot, sync[s] > 0
        PROVE  /\ orders'[s.order].status # "NONE"
               /\ s.status \in {"PENDING", orders'[s.order].status}
    <3>1. /\ s.order \in Orders
          /\ s.status \in {"PENDING", "CONFIRMED", "REJECTED"}
      BY DEF Snapshot
    <3> QED
      BY <2>1, <3>1 DEF IInv, SnapshotsTellTheTruth, Keeps, Resolved
  <2> QED
    BY <2>1 DEF SnapshotsTellTheTruth
<1> QED
  BY <1>2, <1>3, <1>4, <1>5, <1>6 DEF IInv

\* A decrement, whatever its handler learns of it.
LEMMA DecrementTables ==
  ASSUME IInv, NEW w \in Workers, worker[w].pc = "reserve", Decrement(w)
  PROVE  /\ orders' \in [Orders -> OrderRow]
         /\ RowsInv'
         /\ ReservedBeforeConfirmed'
         /\ RejectedOnlyIfShort'
<1>1. orders' = orders
  BY DEF Decrement
<1>2. RowsInv'
  BY <1>1, DecrementKeeps DEF IInv, RowsInv
<1>3. ReservedBeforeConfirmed'
  <2>1. ASSUME NEW o \in Orders, orders'[o].status = "CONFIRMED",
               NEW i \in DOMAIN orders'[o].lines
        PROVE  taken'[o][i] >= 1
    BY <1>1, <2>1, DecrementKeeps DEF IInv, ReservedBeforeConfirmed, Keeps
  <2> QED
    BY <2>1 DEF ReservedBeforeConfirmed
<1>4. RejectedOnlyIfShort'
  BY <1>1, DecrementKeeps DEF IInv, RejectedOnlyIfShort, Keeps, Short, StillShort
<1> QED
  BY <1>1, <1>2, <1>3, <1>4 DEF IInv, TypeOK

LEMMA ReserveLineIInv ==
  ASSUME IInv, NEW w \in Workers, ReserveLine(w)
  PROVE  IInv'
<1> DEFINE last == State("confirm", worker[w].msg, worker[w].version, 1, FALSE,
                         worker[w].live)
           next == State("reserve", worker[w].msg, worker[w].version,
                         worker[w].line + 1, FALSE, worker[w].live)
<1>0. /\ worker[w].pc = "reserve" /\ UNCHANGED <<queues, sync, api, faults>>
      /\ Decrement(w)
      /\ IF IsLast(w) THEN Become(w, last) ELSE Become(w, next)
  BY DEF ReserveLine, Go
<1>1. /\ worker[w].version = 1
      /\ \A i \in 1..(worker[w].line - 1) : taken[OrderOf(w)][i] >= 1
  BY <1>0 DEF IInv, WorkerInv
<1>2. faults' \in [Faults -> Nat] /\ UNCHANGED orders
  BY <1>0 DEF IInv, TypeOK, Decrement
<1>3. /\ worker[w].line \in 1..Len(orders[OrderOf(w)].lines)
      /\ DOMAIN orders[OrderOf(w)].lines = 1..Len(orders[OrderOf(w)].lines)
      /\ Len(orders[OrderOf(w)].lines) \in Nat
  BY <1>0, Handling, AtLine DEF OrderRow
<1>4. \A i \in 1..worker[w].line : taken'[OrderOf(w)][i] >= 1
  <2>1. Keeps(OrderOf(w)) /\ taken'[OrderOf(w)][worker[w].line] >= 1
    BY <1>0, Handling, DecrementKeeps
  <2> QED
    BY <1>0, <1>1, <1>3, <2>1, Handling DEF Keeps
<1>5. CASE IsLast(w)
  <2>1. last \in WorkerState
    BY <1>0, <1>1, Handling DEF State, WorkerState, WorkerPcs, DbPcs
  <2>a. /\ 1 \in DOMAIN orders'[OrderOf(w)].lines
        /\ \A i \in DOMAIN orders'[OrderOf(w)].lines :
             taken'[OrderOf(w)][i] >= 1
    BY <1>2, <1>3, <1>4, <1>5 DEF IsLast
  <2>b. /\ orders'[OrderOf(w)].status # "NONE"
        /\ worker[w].msg # NoMsg
    BY <1>0, <1>2, Handling
  <2>c. /\ last.pc = "confirm" /\ last.msg = worker[w].msg
        /\ last.version = 1 /\ last.line = 1 /\ ~last.short
    BY <1>1 DEF State
  <2> HIDE DEF last
  <2>2. worker'[w] = last => WorkerInv(w)'
    BY <2>a, <2>b, <2>c DEF WorkerInv, OrderOf
  <2> HIDE DEF last
  <2> QED
    BY <1>0, <1>2, <1>5, <2>1, <2>2, DecrementKeeps, DecrementTables, TableStep
<1>6. CASE ~IsLast(w)
  <2>1. next \in WorkerState
    BY <1>0, <1>1, Handling, AtLine DEF State, WorkerState, WorkerPcs, DbPcs
  <2>2. worker[w].line + 1 \in 1..Len(orders[OrderOf(w)].lines)
    BY <1>3, <1>6 DEF IsLast
  <2>3. worker'[w] = next => WorkerInv(w)'
    BY <1>0, <1>1, <1>2, <1>3, <1>4, <2>2, Handling DEF State, WorkerInv, OrderOf
  <2> HIDE DEF next
  <2> QED
    BY <1>0, <1>2, <1>6, <2>1, <2>3, DecrementKeeps, DecrementTables, TableStep
<1> QED
  BY <1>5, <1>6

\* A decision under the lock is the first one, on an order fully reserved or
\* found short.
LEMMA UpdateStatusTables ==
  ASSUME IInv, NEW w \in Workers, worker[w].pc \in {"confirm", "reject"},
         UpdateStatus(w)
  PROVE  /\ orders' \in [Orders -> OrderRow]
         /\ stock' \in [Skus -> Nat]
         /\ taken' \in [Orders -> Seq(Nat)]
         /\ RowsInv'
         /\ ReservedBeforeConfirmed'
         /\ RejectedOnlyIfShort'
         /\ \A o \in Orders : Keeps(o)
         /\ \A o \in Orders :
              orders[o].status = "NONE" => orders'[o] = orders[o]
         /\ orders[OrderOf(w)].status = "PENDING"
         /\ orders'[OrderOf(w)].status = Outcome(w)
<1> DEFINE o == OrderOf(w)
           row == [status |-> Outcome(w), version |-> orders[o].version + 1,
                   lines |-> orders[o].lines]
<1>1. /\ o \in Orders /\ orders[o] \in OrderRow
      /\ orders[o].version = 1 /\ worker[w].version = 1
  BY Handling DEF UpdateStatus, IInv, WorkerInv
<1>2. orders[o].status = "PENDING"
  BY <1>1 DEF IInv, RowsInv
<1>3. orders' = [orders EXCEPT ![o] = row] /\ UNCHANGED <<stock, taken>>
  BY DEF UpdateStatus
<1>4. row \in OrderRow
  BY <1>1 DEF OrderRow, Outcome
<1>5. /\ row.status = Outcome(w) /\ row.version = 2
      /\ row.lines = orders[o].lines
      /\ Outcome(w) \in {"CONFIRMED", "REJECTED"}
  BY <1>1 DEF Outcome
<1>6. Outcome(w) = "CONFIRMED" =>
        \A i \in DOMAIN orders[o].lines : taken[o][i] >= 1
  BY DEF IInv, WorkerInv, Outcome
<1> HIDE DEF row
<1>7. orders'[o] = row /\ \A p \in Orders \ {o} : orders'[p] = orders[p]
  BY <1>1, <1>3 DEF IInv, TypeOK
<1>8. orders' \in [Orders -> OrderRow]
  BY <1>3, <1>4 DEF IInv, TypeOK
<1> HIDE DEF o
<1>9. RowsInv'
  BY <1>1, <1>2, <1>3, <1>5, <1>7 DEF IInv, RowsInv
<1>10. ReservedBeforeConfirmed'
  BY <1>3, <1>5, <1>6, <1>7 DEF IInv, ReservedBeforeConfirmed
<1>11. \A p \in Orders : Keeps(p)
  BY <1>2, <1>3, <1>5, <1>7 DEF Keeps, Resolved, Short, StillShort
<1>12. Outcome(w) = "REJECTED" => Short(o)
  BY DEF IInv, WorkerInv, Outcome, o
<1>13. RejectedOnlyIfShort'
  BY <1>3, <1>5, <1>7, <1>12 DEF IInv, RejectedOnlyIfShort, Short
<1> QED
  BY <1>2, <1>3, <1>5, <1>7, <1>8, <1>9, <1>10, <1>11, <1>13
     DEF IInv, TypeOK, o

LEMMA DecideIInv ==
  ASSUME IInv, NEW w \in Workers, Confirm(w) \/ Reject(w)
  PROVE  IInv'
<1> DEFINE r == State("snapshot", worker[w].msg, worker[w].version, 1,
                      worker[w].short, worker[w].live)
<1>1. /\ worker[w].pc \in {"confirm", "reject"}
      /\ UpdateStatus(w) /\ Become(w, r)
      /\ UNCHANGED <<queues, sync, api, faults>>
  BY DEF Confirm, Reject, Go
<1>2. worker[w].version = 1
  BY <1>1 DEF IInv, WorkerInv
<1>3. r \in WorkerState
  BY <1>1, Handling DEF State, WorkerState, WorkerPcs
<1>4. orders'[OrderOf(w)].lines = orders[OrderOf(w)].lines
  BY <1>1, Handling, UpdateStatusTables DEF Keeps
<1>5. 1 \in DOMAIN orders[OrderOf(w)].lines
  BY <1>1, Handling DEF OrderRow, Storable
<1>a. /\ orders'[OrderOf(w)].status = Outcome(w)
      /\ Outcome(w) # "NONE" /\ worker[w].msg # NoMsg
  BY <1>1, Handling, UpdateStatusTables DEF Outcome
<1>b. /\ r.pc = "snapshot" /\ r.msg = worker[w].msg /\ r.version = 1
      /\ r.line = 1 /\ r.short = worker[w].short
  BY <1>2 DEF State
<1>c. worker[w].short => Short(OrderOf(w))
  BY <1>1 DEF IInv, WorkerInv
<1> HIDE DEF r
<1>6. worker'[w] = r => WorkerInv(w)'
  BY <1>a, <1>b, <1>c, <1>1, <1>4, <1>5
     DEF WorkerInv, OrderOf, Outcome, Short, UpdateStatus
<1> QED
  BY <1>1, <1>3, <1>6, UpdateStatusTables, TableStep DEF IInv, TypeOK

LEMMA DbErrorIInv ==
  ASSUME IInv, NEW w \in Workers, DbError(w)
  PROVE  IInv'
<1> DEFINE r == State("fail", worker[w].msg, 0, 1, FALSE, worker[w].live)
<1>1. /\ worker[w].pc \notin {"down", "idle"}
      /\ Leave(w, "fail") /\ Become(w, r)
      /\ UNCHANGED <<queues, sync, api>>
  BY DEF DbError, DbPcs, Leave, Go
<1>2. faults' \in [Faults -> Nat]
  BY SufferType DEF DbError, IInv, Faults
<1>3. CASE UNCHANGED db
  BY <1>1, <1>2, <1>3, LeaveIInv
<1>4. r \in WorkerState
  BY <1>1, Handling DEF State, WorkerState, WorkerPcs
<1>5. (\A o \in Orders : Keeps(o)) /\ worker'[w] = r => WorkerInv(w)'
  BY <1>1, Handling DEF State, WorkerInv, OrderOf, Keeps
<1> HIDE DEF r
<1>6. CASE worker[w].pc = "reserve" /\ Decrement(w)
  BY <1>1, <1>2, <1>4, <1>5, <1>6, DecrementKeeps, DecrementTables, TableStep
     DEF Decrement
<1>7. CASE worker[w].pc \in {"confirm", "reject"} /\ UpdateStatus(w)
  BY <1>1, <1>2, <1>4, <1>5, <1>7, UpdateStatusTables, TableStep
<1> QED
  BY <1>3, <1>6, <1>7 DEF DbError

------------------------------------------------------------------------------
(* The steps of the requests, and all steps together.                       *)

\* A handler that goes on, with what it has published in the buffer.
LEMMA HandlerGoesOn ==
  ASSUME IInv, NEW o \in Orders,
         NEW state \in Handlers, NEW event \in Stages, NEW snapshot \in Stages,
         api' = [api EXCEPT ![o] = Request(state, event, snapshot)],
         UNCHANGED <<db, queues, sync, worker>>, faults' \in [Faults -> Nat],
         state # "new",
         state \in {"published", "accepted"} => event # "none",
         state = "accepted" => snapshot # "none", state # "saved",
         \/ UnderWay(o)
         \/ /\ state \notin {"saved", "published"}
            /\ event = api[o].event /\ snapshot = api[o].snapshot
  PROVE  IInv'
<1>1. api \in [Orders -> Requests]
  BY DEF IInv, TypeOK
<1>2. /\ api' \in [Orders -> Requests]
      /\ api'[o].state = state /\ api'[o].event = event
      /\ api'[o].snapshot = snapshot
      /\ \A p \in Orders \ {o} : api'[p] = api[p]
  BY <1>1, RequestIs
<1>3. \A p \in Orders :
        /\ InStep(api'[p])
        /\ api'[p].state = "new" => api[p].state = "new"
        /\ UnderWay(p)' \/ IsBuffered(p)' => UnderWay(p) \/ IsBuffered(p)
  BY <1>2 DEF InStep, UnderWay, IsBuffered, IInv, RequestsInv
<1> QED
  BY <1>2, <1>3, AnswerIInv

LEMMA HandlerIInv ==
  ASSUME IInv, NEW o \in Orders,
         \/ RefuseOrder(o) \/ PublishOrderCreated(o)
         \/ PublishPendingSnapshot(o) \/ PendingTotalThrows(o)
  PROVE  IInv'
<1>1. /\ api[o].event \in Stages /\ api[o].snapshot \in Stages
      /\ faults \in [Faults -> Nat]
  BY DEF IInv, TypeOK, Requests
<1>2. /\ "failed" \in Handlers /\ "published" \in Handlers /\ "accepted" \in Handlers
      /\ "buffered" \in Stages /\ "none" \in Stages
  BY DEF Handlers, Stages
<1>3. CASE RefuseOrder(o) \/ PendingTotalThrows(o)
  <2>1. api' = [api EXCEPT ![o] = Request("failed", api[o].event, api[o].snapshot)]
    BY <1>3 DEF RefuseOrder, PendingTotalThrows, Answer
  <2> QED
    BY <1>1, <1>2, <1>3, <2>1, HandlerGoesOn
       DEF RefuseOrder, PendingTotalThrows
<1>4. CASE PublishOrderCreated(o)
  <2>1. api' = [api EXCEPT ![o] = Request("published", "buffered", api[o].snapshot)]
    BY <1>4 DEF PublishOrderCreated
  <2>2. UnderWay(o) /\ UNCHANGED <<db, queues, sync, worker, faults>>
    BY <1>4 DEF PublishOrderCreated, UnderWay
  <2> QED
    BY <1>1, <1>2, <2>1, <2>2, HandlerGoesOn
<1>5. CASE PublishPendingSnapshot(o)
  <2>1. api' = [api EXCEPT ![o] = Request("accepted", api[o].event, "buffered")]
    BY <1>5 DEF PublishPendingSnapshot
  <2>2. /\ UnderWay(o) /\ UNCHANGED <<db, queues, sync, worker, faults>>
        /\ api[o].event # "none"
    BY <1>5 DEF PublishPendingSnapshot, UnderWay, IInv, RequestsInv, InStep
  <2> QED
    BY <1>1, <1>2, <2>1, <2>2, HandlerGoesOn
<1> QED
  BY <1>3, <1>4, <1>5

LEMMA PublishThrowsIInv ==
  ASSUME IInv, NEW o \in Orders, PublishThrows(o)
  PROVE  IInv'
<1>1. faults' \in [Faults -> Nat] /\ api \in [Orders -> Requests]
  BY SufferType DEF PublishThrows, IInv, TypeOK, Faults
<1>2. PICK requests \in {api, BufferLost} :
        api' = [requests EXCEPT ![o] = Request("failed", @.event, @.snapshot)]
  BY DEF PublishThrows
<1>3. /\ requests \in [Orders -> Requests]
      /\ \A p \in Orders :
           /\ requests[p].state = api[p].state
           /\ requests[p].event = "buffered" => api[p].event = "buffered"
           /\ requests[p].snapshot = "buffered" => api[p].snapshot = "buffered"
           /\ requests[p].event = "none" <=> api[p].event = "none"
           /\ requests[p].snapshot = "none" <=> api[p].snapshot = "none"
  BY <1>1, BufferLostIs, UnsentStage DEF Requests
<1>4. /\ api' \in [Orders -> Requests]
      /\ \A p \in Orders :
           /\ api'[p].state = IF p = o THEN "failed" ELSE api[p].state
           /\ api'[p].event = "buffered" => api[p].event = "buffered"
           /\ api'[p].snapshot = "buffered" => api[p].snapshot = "buffered"
           /\ api'[p].event = "none" <=> api[p].event = "none"
           /\ api'[p].snapshot = "none" <=> api[p].snapshot = "none"
  <2>1. /\ requests[o].event \in Stages /\ requests[o].snapshot \in Stages
        /\ "failed" \in Handlers
    BY <1>3 DEF Requests, Handlers
  <2>2. api' = [requests EXCEPT ![o] =
                  Request("failed", requests[o].event, requests[o].snapshot)]
    BY <1>2
  <2> QED
    BY <1>3, <2>1, <2>2, RequestIs
<1>5. \A p \in Orders :
        /\ InStep(api'[p])
        /\ api'[p].state = "new" => api[p].state = "new"
        /\ UnderWay(p)' \/ IsBuffered(p)' => UnderWay(p) \/ IsBuffered(p)
  BY <1>4 DEF InStep, UnderWay, IsBuffered, IInv, RequestsInv
<1> QED
  BY <1>1, <1>4, <1>5, AnswerIInv DEF PublishThrows

LEMMA ApiStepIInv ==
  ASSUME IInv, NEW o \in Orders, ApiStep(o)
  PROVE  IInv'
<1>1. CASE \/ RefuseOrder(o) \/ PublishOrderCreated(o)
           \/ PublishPendingSnapshot(o) \/ PendingTotalThrows(o)
  BY <1>1, HandlerIInv
<1>2. CASE SaveOrder(o)
  <2>1. orders[o].status = "NONE"
    BY <1>2 DEF SaveOrder, IInv, RequestsInv
  <2>2. PICK cart \in Carts : Acceptable(cart) /\ Store(o, cart)
    BY <1>2 DEF SaveOrder
  <2> QED
    BY <1>2, <2>1, <2>2, StoreIInv DEF SaveOrder, IInv, TypeOK
<1>3. CASE SaveFails(o)
  <2>0. faults' \in [Faults -> Nat]
    BY <1>3, SufferType DEF SaveFails, IInv, Faults
  <2>1. CASE UNCHANGED db
    <3>1. /\ api[o].event \in Stages /\ api[o].snapshot \in Stages
          /\ "failed" \in Handlers
      BY DEF IInv, TypeOK, Requests, Handlers
    <3>2. api' = [api EXCEPT ![o] = Request("failed", api[o].event, api[o].snapshot)]
      BY <1>3 DEF SaveFails, Answer
    <3> QED
      BY <1>3, <2>0, <2>1, <3>1, <3>2, HandlerGoesOn DEF SaveFails
  <2>2. CASE \E cart \in Carts : Acceptable(cart) /\ Store(o, cart)
    <3>1. orders[o].status = "NONE"
      BY <1>3 DEF SaveFails, IInv, RequestsInv
    <3>2. PICK cart \in Carts : Acceptable(cart) /\ Store(o, cart)
      BY <2>2
    <3> QED
      BY <1>3, <2>0, <3>1, <3>2, StoreIInv DEF SaveFails
  <2> QED
    BY <1>3, <2>1, <2>2 DEF SaveFails
<1>4. CASE PublishThrows(o)
  BY <1>4, PublishThrowsIInv
<1>5. CASE FlushEvent(o)
  BY <1>5, FlushEventIInv
<1>6. CASE FlushSnapshot(o)
  BY <1>6, FlushSnapshotIInv
<1> QED
  BY <1>1, <1>2, <1>3, <1>4, <1>5, <1>6 DEF ApiStep

\* The API process or its connection goes, and the buffer with it.
LEMMA ApiFaultRequests ==
  ASSUME IInv, ApiFault
  PROVE  /\ api' \in [Orders -> Requests]
         /\ \A o \in Orders :
              /\ api'[o].state = api[o].state \/ api'[o].state = "dropped"
              /\ api'[o].event = Unsent(api[o].event)
              /\ api'[o].snapshot = Unsent(api[o].snapshot)
<1>1. CASE ApiCrash
  <2> SUFFICES ASSUME NEW o \in Orders
               PROVE  /\ api'[o] \in Requests
                      /\ api'[o].state = api[o].state \/ api'[o].state = "dropped"
                      /\ api'[o].event = Unsent(api[o].event)
                      /\ api'[o].snapshot = Unsent(api[o].snapshot)
    BY <1>1 DEF ApiCrash
  <2> DEFINE state == IF UnderWay(o) THEN "dropped" ELSE api[o].state
  <2>1. api'[o] = Request(state, BufferLost[o].event, BufferLost[o].snapshot)
    BY <1>1 DEF ApiCrash
  <2>2. /\ state \in Handlers
        /\ state = api[o].state \/ state = "dropped"
        /\ BufferLost[o].event \in Stages /\ BufferLost[o].snapshot \in Stages
    BY BufferLostIs DEF IInv, TypeOK, Requests, Handlers
  <2> HIDE DEF state
  <2> QED
    BY <2>1, <2>2, RequestIs, BufferLostIs
<1>2. CASE ApiLosesConnection
  BY <1>2, BufferLostIs DEF ApiLosesConnection
<1> QED
  BY <1>1, <1>2 DEF ApiFault

LEMMA ApiFaultIInv == IInv /\ ApiFault => IInv'
<1> SUFFICES ASSUME IInv, ApiFault PROVE IInv'
  OBVIOUS
<1>1. faults' \in [Faults -> Nat]
  BY SufferType DEF ApiFault, ApiCrash, ApiLosesConnection, IInv, Faults
<1>2. \A o \in Orders : api[o].event \in Stages /\ api[o].snapshot \in Stages
  BY DEF IInv, TypeOK, Requests
<1>3. \A o \in Orders :
        /\ InStep(api'[o])
        /\ api'[o].state = "new" => api[o].state = "new"
        /\ UnderWay(o)' \/ IsBuffered(o)' => UnderWay(o) \/ IsBuffered(o)
  BY <1>2, ApiFaultRequests, UnsentStage
     DEF InStep, UnderWay, IsBuffered, IInv, RequestsInv
<1> QED
  BY <1>1, <1>3, ApiFaultRequests, AnswerIInv
     DEF ApiFault, ApiCrash, ApiLosesConnection

LEMMA NextIInv == IInv /\ [Next]_vars => IInv'
<1> SUFFICES ASSUME IInv, [Next]_vars PROVE IInv'
  OBVIOUS
<1>1. ASSUME NEW o \in Orders, ApiStep(o) PROVE IInv'
  BY <1>1, ApiStepIInv
<1>2. CASE ApiFault
  BY <1>2, ApiFaultIInv
<1>3. ASSUME NEW w \in Workers, NEW m \in Msg, Deliver(w, m) PROVE IInv'
  BY <1>3, DeliverIInv
<1>4. ASSUME NEW w \in Workers, Process(w) PROVE IInv'
  BY <1>4, FindOrderIInv, CheckLineIInv, ReserveLineIInv, ThrowIInv, DecideIInv,
     PublishSnapshotIInv, StopIInv, HandleFailureIInv DEF Process
<1>5. ASSUME NEW w \in Workers, Restart(w) PROVE IInv'
  BY <1>5, StopIInv
<1>6. ASSUME NEW w \in Workers, WorkerFault(w) PROVE IInv'
  BY <1>6, DbErrorIInv, CrashIInv, CrashBetweenPublishAndAckIInv,
     LoseConnectionIInv, LoseSnapshotIInv, LoseAckIInv DEF WorkerFault
<1>7. ASSUME NEW m \in Msg, ExpireRetry(m) PROVE IInv'
  BY <1>7, ExpireRetryIInv
<1>8. CASE UNCHANGED vars
  <2> USE <1>8 DEF vars, IInv
  <2>1. TypeOK'
    BY DEF TypeOK
  <2>2. RowsInv' /\ RequestsInv' /\ EventsInv'
    BY DEF RowsInv, RequestsInv, InStep, UnderWay, IsBuffered, EventsInv
  <2>3. \A w \in Workers : WorkerInv(w)'
    BY DEF WorkerInv, OrderOf, Outcome, Resolved, Short
  <2>4. ReservedBeforeConfirmed' /\ RejectedOnlyIfShort'
        /\ SnapshotsTellTheTruth'
    BY DEF ReservedBeforeConfirmed, RejectedOnlyIfShort, Short,
           SnapshotsTellTheTruth
  <2> QED
    BY <2>1, <2>2, <2>3, <2>4
<1> QED
  BY <1>1, <1>2, <1>3, <1>4, <1>5, <1>6, <1>7, <1>8 DEF Next

\* What a step may do to the tables.
LEMMA TableCases ==
  ASSUME IInv, [Next]_vars
  PROVE  \/ UNCHANGED db
         \/ \E o \in Orders, cart \in Carts :
              /\ api[o].state = "new" /\ Acceptable(cart) /\ Store(o, cart)
         \/ \E w \in Workers : worker[w].pc = "reserve" /\ Decrement(w)
         \/ \E w \in Workers : worker[w].pc \in {"confirm", "reject"} /\ UpdateStatus(w)
<1>1. ASSUME NEW o \in Orders, ApiStep(o)
      PROVE  \/ UNCHANGED db
             \/ \E cart \in Carts : /\ api[o].state = "new" /\ Acceptable(cart) /\ Store(o, cart)
  BY <1>1 DEF ApiStep, RefuseOrder, SaveOrder, SaveFails, PublishOrderCreated,
              PublishPendingSnapshot, PendingTotalThrows, PublishThrows, FlushEvent, FlushSnapshot
<1>2. ASSUME NEW w \in Workers, Process(w)
      PROVE  \/ UNCHANGED db
             \/ worker[w].pc = "reserve" /\ Decrement(w)
             \/ worker[w].pc \in {"confirm", "reject"} /\ UpdateStatus(w)
  BY <1>2 DEF Process, FindOrder, CheckLine, ReserveLine, ReserveRefused, Confirm,
              Reject, LockConflict, PublishSnapshot, SnapshotThrows, Ack,
              HandleFailure, DieOnDeadChannel
<1>3. ASSUME NEW w \in Workers, WorkerFault(w)
      PROVE  \/ UNCHANGED db
             \/ worker[w].pc = "reserve" /\ Decrement(w)
             \/ worker[w].pc \in {"confirm", "reject"} /\ UpdateStatus(w)
  BY <1>3 DEF WorkerFault, DbError, Crash, CrashBetweenPublishAndAck,
              LoseConnection, LoseSnapshot, LoseAck
<1>4. CASE UNCHANGED vars
  BY <1>4 DEF vars, db
<1>5. ASSUME ApiFault \/ (\E w \in Workers, m \in Msg : Deliver(w, m))
             \/ (\E w \in Workers : Restart(w)) \/ (\E m \in Msg : ExpireRetry(m))
      PROVE  UNCHANGED db
  BY <1>5 DEF ApiFault, ApiCrash, ApiLosesConnection, Deliver, Restart, ExpireRetry
<1> QED
  BY <1>1, <1>2, <1>3, <1>4, <1>5 DEF Next

------------------------------------------------------------------------------
(* Theorems.                                                                *)

\* The inductive invariant holds whatever fails, however often.
THEOREM Invariance == Spec => []IInv
BY InitIInv, NextIInv, PTL DEF Spec

\* Every variable keeps its type; in particular no stock ever goes negative and
\* no order is ever decided twice (InventoryRepository.js:27-37,
\* OrderRepository.js:86-98).
THEOREM TypeCorrect == Spec => []TypeOK
<1>1. IInv => TypeOK
  BY DEF IInv
<1> QED
  BY <1>1, Invariance, PTL

\* No order is confirmed without the stock of each of its lines, through any
\* interleaving of workers, retries, crashes and lost connections
\* (OrderProcessingService.js:46-51).
THEOREM ConfirmedIsReserved == Spec => []ReservedBeforeConfirmed
<1>1. IInv => ReservedBeforeConfirmed
  BY DEF IInv
<1> QED
  BY <1>1, Invariance, PTL

\* No order is rejected that the stock at that moment, or since, could serve
\* (OrderProcessingService.js:28-44).
THEOREM RejectedIsShort == Spec => []RejectedOnlyIfShort
<1>1. IInv => RejectedOnlyIfShort
  BY DEF IInv
<1> QED
  BY <1>1, Invariance, PTL

\* No snapshot on its way to the read store contradicts the write store
\* (OrderProcessingService.js:38-53, CreateOrderCommandHandler.js:40-43).
THEOREM SnapshotsAreTrue == Spec => []SnapshotsTellTheTruth
<1>1. IInv => SnapshotsTellTheTruth
  BY DEF IInv
<1> QED
  BY <1>1, Invariance, PTL

------------------------------------------------------------------------------
(* No event is given up before its order is decided.                        *)

LEMMA InQueue ==
  ASSUME IInv, NEW m \in Msg
  PROVE  ready[m] + waiting[m] + dead[m] > 0 <=>
           ready[m] > 0 \/ waiting[m] > 0 \/ dead[m] > 0
BY InSomeQueue DEF IInv, TypeOK

\* An event stays tracked in a step of worker w that empties no queue, if it is
\* still tracked should w have held it.
LEMMA TrackedByOthers ==
  ASSUME IInv, IInv', NEW o \in Orders, Tracked(o), NEW w \in Workers,
         \A v \in Workers \ {w} : worker'[v] = worker[v],
         \A m \in Msg : /\ ready[m] > 0   => ready'[m] > 0 \/ worker'[w] = Begin(m)
                        /\ waiting[m] > 0 => waiting'[m] > 0
                        /\ dead[m] > 0    => dead'[m] > 0,
         Holds(w) /\ OrderOf(w) = o => Tracked(o)'
  PROVE  Tracked(o)'
<1>1. CASE \E m \in Msg : m.order = o /\ ready[m] + waiting[m] + dead[m] > 0
  <2>1. PICK m \in Msg : m.order = o /\ ready[m] + waiting[m] + dead[m] > 0
    BY <1>1
  <2>2. ready'[m] > 0 \/ waiting'[m] > 0 \/ dead'[m] > 0 \/ worker'[w] = Begin(m)
    BY <2>1, InQueue
  <2>3. CASE worker'[w] = Begin(m)
    BY <2>1, <2>3, PipelineAssumption
       DEF Tracked, Holds, OrderOf, Begin, State, Msg
  <2>4. CASE ready'[m] > 0 \/ waiting'[m] > 0 \/ dead'[m] > 0
    <3>1. ready'[m] + waiting'[m] + dead'[m] > 0
      BY <2>4, InSomeQueue DEF IInv, TypeOK
    <3> QED
      BY <2>1, <3>1 DEF Tracked
  <2> QED
    BY <2>2, <2>3, <2>4
<1>2. CASE \E v \in Workers : Holds(v) /\ OrderOf(v) = o
  BY <1>2 DEF Tracked, Holds, OrderOf
<1> QED
  BY <1>1, <1>2 DEF Tracked

\* A worker that keeps its message and its channel keeps the event.
LEMMA TrackedInHand ==
  ASSUME IInv, IInv', NEW o \in Orders, Tracked(o), NEW w \in Workers,
         UNCHANGED queues,
         NEW pc, NEW version, NEW line, NEW short, Go(w, pc, version, line, short)
  PROVE  Tracked(o)'
<1>1. /\ worker'[w] = State(pc, worker[w].msg, version, line, short, worker[w].live)
      /\ \A v \in Workers \ {w} : worker'[v] = worker[v]
  BY DEF Go, Become, IInv, TypeOK
<1>2. Holds(w) /\ OrderOf(w) = o => Tracked(o)'
  BY <1>1 DEF Holds, OrderOf, Tracked, State
<1> QED
  BY <1>1, <1>2, TrackedByOthers DEF queues

\* An event put into a queue is tracked.
LEMMA TrackedInQueue ==
  ASSUME IInv', NEW m \in Msg, NEW o \in Orders, m.order = o,
         ready'[m] > 0 \/ waiting'[m] > 0 \/ dead'[m] > 0
  PROVE  Tracked(o)'
<1>1. ready'[m] + waiting'[m] + dead'[m] > 0
  BY InSomeQueue DEF IInv, TypeOK
<1> QED
  BY <1>1 DEF Tracked

\* Giving an event back to the processing queue.
LEMMA TrackedRequeued ==
  ASSUME IInv, IInv', NEW o \in Orders, Tracked(o), NEW w \in Workers,
         NEW r, Become(w, r), Requeue(w),
         \A m \in Msg : /\ waiting[m] > 0 => waiting'[m] > 0
                        /\ dead[m] > 0 => dead'[m] > 0
  PROVE  Tracked(o)'
<1>1. \A v \in Workers \ {w} : worker'[v] = worker[v]
  BY DEF Become, IInv, TypeOK
<1>2. ready \in [Msg -> Nat]
  BY DEF IInv, TypeOK
<1>3. Holds(w) => /\ worker[w].msg \in Msg
                  /\ ready' = Put(ready, worker[w].msg)
  BY DEF Holds, Requeue, IInv, TypeOK, WorkerState
<1>4. \A m \in Msg : ready[m] > 0 => ready'[m] > 0
  BY <1>2, <1>3, PutCounts DEF Requeue
<1>5. Holds(w) /\ OrderOf(w) = o => Tracked(o)'
  BY <1>2, <1>3, PutCounts, TrackedInQueue DEF OrderOf
<1> QED
  BY <1>1, <1>4, <1>5, TrackedByOthers

\* What handleFailure publishes is in a queue afterwards, and nothing less.
LEMMA ResendTracks ==
  ASSUME IInv, NEW m \in Msg, Resend(m)
  PROVE  /\ \E n \in Msg : n.order = m.order /\ (waiting'[n] > 0 \/ dead'[n] > 0)
         /\ \A n \in Msg : /\ waiting[n] > 0 => waiting'[n] > 0
                           /\ dead[n] > 0 => dead'[n] > 0
<1>q. waiting \in [Msg -> Nat] /\ dead \in [Msg -> Nat]
  BY DEF IInv, TypeOK
<1>1. CASE m.retry >= MaxAttempts
  <2>1. dead' = Put(dead, m) /\ UNCHANGED waiting
    BY <1>1 DEF Resend, DecideRetry
  <2> QED
    BY <2>1, <1>q, PutCounts
<1>2. CASE ~(m.retry >= MaxAttempts)
  <2> DEFINE copy == [order |-> m.order, retry |-> m.retry + 1]
  <2>1. waiting' = Put(waiting, copy) /\ UNCHANGED dead
    BY <1>2 DEF Resend, DecideRetry
  <2>2. copy \in Msg /\ copy.order = m.order
    BY <1>2, PipelineAssumption DEF Msg
  <2> HIDE DEF copy
  <2> QED
    BY <2>1, <2>2, <1>q, PutCounts
<1> QED
  BY <1>1, <1>2

LEMMA ProcessTracks ==
  ASSUME IInv, IInv', NEW o \in Orders, Tracked(o), ~Resolved(o),
         NEW w \in Workers, Process(w)
  PROVE  Tracked(o)'
<1>1. CASE FindOrder(w)
  BY <1>1, TrackedInHand DEF FindOrder, Leave
<1>2. CASE CheckLine(w)
  BY <1>2, TrackedInHand DEF CheckLine
<1>3. CASE ReserveLine(w)
  BY <1>3, TrackedInHand DEF ReserveLine
<1>4. CASE ReserveRefused(w) \/ LockConflict(w) \/ SnapshotThrows(w)
  BY <1>4, TrackedInHand DEF ReserveRefused, LockConflict, SnapshotThrows, Leave
<1>5. CASE Confirm(w) \/ Reject(w)
  BY <1>5, TrackedInHand DEF Confirm, Reject
<1>6. CASE PublishSnapshot(w)
  BY <1>6, TrackedInHand DEF PublishSnapshot, Leave
<1>7. CASE Ack(w)
  <2>1. Resolved(OrderOf(w))
    BY <1>7 DEF Ack, IInv, WorkerInv
  <2>2. \A v \in Workers \ {w} : worker'[v] = worker[v]
    BY <1>7 DEF Ack, Become, IInv, TypeOK
  <2> QED
    BY <1>7, <2>1, <2>2, TrackedByOthers DEF Ack, queues
<1>8. CASE DieOnDeadChannel(w)
  <2>1. \A v \in Workers \ {w} : worker'[v] = worker[v]
    BY <1>8 DEF DieOnDeadChannel, Become, IInv, TypeOK
  <2> QED
    BY <1>8, <2>1, TrackedByOthers DEF DieOnDeadChannel, Holds, queues
<1>9. CASE HandleFailure(w)
  <2>1. worker[w].msg \in Msg
    BY <1>9, Handling DEF HandleFailure
  <2>2. \A v \in Workers \ {w} : worker'[v] = worker[v]
    BY <1>9 DEF HandleFailure, Become, IInv, TypeOK
  <2>3. Holds(w) /\ OrderOf(w) = o => Tracked(o)'
    BY <1>9, <2>1, ResendTracks, TrackedInQueue DEF HandleFailure, OrderOf
  <2> QED
    BY <1>9, <2>1, <2>2, <2>3, ResendTracks, TrackedByOthers DEF HandleFailure
<1> QED
  BY <1>1, <1>2, <1>3, <1>4, <1>5, <1>6, <1>7, <1>8, <1>9 DEF Process

LEMMA FaultTracks ==
  ASSUME IInv, IInv', NEW o \in Orders, Tracked(o), NEW w \in Workers,
         WorkerFault(w)
  PROVE  Tracked(o)'
<1>1. CASE DbError(w)
  BY <1>1, TrackedInHand DEF DbError, Leave
<1>2. CASE Crash(w) \/ LoseConnection(w) \/ LoseSnapshot(w)
  BY <1>2, TrackedRequeued DEF Crash, LoseConnection, LoseSnapshot
<1>3. CASE CrashBetweenPublishAndAck(w) \/ LoseAck(w)
  <2>1. worker[w].msg \in Msg
    BY <1>3, Handling DEF CrashBetweenPublishAndAck, LoseAck
  <2>2. \A m \in Msg : /\ waiting[m] > 0 => waiting'[m] > 0
                       /\ dead[m] > 0 => dead'[m] > 0
    BY <1>3, <2>1, ResendTracks DEF CrashBetweenPublishAndAck, LoseAck
  <2> QED
    BY <1>3, <2>2, TrackedRequeued DEF CrashBetweenPublishAndAck, LoseAck
<1> QED
  BY <1>1, <1>2, <1>3 DEF WorkerFault

\* The steps of requests and of the broker.
LEMMA QueueTracks ==
  ASSUME IInv, IInv', NEW o \in Orders, Tracked(o), UNCHANGED worker,
         \A m \in Msg : /\ ready[m] > 0   => ready'[m] > 0
                        /\ waiting[m] > 0 => waiting'[m] > 0 \/ ready'[m] > 0
                        /\ dead[m] > 0    => dead'[m] > 0
  PROVE  Tracked(o)'
<1>1. CASE \E m \in Msg : m.order = o /\ ready[m] + waiting[m] + dead[m] > 0
  BY <1>1, InQueue, TrackedInQueue
<1>2. CASE \E v \in Workers : Holds(v) /\ OrderOf(v) = o
  BY <1>2 DEF Tracked, Holds, OrderOf
<1> QED
  BY <1>1, <1>2 DEF Tracked

LEMMA PublishTracks ==
  ASSUME IInv, IInv', NEW o \in Orders, Tracked(o),
         ApiFault \/ \E p \in Orders : ApiStep(p)
  PROVE  Tracked(o)'
<1>1. UNCHANGED <<worker, waiting, dead>>
  BY DEF ApiFault, ApiCrash, ApiLosesConnection, ApiStep, RefuseOrder, SaveOrder, SaveFails,
         PublishOrderCreated, PublishPendingSnapshot, PendingTotalThrows,
         PublishThrows, FlushEvent, FlushSnapshot, queues
<1>2. ready' = ready \/ \E m \in Msg : ready' = Put(ready, m)
  <2>1. CASE \E p \in Orders : FlushEvent(p)
    BY <2>1, PipelineAssumption DEF FlushEvent, Msg
  <2>2. CASE ~\E p \in Orders : FlushEvent(p)
    BY <2>2 DEF ApiFault, ApiCrash, ApiLosesConnection, ApiStep, RefuseOrder,
                SaveOrder, SaveFails, PublishOrderCreated, PublishPendingSnapshot,
                PendingTotalThrows, PublishThrows, FlushSnapshot, queues
  <2> QED
    BY <2>1, <2>2
<1>3. \A m \in Msg : ready[m] > 0 => ready'[m] > 0
  <2>1. ready \in [Msg -> Nat]
    BY DEF IInv, TypeOK
  <2>2. CASE ready' = ready
    BY <2>2
  <2>3. ASSUME NEW m \in Msg, ready' = Put(ready, m)
        PROVE  \A n \in Msg : ready[n] > 0 => ready'[n] > 0
    BY <2>1, <2>3, PutCounts
  <2> QED
    BY <1>2, <2>2, <2>3
<1> QED
  BY <1>1, <1>3, QueueTracks

LEMMA StepTracks ==
  ASSUME IInv, IInv', [Next]_vars, NEW o \in Orders, Tracked(o), ~Resolved(o)
  PROVE  Tracked(o)'
<1>1. CASE ApiFault \/ \E p \in Orders : ApiStep(p)
  BY <1>1, PublishTracks
<1>2. ASSUME NEW w \in Workers, NEW m \in Msg, Deliver(w, m)
      PROVE  Tracked(o)'
  <2>1. /\ worker'[w] = Begin(m)
        /\ \A v \in Workers \ {w} : worker'[v] = worker[v]
    BY <1>2 DEF Deliver, Become, IInv, TypeOK
  <2>2. ~Holds(w)
    BY <1>2 DEF Deliver, Holds, Idle, State
  <2>3. \A n \in Msg : ready[n] > 0 => ready'[n] > 0 \/ worker'[w] = Begin(n)
    <3>1. ready \in [Msg -> Nat]
      BY DEF IInv, TypeOK
    <3>2. ready' = Take(ready, m) /\ ready[m] > 0
      BY <1>2 DEF Deliver
    <3>3. \A n \in Msg \ {m} : ready'[n] = ready[n]
      BY <3>1, <3>2, TakeCounts
    <3> QED
      BY <2>1, <3>3
  <2> QED
    BY <1>2, <2>1, <2>2, <2>3, TrackedByOthers DEF Deliver
<1>3. ASSUME NEW w \in Workers, Process(w) PROVE Tracked(o)'
  BY <1>3, ProcessTracks
<1>4. ASSUME NEW w \in Workers, Restart(w) PROVE Tracked(o)'
  <2>1. /\ \A v \in Workers \ {w} : worker'[v] = worker[v]
        /\ ~Holds(w)
    BY <1>4 DEF Restart, Become, Holds, IInv, TypeOK, WorkerInv
  <2> QED
    BY <1>4, <2>1, TrackedByOthers DEF Restart, queues
<1>5. ASSUME NEW w \in Workers, WorkerFault(w) PROVE Tracked(o)'
  BY <1>5, FaultTracks
<1>6. ASSUME NEW m \in Msg, ExpireRetry(m) PROVE Tracked(o)'
  <2>1. /\ \A n \in Msg : waiting[n] > 0 => waiting'[n] > 0 \/ ready'[n] > 0
        /\ \A n \in Msg : ready[n] > 0 => ready'[n] > 0
    <3>1. ready \in [Msg -> Nat] /\ waiting \in [Msg -> Nat]
      BY DEF IInv, TypeOK
    <3>2. /\ waiting[m] > 0
          /\ waiting' = Take(waiting, m)
          /\ ready' = Put(ready, m)
      BY <1>6 DEF ExpireRetry
    <3>3. \A n \in Msg \ {m} : waiting'[n] = waiting[n]
      BY <3>1, <3>2, TakeCounts
    <3>4. ready'[m] > 0 /\ \A n \in Msg : ready[n] > 0 => ready'[n] > 0
      BY <3>1, <3>2, PutCounts
    <3> QED
      BY <3>3, <3>4
  <2> QED
    BY <1>6, <2>1, QueueTracks DEF ExpireRetry
<1>7. CASE UNCHANGED vars
  BY <1>7, QueueTracks DEF vars
<1> QED
  BY <1>1, <1>2, <1>3, <1>4, <1>5, <1>6, <1>7 DEF Next

\* Once the broker has the event of an order, no sequence of failures makes the
\* system forget it before the order is decided (worker.js:60, 82-97, 105-123).
THEOREM EventsAreHeld == Spec => EventsHeldUntilResolved
<1>1. IInv /\ IInv' /\ [Next]_vars =>
        [\A o \in Orders : Tracked(o) => Tracked(o)' \/ Resolved(o)]_vars
  BY StepTracks
<1> QED
  BY <1>1, Invariance, PTL DEF Spec, EventsHeldUntilResolved

------------------------------------------------------------------------------
(* OrderPipeline implements OrderLifecycle.                                 *)

\* The status of an order as OrderLifecycle sees it.
Bar(o) == IF orders[o].status = "NONE" THEN "DRAFT" ELSE orders[o].status

LEMMA LifecycleMove ==
  ASSUME IInv, NEW o \in Orders, NEW row, orders' = [orders EXCEPT ![o] = row],
         \/ orders[o].status = "NONE" /\ row.status = "PENDING"
         \/ orders[o].status = "PENDING" /\ row.status \in {"CONFIRMED", "REJECTED"}
  PROVE  Lifecycle!Next
<1>1. /\ orders'[o] = row
      /\ \A p \in Orders \ {o} : orders'[p] = orders[p]
  BY DEF IInv, TypeOK
<1> DEFINE bar == [p \in Orders |-> Bar(p)]
<1>2. bar' = [bar EXCEPT ![o] = row.status]
  <2>1. row.status # "NONE"
    OBVIOUS
  <2>2. \A p \in Orders : Bar(p)' = IF p = o THEN row.status ELSE Bar(p)
    BY <1>1, <2>1 DEF Bar
  <2> QED
    BY <2>2
<1>3. \/ bar[o] = "DRAFT" /\ row.status = "PENDING"
      \/ bar[o] = "PENDING" /\ row.status \in {"CONFIRMED", "REJECTED"}
  BY DEF Bar
<1>4. Lifecycle!Submit(o) \/ Lifecycle!Confirm(o) \/ Lifecycle!Reject(o)
  BY <1>2, <1>3 DEF Lifecycle!Submit, Lifecycle!Confirm, Lifecycle!Reject,
                    Lifecycle!Move, Bar
<1> QED
  BY <1>4 DEF Lifecycle!Next

LEMMA LifecycleStep ==
  ASSUME IInv, [Next]_vars
  PROVE  Lifecycle!Next \/ UNCHANGED orders
<1>1. ASSUME NEW o \in Orders, NEW cart \in Carts, api[o].state = "new", Store(o, cart)
      PROVE  Lifecycle!Next
  BY <1>1, LifecycleMove DEF Store, Stored, IInv, RequestsInv
<1>2. ASSUME NEW o \in Orders, ApiStep(o) PROVE Lifecycle!Next \/ UNCHANGED orders
  BY <1>1, <1>2 DEF ApiStep, RefuseOrder, SaveOrder, SaveFails,
         PublishOrderCreated, PublishPendingSnapshot, PendingTotalThrows,
         PublishThrows, FlushEvent, FlushSnapshot, db
<1>3. ASSUME NEW w \in Workers, worker[w].pc \in {"confirm", "reject"},
             UpdateStatus(w)
      PROVE  Lifecycle!Next
  <2>1. OrderOf(w) \in Orders /\ orders[OrderOf(w)].status = "PENDING"
    BY <1>3, Handling, UpdateStatusTables
  <2> QED
    <3> DEFINE row == [status  |-> Outcome(w),
                       version |-> orders[OrderOf(w)].version + 1,
                       lines   |-> orders[OrderOf(w)].lines]
    <3>1. orders' = [orders EXCEPT ![OrderOf(w)] = row]
      BY <1>3 DEF UpdateStatus
    <3>2. row.status \in {"CONFIRMED", "REJECTED"}
      BY DEF Outcome
    <3> HIDE DEF row
    <3> QED
      BY <2>1, <3>1, <3>2, LifecycleMove
<1>4. ASSUME NEW w \in Workers, Process(w) PROVE Lifecycle!Next \/ UNCHANGED orders
  BY <1>3, <1>4 DEF Process, FindOrder, CheckLine, ReserveLine, Decrement,
         ReserveRefused, Confirm, Reject, LockConflict, PublishSnapshot,
         SnapshotThrows, Ack, HandleFailure, DieOnDeadChannel, db
<1>5. ASSUME NEW w \in Workers, WorkerFault(w)
      PROVE  Lifecycle!Next \/ UNCHANGED orders
  BY <1>3, <1>5 DEF WorkerFault, DbError, Decrement, Crash,
         CrashBetweenPublishAndAck, LoseConnection, LoseSnapshot, LoseAck, db
<1> QED
  BY <1>2, <1>4, <1>5 DEF Next, ApiFault, ApiCrash, ApiLosesConnection, Deliver,
         Restart, ExpireRetry, db, vars

\* Every order lives the lifecycle of domain/Order.js:23-34 in the database:
\* stored as PENDING once, decided at most once, and decided for good.
THEOREM Refinement == Spec => ImplementsLifecycle
<1>1. Init => Lifecycle!Init
  BY DEF Init, Lifecycle!Init, NoOrder
<1>2. IInv /\ [Next]_vars =>
        [Lifecycle!Next]_([o \in Orders |-> IF orders[o].status = "NONE"
                                            THEN "DRAFT" ELSE orders[o].status])
  BY LifecycleStep
<1> QED
  BY <1>1, <1>2, Invariance, PTL DEF Spec, ImplementsLifecycle, Lifecycle!Spec
==============================================================================
