-------------------------- MODULE OrderCopiesProofs --------------------------
(***************************************************************************)
(* Proofs about OrderPipeline that follow the event of an order.  Its copies *)
(* in the queues and in the hands of workers are counted: one, and one more *)
(* for each fault that doubled it.  While nothing fails, an order therefore *)
(* has a single handler at a time, every retry has a reason, and only the   *)
(* first handling takes stock.  While no connection is lost, an order that  *)
(* was answered with 202 is decided or a copy of its event is somewhere.    *)
(***************************************************************************)
EXTENDS OrderPipelineProofs, FiniteSetTheorems

------------------------------------------------------------------------------
(* Messages in queues.                                                      *)

LEMMA QueuedSet ==
  ASSUME NEW o, NEW counts \in [Msg -> Nat]
  PROVE  Queued(o, counts)
           = {x \in Msg \X Nat : x[1].order = o /\ x[2] \in 1..counts[x[1]]}
BY DEF Queued

LEMMA QueuedPut ==
  ASSUME NEW o, NEW counts \in [Msg -> Nat], NEW m \in Msg, IsFiniteSet(Queued(o, counts))
  PROVE  /\ Put(counts, m) \in [Msg -> Nat]
         /\ IsFiniteSet(Queued(o, Put(counts, m)))
         /\ Cardinality(Queued(o, Put(counts, m)))
              = Cardinality(Queued(o, counts)) + (IF m.order = o THEN 1 ELSE 0)
<1> DEFINE more == Put(counts, m)
           x    == <<m, counts[m] + 1>>
<1>1. /\ more \in [Msg -> Nat] /\ counts[m] \in Nat
      /\ more[m] = counts[m] + 1 /\ \A n \in Msg : n # m => more[n] = counts[n]
  BY DEF Put
<1> HIDE DEF more
<1>2. CASE m.order = o
  <2>1. Queued(o, more) = Queued(o, counts) \cup {x}
    BY <1>1, <1>2, QueuedSet
  <2>2. x \notin Queued(o, counts)
    BY <1>1, QueuedSet
  <2> HIDE DEF x
  <2> QED
    BY <1>1, <1>2, <2>1, <2>2, FS_AddElement DEF more
<1>3. CASE m.order # o
  <2>1. Queued(o, more) = Queued(o, counts)
    BY <1>1, <1>3, QueuedSet
  <2>2. Cardinality(Queued(o, counts)) \in Nat
    BY FS_CardinalityType
  <2> QED
    BY <1>1, <1>3, <2>1, <2>2 DEF more
<1> QED
  BY <1>2, <1>3

LEMMA QueuedTake ==
  ASSUME NEW o, NEW counts \in [Msg -> Nat], NEW m \in Msg, counts[m] > 0,
         IsFiniteSet(Queued(o, counts))
  PROVE  /\ IsFiniteSet(Queued(o, Take(counts, m)))
         /\ Cardinality(Queued(o, Take(counts, m)))
              = Cardinality(Queued(o, counts)) - (IF m.order = o THEN 1 ELSE 0)
<1> DEFINE less == Take(counts, m)
           x    == <<m, counts[m]>>
<1>1. /\ less \in [Msg -> Nat] /\ counts[m] \in Nat
      /\ less[m] = counts[m] - 1 /\ \A n \in Msg : n # m => less[n] = counts[n]
  BY DEF Take
<1> HIDE DEF less
<1>2. CASE m.order = o
  <2>1. Queued(o, less) = Queued(o, counts) \ {x}
    BY <1>1, <1>2, QueuedSet
  <2>2. x \in Queued(o, counts)
    BY <1>1, <1>2, QueuedSet
  <2> HIDE DEF x
  <2> QED
    BY <1>1, <1>2, <2>1, <2>2, FS_RemoveElement DEF less
<1>3. CASE m.order # o
  <2>1. Queued(o, less) = Queued(o, counts)
    BY <1>1, <1>3, QueuedSet
  <2>2. Cardinality(Queued(o, counts)) \in Nat
    BY FS_CardinalityType
  <2> QED
    BY <1>1, <1>3, <2>1, <2>2 DEF less
<1> QED
  BY <1>2, <1>3

\* Putting a message into any queue.
LEMMA InQueuesPut ==
  ASSUME IInv, NEW m \in Msg,
         \/ ready' = Put(ready, m) /\ UNCHANGED <<waiting, dead>>
         \/ waiting' = Put(waiting, m) /\ UNCHANGED <<ready, dead>>
         \/ dead' = Put(dead, m) /\ UNCHANGED <<ready, waiting>>
  PROVE  InQueues' = Put(InQueues, m)
<1>1. ready \in [Msg -> Nat] /\ waiting \in [Msg -> Nat] /\ dead \in [Msg -> Nat]
  BY DEF IInv, TypeOK
<1>2. ASSUME NEW n \in Msg PROVE InQueues'[n] = Put(InQueues, m)[n]
  BY <1>1 DEF InQueues, Put
<1>3. InQueues' = [n \in Msg |-> InQueues'[n]] /\ Put(InQueues, m) = [n \in Msg |-> Put(InQueues, m)[n]]
  BY DEF InQueues, Put
<1> QED
  BY <1>2, <1>3

LEMMA InQueuesType ==
  ASSUME IInv
  PROVE  InQueues \in [Msg -> Nat] /\ \A m \in Msg : ready[m] > 0 => InQueues[m] > 0
BY DEF IInv, TypeOK, InQueues

------------------------------------------------------------------------------
(* Messages in hand.                                                        *)

\* A step of the worker w.
LEMMA HoldersChange ==
  ASSUME NEW w \in Workers, \A v \in Workers \ {w} : worker'[v] = worker[v], NEW o
  PROVE  Holders(o)' = IF Holds(w)' /\ OrderOf(w)' = o THEN Holders(o) \cup {w}
                                                       ELSE Holders(o) \ {w}
<1>1. \A v \in Workers \ {w} : v \in Holders(o)' <=> v \in Holders(o)
  BY DEF Holders, Holds, OrderOf
<1>2. w \in Holders(o)' <=> Holds(w)' /\ OrderOf(w)' = o
  BY DEF Holders, Holds, OrderOf
<1>3. Holders(o) \subseteq Workers /\ Holders(o)' \subseteq Workers
  BY DEF Holders
<1> QED
  BY <1>1, <1>2, <1>3

\* The copies of an event.
Copies(o)  == Cardinality(Queued(o, InQueues)) + Cardinality(Holders(o))
Counted(o) == IsFiniteSet(Queued(o, InQueues)) /\ IsFiniteSet(Holders(o))

LEMMA CopiesType ==
  ASSUME NEW o, Counted(o)
  PROVE  /\ Copies(o) \in Nat
         /\ Cardinality(Queued(o, InQueues)) \in Nat
         /\ Cardinality(Holders(o)) \in Nat
         /\ \A w \in Holders(o) : Copies(o) >= 1
<1>1. Cardinality(Queued(o, InQueues)) \in Nat /\ Cardinality(Holders(o)) \in Nat
  BY FS_CardinalityType DEF Counted
<1>2. \A w \in Holders(o) : Cardinality(Holders(o)) # 0
  BY FS_EmptySet DEF Counted
<1> QED
  BY <1>1, <1>2 DEF Copies

\* Letting go of a message.
LEMMA HolderOut ==
  ASSUME NEW o, Counted(o), NEW w \in Workers,
         \A v \in Workers \ {w} : worker'[v] = worker[v], ~Holds(w)'
  PROVE  /\ IsFiniteSet(Holders(o)')
         /\ Cardinality(Holders(o)') \in Nat
         /\ Cardinality(Holders(o)')
              = Cardinality(Holders(o)) - (IF Holds(w) /\ OrderOf(w) = o THEN 1 ELSE 0)
<1>1. Holders(o)' = Holders(o) \ {w}
  BY HoldersChange
<1>2. w \in Holders(o) <=> Holds(w) /\ OrderOf(w) = o
  BY DEF Holders
<1>3. /\ IsFiniteSet(Holders(o) \ {w})
      /\ Cardinality(Holders(o) \ {w})
           = IF w \in Holders(o) THEN Cardinality(Holders(o)) - 1 ELSE Cardinality(Holders(o))
  BY FS_RemoveElement DEF Counted
<1>4. Cardinality(Holders(o)) \in Nat /\ Cardinality(Holders(o)') \in Nat
  BY <1>1, <1>3, FS_CardinalityType DEF Counted
<1> QED
  BY <1>1, <1>2, <1>3, <1>4

\* Keeping it, or having had none.
LEMMA HolderStays ==
  ASSUME NEW w \in Workers, \A v \in Workers \ {w} : worker'[v] = worker[v], NEW o,
         (Holds(w)' /\ OrderOf(w)' = o) <=> (Holds(w) /\ OrderOf(w) = o)
  PROVE  Holders(o)' = Holders(o)
<1>1. w \in Holders(o) <=> Holds(w) /\ OrderOf(w) = o
  BY DEF Holders
<1> QED
  BY <1>1, HoldersChange

------------------------------------------------------------------------------
(* What each kind of step does to the copies of an order's event.           *)

\* No step but the publication of the event adds a copy, unless it doubles one.
Calm(o)    == Counted(o)' /\ Copies(o)' <= Copies(o)
Doubled(o) == Counted(o)' /\ Copies(o)' <= Copies(o) + 1 /\ Copies(o) >= 1

LEMMA Still ==
  ASSUME NEW o, Counted(o), UNCHANGED queues, Holders(o)' = Holders(o)
  PROVE  Calm(o)
<1>1. InQueues' = InQueues
  BY DEF InQueues, queues
<1>2. Copies(o) \in Nat /\ Copies(o)' = Copies(o)
  BY <1>1, CopiesType DEF Copies, Queued
<1> QED
  BY <1>1, <1>2 DEF Calm, Counted, Queued

\* A handler goes on with its message.
LEMMA GoesOn ==
  ASSUME IInv, NEW o, Counted(o), NEW w \in Workers, UNCHANGED queues,
         NEW pc, NEW version, NEW line, NEW short, Go(w, pc, version, line, short)
  PROVE  Calm(o)
<1>1. /\ worker'[w] = State(pc, worker[w].msg, version, line, short, worker[w].live)
      /\ \A v \in Workers \ {w} : worker'[v] = worker[v]
  BY DEF Go, Become, IInv, TypeOK
<1>2. (Holds(w)' /\ OrderOf(w)' = o) <=> (Holds(w) /\ OrderOf(w) = o)
  BY <1>1 DEF Holds, OrderOf, State
<1> QED
  BY <1>1, <1>2, HolderStays, Still

\* A worker lets go of its message, and a copy of it enters a queue, or none.
LEMMA LetGo ==
  ASSUME IInv, NEW o, Counted(o), NEW w \in Workers,
         \A v \in Workers \ {w} : worker'[v] = worker[v], ~Holds(w)',
         \/ UNCHANGED queues
         \/ /\ Holds(w)
            /\ \E c \in Msg : /\ c.order = OrderOf(w)
                              /\ InQueues' = Put(InQueues, c)
  PROVE  Calm(o)
<1>1. /\ IsFiniteSet(Holders(o)')
      /\ Cardinality(Holders(o)') \in Nat
      /\ Cardinality(Holders(o)')
           = Cardinality(Holders(o)) - (IF Holds(w) /\ OrderOf(w) = o THEN 1 ELSE 0)
  BY HolderOut
<1>2. Cardinality(Holders(o)) \in Nat /\ Cardinality(Queued(o, InQueues)) \in Nat
  BY CopiesType
<1>3. CASE UNCHANGED queues
  <2>1. InQueues' = InQueues
    BY <1>3 DEF InQueues, queues
  <2>2. Queued(o, InQueues)' = Queued(o, InQueues)
    BY <2>1 DEF Queued
  <2>3. Cardinality(Holders(o)') <= Cardinality(Holders(o))
    BY <1>1, <1>2
  <2> QED
    BY <1>1, <1>2, <2>2, <2>3 DEF Calm, Copies, Counted
<1>4. ASSUME Holds(w), NEW c \in Msg, c.order = OrderOf(w), InQueues' = Put(InQueues, c)
      PROVE  Calm(o)
  <2>1. Queued(o, InQueues)' = Queued(o, Put(InQueues, c))
    BY <1>4 DEF Queued
  <2>2. /\ IsFiniteSet(Queued(o, Put(InQueues, c)))
        /\ Cardinality(Queued(o, Put(InQueues, c)))
             = Cardinality(Queued(o, InQueues)) + (IF c.order = o THEN 1 ELSE 0)
    BY InQueuesType, QueuedPut DEF Counted
  <2> QED
    BY <1>1, <1>2, <1>4, <2>1, <2>2 DEF Calm, Copies, Counted
<1> QED
  BY <1>3, <1>4

\* A message goes back to the processing queue.
LEMMA RequeueCalm ==
  ASSUME IInv, NEW o, Counted(o), NEW w \in Workers, Requeue(w),
         UNCHANGED <<waiting, dead>>, NEW r, Become(w, r), r.msg = NoMsg \/ ~r.live
  PROVE  Calm(o)
<1>1. worker'[w] = r /\ \A v \in Workers \ {w} : worker'[v] = worker[v]
  BY DEF Become, IInv, TypeOK
<1>2. ~Holds(w)'
  BY <1>1 DEF Holds
<1>3. CASE Holds(w)
  <2>1. worker[w].msg \in Msg /\ worker[w].msg.order = OrderOf(w)
    BY <1>3 DEF Holds, OrderOf, IInv, TypeOK, WorkerState
  <2>2. ready' = Put(ready, worker[w].msg)
    BY <1>3 DEF Requeue
  <2>3. InQueues' = Put(InQueues, worker[w].msg)
    BY <2>1, <2>2, InQueuesPut
  <2> QED
    BY <1>1, <1>2, <1>3, <2>1, <2>3, LetGo
<1>4. CASE ~Holds(w)
  BY <1>1, <1>2, <1>4, LetGo DEF Requeue, queues
<1> QED
  BY <1>3, <1>4

\* The copy that handleFailure publishes.
LEMMA ResendPuts ==
  ASSUME NEW m \in Msg, Resend(m)
  PROVE  \E c \in Msg :
           /\ c.order = m.order
           /\ \/ waiting' = Put(waiting, c) /\ UNCHANGED dead
              \/ dead' = Put(dead, c) /\ UNCHANGED waiting
<1>1. CASE m.retry >= MaxAttempts
  BY <1>1 DEF Resend, DecideRetry
<1>2. CASE ~(m.retry >= MaxAttempts)
  <2> DEFINE copy == [order |-> m.order, retry |-> m.retry + 1]
  <2>1. waiting' = Put(waiting, copy) /\ UNCHANGED dead
    BY <1>2 DEF Resend, DecideRetry
  <2>2. copy \in Msg /\ copy.order = m.order
    BY <1>2, PipelineAssumption DEF Msg
  <2> QED
    BY <2>1, <2>2
<1> QED
  BY <1>1, <1>2

LEMMA HandleFailureCalm ==
  ASSUME IInv, NEW o, Counted(o), NEW w \in Workers, HandleFailure(w)
  PROVE  Calm(o)
<1>1. worker[w].pc = "fail" /\ worker[w].live /\ Resend(worker[w].msg) /\ Become(w, Idle)
      /\ UNCHANGED ready
  BY DEF HandleFailure
<1>2. worker[w].msg \in Msg /\ Holds(w) /\ worker[w].msg.order = OrderOf(w)
  BY <1>1, Handling DEF Holds, OrderOf
<1>3. worker'[w] = Idle /\ \A v \in Workers \ {w} : worker'[v] = worker[v]
  BY <1>1 DEF Become, IInv, TypeOK
<1>4. ~Holds(w)'
  BY <1>3 DEF Holds, Idle, State
<1>5. \E c \in Msg : c.order = OrderOf(w) /\ InQueues' = Put(InQueues, c)
  BY <1>1, <1>2, ResendPuts, InQueuesPut
<1> QED
  BY <1>2, <1>3, <1>4, <1>5, LetGo

\* The message goes back although its copy has been published.
LEMMA RequeueDoubles ==
  ASSUME IInv, NEW o, Counted(o), NEW w \in Workers, worker[w].pc = "fail",
         worker[w].live, Requeue(w), Resend(worker[w].msg),
         NEW r \in {Deaf, Down}, Become(w, r)
  PROVE  Calm(o) \/ Doubled(o)
<1> DEFINE m == worker[w].msg
<1>1. m \in Msg /\ Holds(w) /\ m.order = OrderOf(w)
  BY Handling DEF Holds, OrderOf
<1>2. worker'[w] = r /\ \A v \in Workers \ {w} : worker'[v] = worker[v]
  BY DEF Become, IInv, TypeOK
<1>3. ~Holds(w)'
  BY <1>2 DEF Holds, Deaf, Down, State
<1>4. ready' = Put(ready, m)
  BY <1>1 DEF Requeue
<1> HIDE DEF m
<1>5. PICK c \in Msg :
        /\ c.order = m.order
        /\ \/ waiting' = Put(waiting, c) /\ UNCHANGED dead
           \/ dead' = Put(dead, c) /\ UNCHANGED waiting
  BY <1>1, ResendPuts DEF m
<1> DEFINE once == Put(InQueues, m)
<1>6. InQueues \in [Msg -> Nat] /\ once \in [Msg -> Nat]
  BY <1>1, InQueuesType DEF Put
<1>7. InQueues' = Put(once, c)
  <2>1. ready \in [Msg -> Nat] /\ waiting \in [Msg -> Nat] /\ dead \in [Msg -> Nat]
    BY DEF IInv, TypeOK
  <2>2. ASSUME NEW n \in Msg PROVE InQueues'[n] = Put(once, c)[n]
    <3>1. ready[n] \in Nat /\ waiting[n] \in Nat /\ dead[n] \in Nat
      BY <2>1
    <3>2. once[n] = ready[n] + waiting[n] + dead[n] + (IF n = m THEN 1 ELSE 0)
      BY <1>1, <3>1 DEF InQueues, Put
    <3>3. Put(once, c)[n] = once[n] + (IF n = c THEN 1 ELSE 0)
      BY <1>5, <1>6, <3>1, <3>2 DEF Put
    <3>4. ready'[n] = ready[n] + (IF n = m THEN 1 ELSE 0)
      BY <1>1, <1>4, <2>1, <3>1 DEF Put
    <3>5. waiting'[n] + dead'[n] = waiting[n] + dead[n] + (IF n = c THEN 1 ELSE 0)
      BY <1>5, <2>1, <3>1 DEF Put
    <3>6. InQueues'[n] = ready'[n] + waiting'[n] + dead'[n]
      BY DEF InQueues
    <3>7. waiting'[n] \in Nat /\ dead'[n] \in Nat
      BY <1>5, <2>1, <3>1 DEF Put
    <3> HIDE DEF once
    <3> QED
      BY <3>1, <3>2, <3>3, <3>4, <3>5, <3>6, <3>7
  <2>3. InQueues' = [n \in Msg |-> InQueues'[n]] /\ Put(once, c) = [n \in Msg |-> Put(once, c)[n]]
    BY DEF InQueues, Put
  <2> QED
    BY <2>2, <2>3
<1>8. /\ IsFiniteSet(Queued(o, once))
      /\ Cardinality(Queued(o, once))
           = Cardinality(Queued(o, InQueues)) + (IF m.order = o THEN 1 ELSE 0)
  BY <1>1, <1>6, QueuedPut DEF Counted
<1> HIDE DEF once
<1>9. /\ IsFiniteSet(Queued(o, Put(once, c)))
      /\ Cardinality(Queued(o, Put(once, c)))
           = Cardinality(Queued(o, once)) + (IF c.order = o THEN 1 ELSE 0)
  BY <1>6, <1>8, QueuedPut
<1>10. /\ IsFiniteSet(Holders(o)')
       /\ Cardinality(Holders(o)') \in Nat
       /\ Cardinality(Holders(o)')
            = Cardinality(Holders(o)) - (IF Holds(w) /\ OrderOf(w) = o THEN 1 ELSE 0)
  BY <1>2, <1>3, HolderOut
<1>11. Queued(o, InQueues)' = Queued(o, Put(once, c))
  BY <1>7 DEF Queued
<1>12. Cardinality(Holders(o)) \in Nat /\ Cardinality(Queued(o, InQueues)) \in Nat
  BY CopiesType
<1>13. CASE OrderOf(w) = o
  <2>1. w \in Holders(o)
    BY <1>1, <1>13 DEF Holders
  <2>2. Copies(o) >= 1
    BY <2>1, CopiesType
  <2> QED
    BY <1>1, <1>5, <1>8, <1>9, <1>10, <1>11, <1>12, <1>13, <2>2 DEF Doubled, Counted, Copies
<1>14. CASE OrderOf(w) # o
  BY <1>1, <1>5, <1>8, <1>9, <1>10, <1>11, <1>12, <1>14 DEF Calm, Counted, Copies
<1> QED
  BY <1>13, <1>14

\* The broker hands a message to a worker.
LEMMA DeliverCalm ==
  ASSUME IInv, NEW o, Counted(o), NEW w \in Workers, NEW m \in Msg, Deliver(w, m)
  PROVE  Calm(o)
<1>1. /\ worker[w] = Idle /\ ready[m] > 0 /\ ready' = Take(ready, m)
      /\ UNCHANGED <<waiting, dead>>
      /\ worker'[w] = Begin(m) /\ \A v \in Workers \ {w} : worker'[v] = worker[v]
  BY DEF Deliver, Become, IInv, TypeOK
<1>2. ready \in [Msg -> Nat] /\ waiting \in [Msg -> Nat] /\ dead \in [Msg -> Nat]
  BY DEF IInv, TypeOK
<1>3. InQueues' = Take(InQueues, m)
  <2>1. ASSUME NEW n \in Msg PROVE InQueues'[n] = Take(InQueues, m)[n]
    BY <1>1, <1>2 DEF InQueues, Take
  <2>2. InQueues' = [n \in Msg |-> InQueues'[n]]
        /\ Take(InQueues, m) = [n \in Msg |-> Take(InQueues, m)[n]]
    BY DEF InQueues, Take
  <2> QED
    BY <2>1, <2>2
<1>4. InQueues \in [Msg -> Nat] /\ InQueues[m] > 0
  BY <1>1, InQueuesType
<1>5. /\ IsFiniteSet(Queued(o, Take(InQueues, m)))
      /\ Cardinality(Queued(o, Take(InQueues, m)))
           = Cardinality(Queued(o, InQueues)) - (IF m.order = o THEN 1 ELSE 0)
  BY <1>4, QueuedTake DEF Counted
<1>6. Queued(o, InQueues)' = Queued(o, Take(InQueues, m))
  BY <1>3 DEF Queued
<1>7. Holds(w)' /\ OrderOf(w)' = m.order /\ w \notin Holders(o)
  BY <1>1, PipelineAssumption DEF Holds, OrderOf, Begin, State, Msg, Holders, Idle
<1>8. Holders(o)' = IF m.order = o THEN Holders(o) \cup {w} ELSE Holders(o)
  BY <1>1, <1>7, HoldersChange
<1>9. /\ IsFiniteSet(Holders(o) \cup {w})
      /\ Cardinality(Holders(o) \cup {w}) = Cardinality(Holders(o)) + 1
  BY <1>7, FS_AddElement DEF Counted
<1>10. Cardinality(Holders(o)) \in Nat /\ Cardinality(Queued(o, InQueues)) \in Nat
  BY CopiesType
<1>11. CASE m.order = o
  BY <1>5, <1>6, <1>8, <1>9, <1>10, <1>11 DEF Calm, Counted, Copies
<1>12. CASE m.order # o
  BY <1>5, <1>6, <1>8, <1>10, <1>12 DEF Calm, Counted, Copies
<1> QED
  BY <1>11, <1>12

\* The steps of workers when nothing fails, and a restart.
LEMMA ProcessCalm ==
  ASSUME IInv, NEW o, Counted(o), NEW w \in Workers, Process(w) \/ Restart(w)
  PROVE  Calm(o)
<1>1. CASE FindOrder(w)
  BY <1>1, GoesOn DEF FindOrder, Leave, queues
<1>2. CASE CheckLine(w)
  BY <1>2, GoesOn DEF CheckLine
<1>3. CASE ReserveLine(w)
  BY <1>3, GoesOn DEF ReserveLine
<1>4. CASE ReserveRefused(w) \/ LockConflict(w) \/ SnapshotThrows(w)
  BY <1>4, GoesOn DEF ReserveRefused, LockConflict, SnapshotThrows, Leave
<1>5. CASE Confirm(w) \/ Reject(w)
  BY <1>5, GoesOn DEF Confirm, Reject
<1>6. CASE PublishSnapshot(w)
  BY <1>6, GoesOn DEF PublishSnapshot, Leave
<1>7. CASE Ack(w) \/ DieOnDeadChannel(w) \/ Restart(w)
  <2>1. (Become(w, Idle) \/ Become(w, Down)) /\ UNCHANGED queues
    BY <1>7 DEF Ack, DieOnDeadChannel, Restart
  <2>2. ~Holds(w)' /\ \A v \in Workers \ {w} : worker'[v] = worker[v]
    BY <2>1 DEF Become, IInv, TypeOK, Holds, Idle, Down, State
  <2> QED
    BY <2>1, <2>2, LetGo
<1>8. CASE HandleFailure(w)
  BY <1>8, HandleFailureCalm
<1> QED
  BY <1>1, <1>2, <1>3, <1>4, <1>5, <1>6, <1>7, <1>8 DEF Process

\* Faults that separate a publication from its acknowledgement double a copy.
LEMMA FaultDoubles ==
  ASSUME IInv, NEW o, Counted(o), NEW w \in Workers, WorkerFault(w)
  PROVE  \/ Calm(o)
         \/ Doubled(o) /\ UNCHANGED api /\ (Suffer("crash") \/ Suffer("conn"))
<1>1. CASE DbError(w)
  BY <1>1, GoesOn DEF DbError, Leave
<1>2. CASE Crash(w)
  <2>1. Down.msg = NoMsg
    BY DEF Down, State
  <2> QED
    BY <1>2, <2>1, RequeueCalm DEF Crash
<1>3. CASE CrashBetweenPublishAndAck(w)
  BY <1>3, RequeueDoubles DEF CrashBetweenPublishAndAck
<1>4. CASE LoseConnection(w)
  <2> DEFINE r == [worker[w] EXCEPT !.live = FALSE]
  <2>1. worker[w] \in WorkerState
    BY DEF IInv, TypeOK
  <2>2. ~r.live
    BY <2>1 DEF WorkerState
  <2>3. Requeue(w) /\ Become(w, r) /\ UNCHANGED <<waiting, dead>>
    BY <1>4 DEF LoseConnection
  <2> HIDE DEF r
  <2> QED
    BY <2>2, <2>3, RequeueCalm
<1>5. CASE LoseSnapshot(w)
  <2> DEFINE r == State("ack", worker[w].msg, 0, 1, FALSE, FALSE)
  <2>1. ~r.live /\ Deaf.msg = NoMsg
    BY DEF Deaf, State
  <2>2. /\ Requeue(w) /\ UNCHANGED <<waiting, dead>>
        /\ Become(w, r) \/ Become(w, Deaf)
    BY <1>5 DEF LoseSnapshot
  <2> HIDE DEF r
  <2> QED
    BY <2>1, <2>2, RequeueCalm
<1>6. CASE LoseAck(w)
  <2>1. Deaf.msg = NoMsg
    BY DEF Deaf, State
  <2>2. CASE UNCHANGED <<waiting, dead>>
    BY <1>6, <2>1, <2>2, RequeueCalm DEF LoseAck
  <2>3. CASE worker[w].pc = "fail" /\ Resend(worker[w].msg)
    BY <1>6, <2>3, RequeueDoubles DEF LoseAck
  <2> QED
    BY <1>6, <2>2, <2>3 DEF LoseAck
<1> QED
  BY <1>1, <1>2, <1>3, <1>4, <1>5, <1>6 DEF WorkerFault

\* A message whose TTL has run out changes queues.
LEMMA ExpireRetryCalm ==
  ASSUME IInv, NEW o, Counted(o), NEW m \in Msg, ExpireRetry(m)
  PROVE  Calm(o)
<1>1. /\ waiting[m] > 0 /\ waiting' = Take(waiting, m) /\ ready' = Put(ready, m)
      /\ UNCHANGED <<dead, worker>>
  BY DEF ExpireRetry
<1>2. ready \in [Msg -> Nat] /\ waiting \in [Msg -> Nat] /\ dead \in [Msg -> Nat]
  BY DEF IInv, TypeOK
<1>3. ASSUME NEW n \in Msg PROVE InQueues'[n] = InQueues[n]
  BY <1>1, <1>2 DEF InQueues, Put, Take
<1>4. InQueues' = [n \in Msg |-> InQueues'[n]] /\ InQueues = [n \in Msg |-> InQueues[n]]
  BY DEF InQueues
<1>5. InQueues' = InQueues
  BY <1>3, <1>4
<1>6. Queued(o, InQueues)' = Queued(o, InQueues) /\ Holders(o)' = Holders(o)
  BY <1>1, <1>5 DEF Queued, Holders, Holds, OrderOf
<1>7. Copies(o) \in Nat
  BY CopiesType
<1> QED
  BY <1>6, <1>7 DEF Calm, Counted, Copies

\* The event that leaves the API's buffer is its first copy.
LEMMA PublishCounts ==
  ASSUME IInv, NEW o, Counted(o), NEW p \in Orders, FlushEvent(p)
  PROVE  Counted(o)' /\ Copies(o)' = Copies(o) + (IF p = o THEN 1 ELSE 0)
<1> DEFINE m == [order |-> p, retry |-> 0]
<1>1. m \in Msg /\ m.order = p
  BY PipelineAssumption DEF Msg
<1>2. ready' = Put(ready, m) /\ UNCHANGED <<waiting, dead, worker>>
  BY DEF FlushEvent
<1> HIDE DEF m
<1>3. InQueues' = Put(InQueues, m)
  BY <1>1, <1>2, InQueuesPut
<1>4. /\ IsFiniteSet(Queued(o, Put(InQueues, m)))
      /\ Cardinality(Queued(o, Put(InQueues, m)))
           = Cardinality(Queued(o, InQueues)) + (IF m.order = o THEN 1 ELSE 0)
  BY <1>1, InQueuesType, QueuedPut DEF Counted
<1>5. Queued(o, InQueues)' = Queued(o, Put(InQueues, m)) /\ Holders(o)' = Holders(o)
  BY <1>2, <1>3 DEF Queued, Holders, Holds, OrderOf
<1>6. Cardinality(Holders(o)) \in Nat /\ Cardinality(Queued(o, InQueues)) \in Nat
  BY CopiesType
<1> QED
  BY <1>1, <1>4, <1>5, <1>6 DEF Counted, Copies

------------------------------------------------------------------------------
(* The bound.                                                               *)

\* The faults so far that may have doubled a copy.
Doublings == FaultBudget["crash"] - faults["crash"] + FaultBudget["conn"] - faults["conn"]

Published(o) == api[o].event = "sent"

\* Before the broker has the event of an order there is no copy of it at all.
CopiesInv ==
  /\ \A kind \in Faults : faults[kind] <= FaultBudget[kind]
  /\ \A o \in Orders :
       Counted(o) /\ Copies(o) <= IF Published(o) THEN 1 + Doublings ELSE 0

\* A budget is spent, and never refilled.
Spends == UNCHANGED faults \/ Suffer("crash") \/ Suffer("db") \/ Suffer("conn")

LEMMA FaultsSpent ==
  ASSUME IInv, [Next]_vars
  PROVE  Spends
<1> USE DEF Spends
<1>1. ASSUME NEW o \in Orders, ApiStep(o)
      PROVE  UNCHANGED faults \/ Suffer("db") \/ Suffer("conn")
  BY <1>1 DEF ApiStep, RefuseOrder, SaveOrder, SaveFails, PublishOrderCreated,
              PublishPendingSnapshot, PendingTotalThrows, PublishThrows, FlushEvent,
              FlushSnapshot
<1>2. ASSUME NEW w \in Workers, Process(w) PROVE UNCHANGED faults
  BY <1>2 DEF Process, FindOrder, CheckLine, ReserveLine, ReserveRefused, Confirm,
              Reject, LockConflict, PublishSnapshot, SnapshotThrows, Ack,
              HandleFailure, DieOnDeadChannel
<1>3. ASSUME NEW w \in Workers, WorkerFault(w)
      PROVE  Suffer("crash") \/ Suffer("db") \/ Suffer("conn")
  BY <1>3 DEF WorkerFault, DbError, Crash, CrashBetweenPublishAndAck,
              LoseConnection, LoseSnapshot, LoseAck
<1>4. CASE UNCHANGED vars
  BY <1>4 DEF vars
<1>5. ASSUME ApiFault \/ (\E w \in Workers, m \in Msg : Deliver(w, m))
             \/ (\E w \in Workers : Restart(w)) \/ (\E m \in Msg : ExpireRetry(m))
      PROVE  UNCHANGED faults \/ Suffer("crash") \/ Suffer("conn")
  BY <1>5 DEF ApiFault, ApiCrash, ApiLosesConnection, Deliver, Restart, ExpireRetry
<1> QED
  BY <1>1, <1>2, <1>3, <1>4, <1>5 DEF Next

LEMMA SpendingCounts ==
  ASSUME IInv, NEW kind \in Faults, Suffer(kind)
  PROVE  /\ \A k \in Faults : faults'[k] = IF k = kind THEN faults[k] - 1 ELSE faults[k]
         /\ Doublings' = IF kind = "db" THEN Doublings ELSE Doublings + 1
<1>1. faults \in [Faults -> Nat] /\ FaultBudget \in [Faults -> Nat]
  BY PipelineAssumption DEF IInv, TypeOK
<1>2. \A k \in Faults : faults'[k] = IF k = kind THEN faults[k] - 1 ELSE faults[k]
  BY <1>1 DEF Suffer
<1>3. /\ "crash" \in Faults /\ "conn" \in Faults
      /\ kind = "crash" \/ kind = "conn" \/ kind = "db"
  BY DEF Faults
<1>4. /\ FaultBudget["crash"] \in Nat /\ FaultBudget["conn"] \in Nat
      /\ faults["crash"] \in Nat /\ faults["conn"] \in Nat
  BY <1>1, <1>3
<1>5. /\ faults'["crash"] = IF kind = "crash" THEN faults["crash"] - 1 ELSE faults["crash"]
      /\ faults'["conn"] = IF kind = "conn" THEN faults["conn"] - 1 ELSE faults["conn"]
  BY <1>2, <1>3
<1> QED
  BY <1>2, <1>3, <1>4, <1>5 DEF Doublings

\* Requests are answered by nobody else.
LEMMA ApiMoves ==
  ASSUME [Next]_vars
  PROVE  UNCHANGED api \/ ApiFault \/ \E o \in Orders : ApiStep(o)
<1>1. ASSUME NEW w \in Workers, Process(w) PROVE UNCHANGED api
  BY <1>1 DEF Process, FindOrder, CheckLine, ReserveLine, ReserveRefused, Confirm,
              Reject, LockConflict, PublishSnapshot, SnapshotThrows, Ack,
              HandleFailure, DieOnDeadChannel
<1>2. ASSUME NEW w \in Workers, WorkerFault(w) PROVE UNCHANGED api
  BY <1>2 DEF WorkerFault, DbError, Crash, CrashBetweenPublishAndAck,
              LoseConnection, LoseSnapshot, LoseAck
<1>3. ASSUME UNCHANGED vars \/ (\E w \in Workers, m \in Msg : Deliver(w, m))
             \/ (\E w \in Workers : Restart(w)) \/ (\E m \in Msg : ExpireRetry(m))
      PROVE  UNCHANGED api
  BY <1>3 DEF vars, Deliver, Restart, ExpireRetry
<1> QED
  BY <1>1, <1>2, <1>3 DEF Next

\* The way of the event and of the snapshot of a request: into the buffer, and
\* out of it to the broker, or lost in it.
Moves(old, new) ==
  \/ new = old
  \/ old = "none" /\ new = "buffered"
  \/ old = "buffered" /\ new = "lost" /\ (Suffer("crash") \/ Suffer("conn"))

LEMMA LosingMoves ==
  ASSUME NEW stage \in Stages, Suffer("crash") \/ Suffer("conn")
  PROVE  Moves(stage, Unsent(stage)) /\ Moves(stage, stage)
BY UnsentStage DEF Moves

LEMMA EventMoves ==
  ASSUME IInv, [Next]_vars, NEW o \in Orders
  PROVE  FlushEvent(o) \/ Moves(api[o].event, api'[o].event)
<1>1. /\ api \in [Orders -> Requests] /\ InStep(api[o])
      /\ api[o].event \in Stages /\ api[o].snapshot \in Stages
      /\ api[o].state \in Handlers
  BY DEF IInv, TypeOK, RequestsInv, Requests
<1>2. ASSUME NEW p \in Orders, ApiStep(p)
      PROVE  FlushEvent(o) \/ Moves(api[o].event, api'[o].event)
  <2>1. ASSUME NEW answer, Answer(p, answer) PROVE api'[o].event = api[o].event
    BY <1>1, <2>1 DEF Answer, Request
  <2>2. CASE RefuseOrder(p) \/ SaveOrder(p) \/ SaveFails(p) \/ PendingTotalThrows(p)
    BY <2>1, <2>2 DEF RefuseOrder, SaveOrder, SaveFails, PendingTotalThrows, Moves
  <2>3. CASE PublishOrderCreated(p)
    BY <1>1, <2>3 DEF PublishOrderCreated, InStep, Request, Moves
  <2>4. CASE PublishPendingSnapshot(p) \/ FlushSnapshot(p) \/ FlushEvent(p)
    BY <1>1, <2>4 DEF PublishPendingSnapshot, FlushSnapshot, FlushEvent, Request, Moves
  <2>5. CASE PublishThrows(p)
    <3>1. PICK requests \in {api, BufferLost} :
            api' = [requests EXCEPT ![p] = Request("failed", @.event, @.snapshot)]
      BY <2>5 DEF PublishThrows
    <3>2. requests \in [Orders -> Requests]
      BY <1>1, <3>1, BufferLostIs
    <3>3. api'[o].event = requests[o].event
      BY <3>1, <3>2 DEF Request
    <3>4. requests[o].event \in {api[o].event, Unsent(api[o].event)}
      BY <3>1, BufferLostIs
    <3> QED
      BY <1>1, <2>5, <3>3, <3>4, LosingMoves DEF PublishThrows
  <2> QED
    BY <1>2, <2>2, <2>3, <2>4, <2>5 DEF ApiStep
<1>3. CASE ApiFault
  BY <1>1, <1>3, ApiFaultRequests, LosingMoves DEF ApiFault, ApiCrash, ApiLosesConnection
<1>4. CASE UNCHANGED api
  BY <1>4 DEF Moves
<1> QED
  BY <1>2, <1>3, <1>4, ApiMoves

\* What the broker has it had from the buffer.
LEMMA StaysPublished ==
  ASSUME IInv, [Next]_vars, NEW o \in Orders, Published(o)
  PROVE  Published(o)'
BY EventMoves DEF Published, FlushEvent, Moves

\* The three things a step can do to the copies of an order's event.
LEMMA StepCopies ==
  ASSUME IInv, [Next]_vars, NEW o \in Orders, Counted(o)
  PROVE  \/ Calm(o)
         \/ Doubled(o) /\ UNCHANGED api /\ (Suffer("crash") \/ Suffer("conn"))
         \/ /\ Counted(o)' /\ Copies(o)' = Copies(o) + 1
            /\ ~Published(o) /\ Published(o)' /\ UNCHANGED faults
<1>1. ASSUME NEW p \in Orders, FlushEvent(p)
      PROVE  \/ Calm(o)
             \/ /\ Counted(o)' /\ Copies(o)' = Copies(o) + 1
                /\ ~Published(o) /\ Published(o)' /\ UNCHANGED faults
  <2>1. Counted(o)' /\ Copies(o)' = Copies(o) + (IF p = o THEN 1 ELSE 0)
    BY <1>1, PublishCounts
  <2>2. Copies(o) \in Nat
    BY CopiesType
  <2>3. ~Published(p) /\ Published(p)' /\ UNCHANGED faults
    BY <1>1 DEF FlushEvent, Published, Request, IInv, TypeOK
  <2> QED
    BY <2>1, <2>2, <2>3 DEF Calm
<1>2. ASSUME UNCHANGED <<queues, worker>> PROVE Calm(o)
  BY <1>2, Still DEF Holders, Holds, OrderOf
<1>3. ASSUME NEW p \in Orders, ApiStep(p), ~FlushEvent(p)
      PROVE  UNCHANGED <<queues, worker>>
  BY <1>3 DEF ApiStep, RefuseOrder, SaveOrder, SaveFails, PublishOrderCreated,
              PublishPendingSnapshot, PendingTotalThrows, PublishThrows, FlushSnapshot
<1>4. ASSUME ApiFault \/ UNCHANGED vars PROVE UNCHANGED <<queues, worker>>
  BY <1>4 DEF ApiFault, ApiCrash, ApiLosesConnection, vars, queues
<1>5. ASSUME NEW w \in Workers, Process(w) \/ Restart(w) PROVE Calm(o)
  BY <1>5, ProcessCalm
<1>6. ASSUME NEW w \in Workers, WorkerFault(w)
      PROVE  \/ Calm(o)
             \/ Doubled(o) /\ UNCHANGED api /\ (Suffer("crash") \/ Suffer("conn"))
  BY <1>6, FaultDoubles
<1>7. ASSUME NEW w \in Workers, NEW m \in Msg, Deliver(w, m) PROVE Calm(o)
  BY <1>7, DeliverCalm
<1>8. ASSUME NEW m \in Msg, ExpireRetry(m) PROVE Calm(o)
  BY <1>8, ExpireRetryCalm
<1> QED
  BY <1>1, <1>2, <1>3, <1>4, <1>5, <1>6, <1>7, <1>8 DEF Next

LEMMA InitCopies == Init => CopiesInv
<1> SUFFICES ASSUME Init PROVE CopiesInv
  OBVIOUS
<1>1. faults = FaultBudget /\ FaultBudget \in [Faults -> Nat]
  BY PipelineAssumption DEF Init
<1>2. \A kind \in Faults : faults[kind] <= FaultBudget[kind]
  BY <1>1
<1>3. ASSUME NEW o \in Orders PROVE Counted(o) /\ Copies(o) = 0
  <2>1. Queued(o, InQueues) = {}
    <3>1. \A m \in Msg : InQueues[m] = 0
      BY DEF Init, InQueues
    <3>2. \A m \in Msg : 1..InQueues[m] = {}
      BY <3>1
    <3> QED
      BY <3>2 DEF Queued
  <2>2. Holders(o) = {}
    BY DEF Init, Holders, Holds, Idle, State
  <2> QED
    BY <2>1, <2>2, FS_EmptySet DEF Counted, Copies
<1>4. ASSUME NEW o \in Orders PROVE ~Published(o)
  BY DEF Init, Published, Request
<1> QED
  BY <1>2, <1>3, <1>4 DEF CopiesInv

LEMMA NextCopies ==
  ASSUME IInv, [Next]_vars, CopiesInv
  PROVE  CopiesInv'
<1>1. faults \in [Faults -> Nat] /\ FaultBudget \in [Faults -> Nat]
      /\ "crash" \in Faults /\ "conn" \in Faults /\ "db" \in Faults
  BY PipelineAssumption DEF IInv, TypeOK, Faults
<1>2. Doublings \in Int
  BY <1>1 DEF Doublings
<1>3. Doublings' \in Int /\ Doublings' >= Doublings
  BY <1>1, <1>2, FaultsSpent, SpendingCounts DEF Doublings, Spends
<1>4. \A kind \in Faults : faults'[kind] <= FaultBudget[kind]
  <2>1. \A kind \in Faults : faults'[kind] <= faults[kind] /\ faults'[kind] \in Int
    BY <1>1, FaultsSpent, SpendingCounts DEF Spends
  <2> QED
    BY <1>1, <2>1 DEF CopiesInv
<1>5. ASSUME NEW o \in Orders
      PROVE  Counted(o)' /\ Copies(o)' <= IF Published(o)' THEN 1 + Doublings' ELSE 0
  <2>1. Counted(o) /\ Copies(o) <= IF Published(o) THEN 1 + Doublings ELSE 0
    BY DEF CopiesInv
  <2>2. Copies(o) \in Nat
    BY <2>1, CopiesType
  <2>3. Published(o) => Published(o)'
    BY StaysPublished
  <2>4. Doublings >= 0
    BY <1>1 DEF CopiesInv, Doublings
  <2>5. CASE Calm(o)
    <3>1. Copies(o)' \in Nat
      BY <2>5, FS_CardinalityType DEF Calm, Counted, Copies
    <3> QED
      BY <1>2, <1>3, <2>1, <2>2, <2>3, <2>4, <2>5, <3>1 DEF Calm
  <2>6. CASE Doubled(o) /\ UNCHANGED api /\ (Suffer("crash") \/ Suffer("conn"))
    <3>1. Doublings' = Doublings + 1
      BY <1>1, <2>6, SpendingCounts
    <3>2. Published(o)
      BY <2>1, <2>2, <2>6 DEF Doubled
    <3>3. Copies(o)' \in Nat
      BY <2>6, FS_CardinalityType DEF Doubled, Counted, Copies
    <3> QED
      BY <1>2, <2>1, <2>2, <2>3, <2>6, <3>1, <3>2, <3>3 DEF Doubled
  <2>7. CASE /\ Counted(o)' /\ Copies(o)' = Copies(o) + 1
             /\ ~Published(o) /\ Published(o)' /\ UNCHANGED faults
    BY <1>2, <1>3, <2>1, <2>2, <2>4, <2>7
  <2> QED
    BY <2>1, <2>5, <2>6, <2>7, StepCopies
<1> QED
  BY <1>4, <1>5 DEF CopiesInv

\* What is counted: retries, redeliveries and the way from queue to queue keep
\* the number of copies, and only a crash or a lost connection between publish
\* and ack adds one (worker.js:82-123).
THEOREM CopiesInvariance == Spec => [](IInv /\ CopiesInv)
<1>1. Init => IInv /\ CopiesInv
  BY InitIInv, InitCopies
<1>2. (IInv /\ CopiesInv) /\ [Next]_vars => (IInv /\ CopiesInv)'
  BY NextIInv, NextCopies
<1> QED
  BY <1>1, <1>2, PTL DEF Spec

LEMMA CopiesSuffice == IInv /\ CopiesInv => CopiesBounded
<1> SUFFICES ASSUME IInv, CopiesInv, NEW o \in Orders
             PROVE  Copies(o) <= 1 + (FaultBudget["crash"] - faults["crash"])
                                   + (FaultBudget["conn"] - faults["conn"])
  BY DEF CopiesBounded, Copies, Suffered
<1>1. /\ faults["crash"] \in Nat /\ FaultBudget["crash"] \in Nat
      /\ faults["conn"] \in Nat /\ FaultBudget["conn"] \in Nat
      /\ faults["crash"] <= FaultBudget["crash"] /\ faults["conn"] <= FaultBudget["conn"]
  BY PipelineAssumption DEF IInv, TypeOK, Faults, CopiesInv
<1>2. Counted(o) /\ Copies(o) <= IF Published(o) THEN 1 + Doublings ELSE 0
  BY DEF CopiesInv
<1>3. Copies(o) \in Nat
  BY <1>2, CopiesType
<1> QED
  BY <1>1, <1>2, <1>3 DEF Doublings

\* An order's event is there once, and once more for each crash and each lost
\* connection at most: the publications of handleFailure and the redeliveries
\* of the broker do not multiply it (worker.js:105-123).
THEOREM CopiesAreBounded == Spec => []CopiesBounded
BY CopiesInvariance, CopiesSuffice, PTL

------------------------------------------------------------------------------
(* While nothing fails.                                                     *)

FaultFree == faults = FaultBudget /\ IInv /\ CopiesInv /\ FaultFreeInv

\* Nothing has failed before if nothing has failed after.
LEMMA NoFaultYet ==
  ASSUME IInv, CopiesInv, Spends, faults' = FaultBudget
  PROVE  faults = FaultBudget /\ \A kind \in Faults : ~Suffer(kind)
<1>1. ASSUME NEW kind \in Faults, Suffer(kind) PROVE FALSE
  <2>1. faults'[kind] = faults[kind] - 1
    BY <1>1, SpendingCounts
  <2>2. faults[kind] <= FaultBudget[kind] /\ faults[kind] \in Nat /\ FaultBudget[kind] \in Nat
    BY PipelineAssumption DEF CopiesInv, IInv, TypeOK
  <2> QED
    BY <2>1, <2>2
<1>2. UNCHANGED faults
  BY <1>1 DEF Spends, Faults
<1> QED
  BY <1>1, <1>2

\* A worker that works on a message holds it, and that is the only copy.
LEMMA SoleCopy ==
  ASSUME FaultFree, NEW w \in Workers, worker[w].pc \notin {"down", "idle"}
  PROVE  /\ Holders(OrderOf(w)) = {w}
         /\ Published(OrderOf(w))
         /\ \A m \in Msg : m.order = OrderOf(w) => InQueues[m] = 0
<1>1. PICK o \in Orders : o = OrderOf(w)
  BY Handling DEF FaultFree
<1>2. worker[w].live /\ worker[w].msg # NoMsg
  BY Handling DEF FaultFree, FaultFreeInv, UndisturbedInv
<1>3. w \in Holders(o)
  BY <1>1, <1>2 DEF Holders, Holds
<1>4. Counted(o) /\ Copies(o) <= IF Published(o) THEN 1 + Doublings ELSE 0
  BY <1>1 DEF FaultFree, CopiesInv
<1>5. Doublings = 0
  <2>1. FaultBudget["crash"] \in Nat /\ FaultBudget["conn"] \in Nat
    BY PipelineAssumption DEF Faults
  <2> QED
    BY <2>1 DEF FaultFree, Doublings
<1>6. /\ IsFiniteSet(Holders(o) \ {w})
      /\ Cardinality(Holders(o) \ {w}) = Cardinality(Holders(o)) - 1
      /\ Cardinality(Holders(o) \ {w}) \in Nat
  BY <1>3, <1>4, FS_RemoveElement, FS_CardinalityType DEF Counted
<1>7. /\ Published(o)
      /\ Cardinality(Holders(o) \ {w}) = 0
      /\ Cardinality(Queued(o, InQueues)) = 0
  BY <1>4, <1>5, <1>6, CopiesType DEF Copies
<1>8. Holders(o) \ {w} = {} /\ Queued(o, InQueues) = {}
  BY <1>4, <1>6, <1>7, FS_EmptySet DEF Counted
<1>9. ASSUME NEW m \in Msg, m.order = o PROVE InQueues[m] = 0
  <2>1. InQueues \in [Msg -> Nat]
    BY InQueuesType DEF FaultFree
  <2>2. InQueues[m] # 0 => <<m, 1>> \in Queued(o, InQueues)
    BY <1>9, <2>1, QueuedSet
  <2> QED
    BY <1>8, <2>2
<1> QED
  BY <1>1, <1>3, <1>7, <1>8, <1>9

LEMMA SoleHandler ==
  ASSUME FaultFree, NEW v \in Workers, NEW w \in Workers,
         worker[v].pc \notin {"down", "idle"}, worker[w].pc \notin {"down", "idle"},
         OrderOf(v) = OrderOf(w)
  PROVE  v = w
BY SoleCopy

\* What every step does to stored orders and to the stock.
LEMMA StepKeeps ==
  ASSUME IInv, [Next]_vars
  PROVE  /\ \A o \in Orders : Keeps(o)
         /\ \A s \in Skus : stock'[s] \in Nat /\ stock'[s] <= stock[s]
<1>0. stock \in [Skus -> Nat]
  BY DEF IInv, TypeOK
<1>1. CASE UNCHANGED db
  BY <1>0, <1>1 DEF db, Keeps, Short, StillShort, Resolved
<1>2. ASSUME NEW p \in Orders, NEW cart \in Carts, api[p].state = "new", Store(p, cart)
      PROVE  (\A o \in Orders : Keeps(o)) /\ UNCHANGED stock
  <2>1. /\ \A o \in Orders \ {p} : orders'[o] = orders[o] /\ taken'[o] = taken[o]
        /\ UNCHANGED stock
    BY <1>2 DEF Store, IInv, TypeOK
  <2>2. orders[p].status = "NONE"
    BY <1>2 DEF IInv, RequestsInv
  <2> QED
    BY <2>1, <2>2 DEF Keeps, Short, StillShort, Resolved
<1>3. ASSUME NEW w \in Workers, worker[w].pc = "reserve", Decrement(w)
      PROVE  /\ \A o \in Orders : Keeps(o)
             /\ \A s \in Skus : stock'[s] \in Nat /\ stock'[s] <= stock[s]
  <2>1. LineOf(w).sku \in Skus /\ LineOf(w).qty \in Nat
    BY <1>3, AtLine
  <2>2. \A s \in Skus : stock'[s] <= stock[s]
    BY <1>0, <1>3, <2>1 DEF Decrement
  <2> QED
    BY <1>3, <2>2, DecrementKeeps
<1>4. ASSUME NEW w \in Workers, worker[w].pc \in {"confirm", "reject"}, UpdateStatus(w)
      PROVE  (\A o \in Orders : Keeps(o)) /\ UNCHANGED stock
  BY <1>4, UpdateStatusTables DEF UpdateStatus
<1> QED
  BY <1>0, <1>1, <1>2, <1>3, <1>4, TableCases

\* The reason of a retry does not go away.
LEMMA ReasonStays ==
  ASSUME IInv, [Next]_vars, NEW o \in Orders, orders[o].status # "NONE"
  PROVE  /\ orders'[o].lines = orders[o].lines
         /\ Short(o) => Short(o)'
         /\ Resolved(o) => Resolved(o)'
<1>1. Keeps(o)
  BY StepKeeps
<1> QED
  BY <1>1 DEF Keeps, Short, StillShort, Resolved

LEMMA ExcusedStays ==
  ASSUME IInv, [Next]_vars, NEW m \in Msg, orders[m.order].status # "NONE", Excused(m)
  PROVE  Excused(m)'
<1>1. m.order \in Orders
  BY DEF Msg
<1>2. /\ orders'[m.order].lines = orders[m.order].lines
      /\ Short(m.order) => Short(m.order)'
      /\ Resolved(m.order) => Resolved(m.order)'
  BY <1>1, ReasonStays
<1> QED
  BY <1>2 DEF Excused

------------------------------------------------------------------------------
(* Handlers that nothing disturbs.                                          *)

\* What another worker, a request or the broker does is no disturbance, unless
\* it decides the order.
LEMMA OthersUndisturbed ==
  ASSUME IInv, [Next]_vars, NEW v \in Workers, UndisturbedInv(v), worker'[v] = worker[v],
         worker[v].pc \in {"check", "reserve", "confirm", "reject"} =>
           orders'[OrderOf(v)].status = orders[OrderOf(v)].status
  PROVE  UndisturbedInv(v)'
<1>1. CASE worker[v].pc \in {"down", "idle"}
  BY <1>1 DEF UndisturbedInv
<1>2. CASE worker[v].pc \notin {"down", "idle"}
  <2>1. PICK o \in Orders, m \in Msg : o = OrderOf(v) /\ m = worker[v].msg /\ m.order = o
    BY <1>2, Handling DEF OrderOf
  <2>2. /\ orders[o].status # "NONE" /\ Storable(orders[o].lines) /\ orders[o] \in OrderRow
    BY <1>2, <2>1, Handling
  <2>3. /\ orders'[o].lines = orders[o].lines
        /\ Short(o) => Short(o)'
        /\ Resolved(o) => Resolved(o)'
    BY <2>2, ReasonStays
  <2>4. Excused(m) => Excused(m)'
    BY <2>1, <2>2, ExcusedStays
  <2>5. ShortAhead(v) => ShortAhead(v)'
    <3>1. ASSUME NEW i \in DOMAIN orders[o].lines, i >= worker[v].line,
                 stock[orders[o].lines[i].sku] < orders[o].lines[i].qty
          PROVE  stock'[orders[o].lines[i].sku] < orders[o].lines[i].qty
      <4>1. orders[o].lines \in Seq([sku : SkuNames, qty : Int])
        BY <2>2 DEF OrderRow
      <4>2. orders[o].lines[i] \in [sku : SkuNames, qty : Int]
        BY <4>1, DomainElement
      <4>3. orders[o].lines[i].qty \in Int /\ orders[o].lines[i].sku \in Skus
        BY <2>2, <4>2 DEF Storable
      <4>4. stock[orders[o].lines[i].sku] \in Nat
        BY <4>3 DEF IInv, TypeOK
      <4> QED
        BY <3>1, <4>3, <4>4, StepKeeps
    <3>2. OrderOf(v)' = o
      BY <2>1 DEF OrderOf
    <3> QED
      BY <2>1, <2>3, <3>1, <3>2 DEF ShortAhead
  <2> QED
    BY <2>1, <2>3, <2>4, <2>5 DEF UndisturbedInv, OrderOf
<1> QED
  BY <1>1, <1>2

\* What Go makes of a worker.
LEMMA GoState ==
  ASSUME IInv, NEW w \in Workers, NEW pc, NEW version, NEW line, NEW short,
         Go(w, pc, version, line, short)
  PROVE  /\ worker'[w].pc = pc /\ worker'[w].msg = worker[w].msg
         /\ worker'[w].line = line /\ worker'[w].short = short
         /\ worker'[w].live = worker[w].live
         /\ OrderOf(w)' = OrderOf(w)
         /\ \A v \in Workers \ {w} : worker'[v] = worker[v]
BY DEF Go, Become, IInv, TypeOK, State, OrderOf

LEMMA FindUndisturbed ==
  ASSUME FaultFree, NEW w \in Workers, FindOrder(w)
  PROVE  UndisturbedInv(w)'
<1> DEFINE o == OrderOf(w)
           m == worker[w].msg
<1>1. /\ IInv /\ UndisturbedInv(w) /\ worker[w].pc = "find" /\ UNCHANGED db
  BY DEF FaultFree, FaultFreeInv, FindOrder
<1>2. /\ o \in Orders /\ orders[o].status # "NONE" /\ m \in Msg /\ m.order = o
      /\ orders[o] \in OrderRow
  BY <1>1, Handling DEF OrderOf
<1>3. worker[w].live /\ Excused(m) /\ m.retry \in Nat
  BY <1>1, <1>2, PipelineAssumption DEF UndisturbedInv, Msg
<1>4. CASE ~Readable(orders[o].lines)
  <2>1. Go(w, "fail", 0, 1, FALSE)
    BY <1>4 DEF FindOrder, Leave
  <2>2. worker'[w].pc = "fail" /\ worker'[w].msg = m /\ worker'[w].live
    BY <1>1, <1>3, <2>1, GoState
  <2> HIDE DEF o, m
  <2> QED
    BY <1>1, <1>2, <1>4, <2>2 DEF UndisturbedInv, db
<1>5. CASE Readable(orders[o].lines) /\ orders[o].status = "PENDING"
  <2>1. Go(w, "check", orders[o].version, 1, FALSE)
    BY <1>2, <1>5 DEF FindOrder
  <2>2. m.retry <= 1 /\ (m.retry = 1 => Short(o))
    BY <1>2, <1>3, <1>5 DEF Excused, Resolved
  <2>3. \A i \in DOMAIN orders[o].lines : i >= 1
    BY <1>2 DEF OrderRow
  <2>4. /\ worker'[w].pc = "check" /\ worker'[w].msg = m /\ worker'[w].line = 1
        /\ worker'[w].live /\ OrderOf(w)' = o
    BY <1>1, <1>3, <2>1, GoState
  <2>5. Short(o) => ShortAhead(w)'
    BY <1>1, <2>3, <2>4 DEF Short, ShortAhead, db
  <2> HIDE DEF o, m
  <2> QED
    BY <1>1, <1>2, <1>5, <2>2, <2>4, <2>5 DEF UndisturbedInv, db
<1>6. CASE Readable(orders[o].lines) /\ orders[o].status # "PENDING"
  <2>1. Go(w, "ack", 0, 1, FALSE)
    BY <1>2, <1>6 DEF FindOrder, Leave
  <2>2. worker'[w].pc = "ack" /\ worker'[w].live
    BY <1>1, <1>3, <2>1, GoState
  <2> QED
    BY <2>2 DEF UndisturbedInv
<1> QED
  BY <1>4, <1>5, <1>6

LEMMA CheckUndisturbed ==
  ASSUME FaultFree, NEW w \in Workers, CheckLine(w)
  PROVE  UndisturbedInv(w)'
<1> DEFINE o == OrderOf(w)
           m == worker[w].msg
           short == worker[w].short \/ stock[LineOf(w).sku] < LineOf(w).qty
<1>1. /\ IInv /\ UndisturbedInv(w) /\ worker[w].pc = "check" /\ UNCHANGED db
      /\ IF IsLast(w) THEN Go(w, IF short THEN "reject" ELSE "reserve", worker[w].version, 1, short)
                      ELSE Go(w, "check", worker[w].version, worker[w].line + 1, short)
  BY DEF FaultFree, FaultFreeInv, CheckLine
<1>2. /\ o \in Orders /\ m \in Msg /\ m.order = o /\ orders[o] \in OrderRow
  BY <1>1, Handling DEF OrderOf
<1>3. /\ worker[w].live /\ orders[o].status = "PENDING" /\ m.retry <= 1 /\ m.retry \in Nat
      /\ m.retry = 1 => worker[w].short \/ ShortAhead(w)
  BY <1>1, <1>2, PipelineAssumption DEF UndisturbedInv, Msg
<1>4. worker[w].line \in 1..Len(orders[o].lines)
  BY <1>1, AtLine
<1>5. orders[o].lines \in Seq([sku : SkuNames, qty : Int])
  BY <1>2 DEF OrderRow
<1>6. ShortAhead(w) => short \/ \E i \in DOMAIN orders[o].lines :
         i >= worker[w].line + 1 /\ stock[orders[o].lines[i].sku] < orders[o].lines[i].qty
  <2>1. ASSUME NEW i \in DOMAIN orders[o].lines, i >= worker[w].line,
               stock[orders[o].lines[i].sku] < orders[o].lines[i].qty, ~short
        PROVE  i >= worker[w].line + 1
    <3>1. i # worker[w].line
      BY <2>1 DEF LineOf
    <3>2. i \in 1..Len(orders[o].lines)
      BY <1>5, DomainElement
    <3> QED
      BY <1>4, <2>1, <3>1, <3>2
  <2>2. ShortAhead(w) => \E i \in DOMAIN orders[o].lines :
         i >= worker[w].line /\ stock[orders[o].lines[i].sku] < orders[o].lines[i].qty
    BY DEF ShortAhead
  <2> HIDE DEF short, o
  <2> QED
    BY <2>1, <2>2
<1>7. worker[w].short => short
  OBVIOUS
<1> HIDE DEF short, o, m
<1>8. CASE IsLast(w)
  <2>1. Len(orders[o].lines) = worker[w].line
    BY <1>8 DEF IsLast, o
  <2>2. m.retry = 1 => short
    <3>1. \A i \in DOMAIN orders[o].lines : i <= worker[w].line /\ i \in Nat
      BY <1>5, <2>1
    <3> QED
      BY <1>3, <1>4, <1>6, <1>7, <3>1
  <2>3. /\ worker'[w].pc = IF short THEN "reject" ELSE "reserve"
        /\ worker'[w].msg = m /\ worker'[w].live
    BY <1>1, <1>3, <1>8, GoState DEF m
  <2> QED
    BY <1>1, <1>2, <1>3, <2>2, <2>3 DEF UndisturbedInv, db
<1>9. CASE ~IsLast(w)
  <2>1. /\ worker'[w].pc = "check" /\ worker'[w].short = short
        /\ worker'[w].line = worker[w].line + 1
        /\ worker'[w].msg = m /\ worker'[w].live /\ OrderOf(w)' = o
    BY <1>1, <1>3, <1>9, GoState DEF m, o
  <2>2. m.retry = 1 => worker'[w].short \/ ShortAhead(w)'
    BY <1>1, <1>3, <1>6, <1>7, <2>1 DEF ShortAhead, db
  <2> QED
    BY <1>1, <1>2, <1>3, <2>1, <2>2 DEF UndisturbedInv, db
<1> QED
  BY <1>8, <1>9

LEMMA ReserveUndisturbed ==
  ASSUME FaultFree, NEW w \in Workers, ReserveLine(w) \/ ReserveRefused(w)
  PROVE  UndisturbedInv(w)'
<1>1. IInv /\ UndisturbedInv(w) /\ worker[w].pc = "reserve"
  BY DEF FaultFree, FaultFreeInv, ReserveLine, ReserveRefused
<1>2. OrderOf(w) = worker[w].msg.order /\ worker[w].live
      /\ orders[OrderOf(w)].status = "PENDING" /\ worker[w].msg.retry = 0
  BY <1>1 DEF UndisturbedInv, OrderOf
<1>3. CASE ReserveLine(w)
  <2>1. UNCHANGED orders
    BY <1>3 DEF ReserveLine, Decrement
  <2>2. /\ worker'[w].pc \in {"reserve", "confirm"}
        /\ worker'[w].msg = worker[w].msg /\ worker'[w].live = worker[w].live
    BY <1>1, <1>3, GoState DEF ReserveLine
  <2> QED
    BY <1>2, <2>1, <2>2 DEF UndisturbedInv
<1>4. CASE ReserveRefused(w)
  <2>1. /\ worker'[w].pc = "fail" /\ UNCHANGED db
        /\ worker'[w].msg = worker[w].msg /\ worker'[w].live = worker[w].live
    BY <1>1, <1>4, GoState DEF ReserveRefused, Leave
  <2>2. Short(OrderOf(w))
    BY <1>1, <1>4 DEF ReserveRefused, Short, LineOf, IInv, WorkerInv
  <2>3. Short(OrderOf(w))'
    BY <2>1, <2>2, <1>2 DEF Short, OrderOf, db
  <2> QED
    BY <1>2, <2>1, <2>3 DEF UndisturbedInv, OrderOf
<1> QED
  BY <1>3, <1>4

LEMMA DecideUndisturbed ==
  ASSUME FaultFree, NEW w \in Workers, Confirm(w) \/ Reject(w)
  PROVE  UndisturbedInv(w)'
<1>1. IInv /\ UndisturbedInv(w) /\ worker[w].pc \in {"confirm", "reject"}
  BY DEF FaultFree, FaultFreeInv, Confirm, Reject
<1>2. worker[w].live /\ worker[w].msg.retry <= 1
  BY <1>1 DEF UndisturbedInv
<1>3. worker'[w].pc = "snapshot" /\ worker'[w].msg = worker[w].msg
      /\ worker'[w].live = worker[w].live
  BY <1>1, GoState DEF Confirm, Reject
<1> QED
  BY <1>2, <1>3 DEF UndisturbedInv

\* The optimistic lock is never lost: the order of a handler is still PENDING.
LEMMA NoConflict ==
  ASSUME FaultFree, NEW w \in Workers
  PROVE  ~LockConflict(w)
<1> SUFFICES ASSUME LockConflict(w) PROVE FALSE
  OBVIOUS
<1>1. /\ worker[w].pc \in {"confirm", "reject"}
      /\ orders[OrderOf(w)].version # worker[w].version
      /\ IInv /\ UndisturbedInv(w) /\ WorkerInv(w)
  BY DEF FaultFree, FaultFreeInv, LockConflict, IInv
<1>2. OrderOf(w) \in Orders
  BY <1>1, Handling
<1>3. orders[OrderOf(w)].status = "PENDING" /\ worker[w].version = 1
  BY <1>1 DEF UndisturbedInv, WorkerInv, OrderOf
<1> QED
  BY <1>1, <1>2, <1>3 DEF IInv, RowsInv

LEMMA SnapshotUndisturbed ==
  ASSUME FaultFree, NEW w \in Workers, PublishSnapshot(w) \/ SnapshotThrows(w)
  PROVE  UndisturbedInv(w)'
<1>1. /\ IInv /\ UndisturbedInv(w) /\ WorkerInv(w) /\ worker[w].pc = "snapshot"
      /\ UNCHANGED db
  BY DEF FaultFree, FaultFreeInv, PublishSnapshot, SnapshotThrows, IInv
<1>2. worker[w].live /\ worker[w].msg.retry <= 1 /\ Resolved(worker[w].msg.order)
  BY <1>1 DEF UndisturbedInv, WorkerInv, OrderOf, Outcome, Resolved
<1>3. worker'[w].pc \in {"ack", "fail"} /\ worker'[w].msg = worker[w].msg
      /\ worker'[w].live = worker[w].live
  BY <1>1, GoState DEF PublishSnapshot, SnapshotThrows, Leave
<1>4. Resolved(worker[w].msg.order)'
  BY <1>1, <1>2, <1>3 DEF Resolved, db
<1> QED
  BY <1>2, <1>3, <1>4 DEF UndisturbedInv

LEMMA ProcessUndisturbed ==
  ASSUME FaultFree, NEW w \in Workers, Process(w) \/ Restart(w)
  PROVE  UndisturbedInv(w)'
<1>1. UndisturbedInv(w) /\ IInv
  BY DEF FaultFree, FaultFreeInv
<1>2. CASE Ack(w) \/ HandleFailure(w)
  <2>1. worker'[w] = Idle
    BY <1>1, <1>2 DEF Ack, HandleFailure, Become, IInv, TypeOK
  <2> QED
    BY <2>1 DEF UndisturbedInv, Idle, State
<1>3. ~DieOnDeadChannel(w) /\ ~Restart(w)
  BY <1>1 DEF DieOnDeadChannel, Restart, UndisturbedInv
<1> QED
  BY <1>2, <1>3, FindUndisturbed, CheckUndisturbed, ReserveUndisturbed,
     DecideUndisturbed, NoConflict, SnapshotUndisturbed DEF Process

\* Only its own handler decides an order.
LEMMA NotDecidedByOthers ==
  ASSUME FaultFree, NEW w \in Workers, Process(w), NEW v \in Workers, v # w,
         worker[v].pc \in {"check", "reserve", "confirm", "reject"}
  PROVE  orders'[OrderOf(v)].status = orders[OrderOf(v)].status
<1>1. CASE Confirm(w) \/ Reject(w)
  <2>1. worker[w].pc \in {"confirm", "reject"} /\ UpdateStatus(w)
    BY <1>1 DEF Confirm, Reject
  <2>2. OrderOf(v) # OrderOf(w)
    BY <2>1, SoleHandler
  <2>3. OrderOf(v) \in Orders /\ OrderOf(w) \in Orders /\ orders \in [Orders -> OrderRow]
    BY <2>1, Handling DEF FaultFree, IInv, TypeOK
  <2> QED
    BY <2>1, <2>2, <2>3 DEF UpdateStatus
<1>2. CASE ~(Confirm(w) \/ Reject(w))
  <2>1. UNCHANGED orders
    BY <1>2 DEF Process, FindOrder, CheckLine, ReserveLine, Decrement, ReserveRefused,
         LockConflict, PublishSnapshot, SnapshotThrows, Ack, HandleFailure,
         DieOnDeadChannel, db
  <2> QED
    BY <2>1
<1> QED
  BY <1>1, <1>2

\* Steps of a request that change neither its order nor what workers work on.
ApiQuiet(o) ==
  \/ RefuseOrder(o) \/ PublishOrderCreated(o) \/ PublishPendingSnapshot(o)
  \/ PendingTotalThrows(o) \/ FlushSnapshot(o)

LEMMA ApiQuietKeeps ==
  ASSUME NEW o, ApiQuiet(o)
  PROVE  UNCHANGED <<orders, stock, taken, ready, waiting, dead, worker>>
BY DEF ApiQuiet, RefuseOrder, PublishOrderCreated, PublishPendingSnapshot,
       PendingTotalThrows, FlushSnapshot, db, queues

\* The steps that are left when nothing fails.
LEMMA FaultFreeSteps ==
  ASSUME IInv, CopiesInv, [Next]_vars, faults' = FaultBudget
  PROVE  \/ \E o \in Orders : SaveOrder(o) \/ FlushEvent(o) \/ ApiQuiet(o)
         \/ \E w \in Workers, m \in Msg : Deliver(w, m)
         \/ \E w \in Workers : Process(w) \/ Restart(w)
         \/ \E m \in Msg : ExpireRetry(m)
         \/ UNCHANGED vars
<1>1. \A kind \in Faults : ~Suffer(kind)
  BY FaultsSpent, NoFaultYet
<1>2. ~Suffer("crash") /\ ~Suffer("db") /\ ~Suffer("conn")
  BY <1>1 DEF Faults
<1>3. \A o \in Orders : ~SaveFails(o) /\ ~PublishThrows(o)
  BY <1>2 DEF SaveFails, PublishThrows
<1>4. ~ApiFault /\ \A w \in Workers : ~WorkerFault(w)
  BY <1>2 DEF ApiFault, ApiCrash, ApiLosesConnection, WorkerFault, DbError, Crash,
              CrashBetweenPublishAndAck, LoseConnection, LoseSnapshot, LoseAck
<1> QED
  BY <1>3, <1>4 DEF Next, ApiStep, ApiQuiet

LEMMA WorkersUndisturbed ==
  ASSUME FaultFree, [Next]_vars, faults' = FaultBudget, NEW v \in Workers
  PROVE  UndisturbedInv(v)'
<1>1. IInv /\ CopiesInv /\ UndisturbedInv(v)
  BY DEF FaultFree, FaultFreeInv
<1>2. ASSUME NEW o \in Orders, SaveOrder(o) PROVE UndisturbedInv(v)'
  <2>1. worker' = worker
    BY <1>2 DEF SaveOrder
  <2>2. orders[o].status = "NONE" /\ \A p \in Orders \ {o} : orders'[p] = orders[p]
    BY <1>1, <1>2 DEF SaveOrder, Store, IInv, RequestsInv, TypeOK
  <2>3. worker[v].pc \in {"check", "reserve", "confirm", "reject"} =>
          orders'[OrderOf(v)].status = orders[OrderOf(v)].status
    BY <1>1, <2>2, Handling
  <2> QED
    BY <1>1, <2>1, <2>3, OthersUndisturbed
<1>3. ASSUME UNCHANGED orders, worker'[v] = worker[v] PROVE UndisturbedInv(v)'
  BY <1>1, <1>3, OthersUndisturbed
<1>4. ASSUME NEW w \in Workers, NEW m \in Msg, Deliver(w, m) PROVE UndisturbedInv(v)'
  <2>1. UNCHANGED db /\ worker'[w] = Begin(m) /\ \A u \in Workers \ {w} : worker'[u] = worker[u]
    BY <1>1, <1>4 DEF Deliver, Become, IInv, TypeOK
  <2>2. CASE v = w
    <3>1. ready[m] + waiting[m] > 0
      BY <1>1, <1>4 DEF Deliver, IInv, TypeOK
    <3>2. Excused(m)
      BY <3>1 DEF FaultFree, FaultFreeInv
    <3>3. Excused(m)'
      BY <2>1, <3>2 DEF Excused, Short, Resolved, db
    <3>4. /\ worker'[v].pc = "find" /\ worker'[v].msg = m /\ worker'[v].live
      BY <2>1, <2>2 DEF Begin, State
    <3> QED
      BY <3>3, <3>4 DEF UndisturbedInv
  <2>3. CASE v # w
    BY <1>3, <2>1, <2>3 DEF db
  <2> QED
    BY <2>2, <2>3
<1>5. ASSUME NEW w \in Workers, Process(w) PROVE UndisturbedInv(v)'
  <2>1. CASE v = w
    BY <1>5, <2>1, ProcessUndisturbed
  <2>2. CASE v # w
    <3>1. worker'[v] = worker[v]
      BY <1>1, <1>5, <2>2 DEF Process, FindOrder, CheckLine, ReserveLine, ReserveRefused,
         Confirm, Reject, LockConflict, PublishSnapshot, SnapshotThrows, Ack,
         HandleFailure, DieOnDeadChannel, Leave, Go, Become, IInv, TypeOK
    <3> QED
      BY <1>1, <1>5, <2>2, <3>1, NotDecidedByOthers, OthersUndisturbed
  <2> QED
    BY <2>1, <2>2
<1>6. ASSUME NEW w \in Workers, Restart(w) PROVE UndisturbedInv(v)'
  BY <1>6 DEF FaultFree, FaultFreeInv, UndisturbedInv, Restart
<1>7. ASSUME UNCHANGED vars \/ (\E m \in Msg : ExpireRetry(m)) PROVE UndisturbedInv(v)'
  BY <1>3, <1>7 DEF vars, ExpireRetry, db
<1>8. ASSUME NEW o \in Orders, FlushEvent(o) \/ ApiQuiet(o) PROVE UndisturbedInv(v)'
  BY <1>3, <1>8, ApiQuietKeeps DEF FlushEvent, db
<1> QED
  BY <1>1, <1>2, <1>4, <1>5, <1>6, <1>7, <1>8, FaultFreeSteps

------------------------------------------------------------------------------
(* Messages in the queues of a system that nothing disturbs.                *)

ReadyExcused == \A m \in Msg : ready[m] + waiting[m] > 0 => Excused(m)

DeadUnreadable ==
  \A m \in Msg : MaxAttempts >= 2 /\ dead[m] > 0 => ~Readable(orders[m.order].lines)

\* It is enough to look at the messages that a step puts into a queue.
LEMMA QueuesUndisturbed ==
  ASSUME FaultFree, [Next]_vars,
         \A m \in Msg : ready'[m] + waiting'[m] > 0 =>
           ready[m] + waiting[m] > 0 \/ Excused(m)',
         \A m \in Msg : dead'[m] > 0 =>
           \/ dead[m] > 0
           \/ MaxAttempts >= 2 => ~Readable(orders'[m.order].lines)
  PROVE  ReadyExcused' /\ DeadUnreadable'
<1>1. IInv /\ ReadyExcused /\ DeadUnreadable
  BY DEF FaultFree, FaultFreeInv, ReadyExcused, DeadUnreadable
<1>2. ready \in [Msg -> Nat] /\ waiting \in [Msg -> Nat] /\ dead \in [Msg -> Nat]
  BY <1>1 DEF IInv, TypeOK
<1>3. ASSUME NEW m \in Msg, ready'[m] + waiting'[m] > 0 PROVE Excused(m)'
  <2>1. CASE ready[m] + waiting[m] > 0
    <3>1. orders[m.order].status # "NONE"
      BY <1>1, <1>2, <2>1 DEF IInv, EventsInv
    <3> QED
      BY <1>1, <2>1, <3>1, ExcusedStays DEF ReadyExcused
  <2> QED
    BY <1>3, <2>1
<1>4. ASSUME NEW m \in Msg, dead'[m] > 0, MaxAttempts >= 2
      PROVE  ~Readable(orders'[m.order].lines)
  <2>1. CASE dead[m] > 0
    <3>1. ready[m] + waiting[m] + dead[m] > 0
      BY <1>1, <2>1, InQueue
    <3>2. m.order \in Orders /\ orders[m.order].status # "NONE"
      BY <1>1, <3>1 DEF IInv, EventsInv, Msg
    <3> QED
      BY <1>1, <1>4, <2>1, <3>2, ReasonStays DEF DeadUnreadable
  <2> QED
    BY <1>4, <2>1
<1> QED
  BY <1>3, <1>4 DEF ReadyExcused, DeadUnreadable

\* What handleFailure publishes.
LEMMA ResentUndisturbed ==
  ASSUME FaultFree, [Next]_vars, NEW w \in Workers, HandleFailure(w)
  PROVE  ReadyExcused' /\ DeadUnreadable'
<1>0. IInv /\ UndisturbedInv(w) /\ worker[w].pc = "fail"
  BY DEF FaultFree, FaultFreeInv, HandleFailure
<1>2. PICK m \in Msg : m = worker[w].msg /\ orders[m.order].status # "NONE"
  BY <1>0, Handling DEF OrderOf
<1>1. IInv /\ Resend(m) /\ UNCHANGED <<ready, orders, stock>>
  BY <1>0, <1>2 DEF HandleFailure, db
<1>3. m.retry \in Nat /\ m.order \in Orders
  BY <1>2, PipelineAssumption DEF Msg
<1>4. Readable(orders[m.order].lines) =>
        /\ m.retry <= 1
        /\ Short(m.order) \/ Resolved(m.order)
        /\ m.retry = 1 => Resolved(m.order)
  BY <1>0, <1>2 DEF UndisturbedInv
<1>5. ready \in [Msg -> Nat] /\ waiting \in [Msg -> Nat] /\ dead \in [Msg -> Nat]
  BY <1>1 DEF IInv, TypeOK
<1>6. CASE m.retry >= MaxAttempts
  <2>1. dead' = Put(dead, m) /\ UNCHANGED waiting
    BY <1>1, <1>6 DEF Resend, DecideRetry
  <2>2. MaxAttempts >= 2 => ~Readable(orders'[m.order].lines)
    BY <1>1, <1>3, <1>4, <1>6, PipelineAssumption
  <2>3. \A n \in Msg : dead'[n] > 0 => n = m \/ dead[n] > 0
    BY <1>2, <1>5, <2>1, PutCounts
  <2> QED
    BY <1>1, <2>1, <2>2, <2>3, QueuesUndisturbed
<1>7. CASE ~(m.retry >= MaxAttempts)
  <2>1. PICK copy \in Msg : /\ copy.order = m.order /\ copy.retry = m.retry + 1
                           /\ waiting' = Put(waiting, copy)
    <3>1. [order |-> m.order, retry |-> m.retry + 1] \in Msg
      BY <1>2, <1>7, PipelineAssumption DEF Msg
    <3> QED
      BY <1>1, <1>7, <3>1 DEF Resend, DecideRetry
  <2>2. UNCHANGED dead
    BY <1>1, <1>7 DEF Resend, DecideRetry
  <2>3. Excused(copy)
    BY <1>3, <1>4, <2>1 DEF Excused
  <2>4. Excused(copy)'
    BY <1>1, <1>2, <2>1, <2>3, ExcusedStays
  <2>5. \A n \in Msg : ready'[n] + waiting'[n] > 0 =>
          ready[n] + waiting[n] > 0 \/ n = copy
    BY <1>1, <1>5, <2>1 DEF Put
  <2>6. \A n \in Msg : ready'[n] + waiting'[n] > 0 =>
          ready[n] + waiting[n] > 0 \/ Excused(n)'
    BY <2>4, <2>5
  <2> QED
    BY <2>2, <2>6, QueuesUndisturbed
<1> QED
  BY <1>6, <1>7

LEMMA MessagesUndisturbed ==
  ASSUME FaultFree, [Next]_vars, faults' = FaultBudget
  PROVE  ReadyExcused' /\ DeadUnreadable'
<1>1. IInv /\ CopiesInv
  BY DEF FaultFree
<1>2. ready \in [Msg -> Nat] /\ waiting \in [Msg -> Nat] /\ dead \in [Msg -> Nat]
  BY <1>1 DEF IInv, TypeOK
<1>3. ASSUME UNCHANGED queues PROVE ReadyExcused' /\ DeadUnreadable'
  BY <1>3, QueuesUndisturbed DEF queues
<1>4. ASSUME NEW o \in Orders, FlushEvent(o)
      PROVE  ReadyExcused' /\ DeadUnreadable'
  <2> DEFINE m == [order |-> o, retry |-> 0]
  <2>1. m \in Msg /\ m.retry = 0
    BY PipelineAssumption DEF Msg
  <2>2. ready' = Put(ready, m) /\ UNCHANGED <<waiting, dead>>
    BY <1>4 DEF FlushEvent
  <2> HIDE DEF m
  <2>3. Excused(m)'
    BY <2>1 DEF Excused
  <2>4. \A n \in Msg : ready'[n] + waiting'[n] > 0 => ready[n] + waiting[n] > 0 \/ n = m
    BY <1>2, <2>1, <2>2 DEF Put
  <2>5. \A n \in Msg : ready'[n] + waiting'[n] > 0 =>
          ready[n] + waiting[n] > 0 \/ Excused(n)'
    BY <2>3, <2>4
  <2> QED
    BY <2>2, <2>5, QueuesUndisturbed
<1>5. ASSUME NEW w \in Workers, NEW m \in Msg, Deliver(w, m)
      PROVE  ReadyExcused' /\ DeadUnreadable'
  <2>1. ready[m] > 0 /\ ready' = Take(ready, m) /\ UNCHANGED <<waiting, dead>>
    BY <1>5 DEF Deliver
  <2>2. \A n \in Msg : ready'[n] + waiting'[n] > 0 => ready[n] + waiting[n] > 0
    BY <1>2, <2>1 DEF Take
  <2> QED
    BY <2>1, <2>2, QueuesUndisturbed
<1>6. ASSUME NEW m \in Msg, ExpireRetry(m) PROVE ReadyExcused' /\ DeadUnreadable'
  <2>1. waiting[m] > 0 /\ waiting' = Take(waiting, m) /\ ready' = Put(ready, m) /\ UNCHANGED dead
    BY <1>6 DEF ExpireRetry
  <2>2. \A n \in Msg : ready'[n] + waiting'[n] > 0 => ready[n] + waiting[n] > 0
    BY <1>2, <2>1 DEF Take, Put
  <2> QED
    BY <2>1, <2>2, QueuesUndisturbed
<1>7. ASSUME NEW w \in Workers, Process(w) \/ Restart(w)
      PROVE  ReadyExcused' /\ DeadUnreadable'
  <2>1. CASE HandleFailure(w)
    BY <2>1, ResentUndisturbed
  <2>2. CASE ~HandleFailure(w)
    BY <1>3, <1>7, <2>2 DEF Process, FindOrder, CheckLine, ReserveLine, ReserveRefused,
       Confirm, Reject, LockConflict, PublishSnapshot, SnapshotThrows, Ack,
       DieOnDeadChannel, Restart
  <2> QED
    BY <2>1, <2>2
<1>8. ASSUME NEW o \in Orders, SaveOrder(o) \/ ApiQuiet(o)
      PROVE  ReadyExcused' /\ DeadUnreadable'
  BY <1>3, <1>8, ApiQuietKeeps DEF SaveOrder, queues
<1>9. ASSUME UNCHANGED vars PROVE ReadyExcused' /\ DeadUnreadable'
  BY <1>3, <1>9 DEF vars, queues
<1> QED
  BY <1>1, <1>4, <1>5, <1>6, <1>7, <1>8, <1>9, FaultFreeSteps

------------------------------------------------------------------------------
(* The stock of orders of one line in a system that nothing disturbs.       *)

TakenOnce(o) ==
  Len(orders[o].lines) = 1 => taken[o][1] = IF Confirming(o) THEN 1 ELSE 0

LEMMA TakenStays ==
  ASSUME NEW o \in Orders, TakenOnce(o), orders'[o].lines = orders[o].lines,
         taken'[o] = taken[o], Confirming(o)' <=> Confirming(o)
  PROVE  TakenOnce(o)'
BY DEF TakenOnce

\* A worker that neither comes to its confirmation nor from it.
LEMMA ConfirmingStays ==
  ASSUME NEW o, orders'[o].status = "CONFIRMED" <=> orders[o].status = "CONFIRMED",
         NEW w \in Workers, \A v \in Workers \ {w} : worker'[v] = worker[v],
         (worker'[w].pc = "confirm" /\ OrderOf(w)' = o)
           <=> (worker[w].pc = "confirm" /\ OrderOf(w) = o)
  PROVE  Confirming(o)' <=> Confirming(o)
<1>1. \A v \in Workers : (worker'[v].pc = "confirm" /\ OrderOf(v)' = o)
                           <=> (worker[v].pc = "confirm" /\ OrderOf(v) = o)
  BY DEF OrderOf
<1> QED
  BY <1>1 DEF Confirming

LEMMA StoreTaken ==
  ASSUME IInv, NEW o \in Orders, TakenOnce(o), NEW p \in Orders, SaveOrder(p)
  PROVE  TakenOnce(o)'
<1>1. PICK cart \in Carts : Acceptable(cart) /\ Store(p, cart)
  BY DEF SaveOrder
<1>2. UNCHANGED worker /\ orders[p].status = "NONE"
  BY DEF SaveOrder, IInv, RequestsInv
<1>3. CASE o = p
  <2>1. orders'[o] = Stored(cart) /\ taken'[o] = [i \in DOMAIN cart |-> 0]
    BY <1>1, <1>3 DEF Store, IInv, TypeOK
  <2>2. Len(Stored(cart).lines) = Len(cart)
    BY <1>1, StoredCart
  <2>3. Len(cart) = 1 => taken'[o][1] = 0
    BY <2>1, PipelineAssumption
  <2>4. ~Confirming(o)'
    <3>1. orders'[o].status # "CONFIRMED"
      BY <2>1 DEF Stored
    <3>2. ASSUME NEW v \in Workers, worker[v].pc = "confirm" PROVE OrderOf(v) # o
      BY <1>2, <1>3, <3>2, Handling
    <3> QED
      BY <1>2, <3>1, <3>2 DEF Confirming, OrderOf
  <2> QED
    BY <2>1, <2>2, <2>3, <2>4 DEF TakenOnce
<1>4. CASE o # p
  <2>1. orders'[o] = orders[o] /\ taken'[o] = taken[o]
    BY <1>1, <1>4 DEF Store, IInv, TypeOK
  <2>2. Confirming(o)' <=> Confirming(o)
    BY <1>2, <2>1 DEF Confirming, OrderOf
  <2> QED
    BY <2>1, <2>2, TakenStays
<1> QED
  BY <1>3, <1>4

LEMMA ReserveTaken ==
  ASSUME FaultFree, NEW o \in Orders, TakenOnce(o), NEW w \in Workers, ReserveLine(w)
  PROVE  TakenOnce(o)'
<1>1. /\ IInv /\ worker[w].pc = "reserve" /\ Decrement(w) /\ UndisturbedInv(w)
  BY DEF FaultFree, FaultFreeInv, ReserveLine
<1>2. /\ OrderOf(w) \in Orders /\ worker[w].line \in 1..Len(orders[OrderOf(w)].lines)
      /\ Len(taken[OrderOf(w)]) = Len(orders[OrderOf(w)].lines)
      /\ orders[OrderOf(w)].status = "PENDING"
  BY <1>1, Handling, AtLine DEF UndisturbedInv, OrderOf
<1>3. /\ OrderOf(w)' = OrderOf(w) /\ \A v \in Workers \ {w} : worker'[v] = worker[v]
      /\ IsLast(w) => worker'[w].pc = "confirm"
  BY <1>1, GoState DEF ReserveLine
<1>4. UNCHANGED orders /\ taken \in [Orders -> Seq(Nat)]
  BY <1>1 DEF Decrement, IInv, TypeOK
<1>5. CASE OrderOf(w) # o
  <2>1. taken'[o] = taken[o]
    BY <1>1, <1>2, <1>4, <1>5 DEF Decrement
  <2>2. Confirming(o)' <=> Confirming(o)
    BY <1>3, <1>4, <1>5, ConfirmingStays
  <2> QED
    BY <1>4, <2>1, <2>2, TakenStays
<1>6. CASE OrderOf(w) = o /\ Len(orders[o].lines) = 1
  <2>1. ~Confirming(o)
    <3>1. ASSUME NEW v \in Workers, worker[v].pc = "confirm", OrderOf(v) = o PROVE FALSE
      BY <1>1, <1>6, <3>1, SoleHandler
    <3> QED
      BY <1>2, <1>6, <3>1 DEF Confirming
  <2>2. taken[o][1] = 0
    BY <1>6, <2>1 DEF TakenOnce
  <2>3. worker[w].line = 1 /\ IsLast(w)
    BY <1>2, <1>6 DEF IsLast
  <2>4. taken'[o][1] = 1
    <3>1. taken' = [taken EXCEPT ![o][1] = @ + 1]
      BY <1>1, <1>6, <2>3 DEF Decrement
    <3>2. taken[o] \in Seq(Nat) /\ Len(taken[o]) = 1
      BY <1>2, <1>4, <1>6
    <3> QED
      BY <1>4, <2>2, <3>1, <3>2
  <2>5. Confirming(o)'
    BY <1>3, <1>6, <2>3 DEF Confirming
  <2> QED
    BY <2>4, <2>5 DEF TakenOnce
<1>7. CASE Len(orders[o].lines) # 1
  BY <1>4, <1>7 DEF TakenOnce
<1> QED
  BY <1>5, <1>6, <1>7

LEMMA DecideTaken ==
  ASSUME FaultFree, NEW o \in Orders, TakenOnce(o), NEW w \in Workers,
         Confirm(w) \/ Reject(w)
  PROVE  TakenOnce(o)'
<1>1. /\ IInv /\ worker[w].pc \in {"confirm", "reject"} /\ UpdateStatus(w)
  BY DEF FaultFree, FaultFreeInv, Confirm, Reject
<1>2. /\ OrderOf(w) \in Orders /\ orders \in [Orders -> OrderRow]
      /\ orders[OrderOf(w)].status = "PENDING"
      /\ orders'[OrderOf(w)].status = Outcome(w)
  BY <1>1, Handling, UpdateStatusTables DEF IInv, TypeOK
<1>3. /\ \A v \in Workers \ {w} : worker'[v] = worker[v]
      /\ OrderOf(w)' = OrderOf(w) /\ worker'[w].pc = "snapshot"
  BY <1>1, GoState DEF Confirm, Reject
<1>4. taken' = taken /\ orders'[o].lines = orders[o].lines
  BY <1>1, <1>2 DEF UpdateStatus
<1>5. CASE OrderOf(w) # o
  <2>1. orders'[o] = orders[o]
    BY <1>1, <1>2, <1>5 DEF UpdateStatus
  <2>2. Confirming(o)' <=> Confirming(o)
    BY <1>3, <1>5, <2>1, ConfirmingStays
  <2> QED
    BY <1>4, <2>2, TakenStays
<1>6. CASE OrderOf(w) = o /\ worker[w].pc = "confirm"
  <2>1. ~worker[w].short
    BY <1>1, <1>6 DEF IInv, WorkerInv
  <2>2. Confirming(o)' /\ Confirming(o)
    BY <1>2, <1>6, <2>1 DEF Confirming, Outcome
  <2> QED
    BY <1>4, <2>2, TakenStays
<1>7. CASE OrderOf(w) = o /\ worker[w].pc = "reject"
  <2>1. worker[w].short
    BY <1>1, <1>7 DEF IInv, WorkerInv
  <2>2. orders'[o].status = "REJECTED" /\ orders[o].status = "PENDING"
    BY <1>2, <1>7, <2>1 DEF Outcome
  <2>3. Confirming(o)' <=> Confirming(o)
    BY <1>3, <1>7, <2>2, ConfirmingStays
  <2> QED
    BY <1>4, <2>3, TakenStays
<1> QED
  BY <1>1, <1>5, <1>6, <1>7

\* The other steps of a worker have nothing to do with the confirmation.
LEMMA OthersTaken ==
  ASSUME IInv, NEW o \in Orders, TakenOnce(o), UNCHANGED db,
         NEW w \in Workers, \A v \in Workers \ {w} : worker'[v] = worker[v],
         worker[w].pc # "confirm", worker'[w].pc # "confirm"
  PROVE  TakenOnce(o)'
<1>1. orders' = orders /\ taken' = taken
  BY DEF db
<1> QED
  BY <1>1, ConfirmingStays, TakenStays

LEMMA TakenUndisturbed ==
  ASSUME FaultFree, [Next]_vars, faults' = FaultBudget, NEW o \in Orders
  PROVE  TakenOnce(o)'
<1>1. IInv /\ CopiesInv /\ TakenOnce(o)
  BY DEF FaultFree, FaultFreeInv, TakenOnce
<1>2. ASSUME NEW p \in Orders, SaveOrder(p) PROVE TakenOnce(o)'
  BY <1>1, <1>2, StoreTaken
<1>3. ASSUME UNCHANGED <<db, worker>> PROVE TakenOnce(o)'
  BY <1>1, <1>3 DEF db, TakenOnce, Confirming, OrderOf
<1>4. ASSUME NEW p \in Orders, FlushEvent(p) \/ ApiQuiet(p) PROVE TakenOnce(o)'
  BY <1>3, <1>4, ApiQuietKeeps DEF FlushEvent, db
<1>5. ASSUME UNCHANGED vars \/ (\E m \in Msg : ExpireRetry(m)) PROVE TakenOnce(o)'
  BY <1>3, <1>5 DEF vars, ExpireRetry, db
<1>6. ASSUME NEW w \in Workers, NEW m \in Msg, Deliver(w, m) PROVE TakenOnce(o)'
  <2>1. /\ UNCHANGED db /\ worker[w] = Idle /\ worker'[w] = Begin(m)
        /\ \A v \in Workers \ {w} : worker'[v] = worker[v]
    BY <1>1, <1>6 DEF Deliver, Become, IInv, TypeOK
  <2>2. worker[w].pc # "confirm" /\ worker'[w].pc # "confirm"
    BY <2>1 DEF Idle, Begin, State
  <2> QED
    BY <1>1, <2>1, <2>2, OthersTaken
<1>7. ASSUME NEW w \in Workers, NEW pc \in {"check", "reject", "reserve", "ack", "fail"},
             NEW version, NEW line, NEW short, Go(w, pc, version, line, short),
             worker[w].pc # "confirm", UNCHANGED db
      PROVE  TakenOnce(o)'
  BY <1>1, <1>7, GoState, OthersTaken
<1>8. ASSUME NEW w \in Workers, Process(w) \/ Restart(w) PROVE TakenOnce(o)'
  <2>1. CASE FindOrder(w)
    BY <1>7, <2>1 DEF FindOrder, Leave
  <2>2. CASE CheckLine(w)
    BY <1>7, <2>2 DEF CheckLine
  <2>3. CASE ReserveRefused(w) \/ PublishSnapshot(w) \/ SnapshotThrows(w)
    BY <1>7, <2>3 DEF ReserveRefused, PublishSnapshot, SnapshotThrows, Leave
  <2>4. CASE Ack(w) \/ HandleFailure(w) \/ DieOnDeadChannel(w) \/ Restart(w)
    <3>1. /\ worker[w].pc # "confirm" /\ UNCHANGED db
          /\ Become(w, Idle) \/ Become(w, Down)
      BY <2>4 DEF Ack, HandleFailure, DieOnDeadChannel, Restart
    <3>2. /\ worker'[w].pc # "confirm"
          /\ \A v \in Workers \ {w} : worker'[v] = worker[v]
      BY <1>1, <3>1 DEF Become, IInv, TypeOK, Idle, Down, State
    <3> QED
      BY <1>1, <3>1, <3>2, OthersTaken
  <2> QED
    BY <1>1, <1>8, <2>1, <2>2, <2>3, <2>4, ReserveTaken, DecideTaken, NoConflict DEF Process
<1> QED
  BY <1>1, <1>2, <1>4, <1>5, <1>6, <1>8, FaultFreeSteps

------------------------------------------------------------------------------
(* The first handling of an event in a system that nothing disturbs.        *)

\* A step that takes nothing.
LEMMA FirstStays ==
  ASSUME TakenByFirst, taken' = taken,
         \A o \in Orders : Published(o) => Published(o)',
         \A m \in Msg : ready'[m] + waiting'[m] > 0 /\ m.retry = 0 =>
           ready[m] + waiting[m] > 0 \/ Untouched(m.order),
         \A v \in Workers : worker'[v] = worker[v] \/ FirstHandling(v)'
  PROVE  TakenByFirst'
<1>1. ASSUME NEW o PROVE Untouched(o)' <=> Untouched(o)
  BY DEF Untouched
<1>2. ASSUME NEW v \in Workers PROVE FirstHandling(v)'
  BY <1>1, <1>2 DEF TakenByFirst, FirstHandling
<1> QED
  BY <1>1, <1>2 DEF TakenByFirst, Published

LEMMA StoreFirst ==
  ASSUME IInv, TakenByFirst, NEW p \in Orders, SaveOrder(p)
  PROVE  TakenByFirst'
<1>1. PICK cart \in Carts : taken' = [taken EXCEPT ![p] = [i \in DOMAIN cart |-> 0]]
  BY DEF SaveOrder, Store
<1>2. /\ UNCHANGED <<ready, waiting, worker>> /\ taken \in [Orders -> Seq(Nat)]
      /\ \A o \in Orders : Published(o) => Published(o)'
      /\ orders[p].status = "NONE"
  <2>1. Published(p)' <=> Published(p)
    BY DEF SaveOrder, Answer, Published, Request, IInv, TypeOK
  <2> QED
    BY <2>1 DEF SaveOrder, Answer, Published, queues, IInv, TypeOK, RequestsInv
<1>3. /\ Untouched(p)'
      /\ \A i \in DOMAIN taken'[p] : taken'[p][i] = 0
      /\ \A o \in Orders \ {p} : taken'[o] = taken[o]
  BY <1>1, <1>2 DEF Untouched
<1>4. ASSUME NEW o \in Orders, Untouched(o) PROVE Untouched(o)'
  BY <1>3, <1>4 DEF Untouched
<1>5. ASSUME NEW v \in Workers PROVE FirstHandling(v)'
  <2>1. CASE worker[v].pc \in {"find", "check", "reserve"}
    <3>1. worker[v].msg.order \in Orders \ {p}
      BY <1>2, <2>1, Handling DEF OrderOf
    <3> QED
      BY <1>2, <1>3, <3>1 DEF TakenByFirst, FirstHandling, Untouched
  <2>2. CASE worker[v].pc \notin {"find", "check", "reserve"}
    BY <1>2, <2>2 DEF FirstHandling
  <2> QED
    BY <2>1, <2>2
<1>6. \A o \in Orders : \A i \in DOMAIN taken'[o] : taken'[o][i] <= 1
  BY <1>3 DEF TakenByFirst
<1>7. \A m \in Msg : m.order \in Orders
  BY DEF Msg
<1> QED
  BY <1>2, <1>4, <1>5, <1>6, <1>7 DEF TakenByFirst, Published

\* A line is taken in its turn, and nobody else has anything to do with its order.
LEMMA ReserveFirst ==
  ASSUME FaultFree, NEW w \in Workers, ReserveLine(w)
  PROVE  TakenByFirst'
<1>1. /\ IInv /\ TakenByFirst /\ worker[w].pc = "reserve"
      /\ UNCHANGED <<ready, waiting, dead, api>>
  BY DEF FaultFree, FaultFreeInv, ReserveLine, queues
<1>2. PICK o \in Orders, l \in Nat :
        /\ o = OrderOf(w) /\ l = worker[w].line
        /\ l \in 1..Len(taken[o])
        /\ taken' = [taken EXCEPT ![o][l] = @ + 1]
  <2>1. /\ OrderOf(w) \in Orders /\ Len(taken[OrderOf(w)]) = Len(orders[OrderOf(w)].lines)
        /\ worker[w].line \in 1..Len(orders[OrderOf(w)].lines)
        /\ worker[w] \in WorkerState
    BY <1>1, Handling, AtLine
  <2>2. taken' = [taken EXCEPT ![OrderOf(w)][worker[w].line] = @ + 1]
    BY DEF ReserveLine, Decrement
  <2>3. worker[w].line \in Nat
    BY <2>1 DEF WorkerState
  <2> QED
    BY <2>1, <2>2, <2>3
<1>3. taken \in [Orders -> Seq(Nat)]
  BY <1>1 DEF IInv, TypeOK
<1>4. \A i \in DOMAIN taken[o] : taken[o][i] = IF i < l THEN 1 ELSE 0
  BY <1>1, <1>2 DEF TakenByFirst, FirstHandling, OrderOf
<1>5. /\ DOMAIN taken'[o] = DOMAIN taken[o]
      /\ \A i \in DOMAIN taken[o] : taken'[o][i] = IF i < l + 1 THEN 1 ELSE 0
      /\ \A p \in Orders \ {o} : taken'[p] = taken[p]
  <2>1. /\ taken'[o] = [taken[o] EXCEPT ![l] = @ + 1]
        /\ \A p \in Orders \ {o} : taken'[p] = taken[p]
    BY <1>2, <1>3
  <2>2. taken[o] \in Seq(Nat) /\ DOMAIN taken[o] = 1..Len(taken[o])
    BY <1>3
  <2> QED
    BY <1>2, <1>4, <2>1, <2>2
<1>6. /\ Holders(o) = {w} /\ Published(o)
      /\ \A m \in Msg : m.order = o => InQueues[m] = 0
  BY <1>1, <1>2, SoleCopy
<1>7. \A p \in Orders \ {o} : Untouched(p) => Untouched(p)'
  BY <1>5 DEF Untouched
<1>8. \A p \in Orders : ~Published(p)' => Untouched(p)'
  BY <1>1, <1>6, <1>7 DEF TakenByFirst, Published
<1>9. \A p \in Orders : \A i \in DOMAIN taken'[p] : taken'[p][i] <= 1
  BY <1>1, <1>5 DEF TakenByFirst
<1>10. ASSUME NEW m \in Msg, ready'[m] + waiting'[m] > 0, m.retry = 0
       PROVE  Untouched(m.order)'
  <2>1. m.order \in Orders /\ ready[m] \in Nat /\ waiting[m] \in Nat /\ dead[m] \in Nat
    BY <1>1 DEF Msg, IInv, TypeOK
  <2>2. m.order # o
    BY <1>1, <1>6, <1>10, <2>1 DEF InQueues
  <2> QED
    BY <1>1, <1>7, <1>10, <2>1, <2>2 DEF TakenByFirst
<1>11. ASSUME NEW v \in Workers PROVE FirstHandling(v)'
  <2>1. CASE v = w
    <3>1. /\ worker'[w].msg = worker[w].msg
          /\ \/ worker'[w].pc = "confirm"
             \/ worker'[w].pc = "reserve" /\ worker'[w].line = l + 1
      <4>1. CASE IsLast(w)
        <5>1. Go(w, "confirm", worker[w].version, 1, FALSE)
          BY <4>1 DEF ReserveLine
        <5> QED
          BY <1>1, <5>1, GoState
      <4>2. CASE ~IsLast(w)
        <5>1. PICK next : /\ next = l + 1
                          /\ Go(w, "reserve", worker[w].version, next, FALSE)
          BY <1>2, <4>2 DEF ReserveLine
        <5>2. Go(w, "reserve", worker[w].version, next, FALSE)
          BY <5>1
        <5>3. /\ worker'[w].msg = worker[w].msg /\ worker'[w].pc = "reserve"
              /\ worker'[w].line = next
          BY <1>1, <5>2 DEF Go, Become, State, IInv, TypeOK
        <5> QED
          BY <5>1, <5>3
      <4> QED
        BY <4>1, <4>2
    <3> QED
      BY <1>2, <1>5, <2>1, <3>1 DEF FirstHandling, OrderOf
  <2>2. CASE v # w /\ worker[v].pc \in {"find", "check", "reserve"}
    <3>1. PICK p \in Orders \ {o} : p = worker[v].msg.order
      BY <1>1, <1>2, <2>2, Handling, SoleHandler DEF OrderOf
    <3>2. worker'[v] = worker[v]
      BY <1>1, <2>2, GoState DEF ReserveLine
    <3>3. taken'[p] = taken[p] /\ (Untouched(p) => Untouched(p)')
      BY <1>5, <1>7
    <3>4. FirstHandling(v)
      BY <1>1 DEF TakenByFirst
    <3> QED
      BY <3>1, <3>2, <3>3, <3>4 DEF FirstHandling, Untouched
  <2>3. CASE v # w /\ worker[v].pc \notin {"find", "check", "reserve"}
    <3>1. worker'[v] = worker[v]
      BY <1>1, <2>3, GoState DEF ReserveLine
    <3> QED
      BY <2>3, <3>1 DEF FirstHandling
  <2> QED
    BY <2>1, <2>2, <2>3
<1> QED
  BY <1>8, <1>9, <1>10, <1>11 DEF TakenByFirst, Published

\* The other steps of a worker take nothing.
LEMMA ProcessFirst ==
  ASSUME FaultFree, NEW w \in Workers, Process(w) \/ Restart(w), ~ReserveLine(w)
  PROVE  TakenByFirst'
<1>1. /\ IInv /\ TakenByFirst /\ FirstHandling(w)
      /\ ready \in [Msg -> Nat] /\ waiting \in [Msg -> Nat]
  BY DEF FaultFree, FaultFreeInv, TakenByFirst, IInv, TypeOK
<1>2. taken' = taken /\ api' = api
  BY DEF Process, FindOrder, CheckLine, ReserveRefused, Confirm, Reject, LockConflict,
         PublishSnapshot, SnapshotThrows, Ack, HandleFailure, DieOnDeadChannel, Restart,
         UpdateStatus, db
<1>3. \A m \in Msg : ready'[m] + waiting'[m] > 0 /\ m.retry = 0 =>
        ready[m] + waiting[m] > 0
  <2>1. CASE HandleFailure(w)
    <3>1. PICK m \in Msg : m = worker[w].msg
      BY <1>1, <2>1, Handling DEF HandleFailure
    <3>2. m.retry \in Nat /\ m.order \in Orders /\ UNCHANGED ready /\ Resend(m)
      BY <2>1, <3>1, PipelineAssumption DEF HandleFailure, Msg
    <3>3. CASE m.retry >= MaxAttempts
      BY <3>2, <3>3 DEF Resend, DecideRetry
    <3>4. CASE ~(m.retry >= MaxAttempts)
      <4>1. PICK copy \in Msg : copy.retry = m.retry + 1 /\ waiting' = Put(waiting, copy)
        <5>1. [order |-> m.order, retry |-> m.retry + 1] \in Msg
          BY <3>2, <3>4, PipelineAssumption DEF Msg
        <5> QED
          BY <3>2, <3>4, <5>1 DEF Resend, DecideRetry
      <4>2. \A n \in Msg : n # copy => waiting'[n] = waiting[n]
        BY <1>1, <4>1 DEF Put
      <4> QED
        BY <3>2, <4>1, <4>2
    <3> QED
      BY <3>3, <3>4
  <2>2. CASE ~HandleFailure(w)
    <3>1. UNCHANGED <<ready, waiting>>
      BY <2>2 DEF Process, FindOrder, CheckLine, ReserveLine, ReserveRefused, Confirm,
         Reject, LockConflict, PublishSnapshot, SnapshotThrows, Ack, DieOnDeadChannel,
         Restart, queues
    <3> QED
      BY <3>1
  <2> QED
    BY <2>1, <2>2
<1>4. \A v \in Workers \ {w} : worker'[v] = worker[v]
  BY <1>1 DEF Process, FindOrder, CheckLine, ReserveLine, ReserveRefused, Confirm,
     Reject, LockConflict, PublishSnapshot, SnapshotThrows, Ack, HandleFailure,
     DieOnDeadChannel, Restart, Leave, Go, Become, IInv, TypeOK
<1>5. FirstHandling(w)'
  <2>1. PICK m : m = worker[w].msg
    OBVIOUS
  <2>2. CASE FindOrder(w)
    <3>1. /\ worker[w].pc = "find" /\ worker'[w].msg = m
          /\ worker'[w].pc \in {"fail", "check", "ack"}
      BY <1>1, <2>1, <2>2, GoState DEF FindOrder, Leave
    <3> QED
      BY <1>1, <1>2, <2>1, <3>1 DEF FirstHandling, Untouched
  <2>3. CASE CheckLine(w)
    <3>1. /\ worker[w].pc = "check" /\ worker'[w].msg = m /\ m \in Msg
          /\ \/ worker'[w].pc \in {"check", "reject"}
             \/ worker'[w].pc = "reserve" /\ worker'[w].line = 1
      BY <1>1, <2>1, <2>3, GoState, Handling DEF CheckLine
    <3>2. worker'[w].pc = "reserve" => m.retry = 0
      BY <2>3, <3>1, CheckUndisturbed DEF UndisturbedInv
    <3>3. m.order \in Orders /\ DOMAIN taken[m.order] \subseteq Nat \ {0}
      BY <1>1, <3>1 DEF Msg, IInv, TypeOK
    <3> QED
      BY <1>1, <1>2, <2>1, <3>1, <3>2, <3>3 DEF FirstHandling, Untouched
  <2>4. CASE \/ ReserveRefused(w) \/ Confirm(w) \/ Reject(w) \/ LockConflict(w)
             \/ PublishSnapshot(w) \/ SnapshotThrows(w)
    <3>1. worker'[w].pc \in {"fail", "snapshot", "ack"}
      BY <1>1, <2>4, GoState DEF ReserveRefused, Confirm, Reject, LockConflict,
         PublishSnapshot, SnapshotThrows, Leave
    <3> QED
      BY <3>1 DEF FirstHandling
  <2>5. CASE Ack(w) \/ HandleFailure(w) \/ DieOnDeadChannel(w) \/ Restart(w)
    <3>1. worker'[w].pc \in {"idle", "down"}
      BY <1>1, <2>5 DEF Ack, HandleFailure, DieOnDeadChannel, Restart, Become, Idle, Down,
         State, IInv, TypeOK
    <3> QED
      BY <3>1 DEF FirstHandling
  <2> QED
    BY <2>2, <2>3, <2>4, <2>5 DEF Process
<1>6. \A o \in Orders : Published(o) => Published(o)'
  BY <1>2 DEF Published
<1> QED
  BY <1>1, <1>2, <1>3, <1>4, <1>5, <1>6, FirstStays

LEMMA TakenByFirstStays ==
  ASSUME FaultFree, [Next]_vars, faults' = FaultBudget
  PROVE  TakenByFirst'
<1>1. /\ IInv /\ CopiesInv /\ TakenByFirst
      /\ ready \in [Msg -> Nat] /\ waiting \in [Msg -> Nat]
  BY DEF FaultFree, FaultFreeInv, IInv, TypeOK
<1>a. \A o \in Orders : Published(o) => Published(o)'
  BY <1>1, StaysPublished
<1>2. ASSUME NEW p \in Orders, FlushEvent(p) PROVE TakenByFirst'
  <2> DEFINE m == [order |-> p, retry |-> 0]
  <2>1. m \in Msg /\ m.order = p
    BY PipelineAssumption DEF Msg
  <2>2. /\ ready' = Put(ready, m) /\ UNCHANGED <<waiting, worker, taken>>
        /\ ~Published(p)
    BY <1>1, <1>2 DEF FlushEvent, Published, db
  <2> HIDE DEF m
  <2>3. Untouched(m.order)
    BY <1>1, <2>1, <2>2 DEF TakenByFirst, Published
  <2>4. \A n \in Msg : ready'[n] + waiting'[n] > 0 => ready[n] + waiting[n] > 0 \/ n = m
    BY <1>1, <2>1, <2>2 DEF Put
  <2> QED
    BY <1>1, <1>a, <2>2, <2>3, <2>4, FirstStays
<1>3. ASSUME NEW w \in Workers, NEW m \in Msg, Deliver(w, m) PROVE TakenByFirst'
  <2>1. /\ ready[m] > 0 /\ ready' = Take(ready, m) /\ UNCHANGED <<waiting, api, taken>>
        /\ worker'[w] = Begin(m) /\ \A v \in Workers \ {w} : worker'[v] = worker[v]
    BY <1>1, <1>3 DEF Deliver, Become, db, IInv, TypeOK
  <2>2. \A n \in Msg : ready'[n] + waiting'[n] > 0 => ready[n] + waiting[n] > 0
    BY <1>1, <2>1 DEF Take
  <2>3. ready[m] + waiting[m] > 0
    BY <1>1, <2>1
  <2>4. m.retry = 0 => Untouched(m.order)
    BY <1>1, <2>3 DEF TakenByFirst
  <2>5. FirstHandling(w)'
    BY <2>1, <2>4 DEF FirstHandling, Begin, State, Untouched
  <2> QED
    BY <1>1, <1>a, <2>1, <2>2, <2>5, FirstStays
<1>4. ASSUME NEW m \in Msg, ExpireRetry(m) PROVE TakenByFirst'
  <2>1. /\ waiting[m] > 0 /\ waiting' = Take(waiting, m) /\ ready' = Put(ready, m)
        /\ UNCHANGED <<api, taken, worker>>
    BY <1>4 DEF ExpireRetry, db
  <2>2. \A n \in Msg : ready'[n] + waiting'[n] > 0 => ready[n] + waiting[n] > 0
    BY <1>1, <2>1 DEF Take, Put
  <2> QED
    BY <1>1, <1>a, <2>1, <2>2, FirstStays
<1>5. ASSUME NEW p \in Orders, ApiQuiet(p) PROVE TakenByFirst'
  BY <1>1, <1>a, <1>5, ApiQuietKeeps, FirstStays
<1>6. ASSUME UNCHANGED vars PROVE TakenByFirst'
  BY <1>1, <1>a, <1>6, FirstStays DEF vars, db, queues
<1> QED
  BY <1>1, <1>2, <1>3, <1>4, <1>5, <1>6, StoreFirst, ReserveFirst, ProcessFirst, FaultFreeSteps

------------------------------------------------------------------------------
(* Theorems about a system that nothing disturbs.                           *)

LEMMA InitFaultFree == Init => FaultFreeInv
<1> SUFFICES ASSUME Init PROVE FaultFreeInv
  OBVIOUS
<1>1. ASSUME NEW w \in Workers PROVE UndisturbedInv(w)
  BY DEF Init, UndisturbedInv, Idle, State
<1>2. ReadyExcused /\ DeadUnreadable
  BY DEF Init, ReadyExcused, DeadUnreadable
<1>3. ASSUME NEW o \in Orders PROVE TakenOnce(o)
  BY DEF Init, TakenOnce, NoOrder
<1>4. TakenByFirst
  BY DEF Init, TakenByFirst, Untouched, FirstHandling, Idle, State
<1> QED
  BY <1>1, <1>2, <1>3, <1>4 DEF FaultFreeInv, ReadyExcused, DeadUnreadable, TakenOnce

LEMMA NextFaultFree ==
  ASSUME IInv, CopiesInv, FaultFreeInv, [Next]_vars
  PROVE  FaultFreeInv'
<1> SUFFICES ASSUME faults' = FaultBudget
             PROVE  /\ \A w \in Workers : UndisturbedInv(w)'
                    /\ ReadyExcused' /\ DeadUnreadable'
                    /\ \A o \in Orders : TakenOnce(o)'
                    /\ TakenByFirst'
  BY DEF FaultFreeInv, ReadyExcused, DeadUnreadable, TakenOnce
<1>1. FaultFree
  BY FaultsSpent, NoFaultYet DEF FaultFree
<1> QED
  BY <1>1, WorkersUndisturbed, MessagesUndisturbed, TakenUndisturbed, TakenByFirstStays

\* The inductive invariant of a system in which nothing has failed: each retry
\* of a handler has its reason, and no order has two handlers (worker.js:75-124).
THEOREM FaultFreeInvariance == Spec => [](IInv /\ CopiesInv /\ FaultFreeInv)
<1>1. Init => IInv /\ CopiesInv /\ FaultFreeInv
  BY InitIInv, InitCopies, InitFaultFree
<1>2. (IInv /\ CopiesInv /\ FaultFreeInv) /\ [Next]_vars
        => (IInv /\ CopiesInv /\ FaultFreeInv)'
  BY NextIInv, NextCopies, NextFaultFree
<1> QED
  BY <1>1, <1>2, PTL DEF Spec

\* Without a fault nobody's order is given up, however many workers fight for
\* the same stock: only what cannot be read is dead-lettered (worker.js:75-124).
THEOREM OnlyUnreadableDie == Spec => []DeadLettersMeanFaults
<1>1. FaultFreeInv => DeadLettersMeanFaults
  BY DEF FaultFreeInv, DeadLettersMeanFaults
<1> QED
  BY <1>1, FaultFreeInvariance, PTL

LEMMA TakenExactly == IInv /\ FaultFreeInv => ExactReservation
<1> SUFFICES ASSUME IInv, FaultFreeInv, faults = FaultBudget, NEW o \in Orders,
                    NEW i \in DOMAIN orders[o].lines
             PROVE  /\ taken[o][i] <= 1
                    /\ orders[o].status = "CONFIRMED" => taken[o][i] = 1
                    /\ orders[o].status = "REJECTED" /\ Len(orders[o].lines) = 1 =>
                         taken[o][i] = 0
  BY DEF ExactReservation
<1>1. /\ orders[o].lines \in Seq([sku : SkuNames, qty : Int]) /\ taken[o] \in Seq(Nat)
      /\ Len(taken[o]) = Len(orders[o].lines)
  BY DEF IInv, TypeOK, OrderRow, RowsInv
<1>2. i \in DOMAIN taken[o] /\ taken[o][i] \in Nat /\ i \in 1..Len(orders[o].lines)
  BY <1>1
<1>3. taken[o][i] <= 1
  BY <1>2 DEF FaultFreeInv, TakenByFirst
<1>4. orders[o].status = "CONFIRMED" => taken[o][i] >= 1
  BY DEF IInv, ReservedBeforeConfirmed
<1>5. ASSUME orders[o].status = "REJECTED", Len(orders[o].lines) = 1
      PROVE  taken[o][i] = 0
  <2>1. taken[o][1] = IF Confirming(o) THEN 1 ELSE 0
    BY <1>5 DEF FaultFreeInv
  <2>2. ~Confirming(o)
    <3>1. ASSUME NEW w \in Workers, worker[w].pc = "confirm", OrderOf(w) = o PROVE FALSE
      BY <1>5, <3>1 DEF FaultFreeInv, UndisturbedInv, OrderOf
    <3> QED
      BY <1>5, <3>1 DEF Confirming
  <2>3. i = 1
    BY <1>2, <1>5
  <2> QED
    BY <2>1, <2>2, <2>3
<1> QED
  BY <1>2, <1>3, <1>4, <1>5

\* Without a fault no line is ever taken twice: a confirmed order of any number
\* of lines has each exactly once, however often it was retried, and a rejected
\* one of a single line leaves the stock alone (OrderProcessingService.js:28-50).
THEOREM StockTakenExactly == Spec => []ExactReservation
BY FaultFreeInvariance, TakenExactly, PTL

------------------------------------------------------------------------------
(* What a 202 stands for.                                                   *)

\* What the broker has it keeps until the order is decided; what it never got
\* was in the buffer of an API process that was killed or lost its connection.
BufferInv ==
  \A o \in Orders :
    /\ Published(o) => Tracked(o) \/ Resolved(o)
    /\ api[o].event = "lost" => DiedInBuffer(api[o].event)

\* Who suffered once has suffered for good.
LEMMA SufferedStays ==
  ASSUME IInv, CopiesInv, Spends
  PROVE  /\ Suffered("crash") + Suffered("conn") > 0 =>
              Suffered("crash")' + Suffered("conn")' > 0
         /\ Suffer("crash") \/ Suffer("conn") =>
              Suffered("crash")' + Suffered("conn")' > 0
<1>1. /\ faults \in [Faults -> Nat] /\ FaultBudget \in [Faults -> Nat]
      /\ "conn" \in Faults /\ "crash" \in Faults /\ "db" \in Faults
  BY PipelineAssumption DEF IInv, TypeOK, Faults
<1>2. Doublings \in Nat
  BY <1>1 DEF CopiesInv, Doublings
<1>3. Doublings' >= Doublings /\ Doublings' \in Nat
  BY <1>1, <1>2, SpendingCounts DEF Spends, Doublings
<1>4. Suffer("crash") \/ Suffer("conn") => Doublings' > 0
  BY <1>1, <1>2, SpendingCounts
<1>5. /\ Suffered("crash") + Suffered("conn") = Doublings
      /\ Suffered("crash")' + Suffered("conn")' = Doublings'
  <2>1. /\ faults["crash"] \in Nat /\ faults["conn"] \in Nat
        /\ FaultBudget["crash"] \in Nat /\ FaultBudget["conn"] \in Nat
    BY <1>1
  <2>2. faults'["crash"] \in Int /\ faults'["conn"] \in Int
    BY <1>1, <2>1, SpendingCounts DEF Spends
  <2> QED
    BY <2>1, <2>2 DEF Suffered, Doublings
<1> QED
  BY <1>2, <1>3, <1>4, <1>5

LEMMA NextBuffer ==
  ASSUME IInv, CopiesInv, BufferInv, [Next]_vars
  PROVE  BufferInv'
<1> SUFFICES ASSUME NEW o \in Orders
             PROVE  /\ Published(o)' => Tracked(o)' \/ Resolved(o)'
                    /\ api'[o].event = "lost" => DiedInBuffer(api[o].event)'
  BY DEF BufferInv
<1>1. IInv'
  BY NextIInv
<1>2. CASE FlushEvent(o)
  <2> DEFINE m == [order |-> o, retry |-> 0]
  <2>1. ready' = Put(ready, m) /\ api'[o].event = "sent"
    BY <1>2 DEF FlushEvent, Request, IInv, TypeOK
  <2>2. m \in Msg /\ m.order = o
    BY PipelineAssumption DEF Msg
  <2>3. ready \in [Msg -> Nat]
    BY DEF IInv, TypeOK
  <2> HIDE DEF m
  <2>4. ready'[m] > 0
    BY <2>1, <2>2, <2>3, PutCounts
  <2> QED
    BY <1>1, <2>1, <2>2, <2>4, TrackedInQueue
<1>3. CASE Moves(api[o].event, api'[o].event)
  <2>1. ASSUME Published(o)' PROVE Tracked(o)' \/ Resolved(o)'
    <3>1. Tracked(o) \/ Resolved(o)
      BY <1>3, <2>1 DEF Moves, Published, BufferInv
    <3>2. Resolved(o) => Resolved(o)'
      BY ReasonStays DEF Resolved
    <3> QED
      BY <1>1, <3>1, <3>2, StepTracks
  <2>2. ASSUME api'[o].event = "lost" PROVE DiedInBuffer(api[o].event)'
    <3>1. \/ DiedInBuffer(api[o].event)
          \/ Suffer("crash") \/ Suffer("conn")
      BY <1>3, <2>2 DEF Moves, BufferInv
    <3> QED
      BY <2>2, <3>1, FaultsSpent, SufferedStays DEF DiedInBuffer
  <2> QED
    BY <2>1, <2>2
<1> QED
  BY <1>2, <1>3, EventMoves

LEMMA InitBuffer == Init => BufferInv
BY DEF Init, BufferInv, Published, Request

LEMMA BufferSuffices == IInv /\ BufferInv => AcceptedIsTracked
<1> SUFFICES ASSUME IInv, BufferInv, NEW o \in Orders,
                    api[o].state \in {"published", "accepted"}
             PROVE  \/ Tracked(o) \/ Resolved(o) \/ api[o].event = "buffered"
                    \/ DiedInBuffer(api[o].event)
  BY DEF AcceptedIsTracked
<1>1. api[o].event \in {"buffered", "sent", "lost"}
  BY DEF IInv, TypeOK, Requests, Stages, RequestsInv, InStep
<1> QED
  BY <1>1 DEF BufferInv, Published

\* An order answered with 202 is decided, or its event is in the API's buffer, in
\* a queue or with a worker that gives it back, or it died in that buffer with
\* the API process or its connection (events/OrderEventPublisher.js:17-29).
THEOREM AcceptedAreTracked == Spec => []AcceptedIsTracked
<1>1. Init => BufferInv
  BY InitBuffer
<1>2. IInv /\ CopiesInv /\ BufferInv /\ [Next]_vars => BufferInv'
  BY NextBuffer
<1>3. IInv /\ BufferInv => AcceptedIsTracked
  BY BufferSuffices
<1> QED
  BY <1>1, <1>2, <1>3, CopiesInvariance, PTL DEF Spec
==============================================================================
