-------------------------- MODULE OrderSystemProofs --------------------------
(***************************************************************************)
(* Proofs about OrderSystem: what the read store shows, for every number of *)
(* orders, workers and snapshots in flight, and any number of faults, and   *)
(* that the write path keeps its promises beside a sync worker that drains  *)
(* its queue of snapshots and shares its faults.                            *)
(***************************************************************************)
EXTENDS OrderSystem, OrderStockProofs, OrderCopiesProofs

------------------------------------------------------------------------------
(* The inductive invariant.                                                 *)

\* What a snapshot says is a status that its order has had, and a final one is
\* the order's for good.
Truthful(s) ==
  /\ orders[s.order].status # "NONE"
  /\ s.status \in {"PENDING", orders[s.order].status}

\* The sync worker works only on snapshots that tell the truth.
HeldAreTruthful == \A s \in Snapshot : held[s] + applied[s] > 0 => Truthful(s)

\* What handlers of a closed channel still hold is in the queue again, and a
\* process that is gone holds nothing.
TakenBack ==
  /\ consumer = "deaf" => \A s \in Snapshot : held[s] + applied[s] > 0 => sync[s] > 0
  /\ consumer = "down" => \A s \in Snapshot : held[s] + applied[s] = 0

SystemInv ==
  /\ IInv
  /\ SystemTypeOK
  /\ HeldAreTruthful
  /\ TakenBack
  /\ ReadStoreNeverAhead

------------------------------------------------------------------------------
(* A step of the write side.                                                *)

\* An order that is stored stays stored, and one that is decided stays decided.
LEMMA StatusStands ==
  ASSUME IInv, [Next]_vars, NEW o \in Orders, orders[o].status # "NONE"
  PROVE  /\ orders'[o].status # "NONE"
         /\ orders[o].status # "PENDING" => orders'[o].status = orders[o].status
<1>1. CASE UNCHANGED orders
  BY <1>1
<1>2. CASE Lifecycle!Next
  <2> DEFINE bar == [p \in Orders |-> IF orders[p].status = "NONE"
                                      THEN "DRAFT" ELSE orders[p].status]
  <2>1. orders[o].status \in {"PENDING", "CONFIRMED", "REJECTED"}
        /\ orders'[o].status \in {"NONE", "PENDING", "CONFIRMED", "REJECTED"}
    <3>1. IInv'
      BY NextIInv
    <3> QED
      BY <3>1 DEF IInv, TypeOK, OrderRow
  <2>2. PICK p \in Orders, to \in {"PENDING", "CONFIRMED", "REJECTED", "CANCELLED"} :
          /\ bar' = [bar EXCEPT ![p] = to]
          /\ to = "PENDING" => bar[p] = "DRAFT"
          /\ to \in {"CONFIRMED", "REJECTED"} => bar[p] = "PENDING"
    BY <1>2 DEF Lifecycle!Next, Lifecycle!Submit, Lifecycle!Confirm,
                Lifecycle!Reject, Lifecycle!Cancel, Lifecycle!Move
  <2> QED
    BY <2>1, <2>2
<1> QED
  BY <1>1, <1>2, LifecycleStep

\* The write side only adds to the queue of snapshots.
LEMMA SyncGrows ==
  ASSUME IInv, [Next]_vars, NEW s \in Snapshot
  PROVE  sync'[s] >= sync[s]
<1>1. sync \in [Snapshot -> Nat]
  BY DEF IInv, TypeOK
<1>2. ASSUME NEW t \in Snapshot, sync' = Put(sync, t) PROVE sync'[s] >= sync[s]
  BY <1>1, <1>2 DEF Put
<1>3. ASSUME NEW o \in Orders, ApiStep(o) PROVE sync'[s] >= sync[s]
  <2>1. [order |-> o, status |-> "PENDING"] \in Snapshot
    BY DEF Snapshot
  <2> QED
    BY <1>1, <1>2, <1>3, <2>1 DEF ApiStep, RefuseOrder, SaveOrder, SaveFails,
       PublishOrderCreated, PublishPendingSnapshot, PendingTotalThrows,
       PublishThrows, FlushEvent, FlushSnapshot
<1>4. ASSUME NEW w \in Workers, Process(w) PROVE sync'[s] >= sync[s]
  <2>1. CASE PublishSnapshot(w)
    <3>1. OrderOf(w) \in Orders
      BY <2>1, Handling DEF PublishSnapshot
    <3>2. [order |-> OrderOf(w), status |-> Outcome(w)] \in Snapshot
      BY <3>1 DEF Snapshot, Outcome
    <3> QED
      BY <1>2, <2>1, <3>2 DEF PublishSnapshot
  <2>2. CASE ~PublishSnapshot(w)
    <3>1. sync' = sync
      BY <1>4, <2>2 DEF Process, FindOrder, CheckLine, ReserveLine, ReserveRefused,
         Confirm, Reject, LockConflict, SnapshotThrows, Ack, HandleFailure,
         DieOnDeadChannel
    <3> QED
      BY <1>1, <3>1
  <2> QED
    BY <2>1, <2>2
<1>5. ASSUME NEW w \in Workers, WorkerFault(w) PROVE sync'[s] >= sync[s]
  <2>1. sync' = sync
    BY <1>5 DEF WorkerFault, DbError, Crash, CrashBetweenPublishAndAck,
       LoseConnection, LoseSnapshot, LoseAck
  <2> QED
    BY <1>1, <2>1
<1> QED
  BY <1>1, <1>3, <1>4, <1>5 DEF Next, ApiFault, ApiCrash, ApiLosesConnection,
     Deliver, Restart, ExpireRetry, vars

LEMMA WriteStepInv ==
  ASSUME SystemInv, [Next]_vars, UNCHANGED readVars
  PROVE  SystemInv'
<1> USE DEF SystemInv, readVars
<1>1. IInv'
  BY NextIInv
<1>2. SystemTypeOK'
  BY <1>1 DEF SystemTypeOK, IInv
<1>3. HeldAreTruthful'
  <2> SUFFICES ASSUME NEW s \in Snapshot, held[s] + applied[s] > 0
               PROVE  Truthful(s)'
    BY DEF HeldAreTruthful
  <2>1. s.order \in Orders /\ s.status \in {"PENDING", "CONFIRMED", "REJECTED"}
    BY DEF Snapshot
  <2>2. Truthful(s)
    BY DEF HeldAreTruthful
  <2> QED
    BY <2>1, <2>2, StatusStands DEF Truthful
<1>4. TakenBack'
  <2>1. \A s \in Snapshot : sync[s] \in Nat /\ sync'[s] \in Nat
    BY <1>1 DEF IInv, TypeOK
  <2>2. \A s \in Snapshot : sync[s] > 0 => sync'[s] > 0
    BY <2>1, SyncGrows
  <2> QED
    BY <2>2 DEF TakenBack
<1>5. ReadStoreNeverAhead'
  BY StatusStands DEF ReadStoreNeverAhead
<1> QED
  BY <1>1, <1>2, <1>3, <1>4, <1>5

------------------------------------------------------------------------------
(* A step of the read side.                                                 *)

\* What such a step does to the snapshots and the documents.
ReadMoves ==
  /\ sync' \in [Snapshot -> Nat]
  /\ held' \in [Snapshot -> Nat]
  /\ applied' \in [Snapshot -> Nat]
  /\ consumer' \in {"subscribed", "deaf", "down"}
  /\ TakenBack'
  /\ \A s \in Snapshot :
       sync'[s] + held'[s] + applied'[s] > 0 => sync[s] + held[s] + applied[s] > 0
  /\ \/ readStore' = readStore
     \/ \E s \in Snapshot : /\ held[s] > 0
                            /\ readStore' = [readStore EXCEPT ![s.order] = s.status]
  /\ \A s \in Snapshot :
       Outstanding(s) => Outstanding(s)' \/ readStore'[s.order] = s.status

ReadTypes ==
  /\ sync \in [Snapshot -> Nat]
  /\ held \in [Snapshot -> Nat]
  /\ applied \in [Snapshot -> Nat]
  /\ consumer \in {"subscribed", "deaf", "down"}
  /\ readStore \in [Orders -> {"NONE", "PENDING", "CONFIRMED", "REJECTED"}]
  /\ TakenBack

LEMMA DeliverMoves ==
  ASSUME ReadTypes, NEW s \in Snapshot, ReadSide!DeliverSnapshot(s)
  PROVE  ReadMoves
BY DEF ReadTypes, ReadSide!DeliverSnapshot, ReadMoves, TakenBack, Outstanding

LEMMA ApplyMoves ==
  ASSUME ReadTypes, NEW s \in Snapshot, ReadSide!ApplySnapshot(s)
  PROVE  ReadMoves
<1> USE DEF ReadTypes, ReadSide!ApplySnapshot
<1>1. readStore' = [readStore EXCEPT ![s.order] = s.status]
  BY DEF ReadSide!Upsert
<1>2. readStore'[s.order] = s.status
  BY <1>1 DEF Snapshot
<1>3. /\ sync' = sync /\ consumer' = consumer /\ consumer \in {"subscribed", "deaf", "down"}
      /\ held' \in [Snapshot -> Nat] /\ applied' \in [Snapshot -> Nat]
      /\ held[s] > 0 /\ sync \in [Snapshot -> Nat] /\ TakenBack
  OBVIOUS
<1>4. \A t \in Snapshot :
        /\ held'[t] + applied'[t] = held[t] + applied[t]
        /\ t # s => held'[t] = held[t]
        /\ sync[t] \in Nat /\ held[t] \in Nat /\ applied[t] \in Nat
        /\ held'[t] \in Nat /\ applied'[t] \in Nat
  OBVIOUS
<1> HIDE DEF ReadTypes, ReadSide!ApplySnapshot
<1>5. ASSUME NEW t \in Snapshot
      PROVE  /\ held[t] + applied[t] > 0 <=> held'[t] + applied'[t] > 0
             /\ held[t] + applied[t] = 0 <=> held'[t] + applied'[t] = 0
             /\ sync'[t] + held'[t] + applied'[t] > 0 =>
                  sync[t] + held[t] + applied[t] > 0
             /\ Outstanding(t) => Outstanding(t)' \/ readStore'[t.order] = t.status
  BY <1>2, <1>3, <1>4 DEF Outstanding
<1>6. TakenBack'
  BY <1>3, <1>5 DEF TakenBack
<1> QED
  BY <1>1, <1>3, <1>5, <1>6 DEF ReadMoves

LEMMA AckMoves ==
  ASSUME ReadTypes, NEW s \in Snapshot, ReadSide!AckSnapshot(s)
  PROVE  ReadMoves
BY DEF ReadTypes, ReadSide!AckSnapshot, ReadMoves, TakenBack, Outstanding

LEMMA RequeueMoves ==
  ASSUME ReadTypes, NEW s \in Snapshot, ReadSide!RequeueSnapshot(s)
  PROVE  ReadMoves
<1> USE DEF ReadTypes, ReadSide!RequeueSnapshot
<1>1. readStore' = readStore \/ readStore' = [readStore EXCEPT ![s.order] = s.status]
  BY DEF ReadSide!Upsert
<1>2. /\ applied' = applied /\ consumer' = consumer /\ consumer = "subscribed"
      /\ held' \in [Snapshot -> Nat] /\ sync' \in [Snapshot -> Nat] /\ held[s] > 0
      /\ \A t \in Snapshot : sync'[t] + held'[t] = sync[t] + held[t]
  OBVIOUS
<1> QED
  BY <1>1, <1>2 DEF ReadMoves, TakenBack, Outstanding

LEMMA LoseSubscriptionMoves ==
  ASSUME ReadTypes, ReadSide!LoseSubscription
  PROVE  ReadMoves
BY DEF ReadTypes, ReadSide!LoseSubscription, ReadSide!TakeBack,
       ReadSide!NoSnapshots, ReadMoves, TakenBack, Outstanding

LEMMA DeathMoves ==
  ASSUME ReadTypes,
         \/ ReadSide!DieDeaf
         \/ ReadSide!SyncCrash
         \/ \E s \in Snapshot : ReadSide!FailDeaf(s)
  PROVE  ReadMoves
<1> USE DEF ReadTypes, ReadSide!DieDeaf, ReadSide!SyncCrash, ReadSide!FailDeaf
<1>1. /\ consumer' = "down"
      /\ held' \in [Snapshot -> Nat] /\ applied' \in [Snapshot -> Nat]
      /\ \A t \in Snapshot : held'[t] = 0 /\ applied'[t] = 0
  BY DEF ReadSide!Die, ReadSide!NoSnapshots
<1>2. \/ readStore' = readStore
      \/ \E s \in Snapshot : /\ held[s] > 0
                             /\ readStore' = [readStore EXCEPT ![s.order] = s.status]
  BY DEF ReadSide!Upsert
<1>3. \/ consumer = "deaf" /\ sync' = sync
      \/ sync' = [t \in Snapshot |-> sync[t] + held[t] + applied[t]]
  BY DEF ReadSide!TakeBack
<1>4. /\ sync' \in [Snapshot -> Nat]
      /\ \A t \in Snapshot :
           /\ sync'[t] > 0 => sync[t] + held[t] + applied[t] > 0
           /\ sync[t] + held[t] > 0 => sync'[t] > 0
  BY <1>3 DEF TakenBack
<1> QED
  BY <1>1, <1>2, <1>4 DEF ReadMoves, TakenBack, Outstanding

LEMMA RestartMoves ==
  ASSUME ReadTypes, ReadSide!SyncRestart
  PROVE  ReadMoves
BY DEF ReadTypes, ReadSide!SyncRestart, ReadMoves, TakenBack, Outstanding

LEMMA ReadStepMoves ==
  ASSUME SystemInv, ReadStep
  PROVE  ReadMoves /\ faults' \in [Faults -> Nat]
<1>1. ReadTypes
  BY DEF SystemInv, SystemTypeOK, TypeOK, ReadTypes
<1>2. faults' \in [Faults -> Nat]
  BY SufferType DEF ReadStep, SystemInv, SystemTypeOK, TypeOK, Faults
<1>3. ReadMoves
  BY <1>1, DeliverMoves, ApplyMoves, AckMoves, RequeueMoves, LoseSubscriptionMoves,
     DeathMoves, RestartMoves
     DEF ReadStep, ReadSide!Consume, ReadSide!Recover
<1> QED
  BY <1>2, <1>3

\* What the read side takes from the queue is as true as what it had.
LEMMA ReadStepInv ==
  ASSUME SystemInv, ReadStep, UNCHANGED <<db, queues, api, worker>>
  PROVE  SystemInv'
<1> USE DEF SystemInv, db, queues
<1>1. ReadMoves /\ faults' \in [Faults -> Nat]
  BY ReadStepMoves
<1>2. TypeOK'
  BY <1>1 DEF IInv, TypeOK, ReadMoves
<1>3. \A s \in Snapshot : /\ sync[s] \in Nat /\ held[s] \in Nat /\ applied[s] \in Nat
                          /\ sync'[s] \in Nat /\ held'[s] \in Nat /\ applied'[s] \in Nat
  BY <1>1 DEF SystemTypeOK, TypeOK, ReadMoves
<1>4. \A s \in Snapshot : sync[s] + held[s] + applied[s] > 0 => Truthful(s)
  <2> SUFFICES ASSUME NEW s \in Snapshot, sync[s] + held[s] + applied[s] > 0
               PROVE  Truthful(s)
    OBVIOUS
  <2>1. sync[s] > 0 \/ held[s] + applied[s] > 0
    BY <1>3
  <2> QED
    BY <2>1 DEF HeldAreTruthful, IInv, SnapshotsTellTheTruth, Truthful
<1>5. \A s \in Snapshot : sync'[s] + held'[s] + applied'[s] > 0 => Truthful(s)'
  BY <1>1, <1>4 DEF ReadMoves, Truthful
<1>6. SnapshotsTellTheTruth' /\ HeldAreTruthful'
  BY <1>3, <1>5 DEF SnapshotsTellTheTruth, HeldAreTruthful, Truthful
<1>7. RowsInv' /\ RequestsInv' /\ EventsInv' /\ ReservedBeforeConfirmed'
      /\ RejectedOnlyIfShort'
  BY DEF IInv, RowsInv, RequestsInv, InStep, UnderWay, IsBuffered, EventsInv,
         ReservedBeforeConfirmed, RejectedOnlyIfShort, Short
<1>8. \A w \in Workers : WorkerInv(w)'
  BY DEF IInv, WorkerInv, OrderOf, Outcome, Resolved, Short
<1>9. SystemTypeOK' /\ ReadStoreNeverAhead'
  <2>1. CASE readStore' = readStore
    BY <1>1, <1>2, <2>1 DEF SystemTypeOK, ReadStoreNeverAhead, ReadMoves
  <2>2. ASSUME NEW s \in Snapshot, held[s] > 0,
               readStore' = [readStore EXCEPT ![s.order] = s.status]
        PROVE  SystemTypeOK' /\ ReadStoreNeverAhead'
    <3>1. s.order \in Orders /\ s.status \in {"PENDING", "CONFIRMED", "REJECTED"}
      BY DEF Snapshot
    <3>2. Truthful(s)
      BY <1>3, <1>4, <2>2
    <3>3. SystemTypeOK'
      BY <1>1, <1>2, <2>2, <3>1 DEF SystemTypeOK, ReadMoves
    <3> QED
      BY <2>2, <3>1, <3>2, <3>3 DEF SystemTypeOK, ReadStoreNeverAhead, Truthful
  <2> QED
    BY <1>1, <2>1, <2>2 DEF ReadMoves
<1> QED
  BY <1>1, <1>2, <1>6, <1>7, <1>8, <1>9 DEF IInv, ReadMoves

------------------------------------------------------------------------------
(* Theorems.                                                                *)

LEMMA SystemInitInv == SystemInit => SystemInv
<1> SUFFICES ASSUME SystemInit PROVE SystemInv
  OBVIOUS
<1> USE DEF SystemInit, ReadSide!InitReadSide, ReadSide!NoSnapshots
<1>1. IInv
  BY InitIInv
<1>2. SystemTypeOK
  BY <1>1 DEF IInv, SystemTypeOK
<1>3. HeldAreTruthful /\ TakenBack /\ ReadStoreNeverAhead
  BY DEF HeldAreTruthful, TakenBack, ReadStoreNeverAhead
<1> QED
  BY <1>1, <1>2, <1>3 DEF SystemInv

LEMMA SystemStepInv == SystemInv /\ [SystemNext]_systemVars => SystemInv'
<1> SUFFICES ASSUME SystemInv, [SystemNext]_systemVars PROVE SystemInv'
  OBVIOUS
<1>1. CASE [Next]_vars /\ UNCHANGED readVars
  BY <1>1, WriteStepInv
<1>2. CASE ReadStep /\ UNCHANGED <<db, queues, api, worker>>
  BY <1>2, ReadStepInv
<1> QED
  BY <1>1, <1>2 DEF SystemNext, systemVars

\* The inductive invariant of the whole order path.
THEOREM SystemInvariance == SystemSpec => []SystemInv
BY SystemInitInv, SystemStepInv, PTL DEF SystemSpec

\* Counts of snapshots stay natural numbers and documents copy snapshots,
\* through redelivery, failed upserts and crashes (syncWorker.js:36-53).
THEOREM SystemTypeCorrect == SystemSpec => []SystemTypeOK
<1>1. SystemInv => SystemTypeOK
  BY DEF SystemInv
<1> QED
  BY <1>1, SystemInvariance, PTL

\* GET /orders/:id may be late, never wrong (queries/GetOrderQueryHandler.js:15-21),
\* for any number of snapshots handled at once and any number of faults.
THEOREM NeverAhead == SystemSpec => []ReadStoreNeverAhead
<1>1. SystemInv => ReadStoreNeverAhead
  BY DEF SystemInv
<1> QED
  BY <1>1, SystemInvariance, PTL

\* A snapshot leaves the sync worker and its queue only by being shown
\* (syncWorker.js:36-53).
THEOREM SnapshotsAreShown == SystemSpec => SnapshotHeldUntilShown
<1>1. SystemInv /\ [SystemNext]_systemVars =>
        [\A s \in Snapshot :
           Outstanding(s) => Outstanding(s)' \/ readStore'[s.order] = s.status
        ]_systemVars
  <2> SUFFICES ASSUME SystemInv, [SystemNext]_systemVars,
                      NEW s \in Snapshot, Outstanding(s)
               PROVE  Outstanding(s)' \/ readStore'[s.order] = s.status
    OBVIOUS
  <2>1. CASE [Next]_vars /\ UNCHANGED readVars
    <3>1. sync'[s] >= sync[s] /\ held' = held
      BY <2>1, SyncGrows DEF SystemInv, readVars
    <3>2. IInv'
      BY <2>1, NextIInv DEF SystemInv
    <3>3. sync[s] \in Nat /\ sync'[s] \in Nat /\ held[s] \in Nat
      BY <3>2 DEF SystemInv, SystemTypeOK, IInv, TypeOK
    <3> QED
      BY <3>1, <3>3 DEF Outstanding
  <2>2. CASE ReadStep /\ UNCHANGED <<db, queues, api, worker>>
    BY <2>2, ReadStepMoves DEF ReadMoves
  <2> QED
    BY <2>1, <2>2 DEF SystemNext, systemVars
<1> QED
  BY <1>1, SystemInvariance, PTL DEF SystemSpec, SnapshotHeldUntilShown

------------------------------------------------------------------------------
(* The write side beside the read side.                                     *)

\* The PENDING snapshot of an order that left the API's buffer is shown or on its
\* way; one that did not died there, with the process or its connection.
ShownInv ==
  \A o \in Orders :
    /\ api[o].snapshot = "sent" =>
         readStore[o] # "NONE" \/ \E s \in Snapshot : s.order = o /\ Outstanding(s)
    /\ api[o].snapshot = "lost" => DiedInBuffer(api[o].snapshot)

\* The inductive invariants of the write side, and what a 202 stands for.
PathInv ==
  /\ StockInv
  /\ CopiesInv
  /\ FaultFreeInv
  /\ BufferInv
  /\ ShownInv

LEMMA ShownSuffices == SystemInv /\ PathInv => AcceptedIsTracked /\ AcceptedIsShown
<1> SUFFICES ASSUME SystemInv, PathInv PROVE AcceptedIsTracked /\ AcceptedIsShown
  OBVIOUS
<1>1. AcceptedIsTracked
  BY BufferSuffices DEF SystemInv, PathInv
<1>2. ASSUME NEW o \in Orders, api[o].state = "accepted"
      PROVE  \/ api[o].snapshot = "sent" \/ api[o].snapshot = "buffered"
             \/ api[o].snapshot = "lost"
  BY <1>2 DEF SystemInv, IInv, TypeOK, Requests, Stages, RequestsInv, InStep
<1> QED
  BY <1>1, <1>2 DEF AcceptedIsShown, PathInv, ShownInv

\* The way of the snapshot of a request.
LEMMA SnapshotMoves ==
  ASSUME IInv, [Next]_vars, NEW o \in Orders
  PROVE  \/ FlushSnapshot(o)
         \/ api'[o].snapshot = "buffered"
         \/ Moves(api[o].snapshot, api'[o].snapshot)
<1>1. /\ api \in [Orders -> Requests]
      /\ api[o].event \in Stages /\ api[o].snapshot \in Stages
  BY DEF IInv, TypeOK, Requests
<1>2. ASSUME NEW p \in Orders, ApiStep(p)
      PROVE  \/ FlushSnapshot(o)
             \/ api'[o].snapshot = "buffered"
             \/ Moves(api[o].snapshot, api'[o].snapshot)
  <2>1. ASSUME NEW answer, Answer(p, answer) PROVE api'[o].snapshot = api[o].snapshot
    BY <1>1, <2>1 DEF Answer, Request
  <2>2. CASE RefuseOrder(p) \/ SaveOrder(p) \/ SaveFails(p) \/ PendingTotalThrows(p)
    BY <2>1, <2>2 DEF RefuseOrder, SaveOrder, SaveFails, PendingTotalThrows, Moves
  <2>4. CASE \/ PublishOrderCreated(p) \/ PublishPendingSnapshot(p)
             \/ FlushSnapshot(p) \/ FlushEvent(p)
    BY <1>1, <2>4 DEF PublishOrderCreated, PublishPendingSnapshot, FlushSnapshot,
                      FlushEvent, Request, Moves
  <2>5. CASE PublishThrows(p)
    <3>1. PICK requests \in {api, BufferLost} :
            api' = [requests EXCEPT ![p] = Request("failed", @.event, @.snapshot)]
      BY <2>5 DEF PublishThrows
    <3>2. requests \in [Orders -> Requests]
      BY <1>1, <3>1, BufferLostIs
    <3>3. api'[o].snapshot = requests[o].snapshot
      BY <3>1, <3>2 DEF Request
    <3>4. requests[o].snapshot \in {api[o].snapshot, Unsent(api[o].snapshot)}
      BY <3>1, BufferLostIs
    <3> QED
      BY <1>1, <2>5, <3>3, <3>4, LosingMoves DEF PublishThrows
  <2> QED
    BY <1>2, <2>2, <2>4, <2>5 DEF ApiStep
<1>3. CASE ApiFault
  BY <1>1, <1>3, ApiFaultRequests, LosingMoves DEF ApiFault, ApiCrash, ApiLosesConnection
<1>4. CASE UNCHANGED api
  BY <1>4 DEF Moves
<1> QED
  BY <1>2, <1>3, <1>4, ApiMoves

\* The document of an order is not taken away, and what is on its way to the
\* read store stays so or becomes one.
LEMMA StaysShown ==
  ASSUME SystemInv, NEW o \in Orders,
         ([Next]_vars /\ UNCHANGED readVars) \/ ReadStep,
         readStore[o] # "NONE" \/ \E s \in Snapshot : s.order = o /\ Outstanding(s)
  PROVE  readStore'[o] # "NONE" \/ \E s \in Snapshot : s.order = o /\ Outstanding(s)'
<1>1. readStore \in [Orders -> {"NONE", "PENDING", "CONFIRMED", "REJECTED"}]
  BY DEF SystemInv, SystemTypeOK
<1>2. \A s \in Snapshot : s.status # "NONE"
  BY DEF Snapshot
<1>3. CASE [Next]_vars /\ UNCHANGED readVars
  <2>1. ASSUME NEW s \in Snapshot, Outstanding(s) PROVE Outstanding(s)'
    <3>1. sync'[s] >= sync[s] /\ held' = held
      BY <1>3, SyncGrows DEF SystemInv, readVars
    <3>2. IInv'
      BY <1>3, NextIInv DEF SystemInv
    <3>3. sync[s] \in Nat /\ sync'[s] \in Nat /\ held[s] \in Nat
      BY <3>2 DEF SystemInv, SystemTypeOK, IInv, TypeOK
    <3> QED
      BY <2>1, <3>1, <3>3 DEF Outstanding
  <2> QED
    BY <1>3, <2>1 DEF readVars
<1>4. CASE ReadStep
  <2>1. ReadMoves
    BY <1>4, ReadStepMoves
  <2>2. readStore[o] # "NONE" => readStore'[o] # "NONE"
    BY <1>1, <1>2, <2>1 DEF ReadMoves
  <2> QED
    BY <1>2, <2>1, <2>2 DEF ReadMoves
<1> QED
  BY <1>3, <1>4

LEMMA WriteStepPath ==
  ASSUME SystemInv, PathInv, [Next]_vars, UNCHANGED readVars
  PROVE  PathInv'
<1> USE DEF SystemInv, PathInv
<1>1. IInv /\ IInv'
  BY NextIInv
<1>2. StockInv' /\ CopiesInv' /\ FaultFreeInv' /\ BufferInv'
  BY <1>1, NextStock, NextCopies, NextFaultFree, NextBuffer
<1>3. ASSUME NEW o \in Orders
      PROVE  /\ api'[o].snapshot = "sent" =>
                  \/ readStore'[o] # "NONE"
                  \/ \E s \in Snapshot : s.order = o /\ Outstanding(s)'
             /\ api'[o].snapshot = "lost" => DiedInBuffer(api[o].snapshot)'
  <2>1. CASE FlushSnapshot(o)
    <3> DEFINE s == [order |-> o, status |-> "PENDING"]
    <3>1. sync' = Put(sync, s) /\ api'[o].snapshot = "sent"
      BY <1>1, <2>1 DEF FlushSnapshot, Request, IInv, TypeOK
    <3>2. s \in Snapshot /\ s.order = o
      BY DEF Snapshot
    <3>3. sync \in [Snapshot -> Nat] /\ held' = held /\ held \in [Snapshot -> Nat]
      BY DEF SystemTypeOK, TypeOK, readVars
    <3> HIDE DEF s
    <3>4. sync'[s] = sync[s] + 1 /\ sync[s] \in Nat /\ held'[s] \in Nat
      BY <3>1, <3>2, <3>3 DEF Put
    <3>5. Outstanding(s)'
      BY <3>4 DEF Outstanding
    <3> QED
      BY <3>1, <3>2, <3>5
  <2>2. CASE api'[o].snapshot = "buffered"
    BY <2>2
  <2>3. CASE Moves(api[o].snapshot, api'[o].snapshot)
    <3>1. ASSUME api'[o].snapshot = "sent"
          PROVE  \/ readStore'[o] # "NONE"
                 \/ \E s \in Snapshot : s.order = o /\ Outstanding(s)'
      BY <2>3, <3>1, StaysShown DEF Moves, ShownInv
    <3>2. ASSUME api'[o].snapshot = "lost" PROVE DiedInBuffer(api[o].snapshot)'
      <4>1. \/ DiedInBuffer(api[o].snapshot)
            \/ Suffer("crash") \/ Suffer("conn")
        BY <2>3, <3>2 DEF Moves, ShownInv
      <4> QED
        BY <1>1, <3>2, <4>1, FaultsSpent, SufferedStays DEF DiedInBuffer
    <3> QED
      BY <3>1, <3>2
  <2> QED
    BY <1>1, <2>1, <2>2, <2>3, SnapshotMoves
<1> QED
  BY <1>2, <1>3 DEF ShownInv

\* The read side spends faults and empties sync, and touches nothing else of
\* the write side.
LEMMA ReadStepPath ==
  ASSUME SystemInv, PathInv, ReadStep, UNCHANGED <<db, queues, api, worker>>
  PROVE  PathInv'
<1> USE DEF SystemInv, PathInv
<1>1. UNCHANGED <<orders, stock, taken, ready, waiting, dead, api, worker>>
  BY DEF db, queues
<1>2. Spends
  BY DEF ReadStep, Spends
<1>3. StockInv'
  BY <1>1 DEF StockInv, Gone
<1>4. CopiesInv'
  <2>1. /\ faults \in [Faults -> Nat] /\ FaultBudget \in [Faults -> Nat]
        /\ "crash" \in Faults /\ "conn" \in Faults /\ "db" \in Faults
    BY PipelineAssumption DEF IInv, TypeOK, Faults
  <2>2. Doublings \in Int /\ Doublings' \in Int /\ Doublings' >= Doublings
    BY <1>2, <2>1, SpendingCounts DEF Spends, Doublings
  <2>3. \A kind \in Faults : faults'[kind] <= FaultBudget[kind]
    <3>1. \A kind \in Faults : faults'[kind] <= faults[kind] /\ faults'[kind] \in Int
      BY <1>2, <2>1, SpendingCounts DEF Spends
    <3> QED
      BY <2>1, <3>1 DEF CopiesInv
  <2>4. ASSUME NEW o \in Orders
        PROVE  Counted(o)' /\ Copies(o)' <= IF Published(o)' THEN 1 + Doublings' ELSE 0
    <3>1. /\ Queued(o, InQueues)' = Queued(o, InQueues)
          /\ Holders(o)' = Holders(o)
          /\ Published(o)' = Published(o)
      BY <1>1 DEF Queued, InQueues, Holders, Holds, OrderOf, Published
    <3>2. Counted(o) /\ Copies(o) <= IF Published(o) THEN 1 + Doublings ELSE 0
      BY DEF CopiesInv
    <3>3. Copies(o) \in Nat
      BY <3>2, CopiesType
    <3>4. Counted(o)' /\ Copies(o)' = Copies(o) /\ (Published(o)' <=> Published(o))
      BY <3>1, <3>2 DEF Counted, Copies
    <3> QED
      BY <2>2, <3>2, <3>3, <3>4
  <2> QED
    BY <2>3, <2>4 DEF CopiesInv
<1>5. FaultFreeInv'
  <2> SUFFICES ASSUME faults' = FaultBudget PROVE FaultFreeInv'
    BY DEF FaultFreeInv
  <2>1. faults = FaultBudget
    BY <1>2, NoFaultYet
  <2>2. ASSUME NEW o
        PROVE  /\ Short(o)' <=> Short(o)
               /\ Resolved(o)' <=> Resolved(o)
               /\ Confirming(o)' <=> Confirming(o)
    BY <1>1 DEF Short, Resolved, Confirming, OrderOf
  <2>3. ASSUME NEW m PROVE Excused(m)' <=> Excused(m)
    BY <1>1, <2>2 DEF Excused
  <2>4. ASSUME NEW w \in Workers PROVE UndisturbedInv(w)'
    <3>1. UndisturbedInv(w)
      BY <2>1 DEF FaultFreeInv
    <3>2. worker'[w] = worker[w] /\ (ShortAhead(w)' <=> ShortAhead(w))
      BY <1>1 DEF ShortAhead, OrderOf
    <3> QED
      BY <1>1, <2>2, <2>3, <3>1, <3>2 DEF UndisturbedInv
  <2>5. ReadyExcused' /\ DeadUnreadable'
    BY <1>1, <2>1, <2>3 DEF FaultFreeInv, ReadyExcused, DeadUnreadable
  <2>6. \A o \in Orders : TakenOnce(o)'
    BY <1>1, <2>1, <2>2 DEF FaultFreeInv, TakenOnce
  <2>7. TakenByFirst'
    BY <1>1, <2>1, FirstStays DEF FaultFreeInv, Published
  <2> QED
    BY <2>4, <2>5, <2>6, <2>7 DEF FaultFreeInv, ReadyExcused, DeadUnreadable, TakenOnce
<1>6. ASSUME NEW stage, DiedInBuffer(stage) PROVE DiedInBuffer(stage)'
  BY <1>2, <1>6, SufferedStays DEF DiedInBuffer
<1>7. BufferInv'
  BY <1>1, <1>6 DEF BufferInv, Published, Tracked, Resolved, Holds, OrderOf, DiedInBuffer
<1>8. ShownInv'
  BY <1>1, <1>6, StaysShown DEF ShownInv, DiedInBuffer
<1> QED
  BY <1>3, <1>4, <1>5, <1>7, <1>8

LEMMA InitPath == SystemInit => PathInv
<1> SUFFICES ASSUME SystemInit PROVE PathInv
  OBVIOUS
<1>1. Init
  BY DEF SystemInit
<1>2. ShownInv
  BY <1>1 DEF Init, ShownInv, Request
<1> QED
  BY <1>1, <1>2, InitStock, InitCopies, InitFaultFree, InitBuffer DEF PathInv

\* The invariants of the write side stand beside a sync worker that empties the
\* queue of snapshots and uses up some of the faults (docker-compose.yml:124-158).
THEOREM PathInvariance == SystemSpec => [](SystemInv /\ PathInv)
<1>1. SystemInit => SystemInv /\ PathInv
  BY SystemInitInv, InitPath
<1>2. SystemInv /\ PathInv /\ [SystemNext]_systemVars => (SystemInv /\ PathInv)'
  <2> SUFFICES ASSUME SystemInv, PathInv, [SystemNext]_systemVars
               PROVE  (SystemInv /\ PathInv)'
    OBVIOUS
  <2>1. CASE [Next]_vars /\ UNCHANGED readVars
    BY <2>1, WriteStepInv, WriteStepPath
  <2>2. CASE ReadStep /\ UNCHANGED <<db, queues, api, worker>>
    BY <2>2, ReadStepInv, ReadStepPath
  <2> QED
    BY <2>1, <2>2 DEF SystemNext, systemVars
<1> QED
  BY <1>1, <1>2, PTL DEF SystemSpec

\* GET /orders/:id finds every order that was answered with 202, or a snapshot of
\* it is in the API's buffer, queued or being handled, or its PENDING snapshot
\* died in that buffer with the API process or its connection
\* (events/ReadModelSyncPublisher.js:30-36, syncWorker.js:36-53).
THEOREM AcceptedAreShown == SystemSpec => []AcceptedIsShown
<1>1. SystemInv /\ PathInv => AcceptedIsShown
  BY ShownSuffices
<1> QED
  BY <1>1, PathInvariance, PTL

\* The whole system keeps the promises of the write path: stock is neither
\* oversold nor confirmed untaken, no order is rejected that could be served, no
\* event is multiplied, given up without a fault or lost once the API has sent it
\* (OrderProcessingService.js:15-53, worker.js:50-124).
THEOREM WritePathIsSafe ==
  SystemSpec => [](/\ ReservedBeforeConfirmed /\ NoOversell /\ RejectedOnlyIfShort
                   /\ SnapshotsTellTheTruth /\ CopiesBounded
                   /\ DeadLettersMeanFaults /\ ExactReservation /\ AcceptedIsTracked)
<1>1. SystemInv /\ PathInv => /\ ReservedBeforeConfirmed /\ NoOversell
                             /\ RejectedOnlyIfShort /\ SnapshotsTellTheTruth
                             /\ CopiesBounded
                             /\ ExactReservation /\ AcceptedIsTracked
  BY StockSuffices, CopiesSuffice, TakenExactly, ShownSuffices DEF SystemInv, PathInv, IInv
<1>2. PathInv => DeadLettersMeanFaults
  BY DEF PathInv, FaultFreeInv, DeadLettersMeanFaults
<1> QED
  BY <1>1, <1>2, PathInvariance, PTL

\* No step of either side makes the system forget the event of an order that is
\* not decided (worker.js:60, 82-97, 105-123).
THEOREM SystemHoldsEvents ==
  SystemSpec => [][\A o \in Orders : Tracked(o) => Tracked(o)' \/ Resolved(o)]_systemVars
<1>1. SystemInv /\ [SystemNext]_systemVars =>
        [\A o \in Orders : Tracked(o) => Tracked(o)' \/ Resolved(o)]_systemVars
  <2> SUFFICES ASSUME SystemInv, [SystemNext]_systemVars,
                      NEW o \in Orders, Tracked(o), ~Resolved(o)
               PROVE  Tracked(o)'
    OBVIOUS
  <2>1. CASE [Next]_vars /\ UNCHANGED readVars
    BY <2>1, NextIInv, StepTracks DEF SystemInv
  <2>2. CASE ReadStep /\ UNCHANGED <<db, queues, api, worker>>
    BY <2>2 DEF queues, Tracked, Holds, OrderOf
  <2> QED
    BY <2>1, <2>2 DEF SystemNext, systemVars
<1> QED
  BY <1>1, SystemInvariance, PTL DEF SystemSpec

\* The orders of the whole system live the lifecycle of domain/Order.js:23-34:
\* nothing the read side does shows in it.
THEOREM SystemRefinement == SystemSpec => ImplementsLifecycle
<1>1. SystemInit => Lifecycle!Init
  BY DEF SystemInit, Init, Lifecycle!Init, NoOrder
<1>2. SystemInv /\ [SystemNext]_systemVars =>
        [Lifecycle!Next]_([o \in Orders |-> IF orders[o].status = "NONE"
                                            THEN "DRAFT" ELSE orders[o].status])
  <2> SUFFICES ASSUME SystemInv, [SystemNext]_systemVars
               PROVE  Lifecycle!Next \/ UNCHANGED orders
    OBVIOUS
  <2>1. CASE [Next]_vars /\ UNCHANGED readVars
    BY <2>1, LifecycleStep DEF SystemInv
  <2>2. CASE UNCHANGED <<db, queues, api, worker>>
    BY <2>2 DEF db
  <2> QED
    BY <2>1, <2>2 DEF SystemNext, systemVars
<1> QED
  BY <1>1, <1>2, SystemInvariance, PTL DEF SystemSpec, ImplementsLifecycle, Lifecycle!Spec
==============================================================================
