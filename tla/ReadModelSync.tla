---------------------------- MODULE ReadModelSync ----------------------------
(***************************************************************************)
(* The read side: syncWorker.js takes snapshots from                        *)
(* order_readmodel_sync_queue, up to Prefetch at a time and all of them     *)
(* concurrently, and replaces the document of the order in MongoDB.  Who    *)
(* publishes snapshots and which faults occur is left to OrderSystem.  A    *)
(* definition marked "Fault" is a wrong variant of the one that follows.    *)
(***************************************************************************)
EXTENDS Integers, FiniteSetsExt

CONSTANTS
  Orders,        \* the orders snapshots are about
  Snapshot,      \* the snapshots there can be, records with order and status
  Prefetch       \* channel.prefetch: how many may be unacknowledged

VARIABLES
  sync,          \* order_readmodel_sync_queue: snapshots not held
  held,          \* snapshots delivered, their upsert not answered yet
  applied,       \* snapshots upserted, not acknowledged yet
  consumer,      \* the process: "subscribed", "deaf" (its connection is gone
                 \* and nothing subscribes again) or "down"
  readStore      \* MongoDB orders_read: the status shown for each order

readVars == <<held, applied, consumer, readStore>>

NoSnapshots == [s \in Snapshot |-> 0]

InitReadSide ==
  /\ held      = NoSnapshots
  /\ applied   = NoSnapshots
  /\ consumer  = "subscribed"
  /\ readStore = [o \in Orders |-> "NONE"]

Unacknowledged == MapThenSumSet(LAMBDA s : held[s] + applied[s], Snapshot)

Upsert(s) == readStore' = [readStore EXCEPT ![s.order] = s.status]

DeliverSnapshot(s) ==
  /\ consumer = "subscribed"
  /\ sync[s] > 0
  /\ Unacknowledged < Prefetch
  /\ sync' = [sync EXCEPT ![s] = @ - 1]
  /\ held' = [held EXCEPT ![s] = @ + 1]
  /\ UNCHANGED <<applied, consumer, readStore>>

\* replaceOne with upsert: whatever the document was, it is the snapshot now.
ApplySnapshot(s) ==
  /\ held[s] > 0
  /\ Upsert(s)
  /\ held' = [held EXCEPT ![s] = @ - 1]
  /\ applied' = [applied EXCEPT ![s] = @ + 1]
  /\ UNCHANGED <<sync, consumer>>

\* Fault: acknowledges without waiting for the upsert.
AckEarly(s) ==
  /\ consumer = "subscribed"
  /\ held[s] + applied[s] > 0
  /\ applied' = [applied EXCEPT ![s] = @ - 1]
  /\ UNCHANGED <<sync, held, consumer, readStore>>

AckSnapshot(s) ==
  /\ consumer = "subscribed"
  /\ applied[s] > 0
  /\ applied' = [applied EXCEPT ![s] = @ - 1]
  /\ UNCHANGED <<sync, held, consumer, readStore>>

\* Fault: nack without requeue.
DropSnapshot(s) ==
  /\ consumer = "subscribed"
  /\ held[s] > 0
  /\ Upsert(s) \/ UNCHANGED readStore
  /\ held' = [held EXCEPT ![s] = @ - 1]
  /\ UNCHANGED <<sync, applied, consumer>>

\* MongoDB answers with an error, having replaced the document or not: the
\* handler puts the snapshot back into the queue.
RequeueSnapshot(s) ==
  /\ consumer = "subscribed"
  /\ held[s] > 0
  /\ Upsert(s) \/ UNCHANGED readStore
  /\ held' = [held EXCEPT ![s] = @ - 1]
  /\ sync' = [sync EXCEPT ![s] = @ + 1]
  /\ UNCHANGED <<applied, consumer>>

\* The broker takes back every unacknowledged snapshot of a closed channel.
TakeBack == sync' = [s \in Snapshot |-> sync[s] + held[s] + applied[s]]

\* The handlers run on with snapshots that are in the queue again; what was
\* acknowledged just before may still be in the buffer and is lost with it.
LoseSubscription ==
  /\ consumer = "subscribed"
  /\ consumer' = "deaf"
  /\ TakeBack
  /\ applied' \in {applied, NoSnapshots}
  /\ UNCHANGED <<held, readStore>>

Die == consumer' = "down" /\ held' = NoSnapshots /\ applied' = NoSnapshots

\* ack throws on the closed channel, and so does the nack that follows it.
DieDeaf ==
  /\ consumer = "deaf"
  /\ \E s \in Snapshot : applied[s] > 0
  /\ Die
  /\ UNCHANGED <<sync, readStore>>

\* MongoDB answers with an error and nack throws on the closed channel.
FailDeaf(s) ==
  /\ consumer = "deaf"
  /\ held[s] > 0
  /\ Upsert(s) \/ UNCHANGED readStore
  /\ Die
  /\ UNCHANGED sync

SyncCrash ==
  /\ \/ consumer = "subscribed" /\ TakeBack
     \/ consumer = "deaf" /\ UNCHANGED sync
  /\ Die
  /\ UNCHANGED readStore

SyncRestart ==
  /\ consumer = "down"
  /\ consumer' = "subscribed"
  /\ UNCHANGED <<sync, held, applied, readStore>>

\* What the process does when nothing goes wrong around it.
Consume(s) == DeliverSnapshot(s) \/ ApplySnapshot(s) \/ AckSnapshot(s)

Recover == DieDeaf \/ SyncRestart
==============================================================================
