----------------------------- MODULE OrderSystem -----------------------------
(***************************************************************************)
(* The whole order path: the write side (OrderPipeline) and the read side   *)
(* (ReadModelSync) joined by the queue of snapshots, which one fills and    *)
(* the other drains.                                                        *)
(***************************************************************************)
EXTENDS OrderPipeline

CONSTANT Prefetch

ASSUME PrefetchAssumption == Prefetch \in Nat \ {0}

VARIABLES held, applied, consumer, readStore

ReadSide == INSTANCE ReadModelSync

readVars   == <<held, applied, consumer, readStore>>
systemVars == <<vars, readVars>>

SystemInit == Init /\ ReadSide!InitReadSide

ReadStep ==
  \/ /\ (\E s \in Snapshot : ReadSide!Consume(s)) \/ ReadSide!Recover
     /\ UNCHANGED faults
  \/ /\ \E s \in Snapshot : ReadSide!RequeueSnapshot(s) \/ ReadSide!FailDeaf(s)
     /\ Suffer("db")
  \/ ReadSide!LoseSubscription /\ Suffer("conn")
  \/ ReadSide!SyncCrash /\ Suffer("crash")

SystemNext ==
  \/ Next /\ UNCHANGED readVars
  \/ ReadStep /\ UNCHANGED <<db, queues, api, worker>>

SystemSpec == SystemInit /\ [][SystemNext]_systemVars

\* Beside what Fairness says: the broker delivers snapshots, MongoDB answers,
\* Docker restarts the sync worker.
SystemFairness ==
  /\ Fairness
  /\ \A s \in Snapshot : WF_<<sync, readVars>>(ReadSide!Consume(s))
  /\ WF_<<sync, readVars>>(ReadSide!Recover)

FairSystemSpec == SystemSpec /\ SystemFairness

------------------------------------------------------------------------------
\* The read side holds what the code puts there: counts of snapshots that never
\* go negative, documents that copy snapshots (syncWorker.js:36-53).
SystemTypeOK ==
  /\ TypeOK
  /\ held \in [Snapshot -> Nat]
  /\ applied \in [Snapshot -> Nat]
  /\ consumer \in {"subscribed", "deaf", "down"}
  /\ readStore \in [Orders -> {"NONE", "PENDING", "CONFIRMED", "REJECTED"}]

\* What GET /orders/:id shows may be late, never wrong: nothing, PENDING, or
\* the outcome the order has in MySQL (queries/GetOrderQueryHandler.js:15-21).
ReadStoreNeverAhead ==
  \A o \in Orders :
    readStore[o] # "NONE" =>
      /\ orders[o].status # "NONE"
      /\ readStore[o] \in {"PENDING", orders[o].status}

Outstanding(s) == sync[s] + held[s] > 0

\* A snapshot leaves the sync worker and its queue only by being shown
\* (syncWorker.js:36-53), through failed upserts, crashes and lost connections.
SnapshotHeldUntilShown ==
  [][\A s \in Snapshot :
       Outstanding(s) => Outstanding(s)' \/ readStore'[s.order] = s.status
    ]_systemVars

\* A 202 stands for a document that GET /orders/:id finds, or for a snapshot on
\* its way to one: only the API's own crash or a lost connection takes it out of
\* the API's buffer unread, and nothing later drops it
\* (events/ReadModelSyncPublisher.js:30-36, syncWorker.js:36-53).
AcceptedIsShown ==
  \A o \in Orders : api[o].state = "accepted" =>
    \/ readStore[o] # "NONE"
    \/ \E s \in Snapshot : s.order = o /\ Outstanding(s)
    \/ api[o].snapshot = "buffered"
    \/ DiedInBuffer(api[o].snapshot)

\* An order answered with 202 is decided or ends up in the dead-letter queue,
\* where a human finds it (config/rabbitmq.js:18-20), through crashes of the
\* workers and errors of the databases, unless the API was killed with the
\* event still in its buffer.
AcceptedIsSettled ==
  \A o \in Orders :
    api[o].state = "accepted" ~>
      \/ Resolved(o)
      \/ \E m \in Msg : m.order = o /\ dead[m] > 0
      \/ api[o].event = "lost"

\* ... and GET /orders/:id finds it, unless the PENDING snapshot was in the
\* buffer still.
AcceptedIsReadable ==
  \A o \in Orders :
    api[o].state = "accepted" ~>
      readStore[o] # "NONE" \/ api[o].snapshot = "lost"

\* "applying the same snapshot twice (or out of order, since only the latest
\* write matters) is harmless" (README.md:203): when an order is decided and no
\* event or snapshot of it is on its way, the read store shows the outcome.
ReadStoreSettles ==
  \A o \in Orders :
    /\ Resolved(o)
    /\ ~Tracked(o)
    /\ api[o].snapshot = "sent"
    /\ \A s \in Snapshot : s.order = o => sync[s] + held[s] + applied[s] = 0
    => readStore[o] = orders[o].status
==============================================================================
