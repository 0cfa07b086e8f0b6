---------------------------- MODULE OrderPipeline ----------------------------
(***************************************************************************)
(* The write side of the system: the API process stores an order and        *)
(* publishes order.created; the broker keeps the event in the processing    *)
(* queue, the retry queue or the dead-letter queue; worker processes check  *)
(* the stock, take it line by line and decide the order; MySQL holds orders *)
(* and stock.  Every awaited call of the code is a step of its own, and     *)
(* processes, the database and connections may fail between any two.  What  *)
(* the API publishes lies in its own buffer until the broker reads it.  A   *)
(* worker's buffer is no state: what it loses when the worker is killed are *)
(* its last messages, as if it had been killed before publishing them; what *)
(* a closing connection loses are the actions Lose... below.                *)
(***************************************************************************)
EXTENDS Integers, Sequences, FiniteSetsExt, RetryPolicy

CONSTANTS
  Orders,        \* the orders that may be requested (one request each)
  Skus,          \* the rows of inventory_items
  SkuNames,      \* what a request may name, Skus and others
  Currency,      \* the currency of each row of inventory_items
  InitialStock,  \* quantity_available of each row before the first order
  Carts,         \* the item lists a request may carry
  Parts,         \* the parts of a unit in which requests count quantities
  Workers,       \* the worker processes
  MaxAttempts,   \* RETRY_MAX_ATTEMPTS
  BaseDelayMs,   \* RETRY_BASE_DELAY_MS
  FaultBudget,   \* bound: how many faults of each kind may occur
  NoMsg          \* what a worker holds when it holds no message

Faults == {"crash", "db", "conn"}

ASSUME PipelineAssumption ==
  /\ Skus \subseteq SkuNames
  /\ InitialStock \in [Skus -> Nat]
  /\ Carts \subseteq Seq([sku : SkuNames, qty : Int])
  /\ Parts \in Nat \ {0}
  /\ MaxAttempts \in Nat
  /\ BaseDelayMs \in Nat
  /\ FaultBudget \in [Faults -> Nat]
  /\ NoMsg \notin [order : Orders, retry : 0..MaxAttempts]

\* An order.created event in one of the queues; retry is x-retry-count.
Msg == [order : Orders, retry : 0..MaxAttempts]

\* A read-model snapshot: what the order looked like to its publisher.
Snapshot == [order : Orders, status : {"PENDING", "CONFIRMED", "REJECTED"}]

VARIABLES
  orders,        \* MySQL: orders and order_line_items
  stock,         \* MySQL: quantity_available of inventory_items
  ready,         \* order_processing_queue: messages not held by a consumer
  waiting,       \* order_retry_queue
  dead,          \* order_dlq
  sync,          \* order_readmodel_sync_queue
  api,           \* the request handler of each order, and how far the two
                 \* messages it publishes have come
  worker,        \* the worker processes
  faults,        \* faults that may still occur
  taken          \* history: how often the stock of each line was decremented

db      == <<orders, stock, taken>>
queues  == <<ready, waiting, dead>>
vars    == <<orders, stock, ready, waiting, dead, sync, api, worker, faults,
             taken>>

Handlers == {"new", "saved", "published", "accepted", "failed", "dropped"}
Stages   == {"none", "buffered", "sent", "lost"}

\* The handler of an order and the stage of order.created and of the PENDING
\* snapshot: channel.publish only fills a buffer of the process.
Request(state, event, snapshot) ==
  [state |-> state, event |-> event, snapshot |-> snapshot]

DbPcs     == {"find", "check", "reserve", "confirm", "reject"}
WorkerPcs == {"down", "idle", "snapshot", "ack", "fail"} \cup DbPcs

\* A worker: the step its handler is at, the message it works on, the version
\* it read, the line it is at, whether it has found a shortage, and whether the
\* channel that brought the message (or would bring one) is still open.
State(pc, msg, version, line, short, live) ==
  [pc |-> pc, msg |-> msg, version |-> version, line |-> line,
   short |-> short, live |-> live]

Begin(m) == State("find", m, 0, 1, FALSE, TRUE)
Idle     == State("idle", NoMsg, 0, 1, FALSE, TRUE)
Deaf     == State("idle", NoMsg, 0, 1, FALSE, FALSE)
Down     == State("down", NoMsg, 0, 1, FALSE, FALSE)

NoOrder == [status |-> "NONE", version |-> 0, lines |-> <<>>]

\* new Order and addLineItem throw for an unknown SKU and a quantity that is
\* not positive, submit for an order without lines.
Acceptable(cart) ==
  /\ cart # <<>>
  /\ \A i \in DOMAIN cart : cart[i].sku \in Skus /\ cart[i].qty > 0

\* A request may ask for a part of a unit (nothing checks for integers), the
\* INT column keeps the nearest whole number, a half going up.
Rounded(qty) == (2 * qty + Parts) \div (2 * Parts)

\* findById builds an OrderLineItem from every row, whose constructor throws
\* for a quantity of zero: such an order can be stored, but never read.
Readable(lines) == \A i \in DOMAIN lines : lines[i].qty > 0

\* order.total adds up Money and throws when two lines differ in currency.
HasTotal(o) ==
  \A i, j \in DOMAIN orders[o].lines :
    Currency[orders[o].lines[i].sku] = Currency[orders[o].lines[j].sku]

Put(queue, m)  == [queue EXCEPT ![m] = @ + 1]
Take(queue, m) == [queue EXCEPT ![m] = @ - 1]

Suffer(kind) ==
  /\ faults[kind] > 0
  /\ faults' = [faults EXCEPT ![kind] = @ - 1]

Init ==
  /\ orders  = [o \in Orders |-> NoOrder]
  /\ stock   = InitialStock
  /\ ready   = [m \in Msg |-> 0]
  /\ waiting = [m \in Msg |-> 0]
  /\ dead    = [m \in Msg |-> 0]
  /\ sync    = [s \in Snapshot |-> 0]
  /\ api     = [o \in Orders |-> Request("new", "none", "none")]
  /\ worker  = [w \in Workers |-> Idle]
  /\ faults  = FaultBudget
  /\ taken   = [o \in Orders |-> <<>>]

------------------------------------------------------------------------------
(* The request handler: CreateOrderCommandHandler.handle under              *)
(* OrderController.create.  "accepted" is 202, "failed" is 400, "dropped" a *)
(* connection that closed without an answer.                                *)

Stored(cart) ==
  [status |-> "PENDING", version |-> 1,
   lines |-> [i \in DOMAIN cart |->
                [sku |-> cart[i].sku, qty |-> Rounded(cart[i].qty)]]]

Store(o, cart) ==
  /\ orders' = [orders EXCEPT ![o] = Stored(cart)]
  /\ taken'  = [taken EXCEPT ![o] = [i \in DOMAIN cart |-> 0]]
  /\ UNCHANGED stock

Answer(o, state) ==
  api' = [api EXCEPT ![o] = Request(state, @.event, @.snapshot)]

RefuseOrder(o) ==
  /\ api[o].state = "new"
  /\ \E cart \in Carts : ~Acceptable(cart)
  /\ Answer(o, "failed")
  /\ UNCHANGED <<db, queues, sync, worker, faults>>

SaveOrder(o) ==
  /\ api[o].state = "new"
  /\ \E cart \in Carts : Acceptable(cart) /\ Store(o, cart)
  /\ Answer(o, "saved")
  /\ UNCHANGED <<queues, sync, worker, faults>>

\* save() throws: rolled back, or committed with the answer lost on the way.
SaveFails(o) ==
  /\ api[o].state = "new"
  /\ Suffer("db")
  /\ \/ UNCHANGED db
     \/ \E cart \in Carts : Acceptable(cart) /\ Store(o, cart)
  /\ Answer(o, "failed")
  /\ UNCHANGED <<queues, sync, worker>>

PublishOrderCreated(o) ==
  /\ api[o].state = "saved"
  /\ api' = [api EXCEPT ![o] = Request("published", "buffered", @.snapshot)]
  /\ UNCHANGED <<db, queues, sync, worker, faults>>

\* The 202 is written in the same turn: no confirm of the broker is awaited.
PublishPendingSnapshot(o) ==
  /\ api[o].state = "published"
  /\ HasTotal(o)
  /\ api' = [api EXCEPT ![o] = Request("accepted", @.event, "buffered")]
  /\ UNCHANGED <<db, queues, sync, worker, faults>>

PendingTotalThrows(o) ==
  /\ api[o].state = "published"
  /\ ~HasTotal(o)
  /\ Answer(o, "failed")
  /\ UNCHANGED <<db, queues, sync, worker, faults>>

\* The event loop writes the buffer to the socket and the broker reads it: one
\* channel, so that an order's event comes first.
FlushEvent(o) ==
  /\ api[o].event = "buffered"
  /\ api' = [api EXCEPT ![o] = Request(@.state, "sent", @.snapshot)]
  /\ ready' = Put(ready, [order |-> o, retry |-> 0])
  /\ UNCHANGED <<db, waiting, dead, sync, worker, faults>>

FlushSnapshot(o) ==
  /\ api[o].snapshot = "buffered"
  /\ api[o].event # "buffered"
  /\ api' = [api EXCEPT ![o] = Request(@.state, @.event, "sent")]
  /\ sync' = Put(sync, [order |-> o, status |-> "PENDING"])
  /\ UNCHANGED <<db, queues, worker, faults>>

IsBuffered(o) == "buffered" \in {api[o].event, api[o].snapshot}

Unsent(stage) == IF stage = "buffered" THEN "lost" ELSE stage

\* The process' buffer is gone, and nothing tells the handlers.
BufferLost ==
  [o \in Orders |->
     Request(api[o].state, Unsent(api[o].event), Unsent(api[o].snapshot))]

\* getChannel() cannot connect, so that either publication throws; when that is
\* because the connection was lost, what it had buffered is lost with it.
PublishThrows(o) ==
  /\ api[o].state \in {"saved", "published"}
  /\ Suffer("conn")
  /\ \E requests \in {api, BufferLost} :
       api' = [requests EXCEPT ![o] = Request("failed", @.event, @.snapshot)]
  /\ UNCHANGED <<db, queues, sync, worker>>

\* The connection drops before the broker has read everything.
ApiLosesConnection ==
  /\ \E o \in Orders : IsBuffered(o)
  /\ Suffer("conn")
  /\ api' = BufferLost
  /\ UNCHANGED <<db, queues, sync, worker>>

UnderWay(o) == api[o].state \in {"saved", "published"}

\* The API process is killed: every request it was working on goes unanswered,
\* and the buffer is lost, of requests answered with 202 too.
ApiCrash ==
  /\ \E o \in Orders : UnderWay(o) \/ IsBuffered(o)
  /\ Suffer("crash")
  /\ api' = [o \in Orders |->
               Request(IF UnderWay(o) THEN "dropped" ELSE api[o].state,
                       BufferLost[o].event, BufferLost[o].snapshot)]
  /\ UNCHANGED <<db, queues, sync, worker>>

------------------------------------------------------------------------------
(* A worker processing one message: worker.js handleMessage around          *)
(* OrderProcessingService.processOrder.  Definitions marked "Fault" are     *)
(* wrong variants of the one that follows, to show that a property notices. *)

OrderOf(w) == worker[w].msg.order
LineOf(w)  == orders[OrderOf(w)].lines[worker[w].line]
IsLast(w)  == worker[w].line = Len(orders[OrderOf(w)].lines)
Holds(w)   == worker[w].msg # NoMsg /\ worker[w].live

Become(w, state) == worker' = [worker EXCEPT ![w] = state]

Go(w, pc, version, line, short) ==
  Become(w, State(pc, worker[w].msg, version, line, short, worker[w].live))

\* processOrder returns or throws: its local variables are gone.
Leave(w, pc) == Go(w, pc, 0, 1, FALSE)

\* prefetch(1): a worker holds one unacknowledged message at a time.
Deliver(w, m) ==
  /\ worker[w] = Idle
  /\ ready[m] > 0
  /\ ready' = Take(ready, m)
  /\ Become(w, Begin(m))
  /\ UNCHANGED <<db, waiting, dead, sync, api, faults>>

\* Fault: processes an order again that is decided already.
FindAnyOrder(w) ==
  /\ worker[w].pc = "find"
  /\ Go(w, "check", orders[OrderOf(w)].version, 1, FALSE)
  /\ UNCHANGED <<db, queues, sync, api, faults>>

\* findById: orders that are unknown or cannot be read fail, decided ones are
\* skipped (and acknowledged).
FindOrder(w) ==
  /\ worker[w].pc = "find"
  /\ LET order == orders[OrderOf(w)]
     IN  IF order.status = "NONE" \/ ~Readable(order.lines)
         THEN Leave(w, "fail")
         ELSE IF order.status = "PENDING"
              THEN Go(w, "check", order.version, 1, FALSE)
              ELSE Leave(w, "ack")
  /\ UNCHANGED <<db, queues, sync, api, faults>>

\* Fault: <= for <.
CheckLineTooStrict(w) ==
  LET short == worker[w].short \/ stock[LineOf(w).sku] <= LineOf(w).qty
  IN  /\ worker[w].pc = "check"
      /\ IF IsLast(w)
         THEN Go(w, IF short THEN "reject" ELSE "reserve",
                 worker[w].version, 1, short)
         ELSE Go(w, "check", worker[w].version, worker[w].line + 1, short)
      /\ UNCHANGED <<db, queues, sync, api, faults>>

\* One findBySku of the first loop, and after the last one the decision.
CheckLine(w) ==
  LET short == worker[w].short \/ stock[LineOf(w).sku] < LineOf(w).qty
  IN  /\ worker[w].pc = "check"
      /\ IF IsLast(w)
         THEN Go(w, IF short THEN "reject" ELSE "reserve",
                 worker[w].version, 1, short)
         ELSE Go(w, "check", worker[w].version, worker[w].line + 1, short)
      /\ UNCHANGED <<db, queues, sync, api, faults>>

\* Fault: the UPDATE without "AND quantity_available >= ?".
DecrementUnguarded(w) ==
  /\ stock' = [stock EXCEPT ![LineOf(w).sku] = @ - LineOf(w).qty]
  /\ taken' = [taken EXCEPT ![OrderOf(w)][worker[w].line] = @ + 1]
  /\ UNCHANGED orders

\* Fault: affectedRows is not looked at.
DecrementUnchecked(w) ==
  IF stock[LineOf(w).sku] >= LineOf(w).qty
  THEN DecrementUnguarded(w)
  ELSE UNCHANGED db

\* decrementStock of the current line: a guarded UPDATE.
Decrement(w) ==
  /\ stock[LineOf(w).sku] >= LineOf(w).qty
  /\ stock' = [stock EXCEPT ![LineOf(w).sku] = @ - LineOf(w).qty]
  /\ taken' = [taken EXCEPT ![OrderOf(w)][worker[w].line] = @ + 1]
  /\ UNCHANGED orders

\* Fault: confirms after the first line.
ReserveFirstLine(w) ==
  /\ worker[w].pc = "reserve"
  /\ Decrement(w)
  /\ Go(w, "confirm", worker[w].version, 1, FALSE)
  /\ UNCHANGED <<queues, sync, api, faults>>

ReserveLine(w) ==
  /\ worker[w].pc = "reserve"
  /\ Decrement(w)
  /\ IF IsLast(w)
     THEN Go(w, "confirm", worker[w].version, 1, FALSE)
     ELSE Go(w, "reserve", worker[w].version, worker[w].line + 1, FALSE)
  /\ UNCHANGED <<queues, sync, api, faults>>

\* The UPDATE matches no row: someone else took the stock since the check, or
\* an earlier line of this very order did.
ReserveRefused(w) ==
  /\ worker[w].pc = "reserve"
  /\ stock[LineOf(w).sku] < LineOf(w).qty
  /\ Leave(w, "fail")
  /\ UNCHANGED <<db, queues, sync, api, faults>>

Outcome(w) == IF worker[w].short THEN "REJECTED" ELSE "CONFIRMED"

\* Fault: the UPDATE without "AND version = ?".
UpdateStatusUnlocked(w) ==
  /\ orders' = [orders EXCEPT ![OrderOf(w)] =
       [status |-> Outcome(w), version |-> @.version + 1, lines |-> @.lines]]
  /\ UNCHANGED <<stock, taken>>

\* updateStatus of the decision under the optimistic lock.
UpdateStatus(w) ==
  /\ orders[OrderOf(w)].version = worker[w].version
  /\ orders' = [orders EXCEPT ![OrderOf(w)] =
       [status |-> Outcome(w), version |-> @.version + 1, lines |-> @.lines]]
  /\ UNCHANGED <<stock, taken>>

Confirm(w) ==
  /\ worker[w].pc = "confirm"
  /\ UpdateStatus(w)
  /\ Go(w, "snapshot", worker[w].version, 1, worker[w].short)
  /\ UNCHANGED <<queues, sync, api, faults>>

Reject(w) ==
  /\ worker[w].pc = "reject"
  /\ UpdateStatus(w)
  /\ Go(w, "snapshot", worker[w].version, 1, worker[w].short)
  /\ UNCHANGED <<queues, sync, api, faults>>

LockConflict(w) ==
  /\ worker[w].pc \in {"confirm", "reject"}
  /\ orders[OrderOf(w)].version # worker[w].version
  /\ Leave(w, "fail")
  /\ UNCHANGED <<db, queues, sync, api, faults>>

\* publishOrderSnapshot: getChannel reconnects when the connection was lost.
PublishSnapshot(w) ==
  /\ worker[w].pc = "snapshot"
  /\ HasTotal(OrderOf(w))
  /\ sync' = Put(sync, [order |-> OrderOf(w), status |-> Outcome(w)])
  /\ Leave(w, "ack")
  /\ UNCHANGED <<db, queues, api, faults>>

\* It throws: no total, or no connection to be had.
SnapshotThrows(w) ==
  /\ worker[w].pc = "snapshot"
  /\ ~HasTotal(OrderOf(w)) \/ ~worker[w].live
  /\ Leave(w, "fail")
  /\ UNCHANGED <<db, queues, sync, api, faults>>

Ack(w) ==
  /\ worker[w].pc = "ack"
  /\ worker[w].live
  /\ Become(w, Idle)
  /\ UNCHANGED <<db, queues, sync, api, faults>>

\* handleFailure: publish the message to the retry or the dead-letter queue.
Resend(m) ==
  LET decision == DecideRetry(m.retry, MaxAttempts, BaseDelayMs)
  IN  IF decision.action = "DEAD_LETTER"
      THEN dead' = Put(dead, m) /\ UNCHANGED waiting
      ELSE /\ waiting' = Put(waiting, [order |-> m.order,
                                        retry |-> decision.nextRetryCount])
           /\ UNCHANGED dead

\* Fault: requeues the original beside the copy.
HandleFailureRequeuing(w) ==
  /\ worker[w].pc = "fail"
  /\ worker[w].live
  /\ Resend(worker[w].msg)
  /\ ready' = Put(ready, worker[w].msg)
  /\ Become(w, Idle)
  /\ UNCHANGED <<db, sync, api, faults>>

\* Fault: acknowledges without publishing a copy.
HandleFailureForgetting(w) ==
  /\ worker[w].pc = "fail"
  /\ worker[w].live
  /\ Become(w, Idle)
  /\ UNCHANGED <<db, queues, sync, api, faults>>

\* ... and acknowledge the original.
HandleFailure(w) ==
  /\ worker[w].pc = "fail"
  /\ worker[w].live
  /\ Resend(worker[w].msg)
  /\ Become(w, Idle)
  /\ UNCHANGED <<db, ready, sync, api, faults>>

\* ack throws on a closed channel, so does the publish of handleFailure; the
\* rejection of handleMessage is handled by nobody and ends the process.
DieOnDeadChannel(w) ==
  /\ worker[w].pc \in {"ack", "fail"}
  /\ ~worker[w].live
  /\ Become(w, Down)
  /\ UNCHANGED <<db, queues, sync, api, faults>>

------------------------------------------------------------------------------
(* Faults around a worker, and the broker.                                  *)

\* The broker puts an unacknowledged message back when its channel closes.
Requeue(w) ==
  ready' = IF Holds(w) THEN Put(ready, worker[w].msg) ELSE ready

\* A query throws; an UPDATE may have been applied all the same.
DbError(w) ==
  /\ worker[w].pc \in DbPcs
  /\ Suffer("db")
  /\ \/ UNCHANGED db
     \/ worker[w].pc = "reserve" /\ Decrement(w)
     \/ worker[w].pc \in {"confirm", "reject"} /\ UpdateStatus(w)
  /\ Leave(w, "fail")
  /\ UNCHANGED <<queues, sync, api>>

\* The process is killed, or shuts down on SIGTERM without waiting for the
\* message it is working on.
Crash(w) ==
  /\ worker[w].pc # "down"
  /\ Suffer("crash")
  /\ Requeue(w)
  /\ Become(w, Down)
  /\ UNCHANGED <<db, waiting, dead, sync, api>>

\* The process is killed when handleFailure's publish has reached the broker
\* and its ack has not: the message is now there twice.
CrashBetweenPublishAndAck(w) ==
  /\ worker[w].pc = "fail"
  /\ worker[w].live
  /\ Suffer("crash")
  /\ Resend(worker[w].msg)
  /\ Requeue(w)
  /\ Become(w, Down)
  /\ UNCHANGED <<db, sync, api>>

\* restart: unless-stopped, then start() subscribes anew.
Restart(w) ==
  /\ worker[w].pc = "down"
  /\ Become(w, Idle)
  /\ UNCHANGED <<db, queues, sync, api, faults>>

\* The RabbitMQ connection closes.  The handler runs on with a message that is
\* no longer its own; a worker without a message never subscribes again.
LoseConnection(w) ==
  /\ worker[w].pc # "down"
  /\ worker[w].live
  /\ Suffer("conn")
  /\ Requeue(w)
  /\ Become(w, [worker[w] EXCEPT !.live = FALSE])
  /\ UNCHANGED <<db, waiting, dead, sync, api>>

\* The connection closes with the snapshot still in its buffer, and perhaps
\* with the acknowledgement that follows it.
LoseSnapshot(w) ==
  /\ worker[w].pc = "snapshot"
  /\ HasTotal(OrderOf(w))
  /\ Suffer("conn")
  /\ Requeue(w)
  /\ \/ Become(w, State("ack", worker[w].msg, 0, 1, FALSE, FALSE))
     \/ worker[w].live /\ Become(w, Deaf)
  /\ UNCHANGED <<db, waiting, dead, sync, api>>

\* The connection closes with the acknowledgement still in its buffer, and with
\* the message handleFailure published before it or without.
LoseAck(w) ==
  /\ worker[w].pc \in {"ack", "fail"}
  /\ worker[w].live
  /\ Suffer("conn")
  /\ Requeue(w)
  /\ \/ UNCHANGED <<waiting, dead>>
     \/ worker[w].pc = "fail" /\ Resend(worker[w].msg)
  /\ Become(w, Deaf)
  /\ UNCHANGED <<db, sync, api>>

\* Fault: the retry queue has no dead-letter exchange.
ExpireRetryForever(m) ==
  /\ waiting[m] > 0
  /\ waiting' = Take(waiting, m)
  /\ UNCHANGED <<db, ready, dead, sync, api, worker, faults>>

\* The TTL of a waiting message runs out and the retry queue's dead-letter
\* exchange routes it back to the processing queue, headers and all.
ExpireRetry(m) ==
  /\ waiting[m] > 0
  /\ waiting' = Take(waiting, m)
  /\ ready' = Put(ready, m)
  /\ UNCHANGED <<db, dead, sync, api, worker, faults>>

------------------------------------------------------------------------------
ApiStep(o) ==
  \/ RefuseOrder(o) \/ SaveOrder(o) \/ SaveFails(o)
  \/ PublishOrderCreated(o) \/ PublishPendingSnapshot(o)
  \/ PendingTotalThrows(o) \/ PublishThrows(o)
  \/ FlushEvent(o) \/ FlushSnapshot(o)

ApiFault == ApiCrash \/ ApiLosesConnection

\* What a running worker does with its message when nothing goes wrong.
Process(w) ==
  \/ FindOrder(w) \/ CheckLine(w) \/ ReserveLine(w) \/ ReserveRefused(w)
  \/ Confirm(w) \/ Reject(w) \/ LockConflict(w)
  \/ PublishSnapshot(w) \/ SnapshotThrows(w)
  \/ Ack(w) \/ HandleFailure(w) \/ DieOnDeadChannel(w)

WorkerFault(w) ==
  \/ DbError(w) \/ Crash(w) \/ CrashBetweenPublishAndAck(w)
  \/ LoseConnection(w) \/ LoseSnapshot(w) \/ LoseAck(w)

Next ==
  \/ \E o \in Orders : ApiStep(o)
  \/ ApiFault
  \/ \E w \in Workers, m \in Msg : Deliver(w, m)
  \/ \E w \in Workers : Process(w) \/ Restart(w) \/ WorkerFault(w)
  \/ \E m \in Msg : ExpireRetry(m)

Spec == Init /\ [][Next]_vars

\* The event loop and the broker empty the buffer, a started handler runs to its
\* end, the broker hands every message out and lets every TTL expire, Docker
\* restarts what has died.  Nobody must order.
Fairness ==
  /\ \A o \in Orders : WF_vars(FlushEvent(o)) /\ WF_vars(FlushSnapshot(o))
  /\ \A w \in Workers : WF_vars(Process(w)) /\ WF_vars(Restart(w))
  /\ \A m \in Msg : WF_vars(\E w \in Workers : Deliver(w, m))
  /\ \A m \in Msg : WF_vars(ExpireRetry(m))

FairSpec == Spec /\ Fairness

------------------------------------------------------------------------------
(* Properties.                                                              *)

OrderRow == [status  : {"NONE", "PENDING", "CONFIRMED", "REJECTED"},
             version : 0..2,
             lines   : Seq([sku : SkuNames, qty : Int])]

Requests == [state : Handlers, event : Stages, snapshot : Stages]

WorkerState == [pc : WorkerPcs, msg : Msg \cup {NoMsg}, version : 0..2,
                line : Nat \ {0}, short : BOOLEAN, live : BOOLEAN]

\* The tables, queues and processes hold what the code puts there; in
\* particular the guarded UPDATE keeps quantity_available from going negative
\* (repositories/InventoryRepository.js:27-37) and the optimistic lock lets an
\* order be decided once (repositories/OrderRepository.js:86-98).
TypeOK ==
  /\ orders \in [Orders -> OrderRow]
  /\ stock \in [Skus -> Nat]
  /\ ready \in [Msg -> Nat]
  /\ waiting \in [Msg -> Nat]
  /\ dead \in [Msg -> Nat]
  /\ sync \in [Snapshot -> Nat]
  /\ api \in [Orders -> Requests]
  /\ worker \in [Workers -> WorkerState]
  /\ faults \in [Faults -> Nat]
  /\ taken \in [Orders -> Seq(Nat)]

Resolved(o) == orders[o].status \in {"CONFIRMED", "REJECTED"}

\* The event of an order is in a queue, or a worker will give it back.
Tracked(o) ==
  \/ \E m \in Msg : m.order = o /\ ready[m] + waiting[m] + dead[m] > 0
  \/ \E w \in Workers : Holds(w) /\ OrderOf(w) = o

\* However often an order is processed, by whomever, and wherever a handler was
\* cut off: it is CONFIRMED only when the stock of every line was taken for it
\* (services/OrderProcessingService.js:46-51).
ReservedBeforeConfirmed ==
  \A o \in Orders : orders[o].status = "CONFIRMED" =>
    \A i \in DOMAIN orders[o].lines : taken[o][i] >= 1

\* The units of a product that confirmed orders promise, line by line.
Promised(s) ==
  UNION {{x} \X (1..orders[x[1]].lines[x[2]].qty) :
         x \in {y \in UNION {{o} \X DOMAIN orders[o].lines : o \in Orders} :
                  /\ orders[y[1]].status = "CONFIRMED"
                  /\ orders[y[1]].lines[y[2]].sku = s}}

\* Confirmed orders never add up to more of a product than there was: the check
\* may be stale, the guarded UPDATE is not (InventoryRepository.js:21-26).
NoOversell == \A s \in Skus : Cardinality(Promised(s)) <= InitialStock[s]

Short(o) ==
  \E i \in DOMAIN orders[o].lines :
    stock[orders[o].lines[i].sku] < orders[o].lines[i].qty

\* No order is turned away that could still be served: the shortage a worker
\* found has not gone away when the rejection is stored, whatever happened in
\* between (OrderProcessingService.js:28-44); nothing in the code restocks.
RejectedOnlyIfShort ==
  \A o \in Orders : orders[o].status = "REJECTED" => Short(o)

\* A snapshot for the read store shows a status the order has had, and a final
\* one is the outcome the order has for good: nobody announces a decision that
\* the optimistic lock then refused (OrderProcessingService.js:38-53).
SnapshotsTellTheTruth ==
  \A s \in Snapshot : sync[s] > 0 =>
    /\ orders[s.order].status # "NONE"
    /\ s.status \in {"PENDING", orders[s.order].status}

\* At-least-once processing: once the broker has an order's event, the event is
\* not gone before the order is decided, through retries, redelivery, crashes
\* and lost connections (worker.js:60, 82-97, 105-123).
EventsHeldUntilResolved ==
  [][\A o \in Orders : Tracked(o) => Tracked(o)' \/ Resolved(o)]_vars

Suffered(kind) == FaultBudget[kind] - faults[kind]

\* Why a published message never reached the broker: the API process was killed
\* or its connection closed with the message in its buffer.
DiedInBuffer(stage) ==
  stage = "lost" /\ Suffered("crash") + Suffered("conn") > 0

\* A 202 stands for an event: it is in the API's buffer, in a queue or with a
\* worker until the order is decided, and only the API's own crash or a lost
\* connection takes it out of that buffer unread; nothing later forgets it
\* (events/OrderEventPublisher.js:17-29, worker.js:60, 82-97, 105-123).
AcceptedIsTracked ==
  \A o \in Orders : api[o].state \in {"published", "accepted"} =>
    \/ Tracked(o) \/ Resolved(o)
    \/ api[o].event = "buffered"
    \/ DiedInBuffer(api[o].event)

\* How often each message is in the queues, and the messages of an order that
\* are there so often, one by one.
InQueues == [m \in Msg |-> ready[m] + waiting[m] + dead[m]]

Queued(o, counts) == UNION {{m} \X (1..counts[m]) : m \in {n \in Msg : n.order = o}}

Holders(o) == {w \in Workers : Holds(w) /\ OrderOf(w) = o}

\* An event is duplicated only where a crash or a lost connection separates the
\* publication of its retry copy from its acknowledgement (worker.js:105-123),
\* at most once per fault: retries and redeliveries never multiply it.
CopiesBounded ==
  \A o \in Orders :
    Cardinality(Queued(o, InQueues)) + Cardinality(Holders(o))
      <= 1 + Suffered("crash") + Suffered("conn")

\* While nothing fails, workers fighting for the same stock may make each other
\* retry but never give up: the dead-letter queue is not for unlucky orders
\* (worker.js:75-124, OrderProcessingService.js:46-48), only for those that
\* asked for less than half a unit and cannot be read (domain/Order.js:8).
DeadLettersMeanFaults ==
  faults = FaultBudget /\ MaxAttempts >= 2 =>
    \A m \in Msg : dead[m] > 0 => ~Readable(orders[m.order].lines)

\* While nothing fails, no line is taken twice, through any number of retries,
\* so that a confirmed order has each of its lines exactly once; and an order of
\* one line leaves the stock alone if it is rejected, however its check and its
\* decrement interleave with those of others (OrderProcessingService.js:28-50).
ExactReservation ==
  faults = FaultBudget =>
    \A o \in Orders : \A i \in DOMAIN orders[o].lines :
      /\ taken[o][i] <= 1
      /\ orders[o].status = "CONFIRMED" => taken[o][i] = 1
      /\ orders[o].status = "REJECTED" /\ Len(orders[o].lines) = 1 => taken[o][i] = 0

\* "rejects an order when stock is insufficient, and leaves inventory untouched"
\* (tests/orderEvents.test.js:145).  It does not hold: an order that names a
\* product twice passes the check of each line, is refused at the second
\* decrement, and is rejected by the retry with the first line's stock gone.
RejectedLeavesStock ==
  \A o \in Orders : orders[o].status = "REJECTED" =>
    \A i \in DOMAIN orders[o].lines : taken[o][i] = 0

\* The order worker "must never double-decrement stock" (syncWorker.js:42-43).
\* It does: a worker that dies between the decrements and the update of the
\* status leaves the order PENDING, and the redelivered event decrements again.
NeverDecrementedTwice ==
  \A o \in Orders : \A i \in DOMAIN orders[o].lines : taken[o][i] <= 1

\* The worker "publishes an updated read-model snapshot after each transition"
\* (README.md:185).  It need not: when it dies between the two, the redelivered
\* event finds the order decided and is skipped.  Nothing in this module takes
\* snapshots out of sync, so one that was ever published is there.
DecisionIsPublished ==
  \A o \in Orders : Resolved(o) /\ ~Tracked(o) =>
    sync[[order |-> o, status |-> orders[o].status]] > 0

\* The orders of the tables live the lifecycle of domain/Order.js; an order not
\* stored yet is the draft in the memory of its request handler.
Lifecycle ==
  INSTANCE OrderLifecycle
    WITH status <- [o \in Orders |-> IF orders[o].status = "NONE"
                                     THEN "DRAFT" ELSE orders[o].status]

ImplementsLifecycle == Lifecycle!Spec

------------------------------------------------------------------------------
(* The inductive invariant behind ReservedBeforeConfirmed,                  *)
(* RejectedOnlyIfShort, SnapshotsTellTheTruth, EventsHeldUntilResolved and  *)
(* ImplementsLifecycle.                                                     *)

\* What the columns of order_line_items can hold of an acceptable cart.
Storable(lines) ==
  /\ lines # <<>>
  /\ \A i \in DOMAIN lines : lines[i].sku \in Skus /\ lines[i].qty \in Nat

\* The version counts the transitions of an order, so that the lock of
\* updateStatus is a lock on PENDING.
RowsInv ==
  \A o \in Orders :
    /\ orders[o].version = CASE orders[o].status = "NONE"    -> 0
                             [] orders[o].status = "PENDING" -> 1
                             [] OTHER                        -> 2
    /\ orders[o].status # "NONE" => Storable(orders[o].lines)
    /\ Len(taken[o]) = Len(orders[o].lines)

\* A handler publishes the event, then the snapshot.
InStep(request) ==
  /\ request.state \in {"new", "saved"} => request.event = "none"
  /\ request.state \in {"published", "accepted"} => request.event # "none"
  /\ request.state = "accepted" => request.snapshot # "none"

\* Requests not yet saved have no row; what is being published is about one.
RequestsInv ==
  \A o \in Orders :
    /\ InStep(api[o])
    /\ api[o].state = "new" => orders[o].status = "NONE"
    /\ UnderWay(o) \/ IsBuffered(o) => orders[o].status # "NONE"

\* Events are about stored orders: the "not found" of processOrder does not
\* happen, because the row is committed before the event is published.
EventsInv ==
  \A m \in Msg :
    ready[m] + waiting[m] + dead[m] > 0 => orders[m.order].status # "NONE"

\* What a handler knows at each of its steps.
WorkerInv(w) ==
  LET pc == worker[w].pc
      o  == OrderOf(w)
  IN  /\ pc \in {"down", "idle"} <=> worker[w].msg = NoMsg
      /\ worker[w].msg # NoMsg => orders[o].status # "NONE"
      /\ pc \in {"check", "reserve", "confirm", "reject", "snapshot"} =>
           /\ worker[w].version = 1
           /\ worker[w].line \in DOMAIN orders[o].lines
           /\ worker[w].short => Short(o)
      /\ pc \in {"reserve", "confirm"} => ~worker[w].short
      /\ pc = "reserve" => \A i \in 1..(worker[w].line - 1) : taken[o][i] >= 1
      /\ pc = "confirm" => \A i \in DOMAIN orders[o].lines : taken[o][i] >= 1
      /\ pc = "reject" => worker[w].short
      /\ pc = "snapshot" => orders[o].status = Outcome(w)
      /\ pc = "ack" => Resolved(o)

IInv ==
  /\ TypeOK
  /\ RowsInv
  /\ RequestsInv
  /\ EventsInv
  /\ \A w \in Workers : WorkerInv(w)
  /\ ReservedBeforeConfirmed
  /\ RejectedOnlyIfShort
  /\ SnapshotsTellTheTruth

------------------------------------------------------------------------------
(* The inductive invariant behind DeadLettersMeanFaults and                 *)
(* ExactReservation, beside IInv and the single copy of each event.         *)

\* Why a message has been retried where nothing failed: the first handling found
\* the stock gone or decided the order, the second decided it.
Excused(m) ==
  Readable(orders[m.order].lines) =>
    /\ m.retry >= 1 => Short(m.order) \/ Resolved(m.order)
    /\ m.retry >= 2 => Resolved(m.order)

\* The line a handler is at, or one it has yet to look at, is short.
ShortAhead(w) ==
  LET lines == orders[OrderOf(w)].lines
  IN  \E i \in DOMAIN lines :
        i >= worker[w].line /\ stock[lines[i].sku] < lines[i].qty

\* What a handler knows as long as nothing has failed: its order is undecided
\* up to its own decision, and is rejected if the stock was gone once before.
UndisturbedInv(w) ==
  LET pc == worker[w].pc
      m  == worker[w].msg
  IN  /\ worker[w].live /\ pc # "down"
      /\ pc \in {"check", "reserve", "confirm", "reject"} =>
           orders[m.order].status = "PENDING"
      /\ pc = "find" => Excused(m)
      /\ pc \in {"check", "reject", "snapshot"} => m.retry <= 1
      /\ pc = "check" /\ m.retry = 1 => worker[w].short \/ ShortAhead(w)
      /\ pc \in {"reserve", "confirm"} => m.retry = 0
      /\ pc = "fail" /\ Readable(orders[m.order].lines) =>
           /\ m.retry <= 1
           /\ Short(m.order) \/ Resolved(m.order)
           /\ m.retry = 1 => Resolved(m.order)

\* Confirmed, or about to be.
Confirming(o) ==
  \/ orders[o].status = "CONFIRMED"
  \/ \E w \in Workers : worker[w].pc = "confirm" /\ OrderOf(w) = o

Untouched(o) == \A i \in DOMAIN taken[o] : taken[o][i] = 0

\* The first handling of an order's event finds its lines untouched, and takes
\* one after the other.
FirstHandling(w) ==
  LET pc == worker[w].pc
      m  == worker[w].msg
  IN  /\ pc \in {"find", "check"} /\ m.retry = 0 => Untouched(m.order)
      /\ pc = "reserve" =>
           \A i \in DOMAIN taken[m.order] :
             taken[m.order][i] = IF i < worker[w].line THEN 1 ELSE 0

\* No other handling takes any stock.
TakenByFirst ==
  /\ \A o \in Orders : api[o].event # "sent" => Untouched(o)
  /\ \A o \in Orders : \A i \in DOMAIN taken[o] : taken[o][i] <= 1
  /\ \A m \in Msg : ready[m] + waiting[m] > 0 /\ m.retry = 0 => Untouched(m.order)
  /\ \A w \in Workers : FirstHandling(w)

\* As long as nothing has failed, a retry has a reason that the next handling of
\* the event settles, and lines are taken once, by the first handling, the only
\* line of an order when its confirmation is due (worker.js:75-124,
\* OrderProcessingService.js:28-51).
FaultFreeInv ==
  faults = FaultBudget =>
    /\ \A w \in Workers : UndisturbedInv(w)
    /\ \A m \in Msg : ready[m] + waiting[m] > 0 => Excused(m)
    /\ \A m \in Msg : MaxAttempts >= 2 /\ dead[m] > 0 =>
         ~Readable(orders[m.order].lines)
    /\ \A o \in Orders : Len(orders[o].lines) = 1 =>
         taken[o][1] = IF Confirming(o) THEN 1 ELSE 0
    /\ TakenByFirst
==============================================================================
