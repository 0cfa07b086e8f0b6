----------------------------- MODULE LazyChannel -----------------------------
(***************************************************************************)
(* config/rabbitmq.js in the API process: getChannel opens the connection   *)
(* on first use, caches the channel in a variable of the module and         *)
(* declares the topology, and a 'close' handler forgets what is cached.     *)
(* Every request publishes its event and then its snapshot through it: the  *)
(* channel is cached by then, so the two go out in one turn of the event    *)
(* loop.  A step is what runs between two awaits, or what the broker does.  *)
(* The 'connection' variable is left out: only closeConnection reads it,    *)
(* which the API never calls.  Definitions marked "Fault" are wrong         *)
(* variants of the one that follows.                                        *)
(***************************************************************************)
EXTENDS Naturals, FiniteSets

CONSTANTS
  Callers,       \* requests that call getChannel and publish, again and again
  MaxConnections, \* bound: connections to the broker that exist at a time
  FaultBudget    \* bound: how often a connection drops or the broker stops

ASSUME ChannelAssumption == {MaxConnections, FaultBudget} \subseteq Nat

Connections  == 1..MaxConnections
NoConnection == 0

VARIABLES
  up,            \* the broker runs
  declared,      \* how many declarations of the topology it has; they are durable
  conn,          \* the connections of the API process
  channel,       \* the cached channel, named after its connection
  call,          \* what each request does
  overlapped,    \* history: one call connected while another was in getChannel
  early,         \* history: one published before the broker had the exchange of
                 \* snapshots
  faults         \* what is left of the FaultBudget

vars == <<up, declared, conn, channel, call, overlapped, early, faults>>

\* setupTopology's declarations: what order.created, retries and dead letters
\* need, as one, order_sync_exchange, its queue, and the binding of the two.
Declarations == 4
SyncExchange == 2

\* A request: its state, the connection it uses, the declarations that were
\* answered, and those its messages find at the broker at least; as history,
\* whether a connection died during it, and whether it found the channel
\* cached while another call was in getChannel.
Call(pc, c, step, found, disturbed, shared) ==
  [pc |-> pc, conn |-> c, step |-> step, found |-> found,
   disturbed |-> disturbed, shared |-> shared]

Idle == Call("idle", NoConnection, 0, 0, FALSE, FALSE)

\* Call q moves on; its history stays.
Moved(q, pc, c, step, found) == Call(pc, c, step, found, q.disturbed, q.shared)

At(c, states) == call[c].pc \in states

\* Calls that are in getChannel, past its first line.
Inside == {c \in Callers : At(c, {"connecting", "opening", "setup"})}

Open == {k \in Connections : conn[k] = "open"}
Calm == up /\ \A k \in Connections : conn[k] # "dead"

\* Every call under way has seen a connection die.
Disturbed == [c \in Callers |->
                IF At(c, {"idle"}) THEN call[c] ELSE [call[c] EXCEPT !.disturbed = TRUE]]

Ended(c, answer) == Moved(call[c], answer, NoConnection, 0, 0)

Init ==
  /\ up = TRUE
  /\ declared \in {0, Declarations}
  /\ conn = [k \in Connections |-> "free"]
  /\ channel = NoConnection
  /\ call = [c \in Callers |-> Idle]
  /\ overlapped = FALSE
  /\ early = FALSE
  /\ faults = FaultBudget

------------------------------------------------------------------------------
Later(m, n) == IF m < n THEN n ELSE m

\* What is sent on a channel arrives in order: messages find the declarations
\* that were answered, and the one that was sent before them on their channel.
Found(k, answered) ==
  LET sent == {c \in Callers : At(c, {"setup"}) /\ call[c].conn = k}
  IN  IF sent = {} THEN answered
      ELSE Later(answered, call[CHOOSE c \in sent : TRUE].step + 1)

\* channel.publish on what getChannel returned: it throws on null and on a
\* channel that is known to be closed, and otherwise only fills a buffer.
Published(q, k, answered) ==
  IF k \notin {j \in Connections : conn[j] # "free"}
    THEN Moved(q, "failed", NoConnection, 0, 0)
    ELSE Moved(q, "sent", k, 0, Found(k, answered))

NewCall(shared) == Call("connecting", NoConnection, 0, 0, ~Calm, shared)

\* Fault: never uses the cached channel.
BeginUncached(c) ==
  /\ At(c, {"idle"})
  /\ call' = [call EXCEPT ![c] = NewCall(FALSE)]
  /\ overlapped' = (overlapped \/ Inside # {})
  /\ UNCHANGED <<up, declared, conn, channel, early, faults>>

\* getChannel up to amqp.connect, or with the cached channel.
Begin(c) ==
  /\ At(c, {"idle"})
  /\ IF channel # NoConnection
       THEN /\ call' = [call EXCEPT ![c] = Published(NewCall(Inside # {}), channel, declared)]
            /\ early' = (early \/ Found(channel, declared) < SyncExchange)
            /\ UNCHANGED overlapped
       ELSE /\ call' = [call EXCEPT ![c] = NewCall(FALSE)]
            /\ overlapped' = (overlapped \/ Inside # {})
            /\ UNCHANGED early
  /\ UNCHANGED <<up, declared, conn, channel, faults>>

\* connect resolves: the handlers are registered, and createChannel is sent.  The
\* connection gets the first name that is free.
Connected(c) ==
  /\ At(c, {"connecting"})
  /\ up
  /\ \E k \in Connections :
       /\ conn[k] = "free"
       /\ \A j \in 1..(k - 1) : conn[j] # "free"
       /\ conn' = [conn EXCEPT ![k] = "open"]
       /\ call' = [call EXCEPT ![c] = Moved(@, "opening", k, 0, 0)]
  /\ UNCHANGED <<up, declared, channel, overlapped, early, faults>>

\* connect rejects, and the request is answered with 400.
Refused(c) ==
  /\ At(c, {"connecting"})
  /\ ~up
  /\ call' = [call EXCEPT ![c] = Ended(c, "failed")]
  /\ UNCHANGED <<up, declared, conn, channel, overlapped, early, faults>>

\* Fault: does not await setupTopology.
OpenedUnawaited(c) ==
  /\ At(c, {"opening"})
  /\ conn[call[c].conn] = "open"
  /\ channel' = call[c].conn
  /\ call' = [call EXCEPT ![c] = Published(@, @.conn, declared)]
  /\ UNCHANGED <<up, declared, conn, overlapped, early, faults>>

\* createChannel resolves: the channel is cached, and setupTopology sends its
\* first declaration.
Opened(c) ==
  /\ At(c, {"opening"})
  /\ conn[call[c].conn] = "open"
  /\ channel' = call[c].conn
  /\ call' = [call EXCEPT ![c] = Moved(@, "setup", @.conn, 0, 0)]
  /\ UNCHANGED <<up, declared, conn, overlapped, early, faults>>

\* Fault: expects one answer too many.
DeclareOneMore(c) ==
  LET step     == call[c].step + 1
      answered == Later(declared, step)
  IN  /\ At(c, {"setup"})
      /\ conn[call[c].conn] = "open"
      /\ declared' = answered
      /\ call' = [call EXCEPT ![c] = IF step > Declarations
                                       THEN Published(@, channel, answered)
                                       ELSE Moved(@, "setup", @.conn, step, 0)]
      /\ UNCHANGED <<up, conn, channel, overlapped, early, faults>>

\* A declaration is answered and the next one sent; after the last one the call
\* returns the cached channel, whichever it is by now, and publishes on it.
Declare(c) ==
  LET step     == call[c].step + 1
      answered == Later(declared, step)
  IN  /\ At(c, {"setup"})
      /\ conn[call[c].conn] = "open"
      /\ declared' = answered
      /\ call' = [call EXCEPT ![c] = IF step = Declarations
                                       THEN Published(@, channel, answered)
                                       ELSE Moved(@, "setup", @.conn, step, 0)]
      /\ UNCHANGED <<up, conn, channel, overlapped, early, faults>>

\* What the broker has when the messages of c reach it.
Has(c) == Later(declared, call[c].found)

\* The event and the snapshot reach the broker: both have a queue to go to once
\* the last binding is there; until then the snapshot is dropped.
Arrive(c) ==
  /\ At(c, {"sent"})
  /\ conn[call[c].conn] = "open"
  /\ Has(c) >= SyncExchange
  /\ declared' = Has(c)
  /\ call' = [call EXCEPT ![c] = Ended(c, IF Has(c) = Declarations THEN "queued" ELSE "lost")]
  /\ UNCHANGED <<up, conn, channel, overlapped, early, faults>>

\* The exchange of the snapshot, or of both messages, is not declared: the
\* broker closes the channel.  Nobody listens to the channel's 'error', so
\* amqplib gives up the whole connection.
ExchangeIsMissing(c) ==
  /\ At(c, {"sent"})
  /\ conn[call[c].conn] = "open"
  /\ Has(c) < SyncExchange
  /\ declared' = Has(c)
  /\ conn' = [conn EXCEPT ![call[c].conn] = "dead"]
  /\ call' = [Disturbed EXCEPT ![c] = Ended(c, "lost")]
  /\ UNCHANGED <<up, channel, overlapped, early, faults>>

\* The request is over, and another one takes its place.
Answer(c) ==
  /\ At(c, {"queued", "lost", "failed"})
  /\ call' = [call EXCEPT ![c] = Idle]
  /\ UNCHANGED <<up, declared, conn, channel, overlapped, early, faults>>

\* What was pending on connection k: calls to the broker reject, and of what was
\* only buffered something is lost.
Rejected(k) ==
  [c \in Callers |->
     IF call[c].conn # k THEN call[c]
     ELSE Ended(c, IF At(c, {"sent"}) THEN "lost" ELSE "failed")]

\* Fault: the handler only logs.
NoticeCloseOnly(k) ==
  /\ conn[k] = "dead"
  /\ conn' = [conn EXCEPT ![k] = "free"]
  /\ call' = Rejected(k)
  /\ UNCHANGED <<up, declared, channel, overlapped, early, faults>>

\* The 'close' event of a connection, cached or not.
NoticeClose(k) ==
  /\ conn[k] = "dead"
  /\ conn' = [conn EXCEPT ![k] = "free"]
  /\ call' = Rejected(k)
  /\ channel' = NoConnection
  /\ UNCHANGED <<up, declared, overlapped, early, faults>>

------------------------------------------------------------------------------
(* The broker and the network.                                              *)

Drop(k) ==
  /\ conn[k] = "open"
  /\ faults > 0
  /\ faults' = faults - 1
  /\ conn' = [conn EXCEPT ![k] = "dead"]
  /\ call' = Disturbed
  /\ UNCHANGED <<up, declared, channel, overlapped, early>>

Stop ==
  /\ up
  /\ faults > 0
  /\ faults' = faults - 1
  /\ up' = FALSE
  /\ conn' = [k \in Connections |-> IF conn[k] = "open" THEN "dead" ELSE conn[k]]
  /\ call' = Disturbed
  /\ UNCHANGED <<declared, channel, overlapped, early>>

Start ==
  /\ ~up
  /\ up' = TRUE
  /\ UNCHANGED <<declared, conn, channel, call, overlapped, early, faults>>

\* A worker starts and declares the same topology.
WorkerDeclares ==
  /\ up
  /\ declared < Declarations
  /\ declared' = Declarations
  /\ UNCHANGED <<up, conn, channel, call, overlapped, early, faults>>

Next ==
  \/ \E c \in Callers : \/ Begin(c) \/ Connected(c) \/ Refused(c) \/ Opened(c)
                        \/ Declare(c) \/ Arrive(c) \/ ExchangeIsMissing(c)
                        \/ Answer(c)
  \/ \E k \in Connections : NoticeClose(k) \/ Drop(k)
  \/ Stop \/ Start \/ WorkerDeclares

Spec == Init /\ [][Next]_vars

\* The event loop runs what is ready, the broker answers while it runs, a stopped
\* broker is started again (restart: unless-stopped), and so are the workers,
\* which declare the topology as they start (worker.js:126-128).
Fairness ==
  /\ \A c \in Callers :
       WF_vars(\/ Connected(c) \/ Refused(c) \/ Opened(c) \/ Declare(c)
               \/ Arrive(c) \/ ExchangeIsMissing(c) \/ Answer(c))
  /\ WF_vars(\E k \in Connections : NoticeClose(k))
  /\ WF_vars(Start)
  /\ WF_vars(WorkerDeclares)

FairSpec == Spec /\ Fairness

------------------------------------------------------------------------------
CallType ==
  [pc : {"idle", "connecting", "opening", "setup", "sent", "queued", "lost", "failed"},
   conn : Connections \cup {NoConnection}, step : 0..(Declarations - 1),
   found : 0..Declarations, disturbed : BOOLEAN, shared : BOOLEAN]

\* The variables hold what the code puts there: only a call that waits for its
\* connection, or whose messages are on the way, names one, and no two calls set up
\* the same connection.
TypeOK ==
  /\ up \in BOOLEAN
  /\ declared \in 0..Declarations
  /\ conn \in [Connections -> {"free", "open", "dead"}]
  /\ channel \in Connections \cup {NoConnection}
  /\ call \in [Callers -> CallType]
  /\ \A c \in Callers :
       call[c].conn # NoConnection <=> At(c, {"opening", "setup", "sent"})
  /\ \A c, d \in Callers :
       /\ At(c, {"opening", "setup"}) /\ At(d, {"opening", "setup"})
       /\ call[c].conn = call[d].conn
       => c = d
  /\ overlapped \in BOOLEAN
  /\ early \in BOOLEAN
  /\ faults \in 0..FaultBudget

\* The cached channel never belongs to a connection whose 'close' event was
\* handled (config/rabbitmq.js:52-56), however calls and events interleave.
CachedChannelWorks == channel # NoConnection => conn[channel] # "free"

\* A request fails only when a connection died, or the broker was down, during
\* it or unnoticed before it; one of its messages is lost without an error only
\* for that, or because it was published while another request was still
\* declaring the topology.  And while nothing outside fails, connections die only
\* for a request that found the channel cached before the broker had the exchange
\* of snapshots (config/rabbitmq.js:58-59, 82).
NoFailureWithoutFault ==
  \A c \in Callers :
    /\ At(c, {"failed"}) => call[c].disturbed
    /\ At(c, {"lost"}) => call[c].disturbed \/ call[c].shared
    /\ call[c].disturbed => faults < FaultBudget \/ early

\* The process holds one connection (config/rabbitmq.js:44-50), unless two first
\* calls overlapped: drops, restarts and failed set-ups leak none.
OneConnection == ~overlapped => Cardinality(Open) <= 1

\* "the API is designed to self-heal without a process restart"
\* (RESILIENCE.md:50): every call returns, and when the faults are over there
\* comes a time from which no request fails and no message is lost.
SelfHeals ==
  /\ \A c \in Callers : []<>At(c, {"idle", "queued"})
  /\ <>[](\A c \in Callers : ~At(c, {"failed", "lost"}))
==============================================================================
