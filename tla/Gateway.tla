------------------------------- MODULE Gateway -------------------------------
(***************************************************************************)
(* What stands between a client and a handler: the limiters of app.js and   *)
(* routes/orderRoutes.js, authenticate and authorize, on one API process    *)
(* with one connection to Redis.  From one await to the next a request runs *)
(* without interruption, so a step is what happens between two of them.     *)
(* Commands leave on the connection in the order they were issued and their *)
(* replies come back in that order; a connection that breaks takes the      *)
(* replies with it, and ioredis sends unanswered commands again.            *)
(***************************************************************************)
EXTENDS TokenBucket, Sequences, FiniteSets

CONSTANTS
  Arrivals,      \* bound: the requests that arrive, and what each of them may be
  Ips, Users,    \* the addresses and the users limiters tell apart
  NoBearer,      \* no Bearer token, or one that is malformed or expired
  Role,          \* the role in each user's access token
  Capacity,      \* the capacity of each limiter
  MaxClock,      \* bound: the last tick
  MaxDelay,      \* bound: ticks a command waits for Redis to execute it
  MaxBack,       \* bound: ticks the host's clock is set back altogether
  MaxLosses      \* bound: how often the connection to Redis breaks

Limiters == {"auth", "api", "create"}
Routes   == {"auth", "create", "read", "list"}

ASSUME GatewayAssumption ==
  /\ Arrivals \in Seq(SUBSET [route : Routes, ip : Ips, bearer : Users \cup {NoBearer}])
  /\ NoBearer \notin Users
  /\ Role \in [Users -> {"ADMIN", "CUSTOMER"}]
  /\ Capacity \in [Limiters -> Nat]
  /\ \A l \in Limiters : Capacity[l] >= Cost
  /\ {MaxClock, MaxDelay, MaxBack, MaxLosses} \subseteq Nat
  /\ MaxDelay + MaxBack <= Slack

VARIABLES
  clock,         \* Date.now(), and the clock of Redis on the same host
  setBack,       \* ticks the clock was set back so far
  bucket,        \* the hashes in Redis
  request,       \* the requests, in the order they arrived
  wire,          \* commands without a reply, in the order they were issued
  replies,       \* the replies on their way, to the first commands of wire
  connected,     \* the connection to Redis is ready
  losses         \* how often it may still break

vars == <<clock, setBack, bucket, request, wire, replies, connected, losses>>

Keys == {"auth", "api"} \X Ips \cup {"create"} \X Users

\* The limiters a route passes, in their order.
LimitersOf(route) ==
  CASE route = "auth"   -> <<"auth", "api">>
    [] route = "create" -> <<"api", "create">>
    [] OTHER            -> <<"api">>

\* authorize(...) of each route.
AllowedRoles(route) == IF route = "list" THEN {"ADMIN"} ELSE {"ADMIN", "CUSTOMER"}

\* authorize: the role of the access token is one of the route's.
Permitted(q) == Role[q.bearer] \in AllowedRoles(q.route)

\* authenticate and authorize, which every order route runs after the first
\* limiter.
Verdict(q) ==
  CASE q.route = "auth"     -> "pass"
    [] q.bearer = NoBearer  -> "401"
    [] ~Permitted(q)        -> "403"
    [] OTHER                -> "pass"

\* A request: what it asks for, how many limiters it has reached, the time it
\* sent the last one's command, the limiters that failed open, and its state.
Request(a, stage, stamp, opened, state) ==
  [route |-> a.route, ip |-> a.ip, bearer |-> a.bearer, stage |-> stage,
   stamp |-> stamp, opened |-> opened, state |-> state]

Limiter(q) == LimitersOf(q.route)[q.stage]

\* keyFn: req.user?.id || req.ip; req.user is set by authenticate.
Key(q, l) == IF l = "create" THEN <<l, q.bearer>> ELSE <<l, q.ip>>

Requests == DOMAIN request

Waiting == {r \in Requests : request[r].state = "eval"}
Wired   == {wire[i] : i \in DOMAIN wire}

Init ==
  /\ clock = 0
  /\ setBack = 0
  /\ bucket = [k \in Keys |-> NewBucket]
  /\ request = <<>>
  /\ wire = <<>>
  /\ replies = <<>>
  /\ connected = TRUE
  /\ losses = MaxLosses

------------------------------------------------------------------------------
\* redisClient.eval: on a connection that is not ready it rejects at once.
Send(r, queue) == wire' = IF connected THEN Append(queue, r) ELSE queue

Arrive ==
  /\ Len(request) < Len(Arrivals)
  /\ \E a \in Arrivals[Len(request) + 1] :
       request' = Append(request, Request(a, 1, clock, {}, "eval"))
  /\ Send(Len(request) + 1, wire)
  /\ UNCHANGED <<clock, setBack, bucket, replies, connected, losses>>

\* The answer is sent; the stamp was a local of the middleware.
Ended(q, answer) == [q EXCEPT !.state = answer, !.stamp = 0]

\* next(): the request runs on to its next limiter, to a refusal, or to its
\* handler; queue is the wire without the command it waited for.
GoOn(r, opened, queue) ==
  LET q    == [request[r] EXCEPT !.opened = opened]
      last == q.stage = Len(LimitersOf(q.route))
      end  == CASE q.stage = 1 /\ Verdict(q) # "pass" -> Verdict(q)
                [] last  -> "served"
                [] OTHER -> "eval"
  IN  IF end = "eval"
        THEN /\ request' = [request EXCEPT ![r] =
                              Request(q, q.stage + 1, clock, opened, "eval")]
             /\ Send(r, queue)
        ELSE /\ request' = [request EXCEPT ![r] = Ended(q, end)]
             /\ wire' = queue

\* Redis runs the script of the first command it has not run yet.
Execute ==
  /\ connected
  /\ Len(replies) < Len(wire)
  /\ LET q == request[wire[Len(replies) + 1]]
         k == Key(q, Limiter(q))
         c == Capacity[Limiter(q)]
     IN  /\ bucket' = [bucket EXCEPT ![k] = Write(@, c, q.stamp, clock)]
         /\ replies' = Append(replies, Allowed(bucket[k], c, q.stamp, clock))
  /\ UNCHANGED <<clock, setBack, request, wire, connected, losses>>

\* Fault: sends 429 and calls next() all the same.
PassAnyway ==
  /\ replies # <<>>
  /\ GoOn(Head(wire), request[Head(wire)].opened, Tail(wire))
  /\ replies' = Tail(replies)
  /\ UNCHANGED <<clock, setBack, bucket, connected, losses>>

\* The reply allows the request.
Pass ==
  /\ replies # <<>>
  /\ Head(replies)
  /\ GoOn(Head(wire), request[Head(wire)].opened, Tail(wire))
  /\ replies' = Tail(replies)
  /\ UNCHANGED <<clock, setBack, bucket, connected, losses>>

\* The reply refuses it: 429.
Refuse ==
  /\ replies # <<>>
  /\ ~Head(replies)
  /\ request' = [request EXCEPT ![Head(wire)] = Ended(@, "429")]
  /\ wire' = Tail(wire)
  /\ replies' = Tail(replies)
  /\ UNCHANGED <<clock, setBack, bucket, connected, losses>>

\* eval rejected: the request goes on without the limiter.
FailOpen(r) ==
  /\ r \in Waiting \ Wired
  /\ GoOn(r, request[r].opened \cup {Limiter(request[r])}, wire)
  /\ UNCHANGED <<clock, setBack, bucket, replies, connected, losses>>

------------------------------------------------------------------------------
(* Time, and what becomes of the connection and of Redis.                   *)

Tick ==
  /\ clock < MaxClock
  /\ \A r \in Wired : clock + 1 <= request[r].stamp + MaxDelay
  /\ clock' = clock + 1
  /\ UNCHANGED <<setBack, bucket, request, wire, replies, connected, losses>>

SetBack ==
  /\ clock > 0
  /\ setBack < MaxBack
  /\ clock' = clock - 1
  /\ setBack' = setBack + 1
  /\ UNCHANGED <<bucket, request, wire, replies, connected, losses>>

\* The connection breaks, perhaps because Redis restarts, with its data or
\* without.
Disconnect ==
  /\ connected
  /\ losses > 0
  /\ losses' = losses - 1
  /\ connected' = FALSE
  /\ replies' = <<>>
  /\ \/ UNCHANGED bucket
     \/ bucket' = [k \in Keys |-> Lose(bucket[k])]
  /\ UNCHANGED <<clock, setBack, request, wire>>

\* The first attempt to connect again succeeds: what has no reply is sent again.
Reconnect ==
  /\ ~connected
  /\ connected' = TRUE
  /\ UNCHANGED <<clock, setBack, bucket, request, wire, replies, losses>>

\* It fails: maxRetriesPerRequest is exhausted, and every eval rejects.
GiveUp ==
  /\ ~connected
  /\ wire # <<>>
  /\ wire' = <<>>
  /\ UNCHANGED <<clock, setBack, bucket, request, replies, connected, losses>>

Next ==
  \/ Arrive
  \/ \E r \in Requests : FailOpen(r)
  \/ Execute \/ Pass \/ Refuse
  \/ Tick \/ SetBack \/ Disconnect \/ Reconnect \/ GiveUp

Spec == Init /\ [][Next]_vars

------------------------------------------------------------------------------
LimiterOfKey(k) == k[1]

RequestType ==
  [route : Routes, ip : Ips, bearer : Users \cup {NoBearer}, stage : {1, 2},
   stamp : 0..MaxClock, opened : SUBSET Limiters,
   state : {"eval", "served", "401", "403", "429"}]

\* The variables hold what the code puts there: no bucket holds more than its
\* capacity or less than nothing, a limiter that asks for the user has one, only
\* requests that wait have a command on the wire, each one, and no reply is
\* without its command.
TypeOK ==
  /\ clock \in 0..MaxClock
  /\ setBack \in 0..MaxBack
  /\ bucket \in [Keys -> Buckets]
  /\ \A k \in Keys : bucket[k].tokens <= Capacity[LimiterOfKey(k)]
  /\ request \in Seq(RequestType)
  /\ Len(request) <= Len(Arrivals)
  /\ \A r \in Waiting : /\ request[r].stage <= Len(LimitersOf(request[r].route))
                        /\ Key(request[r], Limiter(request[r])) \in Keys
  /\ wire \in Seq(Waiting)
  /\ \A i, j \in DOMAIN wire : wire[i] = wire[j] => i = j
  /\ replies \in Seq(BOOLEAN)
  /\ Len(replies) <= Len(wire)
  /\ connected \in BOOLEAN
  /\ losses \in 0..MaxLosses

\* A bucket never gives more than its burst and its refill: its charges stay
\* within capacity, once more for each time Redis lost the key, and the refill
\* of the ticks its stamps covered (middleware/rateLimiter.js:13-16), although
\* the clock may be set back, commands may be run twice and keys expire.
GrantsBounded ==
  \A k \in Keys :
    LET b == bucket[k]
        c == Capacity[LimiterOfKey(k)]
        r == Refill * (b.timestamp + b.rewound)
    IN  IF b.held THEN b.spent + b.tokens <= c * (b.losses + 1) + r
                  ELSE b.spent <= c * b.losses + r

\* "Idle-expired well after it could possibly be full again"
\* (middleware/rateLimiter.js:45-46): when the script of a command on the wire
\* finds the key gone because it expired, the bucket it forgot would have been
\* full, however late the command is and though the clock was set back.
ExpiryForgetsNothing ==
  \A r \in Wired :
    LET q == request[r]
        c == Capacity[Limiter(q)]
        b == bucket[Key(q, Limiter(q))]
    IN  b.held /\ ~Present(b, c, clock) =>
          b.tokens + Refill * Larger(0, q.stamp - b.timestamp) >= c

\* Requests that are refused do not put off the refill
\* (middleware/rateLimiter.js:34-44): a bucket holds what came back since its
\* last charge, however often it was asked in between.
PollingIsFree ==
  \A k \in Keys :
    LET b == bucket[k]
    IN  b.held => b.tokens >= Smaller(Capacity[LimiterOfKey(k)],
                                      Refill * (b.timestamp - b.granted))

\* The requests a limiter let through because of the bucket k.
LetThrough(k) ==
  {r \in Requests :
     LET q == request[r]
     IN  \E i \in 1..q.stage :
           LET l == LimitersOf(q.route)[i]
           IN  /\ Key(q, l) = k
               /\ l \notin q.opened
               /\ i < q.stage \/ q.state \notin {"eval", "429"}}

\* Nobody gets around a bucket: each request that a limiter let through, and did
\* not fail open for, has been charged in Redis, whatever replies were lost and
\* commands sent again (middleware/rateLimiter.js:69-100).
NobodyGetsAround ==
  \A k \in Keys : Cost * Cardinality(LetThrough(k)) <= bucket[k].spent
===============================================================================
