---------------------------- MODULE GatewayProofs ----------------------------
(***************************************************************************)
(* Proofs about Gateway, for any limiters' capacities, any refill and cost, *)
(* any number of requests, ticks and broken connections: the script's own   *)
(* lemmas first, then the invariants of the machine.                        *)
(***************************************************************************)
EXTENDS Gateway, FiniteSetTheorems, TLAPS

\* Multiplication by Refill, as the provers need it.
LEMMA RefillMonotone ==
  ASSUME NEW x \in Int, NEW y \in Int, x <= y
  PROVE  Refill * x <= Refill * y /\ Refill * x \in Int /\ Refill * y \in Int
<1>1. Refill \in Nat
  BY BucketAssumption
<1> QED
  BY <1>1, Z3

LEMMA RefillAdds ==
  ASSUME NEW x \in Int, NEW y \in Int
  PROVE  /\ Refill * (x + y) = Refill * x + Refill * y
         /\ Refill * (x - y) = Refill * x - Refill * y
         /\ Refill * x \in Int /\ Refill * y \in Int
<1>1. Refill \in Nat
  BY BucketAssumption
<1> QED
  BY <1>1, Z3

LEMMA CeilingFills ==
  ASSUME NEW c \in Nat
  PROVE  Ceiling(c) \in Nat /\ Refill * Ceiling(c) >= c
<1>1. Refill \in Nat /\ Refill > 0
  BY BucketAssumption
<1> DEFINE n == c + Refill - 1
<1>2. n \in Nat
  BY <1>1
<1>3. n \div Refill \in Int /\ n % Refill \in Int /\ n % Refill < Refill /\ n % Refill >= 0
  BY <1>1, <1>2, Z3
<1>4. n = Refill * (n \div Refill) + (n % Refill)
  BY <1>1, <1>2, Z3
<1> QED
  BY <1>1, <1>2, <1>3, <1>4, Z3 DEF Ceiling

------------------------------------------------------------------------------
\* What GrantsBounded and PollingIsFree say of one bucket.
Bounded(b, c) ==
  LET r == Refill * (b.timestamp + b.rewound)
  IN  IF b.held THEN b.spent + b.tokens <= c * (b.losses + 1) + r
                ELSE b.spent <= c * b.losses + r

Refilled(b, c) ==
  b.held => b.tokens >= Smaller(c, Refill * (b.timestamp - b.granted))

\* The top-up never takes tokens away and stops at the capacity.
LEMMA FillType ==
  ASSUME NEW b \in Buckets, NEW c \in Nat, b.tokens <= c, NEW now \in Nat, NEW time \in Nat
  PROVE  /\ Fill(b, c, now, time) \in Nat
         /\ Fill(b, c, now, time) <= c
         /\ Present(b, c, time) =>
              \/ Fill(b, c, now, time) = c
              \/ Fill(b, c, now, time) = b.tokens + Refill * Larger(0, now - b.timestamp)
         /\ Present(b, c, time) =>
              Fill(b, c, now, time) <= b.tokens + Refill * Larger(0, now - b.timestamp)
         /\ ~Present(b, c, time) => Fill(b, c, now, time) = c
<1>1. b.tokens \in Nat /\ b.timestamp \in Nat
  BY DEF Buckets
<1>2. Larger(0, now - b.timestamp) \in Nat
  BY <1>1 DEF Larger
<1>3. Refill * Larger(0, now - b.timestamp) \in Nat
  BY <1>2, RefillMonotone, BucketAssumption, Z3
<1> QED
  BY <1>1, <1>3 DEF Fill, Smaller

LEMMA WriteType ==
  ASSUME NEW b \in Buckets, NEW c \in Nat, b.tokens <= c, NEW now \in Nat, NEW time \in Nat
  PROVE  /\ Write(b, c, now, time) \in Buckets
         /\ Write(b, c, now, time).tokens <= c
         /\ Write(b, c, now, time).held
         /\ Write(b, c, now, time).timestamp = now
         /\ Write(b, c, now, time).written = time
<1> DEFINE filled == Fill(b, c, now, time)
           charge == IF Allowed(b, c, now, time) THEN Cost ELSE 0
<1>1. filled \in Nat /\ filled <= c
  BY FillType
<1>2. charge \in Nat /\ charge <= filled
  BY <1>1, BucketAssumption DEF Allowed
<1>3. Larger(0, b.timestamp - now) \in Nat
  BY DEF Larger, Buckets
<1>4. filled - charge \in Nat /\ filled - charge <= c
  BY <1>1, <1>2
<1>5. Write(b, c, now, time)
        = Bucket(TRUE, filled - charge, now, time,
                 IF Allowed(b, c, now, time) \/ ~Present(b, c, time) THEN now ELSE b.granted,
                 b.spent + charge, b.rewound + Larger(0, b.timestamp - now), b.losses)
  BY DEF Write
<1> HIDE DEF filled, charge
<1> QED
  BY <1>2, <1>3, <1>4, <1>5 DEF Bucket, Buckets

\* The script keeps the bound, provided that a key which is gone because it
\* expired belonged to a bucket that would be full.
LEMMA WriteBounded ==
  ASSUME NEW b \in Buckets, NEW c \in Nat, b.tokens <= c, NEW now \in Nat, NEW time \in Nat,
         Bounded(b, c),
         b.held /\ ~Present(b, c, time) => now >= b.timestamp /\ Refill * (now - b.timestamp) >= c
  PROVE  Bounded(Write(b, c, now, time), c)
<1> DEFINE filled == Fill(b, c, now, time)
           charge == IF Allowed(b, c, now, time) THEN Cost ELSE 0
           back   == Larger(0, b.timestamp - now)
           gain   == Larger(0, now - b.timestamp)
           w      == Write(b, c, now, time)
<1>1. filled \in Nat /\ filled <= c /\ charge \in Nat /\ charge <= filled
  BY FillType, BucketAssumption DEF Allowed
<1>2. /\ b.tokens \in Nat /\ b.timestamp \in Nat /\ b.spent \in Nat /\ b.rewound \in Nat
      /\ b.losses \in Nat
  BY DEF Buckets
<1>3. back \in Nat /\ gain \in Nat /\ now + back = b.timestamp + gain
  BY <1>2 DEF Larger
<1>4. /\ w.held /\ w.tokens = filled - charge /\ w.timestamp = now
      /\ w.spent = b.spent + charge /\ w.rewound = b.rewound + back /\ w.losses = b.losses
  BY DEF Write, Bucket
<1>5. now + (b.rewound + back) = (b.timestamp + b.rewound) + gain
  BY <1>2, <1>3
<1>6. /\ Refill * (now + (b.rewound + back)) = Refill * (b.timestamp + b.rewound) + Refill * gain
      /\ Refill * (b.timestamp + b.rewound) \in Int /\ Refill * gain \in Int
      /\ Refill * gain >= 0
  <2>1. b.timestamp + b.rewound \in Int /\ gain \in Int /\ 0 <= gain
    BY <1>2, <1>3
  <2>2. Refill * 0 = 0
    BY BucketAssumption
  <2> HIDE DEF gain, back
  <2> QED
    <3>1. Refill * ((b.timestamp + b.rewound) + gain) = Refill * (b.timestamp + b.rewound) + Refill * gain
      BY <2>1, RefillAdds
    <3>2. Refill * gain >= Refill * 0
      BY <2>1, RefillMonotone
    <3> QED
      BY <1>5, <2>1, <2>2, <3>1, <3>2, RefillMonotone
<1>7. c * (b.losses + 1) = c * b.losses + c /\ c * b.losses \in Int
  BY <1>2, Z3
<1>8. w.spent + w.tokens = b.spent + filled
  BY <1>1, <1>2, <1>4
<1> HIDE DEF filled, charge, back, gain, w
<1>9. CASE Present(b, c, time)
  <2>1. b.held /\ filled <= b.tokens + Refill * gain
    BY <1>9, FillType DEF Present, filled, gain
  <2>2. b.spent + b.tokens <= c * (b.losses + 1) + Refill * (b.timestamp + b.rewound)
    BY <2>1 DEF Bounded
  <2> QED
    BY <1>1, <1>2, <1>4, <1>6, <1>7, <1>8, <2>1, <2>2 DEF Bounded, w
<1>10. CASE ~Present(b, c, time)
  <2>1. b.spent <= c * b.losses + Refill * (b.timestamp + b.rewound) + Refill * gain
    <3>1. CASE b.held
      <4>1. Refill * gain >= c
        BY <1>2, <1>10, <3>1 DEF gain, Larger
      <4>2. b.spent + b.tokens <= c * (b.losses + 1) + Refill * (b.timestamp + b.rewound)
        BY <3>1 DEF Bounded
      <4> QED
        BY <1>2, <1>6, <1>7, <4>1, <4>2
    <3>2. CASE ~b.held
      <4>1. b.spent <= c * b.losses + Refill * (b.timestamp + b.rewound)
        BY <3>2 DEF Bounded
      <4> QED
        BY <1>2, <1>6, <1>7, <4>1
    <3> QED
      BY <3>1, <3>2
  <2> QED
    BY <1>1, <1>2, <1>4, <1>6, <1>7, <1>8, <2>1 DEF Bounded, w
<1> QED
  BY <1>9, <1>10 DEF w

\* The script, asked at any time, does not put off the refill.
LEMMA WriteRefilled ==
  ASSUME NEW b \in Buckets, NEW c \in Nat, b.tokens <= c, NEW now \in Nat, NEW time \in Nat,
         Cost <= c, Refilled(b, c)
  PROVE  Refilled(Write(b, c, now, time), c)
<1> DEFINE filled == Fill(b, c, now, time)
           w      == Write(b, c, now, time)
<1>1. filled \in Nat /\ filled <= c
  BY FillType
<1>2. b.tokens \in Nat /\ b.timestamp \in Nat /\ b.granted \in Nat
  BY DEF Buckets
<1>3. w.timestamp = now /\ w.tokens \in Nat
  <2>1. w \in Buckets /\ w.timestamp = now
    BY WriteType
  <2> HIDE DEF w
  <2> QED
    BY <2>1 DEF Buckets
<1>4. CASE Allowed(b, c, now, time) \/ ~Present(b, c, time)
  <2>1. w.granted = now
    BY <1>4 DEF Write, Bucket
  <2>2. Refill * (now - now) = 0
    BY BucketAssumption
  <2> QED
    BY <1>3, <2>1, <2>2 DEF Refilled, Smaller
<1>5. CASE ~Allowed(b, c, now, time) /\ Present(b, c, time)
  <2>1. w.granted = b.granted /\ w.tokens = filled
    BY <1>1, <1>5 DEF Write, Bucket
  <2>2. filled < c
    BY <1>1, <1>5, BucketAssumption DEF Allowed
  <2>3. filled = b.tokens + Refill * Larger(0, now - b.timestamp)
    BY <1>5, <2>2, FillType
  <2>4. b.tokens >= Smaller(c, Refill * (b.timestamp - b.granted))
    BY <1>5 DEF Refilled, Present
  <2>5. /\ Refill * (b.timestamp - b.granted) \in Int
        /\ Refill * (now - b.granted) \in Int
        /\ Refill * Larger(0, now - b.timestamp) \in Int
        /\ Refill * (now - b.granted)
             <= Refill * (b.timestamp - b.granted) + Refill * Larger(0, now - b.timestamp)
        /\ Refill * Larger(0, now - b.timestamp) >= 0
    <3> DEFINE gain == Larger(0, now - b.timestamp)
               old  == b.timestamp - b.granted
    <3>1. /\ gain \in Int /\ old \in Int /\ 0 <= gain
          /\ now - b.granted <= old + gain /\ now - b.granted \in Int
      BY <1>2 DEF Larger
    <3>2. Refill * 0 = 0
      BY BucketAssumption
    <3> HIDE DEF gain, old
    <3>3. /\ Refill * (now - b.granted) <= Refill * (old + gain)
          /\ Refill * (old + gain) = Refill * old + Refill * gain
          /\ Refill * old \in Int /\ Refill * gain \in Int /\ Refill * gain >= 0
          /\ Refill * (now - b.granted) \in Int
      <4>1. Refill * (now - b.granted) <= Refill * (old + gain) /\ Refill * (now - b.granted) \in Int
        BY <3>1, RefillMonotone
      <4>2. /\ Refill * (old + gain) = Refill * old + Refill * gain
            /\ Refill * old \in Int /\ Refill * gain \in Int
        BY <3>1, RefillAdds
      <4>3. Refill * 0 <= Refill * gain
        BY <3>1, RefillMonotone
      <4> QED
        BY <3>2, <4>1, <4>2, <4>3
    <3> QED
      BY <3>3 DEF gain, old
  <2>6. b.tokens < c
    BY <1>2, <2>2, <2>3, <2>5
  <2> HIDE DEF filled, w
  <2> QED
    BY <1>2, <1>3, <2>1, <2>3, <2>4, <2>5, <2>6 DEF Refilled, Smaller, w
<1> QED
  BY <1>4, <1>5

\* Redis losing the key grants one burst more, which Bounded counts.
LEMMA LoseKeeps ==
  ASSUME NEW b \in Buckets, NEW c \in Nat, b.tokens <= c
  PROVE  /\ Lose(b) \in Buckets
         /\ Lose(b).tokens <= c
         /\ Lose(b).timestamp = b.timestamp
         /\ ~Lose(b).held
         /\ Bounded(b, c) => Bounded(Lose(b), c)
<1>1. /\ Lose(b) \in Buckets /\ Lose(b).tokens = b.tokens /\ ~Lose(b).held
      /\ Lose(b).timestamp = b.timestamp /\ Lose(b).rewound = b.rewound
      /\ Lose(b).spent = b.spent
      /\ Lose(b).losses = b.losses + (IF b.held THEN 1 ELSE 0)
  <2>1. b.losses + (IF b.held THEN 1 ELSE 0) \in Nat
    BY DEF Buckets
  <2>2. Lose(b) = [b EXCEPT !.held = FALSE,
                            !.losses = b.losses + (IF b.held THEN 1 ELSE 0)]
    BY DEF Lose, Buckets
  <2> DEFINE more == b.losses + (IF b.held THEN 1 ELSE 0)
  <2> HIDE DEF more
  <2>3. Lose(b) = [b EXCEPT !.held = FALSE, !.losses = more] /\ more \in Nat
    BY <2>1, <2>2 DEF more
  <2> QED
    BY <2>3 DEF Buckets, more
<1>2. /\ b.tokens \in Nat /\ b.spent \in Nat /\ b.losses \in Nat
      /\ Refill * (b.timestamp + b.rewound) \in Int
  BY RefillMonotone DEF Buckets
<1>3. c * (b.losses + 1) \in Int /\ c * b.losses \in Int
  BY <1>2
<1> QED
  BY <1>1, <1>2, <1>3 DEF Bounded

------------------------------------------------------------------------------
\* A command on the wire is not from the future by more than the clock was set
\* back, and not older than MaxDelay.
Stamped(r) ==
  /\ request[r].stamp <= clock + setBack
  /\ clock <= request[r].stamp + MaxDelay

Stamps == \A r \in Wired : Stamped(r)

\* A bucket was not written long before its own stamp.
Written == \A k \in Keys : bucket[k].held => bucket[k].timestamp <= bucket[k].written + MaxBack

\* A connection that is not ready brings no replies.
Silent == connected \/ replies = <<>>

IInv == TypeOK /\ Stamps /\ Written /\ Silent

\* What TypeOK says of the requests and of the wire.
RequestsOK ==
  /\ request \in Seq(RequestType)
  /\ Len(request) <= Len(Arrivals)
  /\ \A r \in Waiting : /\ request[r].stage <= Len(LimitersOf(request[r].route))
                        /\ Key(request[r], Limiter(request[r])) \in Keys

QueueOK(queue) ==
  /\ queue \in Seq(Waiting)
  /\ \A i, j \in DOMAIN queue : queue[i] = queue[j] => i = j

LEMMA WaitingRequests ==
  ASSUME RequestsOK
  PROVE  /\ Requests = 1..Len(request)
         /\ \A r \in Requests : request[r] \in RequestType
         /\ Waiting \subseteq Requests
BY DEF RequestsOK, Requests, Waiting

\* A request at its first limiter is told apart by its address.
LEMMA FirstKey ==
  ASSUME NEW q \in RequestType, q.stage = 1
  PROVE  q.stage <= Len(LimitersOf(q.route)) /\ Key(q, Limiter(q)) \in Keys
BY DEF RequestType, Routes, LimitersOf, Limiter, Key, Keys

\* At its second one it comes with a user, or has none to come with.
LEMMA SecondKey ==
  ASSUME NEW q \in RequestType, q.stage = 2, Len(LimitersOf(q.route)) = 2,
         Verdict(q) = "pass"
  PROVE  q.stage <= Len(LimitersOf(q.route)) /\ Key(q, Limiter(q)) \in Keys
<1>1. q.route \in {"auth", "create"}
  BY DEF RequestType, Routes, LimitersOf
<1>2. CASE q.route = "auth"
  BY <1>2 DEF RequestType, LimitersOf, Limiter, Key, Keys
<1>3. CASE q.route = "create"
  <2>1. q.bearer \in Users
    BY <1>3 DEF Verdict, RequestType
  <2> QED
    BY <1>3, <2>1 DEF LimitersOf, Limiter, Key, Keys
<1> QED
  BY <1>1, <1>2, <1>3

\* Appending a request that is not on the wire.
LEMMA SendKeeps ==
  ASSUME NEW S, NEW queue \in Seq(S), NEW r \in S, Send(r, queue),
         \A i, j \in DOMAIN queue : queue[i] = queue[j] => i = j,
         \A i \in DOMAIN queue : queue[i] # r
  PROVE  /\ wire' \in Seq(S)
         /\ \A i, j \in DOMAIN wire' : wire'[i] = wire'[j] => i = j
         /\ Len(wire') >= Len(queue)
         /\ \A i \in DOMAIN wire' : wire'[i] = r \/ \E j \in DOMAIN queue : wire'[i] = queue[j]
<1>1. CASE connected
  <2>1. wire' = Append(queue, r)
    BY <1>1 DEF Send
  <2>2. /\ wire' \in Seq(S) /\ Len(wire') = Len(queue) + 1
        /\ \A i \in 1..Len(queue) : wire'[i] = queue[i]
        /\ wire'[Len(queue) + 1] = r
        /\ DOMAIN wire' = 1..(Len(queue) + 1) /\ DOMAIN queue = 1..Len(queue)
        /\ Len(queue) \in Nat
    BY <2>1
  <2> QED
    BY <2>2
<1>2. CASE ~connected
  BY <1>2 DEF Send
<1> QED
  BY <1>1, <1>2

\* A request that got its answer.
LEMMA EndedType ==
  ASSUME NEW q \in RequestType, NEW answer \in {"served", "401", "403", "429"}
  PROVE  Ended(q, answer) \in RequestType /\ Ended(q, answer).state = answer
<1>1. 0 \in 0..MaxClock
  BY GatewayAssumption
<1> DEFINE p == [q EXCEPT !.state = answer]
<1>2. p \in RequestType /\ p.state = answer
  BY DEF RequestType
<1>3. Ended(q, answer) = [p EXCEPT !.stamp = 0]
  BY DEF Ended
<1> HIDE DEF p
<1> QED
  BY <1>1, <1>2, <1>3 DEF RequestType

\* A request that got its answer, and is not on the wire, waits no more.
LEMMA EndKeeps ==
  ASSUME RequestsOK, NEW r \in Waiting, NEW e \in RequestType, e.state # "eval", NEW queue,
         QueueOK(queue),
         \A i \in DOMAIN queue : queue[i] # r /\ Stamped(queue[i]),
         request' = [request EXCEPT ![r] = e], wire' = queue, UNCHANGED <<clock, setBack>>
  PROVE  RequestsOK' /\ QueueOK(wire)' /\ Stamps'
<1>1. /\ request' \in Seq(RequestType) /\ Len(request') = Len(request)
      /\ request'[r].state # "eval"
      /\ \A x \in 1..Len(request) : x # r => request'[x] = request[x]
  BY WaitingRequests DEF RequestsOK
<1>2. Waiting' = Waiting \ {r}
  BY <1>1 DEF Waiting, Requests, RequestsOK
<1>3. \A x \in Waiting' : request'[x] = request[x] /\ x \in Waiting
  BY <1>1, <1>2, WaitingRequests
<1>4. RequestsOK'
  BY <1>1, <1>3 DEF RequestsOK, Limiter, Key
<1>5. wire' \in Seq(Waiting')
  BY <1>2 DEF QueueOK
<1>6. Stamps'
  BY <1>2, <1>3 DEF Stamps, Stamped, Wired, QueueOK
<1> QED
  BY <1>4, <1>5, <1>6 DEF QueueOK

\* GoOn keeps the requests and the wire in order, and stamps what it sends.
LEMMA GoOnKeeps ==
  ASSUME RequestsOK, NEW r \in Waiting, NEW opened \in SUBSET Limiters, NEW queue,
         QueueOK(queue), clock \in 0..MaxClock, setBack \in 0..MaxBack,
         \A i \in DOMAIN queue : queue[i] # r /\ Stamped(queue[i]),
         GoOn(r, opened, queue), UNCHANGED <<clock, setBack>>
  PROVE  /\ RequestsOK'
         /\ QueueOK(wire)'
         /\ Len(wire') >= Len(queue)
         /\ Stamps'
<1> DEFINE q    == [request[r] EXCEPT !.opened = opened]
           last == q.stage = Len(LimitersOf(q.route))
           end  == CASE q.stage = 1 /\ Verdict(q) # "pass" -> Verdict(q)
                     [] last  -> "served"
                     [] OTHER -> "eval"
           sent == Request(q, q.stage + 1, clock, opened, "eval")
<1>1. /\ r \in 1..Len(request) /\ request[r] \in RequestType /\ request[r].state = "eval"
      /\ request[r].stage <= Len(LimitersOf(request[r].route))
  BY WaitingRequests DEF RequestsOK, Waiting
<1>2. /\ q \in RequestType /\ q.stage \in {1, 2} /\ q.stage <= Len(LimitersOf(q.route))
      /\ Len(LimitersOf(q.route)) \in {1, 2}
  <2>1. q \in RequestType /\ q.stage = request[r].stage /\ q.route = request[r].route
    BY <1>1 DEF RequestType
  <2> QED
    BY <1>1, <2>1 DEF RequestType, LimitersOf, Routes
<1>3. Verdict(q) \in {"pass", "401", "403"}
  BY DEF Verdict
<1> HIDE DEF q
<1>4. CASE end = "eval"
  <2>1. /\ request' = [request EXCEPT ![r] = sent] /\ Send(r, queue)
    BY <1>4 DEF GoOn, q
  <2>2. q.stage = 1 /\ Verdict(q) = "pass" /\ Len(LimitersOf(q.route)) = 2
    <3>1. ~(q.stage = 1 /\ Verdict(q) # "pass")
      BY <1>3, <1>4
    <3>2. q.stage # Len(LimitersOf(q.route))
      BY <1>4, <3>1
    <3>3. q.stage = 1 /\ Len(LimitersOf(q.route)) = 2
      <4>1. \A a, n \in {1, 2} : a <= n /\ a # n => a = 1 /\ n = 2
        OBVIOUS
      <4> QED
        BY <1>2, <3>2, <4>1, Zenon
    <3> QED
      BY <3>1, <3>3
  <2>3. /\ sent \in RequestType /\ sent.stage = 2 /\ sent.route = q.route
        /\ sent.bearer = q.bearer /\ sent.stamp = clock /\ sent.state = "eval"
    BY <1>2, <2>2 DEF Request, RequestType
  <2>4. Verdict(sent) = "pass"
    BY <2>2, <2>3 DEF Verdict, Permitted
  <2>5. sent.stage <= Len(LimitersOf(sent.route)) /\ Key(sent, Limiter(sent)) \in Keys
    BY <2>2, <2>3, <2>4, SecondKey
  <2> HIDE DEF sent
  <2>6. /\ request' \in Seq(RequestType) /\ Len(request') = Len(request)
        /\ request'[r] = sent
        /\ \A x \in 1..Len(request) : x # r => request'[x] = request[x]
    BY <1>1, <2>1, <2>3 DEF RequestsOK
  <2>7. Waiting' = Waiting
    BY <1>1, <2>3, <2>6 DEF Waiting, Requests, RequestsOK
  <2>8. RequestsOK'
    <3> SUFFICES ASSUME NEW x \in Waiting'
                 PROVE  /\ request'[x].stage <= Len(LimitersOf(request'[x].route))
                        /\ Key(request'[x], Limiter(request'[x])) \in Keys
      BY <2>6 DEF RequestsOK, Limiter, Key
    <3>1. x \in Waiting /\ x \in 1..Len(request)
      BY <2>7, WaitingRequests
    <3>2. CASE x = r
      BY <2>5, <2>6, <3>2
    <3>3. CASE x # r
      BY <2>6, <3>1, <3>3 DEF RequestsOK
    <3> QED
      BY <3>2, <3>3
  <2>9. /\ wire' \in Seq(Waiting)
        /\ \A i, j \in DOMAIN wire' : wire'[i] = wire'[j] => i = j
        /\ Len(wire') >= Len(queue)
        /\ \A i \in DOMAIN wire' : wire'[i] = r \/ \E j \in DOMAIN queue : wire'[i] = queue[j]
    BY <2>1, SendKeeps DEF QueueOK
  <2>10. Stamps'
    <3> SUFFICES ASSUME NEW x \in Wired'
                 PROVE  /\ request'[x].stamp <= clock + setBack
                        /\ clock <= request'[x].stamp + MaxDelay
      BY DEF Stamps, Stamped
    <3>1. CASE x = r
      BY <2>3, <2>6, <3>1, GatewayAssumption
    <3>2. CASE x # r
      <4>1. PICK i \in DOMAIN wire' : x = wire'[i]
        BY DEF Wired
      <4>2. PICK j \in DOMAIN queue : x = queue[j]
        BY <2>9, <3>2, <4>1
      <4>3. Stamped(x) /\ x \in Waiting
        BY <4>2 DEF QueueOK
      <4>4. request'[x] = request[x]
        BY <2>6, <3>2, <4>3, WaitingRequests
      <4> QED
        BY <4>3, <4>4 DEF Stamped
    <3> QED
      BY <3>1, <3>2
  <2> QED
    BY <2>7, <2>8, <2>9, <2>10 DEF QueueOK
<1>5. CASE end # "eval"
  <2>1. request' = [request EXCEPT ![r] = Ended(q, end)] /\ wire' = queue
    BY <1>5 DEF GoOn, q
  <2>2. end \in {"served", "401", "403"}
    BY <1>3, <1>5
  <2> HIDE DEF end
  <2>3. Ended(q, end) \in RequestType /\ Ended(q, end).state # "eval"
    BY <1>2, <2>2, EndedType
  <2>4. RequestsOK' /\ QueueOK(wire)' /\ Stamps'
    BY <2>1, <2>3, EndKeeps
  <2>5. Len(wire') >= Len(queue)
    BY <2>1 DEF QueueOK
  <2> QED
    BY <2>4, <2>5
<1> QED
  BY <1>4, <1>5

\* The first command on the wire, and the others.
LEMMA TailKeeps ==
  ASSUME QueueOK(wire), wire # <<>>
  PROVE  /\ Head(wire) \in Waiting /\ Head(wire) \in Wired
         /\ QueueOK(Tail(wire))
         /\ Len(Tail(wire)) = Len(wire) - 1
         /\ \A i \in DOMAIN Tail(wire) :
              Tail(wire)[i] # Head(wire) /\ Tail(wire)[i] \in Wired
<1>1. wire \in Seq(Waiting) /\ Len(wire) \in Nat \ {0} /\ DOMAIN wire = 1..Len(wire)
  BY DEF QueueOK
<1>2. /\ Head(wire) = wire[1] /\ Tail(wire) \in Seq(Waiting)
      /\ Len(Tail(wire)) = Len(wire) - 1
      /\ \A i \in 1..(Len(wire) - 1) : Tail(wire)[i] = wire[i + 1]
      /\ DOMAIN Tail(wire) = 1..(Len(wire) - 1)
  BY <1>1
<1>3. \A i, j \in 1..Len(wire) : wire[i] = wire[j] => i = j
  BY <1>1 DEF QueueOK
<1>4. \A i \in 1..(Len(wire) - 1) : i + 1 \in 1..Len(wire) /\ i + 1 # 1
  BY <1>1
<1>5. \A i, j \in DOMAIN Tail(wire) : Tail(wire)[i] = Tail(wire)[j] => i = j
  BY <1>1, <1>2, <1>3, <1>4
<1>6. \A i \in DOMAIN Tail(wire) : Tail(wire)[i] # Head(wire) /\ Tail(wire)[i] \in Wired
  BY <1>1, <1>2, <1>3, <1>4 DEF Wired
<1>7. Head(wire) \in Waiting /\ Head(wire) \in Wired
  BY <1>1, <1>2 DEF Wired
<1> QED
  BY <1>2, <1>5, <1>6, <1>7 DEF QueueOK

------------------------------------------------------------------------------
\* The parts of TypeOK that are about the buckets and the replies.
BucketsOK ==
  /\ bucket \in [Keys -> Buckets]
  /\ \A k \in Keys : bucket[k].tokens <= Capacity[LimiterOfKey(k)]

RepliesOK == replies \in Seq(BOOLEAN) /\ Len(replies) <= Len(wire)

LinkOK == connected \in BOOLEAN /\ losses \in 0..MaxLosses

LEMMA TypeParts ==
  TypeOK <=> /\ clock \in 0..MaxClock
             /\ setBack \in 0..MaxBack
             /\ BucketsOK /\ RequestsOK /\ QueueOK(wire) /\ RepliesOK /\ LinkOK
BY DEF TypeOK, BucketsOK, RequestsOK, QueueOK, RepliesOK, LinkOK

\* A bucket has the capacity of its limiter, which covers one request.
LEMMA KeyCapacity ==
  ASSUME NEW k \in Keys
  PROVE  Capacity[LimiterOfKey(k)] \in Nat /\ Cost <= Capacity[LimiterOfKey(k)] /\ Cost \in Nat
BY GatewayAssumption, BucketAssumption DEF Keys, LimiterOfKey, Limiters

\* The bucket of a command on the wire.
LEMMA WaitingKey ==
  ASSUME RequestsOK, NEW r \in Waiting
  PROVE  /\ Key(request[r], Limiter(request[r])) \in Keys
         /\ LimiterOfKey(Key(request[r], Limiter(request[r]))) = Limiter(request[r])
         /\ request[r] \in RequestType
         /\ Limiter(request[r]) \in Limiters
<1>1. Key(request[r], Limiter(request[r])) \in Keys
  BY DEF RequestsOK
<1>2. LimiterOfKey(Key(request[r], Limiter(request[r]))) = Limiter(request[r])
  BY DEF Key, LimiterOfKey
<1>3. request[r] \in RequestType
  BY WaitingRequests
<1>4. LimiterOfKey(Key(request[r], Limiter(request[r]))) \in Limiters
  BY <1>1 DEF Keys, LimiterOfKey, Limiters
<1> QED
  BY <1>1, <1>2, <1>3, <1>4

LEMMA InitIInv == Init => IInv
<1> SUFFICES ASSUME Init PROVE IInv
  OBVIOUS
<1>1. clock \in 0..MaxClock /\ setBack \in 0..MaxBack /\ LinkOK
  BY GatewayAssumption DEF Init, LinkOK
<1>2. BucketsOK
  <2>1. NewBucket \in Buckets /\ NewBucket.tokens = 0
    BY DEF NewBucket, Bucket, Buckets
  <2> QED
    BY <2>1, KeyCapacity DEF Init, BucketsOK
<1>3. RequestsOK
  <2>1. Len(Arrivals) \in Nat
    BY GatewayAssumption
  <2> QED
    BY <2>1 DEF Init, RequestsOK, Waiting, Requests
<1>4. QueueOK(wire) /\ RepliesOK /\ Stamps
  BY DEF Init, QueueOK, RepliesOK, Stamps, Wired
<1>5. Written /\ Silent
  BY DEF Init, Written, NewBucket, Bucket, Silent
<1> QED
  BY <1>1, <1>2, <1>3, <1>4, <1>5, TypeParts DEF IInv

LEMMA ArriveKeeps == IInv /\ Arrive => IInv'
<1> SUFFICES ASSUME IInv, Arrive PROVE IInv'
  OBVIOUS
<1>1. /\ clock \in 0..MaxClock /\ setBack \in 0..MaxBack
      /\ BucketsOK /\ RequestsOK /\ QueueOK(wire) /\ RepliesOK /\ LinkOK /\ Stamps /\ Written
      /\ Silent
  BY TypeParts DEF IInv
<1>2. UNCHANGED <<clock, setBack, bucket, replies, connected, losses>>
  BY DEF Arrive
<1> DEFINE n == Len(request) + 1
<1>3. PICK a \in Arrivals[n] : request' = Append(request, Request(a, 1, clock, {}, "eval"))
  BY DEF Arrive
<1>4. n \in 1..Len(Arrivals) /\ Len(Arrivals) \in Nat /\ n \notin Requests /\ Len(request) \in Nat
  BY <1>1, GatewayAssumption DEF Arrive, RequestsOK, Requests
<1>5. a \in [route : Routes, ip : Ips, bearer : Users \cup {NoBearer}]
  BY <1>3, <1>4, GatewayAssumption
<1> DEFINE q == Request(a, 1, clock, {}, "eval")
<1>6. q \in RequestType /\ q.stage = 1 /\ q.stamp = clock /\ q.state = "eval"
  BY <1>1, <1>5 DEF Request, RequestType
<1>7. q.stage <= Len(LimitersOf(q.route)) /\ Key(q, Limiter(q)) \in Keys
  BY <1>6, FirstKey
<1>8. Send(n, wire)
  BY DEF Arrive
<1> HIDE DEF q
<1>9. /\ request' \in Seq(RequestType) /\ Len(request') = n /\ request'[n] = q
      /\ \A x \in 1..Len(request) : request'[x] = request[x]
  BY <1>1, <1>3, <1>6 DEF RequestsOK, q
<1>10. Waiting' = Waiting \cup {n} /\ Waiting \subseteq 1..Len(request)
  BY <1>1, <1>4, <1>6, <1>9 DEF Waiting, Requests, RequestsOK
<1> HIDE DEF n
<1>11. RequestsOK'
  <2> SUFFICES ASSUME NEW x \in Waiting'
               PROVE  /\ request'[x].stage <= Len(LimitersOf(request'[x].route))
                      /\ Key(request'[x], Limiter(request'[x])) \in Keys
    BY <1>4, <1>9 DEF RequestsOK, Limiter, Key
  <2>1. CASE x = n
    BY <1>7, <1>9, <2>1
  <2>2. CASE x \in Waiting
    BY <1>1, <1>9, <1>10, <2>2 DEF RequestsOK
  <2> QED
    BY <1>10, <2>1, <2>2
<1>12. wire \in Seq(Waiting') /\ n \in Waiting' /\ \A i \in DOMAIN wire : wire[i] # n
  <2>1. wire \in Seq(Waiting)
    BY <1>1 DEF QueueOK
  <2>2. n \notin Waiting
    BY <1>4 DEF Waiting
  <2> QED
    BY <1>10, <2>1, <2>2
<1>13. /\ wire' \in Seq(Waiting')
       /\ \A i, j \in DOMAIN wire' : wire'[i] = wire'[j] => i = j
       /\ Len(wire') >= Len(wire)
       /\ \A i \in DOMAIN wire' : wire'[i] = n \/ \E j \in DOMAIN wire : wire'[i] = wire[j]
  BY <1>1, <1>8, <1>12, SendKeeps DEF QueueOK
<1>14. Stamps'
  <2> SUFFICES ASSUME NEW x \in Wired'
               PROVE  /\ request'[x].stamp <= clock + setBack
                      /\ clock <= request'[x].stamp + MaxDelay
    BY <1>2 DEF Stamps, Stamped
  <2>1. CASE x = n
    BY <1>1, <1>6, <1>9, <2>1, GatewayAssumption
  <2>2. CASE x # n
    <3>1. x \in Wired /\ x \in Waiting
      BY <1>1, <1>13, <2>2 DEF Wired, QueueOK
    <3>2. request'[x] = request[x]
      BY <1>9, <1>10, <3>1
    <3> QED
      BY <1>1, <3>1, <3>2 DEF Stamps, Stamped
  <2> QED
    BY <2>1, <2>2
<1>15. BucketsOK' /\ LinkOK' /\ Written' /\ Silent'
  BY <1>1, <1>2 DEF BucketsOK, LinkOK, Written, Silent
<1>16. RepliesOK' /\ QueueOK(wire)'
  <2>1. Len(wire') \in Nat /\ Len(wire) \in Nat /\ Len(replies) \in Nat
    BY <1>1, <1>13 DEF QueueOK, RepliesOK
  <2> QED
    BY <1>1, <1>2, <1>13, <2>1 DEF RepliesOK, QueueOK
<1> QED
  BY <1>1, <1>2, <1>11, <1>14, <1>15, <1>16, TypeParts DEF IInv, TypeOK, BucketsOK, RequestsOK,
     QueueOK, RepliesOK, LinkOK

\* The script runs: the bucket it writes is within its capacity and not older
\* than its own stamp by more than the clock was set back.
LEMMA ExecuteKeeps == IInv /\ Execute => IInv'
<1> SUFFICES ASSUME IInv, Execute PROVE IInv'
  OBVIOUS
<1>1. /\ clock \in 0..MaxClock /\ setBack \in 0..MaxBack
      /\ BucketsOK /\ RequestsOK /\ QueueOK(wire) /\ RepliesOK /\ LinkOK /\ Stamps /\ Written
      /\ Silent
  BY TypeParts DEF IInv
<1>2. UNCHANGED <<clock, setBack, request, wire, connected, losses>>
  BY DEF Execute
<1> DEFINE r == wire[Len(replies) + 1]
           q == request[r]
           k == Key(q, Limiter(q))
           c == Capacity[Limiter(q)]
           w == Write(bucket[k], c, q.stamp, clock)
<1>3. /\ bucket' = [bucket EXCEPT ![k] = w]
      /\ replies' = Append(replies, Allowed(bucket[k], c, q.stamp, clock))
  BY DEF Execute
<1>4. Len(replies) \in Nat /\ Len(wire) \in Nat /\ Len(replies) + 1 \in DOMAIN wire
  BY <1>1 DEF Execute, RepliesOK, QueueOK
<1>5. r \in Waiting /\ r \in Wired
  BY <1>1, <1>4 DEF QueueOK, Wired
<1>6. k \in Keys /\ LimiterOfKey(k) = Limiter(q) /\ q \in RequestType
  BY <1>1, <1>5, WaitingKey
<1>7. c = Capacity[LimiterOfKey(k)] /\ c \in Nat /\ q.stamp \in Nat /\ clock \in Nat
  BY <1>1, <1>6, KeyCapacity DEF RequestType
<1>8. Stamped(r)
  BY <1>1, <1>5 DEF Stamps
<1>9. bucket[k] \in Buckets /\ bucket[k].tokens <= c
  BY <1>1, <1>6, <1>7 DEF BucketsOK
<1>10. w \in Buckets /\ w.tokens <= c /\ w.timestamp = q.stamp /\ w.written = clock
  <2>1. ASSUME NEW b \in Buckets, NEW d \in Nat, NEW now \in Nat, NEW time \in Nat,
               b = bucket[k], d = c, now = q.stamp, time = clock
        PROVE  w \in Buckets /\ w.tokens <= c /\ w.timestamp = q.stamp /\ w.written = clock
    <3>1. w = Write(b, d, now, time) /\ b.tokens <= d
      BY <1>9, <2>1
    <3>2. /\ Write(b, d, now, time) \in Buckets
          /\ Write(b, d, now, time).tokens <= d
          /\ Write(b, d, now, time).timestamp = now
          /\ Write(b, d, now, time).written = time
      BY <3>1, WriteType
    <3> HIDE DEF w, c, k, q
    <3> QED
      BY <2>1, <3>1, <3>2
  <2>2. /\ bucket[k] \in Buckets /\ c \in Nat /\ q.stamp \in Nat /\ clock \in Nat
    BY <1>7, <1>9
  <2> HIDE DEF c, k, q, w
  <2> QED
    BY <2>1, <2>2
<1> HIDE DEF w, c
<1>11. BucketsOK'
  BY <1>1, <1>3, <1>6, <1>7, <1>10 DEF BucketsOK
<1>12. Written'
  <2>1. w.timestamp <= w.written + MaxBack
    BY <1>1, <1>2, <1>6, <1>7, <1>8, <1>10, GatewayAssumption DEF Stamped
  <2> SUFFICES ASSUME NEW x \in Keys, bucket'[x].held
               PROVE  bucket'[x].timestamp <= bucket'[x].written + MaxBack
    BY DEF Written
  <2>2. CASE x = k
    BY <1>1, <1>3, <1>6, <2>1, <2>2 DEF BucketsOK
  <2>3. CASE x # k
    BY <1>1, <1>3, <1>6, <2>3 DEF BucketsOK, Written
  <2> QED
    BY <2>2, <2>3
<1>13. RepliesOK'
  <2>1. Allowed(bucket[k], c, q.stamp, clock) \in BOOLEAN
    BY DEF Allowed
  <2> QED
    BY <1>1, <1>2, <1>3, <1>4, <2>1 DEF RepliesOK, Execute
<1>14. RequestsOK' /\ QueueOK(wire)' /\ Stamps' /\ LinkOK' /\ Silent'
  <2>1. Waiting' = Waiting /\ Wired' = Wired
    BY <1>2 DEF Waiting, Requests, Wired
  <2>2. RequestsOK'
    BY <1>1, <1>2, <2>1 DEF RequestsOK, Limiter, Key
  <2>3. QueueOK(wire)'
    BY <1>1, <1>2, <2>1 DEF QueueOK
  <2>4. Stamps'
    BY <1>1, <1>2, <2>1 DEF Stamps, Stamped
  <2>5. LinkOK' /\ Silent'
    BY <1>1, <1>2 DEF Execute, Silent, LinkOK
  <2> QED
    BY <2>2, <2>3, <2>4, <2>5
<1> QED
  BY <1>1, <1>2, <1>11, <1>12, <1>13, <1>14, TypeParts DEF IInv, TypeOK, BucketsOK, RequestsOK,
     QueueOK, RepliesOK, LinkOK

LEMMA PassKeeps == IInv /\ Pass => IInv'
<1> SUFFICES ASSUME IInv, Pass PROVE IInv'
  OBVIOUS
<1>1. /\ clock \in 0..MaxClock /\ setBack \in 0..MaxBack
      /\ BucketsOK /\ RequestsOK /\ QueueOK(wire) /\ RepliesOK /\ LinkOK /\ Stamps /\ Written
      /\ Silent
  BY TypeParts DEF IInv
<1>2. /\ UNCHANGED <<clock, setBack, bucket, connected, losses>>
      /\ replies # <<>> /\ replies' = Tail(replies)
      /\ GoOn(Head(wire), request[Head(wire)].opened, Tail(wire))
  BY DEF Pass
<1>3. /\ wire # <<>> /\ Len(wire) \in Nat /\ Len(replies) \in Nat
      /\ replies' \in Seq(BOOLEAN) /\ Len(replies') = Len(replies) - 1
  BY <1>1, <1>2 DEF RepliesOK, QueueOK
<1>4. /\ Head(wire) \in Waiting
      /\ QueueOK(Tail(wire))
      /\ Len(Tail(wire)) = Len(wire) - 1
      /\ \A i \in DOMAIN Tail(wire) : Tail(wire)[i] # Head(wire) /\ Tail(wire)[i] \in Wired
  BY <1>1, <1>3, TailKeeps
<1>5. request[Head(wire)].opened \in SUBSET Limiters
  <2>1. request[Head(wire)] \in RequestType
    BY <1>1, <1>4, WaitingKey
  <2> QED
    BY <2>1 DEF RequestType
<1>6. \A i \in DOMAIN Tail(wire) : Tail(wire)[i] # Head(wire) /\ Stamped(Tail(wire)[i])
  BY <1>1, <1>4 DEF Stamps
<1>7. RequestsOK' /\ QueueOK(wire)' /\ Len(wire') >= Len(Tail(wire)) /\ Stamps'
  BY <1>1, <1>2, <1>4, <1>5, <1>6, GoOnKeeps
<1>8. RepliesOK'
  <2>1. Len(wire') \in Nat
    BY <1>7 DEF QueueOK
  <2> QED
    BY <1>1, <1>3, <1>4, <1>7, <2>1 DEF RepliesOK
<1>9. BucketsOK' /\ LinkOK' /\ Written' /\ Silent'
  BY <1>1, <1>2 DEF BucketsOK, LinkOK, Written, Silent
<1> QED
  BY <1>1, <1>2, <1>7, <1>8, <1>9 DEF IInv, TypeOK, BucketsOK, RequestsOK, QueueOK, RepliesOK, LinkOK

LEMMA RefuseKeeps == IInv /\ Refuse => IInv'
<1> SUFFICES ASSUME IInv, Refuse PROVE IInv'
  OBVIOUS
<1>1. /\ clock \in 0..MaxClock /\ setBack \in 0..MaxBack
      /\ BucketsOK /\ RequestsOK /\ QueueOK(wire) /\ RepliesOK /\ LinkOK /\ Stamps /\ Written
      /\ Silent
  BY TypeParts DEF IInv
<1>2. /\ UNCHANGED <<clock, setBack, bucket, connected, losses>>
      /\ replies # <<>> /\ replies' = Tail(replies) /\ wire' = Tail(wire)
      /\ request' = [request EXCEPT ![Head(wire)] = Ended(request[Head(wire)], "429")]
  BY DEF Refuse
<1>3. /\ wire # <<>> /\ Len(wire) \in Nat /\ Len(replies) \in Nat
      /\ replies' \in Seq(BOOLEAN) /\ Len(replies') = Len(replies) - 1
  BY <1>1, <1>2 DEF RepliesOK, QueueOK
<1>4. /\ Head(wire) \in Waiting
      /\ QueueOK(Tail(wire))
      /\ Len(Tail(wire)) = Len(wire) - 1
      /\ \A i \in DOMAIN Tail(wire) : Tail(wire)[i] # Head(wire) /\ Tail(wire)[i] \in Wired
  BY <1>1, <1>3, TailKeeps
<1> DEFINE e == Ended(request[Head(wire)], "429")
<1>5. e \in RequestType /\ e.state # "eval"
  BY <1>1, <1>4, WaitingKey, EndedType
<1>6. \A i \in DOMAIN Tail(wire) : Tail(wire)[i] # Head(wire) /\ Stamped(Tail(wire)[i])
  BY <1>1, <1>4 DEF Stamps
<1>7. request' = [request EXCEPT ![Head(wire)] = e]
  BY <1>2
<1> HIDE DEF e
<1>8. RequestsOK' /\ QueueOK(wire)' /\ Stamps'
  BY <1>1, <1>2, <1>4, <1>5, <1>6, <1>7, EndKeeps
<1>9. RepliesOK'
  BY <1>1, <1>2, <1>3, <1>4 DEF RepliesOK
<1>10. BucketsOK' /\ LinkOK' /\ Written' /\ Silent'
  BY <1>1, <1>2 DEF BucketsOK, LinkOK, Written, Silent
<1> QED
  BY <1>1, <1>2, <1>8, <1>9, <1>10 DEF IInv, TypeOK, BucketsOK, RequestsOK, QueueOK, RepliesOK, LinkOK

LEMMA FailOpenKeeps == ASSUME NEW r \in Requests PROVE IInv /\ FailOpen(r) => IInv'
<1> SUFFICES ASSUME IInv, FailOpen(r) PROVE IInv'
  OBVIOUS
<1>1. /\ clock \in 0..MaxClock /\ setBack \in 0..MaxBack
      /\ BucketsOK /\ RequestsOK /\ QueueOK(wire) /\ RepliesOK /\ LinkOK /\ Stamps /\ Written
      /\ Silent
  BY TypeParts DEF IInv
<1> DEFINE o == request[r].opened \cup {Limiter(request[r])}
<1>2. /\ UNCHANGED <<clock, setBack, bucket, replies, connected, losses>>
      /\ r \in Waiting /\ r \notin Wired /\ GoOn(r, o, wire)
  BY DEF FailOpen
<1>3. o \in SUBSET Limiters
  <2>1. request[r] \in RequestType /\ Limiter(request[r]) \in Limiters
    BY <1>1, <1>2, WaitingKey
  <2> QED
    BY <2>1 DEF RequestType
<1> HIDE DEF o
<1>4. \A i \in DOMAIN wire : wire[i] # r /\ Stamped(wire[i])
  BY <1>1, <1>2 DEF Wired, Stamps
<1>5. RequestsOK' /\ QueueOK(wire)' /\ Len(wire') >= Len(wire) /\ Stamps'
  BY <1>1, <1>2, <1>3, <1>4, GoOnKeeps
<1>6. RepliesOK'
  <2>1. Len(wire') \in Nat /\ Len(wire) \in Nat /\ Len(replies) \in Nat
    BY <1>1, <1>5 DEF QueueOK, RepliesOK
  <2> QED
    BY <1>1, <1>2, <1>5, <2>1 DEF RepliesOK
<1>7. BucketsOK' /\ LinkOK' /\ Written' /\ Silent'
  BY <1>1, <1>2 DEF BucketsOK, LinkOK, Written, Silent
<1> QED
  BY <1>1, <1>2, <1>5, <1>6, <1>7 DEF IInv, TypeOK, BucketsOK, RequestsOK, QueueOK, RepliesOK, LinkOK

\* The clock only ticks while no command is overdue, and what it is set back by
\* is counted.
LEMMA ClockKeeps == IInv /\ (Tick \/ SetBack) => IInv'
<1> SUFFICES ASSUME IInv, Tick \/ SetBack PROVE IInv'
  OBVIOUS
<1>1. /\ clock \in 0..MaxClock /\ setBack \in 0..MaxBack
      /\ BucketsOK /\ RequestsOK /\ QueueOK(wire) /\ RepliesOK /\ LinkOK /\ Stamps /\ Written
      /\ Silent
  BY TypeParts DEF IInv
<1>2. UNCHANGED <<bucket, request, wire, replies, connected, losses>>
  BY DEF Tick, SetBack
<1>3. clock' \in 0..MaxClock /\ setBack' \in 0..MaxBack
  BY <1>1, GatewayAssumption DEF Tick, SetBack
<1>4. Stamps'
  <2> SUFFICES ASSUME NEW r \in Wired
               PROVE  /\ request[r].stamp <= clock' + setBack'
                      /\ clock' <= request[r].stamp + MaxDelay
    BY <1>2 DEF Stamps, Stamped, Wired
  <2>1. r \in Waiting
    BY <1>1 DEF Wired, QueueOK
  <2>2. request[r].stamp \in Nat /\ Stamped(r) /\ MaxDelay \in Nat
    BY <1>1, <2>1, WaitingKey, GatewayAssumption DEF RequestType, Stamps
  <2>3. CASE Tick
    BY <1>1, <2>2, <2>3 DEF Tick, Stamped
  <2>4. CASE SetBack
    BY <1>1, <2>2, <2>4 DEF SetBack, Stamped
  <2> QED
    BY <2>3, <2>4
<1> QED
  BY <1>1, <1>2, <1>3, <1>4 DEF IInv, TypeOK, BucketsOK, RequestsOK, QueueOK, RepliesOK, LinkOK,
     Waiting, Requests, Written, Silent, Limiter, Key

LEMMA ConnectionKeeps == IInv /\ (Disconnect \/ Reconnect \/ GiveUp) => IInv'
<1> SUFFICES ASSUME IInv, Disconnect \/ Reconnect \/ GiveUp PROVE IInv'
  OBVIOUS
<1>1. /\ clock \in 0..MaxClock /\ setBack \in 0..MaxBack
      /\ BucketsOK /\ RequestsOK /\ QueueOK(wire) /\ RepliesOK /\ LinkOK /\ Stamps /\ Written
      /\ Silent
  BY TypeParts DEF IInv
<1>2. UNCHANGED <<clock, setBack, request>>
  BY DEF Disconnect, Reconnect, GiveUp
<1>3. LinkOK' /\ Silent'
  <2>1. losses \in Int /\ losses <= MaxLosses /\ 0 <= losses /\ MaxLosses \in Int
    BY <1>1, GatewayAssumption DEF LinkOK
  <2>2. losses' \in 0..MaxLosses
    BY <2>1 DEF Disconnect, Reconnect, GiveUp
  <2> QED
    BY <1>1, <2>2 DEF LinkOK, Silent, Disconnect, Reconnect, GiveUp
<1>4. BucketsOK' /\ Written'
  <2>1. CASE UNCHANGED bucket
    BY <1>1, <2>1 DEF BucketsOK, Written
  <2>2. CASE bucket' = [k \in Keys |-> Lose(bucket[k])]
    <3>1. \A k \in Keys : /\ bucket'[k] \in Buckets
                          /\ bucket'[k].tokens <= Capacity[LimiterOfKey(k)]
                          /\ ~bucket'[k].held
      BY <1>1, <2>2, LoseKeeps, KeyCapacity DEF BucketsOK
    <3> QED
      BY <2>2, <3>1 DEF BucketsOK, Written
  <2> QED
    BY <2>1, <2>2 DEF Disconnect, Reconnect, GiveUp
<1>5. RequestsOK' /\ Waiting' = Waiting
  BY <1>1, <1>2 DEF RequestsOK, Waiting, Requests, Limiter, Key
<1>6. QueueOK(wire)' /\ Stamps' /\ RepliesOK'
  <2>1. CASE UNCHANGED wire /\ (replies' = <<>> \/ UNCHANGED replies)
    <3>1. QueueOK(wire)'
      BY <1>1, <1>5, <2>1 DEF QueueOK
    <3>2. Stamps'
      BY <1>1, <1>2, <2>1 DEF Stamps, Stamped, Wired
    <3>3. RepliesOK'
      <4>1. Len(wire) \in Nat /\ UNCHANGED wire
        BY <1>1, <2>1 DEF QueueOK
      <4>2. CASE replies' = <<>>
        BY <4>1, <4>2 DEF RepliesOK
      <4>3. CASE UNCHANGED replies
        BY <1>1, <4>1, <4>3 DEF RepliesOK
      <4> QED
        BY <2>1, <4>2, <4>3
    <3> QED
      BY <3>1, <3>2, <3>3
  <2>2. CASE wire' = <<>> /\ UNCHANGED replies /\ GiveUp
    <3>1. replies = <<>>
      BY <1>1, <2>2 DEF Silent, GiveUp
    <3> QED
      BY <1>2, <2>2, <3>1 DEF QueueOK, Stamps, Wired, RepliesOK
  <2> QED
    BY <2>1, <2>2 DEF Disconnect, Reconnect, GiveUp
<1> QED
  BY <1>1, <1>2, <1>3, <1>4, <1>5, <1>6 DEF IInv, TypeOK, BucketsOK, RequestsOK, QueueOK, RepliesOK, LinkOK

LEMMA NextIInv == IInv /\ [Next]_vars => IInv'
<1> SUFFICES ASSUME IInv, [Next]_vars PROVE IInv'
  OBVIOUS
<1>1. CASE Next
  BY <1>1, ArriveKeeps, ExecuteKeeps, PassKeeps, RefuseKeeps, FailOpenKeeps, ClockKeeps,
     ConnectionKeeps DEF Next
<1>2. CASE UNCHANGED vars
  BY <1>2 DEF vars, IInv, TypeOK, Stamps, Stamped, Written, Silent, Wired, Waiting, Requests,
     Limiter, Key
<1> QED
  BY <1>1, <1>2

LEMMA Inductive == Spec => []IInv
BY InitIInv, NextIInv, PTL DEF Spec

------------------------------------------------------------------------------
\* A command that finds its key expired comes so long after the bucket's stamp
\* that the refill in between is all the bucket can hold.
LEMMA ExpiredIsFull ==
  ASSUME IInv, NEW r \in Wired,
         LET q == request[r]
             b == bucket[Key(q, Limiter(q))]
         IN  b.held /\ ~Present(b, Capacity[Limiter(q)], clock)
  PROVE  LET q == request[r]
             c == Capacity[Limiter(q)]
             b == bucket[Key(q, Limiter(q))]
         IN  q.stamp >= b.timestamp /\ Refill * (q.stamp - b.timestamp) >= c
<1> DEFINE q == request[r]
           c == Capacity[Limiter(q)]
           k == Key(q, Limiter(q))
           b == bucket[k]
<1>1. /\ clock \in 0..MaxClock /\ setBack \in 0..MaxBack /\ BucketsOK /\ RequestsOK
      /\ QueueOK(wire) /\ Stamps /\ Written
  BY TypeParts DEF IInv
<1>2. r \in Waiting
  BY <1>1 DEF Wired, QueueOK
<1>3. k \in Keys /\ LimiterOfKey(k) = Limiter(q) /\ q \in RequestType
  BY <1>1, <1>2, WaitingKey
<1>4. c \in Nat
  BY <1>3, KeyCapacity
<1>5. /\ b \in Buckets /\ q.stamp \in Nat /\ clock \in Nat
      /\ MaxDelay \in Nat /\ MaxBack \in Nat /\ Slack \in Nat /\ MaxDelay + MaxBack <= Slack
  BY <1>1, <1>3, GatewayAssumption, BucketAssumption DEF BucketsOK, RequestType
<1>6. clock <= q.stamp + MaxDelay
  BY <1>1 DEF Stamps, Stamped
<1>7. b.timestamp <= b.written + MaxBack
  BY <1>1, <1>3 DEF Written
<1>8. Ceiling(c) \in Nat /\ Refill * Ceiling(c) >= c
  BY <1>4, CeilingFills
<1>9. clock >= b.written + TimeToLive(c)
  <2>1. b.held /\ ~Present(b, c, clock)
    OBVIOUS
  <2>2. b.written \in Nat /\ TimeToLive(c) \in Nat
    BY <1>5, <1>8 DEF Buckets, TimeToLive
  <2> HIDE DEF b, c
  <2> QED
    BY <1>5, <2>1, <2>2 DEF Present
<1>10. b.timestamp \in Nat /\ b.written \in Nat
  BY <1>5 DEF Buckets
<1> HIDE DEF q, b, c, k
<1>11. q.stamp - b.timestamp >= Ceiling(c) /\ q.stamp >= b.timestamp
  BY <1>5, <1>6, <1>7, <1>8, <1>9, <1>10 DEF TimeToLive
<1>12. Refill * Ceiling(c) <= Refill * (q.stamp - b.timestamp)
  BY <1>5, <1>8, <1>10, <1>11, RefillMonotone
<1>13. Refill * (q.stamp - b.timestamp) >= c
  <2>1. /\ Refill * Ceiling(c) \in Int /\ Refill * (q.stamp - b.timestamp) \in Int
    BY <1>5, <1>8, <1>10, RefillMonotone
  <2> QED
    BY <1>4, <1>8, <1>12, <2>1
<1> QED
  BY <1>11, <1>13 DEF q, b, c, k

\* GrantsBounded and PollingIsFree, bucket by bucket.
Bounds  == \A k \in Keys : Bounded(bucket[k], Capacity[LimiterOfKey(k)])
Refills == \A k \in Keys : Refilled(bucket[k], Capacity[LimiterOfKey(k)])

\* What a step does to a bucket.
LEMMA BucketSteps ==
  ASSUME IInv, [Next]_vars, NEW k \in Keys
  PROVE  \/ bucket'[k] = bucket[k]
         \/ bucket'[k] = Lose(bucket[k])
         \/ \E r \in Wired :
              /\ k = Key(request[r], Limiter(request[r]))
              /\ LimiterOfKey(k) = Limiter(request[r])
              /\ request[r].stamp \in Nat
              /\ bucket'[k] = Write(bucket[k], Capacity[LimiterOfKey(k)],
                                    request[r].stamp, clock)
<1>1. BucketsOK /\ RequestsOK /\ QueueOK(wire) /\ RepliesOK
  BY TypeParts DEF IInv
<1>2. CASE Execute
  <2> DEFINE r == wire[Len(replies) + 1]
             q == request[r]
             x == Key(q, Limiter(q))
             c == Capacity[Limiter(q)]
  <2>1. bucket' = [bucket EXCEPT ![x] = Write(bucket[x], c, q.stamp, clock)]
    BY <1>2 DEF Execute
  <2>2. r \in Waiting /\ r \in Wired
    <3>1. Len(replies) \in Nat /\ Len(wire) \in Nat /\ Len(replies) + 1 \in DOMAIN wire
      BY <1>1, <1>2 DEF Execute, RepliesOK, QueueOK
    <3> QED
      BY <1>1, <3>1 DEF QueueOK, Wired
  <2>3. x \in Keys /\ LimiterOfKey(x) = Limiter(q) /\ q.stamp \in Nat
    BY <1>1, <2>2, WaitingKey DEF RequestType
  <2>4. bucket \in [Keys -> Buckets]
    BY <1>1 DEF BucketsOK
  <2>5. CASE k = x
    <3>1. c = Capacity[LimiterOfKey(k)]
      BY <2>3, <2>5
    <3>2. bucket'[k] = Write(bucket[k], c, q.stamp, clock)
      BY <2>1, <2>4, <2>5
    <3>3. bucket'[k] = Write(bucket[k], Capacity[LimiterOfKey(k)], q.stamp, clock)
      BY <3>1, <3>2
    <3> QED
      BY <2>2, <2>3, <2>5, <3>3
  <2>6. CASE k # x
    BY <2>1, <2>4, <2>6
  <2> QED
    BY <2>5, <2>6
<1>3. CASE Disconnect
  BY <1>3 DEF Disconnect
<1>4. CASE UNCHANGED bucket
  BY <1>4
<1> QED
  BY <1>2, <1>3, <1>4
     DEF Next, vars, Arrive, FailOpen, Pass, Refuse, Tick, SetBack, Reconnect, GiveUp

LEMMA NextBounds == IInv /\ Bounds /\ [Next]_vars => Bounds'
<1> SUFFICES ASSUME IInv, Bounds, [Next]_vars, NEW k \in Keys
             PROVE  Bounded(bucket'[k], Capacity[LimiterOfKey(k)])
  BY DEF Bounds
<1> DEFINE c == Capacity[LimiterOfKey(k)]
<1>1. c \in Nat /\ bucket[k] \in Buckets /\ bucket[k].tokens <= c /\ clock \in Nat
  BY TypeParts, KeyCapacity DEF IInv, BucketsOK
<1>2. Bounded(bucket[k], c)
  BY DEF Bounds
<1>3. CASE bucket'[k] = bucket[k]
  BY <1>2, <1>3
<1>4. CASE bucket'[k] = Lose(bucket[k])
  <2> HIDE DEF c
  <2>1. Bounded(Lose(bucket[k]), c)
    BY <1>1, <1>2, LoseKeeps
  <2> QED
    BY <1>4, <2>1 DEF c
<1>5. ASSUME NEW r \in Wired, k = Key(request[r], Limiter(request[r])),
             LimiterOfKey(k) = Limiter(request[r]), request[r].stamp \in Nat,
             bucket'[k] = Write(bucket[k], c, request[r].stamp, clock)
      PROVE  Bounded(bucket'[k], c)
  <2>1. ASSUME NEW b \in Buckets, NEW now \in Nat, NEW time \in Nat,
               b = bucket[k], now = request[r].stamp, time = clock
        PROVE  Bounded(Write(b, c, now, time), c)
    <3>1. b.held /\ ~Present(b, c, time) => now >= b.timestamp /\ Refill * (now - b.timestamp) >= c
      BY <1>5, <2>1, ExpiredIsFull
    <3> HIDE DEF c
    <3> QED
      BY <1>1, <1>2, <2>1, <3>1, WriteBounded
  <2>2. Bounded(Write(bucket[k], c, request[r].stamp, clock), c)
    <3> HIDE DEF c
    <3> QED
      BY <1>1, <1>5, <2>1
  <2> QED
    BY <1>5, <2>2
<1> QED
  BY <1>3, <1>4, <1>5, BucketSteps

LEMMA NextRefills == IInv /\ Refills /\ [Next]_vars => Refills'
<1> SUFFICES ASSUME IInv, Refills, [Next]_vars, NEW k \in Keys
             PROVE  Refilled(bucket'[k], Capacity[LimiterOfKey(k)])
  BY DEF Refills
<1> DEFINE c == Capacity[LimiterOfKey(k)]
<1>1. /\ c \in Nat /\ Cost <= c /\ bucket[k] \in Buckets /\ bucket[k].tokens <= c
      /\ clock \in Nat
  BY TypeParts, KeyCapacity DEF IInv, BucketsOK
<1>2. Refilled(bucket[k], c)
  BY DEF Refills
<1>3. CASE bucket'[k] = bucket[k]
  BY <1>2, <1>3
<1>4. CASE bucket'[k] = Lose(bucket[k])
  BY <1>1, <1>4, LoseKeeps DEF Refilled
<1>5. ASSUME NEW r \in Wired, request[r].stamp \in Nat,
             bucket'[k] = Write(bucket[k], c, request[r].stamp, clock)
      PROVE  Refilled(bucket'[k], c)
  <2> HIDE DEF c
  <2>1. Refilled(Write(bucket[k], c, request[r].stamp, clock), c)
    BY <1>1, <1>2, <1>5, WriteRefilled
  <2> QED
    BY <1>5, <2>1
<1> QED
  BY <1>3, <1>4, <1>5, BucketSteps

------------------------------------------------------------------------------
\* The request q was let through by a limiter that asked the bucket k.
Via(q, k) ==
  \E i \in 1..q.stage :
    LET l == LimitersOf(q.route)[i]
    IN  /\ Key(q, l) = k
        /\ l \notin q.opened
        /\ i < q.stage \/ q.state \notin {"eval", "429"}

\* The command of r asks the bucket k.
Asking(r, k) == Key(request[r], Limiter(request[r])) = k

\* The requests that have a reply on its way which lets them through.
Replied(k) ==
  {r \in Requests : \E i \in DOMAIN replies : replies[i] /\ wire[i] = r /\ Asking(r, k)}

\* The requests the bucket k was charged for, as far as they still know: those
\* it let through and those about to hear of it.  A lost reply leaves this set
\* and its charge stays.
Granted(k) == LetThrough(k) \cup Replied(k)

Charged == \A k \in Keys : Cost * Cardinality(Granted(k)) <= bucket[k].spent

LEMMA LetThroughVia == ASSUME NEW k PROVE LetThrough(k) = {r \in Requests : Via(request[r], k)}
BY DEF LetThrough, Via

LEMMA CostMonotone ==
  ASSUME NEW m \in Nat, NEW n \in Nat, m <= n
  PROVE  /\ Cost * m <= Cost * n /\ Cost * m \in Nat /\ Cost * n \in Nat
         /\ Cost * (m + 1) = Cost * m + Cost
<1>1. Cost \in Nat
  BY BucketAssumption
<1> QED
  BY <1>1, Z3

\* A finite set of requests, and what becomes of its size.
LEMMA GrantedFinite ==
  ASSUME RequestsOK, NEW k
  PROVE  /\ IsFiniteSet(Granted(k))
         /\ Cardinality(Granted(k)) \in Nat
         /\ \A S : S \subseteq Granted(k) =>
              Cardinality(S) \in Nat /\ Cardinality(S) <= Cardinality(Granted(k))
         /\ \A r, S : S \subseteq Granted(k) \cup {r} =>
              Cardinality(S) \in Nat /\ Cardinality(S) <= Cardinality(Granted(k)) + 1
<1>1. Requests = 1..Len(request) /\ Len(request) \in Nat
  BY WaitingRequests DEF RequestsOK
<1>2. IsFiniteSet(Requests)
  BY <1>1, FS_Interval
<1>3. Granted(k) \subseteq Requests
  BY DEF Granted, LetThrough, Replied
<1>4. IsFiniteSet(Granted(k))
  BY <1>2, <1>3, FS_Subset
<1>5. Cardinality(Granted(k)) \in Nat
  BY <1>4, FS_CardinalityType
<1>6. ASSUME NEW S, S \subseteq Granted(k)
      PROVE  Cardinality(S) \in Nat /\ Cardinality(S) <= Cardinality(Granted(k))
  BY <1>4, <1>6, FS_Subset, FS_CardinalityType
<1>7. ASSUME NEW r, NEW S, S \subseteq Granted(k) \cup {r}
      PROVE  Cardinality(S) \in Nat /\ Cardinality(S) <= Cardinality(Granted(k)) + 1
  <2>1. /\ IsFiniteSet(Granted(k) \cup {r})
        /\ Cardinality(Granted(k) \cup {r}) = Cardinality(Granted(k))
             \/ Cardinality(Granted(k) \cup {r}) = Cardinality(Granted(k)) + 1
    BY <1>4, FS_AddElement
  <2>2. IsFiniteSet(S) /\ Cardinality(S) <= Cardinality(Granted(k) \cup {r})
    BY <1>7, <2>1, FS_Subset
  <2>3. Cardinality(S) \in Nat
    BY <2>2, FS_CardinalityType
  <2> QED
    BY <1>5, <2>1, <2>2, <2>3
<1> QED
  BY <1>4, <1>5, <1>6, <1>7

\* A request that goes on has been let through by the limiter it leaves, unless
\* that one failed open, and by no other it had not passed before.
LEMMA GoOnVia ==
  ASSUME RequestsOK, NEW r \in Waiting, NEW opened \in SUBSET Limiters, NEW queue,
         request[r].opened \subseteq opened, GoOn(r, opened, queue), NEW k,
         Via(request'[r], k)
  PROVE  Via(request[r], k) \/ (Asking(r, k) /\ Limiter(request[r]) \notin opened)
<1> DEFINE q == request[r]
           p == request'[r]
<1>1. r \in 1..Len(request) /\ q \in RequestType /\ q.state = "eval" /\ request \in Seq(RequestType)
  BY WaitingRequests DEF RequestsOK, Waiting
<1>2. /\ p.route = q.route /\ p.ip = q.ip /\ p.bearer = q.bearer /\ p.opened = opened
      /\ \/ p.stage = q.stage
         \/ p.stage = q.stage + 1 /\ p.state = "eval"
  <2> DEFINE o == [q EXCEPT !.opened = opened]
  <2>1. /\ o \in RequestType /\ o.route = q.route /\ o.ip = q.ip /\ o.bearer = q.bearer
        /\ o.opened = opened /\ o.stage = q.stage
    BY <1>1 DEF RequestType
  <2>2. PICK e : \/ request' = [request EXCEPT ![r] = Request(o, o.stage + 1, clock, opened, "eval")]
                 \/ request' = [request EXCEPT ![r] = Ended(o, e)]
    BY DEF GoOn
  <2> HIDE DEF o
  <2>3. CASE request' = [request EXCEPT ![r] = Request(o, o.stage + 1, clock, opened, "eval")]
    <3>1. p = Request(o, o.stage + 1, clock, opened, "eval")
      BY <1>1, <2>3
    <3> QED
      BY <2>1, <3>1 DEF Request
  <2>4. CASE request' = [request EXCEPT ![r] = Ended(o, e)]
    <3>1. p = Ended(o, e)
      BY <1>1, <2>4
    <3> QED
      BY <2>1, <3>1 DEF Ended, RequestType
  <2> QED
    BY <2>2, <2>3, <2>4
<1> HIDE DEF p
<1>3. PICK i \in 1..p.stage :
        /\ Key(p, LimitersOf(p.route)[i]) = k
        /\ LimitersOf(p.route)[i] \notin p.opened
        /\ i < p.stage \/ p.state \notin {"eval", "429"}
  BY DEF Via, p
<1> DEFINE l == LimitersOf(q.route)[i]
<1>4. Key(q, l) = k /\ l \notin opened /\ l \notin q.opened
  BY <1>2, <1>3 DEF Key
<1>5. q.stage \in Nat /\ i \in Int
  BY <1>1, <1>3 DEF RequestType
<1>6. i \in 1..q.stage
  BY <1>2, <1>3, <1>5
<1>7. CASE i < q.stage
  BY <1>4, <1>6, <1>7 DEF Via
<1>8. CASE i = q.stage
  BY <1>4, <1>8 DEF Asking, Limiter
<1> QED
  BY <1>5, <1>6, <1>7, <1>8

\* What a reply or a failure does to the requests: one goes on, the others and
\* their commands stay.
LEMMA GoOnOthers ==
  ASSUME RequestsOK, NEW r \in Waiting, NEW opened, NEW queue, queue \in Seq(Waiting),
         GoOn(r, opened, queue)
  PROVE  /\ Requests' = Requests
         /\ \A x \in Requests : x # r => request'[x] = request[x]
         /\ \A i \in 1..Len(queue) : wire'[i] = queue[i]
<1>1. r \in 1..Len(request) /\ request \in Seq(RequestType)
  BY WaitingRequests DEF RequestsOK
<1>2. \E e : request' = [request EXCEPT ![r] = e]
  BY DEF GoOn
<1>3. wire' = queue \/ wire' = Append(queue, r)
  BY DEF GoOn, Send
<1> QED
  BY <1>1, <1>2, <1>3 DEF Requests

\* Sequences, whatever they hold.
LEMMA FirstOf == ASSUME NEW S, NEW s \in Seq(S), s # <<>> PROVE s[1] = Head(s)
OBVIOUS

LEMMA AppendedTo ==
  ASSUME NEW S, NEW s \in Seq(S), NEW e \in S
  PROVE  \A i \in DOMAIN Append(s, e) :
           \/ i \in DOMAIN s /\ Append(s, e)[i] = s[i]
           \/ i = Len(s) + 1 /\ Append(s, e)[i] = e
OBVIOUS

LEMMA PassGranted == ASSUME IInv, Pass, NEW k PROVE Granted(k)' \subseteq Granted(k)
<1>1. RequestsOK /\ QueueOK(wire) /\ RepliesOK
  BY TypeParts DEF IInv
<1> DEFINE r == Head(wire)
<1>2. /\ replies # <<>> /\ replies[1] /\ replies' = Tail(replies)
      /\ GoOn(r, request[r].opened, Tail(wire))
  <2>1. replies # <<>> /\ Head(replies) /\ replies' = Tail(replies)
    BY DEF Pass
  <2>2. replies[1] = Head(replies)
    BY <1>1, <2>1, FirstOf DEF RepliesOK
  <2>3. GoOn(r, request[r].opened, Tail(wire))
    BY DEF Pass
  <2> QED
    BY <2>1, <2>2, <2>3
<1>3. /\ wire # <<>> /\ Len(wire) \in Nat /\ Len(replies) \in Nat \ {0} /\ Len(replies) <= Len(wire)
      /\ wire[1] = r /\ DOMAIN replies = 1..Len(replies)
      /\ DOMAIN replies' = 1..(Len(replies) - 1)
      /\ \A i \in DOMAIN replies' : replies'[i] = replies[i + 1] /\ i + 1 \in DOMAIN replies
      /\ \A i \in 1..(Len(wire) - 1) : Tail(wire)[i] = wire[i + 1]
  BY <1>1, <1>2 DEF RepliesOK, QueueOK
<1>4. /\ r \in Waiting /\ QueueOK(Tail(wire)) /\ Len(Tail(wire)) = Len(wire) - 1
      /\ \A i \in DOMAIN Tail(wire) : Tail(wire)[i] # r
  BY <1>1, <1>3, TailKeeps
<1>5. request[r].opened \in SUBSET Limiters /\ r \in Requests
  BY <1>1, <1>4, WaitingKey, WaitingRequests DEF RequestType
<1> HIDE DEF r
<1>6. /\ Requests' = Requests
      /\ \A x \in Requests : x # r => request'[x] = request[x]
      /\ \A i \in 1..Len(Tail(wire)) : wire'[i] = Tail(wire)[i]
  <2>1. Tail(wire) \in Seq(Waiting)
    BY <1>4 DEF QueueOK
  <2>2. GoOn(r, request[r].opened, Tail(wire)) /\ r \in Waiting
    BY <1>2, <1>4
  <2> DEFINE queue == Tail(wire)
  <2>3. queue \in Seq(Waiting) /\ GoOn(r, request[r].opened, queue)
    BY <2>1, <2>2
  <2> HIDE DEF queue
  <2>4. /\ Requests' = Requests
        /\ \A x \in Requests : x # r => request'[x] = request[x]
        /\ \A i \in 1..Len(queue) : wire'[i] = queue[i]
    BY <1>1, <2>2, <2>3, GoOnOthers
  <2> QED
    BY <2>4 DEF queue
<1>7. ASSUME NEW x \in LetThrough(k)' PROVE x \in Granted(k)
  <2>1. x \in Requests /\ Via(request'[x], k)
    BY <1>6, <1>7 DEF LetThrough, Via
  <2>2. CASE x # r
    BY <1>6, <2>1, <2>2, LetThroughVia DEF Granted
  <2>3. CASE x = r
    <3>1. Via(request[r], k) \/ Asking(r, k)
      BY <1>1, <1>2, <1>4, <1>5, <2>1, <2>3, GoOnVia
    <3>2. Asking(r, k) => r \in Replied(k)
      BY <1>2, <1>3, <1>5 DEF Replied
    <3> QED
      BY <2>1, <2>3, <3>1, <3>2, LetThroughVia DEF Granted
  <2> QED
    BY <2>2, <2>3
<1>8. ASSUME NEW x \in Replied(k)' PROVE x \in Replied(k)
  <2>1. PICK i \in DOMAIN replies' : replies'[i] /\ wire'[i] = x /\ Asking(x, k)'
    BY <1>8 DEF Replied
  <2>2. i \in 1..(Len(wire) - 1) /\ i \in DOMAIN Tail(wire)
    BY <1>3, <1>4, <2>1 DEF QueueOK
  <2>3. x = Tail(wire)[i] /\ x # r /\ x = wire[i + 1] /\ x \in Requests
    BY <1>3, <1>4, <1>6, <1>8, <2>1, <2>2 DEF Replied
  <2>4. Asking(x, k)
    BY <1>6, <2>1, <2>3 DEF Asking, Limiter
  <2> QED
    BY <1>3, <2>1, <2>3, <2>4 DEF Replied
<1> QED
  BY <1>7, <1>8 DEF Granted

LEMMA FailOpenGranted ==
  ASSUME IInv, NEW r \in Requests, FailOpen(r), NEW k PROVE Granted(k)' \subseteq Granted(k)
<1>1. RequestsOK /\ QueueOK(wire) /\ RepliesOK
  BY TypeParts DEF IInv
<1> DEFINE opened == request[r].opened \cup {Limiter(request[r])}
<1>2. r \in Waiting /\ r \notin Wired /\ GoOn(r, opened, wire) /\ UNCHANGED replies
  BY DEF FailOpen
<1>3. opened \in SUBSET Limiters
  BY <1>1, <1>2, WaitingKey DEF RequestType
<1>4. request[r].opened \subseteq opened /\ Limiter(request[r]) \in opened
  OBVIOUS
<1> HIDE DEF opened
<1>5. /\ Requests' = Requests
      /\ \A x \in Requests : x # r => request'[x] = request[x]
      /\ \A i \in 1..Len(wire) : wire'[i] = wire[i]
  BY <1>1, <1>2, GoOnOthers DEF QueueOK
<1>6. ASSUME NEW x \in LetThrough(k)' PROVE x \in LetThrough(k)
  <2>1. x \in Requests /\ Via(request'[x], k)
    BY <1>5, <1>6 DEF LetThrough, Via
  <2>2. CASE x # r
    BY <1>5, <2>1, <2>2, LetThroughVia
  <2>3. CASE x = r
    <3>1. Via(request[r], k)
      BY <1>1, <1>2, <1>3, <1>4, <2>1, <2>3, GoOnVia
    <3> QED
      BY <2>1, <2>3, <3>1, LetThroughVia
  <2> QED
    BY <2>2, <2>3
<1>7. ASSUME NEW x \in Replied(k)' PROVE x \in Replied(k)
  <2>1. PICK i \in DOMAIN replies : replies[i] /\ wire'[i] = x /\ Asking(x, k)'
    BY <1>2, <1>7 DEF Replied
  <2>2. i \in 1..Len(wire) /\ DOMAIN wire = 1..Len(wire)
    BY <1>1, <2>1 DEF RepliesOK, QueueOK
  <2>3. x = wire[i] /\ x \in Requests /\ x # r
    BY <1>2, <1>5, <1>7, <2>1, <2>2 DEF Replied, Wired
  <2>4. Asking(x, k)
    BY <1>5, <2>1, <2>3 DEF Asking, Limiter
  <2> QED
    BY <2>1, <2>3, <2>4 DEF Replied
<1> QED
  BY <1>6, <1>7 DEF Granted

LEMMA ArriveGranted == ASSUME IInv, Arrive, NEW k PROVE Granted(k)' \subseteq Granted(k)
<1>1. RequestsOK /\ QueueOK(wire) /\ RepliesOK
  BY TypeParts DEF IInv
<1> DEFINE n == Len(request) + 1
<1>2. PICK a : request' = Append(request, Request(a, 1, clock, {}, "eval"))
  BY DEF Arrive
<1>3. /\ Requests = 1..Len(request) /\ Len(request) \in Nat /\ request \in Seq(RequestType)
      /\ DOMAIN replies = 1..Len(replies) /\ DOMAIN wire = 1..Len(wire)
      /\ Len(replies) \in Nat /\ Len(wire) \in Nat /\ Len(replies) <= Len(wire)
  BY <1>1, WaitingRequests DEF RequestsOK, RepliesOK, QueueOK
<1>4. /\ Requests' = Requests \cup {n}
      /\ request'[n].stage = 1 /\ request'[n].state = "eval"
      /\ \A x \in Requests : request'[x] = request[x]
  BY <1>2, <1>3 DEF Requests, Request
<1>5. UNCHANGED replies /\ \A i \in 1..Len(wire) : wire'[i] = wire[i] /\ wire[i] \in Requests
  BY <1>1, <1>3, WaitingRequests DEF Arrive, Send, QueueOK
<1>6. ~Via(request'[n], k)
  BY <1>4 DEF Via
<1>7. LetThrough(k)' \subseteq LetThrough(k)
  BY <1>4, <1>6 DEF LetThrough, Via
<1>8. ASSUME NEW x \in Replied(k)' PROVE x \in Replied(k)
  <2>1. PICK i \in DOMAIN replies : replies[i] /\ wire'[i] = x /\ Asking(x, k)'
    BY <1>5, <1>8 DEF Replied
  <2>2. x = wire[i] /\ x \in Requests
    BY <1>3, <1>5, <2>1
  <2>3. Asking(x, k)
    BY <1>4, <2>1, <2>2 DEF Asking, Limiter
  <2> QED
    BY <2>1, <2>2, <2>3 DEF Replied
<1> QED
  BY <1>7, <1>8 DEF Granted

LEMMA RefuseGranted == ASSUME IInv, Refuse, NEW k PROVE Granted(k)' \subseteq Granted(k)
<1>1. RequestsOK /\ QueueOK(wire) /\ RepliesOK
  BY TypeParts DEF IInv
<1> DEFINE r == Head(wire)
<1>2. /\ replies # <<>> /\ replies' = Tail(replies) /\ wire' = Tail(wire)
      /\ request' = [request EXCEPT ![r] = Ended(request[r], "429")]
  BY DEF Refuse
<1>3. /\ wire # <<>> /\ Len(wire) \in Nat /\ Len(replies) \in Nat \ {0} /\ Len(replies) <= Len(wire)
      /\ DOMAIN replies = 1..Len(replies)
      /\ DOMAIN replies' = 1..(Len(replies) - 1)
      /\ \A i \in DOMAIN replies' : replies'[i] = replies[i + 1] /\ i + 1 \in DOMAIN replies
      /\ \A i \in 1..(Len(wire) - 1) : Tail(wire)[i] = wire[i + 1]
  BY <1>1, <1>2 DEF RepliesOK, QueueOK
<1>4. /\ r \in Waiting /\ Len(Tail(wire)) = Len(wire) - 1
      /\ DOMAIN Tail(wire) = 1..Len(Tail(wire))
      /\ \A i \in DOMAIN Tail(wire) : Tail(wire)[i] # r
  BY <1>1, <1>3, TailKeeps DEF QueueOK
<1>5. r \in Requests /\ request[r] \in RequestType
  BY <1>1, <1>4, WaitingKey, WaitingRequests
<1> HIDE DEF r
<1>6. /\ Requests' = Requests
      /\ request'[r] = Ended(request[r], "429")
      /\ \A x \in Requests : x # r => request'[x] = request[x]
  BY <1>1, <1>2, <1>5 DEF RequestsOK, Requests
<1>7. ASSUME NEW x \in LetThrough(k)' PROVE x \in LetThrough(k)
  <2>1. x \in Requests /\ Via(request'[x], k)
    BY <1>6, <1>7 DEF LetThrough, Via
  <2>2. CASE x # r
    BY <1>6, <2>1, <2>2, LetThroughVia
  <2>3. CASE x = r
    <3>1. /\ request'[r].stage = request[r].stage /\ request'[r].route = request[r].route
          /\ request'[r].ip = request[r].ip /\ request'[r].bearer = request[r].bearer
          /\ request'[r].opened = request[r].opened /\ request'[r].state = "429"
      BY <1>5, <1>6 DEF Ended, RequestType
    <3>2. Via(request[r], k)
      BY <2>1, <2>3, <3>1 DEF Via, Key
    <3> QED
      BY <2>1, <2>3, <3>2, LetThroughVia
  <2> QED
    BY <2>2, <2>3
<1>8. ASSUME NEW x \in Replied(k)' PROVE x \in Replied(k)
  <2>1. PICK i \in DOMAIN replies' : replies'[i] /\ wire'[i] = x /\ Asking(x, k)'
    BY <1>8 DEF Replied
  <2>2. i \in 1..(Len(wire) - 1) /\ i \in DOMAIN Tail(wire)
    BY <1>3, <1>4, <2>1
  <2>3. x # r /\ x = wire[i + 1] /\ x \in Requests
    BY <1>2, <1>3, <1>4, <1>6, <1>8, <2>1, <2>2 DEF Replied
  <2>4. Asking(x, k)
    BY <1>6, <2>1, <2>3 DEF Asking, Limiter
  <2> QED
    BY <1>3, <2>1, <2>3, <2>4 DEF Replied
<1> QED
  BY <1>7, <1>8 DEF Granted

\* Time and the connection grant nothing.
LEMMA OtherGranted ==
  ASSUME IInv, Tick \/ SetBack \/ Disconnect \/ Reconnect \/ GiveUp, NEW k
  PROVE  Granted(k)' \subseteq Granted(k)
<1>1. UNCHANGED request /\ Requests' = Requests
  BY DEF Tick, SetBack, Disconnect, Reconnect, GiveUp, Requests
<1>2. LetThrough(k)' \subseteq LetThrough(k)
  BY <1>1 DEF LetThrough
<1>3. \/ UNCHANGED <<wire, replies>>
      \/ replies' = <<>>
      \/ replies = <<>> /\ UNCHANGED replies
  BY DEF Tick, SetBack, Disconnect, Reconnect, GiveUp, IInv, Silent
<1>4. Replied(k)' \subseteq Replied(k)
  <2>1. CASE UNCHANGED <<wire, replies>>
    BY <1>1, <2>1 DEF Replied, Asking, Limiter
  <2>2. CASE replies' = <<>>
    BY <2>2 DEF Replied
  <2> QED
    BY <1>3, <2>1, <2>2
<1> QED
  BY <1>2, <1>4 DEF Granted

\* The script grants a request only with a charge to the bucket it asks.
LEMMA ExecuteGranted ==
  ASSUME IInv, Execute, NEW k \in Keys
  PROVE  \/ Granted(k)' \subseteq Granted(k) /\ bucket'[k].spent >= bucket[k].spent
         \/ \E r : /\ Granted(k)' \subseteq Granted(k) \cup {r}
                   /\ bucket'[k].spent = bucket[k].spent + Cost
<1>1. RequestsOK /\ QueueOK(wire) /\ RepliesOK /\ BucketsOK
  BY TypeParts DEF IInv
<1> DEFINE n == Len(replies) + 1
           r == wire[n]
           q == request[r]
           x == Key(q, Limiter(q))
           c == Capacity[Limiter(q)]
           a == Allowed(bucket[x], c, q.stamp, clock)
<1>2. /\ UNCHANGED <<request, wire>>
      /\ bucket' = [bucket EXCEPT ![x] = Write(bucket[x], c, q.stamp, clock)]
      /\ replies' = Append(replies, a)
  BY DEF Execute
<1>3. a \in BOOLEAN
  BY DEF Allowed
<1>4. /\ bucket[k].spent \in Nat
      /\ k # x => bucket'[k] = bucket[k]
      /\ k = x => bucket'[k].spent = bucket[k].spent + (IF a THEN Cost ELSE 0)
  <2>1. bucket[k].spent \in Nat /\ bucket \in [Keys -> Buckets]
    BY <1>1 DEF BucketsOK, Buckets
  <2>2. Write(bucket[x], c, q.stamp, clock).spent = bucket[x].spent + (IF a THEN Cost ELSE 0)
    BY DEF Write, Bucket
  <2> HIDE DEF x, a, c
  <2> QED
    BY <1>2, <2>1, <2>2
<1>5. LetThrough(k)' = LetThrough(k) /\ Requests' = Requests
  BY <1>2 DEF LetThrough, Requests
<1>9. \A i \in DOMAIN replies' :
        \/ i \in DOMAIN replies /\ replies'[i] = replies[i]
        \/ i = n /\ replies'[i] = a
  <2> HIDE DEF a
  <2>1. replies \in Seq(BOOLEAN)
    BY <1>1 DEF RepliesOK
  <2>2. replies' = Append(replies, a)
    BY <1>2
  <2> QED
    BY <1>3, <2>1, <2>2, AppendedTo, Zenon
<1>6. ASSUME NEW y \in Replied(k)' PROVE y \in Replied(k) \/ (y = r /\ k = x /\ a)
  <2>1. PICK i \in DOMAIN replies' : replies'[i] /\ wire[i] = y /\ Asking(y, k)
    BY <1>2, <1>6 DEF Replied, Asking, Limiter
  <2> HIDE DEF a
  <2> QED
    BY <1>5, <1>6, <1>9, <2>1 DEF Replied, Asking
<1> HIDE DEF r, x, a
<1>7. CASE k = x /\ a
  <2>1. Granted(k)' \subseteq Granted(k) \cup {r}
    BY <1>5, <1>6 DEF Granted
  <2> QED
    BY <1>4, <1>7, <2>1
<1>8. CASE ~(k = x /\ a)
  <2>1. Granted(k)' \subseteq Granted(k)
    BY <1>5, <1>6, <1>8 DEF Granted
  <2> QED
    BY <1>4, <1>8, <2>1
<1> QED
  BY <1>7, <1>8

LEMMA NextCharged == IInv /\ Charged /\ [Next]_vars => Charged'
<1> SUFFICES ASSUME IInv, Charged, [Next]_vars, NEW k \in Keys
             PROVE  Cost * Cardinality(Granted(k)') <= bucket'[k].spent
  BY DEF Charged
<1>1. RequestsOK /\ BucketsOK
  BY TypeParts DEF IInv
<1> DEFINE n == Cardinality(Granted(k))
           m == Cardinality(Granted(k)')
<1>2. /\ n \in Nat
      /\ Granted(k)' \subseteq Granted(k) => m \in Nat /\ m <= n
      /\ \A r : Granted(k)' \subseteq Granted(k) \cup {r} => m \in Nat /\ m <= n + 1
  BY <1>1, GrantedFinite
<1>3. Cost * n <= bucket[k].spent /\ bucket[k].spent \in Nat /\ Cost \in Nat
  BY <1>1, BucketAssumption DEF Charged, BucketsOK, Buckets
<1> HIDE DEF n, m
<1>4. CASE Granted(k)' \subseteq Granted(k) /\ bucket'[k].spent \in Nat
           /\ bucket'[k].spent >= bucket[k].spent
  <2>1. Cost * m <= Cost * n /\ Cost * m \in Nat /\ Cost * n \in Nat
    BY <1>2, <1>4, CostMonotone
  <2> QED
    BY <1>3, <1>4, <2>1 DEF m
<1>5. CASE \E r : /\ Granted(k)' \subseteq Granted(k) \cup {r}
                  /\ bucket'[k].spent = bucket[k].spent + Cost
  <2>1. m \in Nat /\ m <= n + 1 /\ n + 1 \in Nat
    BY <1>2, <1>5
  <2>2. Cost * m <= Cost * (n + 1) /\ Cost * m \in Nat
    BY <2>1, CostMonotone
  <2>3. Cost * (n + 1) = Cost * n + Cost /\ Cost * n \in Nat
    BY <1>2, CostMonotone
  <2> QED
    BY <1>3, <1>5, <2>2, <2>3 DEF m
<1>6. CASE Execute
  <2>1. bucket'[k].spent \in Nat
    BY <1>6, ExecuteKeeps, TypeParts DEF IInv, TypeOK, Buckets
  <2> QED
    BY <1>4, <1>5, <1>6, <2>1, ExecuteGranted
<1>7. CASE Disconnect
  <2>1. bucket'[k].spent = bucket[k].spent
    <3>1. bucket[k] \in Buckets
      BY <1>1 DEF BucketsOK
    <3>2. Lose(bucket[k]).spent = bucket[k].spent
      BY <3>1 DEF Lose, Buckets
    <3> QED
      BY <1>7, <3>2 DEF Disconnect
  <2> QED
    BY <1>3, <1>4, <1>7, <2>1, OtherGranted
<1>8. CASE UNCHANGED bucket /\ Granted(k)' \subseteq Granted(k)
  BY <1>3, <1>4, <1>8
<1>9. CASE Arrive
  BY <1>8, <1>9, ArriveGranted DEF Arrive
<1>10. CASE \E r \in Requests : FailOpen(r)
  BY <1>8, <1>10, FailOpenGranted DEF FailOpen
<1>11. CASE Pass
  BY <1>8, <1>11, PassGranted DEF Pass
<1>12. CASE Refuse
  BY <1>8, <1>12, RefuseGranted DEF Refuse
<1>13. CASE Tick \/ SetBack \/ Reconnect \/ GiveUp
  BY <1>8, <1>13, OtherGranted DEF Tick, SetBack, Reconnect, GiveUp
<1>14. CASE UNCHANGED vars
  BY <1>8, <1>14 DEF vars, Granted, LetThrough, Replied, Asking, Limiter, Requests
<1> QED
  BY <1>6, <1>7, <1>9, <1>10, <1>11, <1>12, <1>13, <1>14 DEF Next

------------------------------------------------------------------------------
\* Every reachable state of the limiters, the connection and the buckets has its
\* type: no bucket goes below zero or above its capacity, replies and commands
\* stay matched (middleware/rateLimiter.js:18-50, 60-102).
THEOREM TypeCorrect == Spec => []TypeOK
<1>1. IInv => TypeOK
  BY DEF IInv
<1> QED
  BY Inductive, <1>1, PTL

\* A key that expired never takes tokens with it that were not there
\* (middleware/rateLimiter.js:45-48), as long as the delay of a command and what
\* the clock is set back stay within the 60 seconds of slack.
THEOREM ExpirySafe == Spec => []ExpiryForgetsNothing
<1>1. IInv => ExpiryForgetsNothing
  <2> SUFFICES ASSUME IInv, NEW r \in Wired,
                      LET q == request[r]
                          b == bucket[Key(q, Limiter(q))]
                      IN  b.held /\ ~Present(b, Capacity[Limiter(q)], clock)
               PROVE  LET q == request[r]
                          c == Capacity[Limiter(q)]
                          b == bucket[Key(q, Limiter(q))]
                      IN  b.tokens + Refill * Larger(0, q.stamp - b.timestamp) >= c
    BY DEF ExpiryForgetsNothing
  <2> DEFINE q == request[r]
             k == Key(q, Limiter(q))
             b == bucket[k]
             c == Capacity[Limiter(q)]
  <2>1. q.stamp >= b.timestamp /\ Refill * (q.stamp - b.timestamp) >= c
    BY ExpiredIsFull
  <2>2. BucketsOK /\ RequestsOK /\ r \in Waiting
    BY TypeParts DEF IInv, Wired, QueueOK
  <2>3. k \in Keys /\ q \in RequestType /\ LimiterOfKey(k) = Limiter(q)
    BY <2>2, WaitingKey
  <2>4. b.tokens \in Nat /\ b.timestamp \in Nat /\ q.stamp \in Nat /\ c \in Nat
    BY <2>2, <2>3, KeyCapacity DEF BucketsOK, Buckets, RequestType
  <2> HIDE DEF q, k, b, c
  <2>5. Larger(0, q.stamp - b.timestamp) = q.stamp - b.timestamp
    BY <2>1, <2>4 DEF Larger
  <2>6. Refill * (q.stamp - b.timestamp) \in Int
    BY <2>4, RefillMonotone
  <2>7. b.tokens + Refill * Larger(0, q.stamp - b.timestamp) >= c
    BY <2>1, <2>4, <2>5, <2>6
  <2> QED
    BY <2>7 DEF q, k, b, c
<1> QED
  BY Inductive, <1>1, PTL

\* No bucket ever gives more than its bursts and its refill.
THEOREM BucketsBounded == Spec => []GrantsBounded
<1>1. Init => Bounds
  <2> SUFFICES ASSUME Init, NEW k \in Keys
               PROVE  Bounded(bucket[k], Capacity[LimiterOfKey(k)])
    BY DEF Bounds
  <2>1. bucket[k] = NewBucket
    BY DEF Init
  <2>2. ~NewBucket.held /\ NewBucket.spent = 0 /\ NewBucket.losses = 0
        /\ NewBucket.timestamp + NewBucket.rewound = 0
    BY DEF NewBucket, Bucket
  <2>3. Refill * 0 = 0 /\ Capacity[LimiterOfKey(k)] * 0 = 0
    BY KeyCapacity, BucketAssumption
  <2> QED
    BY <2>1, <2>2, <2>3 DEF Bounded
<1>2. Bounds => GrantsBounded
  BY DEF Bounds, Bounded, GrantsBounded
<1> QED
  BY Inductive, NextBounds, <1>1, <1>2, PTL DEF Spec

\* Being refused never costs a client the refill it waits for.
THEOREM RefillsKept == Spec => []PollingIsFree
<1>1. Init => Refills
  BY DEF Init, Refills, Refilled, NewBucket, Bucket
<1>2. Refills => PollingIsFree
  BY DEF Refills, Refilled, PollingIsFree
<1> QED
  BY Inductive, NextRefills, <1>1, <1>2, PTL DEF Spec

\* Nobody gets around a bucket: what a limiter let through by its bucket was
\* charged to it, although replies are lost, commands run twice and Redis forgets
\* (middleware/rateLimiter.js:69-100).
THEOREM NobodyFree == Spec => []NobodyGetsAround
<1>1. Init => Charged
  <2> SUFFICES ASSUME Init, NEW k \in Keys
               PROVE  Cost * Cardinality(Granted(k)) <= bucket[k].spent
    BY DEF Charged
  <2>1. Granted(k) = {} /\ bucket[k].spent = 0
    BY DEF Init, Granted, LetThrough, Replied, Requests, NewBucket, Bucket
  <2>2. Cost * 0 = 0
    BY BucketAssumption
  <2> QED
    BY <2>1, <2>2, FS_EmptySet
<1>2. IInv /\ Charged => NobodyGetsAround
  <2> SUFFICES ASSUME IInv, Charged, NEW k \in Keys
               PROVE  Cost * Cardinality(LetThrough(k)) <= bucket[k].spent
    BY DEF NobodyGetsAround
  <2>1. RequestsOK /\ BucketsOK
    BY TypeParts DEF IInv
  <2> DEFINE m == Cardinality(LetThrough(k))
             n == Cardinality(Granted(k))
  <2>2. m \in Nat /\ n \in Nat /\ m <= n
    BY <2>1, GrantedFinite DEF Granted
  <2>3. Cost * n <= bucket[k].spent /\ bucket[k].spent \in Nat
    BY <2>1 DEF Charged, BucketsOK, Buckets
  <2> HIDE DEF m, n
  <2>4. Cost * m <= Cost * n /\ Cost * m \in Nat /\ Cost * n \in Nat
    BY <2>2, CostMonotone
  <2> QED
    BY <2>3, <2>4 DEF m
<1> QED
  BY Inductive, NextCharged, <1>1, <1>2, PTL DEF Spec
==============================================================================
