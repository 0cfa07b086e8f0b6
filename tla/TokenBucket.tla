----------------------------- MODULE TokenBucket -----------------------------
(***************************************************************************)
(* The Lua script of middleware/rateLimiter.js, as functions of the hash it *)
(* finds in Redis.  Time is counted in ticks and tokens in shares: a request *)
(* costs Cost shares and a tick refills Refill of them, so every rational   *)
(* refill rate has its integers.  granted, spent, rewound and losses are    *)
(* history the hash does not hold.  Definitions marked "Fault" are wrong    *)
(* variants of the one that follows.                                        *)
(***************************************************************************)
EXTENDS Integers

CONSTANTS
  Cost,          \* what one request takes from a bucket
  Refill,        \* what a tick puts back (refillRatePerSec)
  Slack          \* the ticks a key outlives the refill of its bucket (+ 60)

ASSUME BucketAssumption ==
  /\ Cost \in Nat \ {0}
  /\ Refill \in Nat \ {0}
  /\ Slack \in Nat

Smaller(a, b) == IF a <= b THEN a ELSE b
Larger(a, b)  == IF a >= b THEN a ELSE b

\* held: Redis has the key, unless it expired since; written: the time it was
\* last written, on Redis's clock; granted: the stamp of the last charge;
\* spent: all charges; rewound: how far stamps went backwards; losses: how often
\* Redis lost the key.
Bucket(held, tokens, timestamp, written, granted, spent, rewound, losses) ==
  [held |-> held, tokens |-> tokens, timestamp |-> timestamp,
   written |-> written, granted |-> granted, spent |-> spent,
   rewound |-> rewound, losses |-> losses]

Buckets ==
  [held : BOOLEAN, tokens : Nat, timestamp : Nat, written : Nat,
   granted : Nat, spent : Nat, rewound : Nat, losses : Nat]

NewBucket == Bucket(FALSE, 0, 0, 0, 0, 0, 0, 0)

\* math.ceil(capacity / refill_rate), as the smallest such number of ticks.
Ceiling(capacity) == (capacity + Refill - 1) \div Refill

\* Fault: the key expires as soon as the bucket is full again.
TightTimeToLive(capacity) == Ceiling(capacity)

TimeToLive(capacity) == Ceiling(capacity) + Slack

\* The key is there when the script runs at the time of Redis's clock.
Present(b, capacity, time) == b.held /\ time < b.written + TimeToLive(capacity)

\* Fault: a stamp older than the last one takes tokens away.
SignedFill(b, capacity, now, time) ==
  IF Present(b, capacity, time)
    THEN Smaller(capacity, b.tokens + Refill * (now - b.timestamp))
    ELSE capacity

\* The tokens after the top-up.
Fill(b, capacity, now, time) ==
  IF Present(b, capacity, time)
    THEN Smaller(capacity, b.tokens + Refill * Larger(0, now - b.timestamp))
    ELSE capacity

Allowed(b, capacity, now, time) == Fill(b, capacity, now, time) >= Cost

\* Fault: keeps the time of the last charge, and tops up from it again.
WriteOldTimestamp(b, capacity, now, time) ==
  LET filled  == Fill(b, capacity, now, time)
      allowed == Allowed(b, capacity, now, time)
      charge  == IF allowed THEN Cost ELSE 0
  IN  Bucket(TRUE, filled - charge,
             IF allowed \/ ~Present(b, capacity, time) THEN now ELSE b.timestamp,
             time, IF allowed \/ ~Present(b, capacity, time) THEN now ELSE b.granted,
             b.spent + charge, b.rewound + Larger(0, b.timestamp - now), b.losses)

\* Fault: forgets the top-up of a request it refuses.
WriteUnfilled(b, capacity, now, time) ==
  LET filled  == Fill(b, capacity, now, time)
      allowed == Allowed(b, capacity, now, time)
      charge  == IF allowed THEN Cost ELSE 0
  IN  Bucket(TRUE, IF allowed THEN filled - charge ELSE b.tokens,
             now, time, IF allowed \/ ~Present(b, capacity, time) THEN now ELSE b.granted,
             b.spent + charge, b.rewound + Larger(0, b.timestamp - now), b.losses)

\* The hash after the script.
Write(b, capacity, now, time) ==
  LET filled  == Fill(b, capacity, now, time)
      allowed == Allowed(b, capacity, now, time)
      charge  == IF allowed THEN Cost ELSE 0
  IN  Bucket(TRUE, filled - charge, now, time,
             IF allowed \/ ~Present(b, capacity, time) THEN now ELSE b.granted,
             b.spent + charge, b.rewound + Larger(0, b.timestamp - now), b.losses)

\* Redis forgets the key.
Lose(b) == [b EXCEPT !.held = FALSE, !.losses = @ + (IF b.held THEN 1 ELSE 0)]

==============================================================================
