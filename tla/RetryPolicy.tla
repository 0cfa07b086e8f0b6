----------------------------- MODULE RetryPolicy -----------------------------
(***************************************************************************)
(* worker/retryPolicy.js: what the order worker does with a message whose   *)
(* processing threw, as a function of how often it was retried already.     *)
(***************************************************************************)
EXTENDS Integers

\* Fault: the retry that is being decided on is counted as made.
DecideRetryTooSoon(retryCount, maxAttempts, baseDelayMs) ==
  IF retryCount + 1 >= maxAttempts
  THEN [action |-> "DEAD_LETTER"]
  ELSE [action         |-> "RETRY",
        nextRetryCount |-> retryCount + 1,
        delayMs        |-> baseDelayMs * 2^retryCount]

\* The decision for a message that has been retried retryCount times: give up,
\* or try again after a delay that doubles with every retry.
DecideRetry(retryCount, maxAttempts, baseDelayMs) ==
  IF retryCount >= maxAttempts
  THEN [action |-> "DEAD_LETTER"]
  ELSE [action         |-> "RETRY",
        nextRetryCount |-> retryCount + 1,
        delayMs        |-> baseDelayMs * 2^retryCount]
=============================================================================
