------------------------------ MODULE MCRetry ------------------------------
EXTENDS Retry
(* Unlimited, the "do not retry" value 0 of GetState, one attempt, and two  *)
(* limits that leave room for calls that share a Retrier.                   *)
MCLimits == {-1, 0, 1, 2, 3}
=============================================================================
