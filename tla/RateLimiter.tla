----------------------------- MODULE RateLimiter -----------------------------
(***************************************************************************)
(* The token buckets in front of the LLM providers (rate_limiter.py).      *)
(* Time passes in ticks; a bucket is counted in parts of which Interval    *)
(* make a token, so that a tick adds Amount parts and no fraction is lost. *)
(***************************************************************************)
EXTENDS Integers, FiniteSetsExt

CONSTANTS
  Capacity,   \* tokens a bucket holds
  Interval,   \* ticks in which Amount tokens are added
  Amount,
  Limited,    \* providers with a bucket
  Local       \* providers that are never limited

ASSUME LimiterAssumption ==
  /\ {Capacity, Interval, Amount} \subseteq Nat \ {0}
  /\ Limited \cap Local = {}

VARIABLE bucket

Full == Capacity * Interval

BucketInit == bucket = [p \in Limited |-> Full]

\* Mutant: the bucket overflows.
RefillWithoutEnd == bucket' = [p \in Limited |-> bucket[p] + Amount]

\* _refill: what was added since the last call, up to the capacity
Refill == bucket' = [p \in Limited |-> Min({Full, bucket[p] + Amount})]

\* Mutant: what is left of a token is enough.
AllowedOnPart(p) == p \in Limited => bucket[p] > 0

\* check and acquire
Allowed(p) == p \in Limited => bucket[p] >= Interval

Acquire(p) ==
  /\ Allowed(p)
  /\ IF p \in Local THEN UNCHANGED bucket ELSE bucket' = [bucket EXCEPT ![p] = @ - Interval]

\* Mutant: the time for what is there, not for what is missing.
RetryAfterLevel(p) == (bucket[p] + Amount - 1) \div Amount

\* retry_after: the time in which the missing part of one token is added
RetryAfter(p) == (Interval - bucket[p] + Amount - 1) \div Amount
==============================================================================
