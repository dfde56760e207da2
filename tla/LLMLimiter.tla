----------------------------- MODULE LLMLimiter -----------------------------
(***************************************************************************)
(* The token bucket of internal/httpapi/llm_limit.go.  Each operation runs  *)
(* under the limiter's mutex and is one step; setCapacity and allow are two. *)
(* Tokens are counted in parts of which Minute make one, so that a second   *)
(* adds `capacity' of them.                                                 *)
(***************************************************************************)
EXTENDS Integers

CONSTANT Minute   \* seconds in a minute: 60

ASSUME MinuteAssumption == Minute \in Nat \ {0}

\* newLLMLimiter: the bucket starts full.
NewLimiter(perMinute, now) ==
  [capacity |-> perMinute, tokens |-> perMinute * Minute, last |-> now]

Slip_Untrimmed(b) == b
Trimmed(b) ==
  [b EXCEPT !.tokens = IF @ > b.capacity * Minute THEN b.capacity * Minute ELSE @]

Refill(b, now) ==
  IF now <= b.last THEN b
  ELSE IF b.capacity <= 0 THEN [b EXCEPT !.last = now]
  ELSE Trimmed([b EXCEPT !.last = now, !.tokens = @ + (now - b.last) * b.capacity])

SetCapacity(b, perMinute, now) == Trimmed([Refill(b, now) EXCEPT !.capacity = perMinute])

Unlimited(b) == b.capacity <= 0
HasToken(b, now) == Refill(b, now).tokens >= Minute
TakeToken(b, now) == [Refill(b, now) EXCEPT !.tokens = @ - Minute]

\* int(1/rate + 0.999), at least 1: a minute over the capacity, rounded up.
Slip_RoundedDown(b) == IF b.capacity > Minute THEN 1 ELSE Minute \div b.capacity
RetryAfter(b) ==
  IF b.capacity > Minute THEN 1 ELSE (Minute + b.capacity - 1) \div b.capacity
=============================================================================
