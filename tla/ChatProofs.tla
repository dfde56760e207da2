----------------------------- MODULE ChatProofs -----------------------------
(***************************************************************************)
(* What the limiter of internal/httpapi/llm_limit.go guarantees to the      *)
(* upstream and to callers, for any limits, callers and clock, and what the *)
(* leak guard of internal/engine/llm.go keeps from the model, for any       *)
(* messages and configurations.                                            *)
(*                                                                         *)
(* The argument for the limiter is a potential: what a window of a minute   *)
(* has seen, plus what the bucket still holds, is no more than a full       *)
(* bucket and what has flowed in since the window began.  That for the      *)
(* guard follows a message from its arrival to the call of the model.       *)
(***************************************************************************)
EXTENDS Chat, SpansProofs

BucketType == [capacity : Int, tokens : Int, last : Int]

\* A bucket at the time `t': filled no higher than its capacity, which is a
\* limit some configuration sets, and not refilled in the future.
Sound(b, t) ==
  /\ b \in BucketType
  /\ 0 <= b.capacity /\ b.capacity <= Highest
  /\ 0 <= b.tokens /\ b.tokens <= b.capacity * Minute
  /\ b.last <= t

\* From b to r, which is up to date, no more flows in than the highest limit lets.
Refilled(b, r, t) ==
  Sound(r, t) /\ r.last = t /\ r.tokens <= b.tokens + (t - b.last) * Highest

\* What has flowed in within the minute from t, when the bucket was last
\* refilled at `last'; tokens left after that minute do not concern it.
Inflow(t, last) == IF last <= t THEN 0 ELSE IF last < t + Minute THEN last - t ELSE Minute
Left(b, t) == IF b.last < t + Minute THEN b.tokens ELSE 0
Accounted(b, n, t) ==
  Minute * n + Left(b, t) <= Highest * Minute + Highest * Inflow(t, b.last)

LimiterInv ==
  /\ scenario \in Scenarios /\ live \in scenario.configs /\ now \in Nat
  /\ Sound(bucket, now)
  /\ taken \in Seq(Nat) /\ \A i \in DOMAIN taken : taken[i] <= bucket.last
  /\ \A t \in Nat : Accounted(bucket, Cardinality(TakenIn(t)), t)

-----------------------------------------------------------------------------
(* The bucket's arithmetic *)

LEMMA HighestLimit ==
  ASSUME scenario \in Scenarios
  PROVE  /\ Highest \in Nat
         /\ \A c \in scenario.configs : c.perMinute \in Nat /\ c.perMinute <= Highest
<1> DEFINE S == {c.perMinute : c \in scenario.configs}
<1>1. /\ \A c \in scenario.configs : c.perMinute \in Nat
      /\ \E c \in scenario.configs : \A d \in scenario.configs : c.perMinute >= d.perMinute
  BY ScenariosAssumption
<1>2. \E x \in S : \A y \in S : x >= y
  BY <1>1
<1>3. Highest \in S /\ \A y \in S : Highest >= y
  BY <1>2 DEF Highest, Max
<1>4. QED
  BY <1>1, <1>3

\* A smaller capacity, or a shorter time, fills a bucket no further.
LEMMA Product ==
  ASSUME NEW a \in Nat, NEW b \in Nat, NEW c \in Nat, a <= b
  PROVE  a * c <= b * c /\ a * c \in Nat /\ b * c \in Nat
<1>1. PICK d \in Nat : b = a + d
  BY SMT
<1>2. b * c = a * c + d * c
  BY <1>1, SMT
<1>3. d * c \in Nat /\ a * c \in Nat
  BY SMT
<1>4. QED
  BY <1>2, <1>3, SMT

\* What a refill does: the bucket is now up to date and has gained no more than
\* the highest limit lets flow.
LEMMA RefillFacts ==
  ASSUME Highest \in Nat, NEW b, NEW t \in Nat, Sound(b, t)
  PROVE  Refilled(b, Refill(b, t), t)
<1> DEFINE r == Refill(b, t)
           gain == (t - b.last) * b.capacity
<1>1. /\ b = [capacity |-> b.capacity, tokens |-> b.tokens, last |-> b.last]
      /\ b.capacity \in Nat /\ b.tokens \in Nat /\ b.last \in Int /\ t - b.last \in Nat
      /\ b.capacity <= Highest /\ b.tokens <= b.capacity * Minute
  BY DEF Sound, BucketType
<1>2. /\ gain \in Nat /\ (t - b.last) * Highest \in Nat /\ gain <= (t - b.last) * Highest
      /\ b.capacity * Minute \in Nat
  <2>1. b.capacity * (t - b.last) <= Highest * (t - b.last)
    BY <1>1, Product
  <2>2. gain = b.capacity * (t - b.last) /\ (t - b.last) * Highest = Highest * (t - b.last)
    BY <1>1, SMT
  <2>3. b.capacity * (t - b.last) \in Nat /\ Highest * (t - b.last) \in Nat
    BY <1>1, Product
  <2>4. b.capacity * Minute \in Nat
    BY <1>1, MinuteAssumption, SMT
  <2>5. QED
    BY <2>1, <2>2, <2>3, <2>4
<1>3. CASE t <= b.last
  <2>1. r = b /\ b.last = t
    BY <1>1, <1>3 DEF Refill
  <2>2. QED
    BY <1>1, <1>2, <2>1 DEF Sound, Refilled
<1>4. CASE ~(t <= b.last) /\ b.capacity <= 0
  <2>1. r = [capacity |-> b.capacity, tokens |-> b.tokens, last |-> t]
    BY <1>1, <1>4 DEF Refill
  <2>2. QED
    BY <1>1, <1>2, <2>1 DEF Sound, BucketType, Refilled
<1>5. CASE ~(t <= b.last) /\ ~(b.capacity <= 0)
  <2> DEFINE full == b.capacity * Minute
             sum == b.tokens + gain
  <2>1. r = [capacity |-> b.capacity, tokens |-> IF sum > full THEN full ELSE sum, last |-> t]
    BY <1>1, <1>5 DEF Refill, Trimmed
  <2>2. sum \in Nat /\ sum <= b.tokens + (t - b.last) * Highest /\ full \in Nat
    BY <1>1, <1>2
  <2> HIDE DEF full, sum, r
  <2>3. r.tokens \in Nat /\ r.tokens <= full /\ r.tokens <= sum /\ r.last = t /\ r.capacity = b.capacity
    BY <2>1, <2>2
  <2>4. r \in BucketType
    BY <1>1, <2>1, <2>2 DEF BucketType
  <2>5. QED
    BY <1>1, <2>2, <2>3, <2>4 DEF Sound, Refilled, full, r
<1>6. QED
  BY <1>3, <1>4, <1>5

\* A bucket refilled by no more than the highest limit lets flow keeps account.
LEMMA LaterAccounted ==
  ASSUME Highest \in Nat, NEW b, NEW r, NEW t \in Nat, Sound(b, t), Refilled(b, r, t),
         NEW n \in Nat, NEW s \in Nat, b.last < s => n = 0, Accounted(b, n, s)
  PROVE  Accounted(r, n, s)
<1> DEFINE full == Highest * Minute
<1>1. /\ b.tokens \in Nat /\ b.last \in Int /\ b.last <= t
      /\ r.tokens \in Nat /\ Minute \in Nat /\ Minute > 0 /\ full \in Nat
      /\ Minute * n \in Nat /\ (n = 0 => Minute * n = 0)
      /\ r.last = t /\ r.tokens <= b.tokens + (t - b.last) * Highest
  BY MinuteAssumption, SMT DEF Sound, BucketType, Refilled
<1>2. r.tokens <= full
  <2>1. r.capacity \in Nat /\ r.capacity <= Highest /\ r.tokens <= r.capacity * Minute
    BY DEF Sound, BucketType, Refilled
  <2>2. QED
    BY <1>1, <2>1, Product, MinuteAssumption
<1>3. Minute * n + Left(b, s) <= full + Highest * Inflow(s, b.last)
  BY DEF Accounted
<1>4. CASE t <= s
  <2>1. Inflow(s, t) = 0 /\ Left(r, s) = r.tokens
    BY <1>1, <1>4 DEF Inflow, Left
  <2> HIDE DEF full
  <2>2. Minute * n + r.tokens <= full
    <3>1. CASE b.last < s
      BY <1>1, <1>2, <3>1
    <3>2. CASE b.last = s
      <4>1. Inflow(s, b.last) = 0 /\ Left(b, s) = b.tokens /\ t - b.last = 0
        BY <1>1, <1>4, <3>2 DEF Inflow, Left
      <4>2. Highest * 0 = 0 /\ 0 * Highest = 0
        OBVIOUS
      <4>3. QED
        BY <1>1, <1>3, <4>1, <4>2
    <3>3. b.last < s \/ b.last = s
      <4>1. b.last \in Int /\ b.last <= t
        BY DEF Sound, BucketType
      <4>2. QED
        BY <1>4, <4>1
    <3>4. QED
      BY <3>1, <3>2, <3>3
  <2>3. QED
    <3>1. Highest * 0 = 0
      OBVIOUS
    <3>2. QED
      BY <1>1, <2>1, <2>2, <3>1 DEF Accounted, full
<1>5. CASE s < t /\ t < s + Minute
  <2>1. Inflow(s, t) = t - s /\ Left(r, s) = r.tokens /\ Left(b, s) = b.tokens
    BY <1>1, <1>5 DEF Inflow, Left
  <2>2. CASE b.last < s
    <3>1. Highest * (t - s) \in Nat
      BY <1>5, SMT
    <3>2. QED
      BY <1>1, <1>2, <2>1, <2>2, <3>1 DEF Accounted
  <2>3. CASE s <= b.last
    <3>1. Inflow(s, b.last) = b.last - s
      BY <1>1, <1>5, <2>3 DEF Inflow
    <3>2. Highest * (b.last - s) + (t - b.last) * Highest = Highest * (t - s)
      BY <1>1, SMT
    <3>3. Highest * (b.last - s) \in Int /\ (t - b.last) * Highest \in Int
      BY <1>1, SMT
    <3>4. QED
      BY <1>1, <1>3, <2>1, <3>1, <3>2, <3>3 DEF Accounted
  <2>4. QED
    BY <1>1, <2>2, <2>3
<1>6. CASE s + Minute <= t
  <2>1. Inflow(s, t) = Minute /\ Left(r, s) = 0
    BY <1>1, <1>6 DEF Inflow, Left
  <2>2. Inflow(s, b.last) \in Nat /\ Inflow(s, b.last) <= Minute /\ Left(b, s) >= 0 /\ Left(b, s) \in Nat
    BY <1>1, <1>6 DEF Inflow, Left
  <2>3. Highest * Inflow(s, b.last) <= full /\ Highest * Inflow(s, b.last) \in Nat
    <3>1. Inflow(s, b.last) * Highest <= Minute * Highest
      BY <1>1, <2>2, Product
    <3>2. QED
      BY <1>1, <2>2, <3>1, SMT
  <2>4. QED
    BY <1>1, <1>3, <2>1, <2>2, <2>3 DEF Accounted
<1>7. QED
  BY <1>1, <1>4, <1>5, <1>6

\* A token taken now is in every window that has begun and is not over.
LEMMA TokenAccounted ==
  ASSUME Highest \in Nat, NEW r, NEW t \in Nat, Sound(r, t), r.last = t, r.tokens >= Minute,
         NEW n \in Nat, NEW s \in Nat, Accounted(r, n, s)
  PROVE  Accounted([r EXCEPT !.tokens = @ - Minute], IF t \in s .. s + Minute - 1 THEN n + 1 ELSE n, s)
<1> DEFINE b == [r EXCEPT !.tokens = @ - Minute]
<1>1. /\ r.tokens \in Nat /\ Minute \in Nat /\ b.tokens = r.tokens - Minute /\ b.last = t
      /\ Minute * (n + 1) = Minute * n + Minute /\ Minute * n \in Nat
  BY MinuteAssumption, SMT DEF Sound, BucketType
<1>2. Highest * Minute \in Int /\ Highest * Inflow(s, t) \in Int
  BY MinuteAssumption, SMT DEF Inflow
<1> HIDE DEF b
<1>3. QED
  BY <1>1, <1>2 DEF Accounted, Left

-----------------------------------------------------------------------------
(* The limiter among its callers *)

LEMMA TakenFinite ==
  ASSUME taken \in Seq(Nat), NEW t \in Nat
  PROVE  IsFiniteSet(TakenIn(t)) /\ Cardinality(TakenIn(t)) \in Nat
<1>1. TakenIn(t) \subseteq 1 .. Len(taken) /\ Len(taken) \in Nat
  BY DEF TakenIn
<1>2. QED
  <2>1. IsFiniteSet(1 .. Len(taken))
    BY <1>1, FS_Interval
  <2>2. IsFiniteSet(TakenIn(t))
    BY <1>1, <2>1, FS_Subset
  <2>3. QED
    BY <2>2, FS_CardinalityType

LEMMA InitLimiter == Init => LimiterInv
<1> SUFFICES ASSUME Init PROVE LimiterInv
  OBVIOUS
<1>1. scenario \in Scenarios /\ live \in scenario.configs /\ now = 0
  BY DEF Init
<1>2. Highest \in Nat /\ live.perMinute \in Nat /\ live.perMinute <= Highest
  BY <1>1, HighestLimit
<1>3. Sound(bucket, now)
  BY <1>1, <1>2, MinuteAssumption, SMT DEF Init, NewLimiter, Sound, BucketType
<1>4. ASSUME NEW t \in Nat PROVE Accounted(bucket, Cardinality(TakenIn(t)), t)
  <2>1. Cardinality(TakenIn(t)) = 0
    <3>1. TakenIn(t) = {}
      BY DEF Init, TakenIn
    <3>2. QED
      BY <3>1, FS_EmptySet
  <2>2. Inflow(t, bucket.last) = 0 /\ Left(bucket, t) = live.perMinute * Minute
    BY <1>1, MinuteAssumption DEF Init, NewLimiter, Inflow, Left
  <2>3. live.perMinute * Minute <= Highest * Minute /\ live.perMinute * Minute \in Nat /\ Highest * Minute \in Nat
    BY <1>2, MinuteAssumption, Product
  <2>4. Minute * 0 = 0 /\ Highest * 0 = 0
    BY <1>2, MinuteAssumption
  <2>5. QED
    BY <2>1, <2>2, <2>3, <2>4 DEF Accounted
<1>5. QED
  BY <1>1, <1>3, <1>4 DEF Init, LimiterInv

\* A step that leaves the limiter alone; time may pass.
LEMMA LimiterUntouched ==
  ASSUME LimiterInv, UNCHANGED <<scenario, bucket, taken>>, live' \in scenario.configs,
         now' \in Nat, now <= now'
  PROVE  LimiterInv'
<1>1. Highest' = Highest /\ \A t : TakenIn(t)' = TakenIn(t)
  BY DEF Highest, TakenIn
<1>2. Sound(bucket, now)'
  BY <1>1 DEF LimiterInv, Sound, BucketType
<1>3. \A t \in Nat : Accounted(bucket, Cardinality(TakenIn(t)), t)'
  BY <1>1 DEF LimiterInv, Accounted, Left, Inflow
<1>4. QED
  BY <1>2, <1>3 DEF LimiterInv

\* The limiter is refilled, and perhaps trimmed, in this very second.
LEMMA LimiterRefilled ==
  ASSUME LimiterInv, UNCHANGED <<scenario, live, taken, now>>,
         Refilled(bucket, bucket', now)
  PROVE  LimiterInv'
<1>1. Highest' = Highest /\ Highest \in Nat /\ \A t : TakenIn(t)' = TakenIn(t)
  BY HighestLimit DEF Highest, TakenIn, LimiterInv
<1>2. \A t \in Nat : Accounted(bucket', Cardinality(TakenIn(t)), t)
  <2> SUFFICES ASSUME NEW t \in Nat PROVE Accounted(bucket', Cardinality(TakenIn(t)), t)
    OBVIOUS
  <2>1. Cardinality(TakenIn(t)) \in Nat
    BY TakenFinite DEF LimiterInv
  <2>2. bucket.last < t => Cardinality(TakenIn(t)) = 0
    <3>1. bucket.last < t => TakenIn(t) = {}
      BY DEF LimiterInv, TakenIn, Sound, BucketType
    <3>2. QED
      BY <3>1, FS_EmptySet
  <2>3. QED
    BY <1>1, <2>1, <2>2, LaterAccounted DEF LimiterInv
<1>3. \A i \in DOMAIN taken : taken[i] <= bucket'.last
  BY DEF LimiterInv, Sound, BucketType, Refilled
<1>4. \A t \in Nat : Accounted(bucket, Cardinality(TakenIn(t)), t)'
  BY <1>1, <1>2 DEF Accounted, Left, Inflow
<1>5. Sound(bucket, now)'
  BY <1>1 DEF Sound, BucketType, Refilled
<1>6. QED
  BY <1>3, <1>4, <1>5 DEF LimiterInv

\* The limit a call has read is one that some configuration sets.
LimitsRead ==
  \A w \in Workers : pc[w] = "adjust" => \E c \in scenario.configs : loc[w].limit = c.perMinute

LEMMA AdjustKeepsLimiter ==
  ASSUME LimiterInv, LimitsRead, NEW w \in Workers, AdjustLimit(w)
  PROVE  LimiterInv'
<1> DEFINE r == Refill(bucket, now)
           limit == loc[w].limit
           full == limit * Minute
<1>1. /\ Highest \in Nat /\ limit \in Nat /\ limit <= Highest
      /\ now \in Nat /\ Sound(bucket, now)
  <2>1. PICK c \in scenario.configs : limit = c.perMinute
    BY DEF LimitsRead, AdjustLimit, Goto
  <2> QED
    BY <2>1, HighestLimit DEF LimiterInv
<1>2. Refilled(bucket, r, now)
  BY <1>1, RefillFacts
<1>3. full \in Nat
  BY <1>1, MinuteAssumption, SMT
<1> HIDE DEF r, full, limit
<1>4. bucket' = [capacity |-> limit, tokens |-> IF r.tokens > full THEN full ELSE r.tokens, last |-> now]
  BY <1>2 DEF AdjustLimit, SetCapacity, Trimmed, Refilled, Sound, BucketType, r, full, limit
<1>5. bucket'.tokens <= r.tokens /\ bucket'.tokens \in Nat /\ bucket'.tokens <= full
  BY <1>2, <1>3, <1>4 DEF Refilled, Sound, BucketType
<1>6. Sound(bucket', now)
  BY <1>1, <1>4, <1>5 DEF Sound, BucketType, full
<1>7. bucket'.tokens <= bucket.tokens + (now - bucket.last) * Highest
  <2>1. bucket.tokens + (now - bucket.last) * Highest \in Int /\ r.tokens \in Int
    BY <1>1, <1>2, SMT DEF Refilled, Sound, BucketType
  <2>2. QED
    BY <1>2, <1>5, <2>1 DEF Refilled
<1>8. QED
  BY <1>4, <1>6, <1>7, LimiterRefilled DEF AdjustLimit, Refilled

LEMMA RefusalKeepsLimiter ==
  ASSUME LimiterInv, NEW w \in Workers, RateLimited(w)
  PROVE  LimiterInv'
<1>1. Refilled(bucket, bucket', now)
  BY HighestLimit, RefillFacts DEF LimiterInv, RateLimited
<1>2. QED
  BY <1>1, LimiterRefilled DEF RateLimited

LEMMA TokenKeepsLimiter ==
  ASSUME LimiterInv, NEW w \in Workers, AllowToken(w)
  PROVE  LimiterInv'
<1> DEFINE r == Refill(bucket, now)
<1>1. /\ Highest \in Nat /\ Highest' = Highest /\ now \in Nat /\ Sound(bucket, now) /\ taken \in Seq(Nat)
      /\ taken' = Append(taken, now) /\ UNCHANGED <<scenario, live, now>>
  BY HighestLimit DEF LimiterInv, AllowToken, Highest
<1>2. Refilled(bucket, r, now)
  BY <1>1, RefillFacts
<1>3. r.tokens >= Minute /\ bucket' = [r EXCEPT !.tokens = @ - Minute]
  BY DEF AllowToken, HasToken, TakeToken
<1>4. Sound(bucket', now) /\ bucket'.last = now
  <2>1. bucket' = [capacity |-> r.capacity, tokens |-> r.tokens - Minute, last |-> now]
    BY <1>2, <1>3 DEF Refilled, Sound, BucketType
  <2>2. /\ r.capacity \in Nat /\ r.capacity <= Highest /\ r.tokens \in Nat
        /\ r.tokens <= r.capacity * Minute /\ r.capacity * Minute \in Int
    BY <1>2, MinuteAssumption, SMT DEF Refilled, Sound, BucketType
  <2>3. r.tokens - Minute \in Nat /\ r.tokens - Minute <= r.capacity * Minute
    BY <1>3, <2>2, MinuteAssumption
  <2>4. QED
    BY <1>1, <2>1, <2>2, <2>3 DEF Sound, BucketType
<1>5. ASSUME NEW t \in Nat PROVE Accounted(bucket', Cardinality(TakenIn(t)'), t)
  <2> DEFINE n == Cardinality(TakenIn(t))
  <2>1. n \in Nat /\ IsFiniteSet(TakenIn(t))
    BY <1>1, TakenFinite
  <2>2. bucket.last < t => n = 0
    <3>1. bucket.last < t => TakenIn(t) = {}
      BY DEF LimiterInv, TakenIn, Sound, BucketType
    <3>2. QED
      BY <3>1, FS_EmptySet
  <2>3. Accounted(r, n, t)
    BY <1>1, <1>2, <2>1, <2>2, LaterAccounted DEF LimiterInv
  <2>4. Cardinality(TakenIn(t)') = IF now \in t .. t + Minute - 1 THEN n + 1 ELSE n
    <3>1. /\ Len(taken) \in Nat /\ Len(taken') = Len(taken) + 1 /\ taken'[Len(taken) + 1] = now
          /\ \A i \in DOMAIN taken : taken'[i] = taken[i]
          /\ DOMAIN taken = 1 .. Len(taken) /\ DOMAIN taken' = 1 .. Len(taken) + 1
      BY <1>1
    <3>2. TakenIn(t)' = IF now \in t .. t + Minute - 1 THEN TakenIn(t) \cup {Len(taken) + 1} ELSE TakenIn(t)
      BY <3>1 DEF TakenIn
    <3>3. Len(taken) + 1 \notin TakenIn(t)
      BY <3>1 DEF TakenIn
    <3>4. QED
      BY <2>1, <3>2, <3>3, FS_AddElement
  <2>5. QED
    BY <1>1, <1>2, <1>3, <2>1, <2>3, <2>4, TokenAccounted DEF Refilled
<1>6. \A i \in DOMAIN taken' : taken'[i] <= now
  BY <1>1, <1>4 DEF LimiterInv, Sound, BucketType
<1>7. \A t \in Nat : Accounted(bucket, Cardinality(TakenIn(t)), t)'
  BY <1>1, <1>5 DEF Accounted, Left, Inflow
<1>8. Sound(bucket, now)'
  BY <1>1, <1>4 DEF Sound, BucketType
<1>9. taken' \in Seq(Nat)
  BY <1>1
<1>10. QED
  BY <1>1, <1>4, <1>6, <1>7, <1>8, <1>9 DEF LimiterInv

\* Of all that a call of handleChat does, three steps touch the limiter.
LEMMA ChatKeepsLimiter ==
  ASSUME LimiterInv, LimitsRead, NEW w \in Workers, Chat(w)
  PROVE  LimiterInv'
<1>1. ASSUME UNCHANGED <<scenario, live, bucket, now, taken>> PROVE LimiterInv'
  BY <1>1, LimiterUntouched DEF LimiterInv
<1>2. CASE \/ \E r \in scenario.traffic : Arrive(w, r)
           \/ Bearer(w) \/ BearerRefused(w) \/ NoBearer(w) \/ HeadersRefused(w) \/ HeadersPass(w)
           \/ Resolve_(w) \/ ResolveRefused(w) \/ BadBody(w) \/ ReadLimit(w) \/ AllowUnlimited(w)
  <2>1. CASE \E r \in scenario.traffic : Arrive(w, r)
    BY <1>1, <2>1 DEF Arrive, outside
  <2>2. CASE Bearer(w) \/ BearerRefused(w) \/ NoBearer(w)
    BY <1>1, <2>2 DEF Bearer, BearerRefused, NoBearer, outside
  <2>3. CASE HeadersRefused(w) \/ HeadersPass(w) \/ Resolve_(w)
    BY <1>1, <2>3 DEF HeadersRefused, HeadersPass, Resolve_, outside
  <2>4. CASE ResolveRefused(w) \/ BadBody(w) \/ ReadLimit(w) \/ AllowUnlimited(w)
    BY <1>1, <2>4 DEF ResolveRefused, BadBody, ReadLimit, AllowUnlimited, outside
  <2>5. QED
    BY <1>2, <2>1, <2>2, <2>3, <2>4
<1>3. CASE Sync(w) \/ MaskConfig(w) \/ MaskingFails(w) \/ GuardConfig(w) \/ GuardRefuses(w) \/ GuardNext(w)
  <2>1. CASE Sync(w) \/ MaskConfig(w) \/ MaskingFails(w)
    BY <1>1, <2>1 DEF Sync, MaskConfig, MaskingFails, outside
  <2>2. CASE GuardConfig(w) \/ GuardRefuses(w) \/ GuardNext(w)
    BY <1>1, <2>2 DEF GuardConfig, GuardReads, GuardRefuses, GuardNext, outside
  <2>3. QED
    BY <1>3, <2>1, <2>2
<1>4. CASE Complete(w) \/ CompleteFails(w) \/ RestoreAnswer(w) \/ Return(w)
  BY <1>1, <1>4 DEF Complete, CompleteFails, RestoreAnswer, Return, outside
<1>5. CASE MaskNext(w)
  <2>1. UNCHANGED outside
    BY <1>5, Zenon DEF MaskNext
  <2>2. QED
    BY <1>1, <2>1 DEF outside
<1>6. QED
  BY <1>2, <1>3, <1>4, <1>5, AdjustKeepsLimiter, TokenKeepsLimiter, RefusalKeepsLimiter DEF Chat

LEMMA NextKeepsLimiter ==
  ASSUME LimiterInv, LimitsRead, [Next]_vars
  PROVE  LimiterInv'
<1>1. CASE Reconfigure
  BY <1>1, LimiterUntouched DEF Reconfigure, LimiterInv
<1>2. CASE Publish \/ UNCHANGED vars
  BY <1>2, LimiterUntouched DEF Publish, vars, LimiterInv
<1>3. CASE Tick
  BY <1>3, LimiterUntouched DEF Tick, LimiterInv
<1>4. QED
  BY <1>1, <1>2, <1>3, ChatKeepsLimiter DEF Next

-----------------------------------------------------------------------------
(* Retry-After *)

\* int(1/rate + 0.999): that many seconds bring a whole token.
LEMMA RetryBringsToken ==
  ASSUME NEW b \in BucketType, b.capacity > 0
  PROVE  RetryAfter(b) \in Nat /\ RetryAfter(b) >= 1 /\ RetryAfter(b) * b.capacity >= Minute
<1>1. b.capacity \in Nat /\ b.capacity > 0 /\ Minute \in Nat /\ Minute > 0
  BY MinuteAssumption DEF BucketType
<1>2. CASE b.capacity > Minute
  BY <1>1, <1>2 DEF RetryAfter
<1>3. CASE b.capacity <= Minute
  <2> DEFINE c == b.capacity
             q == (Minute + c - 1) \div c
  <2>1. RetryAfter(b) = q
    BY <1>1, <1>3 DEF RetryAfter
  <2>2. q \in Int /\ c * q <= Minute + c - 1 /\ Minute + c - 1 < c * q + c
    <3>1. Minute + c - 1 \in Int
      BY <1>1
    <3> HIDE DEF c
    <3>2. QED
      BY <1>1, <3>1, SMT DEF c
  <2>3. q >= 1
    <3>1. SUFFICES ASSUME q <= 0 PROVE FALSE
      BY <2>2
    <3>2. c * q <= 0
      BY <1>1, <2>2, <3>1, SMT
    <3>3. QED
      BY <1>1, <2>2, <3>2, SMT
  <2>4. c * q >= Minute /\ c * q = q * c
    BY <1>1, <2>2, SMT
  <2>5. QED
    BY <2>1, <2>2, <2>3, <2>4
<1>4. QED
  BY <1>1, <1>2, <1>3

-----------------------------------------------------------------------------
(* What the detectors and the filter make of a text *)

Loose == [start : Nat, end : Nat, type : Types \cup {NoRule}, conf : Int]
Spotted == [start : Nat, end : Nat, type : Types, conf : Int]

\* Every word of a type that is looked for is reported.
LEMMA DetectFinds ==
  ASSUME NEW rules, NEW text \in Seq(Words)
  PROVE  /\ Detect(rules, text) \in Seq(Spotted)
         /\ \A i \in 1 .. Len(text) :
              TypeOf[text[i]] \in Types /\ Detectable(rules, TypeOf[text[i]]) =>
                \E k \in 1 .. Len(Detect(rules, text)) : Detect(rules, text)[k] = WordSpan(text, i)
<1> DEFINE words == [i \in DOMAIN text |-> WordSpan(text, i)]
           S == {s \in ToSet(words) : s.type # NoRule /\ Detectable(rules, s.type)}
           found == Among(words, S)
<1>0. DOMAIN text = 1 .. Len(text) /\ Len(text) \in Nat /\ DOMAIN words = 1 .. Len(text)
  OBVIOUS
<1>1. ASSUME NEW i \in 1 .. Len(text)
      PROVE  /\ words[i] = WordSpan(text, i) /\ words[i] \in Loose
             /\ words[i].type = TypeOf[text[i]]
  <2>1. text[i] \in Words
    BY <1>0
  <2>2. TypeOf[text[i]] \in Types \cup {NoRule}
    BY <2>1, WordsAssumption
  <2>3. i - 1 \in Nat /\ i \in Nat
    BY <1>0
  <2> QED
    BY <1>0, <2>2, <2>3 DEF WordSpan, Loose
<1>2. words \in Seq(Loose) /\ Len(words) = Len(text)
  <2>1. words \in [1 .. Len(text) -> Loose]
    BY <1>0, <1>1
  <2> HIDE DEF words
  <2> QED
    BY <1>0, <2>1
<1>3. Detect(rules, text) = found
  BY DEF Detect
<1>4. \A i \in 1 .. Len(text) : words[i] \in ToSet(words)
  BY <1>0 DEF ToSet
<1>8. \A s : s \in S <=> s \in ToSet(words) /\ s.type # NoRule /\ Detectable(rules, s.type)
  OBVIOUS
<1> HIDE DEF words, S
<1>5. /\ found \in Seq(Loose) /\ \A k \in 1 .. Len(found) : found[k] \in S
      /\ \A i \in 1 .. Len(words) : words[i] \in S => \E k \in 1 .. Len(found) : found[k] = words[i]
  BY <1>2, AmongSelects, AmongHas
<1>6. found \in Seq(Spotted)
  <2>1. ASSUME NEW k \in 1 .. Len(found) PROVE found[k] \in Spotted
    <3>1. found[k] \in Loose /\ found[k].type # NoRule
      BY <1>5, <1>8
    <3> QED
      BY <3>1 DEF Loose, Spotted
  <2> HIDE DEF found
  <2>2. found \in [1 .. Len(found) -> Spotted] /\ Len(found) \in Nat
    BY <1>5, <2>1
  <2> QED
    BY <2>2
<1>7. ASSUME NEW i \in 1 .. Len(text), TypeOf[text[i]] \in Types, Detectable(rules, TypeOf[text[i]])
      PROVE  \E k \in 1 .. Len(found) : found[k] = WordSpan(text, i)
  <2>1. words[i].type # NoRule /\ Detectable(rules, words[i].type)
    BY <1>1, <1>7, WordsAssumption
  <2>2. words[i] \in S
    BY <1>4, <1>8, <2>1
  <2> QED
    BY <1>1, <1>2, <1>5, <2>2
<1> QED
  BY <1>3, <1>6, <1>7

\* The filter keeps what is sure enough and needs nobody to vouch for it.
LEMMA FilterKeeps ==
  ASSUME NEW U, NEW seq \in Seq(U), NEW rules, NEW custom
  PROVE  /\ Filter(rules, custom, seq) \in Seq(U)
         /\ \A k \in 1 .. Len(seq) :
              KeepSpan(rules, custom, seq[k]) /\ Vouched(rules, seq[k], <<>>) =>
                \E j \in 1 .. Len(Filter(rules, custom, seq)) : Filter(rules, custom, seq)[j] = seq[k]
<1> DEFINE S == {s \in ToSet(seq) : KeepSpan(rules, custom, s)}
           kept == Among(seq, S)
           T == {s \in ToSet(kept) : Vouched(rules, s, kept)}
           last == Among(kept, T)
<1>1. Filter(rules, custom, seq) = last
  BY DEF Filter
<1>5. \A s : s \in S <=> s \in ToSet(seq) /\ KeepSpan(rules, custom, s)
  OBVIOUS
<1>6. \A s : s \in T <=> s \in ToSet(kept) /\ Vouched(rules, s, kept)
  OBVIOUS
<1> HIDE DEF S, T
<1>2. /\ kept \in Seq(U)
      /\ \A i \in 1 .. Len(seq) : seq[i] \in S => \E k \in 1 .. Len(kept) : kept[k] = seq[i]
  BY AmongSelects, AmongHas
<1> HIDE DEF kept
<1>3. /\ last \in Seq(U)
      /\ \A i \in 1 .. Len(kept) : kept[i] \in T => \E k \in 1 .. Len(last) : last[k] = kept[i]
  BY <1>2, AmongSelects, AmongHas
<1> HIDE DEF last
<1>4. ASSUME NEW k \in 1 .. Len(seq), KeepSpan(rules, custom, seq[k]), Vouched(rules, seq[k], <<>>)
      PROVE  \E j \in 1 .. Len(last) : last[j] = seq[k]
  <2>1. seq[k] \in S
    BY <1>4, <1>5 DEF ToSet
  <2>2. PICK i \in 1 .. Len(kept) : kept[i] = seq[k]
    BY <1>2, <2>1
  <2>3. kept[i] \in ToSet(kept)
    BY <1>2, <2>2 DEF ToSet
  <2>4. Vouched(rules, kept[i], kept)
    BY <1>4, <2>2 DEF Vouched
  <2> QED
    BY <1>3, <1>6, <2>2, <2>3, <2>4
<1> QED
  BY <1>1, <1>3, <1>4

-----------------------------------------------------------------------------
(* What Apply writes is a text *)

Noted ==
  [type : Types, start : Nat, end : Nat, maskStart : Nat, maskEnd : Nat,
   original : Seq(Words), masked : Seq(Words)]
Writing(text) == [out : Seq(Words), cursor : 0 .. Len(text), reps : Seq(Noted)]
Nothing == [out |-> <<>>, cursor |-> 0, reps |-> <<>>]
Uniform(strategy) == [t \in Types |-> strategy]

LEMMA ReplaceWrites ==
  ASSUME NEW text \in Seq(Words), NEW strategy, Written(strategy, text),
         NEW acc \in Writing(text), NEW s \in Spotted
  PROVE  Replace(text, Uniform(strategy), acc, s) \in Writing(text)
<1> DEFINE m == MaskOf(Uniform(strategy)[s.type], s.type, Slice(text, s.start, s.end))
           between == Slice(text, acc.cursor, s.start)
           front == acc.out \o between
           r == [type |-> s.type, start |-> s.start, end |-> s.end,
                 maskStart |-> Len(front), maskEnd |-> Len(front) + Len(m),
                 original |-> Slice(text, s.start, s.end), masked |-> m]
<1>0. /\ s.start \in Nat /\ s.end \in Nat /\ s.type \in Types /\ Len(text) \in Nat
      /\ acc.cursor \in 0 .. Len(text) /\ acc.out \in Seq(Words) /\ acc.reps \in Seq(Noted)
  BY DEF Spotted, Writing
<1>1. CASE Droppable(text, acc.cursor, s)
  BY <1>1 DEF Replace
<1>2. CASE ~Droppable(text, acc.cursor, s)
  <2>1. /\ acc.cursor <= s.start /\ s.start < s.end /\ s.end <= Len(text)
        /\ acc.cursor \in Nat /\ s.start <= s.end /\ s.start <= Len(text)
    BY <1>0, <1>2 DEF Droppable
  <2>2. m \in Seq(Words)
    <3>1. Uniform(strategy)[s.type] = strategy
      BY <1>0 DEF Uniform
    <3>2. s.start \in 0 .. Len(text) /\ s.end \in 0 .. Len(text)
      BY <1>0, <2>1
    <3> QED
      BY <1>0, <2>1, <3>1, <3>2 DEF Written
  <2>3. between \in Seq(Words) /\ Slice(text, s.start, s.end) \in Seq(Words)
    BY <1>0, <2>1, SliceIs
  <2>4. Replace(text, Uniform(strategy), acc, s)
          = [out |-> front \o m, cursor |-> s.end, reps |-> Append(acc.reps, r)]
    BY <1>2 DEF Replace
  <2> HIDE DEF m, between
  <2>5. front \in Seq(Words) /\ Len(front) \in Nat /\ Len(m) \in Nat /\ front \o m \in Seq(Words)
    BY <1>0, <2>2, <2>3
  <2> HIDE DEF front
  <2>6. r \in Noted
    BY <1>0, <2>2, <2>3, <2>5 DEF Noted
  <2> HIDE DEF r
  <2>7. s.end \in 0 .. Len(text) /\ Append(acc.reps, r) \in Seq(Noted)
    BY <1>0, <2>1, <2>6
  <2> QED
    BY <2>4, <2>5, <2>7 DEF Writing
<1> QED
  BY <1>1, <1>2

LEMMA ApplyWrites ==
  ASSUME NEW text \in Seq(Words), NEW strategy, Written(strategy, text), NEW spans \in Seq(Spotted)
  PROVE  Apply(text, spans, Uniform(strategy)).masked \in Seq(Words)
<1> DEFINE pick == Uniform(strategy)
           seq == ByStart(spans)
           n == Len(seq)
           Acc == Writing(text)
           Adds(h) == h = [S \in SUBSET DOMAIN seq |->
                             IF S = {} THEN Nothing
                             ELSE Replace(text, pick, h[S \ {Max(S)}], seq[Max(S)])]
           step == [i \in 1 .. n |-> [acc \in Acc |-> Replace(text, pick, acc, seq[i])]]
           f == CHOOSE h : Adds(h)
           done == f[1 .. n]
<1>1. seq \in Seq(Spotted)
  <2>1. \A s \in Spotted : s.start \in Nat
    BY DEF Spotted
  <2> QED
    BY <2>1, ByStartSorts
<1>2. Apply(text, spans, pick).masked = done.out \o Slice(text, done.cursor, Len(text))
  <2>1. DOMAIN seq = 1 .. n
    BY <1>1
  <2> QED
    BY <2>1 DEF Apply, FoldLeft, MapThenFoldSet, Nothing
<1> HIDE DEF seq, pick
<1>3. n \in Nat /\ DOMAIN seq = 1 .. n /\ \A i \in 1 .. n : seq[i] \in Spotted
  BY <1>1
<1>4. \A acc \in Acc, i \in 1 .. n : Replace(text, pick, acc, seq[i]) \in Acc
  BY <1>3, ReplaceWrites DEF pick
<1>5. Nothing \in Acc
  BY DEF Nothing, Writing
<1>6. step \in [1 .. n -> [Acc -> Acc]]
  BY <1>4
<1>7. \A i \in 1 .. n, acc \in Acc : step[i][acc] = Replace(text, pick, acc, seq[i])
  OBVIOUS
<1> HIDE DEF step, Acc
<1>8. PICK g \in [SUBSET (1 .. n) -> Acc] : FoldsAll(n, g, Nothing, step)
  BY <1>3, <1>5, <1>6, FoldsExist
<1>9. ASSUME NEW S \in SUBSET (1 .. n), S # {}
      PROVE  Max(S) \in 1 .. n /\ S \ {Max(S)} \in SUBSET (1 .. n)
  <2>1. S \subseteq 0 .. n
    OBVIOUS
  <2>2. Max(S) \in S
    BY <1>3, <1>9, <2>1, Greatest
  <2> QED
    BY <2>2
<1>10. Adds(g)
  <2>1. ASSUME NEW S \in SUBSET (1 .. n)
        PROVE  g[S] = IF S = {} THEN Nothing
                      ELSE Replace(text, pick, g[S \ {Max(S)}], seq[Max(S)])
    <3>1. CASE S = {}
      BY <1>8, <3>1 DEF FoldsAll
    <3>2. CASE S # {}
      <4>1. Max(S) \in 1 .. n /\ g[S \ {Max(S)}] \in Acc
        BY <1>9, <3>2
      <4>2. g[S] = step[Max(S)][g[S \ {Max(S)}]]
        BY <1>8, <3>2 DEF FoldsAll
      <4> QED
        BY <1>7, <3>2, <4>1, <4>2
    <3> QED
      BY <3>1, <3>2
  <2> QED
    BY <1>3, <2>1
<1>11. Adds(f)
  <2> HIDE DEF Adds
  <2> QED
    BY <1>10
<1> HIDE DEF f
<1>12. /\ f[{}] = Nothing
       /\ \A S \in SUBSET (1 .. n) : S # {} => f[S] = Replace(text, pick, f[S \ {Max(S)}], seq[Max(S)])
  BY <1>3, <1>11
<1> HIDE DEF Adds
<1>13. \A i \in 0 .. n : f[1 .. i] \in Acc
  <2> DEFINE T == {i \in 0 .. n : f[1 .. i] \in Acc}
  <2>1. 0 \in T
    <3>1. 1 .. 0 = {}
      OBVIOUS
    <3> QED
      BY <1>3, <1>5, <1>12, <3>1
  <2>2. ASSUME NEW i \in 0 .. n - 1, i \in T PROVE i + 1 \in T
    <3>1. i + 1 \in 1 .. n /\ i + 1 \in Nat \ {0} /\ (i + 1) - 1 = i
      BY <1>3
    <3>2. 1 .. i + 1 # {} /\ Max(1 .. i + 1) = i + 1 /\ (1 .. i + 1) \ {i + 1} = 1 .. i
      BY <3>1, LastOf
    <3>3. 1 .. i + 1 \in SUBSET (1 .. n)
      BY <1>3, <3>1
    <3>4. f[1 .. i + 1] = Replace(text, pick, f[1 .. i], seq[i + 1])
      BY <1>12, <3>2, <3>3
    <3>5. f[1 .. i + 1] \in Acc
      BY <1>4, <2>2, <3>1, <3>4
    <3> QED
      BY <3>1, <3>5
  <2> HIDE DEF T
  <2>3. \A i \in 0 .. n : i \in T
    BY <1>3, <2>1, <2>2, UpTo, Zenon
  <2> QED
    BY <2>3 DEF T
<1>14. done.out \in Seq(Words) /\ done.cursor \in 0 .. Len(text)
  <2>1. done \in Acc
    BY <1>3, <1>13
  <2> HIDE DEF done
  <2> QED
    BY <2>1 DEF Acc, Writing
<1> HIDE DEF done
<1>15. Slice(text, done.cursor, Len(text)) \in Seq(Words)
  <2>1. done.cursor \in Nat /\ Len(text) \in Nat /\ done.cursor <= Len(text) /\ Len(text) <= Len(text)
    BY <1>14
  <2> QED
    BY <2>1, SliceIs
<1> QED
  BY <1>2, <1>14, <1>15 DEF pick

-----------------------------------------------------------------------------
(* The leak guard *)

\* The locals of a call keep their fields.
Locals(l) == l = [f \in DOMAIN NoLocals |-> l[f]]
Shaped == pc = [w \in Workers |-> pc[w]] /\ loc = [w \in Workers |-> loc[w]] /\ \A w \in Workers : Locals(loc[w])

Fit(r) == r.messages # Unreadable /\ r.messages # <<>>

\* The guard has passed the first n messages.
Guarded(l, n) ==
  \A m \in 1 .. n : \A i \in 1 .. Len(l.masked[m]) :
    \/ TypeOf[l.masked[m][i]] \notin l.known[m]
    \/ CoveredByMasks([start |-> i - 1, end |-> i], l.reps[m])

\* What a call has in hand at a step.
Blank(l) == l.masked = <<>> /\ l.known = <<>>
MaskedSoFar(l, n) == l.masked \in Seq(Seq(Words)) /\ Len(l.masked) = n
KnownSoFar(l, n) == l.known \in Seq(SUBSET Types) /\ Len(l.known) = n
Knows(at, l) ==
  /\ at # "idle" => l.req \in scenario.traffic
  /\ at \in {"bearer", "headers", "resolve", "decode", "adjust", "allow", "sync", "maskConfig"} => Blank(l)
  /\ at \in {"adjust", "allow", "sync", "maskConfig", "mask", "guardConfig", "guard"} => Fit(l.req)
  /\ at = "adjust" => \E c \in scenario.configs : l.limit = c.perMinute
  /\ at = "mask" =>
       /\ l.conf \in scenario.configs /\ l.next \in 1 .. Len(l.req.messages)
       /\ MaskedSoFar(l, l.next - 1) /\ l.known = <<>>
  /\ at = "guardConfig" => MaskedSoFar(l, Len(l.req.messages)) /\ l.known = <<>>
  /\ at = "guard" =>
       /\ l.seen = l.conf /\ l.next \in 1 .. Len(l.req.messages)
       /\ MaskedSoFar(l, Len(l.req.messages)) /\ KnownSoFar(l, l.next - 1) /\ Guarded(l, l.next - 1)
  /\ at = "complete" =>
       \E n \in Nat : MaskedSoFar(l, n) /\ KnownSoFar(l, n) /\ Guarded(l, n)
GuardInv == Shaped /\ \A w \in Workers : Knows(pc[w], loc[w])

\* Of the locals a step changes what it names.
LEMMA OneChanged ==
  ASSUME NEW l, Locals(l), NEW x
  PROVE  /\ Locals([l EXCEPT !.id = x]) /\ Locals([l EXCEPT !.require = x])
         /\ Locals([l EXCEPT !.sys = x]) /\ Locals([l EXCEPT !.status = x])
BY DEF Locals, NoLocals

LEMMA OneKept ==
  ASSUME NEW l, Locals(l), NEW x
  PROVE  /\ LET k == [l EXCEPT !.id = x] IN k.req = l.req /\ k.masked = l.masked /\ k.known = l.known
         /\ LET k == [l EXCEPT !.require = x] IN k.req = l.req /\ k.masked = l.masked /\ k.known = l.known
         /\ LET k == [l EXCEPT !.sys = x] IN k.req = l.req /\ k.masked = l.masked /\ k.known = l.known
         /\ [l EXCEPT !.status = x].req = l.req
BY DEF Locals, NoLocals

LEMMA FitMessages ==
  ASSUME scenario \in Scenarios, NEW r \in scenario.traffic, Fit(r)
  PROVE  r.messages \in Seq(Seq(Words)) /\ Len(r.messages) \in Nat \ {0}
<1>1. r.messages \in Seq(Seq(Words))
  BY WordsAssumption DEF Fit
<1> QED
  BY <1>1 DEF Fit

\* What a message is masked to is a text.
LEMMA MaskedIsText ==
  ASSUME scenario \in Scenarios, NEW r \in scenario.traffic, Fit(r),
         NEW c \in scenario.configs, NEW n \in 1 .. Len(r.messages), NEW rules, NEW wanted
  PROVE  Apply(r.messages[n], Filter(rules, wanted, Detect(rules, r.messages[n])),
               Uniform(c.strategy)).masked \in Seq(Words)
<1> DEFINE text == r.messages[n]
<1>1. r.messages \in Seq(Seq(Words))
  BY FitMessages
<1>2. text \in Seq(Words) /\ text \in ToSet(r.messages)
  BY <1>1 DEF ToSet
<1>3. Written(c.strategy, text)
  BY <1>2, WordsAssumption DEF Fit
<1>4. Filter(rules, wanted, Detect(rules, text)) \in Seq(Spotted)
  BY <1>2, DetectFinds, FilterKeeps
<1> HIDE DEF text
<1>5. Apply(text, Filter(rules, wanted, Detect(rules, text)), Uniform(c.strategy)).masked \in Seq(Words)
  BY <1>2, <1>3, <1>4, ApplyWrites
<1> QED
  BY <1>5 DEF text

\* A message the guard lets through shows no value of a type in force.
LEMMA GuardSees ==
  ASSUME NEW w \in Workers, loc[w].masked[loc[w].next] \in Seq(Words), ~Leaks(w),
         loc[w].seen = loc[w].conf,
         NEW i \in 1 .. Len(loc[w].masked[loc[w].next]),
         TypeOf[loc[w].masked[loc[w].next][i]] \in InForce(w)
  PROVE  CoveredByMasks([start |-> i - 1, end |-> i], loc[w].reps[loc[w].next])
<1> DEFINE text == loc[w].masked[loc[w].next]
           rules == loc[w].sys.rules
           custom == loc[w].conf.custom
           type == TypeOf[text[i]]
           s == WordSpan(text, i)
           alone == [type |-> type, conf |-> 5]
           spots == Detect(rules, text)
           found == Filter(rules, custom, spots)
           masks == loc[w].reps[loc[w].next]
<1>1. /\ type \in Types /\ Detectable(rules, type)
      /\ KeepSpan(rules, custom, alone) /\ Vouched(rules, alone, <<>>)
  BY DEF InForce
<1>2. s.type = type /\ s.conf = 5 /\ s.start = i - 1 /\ s.end = i
  BY DEF WordSpan
<1>3. ~Leaks(w) => \A k \in DOMAIN found : CoveredByMasks(found[k], masks)
  BY DEF Leaks
<1>4. text \in Seq(Words) /\ i \in 1 .. Len(text)
  OBVIOUS
<1>5. KeepSpan(rules, custom, s) /\ Vouched(rules, s, <<>>)
  <2> HIDE DEF s, rules, custom, type
  <2> QED
    BY <1>1, <1>2 DEF KeepSpan, Vouched
<1> HIDE DEF text, rules, custom, masks, s
<1>6. spots \in Seq(Spotted) /\ \E k \in 1 .. Len(spots) : spots[k] = s
  BY <1>1, <1>4, DetectFinds DEF s
<1> HIDE DEF spots
<1>7. found \in Seq(Spotted) /\ \E j \in 1 .. Len(found) : found[j] = s
  <2>1. PICK k \in 1 .. Len(spots) : spots[k] = s
    BY <1>6
  <2>2. KeepSpan(rules, custom, spots[k]) /\ Vouched(rules, spots[k], <<>>)
    BY <1>5, <2>1
  <2>3. spots \in Seq(Spotted)
    BY <1>6
  <2>4. found \in Seq(Spotted) /\ \E j \in 1 .. Len(found) : found[j] = spots[k]
    BY <2>2, <2>3, FilterKeeps
  <2> QED
    BY <2>1, <2>4
<1> HIDE DEF found
<1>8. CoveredByMasks(s, masks)
  BY <1>3, <1>7
<1>9. CoveredByMasks([start |-> i - 1, end |-> i], masks)
  BY <1>2, <1>8 DEF CoveredByMasks
<1> QED
  BY <1>9 DEF masks

\* Whoever takes no step keeps what it has.
LEMMA StepKeeps ==
  ASSUME GuardInv, NEW w \in Workers, NEW to, NEW l, Locals(l), Knows(to, l),
         scenario' = scenario, pc' = [pc EXCEPT ![w] = to], loc' = [loc EXCEPT ![w] = l]
  PROVE  GuardInv'
<1>1. pc = [v \in Workers |-> pc[v]] /\ loc = [v \in Workers |-> loc[v]]
  BY DEF GuardInv, Shaped
<1>2. ASSUME NEW v \in Workers
      PROVE  pc'[v] = (IF v = w THEN to ELSE pc[v]) /\ loc'[v] = (IF v = w THEN l ELSE loc[v])
  BY <1>1
<1>3. pc' = [v \in Workers |-> pc'[v]] /\ loc' = [v \in Workers |-> loc'[v]]
  BY <1>1
<1>4. ASSUME NEW v \in Workers PROVE Locals(loc'[v]) /\ Knows(pc'[v], loc'[v])
  BY <1>2, Zenon DEF GuardInv, Shaped
<1>5. \A at, k : Knows(at, k)' <=> Knows(at, k)
  BY DEF Knows
<1> QED
  BY <1>3, <1>4, <1>5 DEF GuardInv, Shaped

\* An answer is a status, and nothing is asked of a call that has one.
LEMMA AnswerKeeps ==
  ASSUME GuardInv, NEW w \in Workers, NEW from, NEW status, from # "idle", Answer(w, from, status),
         scenario' = scenario
  PROVE  GuardInv'
<1> DEFINE l == [loc[w] EXCEPT !.status = status]
<1>1. pc[w] = from /\ pc' = [pc EXCEPT ![w] = "answered"] /\ loc' = [loc EXCEPT ![w] = l]
  BY DEF Answer, Goto, Set
<1>2. Locals(loc[w]) /\ Knows(pc[w], loc[w])
  BY DEF GuardInv, Shaped
<1>3. Locals(l) /\ l.req = loc[w].req
  BY <1>2, OneChanged, OneKept
<1>4. Knows("answered", l)
  BY <1>1, <1>2, <1>3 DEF Knows
<1> HIDE DEF l
<1> QED
  BY <1>1, <1>3, <1>4, StepKeeps

\* Up to the limiter nothing is masked yet.
LEMMA ArrivalKeeps ==
  ASSUME GuardInv, NEW w \in Workers, NEW r \in scenario.traffic, Arrive(w, r)
  PROVE  GuardInv'
<1> DEFINE l == [NoLocals EXCEPT !.req = r]
<1>1. scenario' = scenario /\ pc' = [pc EXCEPT ![w] = "bearer"] /\ loc' = [loc EXCEPT ![w] = l]
  BY DEF Arrive, Goto, Set
<1>2. Locals(l) /\ l.req = r /\ l.masked = <<>> /\ l.known = <<>>
  BY DEF Locals, NoLocals
<1> HIDE DEF l
<1>3. Knows("bearer", l)
  BY <1>2 DEF Knows, Blank
<1> QED
  BY <1>1, <1>2, <1>3, StepKeeps

LEMMA AdmissionKeeps ==
  ASSUME GuardInv, NEW w \in Workers,
         Bearer(w) \/ NoBearer(w) \/ HeadersPass(w) \/ Resolve_(w)
  PROVE  GuardInv'
<1>1. Locals(loc[w]) /\ Knows(pc[w], loc[w])
  BY DEF GuardInv, Shaped
<1>2. ASSUME NEW from \in {"bearer", "headers", "resolve"}, NEW to \in {"headers", "resolve", "decode"},
             Goto(w, from, to), NEW l, Locals(l), l.req = loc[w].req, l.masked = loc[w].masked,
             l.known = loc[w].known, Set(w, l), scenario' = scenario
      PROVE  GuardInv'
  <2>1. pc[w] = from /\ pc' = [pc EXCEPT ![w] = to] /\ loc' = [loc EXCEPT ![w] = l]
    BY <1>2 DEF Goto, Set
  <2>2. Knows(to, l)
    BY <1>1, <1>2, <2>1 DEF Knows, Blank
  <2> QED
    BY <1>2, <2>1, <2>2, StepKeeps
<1>3. ASSUME NEW x
      PROVE  /\ LET l == [loc[w] EXCEPT !.id = x]
                IN  Locals(l) /\ l.req = loc[w].req /\ l.masked = loc[w].masked /\ l.known = loc[w].known
             /\ LET l == [loc[w] EXCEPT !.require = x]
                IN  Locals(l) /\ l.req = loc[w].req /\ l.masked = loc[w].masked /\ l.known = loc[w].known
             /\ LET l == [loc[w] EXCEPT !.sys = x]
                IN  Locals(l) /\ l.req = loc[w].req /\ l.masked = loc[w].masked /\ l.known = loc[w].known
  BY <1>1, OneChanged, OneKept, Zenon
<1>4. CASE Bearer(w)
  <2>1. PICK x : Set(w, [loc[w] EXCEPT !.id = x])
    BY <1>4 DEF Bearer
  <2>2. Goto(w, "bearer", "resolve") /\ scenario' = scenario
    BY <1>4 DEF Bearer, outside
  <2> QED
    BY <1>2, <1>3, <2>1, <2>2
<1>5. CASE NoBearer(w)
  <2>1. /\ Set(w, [loc[w] EXCEPT !.require = live.require])
        /\ Goto(w, "bearer", "headers") /\ scenario' = scenario
    BY <1>5 DEF NoBearer, outside
  <2> QED
    BY <1>2, <1>3, <2>1
<1>6. CASE HeadersPass(w)
  <2>1. /\ Set(w, [loc[w] EXCEPT !.id = loc[w].req.header])
        /\ Goto(w, "headers", "resolve") /\ scenario' = scenario
    BY <1>6 DEF HeadersPass, outside
  <2> QED
    BY <1>2, <1>3, <2>1
<1>7. CASE Resolve_(w)
  <2>1. /\ Set(w, [loc[w] EXCEPT !.sys = Resolved(live, loc[w].id)])
        /\ Goto(w, "resolve", "decode") /\ scenario' = scenario
    BY <1>7 DEF Resolve_, outside
  <2> QED
    BY <1>2, <1>3, <2>1
<1> QED
  BY <1>4, <1>5, <1>6, <1>7

LEMMA LimiterStepKeeps ==
  ASSUME GuardInv, LimiterInv, NEW w \in Workers,
         ReadLimit(w) \/ AdjustLimit(w) \/ AllowUnlimited(w) \/ AllowToken(w) \/ Sync(w)
  PROVE  GuardInv'
<1>1. Locals(loc[w]) /\ Knows(pc[w], loc[w]) /\ loc = [loc EXCEPT ![w] = loc[w]]
  BY DEF GuardInv, Shaped
<1>2. ASSUME NEW from \in {"adjust", "allow", "sync"}, NEW to \in {"allow", "sync", "maskConfig"},
             Goto(w, from, to), loc' = loc, scenario' = scenario
      PROVE  GuardInv'
  <2>1. pc[w] = from /\ pc' = [pc EXCEPT ![w] = to] /\ loc' = [loc EXCEPT ![w] = loc[w]]
    BY <1>1, <1>2 DEF Goto
  <2>2. Knows(to, loc[w])
    BY <1>1, <1>2, <2>1 DEF Knows
  <2> QED
    BY <1>1, <1>2, <2>1, <2>2, StepKeeps
<1>3. CASE AdjustLimit(w)
  <2>1. Goto(w, "adjust", "allow") /\ loc' = loc /\ scenario' = scenario
    BY <1>3 DEF AdjustLimit
  <2> QED
    BY <1>2, <2>1
<1>4. CASE AllowUnlimited(w) \/ AllowToken(w)
  <2>1. Goto(w, "allow", "sync") /\ loc' = loc /\ scenario' = scenario
    BY <1>4 DEF AllowUnlimited, AllowToken, outside
  <2> QED
    BY <1>2, <2>1
<1>5. CASE Sync(w)
  <2>1. Goto(w, "sync", "maskConfig") /\ loc' = loc /\ scenario' = scenario
    BY <1>5 DEF Sync
  <2> QED
    BY <1>2, <2>1
<1>6. CASE ReadLimit(w)
  <2> DEFINE l == [loc[w] EXCEPT !.limit = live.perMinute]
  <2>1. /\ pc[w] = "decode" /\ Fit(loc[w].req) /\ scenario' = scenario
        /\ pc' = [pc EXCEPT ![w] = "adjust"] /\ loc' = [loc EXCEPT ![w] = l]
    BY <1>6 DEF ReadLimit, Goto, Set, Fit, outside
  <2>2. /\ Locals(l) /\ l.req = loc[w].req /\ l.masked = loc[w].masked /\ l.known = loc[w].known
        /\ l.limit = live.perMinute
    <3> DEFINE k == loc[w]
    <3>1. Locals(k) /\ l = [k EXCEPT !.limit = live.perMinute]
      BY <1>1
    <3> HIDE DEF k, l
    <3>2. Locals(l)
      BY <3>1 DEF Locals, NoLocals
    <3>3. l.req = k.req /\ l.masked = k.masked /\ l.known = k.known /\ l.limit = live.perMinute
      BY <3>1 DEF Locals, NoLocals
    <3> QED
      BY <3>2, <3>3 DEF k
  <2> HIDE DEF l
  <2>3. Knows("adjust", l)
    BY <1>1, <2>1, <2>2 DEF Knows, Blank, LimiterInv
  <2> QED
    BY <2>1, <2>2, <2>3, StepKeeps
<1> QED
  BY <1>3, <1>4, <1>5, <1>6

\* A configuration read for the masking, or for the guard.
LEMMA ReadConfigKeeps ==
  ASSUME GuardInv, LimiterInv, NEW w \in Workers, MaskConfig(w) \/ GuardConfig(w)
  PROVE  GuardInv'
<1>1. Locals(loc[w]) /\ Knows(pc[w], loc[w])
  BY DEF GuardInv, Shaped
<1>2. CASE MaskConfig(w)
  <2> DEFINE k == loc[w]
             l == [k EXCEPT !.conf = live, !.next = 1]
  <2>1. /\ pc[w] = "maskConfig" /\ pc' = [pc EXCEPT ![w] = "mask"] /\ scenario' = scenario
        /\ loc' = [loc EXCEPT ![w] = l]
    BY <1>2 DEF MaskConfig, Goto, Set, outside
  <2>2. Locals(k) /\ l = [k EXCEPT !.conf = live, !.next = 1]
    BY <1>1
  <2>3. k.req \in scenario.traffic /\ Fit(k.req) /\ Blank(k)
    BY <1>1, <2>1 DEF Knows
  <2> HIDE DEF k, l
  <2>4. Locals(l)
    BY <2>2 DEF Locals, NoLocals
  <2>5. l.req = k.req /\ l.masked = k.masked /\ l.known = k.known /\ l.conf = live /\ l.next = 1
    BY <2>2 DEF Locals, NoLocals
  <2>6. 1 \in 1 .. Len(l.req.messages)
    BY <2>3, <2>5, FitMessages DEF LimiterInv
  <2>7. MaskedSoFar(l, l.next - 1) /\ l.known = <<>>
    BY <2>3, <2>5 DEF Blank, MaskedSoFar
  <2>8. Knows("mask", l)
    BY <2>3, <2>5, <2>6, <2>7 DEF Knows, LimiterInv
  <2> QED
    BY <2>1, <2>4, <2>8, StepKeeps
<1>3. CASE GuardConfig(w)
  <2> DEFINE k == loc[w]
             l == [k EXCEPT !.conf = live, !.next = 1, !.seen = live]
  <2>1. /\ pc[w] = "guardConfig" /\ pc' = [pc EXCEPT ![w] = "guard"] /\ scenario' = scenario
        /\ loc' = [loc EXCEPT ![w] = l]
    BY <1>3 DEF GuardConfig, GuardReads, Goto, Set, outside
  <2>2. Locals(k) /\ l = [k EXCEPT !.conf = live, !.next = 1, !.seen = live]
    BY <1>1
  <2>3. /\ k.req \in scenario.traffic /\ Fit(k.req)
        /\ MaskedSoFar(k, Len(k.req.messages)) /\ k.known = <<>>
    BY <1>1, <2>1 DEF Knows
  <2> HIDE DEF k, l
  <2>4. Locals(l)
    BY <2>2 DEF Locals, NoLocals
  <2>5. /\ l.req = k.req /\ l.masked = k.masked /\ l.known = k.known
        /\ l.conf = live /\ l.seen = live /\ l.next = 1
    BY <2>2 DEF Locals, NoLocals
  <2>6. 1 \in 1 .. Len(l.req.messages)
    BY <2>3, <2>5, FitMessages DEF LimiterInv
  <2>7. MaskedSoFar(l, Len(l.req.messages)) /\ KnownSoFar(l, l.next - 1) /\ Guarded(l, l.next - 1)
    BY <2>3, <2>5 DEF MaskedSoFar, KnownSoFar, Guarded
  <2>8. Knows("guard", l)
    BY <2>3, <2>5, <2>6, <2>7 DEF Knows
  <2> QED
    BY <2>1, <2>4, <2>8, StepKeeps
<1> QED
  BY <1>2, <1>3

LEMMA MaskingKeeps ==
  ASSUME GuardInv, LimiterInv, NEW w \in Workers, MaskNext(w)
  PROVE  GuardInv'
<1> DEFINE r == loc[w].req
           n == loc[w].next
           text == r.messages[n]
           rules == loc[w].sys.rules
           out == Apply(text, Filter(rules, loc[w].conf.custom, Detect(rules, text)),
                        Uniform(loc[w].conf.strategy))
           to == IF n < Len(r.messages) THEN "mask" ELSE "guardConfig"
           masked == Append(loc[w].masked, out.masked)
           reps == Append(loc[w].reps, out.reps)
           l == [loc[w] EXCEPT !.masked = masked, !.reps = reps, !.next = n + 1]
<1>1. Locals(loc[w]) /\ Knows(pc[w], loc[w])
  BY DEF GuardInv, Shaped
<1>2. pc[w] = "mask" /\ pc' = [pc EXCEPT ![w] = to] /\ loc' = [loc EXCEPT ![w] = l] /\ scenario' = scenario
  BY Zenon DEF MaskNext, Goto, Set, Messages, Uniform, outside
<1>3. /\ r \in scenario.traffic /\ Fit(r) /\ loc[w].conf \in scenario.configs
      /\ n \in 1 .. Len(r.messages) /\ MaskedSoFar(loc[w], n - 1) /\ loc[w].known = <<>>
  BY <1>1, <1>2 DEF Knows
<1>4. r.messages \in Seq(Seq(Words)) /\ Len(r.messages) \in Nat
  BY <1>3, FitMessages DEF LimiterInv
<1>9. n \in Nat \ {0} /\ n <= Len(r.messages)
  <2> DEFINE last == Len(r.messages)
  <2>1. last \in Nat /\ n \in 1 .. last
    BY <1>3, <1>4
  <2> HIDE DEF last, n
  <2>2. n \in Nat \ {0} /\ n <= last
    BY <2>1
  <2> QED
    BY <2>2 DEF last
<1>5. out.masked \in Seq(Words)
  BY <1>3, MaskedIsText DEF LimiterInv
<1>6. masked \in Seq(Seq(Words)) /\ Len(masked) = n
  <2> HIDE DEF out, n
  <2>1. loc[w].masked \in Seq(Seq(Words)) /\ Len(loc[w].masked) = n - 1 /\ n \in Int
    BY <1>3, <1>4 DEF MaskedSoFar
  <2> QED
    BY <1>5, <2>1
<1> HIDE DEF masked, reps
<1>a. l = [loc[w] EXCEPT !.masked = masked, !.reps = reps, !.next = n + 1]
  OBVIOUS
<1> HIDE DEF l
<1>7. /\ Locals(l) /\ l.req = r /\ l.masked = masked /\ l.known = loc[w].known
      /\ l.conf = loc[w].conf /\ l.next = n + 1
  <2> DEFINE k == loc[w]
  <2>1. Locals(k) /\ l = [k EXCEPT !.masked = masked, !.reps = reps, !.next = n + 1]
    BY <1>1, <1>a
  <2>4. r = k.req
    OBVIOUS
  <2> HIDE DEF k, n, r
  <2>2. Locals(l)
    BY <2>1 DEF Locals, NoLocals
  <2>3. l.req = k.req /\ l.masked = masked /\ l.known = k.known /\ l.conf = k.conf /\ l.next = n + 1
    BY <2>1 DEF Locals, NoLocals
  <2> QED
    BY <2>2, <2>3, <2>4 DEF k
<1>8. Knows(to, l)
  <2>1. CASE n < Len(r.messages)
    <3> DEFINE last == Len(r.messages)
    <3>0. last \in Nat /\ n \in Nat /\ n < last
      BY <1>4, <1>9, <2>1
    <3> HIDE DEF last, n
    <3>a. n + 1 \in 1 .. last /\ (n + 1) - 1 = n
      BY <3>0
    <3>1. n + 1 \in 1 .. Len(r.messages) /\ (n + 1) - 1 = n
      BY <3>a DEF last
    <3>2. to = "mask" /\ l.next - 1 = n /\ l.next \in 1 .. Len(l.req.messages)
      BY <1>7, <2>1, <3>1
    <3>3. MaskedSoFar(l, l.next - 1) /\ l.known = <<>>
      BY <1>3, <1>6, <1>7, <3>2 DEF MaskedSoFar
    <3> HIDE DEF to, r, n
    <3> QED
      BY <1>3, <1>7, <3>2, <3>3 DEF Knows
  <2>2. CASE ~(n < Len(r.messages))
    <3>1. n = Len(r.messages)
      BY <1>4, <1>9, <2>2
    <3>2. to = "guardConfig" /\ MaskedSoFar(l, Len(l.req.messages)) /\ l.known = <<>>
      BY <1>3, <1>6, <1>7, <2>2, <3>1 DEF MaskedSoFar
    <3> HIDE DEF to, r, n
    <3> QED
      BY <1>3, <1>7, <3>2 DEF Knows
  <2> QED
    BY <2>1, <2>2
<1> HIDE DEF to
<1> QED
  BY <1>2, <1>7, <1>8, StepKeeps

LEMMA GuardPasses ==
  ASSUME GuardInv, LimiterInv, NEW w \in Workers, GuardNext(w)
  PROVE  GuardInv'
<1> DEFINE r == loc[w].req
           n == loc[w].next
           force == InForce(w)
           known == Append(loc[w].known, force)
           to == IF n < Len(r.messages) THEN "guard" ELSE "complete"
           l == [loc[w] EXCEPT !.next = n + 1, !.known = known]
<1>1. Locals(loc[w]) /\ Knows(pc[w], loc[w])
  BY DEF GuardInv, Shaped
<1>2. /\ pc[w] = "guard" /\ pc' = [pc EXCEPT ![w] = to] /\ loc' = [loc EXCEPT ![w] = l]
      /\ scenario' = scenario /\ ~Leaks(w)
  BY Zenon DEF GuardNext, Goto, Set, Messages, outside
<1>3. /\ r \in scenario.traffic /\ Fit(r) /\ n \in 1 .. Len(r.messages)
      /\ MaskedSoFar(loc[w], Len(r.messages)) /\ KnownSoFar(loc[w], n - 1) /\ Guarded(loc[w], n - 1)
      /\ loc[w].seen = loc[w].conf
  BY <1>1, <1>2 DEF Knows
<1>4. Len(r.messages) \in Nat /\ n \in Nat \ {0} /\ n <= Len(r.messages)
  BY <1>3, FitMessages DEF LimiterInv
<1>5. /\ loc[w].masked \in Seq(Seq(Words)) /\ Len(loc[w].masked) = Len(r.messages)
      /\ loc[w].known \in Seq(SUBSET Types) /\ Len(loc[w].known) = n - 1
  BY <1>3 DEF MaskedSoFar, KnownSoFar
<1>6. loc[w].masked[n] \in Seq(Words)
  BY <1>4, <1>5
<1>7. force \in SUBSET Types
  BY DEF InForce
<1>8. \A i \in 1 .. Len(loc[w].masked[n]) :
        \/ TypeOf[loc[w].masked[n][i]] \notin force
        \/ CoveredByMasks([start |-> i - 1, end |-> i], loc[w].reps[n])
  BY <1>2, <1>3, <1>6, GuardSees
<1> HIDE DEF force
<1>9. /\ known \in Seq(SUBSET Types) /\ Len(known) = n /\ known[n] = force
      /\ \A m \in 1 .. n - 1 : known[m] = loc[w].known[m]
  <2> DEFINE U == SUBSET Types
  <2>1. loc[w].known \in Seq(U) /\ Len(loc[w].known) = n - 1 /\ force \in U /\ n \in Nat \ {0}
    BY <1>4, <1>5, <1>7
  <2> HIDE DEF n, U
  <2>2. /\ known \in Seq(U) /\ Len(known) = n /\ known[n] = force
        /\ \A m \in 1 .. n - 1 : known[m] = loc[w].known[m]
    BY <2>1
  <2> QED
    BY <2>2 DEF U
<1> HIDE DEF known
<1>a. l = [loc[w] EXCEPT !.next = n + 1, !.known = known]
  OBVIOUS
<1> HIDE DEF l
<1>10. /\ Locals(l) /\ l.req = r /\ l.masked = loc[w].masked /\ l.reps = loc[w].reps
       /\ l.known = known /\ l.next = n + 1 /\ l.seen = loc[w].seen /\ l.conf = loc[w].conf
  <2> DEFINE k == loc[w]
  <2>1. Locals(k) /\ l = [k EXCEPT !.next = n + 1, !.known = known]
    BY <1>1, <1>a
  <2>4. r = k.req
    OBVIOUS
  <2> HIDE DEF k, n, r
  <2>2. Locals(l)
    BY <2>1 DEF Locals, NoLocals
  <2>3. /\ l.req = k.req /\ l.masked = k.masked /\ l.reps = k.reps /\ l.known = known
        /\ l.next = n + 1 /\ l.seen = k.seen /\ l.conf = k.conf
    BY <2>1 DEF Locals, NoLocals
  <2> QED
    BY <2>2, <2>3, <2>4 DEF k
<1> HIDE DEF r
<1>11. Guarded(l, n)
  <2> SUFFICES ASSUME NEW m \in 1 .. n, NEW i \in 1 .. Len(l.masked[m])
               PROVE  \/ TypeOf[l.masked[m][i]] \notin l.known[m]
                      \/ CoveredByMasks([start |-> i - 1, end |-> i], l.reps[m])
    BY DEF Guarded
  <2>1. CASE m = n
    BY <1>8, <1>9, <1>10, <2>1
  <2>2. CASE m # n
    <3>1. m \in 1 .. n - 1
      BY <1>4, <2>2
    <3> QED
      BY <1>3, <1>9, <1>10, <3>1 DEF Guarded
  <2> QED
    BY <2>1, <2>2
<1> HIDE DEF n
<1>12. MaskedSoFar(l, Len(r.messages)) /\ KnownSoFar(l, n)
  BY <1>5, <1>9, <1>10 DEF MaskedSoFar, KnownSoFar
<1>13. Knows(to, l)
  <2>1. CASE n < Len(r.messages)
    <3>1. to = "guard" /\ l.next \in 1 .. Len(l.req.messages) /\ l.next - 1 = n
      BY <1>4, <1>10, <2>1
    <3> HIDE DEF to
    <3> QED
      BY <1>3, <1>10, <1>11, <1>12, <3>1 DEF Knows
  <2>2. CASE ~(n < Len(r.messages))
    <3>1. to = "complete" /\ n = Len(r.messages) /\ n \in Nat
      BY <1>4, <2>2
    <3>2. MaskedSoFar(l, n) /\ KnownSoFar(l, n) /\ Guarded(l, n)
      BY <1>11, <1>12, <3>1
    <3> HIDE DEF to
    <3> QED
      BY <1>3, <1>10, <3>1, <3>2 DEF Knows
  <2> QED
    BY <2>1, <2>2
<1> HIDE DEF to
<1> QED
  BY <1>2, <1>10, <1>13, StepKeeps

\* After the model was called nothing more is asked of a call.
LEMMA AnsweringKeeps ==
  ASSUME GuardInv, NEW w \in Workers, Complete(w) \/ RestoreAnswer(w) \/ RateLimited(w) \/ Return(w)
  PROVE  GuardInv'
<1>1. Locals(loc[w]) /\ Knows(pc[w], loc[w])
  BY DEF GuardInv, Shaped
<1>2. ASSUME NEW from \in {"complete", "restore", "allow"}, NEW to \in {"restore", "answered"},
             Goto(w, from, to), NEW l, Locals(l), l.req = loc[w].req, Set(w, l), scenario' = scenario
      PROVE  GuardInv'
  <2>1. pc[w] = from /\ pc' = [pc EXCEPT ![w] = to] /\ loc' = [loc EXCEPT ![w] = l]
    BY <1>2 DEF Goto, Set
  <2>2. Knows(to, l)
    BY <1>1, <1>2, <2>1 DEF Knows
  <2> QED
    BY <1>2, <2>1, <2>2, StepKeeps
<1>3. CASE Complete(w)
  <2>1. PICK order, r : Set(w, [loc[w] EXCEPT !.answer = r.text, !.quote = order, !.whole = r.whole])
    BY <1>3 DEF Complete
  <2>2. Goto(w, "complete", "restore") /\ scenario' = scenario
    BY <1>3 DEF Complete, outside
  <2> DEFINE l == [loc[w] EXCEPT !.answer = r.text, !.quote = order, !.whole = r.whole]
  <2>a. l = [loc[w] EXCEPT !.answer = r.text, !.quote = order, !.whole = r.whole]
    OBVIOUS
  <2> HIDE DEF l
  <2>3. Locals(l) /\ l.req = loc[w].req
    <3> DEFINE k == loc[w]
    <3>1. Locals(k) /\ l = [k EXCEPT !.answer = r.text, !.quote = order, !.whole = r.whole]
      BY <1>1, <2>a
    <3> HIDE DEF k
    <3>2. Locals(l)
      BY <3>1 DEF Locals, NoLocals
    <3>3. l.req = k.req
      BY <3>1 DEF Locals, NoLocals
    <3> QED
      BY <3>2, <3>3 DEF k
  <2> QED
    BY <1>2, <2>1, <2>2, <2>3 DEF l
<1>4. CASE RestoreAnswer(w)
  <2>1. PICK text : Set(w, [loc[w] EXCEPT !.answer = text, !.status = 200])
    BY <1>4 DEF RestoreAnswer
  <2>2. Goto(w, "restore", "answered") /\ scenario' = scenario
    BY <1>4 DEF RestoreAnswer, outside
  <2> DEFINE l == [loc[w] EXCEPT !.answer = text, !.status = 200]
  <2>a. l = [loc[w] EXCEPT !.answer = text, !.status = 200]
    OBVIOUS
  <2> HIDE DEF l
  <2>3. Locals(l) /\ l.req = loc[w].req
    <3> DEFINE k == loc[w]
    <3>1. Locals(k) /\ l = [k EXCEPT !.answer = text, !.status = 200]
      BY <1>1, <2>a
    <3> HIDE DEF k
    <3>2. Locals(l)
      BY <3>1 DEF Locals, NoLocals
    <3>3. l.req = k.req
      BY <3>1 DEF Locals, NoLocals
    <3> QED
      BY <3>2, <3>3 DEF k
  <2> QED
    BY <1>2, <2>1, <2>2, <2>3 DEF l
<1>5. CASE RateLimited(w)
  <2> DEFINE l == [loc[w] EXCEPT !.status = 429]
  <2>1. Set(w, l) /\ Goto(w, "allow", "answered") /\ scenario' = scenario
    BY <1>5 DEF RateLimited
  <2>2. Locals(l) /\ l.req = loc[w].req
    <3> DEFINE k == loc[w]
    <3>1. Locals(k) /\ l = [k EXCEPT !.status = 429]
      BY <1>1
    <3> HIDE DEF k, l
    <3>2. Locals(l)
      BY <3>1 DEF Locals, NoLocals
    <3>3. l.req = k.req
      BY <3>1 DEF Locals, NoLocals
    <3> QED
      BY <3>2, <3>3 DEF k
  <2> HIDE DEF l
  <2> QED
    BY <1>2, <2>1, <2>2
<1>6. CASE Return(w)
  <2>1. pc' = [pc EXCEPT ![w] = "idle"] /\ loc' = [loc EXCEPT ![w] = NoLocals] /\ scenario' = scenario
    BY <1>6 DEF Return, Goto, Set, outside
  <2>2. Locals(NoLocals)
    BY DEF Locals, NoLocals
  <2>3. Knows("idle", NoLocals)
    BY DEF Knows
  <2> QED
    BY <2>1, <2>2, <2>3, StepKeeps
<1> QED
  BY <1>3, <1>4, <1>5, <1>6

LEMMA RefusalKeeps ==
  ASSUME GuardInv, NEW w \in Workers,
         \/ BearerRefused(w) \/ HeadersRefused(w) \/ ResolveRefused(w) \/ BadBody(w)
         \/ MaskingFails(w) \/ GuardRefuses(w) \/ CompleteFails(w)
  PROVE  GuardInv'
<1>1. CASE BearerRefused(w) \/ HeadersRefused(w) \/ ResolveRefused(w) \/ BadBody(w)
  BY <1>1, AnswerKeeps DEF BearerRefused, HeadersRefused, ResolveRefused, BadBody, outside
<1>2. CASE MaskingFails(w) \/ GuardRefuses(w) \/ CompleteFails(w)
  BY <1>2, AnswerKeeps DEF MaskingFails, GuardRefuses, CompleteFails, outside
<1> QED
  BY <1>1, <1>2

LEMMA GuardNothing == Init => GuardInv
<1> SUFFICES ASSUME Init PROVE GuardInv
  OBVIOUS
<1>1. pc = [w \in Workers |-> "idle"] /\ loc = [w \in Workers |-> NoLocals]
  BY DEF Init
<1>2. Locals(NoLocals)
  BY DEF Locals, NoLocals
<1>3. \A w \in Workers : pc[w] = "idle" /\ loc[w] = NoLocals
  BY <1>1
<1>4. Shaped
  BY <1>1, <1>2, <1>3, Zenon DEF Shaped
<1> QED
  BY <1>3, <1>4 DEF GuardInv, Knows

LEMMA NextKeepsGuard ==
  ASSUME GuardInv, LimiterInv, [Next]_vars
  PROVE  GuardInv'
<1>1. ASSUME UNCHANGED <<scenario, pc, loc>> PROVE GuardInv'
  BY <1>1 DEF GuardInv, Shaped, Knows
<1>2. CASE Reconfigure \/ Publish \/ Tick \/ UNCHANGED vars
  BY <1>1, <1>2 DEF Reconfigure, Publish, Tick, vars
<1>3. ASSUME NEW w \in Workers, Chat(w) PROVE GuardInv'
  BY <1>3, ArrivalKeeps, AdmissionKeeps, LimiterStepKeeps, ReadConfigKeeps, MaskingKeeps,
     GuardPasses, AnsweringKeeps, RefusalKeeps DEF Chat
<1> QED
  BY <1>2, <1>3 DEF Next

\* The limiter needs the guard's invariant for the limits that calls have read, the
\* guard that of the limiter for the configurations.
LEMMA ChatInvariant == Spec => [](LimiterInv /\ GuardInv)
<1>1. GuardInv => LimitsRead
  BY DEF GuardInv, Knows, LimitsRead
<1>2. LimiterInv /\ GuardInv /\ [Next]_vars => LimiterInv' /\ GuardInv'
  BY <1>1, NextKeepsLimiter, NextKeepsGuard
<1> QED
  BY <1>2, InitLimiter, GuardNothing, PTL DEF Spec

-----------------------------------------------------------------------------
(* What follows *)

\* allow hands out no more tokens in a minute than two full buckets of the
\* highest limit, however calls, refills and changes of the limit interleave.
THEOREM TwoBucketsAtMost == Spec => []RateBounded
<1>1. LimiterInv => RateBounded
  <2> SUFFICES ASSUME LimiterInv, NEW t \in 0 .. now PROVE Cardinality(TakenIn(t)) <= 2 * Highest
    BY DEF RateBounded
  <2> DEFINE n == Cardinality(TakenIn(t))
  <2>1. t \in Nat /\ n \in Nat /\ Highest \in Nat /\ Minute \in Nat /\ Minute > 0
    <3>1. now \in Nat /\ taken \in Seq(Nat) /\ scenario \in Scenarios
      BY DEF LimiterInv
    <3>2. t \in Nat
      BY <3>1
    <3>3. n \in Nat
      BY <3>1, <3>2, TakenFinite
    <3>4. Highest \in Nat
      BY <3>1, HighestLimit
    <3>5. QED
      BY <3>2, <3>3, <3>4, MinuteAssumption
  <2>2. Minute * n + Left(bucket, t) <= Highest * Minute + Highest * Inflow(t, bucket.last)
    BY <2>1 DEF LimiterInv, Accounted
  <2>3. Left(bucket, t) \in Nat /\ Inflow(t, bucket.last) \in Nat /\ Inflow(t, bucket.last) <= Minute
    BY <2>1 DEF LimiterInv, Sound, BucketType, Left, Inflow
  <2>4. Highest * Inflow(t, bucket.last) <= Highest * Minute
    <3>1. Inflow(t, bucket.last) * Highest <= Minute * Highest
      BY <2>1, <2>3, Product
    <3>2. QED
      BY <2>1, <2>3, <3>1, SMT
  <2>5. Minute * n <= Minute * (2 * Highest)
    <3>1. Minute * (2 * Highest) = Highest * Minute + Highest * Minute /\ Highest * Minute \in Nat
      BY <2>1, SMT
    <3>2. Minute * n \in Nat /\ Highest * Inflow(t, bucket.last) \in Nat
      BY <2>1, <2>3, SMT
    <3>3. QED
      BY <2>2, <2>3, <2>4, <3>1, <3>2
  <2>6. QED
    <3>1. SUFFICES ASSUME 2 * Highest + 1 <= n PROVE FALSE
      BY <2>1
    <3>2. (2 * Highest + 1) * Minute <= n * Minute
      BY <2>1, <3>1, Product
    <3>3. (2 * Highest + 1) * Minute = Minute * (2 * Highest) + Minute /\ n * Minute = Minute * n
      BY <2>1, SMT
    <3>4. Minute * (2 * Highest) \in Nat /\ Minute * n \in Nat
      BY <2>1, SMT
    <3>5. QED
      BY <2>1, <2>5, <3>2, <3>3, <3>4
<1>2. QED
  BY <1>1, ChatInvariant, PTL

\* Whenever allow refuses, the bucket has a token for one caller after the
\* seconds it reports, whatever limits were in force before.
THEOREM RetryIsHonest == Spec => []RetryAfterHonest
<1>1. LimiterInv => RetryAfterHonest
  <2> SUFFICES ASSUME LimiterInv, ~Unlimited(bucket) PROVE HasToken(bucket, now + RetryAfter(bucket))
    BY DEF RetryAfterHonest
  <2> DEFINE wait == RetryAfter(bucket)
             full == bucket.capacity * Minute
             gain == (now + wait - bucket.last) * bucket.capacity
  <2>1. /\ bucket \in BucketType /\ bucket.capacity > 0 /\ bucket.capacity \in Nat /\ bucket.tokens \in Nat
        /\ bucket.last \in Int /\ now \in Nat /\ bucket.last <= now /\ Minute \in Nat
    BY MinuteAssumption DEF LimiterInv, Sound, BucketType, Unlimited
  <2>2. wait \in Nat /\ wait >= 1 /\ wait * bucket.capacity >= Minute
    BY <2>1, RetryBringsToken
  <2> HIDE DEF wait
  <2>3. gain >= Minute /\ gain \in Int
    <3>1. wait * bucket.capacity <= (now + wait - bucket.last) * bucket.capacity
      BY <2>1, <2>2, Product
    <3>2. wait * bucket.capacity \in Int /\ gain \in Int
      BY <2>1, <2>2, SMT
    <3>3. QED
      BY <2>1, <2>2, <3>1, <3>2
  <2>4. full >= Minute /\ full \in Int
    <3>1. 1 * Minute <= bucket.capacity * Minute
      BY <2>1, Product
    <3>2. full \in Int
      BY <2>1, SMT
    <3>3. QED
      BY <2>1, <3>1, <3>2
  <2>5. Refill(bucket, now + wait).tokens = IF bucket.tokens + gain > full THEN full ELSE bucket.tokens + gain
    BY <2>1, <2>2 DEF Refill, Trimmed, BucketType
  <2> HIDE DEF gain, full
  <2>6. QED
    BY <2>1, <2>3, <2>4, <2>5 DEF HasToken, wait
<1>2. QED
  BY <1>1, ChatInvariant, PTL

\* No value reaches the model in the clear that the guard had to know, for
\* any messages, systems and masks, whatever the operator changes in the meantime:
\* a message is only as safe as its last look, which GuardInv carries from the
\* guard of each message to the call of the model.
THEOREM NothingKnownLeaks == Spec => []ModelSeesNoKnownValue
<1>1. GuardInv => ModelSeesNoKnownValue
  <2> SUFFICES ASSUME GuardInv, NEW w \in Workers, pc[w] = "complete",
                      NEW m \in DOMAIN loc[w].masked, NEW i \in DOMAIN loc[w].masked[m]
               PROVE  \/ TypeOf[loc[w].masked[m][i]] \notin loc[w].known[m]
                      \/ CoveredByMasks([start |-> i - 1, end |-> i], loc[w].reps[m])
    BY DEF ModelSeesNoKnownValue
  <2>1. PICK n \in Nat : MaskedSoFar(loc[w], n) /\ Guarded(loc[w], n)
    BY DEF GuardInv, Knows
  <2>2. loc[w].masked \in Seq(Seq(Words)) /\ m \in 1 .. n
    BY <2>1 DEF MaskedSoFar
  <2>3. loc[w].masked[m] \in Seq(Words)
    BY <2>2
  <2>4. i \in 1 .. Len(loc[w].masked[m])
    BY <2>3
  <2> QED
    BY <2>1, <2>2, <2>4 DEF Guarded
<1> QED
  BY <1>1, ChatInvariant, PTL
=============================================================================
