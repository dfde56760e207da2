------------------------------ MODULE Metrics ------------------------------
(***************************************************************************)
(* The ring behind the rate gauges of internal/metrics under concurrent     *)
(* Observe calls.  The plain counters are single atomic cells and left out. *)
(* Slip_... marks a mistake the code could have made, not a part of it.     *)
(***************************************************************************)
EXTENDS Integers

CONSTANTS
  Writers,       \* goroutines in Observe
  RateBuckets,   \* slots of the ring
  RateWindow,    \* seconds averaged
  LastSecond,    \* bound: the clock stops here
  MaxSamples     \* bound: samples of one writer

ASSUME MetricsAssumption ==
  /\ RateBuckets \in Nat \ {0} /\ RateWindow \in 1 .. RateBuckets
  /\ LastSecond \in Nat /\ LastSecond >= RateBuckets /\ MaxSamples \in Nat

Slots == 0 .. RateBuckets - 1
Slot(s) == s % RateBuckets
Seconds == RateBuckets .. LastSecond

VARIABLES
  second,                \* the clock
  step, sample,          \* writer -> next step, its sample
  stamps, counts,        \* ringWindow
  tally, overlapped      \* history: second -> samples added, those added under a claim

ring == <<stamps, counts, tally, overlapped>>
metrics == <<second, step, sample, ring>>

\* No slot of a fresh ring carries the stamp of a second to come.
MetricsInit ==
  /\ second = RateBuckets
  /\ step = [w \in Writers |-> "idle"]
  /\ sample = [w \in Writers |-> [now |-> 0, prev |-> 0, done |-> 0]]
  /\ stamps = [i \in Slots |-> 0] /\ counts = [i \in Slots |-> 0]
  /\ tally = [s \in Seconds |-> 0] /\ overlapped = [s \in Seconds |-> 0]

Advance(w, from, to) == step[w] = from /\ step' = [step EXCEPT ![w] = to]

\* Observe reads the clock; the ring is its last stop.
ReadClock(w) ==
  /\ Advance(w, "idle", "load")
  /\ sample[w].done < MaxSamples
  /\ sample' = [sample EXCEPT ![w].now = second]
  /\ UNCHANGED <<second, ring>>

\* ringWindow.add: load the stamp; if it is another second's, claim the slot by
\* a compare-and-swap; whoever succeeds zeroes it; everybody adds.
Load(w) ==
  LET stamp == stamps[Slot(sample[w].now)] IN
  /\ Advance(w, "load", IF stamp = sample[w].now THEN "add" ELSE "claim")
  /\ sample' = [sample EXCEPT ![w].prev = stamp]
  /\ UNCHANGED <<second, ring>>

Slip_ClaimUncompared(w) ==
  /\ Advance(w, "claim", "zero")
  /\ stamps' = [stamps EXCEPT ![Slot(sample[w].now)] = sample[w].now]
  /\ UNCHANGED <<second, sample, counts, tally, overlapped>>

Claim(w) ==
  LET i == Slot(sample[w].now)  wins == stamps[i] = sample[w].prev IN
  /\ Advance(w, "claim", IF wins THEN "zero" ELSE "add")
  /\ stamps' = IF wins THEN [stamps EXCEPT ![i] = sample[w].now] ELSE stamps
  /\ UNCHANGED <<second, sample, counts, tally, overlapped>>
Zero(w) ==
  /\ Advance(w, "zero", "add")
  /\ counts' = [counts EXCEPT ![Slot(sample[w].now)] = 0]
  /\ UNCHANGED <<second, sample, stamps, tally, overlapped>>

Claiming(s) == \E w \in Writers : step[w] = "zero" /\ sample[w].now = s

Add(w) ==
  LET now == sample[w].now IN
  /\ Advance(w, "add", "idle")
  /\ counts' = [counts EXCEPT ![Slot(now)] = @ + 1]
  /\ tally' = [tally EXCEPT ![now] = @ + 1]
  /\ overlapped' = [overlapped EXCEPT ![now] = IF Claiming(now) THEN @ + 1 ELSE @]
  /\ sample' = [sample EXCEPT ![w].done = @ + 1]
  /\ UNCHANGED <<second, stamps>>

\* No writer sleeps between the clock and the ring for as long as the ring turns.
NextSecond ==
  /\ second < LastSecond
  /\ \A w \in Writers :
       step[w] # "idle" => second + 1 - sample[w].now < RateBuckets
  /\ second' = second + 1
  /\ UNCHANGED <<step, sample, ring>>

MetricsNext ==
  NextSecond \/ \E w \in Writers : ReadClock(w) \/ Load(w) \/ Claim(w) \/ Zero(w) \/ Add(w)
MetricsSpec == MetricsInit /\ [][MetricsNext]_metrics

\* ringWindow.rate adds up what the ring tells of the seconds of its window.
Window(now) == {s \in Seconds : now - RateWindow < s /\ s <= now}
Told(s) == IF stamps[Slot(s)] = s THEN counts[Slot(s)] ELSE 0

-----------------------------------------------------------------------------
\* Of each second of the window the rate tells every sample once, save those
\* added between the claim of its slot and the zeroing, and except while the slot
\* stands between the two: no sample of a minute ago passes for a fresh one, none
\* is told twice, and none is lost in another second's slot.
RateExact ==
  \A s \in Window(second) : ~Claiming(s) => Told(s) = tally[s] - overlapped[s]
=============================================================================
