--------------------------- MODULE ServiceProofs ---------------------------
(***************************************************************************)
(* What the layers owe back and what they count, whom the drain spares, and *)
(* the ring that tells the rate of what is counted, for any number of       *)
(* requests, writers and samples and all values of the constants.          *)
(***************************************************************************)
EXTENDS Service, Metrics, FiniteSetTheorems, TLAPS

-----------------------------------------------------------------------------
(* The inductive invariants.                                               *)

Steps == {"new", "limit", "handler", "observe", "release", "leave", "done"}
Endings == {"none", "shed", "served", "late", "returned", "panic"}
Calls == [kind : Kinds \cup {"none"}, deadline : Nat, end : Endings, samples : 0 .. 2]

ServiceTypeOK ==
  /\ clock \in Nat /\ drainBy \in Nat
  /\ pc \in [Requests -> Steps] /\ call \in [Requests -> Calls]
  /\ sem \in Int /\ inflight \in Int /\ requestsTotal \in Nat /\ rejected \in Nat
  /\ cut \subseteq Requests

\* What a call has been through once it is at a step: a served one is counted
\* with its slot in hand, a late one also behind it, the others behind it or not.
Been(c, at) ==
  /\ at = "new" => c = NotYet
  /\ at # "new" => c.kind \in Kinds
  /\ at = "limit" => c.deadline = 0
  /\ at \in {"limit", "handler"} => c.end = "none" /\ c.samples = 0
  /\ at = "observe" => \/ c.end \in {"shed", "returned", "served"} /\ c.samples = 0
                       \/ c.end = "late" /\ c.samples \in {0, 1}
  /\ at = "release" => \/ c.end \in {"served", "late"} /\ c.samples = 1
                       \/ c.end \in {"returned", "panic"} /\ c.samples = 0
  /\ at \in {"leave", "done"} => \/ c.end \in {"served", "returned", "shed"} /\ c.samples = 1
                                 \/ c.end = "late" /\ c.samples = 2
                                 \/ c.end = "panic" /\ c.samples = 0
OnTheWay == \A r \in Requests : Been(call[r], pc[r])

\* A request holds a slot from its admission to its release; the engine's sample
\* comes in between, the metrics layer's does not.
Holds(c, at) ==
  /\ MaxConcurrent > 0 /\ c.kind # "probe"
  /\ \/ at \in {"handler", "release"}
     \/ at = "observe" /\ c.end \in {"served", "late"} /\ c.samples = 0
Holding == {r \in Requests : Holds(call[r], pc[r])}
Turned == {r \in Requests : call[r].end = "shed"}

Books ==
  /\ sem = Cardinality(Holding) /\ inflight = Cardinality(Running)
  /\ requestsTotal = Cardinality(Sampled(1)) + Cardinality(Sampled(2))
  /\ rejected = Cardinality(Turned)

PipelineInv == ServiceTypeOK /\ OnTheWay /\ Books

\* The drain.  No deadline of a request under way has passed; those of /process
\* lie within the time a drain may take; whoever is still at the semaphore in
\* the drain was there when it began, in that very second.
Prompt(r) == call[r].deadline > 0 => clock <= call[r].deadline
Short(r) == call[r].kind # "chat" => call[r].deadline < clock + DrainTimeout
InTime(r) ==
  main = "drain" => /\ pc[r] = "limit" => clock + DrainTimeout = drainBy
                    /\ call[r].kind # "chat" => call[r].deadline < drainBy
Underway == \A r \in Running : Prompt(r) /\ Short(r) /\ InTime(r)
NobodyEnters == main = "drain" => listener \in {"failed", "closed"}
Admitted ==
  \A r \in cut : pc[r] \notin {"new", "limit"} /\ (call[r].kind # "chat" => call[r].deadline = 0)

DrainInv == NobodyEnters /\ Underway /\ Admitted

-----------------------------------------------------------------------------
(* Counting.                                                               *)

One(b) == IF b THEN 1 ELSE 0

\* Two sets that differ in one element at most differ by one at most.
LEMMA DifferInOne ==
  ASSUME NEW S, NEW T, IsFiniteSet(S), NEW r, S \ {r} = T \ {r}
  PROVE  /\ IsFiniteSet(T) /\ Cardinality(S) \in Nat /\ Cardinality(T) \in Nat
         /\ Cardinality(T) = Cardinality(S) + One(r \in T) - One(r \in S)
<1>1. IsFiniteSet(S \ {r}) /\ Cardinality(S \ {r}) \in Nat /\ Cardinality(S) \in Nat
  BY FS_RemoveElement, FS_CardinalityType
<1>2. Cardinality(S) = Cardinality(S \ {r}) + One(r \in S)
  <2>1. CASE r \in S
    BY <1>1, <2>1, FS_RemoveElement DEF One
  <2>2. CASE r \notin S
    <3>1. S \ {r} = S
      BY <2>2
    <3>2. Cardinality(S \ {r}) = Cardinality(S)
      BY <3>1
    <3>3. QED
      BY <1>1, <2>2, <3>2 DEF One
  <2>3. QED
    BY <2>1, <2>2
<1>3. /\ IsFiniteSet(T)
      /\ Cardinality(T) = Cardinality(T \ {r}) + One(r \in T)
  <2>1. CASE r \in T
    <3>1. T = (T \ {r}) \cup {r} /\ r \notin T \ {r}
      BY <2>1
    <3>2. IsFiniteSet((T \ {r}) \cup {r})
             /\ Cardinality((T \ {r}) \cup {r}) = Cardinality(T \ {r}) + 1
      BY <1>1, <3>1, FS_AddElement
    <3>3. QED
      BY <2>1, <3>1, <3>2 DEF One
  <2>2. CASE r \notin T
    <3>1. T \ {r} = T
      BY <2>2
    <3>2. IsFiniteSet(T) /\ Cardinality(T \ {r}) = Cardinality(T)
      BY <1>1, <3>1
    <3>3. QED
      BY <1>1, <2>2, <3>2 DEF One
  <2>3. QED
    BY <2>1, <2>2
<1>4. Cardinality(T) \in Nat
  BY <1>3, FS_CardinalityType
<1>5. QED
  BY <1>1, <1>2, <1>3, <1>4 DEF One

\* Sets of requests are finite.
LEMMA RequestSets ==
  ASSUME NEW S \in SUBSET Requests
  PROVE  IsFiniteSet(S) /\ Cardinality(S) \in Nat
BY ServiceAssumption, FS_Subset, FS_CardinalityType

-----------------------------------------------------------------------------
(* One request moves to a step as the call c.                              *)

Moves(r, c, to) ==
  /\ pc' = [pc EXCEPT ![r] = to] /\ call' = [call EXCEPT ![r] = c]
  /\ Been(c, to)

Charged(r, c, to) ==
  /\ sem' = sem + One(Holds(c, to)) - One(Holds(call[r], pc[r]))
  /\ inflight' = inflight + One(to \notin {"new", "done"}) - One(pc[r] \notin {"new", "done"})
  /\ requestsTotal' = requestsTotal + c.samples - call[r].samples
  /\ rejected' = rejected + One(c.end = "shed") - One(call[r].end = "shed")

\* What such a move leaves of the other requests, and of this one.
LEMMA MoveParts ==
  ASSUME ServiceTypeOK, OnTheWay, NEW r \in Requests, NEW c \in Calls, NEW to \in Steps, Moves(r, c, to)
  PROVE  /\ pc' \in [Requests -> Steps] /\ call' \in [Requests -> Calls]
         /\ pc'[r] = to /\ call'[r] = c
         /\ \A s \in Requests \ {r} : pc'[s] = pc[s] /\ call'[s] = call[s]
         /\ OnTheWay'
<1>1. /\ pc \in [Requests -> Steps] /\ call \in [Requests -> Calls]
      /\ pc' = [pc EXCEPT ![r] = to] /\ call' = [call EXCEPT ![r] = c]
  BY DEF ServiceTypeOK, Moves
<1>2. pc' \in [Requests -> Steps] /\ call' \in [Requests -> Calls]
  BY <1>1
<1>3. /\ pc'[r] = to /\ call'[r] = c
      /\ \A s \in Requests \ {r} : pc'[s] = pc[s] /\ call'[s] = call[s]
  BY <1>1
<1>4. OnTheWay'
  <2>1. SUFFICES ASSUME NEW s \in Requests PROVE Been(call'[s], pc'[s])
    BY DEF OnTheWay
  <2>2. CASE s = r
    BY <1>3, <2>2 DEF Moves
  <2>3. CASE s # r
    BY <1>3, <2>3 DEF OnTheWay
  <2>4. QED
    BY <2>2, <2>3
<1>5. QED
  BY <1>2, <1>3, <1>4

\* The books stay right when the counters change by what the move is worth.
LEMMA MoveKeepsBooks ==
  ASSUME PipelineInv, NEW r \in Requests, NEW c \in Calls, NEW to \in Steps,
         Moves(r, c, to), Charged(r, c, to)
  PROVE  Books' /\ requestsTotal' \in Nat /\ rejected' \in Nat /\ sem' \in Int /\ inflight' \in Int
<1>1. /\ pc'[r] = to /\ call'[r] = c /\ r \in Requests
      /\ \A s \in Requests \ {r} : pc'[s] = pc[s] /\ call'[s] = call[s]
  BY MoveParts DEF PipelineInv
<1>2. /\ Holding \in SUBSET Requests /\ Running \in SUBSET Requests /\ Turned \in SUBSET Requests
      /\ Sampled(1) \in SUBSET Requests /\ Sampled(2) \in SUBSET Requests
  BY DEF Holding, Running, Turned, Sampled
<1>3. /\ Holding \ {r} = Holding' \ {r} /\ Running \ {r} = Running' \ {r} /\ Turned \ {r} = Turned' \ {r}
      /\ Sampled(1) \ {r} = Sampled(1)' \ {r} /\ Sampled(2) \ {r} = Sampled(2)' \ {r}
  BY <1>1 DEF Holding, Running, Turned, Sampled
<1>4. /\ (r \in Holding <=> Holds(call[r], pc[r])) /\ (r \in Holding' <=> Holds(c, to))
      /\ (r \in Running <=> pc[r] \notin {"new", "done"}) /\ (r \in Running' <=> to \notin {"new", "done"})
      /\ (r \in Turned <=> call[r].end = "shed") /\ (r \in Turned' <=> c.end = "shed")
      /\ (r \in Sampled(1) <=> call[r].samples >= 1) /\ (r \in Sampled(1)' <=> c.samples >= 1)
      /\ (r \in Sampled(2) <=> call[r].samples >= 2) /\ (r \in Sampled(2)' <=> c.samples >= 2)
  BY <1>1 DEF Holding, Running, Turned, Sampled
<1>5. /\ Cardinality(Holding') = Cardinality(Holding) + One(r \in Holding') - One(r \in Holding)
      /\ Cardinality(Running') = Cardinality(Running) + One(r \in Running') - One(r \in Running)
      /\ Cardinality(Turned') = Cardinality(Turned) + One(r \in Turned') - One(r \in Turned)
  BY <1>2, <1>3, RequestSets, DifferInOne
<1>6. /\ Cardinality(Sampled(1)') = Cardinality(Sampled(1)) + One(r \in Sampled(1)') - One(r \in Sampled(1))
      /\ Cardinality(Sampled(2)') = Cardinality(Sampled(2)) + One(r \in Sampled(2)') - One(r \in Sampled(2))
  BY <1>2, <1>3, RequestSets, DifferInOne
<1>7. /\ Cardinality(Holding) \in Nat /\ Cardinality(Running) \in Nat /\ Cardinality(Turned) \in Nat
      /\ Cardinality(Sampled(1)) \in Nat /\ Cardinality(Sampled(2)) \in Nat
  BY <1>2, RequestSets
<1>8. Cardinality(Turned') \in Nat
  BY <1>2, <1>3, RequestSets, DifferInOne
<1>9. sem' = Cardinality(Holding') /\ sem' \in Int
  BY <1>4, <1>5, <1>7 DEF PipelineInv, Books, Charged, One
<1>10. inflight' = Cardinality(Running') /\ inflight' \in Int
  BY <1>4, <1>5, <1>7 DEF PipelineInv, Books, Charged, One
<1>11. rejected' = Cardinality(Turned') /\ rejected' \in Nat
  BY <1>4, <1>5, <1>7, <1>8 DEF PipelineInv, Books, Charged, One
<1>12. /\ call[r].samples \in 0 .. 2 /\ c.samples \in 0 .. 2
       /\ call[r].samples = One(call[r].samples >= 1) + One(call[r].samples >= 2)
       /\ c.samples = One(c.samples >= 1) + One(c.samples >= 2)
  BY DEF PipelineInv, ServiceTypeOK, Calls, One
<1>13. Cardinality(Sampled(1)') \in Nat /\ Cardinality(Sampled(2)') \in Nat
  BY <1>2, <1>3, RequestSets, DifferInOne
<1>14. /\ requestsTotal' = Cardinality(Sampled(1)') + Cardinality(Sampled(2)')
       /\ requestsTotal' \in Nat
  <2>1. /\ One(r \in Sampled(1)) = One(call[r].samples >= 1) /\ One(r \in Sampled(1)') = One(c.samples >= 1)
        /\ One(r \in Sampled(2)) = One(call[r].samples >= 2) /\ One(r \in Sampled(2)') = One(c.samples >= 2)
    BY <1>4 DEF One
  <2>2. /\ One(call[r].samples >= 1) \in Int /\ One(call[r].samples >= 2) \in Int
        /\ One(c.samples >= 1) \in Int /\ One(c.samples >= 2) \in Int
    BY DEF One
  <2>3. requestsTotal' = Cardinality(Sampled(1)) + Cardinality(Sampled(2)) + c.samples - call[r].samples
    BY DEF PipelineInv, Books, Charged
  <2>4. requestsTotal' = Cardinality(Sampled(1)') + Cardinality(Sampled(2)')
    BY <1>6, <1>7, <1>12, <2>1, <2>2, <2>3
  <2>5. QED
    BY <1>13, <2>4
<1>15. QED
  BY <1>9, <1>10, <1>11, <1>14 DEF Books

\* Together: a charged move keeps the invariant.
LEMMA MoveKeepsPipeline ==
  ASSUME PipelineInv, NEW r \in Requests, NEW c \in Calls, NEW to \in Steps,
         Moves(r, c, to), Charged(r, c, to), UNCHANGED <<clock, process, cut>>
  PROVE  PipelineInv'
<1>1. Books' /\ requestsTotal' \in Nat /\ rejected' \in Nat /\ sem' \in Int /\ inflight' \in Int
  BY MoveKeepsBooks
<1>2. pc' \in [Requests -> Steps] /\ call' \in [Requests -> Calls] /\ OnTheWay'
  BY MoveParts DEF PipelineInv
<1>3. QED
  BY <1>1, <1>2 DEF PipelineInv, ServiceTypeOK, process

\* A step of the process leaves the requests and the counters alone.
LEMMA OthersKeepPipeline ==
  ASSUME PipelineInv, UNCHANGED <<pc, call, counters>>,
         clock' \in Nat, drainBy' \in Nat, cut' \subseteq Requests
  PROVE  PipelineInv'
<1>1. pc' = pc /\ call' = call /\ sem' = sem /\ inflight' = inflight
        /\ requestsTotal' = requestsTotal /\ rejected' = rejected
  BY DEF counters
<1>2. Books'
  BY <1>1 DEF PipelineInv, Books, Holding, Running, Sampled, Turned
<1>3. OnTheWay' /\ ServiceTypeOK'
  BY <1>1 DEF PipelineInv, OnTheWay, ServiceTypeOK
<1>4. QED
  BY <1>2, <1>3 DEF PipelineInv

-----------------------------------------------------------------------------
(* The steps of a request.                                                 *)

\* What the invariant says of one request.
LEMMA PipelineHere ==
  ASSUME PipelineInv, NEW r \in Requests
  PROVE  /\ call[r] \in Calls /\ pc[r] \in Steps /\ Been(call[r], pc[r])
         /\ pc \in [Requests -> Steps] /\ call \in [Requests -> Calls]
         /\ clock \in Nat /\ sem \in Int /\ inflight \in Int /\ requestsTotal \in Nat /\ rejected \in Nat
BY DEF PipelineInv, ServiceTypeOK, OnTheWay

LEMMA ArriveKeepsPipeline ==
  ASSUME PipelineInv, NEW r \in Requests, Arrive(r)
  PROVE  PipelineInv'
<1>1. PICK kind \in Kinds : call' = [call EXCEPT ![r].kind = kind]
  BY DEF Arrive
<1> DEFINE c == [call[r] EXCEPT !.kind = kind]
<1>2. pc[r] = "new" /\ call[r] = NotYet
  BY PipelineHere DEF Arrive, Been
<1>3. c \in Calls /\ c.kind = kind /\ c.deadline = 0 /\ c.end = "none" /\ c.samples = 0
  BY <1>2, PipelineHere DEF NotYet, Calls
<1>4. Moves(r, c, "limit")
  BY <1>1, <1>3, PipelineHere DEF Moves, Arrive, Goto, Been
<1>5. Charged(r, c, "limit")
  BY <1>2, <1>3, PipelineHere DEF Charged, Arrive, Holds, NotYet, One
<1>6. QED
  BY <1>3, <1>4, <1>5, MoveKeepsPipeline DEF Arrive, Steps

\* Of the seven steps, five change neither kind nor deadline.
MovesOn(r) ==
  /\ UNCHANGED <<clock, process, cut>> /\ r \in Running
  /\ \E c \in Calls, to \in Steps \ {"new", "limit"} :
       /\ Moves(r, c, to) /\ Charged(r, c, to)
       /\ c.kind = call[r].kind /\ c.deadline = call[r].deadline

LEMMA ShedMoves ==
  ASSUME PipelineInv, NEW r \in Requests, Shed(r)
  PROVE  MovesOn(r)
<1> DEFINE c == [call[r] EXCEPT !.end = "shed"]
<1>1. /\ pc[r] = "limit" /\ call[r].end = "none" /\ call[r].samples = 0 /\ call[r].kind \in Kinds
      /\ call' = [call EXCEPT ![r] = c]
  BY PipelineHere DEF Shed, Been, Ending
<1>2. /\ c \in Calls /\ c.kind = call[r].kind /\ c.deadline = call[r].deadline
      /\ c.end = "shed" /\ c.samples = 0
  BY <1>1, PipelineHere DEF Calls, Endings
<1>3. Moves(r, c, "observe")
  BY <1>1, <1>2 DEF Moves, Shed, Goto, Been
<1>4. Charged(r, c, "observe")
  BY <1>1, <1>2, PipelineHere DEF Charged, Shed, Holds, One
<1>5. QED
  BY <1>1, <1>2, <1>3, <1>4 DEF MovesOn, Steps, Shed, Running

LEMMA AdmitKeepsPipeline ==
  ASSUME PipelineInv, NEW r \in Requests, Admit(r)
  PROVE  PipelineInv'
<1>1. /\ pc[r] = "limit" /\ call[r].end = "none" /\ call[r].samples = 0 /\ call[r].kind \in Kinds
  BY PipelineHere DEF Admit, Been
<1>2. PICK d \in Nat : call' = [call EXCEPT ![r].deadline = d]
  <2>1. PICK t \in Timeouts(call[r].kind) : call' = [call EXCEPT ![r].deadline = IF t = 0 THEN 0 ELSE clock + t]
    BY DEF Admit
  <2>2. t \in Nat
    BY ServiceAssumption DEF Timeouts
  <2>3. (IF t = 0 THEN 0 ELSE clock + t) \in Nat
    BY <2>2, PipelineHere
  <2>4. QED
    BY <2>1, <2>3
<1> DEFINE c == [call[r] EXCEPT !.deadline = d]
<1>3. /\ c \in Calls /\ c.kind = call[r].kind /\ c.end = "none" /\ c.samples = 0
      /\ call' = [call EXCEPT ![r] = c]
  BY <1>1, <1>2, PipelineHere DEF Calls
<1>4. Moves(r, c, "handler")
  BY <1>1, <1>3 DEF Moves, Admit, Goto, Been
<1>5. sem' = sem + One(Limited(r))
  BY PipelineHere DEF Admit, One
<1>6. (Holds(c, "handler") <=> Limited(r)) /\ ~Holds(call[r], "limit")
  BY <1>3 DEF Holds, Limited
<1>7. One(Holds(c, "handler")) = One(Limited(r)) /\ One(Holds(call[r], "limit")) = 0 /\ One(Limited(r)) \in Int
  BY <1>6 DEF One
<1>8. Charged(r, c, "handler")
  <2>1. sem' = sem + One(Holds(c, "handler")) - One(Holds(call[r], pc[r]))
    BY <1>1, <1>5, <1>7, PipelineHere
  <2>2. inflight' = inflight /\ requestsTotal' = requestsTotal /\ rejected' = rejected
    BY DEF Admit
  <2>3. QED
    BY <1>1, <1>3, <2>1, <2>2, PipelineHere DEF Charged, One
<1>9. QED
  BY <1>3, <1>4, <1>8, MoveKeepsPipeline DEF Admit, Steps

LEMMA HandleMoves ==
  ASSUME PipelineInv, NEW r \in Requests, Handle(r)
  PROVE  MovesOn(r)
<1>1. PICK end \in Ends(r) : /\ Ending(r, end)
                            /\ Goto(r, IF end \in {"served", "late"} THEN "observe" ELSE "release")
  BY DEF Handle
<1>2. end \in {"returned", "panic", "served", "late"}
  BY DEF Ends
<1> DEFINE c == [call[r] EXCEPT !.end = end]
           to == IF end \in {"served", "late"} THEN "observe" ELSE "release"
<1>3. /\ pc[r] = "handler" /\ call[r].end = "none" /\ call[r].samples = 0 /\ call[r].kind \in Kinds
      /\ call' = [call EXCEPT ![r] = c]
  BY <1>1, PipelineHere DEF Handle, Been, Ending
<1>4. /\ c \in Calls /\ c.kind = call[r].kind /\ c.deadline = call[r].deadline
      /\ c.end = end /\ c.samples = 0
  BY <1>2, <1>3, PipelineHere DEF Calls, Endings
<1>5. to \in Steps
  BY DEF Steps
<1>6. Moves(r, c, to)
  BY <1>1, <1>2, <1>3, <1>4 DEF Moves, Goto, Been
<1>7. Holds(c, to) <=> Holds(call[r], pc[r])
  BY <1>2, <1>3, <1>4 DEF Holds
<1>8. One(Holds(c, to)) = One(Holds(call[r], pc[r])) /\ One(Holds(c, to)) \in Int
  BY <1>7 DEF One
<1>9. Charged(r, c, to)
  <2>1. sem' = sem + One(Holds(c, to)) - One(Holds(call[r], pc[r]))
    BY <1>8, PipelineHere DEF Handle, counters
  <2>2. to \notin {"new", "done"} /\ inflight' = inflight /\ requestsTotal' = requestsTotal /\ rejected' = rejected
    BY DEF Handle, counters
  <2>3. QED
    BY <1>2, <1>3, <1>4, <2>1, <2>2, PipelineHere DEF Charged, One
<1>10. to \notin {"new", "limit"} /\ r \in Running /\ UNCHANGED <<clock, process, cut>>
  BY <1>3 DEF Handle, Running
<1> HIDE DEF c, to
<1>11. QED
  BY <1>4, <1>5, <1>6, <1>9, <1>10 DEF MovesOn

LEMMA ReleaseMoves ==
  ASSUME PipelineInv, NEW r \in Requests, Release(r)
  PROVE  MovesOn(r)
<1> DEFINE c == call[r]
           to == IF Measured(r) THEN "observe" ELSE "leave"
<1>1. /\ pc[r] = "release" /\ c \in Calls /\ c.kind \in Kinds /\ to \in Steps
      /\ \/ c.end \in {"served", "late"} /\ c.samples = 1
         \/ c.end \in {"returned", "panic"} /\ c.samples = 0
  BY PipelineHere DEF Release, Been, Steps
<1>2. call' = [call EXCEPT ![r] = c]
  BY PipelineHere DEF Release
<1>3. Moves(r, c, to)
  BY <1>1, <1>2 DEF Moves, Release, Goto, Been, Measured
<1>4. (Holds(c, "release") <=> Limited(r)) /\ ~Holds(c, to)
  BY <1>1 DEF Holds, Limited, Measured
<1>5. One(Holds(c, "release")) = One(Limited(r)) /\ One(Holds(c, to)) = 0 /\ One(Limited(r)) \in Int
  BY <1>4 DEF One
<1>6. sem' = sem - One(Limited(r))
  BY PipelineHere DEF Release, One
<1>7. Charged(r, c, to)
  <2>1. sem' = sem + One(Holds(c, to)) - One(Holds(call[r], pc[r]))
    BY <1>1, <1>5, <1>6, PipelineHere
  <2>2. to \notin {"new", "done"} /\ inflight' = inflight /\ requestsTotal' = requestsTotal /\ rejected' = rejected
    BY DEF Release
  <2>3. QED
    BY <1>1, <2>1, <2>2, PipelineHere DEF Charged, One
<1>8. QED
  BY <1>1, <1>3, <1>7 DEF MovesOn, Release, Running

LEMMA ObserveMoves ==
  ASSUME PipelineInv, NEW r \in Requests, Observe(r)
  PROVE  MovesOn(r)
<1> DEFINE c == [call[r] EXCEPT !.samples = @ + 1]
           to == IF call[r].samples = 0 /\ Served(r) THEN "release" ELSE "leave"
<1>1. /\ pc[r] = "observe" /\ call[r] \in Calls /\ call[r].kind \in Kinds /\ to \in Steps
      /\ \/ call[r].end \in {"shed", "returned", "served"} /\ call[r].samples = 0
         \/ call[r].end = "late" /\ call[r].samples \in {0, 1}
  BY PipelineHere DEF Observe, Been, Steps
<1>2. call' = [call EXCEPT ![r] = c]
  BY PipelineHere DEF Observe
<1>3. /\ c \in Calls /\ c.kind = call[r].kind /\ c.deadline = call[r].deadline
      /\ c.end = call[r].end /\ c.samples = call[r].samples + 1
  BY <1>1 DEF Calls
<1>4. Moves(r, c, to)
  BY <1>1, <1>2, <1>3 DEF Moves, Observe, Goto, Been, Served
<1>5. Holds(c, to) <=> Holds(call[r], pc[r])
  BY <1>1, <1>3 DEF Holds, Served
<1>6. One(Holds(c, to)) = One(Holds(call[r], pc[r])) /\ One(Holds(c, to)) \in Int
  BY <1>5 DEF One
<1>7. Charged(r, c, to)
  <2>1. sem' = sem + One(Holds(c, to)) - One(Holds(call[r], pc[r]))
    BY <1>6, PipelineHere DEF Observe
  <2>2. /\ to \notin {"new", "done"} /\ inflight' = inflight
        /\ requestsTotal' = requestsTotal + 1 /\ rejected' = rejected
    BY DEF Observe
  <2>3. QED
    BY <1>1, <1>3, <2>1, <2>2, PipelineHere DEF Charged, One
<1>8. to \notin {"new", "limit"} /\ r \in Running /\ UNCHANGED <<clock, process, cut>>
  BY <1>1 DEF Observe, Running
<1> HIDE DEF c, to
<1>9. QED
  BY <1>1, <1>3, <1>4, <1>7, <1>8 DEF MovesOn

LEMMA LeaveMoves ==
  ASSUME PipelineInv, NEW r \in Requests, Leave(r)
  PROVE  MovesOn(r)
<1> DEFINE c == call[r]
<1>1. pc[r] = "leave" /\ c \in Calls /\ Been(c, "leave") /\ c.samples \in Nat
  BY PipelineHere DEF Leave, Calls
<1>2. call' = [call EXCEPT ![r] = c]
  BY PipelineHere DEF Leave
<1>3. Moves(r, c, "done")
  BY <1>1, <1>2 DEF Moves, Leave, Goto, Been
<1>4. Charged(r, c, "done")
  BY <1>1, PipelineHere DEF Charged, Leave, Holds, One
<1>5. QED
  BY <1>1, <1>3, <1>4 DEF MovesOn, Leave, Steps, Running

-----------------------------------------------------------------------------
(* The slots and the counters.                                             *)

LEMMA RequestMoves ==
  ASSUME PipelineInv, NEW r \in Requests, RequestStep(r)
  PROVE  Arrive(r) \/ Admit(r) \/ MovesOn(r)
BY ShedMoves, HandleMoves, ReleaseMoves, ObserveMoves, LeaveMoves
   DEF RequestStep, Layer

LEMMA RequestKeepsPipeline ==
  ASSUME PipelineInv, NEW r \in Requests, RequestStep(r)
  PROVE  PipelineInv'
<1>1. CASE Arrive(r) \/ Admit(r)
  BY <1>1, ArriveKeepsPipeline, AdmitKeepsPipeline
<1>2. CASE MovesOn(r)
  BY <1>2, MoveKeepsPipeline DEF MovesOn
<1>3. QED
  BY <1>1, <1>2, RequestMoves

LEMMA PipelineInvariant == Spec => []PipelineInv
<1>1. Init => PipelineInv
  <2> SUFFICES ASSUME Init PROVE PipelineInv
    OBVIOUS
  <2>1. /\ pc = [r \in Requests |-> "new"] /\ call = [r \in Requests |-> NotYet]
        /\ sem = 0 /\ inflight = 0 /\ requestsTotal = 0 /\ rejected = 0
    BY DEF Init
  <2>2. NotYet \in Calls /\ NotYet.kind = "none" /\ NotYet.end = "none" /\ NotYet.samples = 0
    BY DEF NotYet, Calls, Endings
  <2>3. ServiceTypeOK /\ OnTheWay
    BY <2>1, <2>2 DEF Init, ServiceTypeOK, OnTheWay, Been, Steps
  <2>4. Holding = {} /\ Running = {} /\ Sampled(1) = {} /\ Sampled(2) = {} /\ Turned = {}
    BY <2>1, <2>2 DEF Holding, Holds, Running, Sampled, Turned
  <2>5. QED
    BY <2>1, <2>3, <2>4, FS_EmptySet DEF PipelineInv, Books
<1>2. PipelineInv /\ [Next]_vars => PipelineInv'
  <2> SUFFICES ASSUME PipelineInv, [Next]_vars PROVE PipelineInv'
    OBVIOUS
  <2>1. clock \in Nat /\ drainBy \in Nat /\ cut \subseteq Requests /\ Running \subseteq Requests
    BY DEF PipelineInv, ServiceTypeOK, Running
  <2>2. CASE Tick
    <3>1. clock' \in Nat /\ drainBy' \in Nat /\ cut' \subseteq Requests
      BY <2>1, <2>2 DEF Tick, process
    <3>2. QED
      BY <2>2, <3>1, OthersKeepPipeline DEF Tick
  <2>3. CASE Serve \/ AcceptFails \/ SetReady \/ ListenError \/ Signal
    <3>1. UNCHANGED <<clock, drainBy, cut, pc, call, counters>>
      BY <2>3 DEF Serve, AcceptFails, SetReady, ListenError, Signal
    <3>2. QED
      BY <2>1, <3>1, OthersKeepPipeline
  <2>4. CASE Halt
    <3>1. UNCHANGED <<pc, call, counters>> /\ clock' \in Nat /\ drainBy' \in Nat /\ cut' \subseteq Requests
      BY <2>1, <2>4, ServiceAssumption DEF Halt, Shutdown, Drained, DrainExpired, CloseStore, Exit
    <3>2. QED
      BY <3>1, OthersKeepPipeline
  <2>5. CASE \E r \in Requests : RequestStep(r)
    BY <2>5, RequestKeepsPipeline
  <2>6. CASE UNCHANGED vars
    <3>1. UNCHANGED <<clock, drainBy, cut, pc, call, counters>>
      BY <2>6 DEF vars, process
    <3>2. QED
      BY <2>1, <3>1, OthersKeepPipeline
  <2>7. QED
    BY <2>2, <2>3, <2>4, <2>5, <2>6 DEF Next
<1>3. QED
  BY <1>1, <1>2, PTL DEF Spec

\* Whatever way requests end, once none is under way every slot is back and the
\* gauge is at zero: limitMW and metricsMW give back what they took.
THEOREM SlotsComeBack == Spec => []NothingLeaks
<1>1. PipelineInv => NothingLeaks
  <2> SUFFICES ASSUME PipelineInv, Running = {} PROVE sem = 0 /\ inflight = 0
    BY DEF NothingLeaks
  <2>1. Holding = {}
    BY DEF Holding, Holds, Running
  <2>2. QED
    BY <2>1, FS_EmptySet DEF PipelineInv, Books
<1>2. QED
  BY <1>1, PipelineInvariant, PTL

\* A request that was answered in time has published one sample, and once none is
\* under way requests_total tells the samples published and rejected the requests
\* shed: engine and metricsMW share out all but the late and the panicked.
THEOREM RequestsCounted == Spec => []AnswersCountedOnce
<1>1. PipelineInv => AnswersCountedOnce
  <2> SUFFICES ASSUME PipelineInv PROVE AnswersCountedOnce
    OBVIOUS
  <2>1. ASSUME NEW r \in Requests, pc[r] = "done", call[r].end \notin InTrouble
        PROVE  call[r].samples = 1
    BY <2>1 DEF PipelineInv, OnTheWay, Been, InTrouble
  <2>2. QED
    BY <2>1 DEF AnswersCountedOnce, PipelineInv, Books, Turned
<1>2. QED
  BY <1>1, PipelineInvariant, PTL

-----------------------------------------------------------------------------
(* The drain.                                                              *)

\* What a move of one request has to keep for the drain.
LEMMA MoveKeepsDrain ==
  ASSUME PipelineInv, DrainInv, NEW r \in Requests, NEW c \in Calls, NEW to \in Steps,
         Moves(r, c, to), UNCHANGED <<clock, main, drainBy, cut>>, NobodyEnters',
         to \notin {"new", "done"} => (Prompt(r) /\ Short(r) /\ InTime(r))',
         r \in cut => to \notin {"new", "limit"} /\ (c.kind # "chat" => c.deadline = 0)
  PROVE  DrainInv'
<1>1. /\ pc'[r] = to /\ call'[r] = c
      /\ \A s \in Requests \ {r} : pc'[s] = pc[s] /\ call'[s] = call[s]
  BY MoveParts DEF PipelineInv
<1>2. Underway'
  <2>1. SUFFICES ASSUME NEW s \in Requests, pc'[s] \notin {"new", "done"}
                 PROVE  (Prompt(s) /\ Short(s) /\ InTime(s))'
    BY DEF Underway, Running
  <2>2. CASE s = r
    BY <1>1, <2>1, <2>2
  <2>3. CASE s # r
    <3>1. pc'[s] = pc[s] /\ call'[s] = call[s] /\ s \in Running
      BY <1>1, <2>1, <2>3 DEF Running
    <3>2. Prompt(s) /\ Short(s) /\ InTime(s)
      BY <3>1 DEF DrainInv, Underway
    <3>3. QED
      BY <3>1, <3>2 DEF Prompt, Short, InTime
  <2>4. QED
    BY <2>2, <2>3
<1>3. Admitted'
  BY <1>1 DEF DrainInv, Admitted, PipelineInv, ServiceTypeOK
<1>4. QED
  BY <1>2, <1>3 DEF DrainInv

\* A request that was at the semaphore is not among those cut off.
LEMMA InnerMoveKeepsDrain ==
  ASSUME PipelineInv, DrainInv, NEW r \in Requests, MovesOn(r)
  PROVE  DrainInv'
<1>1. PICK c \in Calls, to \in Steps \ {"new", "limit"} :
        Moves(r, c, to) /\ c.kind = call[r].kind /\ c.deadline = call[r].deadline
  BY DEF MovesOn
<1>2. pc'[r] = to /\ call'[r] = c
  BY <1>1, MoveParts DEF PipelineInv
<1>3. Prompt(r) /\ Short(r) /\ InTime(r)
  BY DEF DrainInv, Underway, MovesOn
<1>4. (Prompt(r) /\ Short(r) /\ InTime(r))'
  BY <1>1, <1>2, <1>3 DEF Prompt, Short, InTime, MovesOn, process
<1>5. NobodyEnters' /\ UNCHANGED <<clock, main, drainBy, cut>>
  BY DEF DrainInv, NobodyEnters, MovesOn, process
<1>6. r \in cut => (c.kind # "chat" => c.deadline = 0)
  BY <1>1 DEF DrainInv, Admitted
<1>7. QED
  BY <1>1, <1>4, <1>5, <1>6, MoveKeepsDrain

\* A request comes in before the drain only, and without a deadline.
LEMMA ArriveKeepsDrain ==
  ASSUME PipelineInv, DrainInv, NEW r \in Requests, Arrive(r)
  PROVE  DrainInv'
<1>1. PICK kind \in Kinds : call' = [call EXCEPT ![r].kind = kind]
  BY DEF Arrive
<1> DEFINE c == [call[r] EXCEPT !.kind = kind]
<1>2. pc[r] = "new" /\ call[r] = NotYet
  BY PipelineHere DEF Arrive, Been
<1>3. c \in Calls /\ c.kind = kind /\ c.deadline = 0 /\ c.end = "none" /\ c.samples = 0
  BY <1>2, PipelineHere DEF NotYet, Calls
<1>4. Moves(r, c, "limit")
  BY <1>1, <1>3, PipelineHere DEF Moves, Arrive, Goto, Been
<1>5. pc'[r] = "limit" /\ call'[r] = c
  BY <1>3, <1>4, MoveParts DEF PipelineInv, Steps
<1>6. main # "drain" /\ UNCHANGED <<clock, main, drainBy, cut>> /\ NobodyEnters'
  BY DEF Arrive, process, DrainInv, NobodyEnters
<1>7. (Prompt(r) /\ Short(r) /\ InTime(r))'
  BY <1>3, <1>5, <1>6, PipelineHere, ServiceAssumption DEF Prompt, Short, InTime
<1>8. r \notin cut
  BY <1>2 DEF DrainInv, Admitted
<1>9. QED
  BY <1>3, <1>4, <1>6, <1>7, <1>8, MoveKeepsDrain DEF Steps

\* The deadline of an admitted request lies ahead, and before the drain's end.
LEMMA AdmitKeepsDrain ==
  ASSUME DeadlinesFitTheDrain, PipelineInv, DrainInv, NEW r \in Requests, Admit(r)
  PROVE  DrainInv'
<1>1. /\ pc[r] = "limit" /\ call[r].end = "none" /\ call[r].samples = 0 /\ call[r].kind \in Kinds
  BY PipelineHere DEF Admit, Been
<1>2. PICK t \in Timeouts(call[r].kind) : call' = [call EXCEPT ![r].deadline = IF t = 0 THEN 0 ELSE clock + t]
  BY DEF Admit
<1>3. t \in Nat /\ (call[r].kind # "chat" => t < DrainTimeout) /\ clock \in Nat /\ DrainTimeout \in Nat \ {0}
  BY PipelineHere, ServiceAssumption DEF Timeouts, DeadlinesFitTheDrain
<1> DEFINE d == IF t = 0 THEN 0 ELSE clock + t
           c == [call[r] EXCEPT !.deadline = d]
<1>4. d \in Nat /\ (d > 0 => clock <= d) /\ (call[r].kind # "chat" => d < clock + DrainTimeout)
  BY <1>3
<1>5. /\ c \in Calls /\ c.kind = call[r].kind /\ c.end = "none" /\ c.samples = 0 /\ c.deadline = d
      /\ call' = [call EXCEPT ![r] = c]
  BY <1>1, <1>2, <1>4, PipelineHere DEF Calls
<1>6. Moves(r, c, "handler")
  BY <1>1, <1>5 DEF Moves, Admit, Goto, Been
<1>7. pc'[r] = "handler" /\ call'[r] = c
  BY <1>5, <1>6, MoveParts DEF PipelineInv, Steps
<1>8. UNCHANGED <<clock, main, drainBy, cut>> /\ NobodyEnters'
  BY DEF Admit, process, DrainInv, NobodyEnters
<1>9. main = "drain" => clock + DrainTimeout = drainBy
  BY <1>1 DEF DrainInv, Underway, InTime, Running
<1>10. (Prompt(r) /\ Short(r) /\ InTime(r))'
  BY <1>4, <1>5, <1>7, <1>8, <1>9 DEF Prompt, Short, InTime
<1>11. r \notin cut
  BY <1>1 DEF DrainInv, Admitted
<1>12. QED
  BY <1>5, <1>6, <1>8, <1>10, <1>11, MoveKeepsDrain DEF Steps

LEMMA RequestKeepsDrain ==
  ASSUME DeadlinesFitTheDrain, PipelineInv, DrainInv, NEW r \in Requests, RequestStep(r)
  PROVE  DrainInv'
BY RequestMoves, ArriveKeepsDrain, AdmitKeepsDrain, InnerMoveKeepsDrain

\* Time passes only while every request is in its handler, none of them overdue.
LEMMA TickKeepsDrain ==
  ASSUME PipelineInv, DrainInv, Tick
  PROVE  DrainInv'
<1>1. /\ clock \in Nat /\ clock' = clock + 1 /\ main' = main /\ drainBy' = drainBy /\ listener' = listener
      /\ pc' = pc /\ call' = call /\ cut' = cut /\ DrainTimeout \in Nat
  BY ServiceAssumption DEF Tick, process, PipelineInv, ServiceTypeOK
<1>2. Underway'
  <2>1. SUFFICES ASSUME NEW r \in Running PROVE (Prompt(r) /\ Short(r) /\ InTime(r))'
    BY <1>1 DEF Underway, Running
  <2>2. /\ pc[r] = "handler" /\ ~Overdue(r) /\ call[r].deadline \in Nat
        /\ Prompt(r) /\ Short(r) /\ InTime(r)
    BY PipelineHere DEF Tick, DrainInv, Underway, Running, Calls
  <2>3. QED
    BY <1>1, <2>2 DEF Prompt, Short, InTime, Overdue
<1>3. QED
  BY <1>1, <1>2 DEF DrainInv, NobodyEnters, Admitted

\* The drain begins with deadlines that all lie within it, and the connections
\* it closes in the end are those of requests it could not have waited for.
LEMMA ProcessKeepsDrain ==
  ASSUME PipelineInv, DrainInv, NobodyEnters', UNCHANGED <<clock, pc, call>>,
         main' = "drain" => \/ main = "drain" /\ drainBy' = drainBy
                            \/ drainBy' = clock + DrainTimeout,
         \/ cut' = cut
         \/ cut' = Running /\ main = "drain" /\ clock >= drainBy
  PROVE  DrainInv'
<1>1. /\ clock \in Nat /\ clock' = clock /\ pc' = pc /\ call' = call /\ DrainTimeout \in Nat \ {0}
      /\ drainBy \in Nat
  BY ServiceAssumption DEF PipelineInv, ServiceTypeOK
<1>2. Underway'
  <2>1. SUFFICES ASSUME NEW r \in Running PROVE (Prompt(r) /\ Short(r) /\ InTime(r))'
    BY <1>1 DEF Underway, Running
  <2>2. Prompt(r) /\ Short(r) /\ InTime(r)
    BY DEF DrainInv, Underway
  <2>3. QED
    BY <1>1, <2>2 DEF Prompt, Short, InTime
<1>3. Admitted'
  <2>1. CASE cut' = cut
    BY <1>1, <2>1 DEF DrainInv, Admitted
  <2>2. CASE cut' = Running /\ main = "drain" /\ clock >= drainBy
    <3>1. SUFFICES ASSUME NEW r \in Running
                   PROVE  pc[r] \notin {"new", "limit"} /\ (call[r].kind # "chat" => call[r].deadline = 0)
      BY <1>1, <2>2 DEF Admitted
    <3>2. Prompt(r) /\ InTime(r) /\ pc[r] # "new" /\ call[r].deadline \in Nat
      BY PipelineHere DEF DrainInv, Underway, Running, Calls
    <3>3. QED
      BY <1>1, <2>2, <3>2 DEF Prompt, InTime
  <2>3. QED
    BY <2>1, <2>2
<1>4. QED
  BY <1>2, <1>3 DEF DrainInv

LEMMA DrainInvariant == ASSUME DeadlinesFitTheDrain PROVE Spec => []DrainInv
<1>1. Init => DrainInv
  BY DEF Init, DrainInv, NobodyEnters, Underway, Running, Admitted
<1>2. PipelineInv /\ DrainInv /\ [Next]_vars => DrainInv'
  <2> SUFFICES ASSUME PipelineInv, DrainInv, [Next]_vars PROVE DrainInv'
    OBVIOUS
  <2>1. CASE Tick
    BY <2>1, TickKeepsDrain
  <2>2. CASE Serve \/ AcceptFails \/ SetReady \/ ListenError \/ Signal
    <3>1. /\ UNCHANGED <<clock, pc, call>> /\ cut' = cut /\ drainBy' = drainBy /\ NobodyEnters'
          /\ main' # "drain" \/ main' = main
      BY <2>2 DEF Serve, AcceptFails, SetReady, ListenError, Signal, DrainInv, NobodyEnters
    <3>2. QED
      BY <3>1, ProcessKeepsDrain
  <2>3. CASE Halt
    <3>1. /\ UNCHANGED <<clock, pc, call>> /\ NobodyEnters'
          /\ main' = "drain" => \/ main = "drain" /\ drainBy' = drainBy
                                \/ drainBy' = clock + DrainTimeout
          /\ cut' = cut \/ (cut' = Running /\ main = "drain" /\ clock >= drainBy)
      BY <2>3 DEF Halt, Shutdown, Drained, DrainExpired, CloseStore, Exit, DrainInv, NobodyEnters
    <3>2. QED
      BY <3>1, ProcessKeepsDrain
  <2>4. CASE \E r \in Requests : RequestStep(r)
    BY <2>4, RequestKeepsDrain
  <2>5. CASE UNCHANGED vars
    <3>1. UNCHANGED <<clock, pc, call, cut, drainBy, main, listener>>
      BY <2>5 DEF vars, process
    <3>2. NobodyEnters'
      BY <3>1 DEF DrainInv, NobodyEnters
    <3>3. QED
      BY <3>1, <3>2, ProcessKeepsDrain
  <2>6. QED
    BY <2>1, <2>2, <2>3, <2>4, <2>5 DEF Next
<1>3. QED
  BY <1>1, <1>2, PipelineInvariant, PTL DEF Spec

\* When every deadline of /process is shorter than the drain, the drain of
\* cmd/server cuts off no /process request that has one.
THEOREM DrainSpares == ASSUME DeadlinesFitTheDrain PROVE Spec => []DrainSparesProcess
<1>1. DrainInv => DrainSparesProcess
  BY DEF DrainInv, Admitted, DrainSparesProcess
<1>2. QED
  BY <1>1, DrainInvariant, PTL

-----------------------------------------------------------------------------
(* The ring behind the request rate.  A slot belongs to one second at a      *)
(* time: two writers at work in it stand for the same second, because none   *)
(* sleeps while the ring turns.                                              *)

WriterSteps == {"idle", "load", "claim", "zero", "add"}
Sample == [now : Nat, prev : Nat, done : Nat]
Writing(w) == step[w] # "idle"
StampOf(w) == stamps[Slot(sample[w].now)]

\* Every variable has its type; no stamp is of the future.
MetricsTypeOK ==
  /\ second \in Seconds
  /\ step \in [Writers -> WriterSteps] /\ sample \in [Writers -> Sample]
  /\ stamps \in [Slots -> 0 .. second] /\ counts \in [Slots -> Int]
  /\ tally \in [Seconds -> Nat] /\ overlapped \in [Seconds -> Nat]

\* What a writer in ringWindow.add knows of its slot.
InTheRing ==
  \A w \in Writers : Writing(w) =>
    /\ sample[w].now \in Seconds /\ sample[w].now <= second /\ second < sample[w].now + RateBuckets
    /\ step[w] = "claim" => sample[w].prev # sample[w].now /\ StampOf(w) \in {sample[w].prev, sample[w].now}
    /\ step[w] \in {"zero", "add"} => StampOf(w) = sample[w].now

\* Only one of the writers that see a stale stamp wins the claim.
OneClaim ==
  \A v, w \in Writers :
    step[v] = "zero" /\ step[w] = "zero" /\ sample[v].now = sample[w].now => v = w

\* The slot of a second the ring still has room for: before it is claimed, from
\* the claim to the zeroing, and from then on.
Kept(s) ==
  IF stamps[Slot(s)] # s THEN tally[s] = 0 /\ overlapped[s] = 0 /\ ~Claiming(s)
  ELSE IF Claiming(s) THEN tally[s] = overlapped[s]
  ELSE counts[Slot(s)] = tally[s] - overlapped[s]

RingInv ==
  /\ MetricsTypeOK /\ InTheRing /\ OneClaim
  /\ \A s \in Seconds : second < s + RateBuckets => Kept(s)

-----------------------------------------------------------------------------
(* Slots *)

LEMMA SlotType ==
  ASSUME NEW s \in Nat
  PROVE  Slot(s) \in Slots
  BY MetricsAssumption DEF Slot, Slots

\* Seconds less than a turn of the ring apart have slots of their own.
LEMMA SameSecond ==
  ASSUME NEW s \in Nat, NEW t \in Nat, Slot(s) = Slot(t), s < t + RateBuckets, t < s + RateBuckets
  PROVE  s = t
<1> DEFINE B == RateBuckets
           p == s \div B
           q == t \div B
<1>1. B \in Nat /\ B > 0 /\ p \in Int /\ q \in Int
  BY MetricsAssumption
<1>2. s = B * p + Slot(s) /\ t = B * q + Slot(t) /\ Slot(s) \in Int
  BY <1>1, SMT DEF Slot
<1> HIDE DEF p, q
<1>3. s - t = B * p - B * q /\ B * p - B * q = B * (p - q)
  <2>1. B * p \in Int /\ B * q \in Int
    BY <1>1, SMT
  <2>2. s - t = B * p - B * q
    BY <1>2, <2>1
  <2>3. B * p - B * q = B * (p - q)
    BY <1>1, SMT
  <2>4. QED
    BY <2>2, <2>3
<1>4. B * (p - q) < B /\ B * (q - p) < B
  <2>1. s - t < B /\ t - s < B
    BY <1>1
  <2>2. B * (q - p) = - (B * (p - q)) /\ B * (p - q) \in Int
    BY <1>1, SMT
  <2>3. QED
    BY <1>3, <2>1, <2>2
<1>5. p = q
  <2>1. CASE p - q >= 1
    <3>1. B * (p - q) >= B
      BY <1>1, <2>1, SMT
    <3>2. QED
      BY <1>1, <1>4, <3>1, SMT
  <2>2. CASE q - p >= 1
    <3>1. B * (q - p) >= B
      BY <1>1, <2>2, SMT
    <3>2. QED
      BY <1>1, <1>4, <3>1, SMT
  <2>3. QED
    BY <1>1, <2>1, <2>2
<1>6. QED
  BY <1>2, <1>5

\* Writers at work in one slot stand for one second.
LEMMA SameSlot ==
  ASSUME RingInv, NEW v \in Writers, NEW w \in Writers, Writing(v), Writing(w),
         Slot(sample[v].now) = Slot(sample[w].now)
  PROVE  sample[v].now = sample[w].now
<1>1. /\ sample[v].now \in Nat /\ sample[w].now \in Nat /\ second \in Nat
      /\ sample[v].now <= second /\ second < sample[v].now + RateBuckets
      /\ sample[w].now <= second /\ second < sample[w].now + RateBuckets
  BY MetricsAssumption DEF RingInv, InTheRing, MetricsTypeOK, Sample, Seconds
<1>2. sample[v].now < sample[w].now + RateBuckets /\ sample[w].now < sample[v].now + RateBuckets
  BY <1>1, MetricsAssumption
<1>3. QED
  BY <1>1, <1>2, SameSecond

\* A second the ring has room for, in the slot a writer works in, is the writer's.
LEMMA WritersSecond ==
  ASSUME RingInv, NEW w \in Writers, Writing(w), NEW s \in Seconds, second < s + RateBuckets,
         s <= second, Slot(s) = Slot(sample[w].now)
  PROVE  s = sample[w].now
<1>1. /\ sample[w].now \in Nat /\ second \in Nat /\ s \in Nat
      /\ sample[w].now <= second /\ second < sample[w].now + RateBuckets
  BY MetricsAssumption DEF RingInv, InTheRing, MetricsTypeOK, Sample, Seconds
<1>2. s < sample[w].now + RateBuckets /\ sample[w].now < s + RateBuckets
  BY <1>1, MetricsAssumption
<1>3. QED
  BY <1>1, <1>2, SameSecond

-----------------------------------------------------------------------------
(* The steps of ringWindow.add *)

LEMMA RingBegins == MetricsInit => RingInv
<1> SUFFICES ASSUME MetricsInit PROVE RingInv
  OBVIOUS
<1>1. MetricsTypeOK
  BY MetricsAssumption DEF MetricsInit, MetricsTypeOK, Seconds, WriterSteps, Sample, Slots
<1>2. \A w \in Writers : step[w] = "idle"
  BY DEF MetricsInit
<1>3. ASSUME NEW s \in Seconds PROVE Kept(s)
  <2>1. s # 0 /\ Slot(s) \in Slots
    BY SlotType, MetricsAssumption DEF Seconds
  <2>2. stamps[Slot(s)] = 0
    BY <2>1 DEF MetricsInit
  <2>3. QED
    BY <1>2, <2>1, <2>2 DEF MetricsInit, Kept, Claiming
<1>4. QED
  BY <1>1, <1>2, <1>3 DEF RingInv, InTheRing, Writing, OneClaim

LEMMA ReadClockKeeps ==
  ASSUME RingInv, NEW w \in Writers, ReadClock(w)
  PROVE  RingInv'
<1>1. /\ step[w] = "idle" /\ step' = [step EXCEPT ![w] = "load"]
      /\ sample' = [sample EXCEPT ![w].now = second]
      /\ UNCHANGED <<second, stamps, counts, tally, overlapped>>
  BY DEF ReadClock, Advance, ring
<1>2. second \in Nat /\ second \in Seconds /\ second < second + RateBuckets
  BY MetricsAssumption DEF RingInv, MetricsTypeOK, Seconds
<1>3. /\ sample'[w].now = second /\ \A v \in Writers \ {w} : sample'[v] = sample[v] /\ step'[v] = step[v]
      /\ step'[w] = "load"
  BY <1>1 DEF RingInv, MetricsTypeOK
<1>4. MetricsTypeOK'
  BY <1>1, <1>2 DEF RingInv, MetricsTypeOK, WriterSteps, Sample
<1>5. InTheRing'
  BY <1>1, <1>2, <1>3 DEF RingInv, InTheRing, Writing, StampOf
<1>6. OneClaim'
  BY <1>3 DEF RingInv, OneClaim
<1>7. \A s \in Seconds : Claiming(s)' = Claiming(s)
  BY <1>1, <1>3 DEF Claiming
<1>8. QED
  BY <1>1, <1>4, <1>5, <1>6, <1>7 DEF RingInv, Kept

LEMMA LoadKeeps ==
  ASSUME RingInv, NEW w \in Writers, Load(w)
  PROVE  RingInv'
<1> DEFINE to == IF StampOf(w) = sample[w].now THEN "add" ELSE "claim"
<1>1. /\ step[w] = "load" /\ step' = [step EXCEPT ![w] = to]
      /\ sample' = [sample EXCEPT ![w].prev = StampOf(w)]
      /\ UNCHANGED <<second, stamps, counts, tally, overlapped>>
  BY DEF Load, Advance, ring, StampOf
<1>2. sample[w].now \in Nat /\ Slot(sample[w].now) \in Slots /\ StampOf(w) \in Nat
  <2>1. sample[w].now \in Nat /\ second \in Nat
    BY MetricsAssumption DEF RingInv, MetricsTypeOK, Sample, Seconds
  <2>2. QED
    BY <2>1, SlotType DEF RingInv, MetricsTypeOK, StampOf
<1>3. /\ sample'[w].now = sample[w].now /\ sample'[w].prev = StampOf(w)
      /\ \A v \in Writers \ {w} : sample'[v] = sample[v] /\ step'[v] = step[v]
      /\ step'[w] = to /\ to \in {"add", "claim"}
  BY <1>1 DEF RingInv, MetricsTypeOK
<1>4. MetricsTypeOK'
  BY <1>1, <1>2 DEF RingInv, MetricsTypeOK, WriterSteps, Sample
<1>5. InTheRing'
  BY <1>1, <1>3 DEF RingInv, InTheRing, Writing, StampOf
<1>6. OneClaim'
  BY <1>3 DEF RingInv, OneClaim
<1>7. \A s \in Seconds : Claiming(s)' = Claiming(s)
  BY <1>1, <1>3 DEF Claiming
<1>8. QED
  BY <1>1, <1>4, <1>5, <1>6, <1>7 DEF RingInv, Kept

\* The compare-and-swap fails: another writer has claimed the slot for this second.
LEMMA ClaimLostKeeps ==
  ASSUME RingInv, NEW w \in Writers, Claim(w), StampOf(w) # sample[w].prev
  PROVE  RingInv'
<1>1. /\ step[w] = "claim" /\ step' = [step EXCEPT ![w] = "add"]
      /\ UNCHANGED <<second, sample, stamps, counts, tally, overlapped>>
  BY DEF Claim, Advance, StampOf
<1>2. step'[w] = "add" /\ \A v \in Writers \ {w} : step'[v] = step[v]
  BY <1>1 DEF RingInv, MetricsTypeOK
<1>3. MetricsTypeOK'
  BY <1>1 DEF RingInv, MetricsTypeOK, WriterSteps
<1>4. InTheRing'
  BY <1>1, <1>2 DEF RingInv, InTheRing, Writing, StampOf
<1>5. OneClaim'
  BY <1>1, <1>2 DEF RingInv, OneClaim
<1>6. \A s \in Seconds : Claiming(s)' = Claiming(s)
  BY <1>1, <1>2 DEF Claiming
<1>7. QED
  BY <1>1, <1>3, <1>4, <1>5, <1>6 DEF RingInv, Kept

LEMMA ClaimWonKeeps ==
  ASSUME RingInv, NEW w \in Writers, Claim(w), StampOf(w) = sample[w].prev
  PROVE  RingInv'
<1> DEFINE now == sample[w].now
           i == Slot(now)
<1>1. /\ step[w] = "claim" /\ step' = [step EXCEPT ![w] = "zero"]
      /\ stamps' = [stamps EXCEPT ![i] = now]
      /\ UNCHANGED <<second, sample, counts, tally, overlapped>>
  BY DEF Claim, Advance, StampOf
<1>2. step'[w] = "zero" /\ \A v \in Writers \ {w} : step'[v] = step[v]
  BY <1>1 DEF RingInv, MetricsTypeOK
<1>3. /\ now \in Seconds /\ now \in 0 .. second /\ now \in Nat /\ i \in Slots
      /\ second < now + RateBuckets /\ stamps[i] # now
  <2>1. /\ now \in Seconds /\ now <= second /\ second < now + RateBuckets
        /\ sample[w].prev # now
    BY <1>1 DEF RingInv, InTheRing, Writing
  <2>2. now \in Nat /\ second \in Nat
    BY MetricsAssumption DEF RingInv, MetricsTypeOK, Sample, Seconds
  <2>3. QED
    BY <2>1, <2>2, SlotType DEF StampOf
<1>4. stamps'[i] = now /\ \A j \in Slots \ {i} : stamps'[j] = stamps[j]
  BY <1>1, <1>3 DEF RingInv, MetricsTypeOK
<1>5. MetricsTypeOK'
  BY <1>1, <1>3 DEF RingInv, MetricsTypeOK, WriterSteps
<1>6. ASSUME NEW v \in Writers, Writing(v), Slot(sample[v].now) = i
      PROVE  sample[v].now = now /\ step[v] \notin {"zero", "add"}
  <2>1. sample[v].now = now
    BY <1>1, <1>6, SameSlot DEF Writing
  <2>2. QED
    BY <1>3, <1>6, <2>1 DEF RingInv, InTheRing, StampOf
<1>7. \A v \in Writers : Writing(v) => Slot(sample[v].now) \in Slots
  BY SlotType DEF RingInv, MetricsTypeOK, Sample
<1>8. InTheRing'
  <2> SUFFICES ASSUME NEW v \in Writers, Writing(v)'
               PROVE  /\ sample[v].now \in Seconds /\ sample[v].now <= second /\ second < sample[v].now + RateBuckets
                      /\ step'[v] = "claim" => sample[v].prev # sample[v].now
                                              /\ stamps'[Slot(sample[v].now)] \in {sample[v].prev, sample[v].now}
                      /\ step'[v] \in {"zero", "add"} => stamps'[Slot(sample[v].now)] = sample[v].now
    BY <1>1 DEF InTheRing, StampOf
  <2>1. Writing(v)
    BY <1>1, <1>2 DEF Writing
  <2>2. CASE v = w
    BY <1>1, <1>2, <1>4, <2>1, <2>2 DEF RingInv, InTheRing
  <2>3. CASE v # w /\ Slot(sample[v].now) = i
    BY <1>2, <1>4, <1>6, <2>1, <2>3 DEF RingInv, InTheRing
  <2>4. CASE v # w /\ Slot(sample[v].now) # i
    BY <1>2, <1>4, <1>7, <2>1, <2>4 DEF RingInv, InTheRing, StampOf
  <2>5. QED
    BY <2>2, <2>3, <2>4
<1>9. OneClaim'
  <2> SUFFICES ASSUME NEW u \in Writers, NEW v \in Writers, step'[u] = "zero", step'[v] = "zero",
                      sample[u].now = sample[v].now
               PROVE  u = v
    BY <1>1 DEF OneClaim
  <2>1. \A x \in Writers \ {w} : step'[x] = "zero" => sample[x].now # now
    BY <1>2, <1>6 DEF Writing
  <2>2. QED
    BY <1>2, <2>1 DEF RingInv, OneClaim
<1>10. \A s \in Seconds : s # now => Claiming(s)' = Claiming(s)
  BY <1>1, <1>2 DEF Claiming
<1>11. Claiming(now)'
  BY <1>1, <1>2 DEF Claiming
<1>12. ASSUME NEW s \in Seconds, second < s + RateBuckets PROVE Kept(s)'
  <2>1. Kept(s) /\ s \in Nat /\ Slot(s) \in Slots /\ second \in Nat
    <3>1. s \in Nat /\ second \in Nat
      BY MetricsAssumption DEF RingInv, MetricsTypeOK, Seconds
    <3>2. QED
      BY <1>12, <3>1, SlotType DEF RingInv
  <2>2. CASE s = now
    BY <1>1, <1>3, <1>4, <1>11, <2>1, <2>2 DEF Kept
  <2>3. CASE s # now /\ Slot(s) # i
    BY <1>1, <1>4, <1>10, <2>1, <2>3 DEF Kept
  <2>4. CASE s # now /\ Slot(s) = i
    <3>1. s > second
      BY <1>1, <1>12, <2>1, <2>4, WritersSecond DEF Writing
    <3>2. stamps[i] # s
      BY <1>3, <2>1, <3>1 DEF RingInv, MetricsTypeOK
    <3>3. QED
      BY <1>1, <1>4, <1>10, <2>1, <2>4, <3>2 DEF Kept
  <2>5. QED
    BY <2>2, <2>3, <2>4
<1>13. QED
  BY <1>1, <1>5, <1>8, <1>9, <1>12 DEF RingInv

LEMMA ZeroKeeps ==
  ASSUME RingInv, NEW w \in Writers, Zero(w)
  PROVE  RingInv'
<1> DEFINE now == sample[w].now
           i == Slot(now)
<1>1. /\ step[w] = "zero" /\ step' = [step EXCEPT ![w] = "add"]
      /\ counts' = [counts EXCEPT ![i] = 0]
      /\ UNCHANGED <<second, sample, stamps, tally, overlapped>>
  BY DEF Zero, Advance
<1>2. step'[w] = "add" /\ \A v \in Writers \ {w} : step'[v] = step[v]
  BY <1>1 DEF RingInv, MetricsTypeOK
<1>3. /\ now \in Seconds /\ i \in Slots /\ stamps[i] = now /\ second < now + RateBuckets
      /\ now <= second
  BY <1>1, SlotType DEF RingInv, InTheRing, Writing, StampOf, MetricsTypeOK, Sample
<1>4. counts'[i] = 0 /\ \A j \in Slots \ {i} : counts'[j] = counts[j]
  BY <1>1, <1>3 DEF RingInv, MetricsTypeOK
<1>5. MetricsTypeOK'
  BY <1>1, <1>3 DEF RingInv, MetricsTypeOK, WriterSteps
<1>6. InTheRing'
  BY <1>1, <1>2 DEF RingInv, InTheRing, Writing, StampOf
<1>7. OneClaim'
  BY <1>1, <1>2 DEF RingInv, OneClaim
<1>8. \A s \in Seconds : s # now => Claiming(s)' = Claiming(s)
  BY <1>1, <1>2 DEF Claiming
<1>9. Claiming(now) /\ ~Claiming(now)'
  BY <1>1, <1>2 DEF Claiming, RingInv, OneClaim
<1>10. ASSUME NEW s \in Seconds, second < s + RateBuckets PROVE Kept(s)'
  <2>1. Kept(s) /\ s \in Nat /\ Slot(s) \in Slots /\ tally[s] \in Nat
    <3>1. s \in Nat /\ tally[s] \in Nat
      BY MetricsAssumption DEF RingInv, MetricsTypeOK, Seconds
    <3>2. QED
      BY <1>10, <3>1, SlotType DEF RingInv
  <2>2. CASE s = now
    BY <1>1, <1>3, <1>4, <1>9, <2>1, <2>2 DEF Kept
  <2>3. CASE s # now /\ Slot(s) # i
    BY <1>1, <1>4, <1>8, <2>1, <2>3 DEF Kept
  <2>4. CASE s # now /\ Slot(s) = i
    BY <1>1, <1>3, <1>8, <2>1, <2>4 DEF Kept
  <2>5. QED
    BY <2>2, <2>3, <2>4
<1>11. QED
  BY <1>1, <1>5, <1>6, <1>7, <1>10 DEF RingInv

LEMMA AddKeeps ==
  ASSUME RingInv, NEW w \in Writers, Add(w)
  PROVE  RingInv'
<1> DEFINE now == sample[w].now
           i == Slot(now)
           lost == IF Claiming(now) THEN overlapped[now] + 1 ELSE overlapped[now]
<1>1. /\ step[w] = "add" /\ step' = [step EXCEPT ![w] = "idle"]
      /\ counts' = [counts EXCEPT ![i] = @ + 1] /\ tally' = [tally EXCEPT ![now] = @ + 1]
      /\ overlapped' = [overlapped EXCEPT ![now] = lost]
      /\ sample' = [sample EXCEPT ![w].done = @ + 1]
      /\ UNCHANGED <<second, stamps>>
  BY DEF Add, Advance
<1>2. step'[w] = "idle" /\ \A v \in Writers \ {w} : step'[v] = step[v] /\ sample'[v] = sample[v]
  BY <1>1 DEF RingInv, MetricsTypeOK
<1>3. /\ now \in Seconds /\ i \in Slots /\ stamps[i] = now
      /\ counts[i] \in Int /\ tally[now] \in Nat /\ overlapped[now] \in Nat
  BY <1>1, SlotType DEF RingInv, InTheRing, Writing, StampOf, MetricsTypeOK, Sample
<1>4. /\ counts'[i] = counts[i] + 1 /\ \A j \in Slots \ {i} : counts'[j] = counts[j]
      /\ tally'[now] = tally[now] + 1 /\ overlapped'[now] = lost
      /\ \A s \in Seconds \ {now} : tally'[s] = tally[s] /\ overlapped'[s] = overlapped[s]
  BY <1>1, <1>3 DEF RingInv, MetricsTypeOK
<1>5. lost \in Nat
  BY <1>3
<1>6. MetricsTypeOK'
  BY <1>1, <1>3, <1>5 DEF RingInv, MetricsTypeOK, WriterSteps, Sample
<1>7. InTheRing'
  BY <1>1, <1>2 DEF RingInv, InTheRing, Writing, StampOf
<1>8. OneClaim'
  BY <1>2 DEF RingInv, OneClaim
<1>9. \A s \in Seconds : Claiming(s)' = Claiming(s)
  BY <1>1, <1>2 DEF Claiming
<1>10. ASSUME NEW s \in Seconds, second < s + RateBuckets PROVE Kept(s)'
  <2>1. Kept(s) /\ s \in Nat /\ Slot(s) \in Slots
    BY <1>10, SlotType, MetricsAssumption DEF RingInv, Seconds
  <2>2. CASE s = now
    BY <1>1, <1>3, <1>4, <1>9, <2>1, <2>2 DEF Kept
  <2>3. CASE s # now /\ Slot(s) # i
    BY <1>1, <1>4, <1>9, <2>1, <2>3 DEF Kept
  <2>4. CASE s # now /\ Slot(s) = i
    BY <1>1, <1>3, <1>4, <1>9, <2>1, <2>4 DEF Kept
  <2>5. QED
    BY <2>2, <2>3, <2>4
<1>11. QED
  BY <1>1, <1>6, <1>7, <1>8, <1>10 DEF RingInv

LEMMA NextSecondKeeps ==
  ASSUME RingInv, NextSecond
  PROVE  RingInv'
<1>1. /\ second < LastSecond /\ second' = second + 1
      /\ \A w \in Writers : Writing(w) => second + 1 - sample[w].now < RateBuckets
      /\ UNCHANGED <<step, sample, stamps, counts, tally, overlapped>>
  BY DEF NextSecond, Writing, ring
<1>2. second \in Nat /\ second' \in Seconds
  BY <1>1, MetricsAssumption DEF RingInv, MetricsTypeOK, Seconds
<1>3. MetricsTypeOK'
  BY <1>1, <1>2 DEF RingInv, MetricsTypeOK
<1>4. InTheRing'
  <2>1. ASSUME NEW w \in Writers, Writing(w)
        PROVE  sample[w].now <= second' /\ second' < sample[w].now + RateBuckets
    BY <1>1, <1>2, <2>1, MetricsAssumption DEF RingInv, InTheRing, MetricsTypeOK, Sample
  <2>2. QED
    BY <1>1, <2>1 DEF RingInv, InTheRing, Writing, StampOf
<1>5. OneClaim' /\ \A s \in Seconds : Kept(s)' = Kept(s)
  BY <1>1 DEF RingInv, OneClaim, Kept, Claiming
<1>6. \A s \in Seconds : second' < s + RateBuckets => second < s + RateBuckets
  BY <1>1, <1>2, MetricsAssumption DEF Seconds
<1>7. QED
  BY <1>3, <1>4, <1>5, <1>6 DEF RingInv

LEMMA RingInvariant == MetricsSpec => []RingInv
<1>1. RingInv /\ [MetricsNext]_metrics => RingInv'
  <2> SUFFICES ASSUME RingInv, [MetricsNext]_metrics PROVE RingInv'
    OBVIOUS
  <2>1. CASE UNCHANGED metrics
    BY <2>1 DEF metrics, ring, RingInv, MetricsTypeOK, InTheRing, Writing, StampOf, OneClaim, Kept, Claiming
  <2>2. QED
    BY <2>1, NextSecondKeeps, ReadClockKeeps, LoadKeeps, ClaimLostKeeps, ClaimWonKeeps, ZeroKeeps, AddKeeps
       DEF MetricsNext
<1>2. QED
  BY <1>1, RingBegins, PTL DEF MetricsSpec

\* The rate of internal/metrics tells every sample of each second of its window
\* once, but for those that meet the slot between its claim and its zeroing,
\* whatever writers race for it and however often the ring has turned.
THEOREM RateTellsEach == MetricsSpec => []RateExact
<1>1. RingInv => RateExact
  <2> SUFFICES ASSUME RingInv, NEW s \in Window(second), ~Claiming(s) PROVE Told(s) = tally[s] - overlapped[s]
    BY DEF RateExact
  <2>1. s \in Seconds /\ second < s + RateBuckets
    BY MetricsAssumption DEF Window, RingInv, MetricsTypeOK, Seconds
  <2>2. Kept(s)
    BY <2>1 DEF RingInv
  <2>3. QED
    BY <2>2 DEF Kept, Told
<1>2. QED
  BY <1>1, RingInvariant, PTL
=============================================================================
