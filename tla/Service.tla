------------------------------ MODULE Service ------------------------------
(***************************************************************************)
(* A request on its way through the layers of internal/httpapi            *)
(* (recoverMW, metricsMW, limitMW, timeoutMW), and the start and the drain  *)
(* of the process in cmd/server.  What the handler answers is left to       *)
(* Process and Chat, the cells behind a sample to Metrics: here a handler   *)
(* ends in one of a few ways.  bodyLimitMW and logMW keep no state.         *)
(* Slip_... marks a mistake the code could have made, not a part of it.     *)
(***************************************************************************)
EXTENDS Integers, FiniteSets

CONSTANTS
  Requests,          \* requests that may arrive, each once
  MaxConcurrent,     \* capacity of the semaphore, 0 for none
  ProcessTimeouts,   \* deadlines of /process under the live configurations, 0 for none
  ChatTimeout,       \* deadline of a chat request: the upstream's and a margin
  DrainTimeout,      \* the graceful shutdown may take this long
  Horizon            \* bound: the last second

ASSUME ServiceAssumption ==
  /\ IsFiniteSet(Requests)
  /\ MaxConcurrent \in Nat /\ DrainTimeout \in Nat \ {0} /\ ChatTimeout \in Nat
  /\ ProcessTimeouts \subseteq Nat

VARIABLES
  clock,
  main, listener, ready, storeOpen, drainBy,   \* the process
  pc, call,                                    \* request -> next step, what it is
  sem, inflight, requestsTotal, rejected,      \* the semaphore and the counters
  cut                 \* history: requests whose connection was closed under them

process == <<main, listener, ready, storeOpen, drainBy>>
counters == <<sem, inflight, requestsTotal, rejected>>
vars == <<clock, process, pc, call, counters, cut>>

Kinds == {"process", "chat", "probe"}
NotYet == [kind |-> "none", deadline |-> 0, end |-> "none", samples |-> 0]

Init ==
  /\ clock = 0
  /\ main = "start" /\ listener = "starting" /\ ready = FALSE /\ storeOpen = TRUE /\ drainBy = 0
  /\ pc = [r \in Requests |-> "new"] /\ call = [r \in Requests |-> NotYet]
  /\ sem = 0 /\ inflight = 0 /\ requestsTotal = 0 /\ rejected = 0
  /\ cut = {}

Running == {r \in Requests : pc[r] \notin {"new", "done"}}
Alive == main # "exited"
Goto(r, step) == pc' = [pc EXCEPT ![r] = step]
Ending(r, how) == call' = [call EXCEPT ![r].end = how]

-----------------------------------------------------------------------------
(* The layers.                                                             *)

\* metricsMW: the gauge goes up on the way in and down by a defer.
Arrive(r) ==
  /\ Alive /\ listener = "listening" /\ pc[r] = "new"
  /\ clock + ChatTimeout <= Horizon
  /\ \E kind \in Kinds : call' = [call EXCEPT ![r].kind = kind]
  /\ inflight' = inflight + 1
  /\ Goto(r, "limit")
  /\ UNCHANGED <<clock, process, sem, requestsTotal, rejected, cut>>

Limited(r) == MaxConcurrent > 0 /\ call[r].kind # "probe"

\* limitMW answers 429 at once when the semaphore is full.
Shed(r) ==
  /\ Alive /\ pc[r] = "limit" /\ Limited(r) /\ sem = MaxConcurrent
  /\ rejected' = rejected + 1
  /\ Ending(r, "shed")
  /\ Goto(r, "observe")
  /\ UNCHANGED <<clock, process, sem, inflight, requestsTotal, cut>>

Slip_ChatBudgetForAll(kind) == {ChatTimeout}
Timeouts(kind) == IF kind = "chat" THEN {ChatTimeout} ELSE ProcessTimeouts

\* timeoutMW starts the deadline once the request is admitted.
Admit(r) ==
  /\ Alive /\ pc[r] = "limit"
  /\ IF Limited(r) THEN sem < MaxConcurrent /\ sem' = sem + 1 ELSE UNCHANGED sem
  /\ \E d \in Timeouts(call[r].kind) :
       call' = [call EXCEPT ![r].deadline = IF d = 0 THEN 0 ELSE clock + d]
  /\ Goto(r, "handler")
  /\ UNCHANGED <<clock, process, inflight, requestsTotal, rejected, cut>>

\* How a handler ends, and where the samples come from: a /process call that the
\* engine answered is counted by the engine; one that ran out of time by the
\* engine (408) and the metrics layer; any other return by the metrics layer; a
\* panic passes the metrics layer by.  The engine's own panics are returns.
Served(r) == call[r].end \in {"served", "late"}
Slip_CountedTwice(r) == call[r].end # "panic"
Measured(r) == call[r].end \notin {"served", "panic"}

Ends(r) == {"returned", "panic"} \cup (IF call[r].kind = "process" THEN {"served", "late"} ELSE {})
Handle(r) ==
  /\ Alive /\ pc[r] = "handler"
  /\ \E end \in Ends(r) :
       /\ end = "late" => 0 < call[r].deadline /\ call[r].deadline <= clock
       /\ Ending(r, end)
       /\ Goto(r, IF end \in {"served", "late"} THEN "observe" ELSE "release")
  /\ UNCHANGED <<clock, process, counters, cut>>

Slip_PanicKeepsSlot(r) ==
  /\ Alive /\ pc[r] = "release"
  /\ sem' = IF Limited(r) /\ call[r].end # "panic" THEN sem - 1 ELSE sem
  /\ Goto(r, IF Measured(r) THEN "observe" ELSE "leave")
  /\ UNCHANGED <<clock, process, call, inflight, requestsTotal, rejected, cut>>

\* (A receive from an empty channel blocks.)
Slip_ProbeReleases(r) ==
  /\ Alive /\ pc[r] = "release"
  /\ MaxConcurrent > 0 => sem > 0 /\ sem' = sem - 1
  /\ MaxConcurrent = 0 => UNCHANGED sem
  /\ Goto(r, IF Measured(r) THEN "observe" ELSE "leave")
  /\ UNCHANGED <<clock, process, call, inflight, requestsTotal, rejected, cut>>

\* The slot goes back by a defer, panic or not.
Release(r) ==
  /\ Alive /\ pc[r] = "release"
  /\ sem' = IF Limited(r) THEN sem - 1 ELSE sem
  /\ Goto(r, IF Measured(r) THEN "observe" ELSE "leave")
  /\ UNCHANGED <<clock, process, call, inflight, requestsTotal, rejected, cut>>
Leave(r) ==
  /\ Alive /\ pc[r] = "leave"
  /\ inflight' = inflight - 1
  /\ Goto(r, "done")
  /\ UNCHANGED <<clock, process, call, sem, requestsTotal, rejected, cut>>

\* metrics.Observe (see Metrics).  The engine observes before the slot is
\* returned, the metrics layer after it.
Observe(r) ==
  /\ Alive /\ pc[r] = "observe"
  /\ requestsTotal' = requestsTotal + 1
  /\ call' = [call EXCEPT ![r].samples = @ + 1]
  /\ Goto(r, IF call[r].samples = 0 /\ Served(r) THEN "release" ELSE "leave")
  /\ UNCHANGED <<clock, process, sem, inflight, rejected, cut>>

-----------------------------------------------------------------------------
(* cmd/server: run.                                                        *)

Serve ==
  /\ Alive /\ listener = "starting"
  /\ listener' \in {"listening", "failed"}
  /\ UNCHANGED <<clock, main, ready, storeOpen, drainBy, pc, call, counters, cut>>

\* Accept may fail for good later on.
AcceptFails ==
  /\ Alive /\ listener = "listening"
  /\ listener' = "failed"
  /\ UNCHANGED <<clock, main, ready, storeOpen, drainBy, pc, call, counters, cut>>

SetReady ==
  /\ main = "start"
  /\ main' = "serving" /\ ready' = TRUE
  /\ UNCHANGED <<clock, listener, storeOpen, drainBy, pc, call, counters, cut>>

\* The error of ListenAndServe ends run at once, without a drain.
ListenError ==
  /\ main = "serving" /\ listener = "failed"
  /\ main' = "stopped"
  /\ UNCHANGED <<clock, listener, ready, storeOpen, drainBy, pc, call, counters, cut>>

Signal ==
  /\ main = "serving"
  /\ clock + DrainTimeout <= Horizon
  /\ main' = "unready" /\ ready' = FALSE
  /\ UNCHANGED <<clock, listener, storeOpen, drainBy, pc, call, counters, cut>>

Slip_NoDrainTimeout ==
  /\ main = "unready"
  /\ main' = "drain" /\ drainBy' = Horizon + 1
  /\ listener' = IF listener = "failed" THEN "failed" ELSE "closed"
  /\ UNCHANGED <<clock, ready, storeOpen, pc, call, counters, cut>>

\* Shutdown closes the listener, also one that has not started yet.
Shutdown ==
  /\ main = "unready"
  /\ main' = "drain" /\ drainBy' = clock + DrainTimeout
  /\ listener' = IF listener = "failed" THEN "failed" ELSE "closed"
  /\ UNCHANGED <<clock, ready, storeOpen, pc, call, counters, cut>>

Drained ==
  /\ main = "drain" /\ Running = {}
  /\ main' = "stopped"
  /\ UNCHANGED <<clock, listener, ready, storeOpen, drainBy, pc, call, counters, cut>>
\* srv.Close: the handlers run on, but nobody hears them.
DrainExpired ==
  /\ main = "drain" /\ Running # {} /\ clock >= drainBy
  /\ main' = "stopped"
  /\ cut' = Running
  /\ UNCHANGED <<clock, listener, ready, storeOpen, drainBy, pc, call, counters>>

CloseStore ==
  /\ main = "stopped"
  /\ main' = "closed" /\ storeOpen' = FALSE
  /\ UNCHANGED <<clock, listener, ready, drainBy, pc, call, counters, cut>>

Exit ==
  /\ main = "closed"
  /\ main' = "exited"
  /\ UNCHANGED <<clock, listener, ready, storeOpen, drainBy, pc, call, counters, cut>>

\* A request is admitted, shed and counted at once, a handler answers promptly
\* when its deadline passes, and main does what it has to: only handlers and the
\* drain take time.
Overdue(r) == pc[r] = "handler" /\ 0 < call[r].deadline /\ call[r].deadline <= clock
Tick ==
  /\ Alive /\ clock < Horizon
  /\ \A r \in Running : pc[r] = "handler" /\ ~Overdue(r)
  /\ main # "unready" /\ (main = "drain" => clock < drainBy)
  /\ clock' = clock + 1
  /\ UNCHANGED <<process, pc, call, counters, cut>>

Layer(r) == Shed(r) \/ Admit(r) \/ Release(r) \/ Observe(r) \/ Leave(r)
RequestStep(r) == Arrive(r) \/ Handle(r) \/ Layer(r)
Halt == Shutdown \/ Drained \/ DrainExpired \/ CloseStore \/ Exit
Next ==
  \/ Tick \/ Serve \/ AcceptFails \/ SetReady \/ ListenError \/ Signal \/ Halt
  \/ \E r \in Requests : RequestStep(r)
Spec == Init /\ [][Next]_vars

\* The scheduler runs every goroutine, time passes, and a handler ends when its
\* deadline has passed; one without a deadline may run for ever.
Fairness ==
  /\ WF_vars(Halt) /\ WF_vars(Tick)
  /\ \A r \in Requests : WF_vars(Layer(r)) /\ WF_vars(Overdue(r) /\ Handle(r))

-----------------------------------------------------------------------------
\* Whatever way the requests ended (answered, shed, late, panicked, cut off),
\* once none is under way every slot is back and the gauge is at zero.
NothingLeaks == Running = {} => sem = 0 /\ inflight = 0

\* metricsMW "counts and times everything that got past the panic guard", and "must
\* not publish a second sample for the same request": whatever way it ended, a
\* finished request has published one sample.  The code does not keep this: a late
\* one is counted by the engine and by metricsMW, whose Observe is not deferred and
\* so never reached by a panic.
EachRequestCounted == \A r \in Requests : pc[r] = "done" => call[r].samples = 1

\* What the layers keep of it: a request that was answered in time, by its handler
\* or by the limiter, has published one sample, by whichever layer; and once none
\* is under way requests_total tells the samples, and rejected the requests shed.
InTrouble == {"late", "panic"}
Sampled(n) == {r \in Requests : call[r].samples >= n}
AnswersCountedOnce ==
  /\ \A r \in Requests : pc[r] = "done" /\ call[r].end \notin InTrouble => call[r].samples = 1
  /\ Running = {} =>
       /\ requestsTotal = Cardinality(Sampled(1)) + Cardinality(Sampled(2))
       /\ rejected = Cardinality({r \in Requests : call[r].end = "shed"})

\* "a request that is still allowed to be in flight gets to finish instead of
\* being cut off at the socket": true of every /process request with a deadline.
DrainSparesProcess == \A r \in cut : call[r].kind = "process" => call[r].deadline = 0

\* What it takes of the configuration for the drain to spare them all: the twelve
\* seconds are fixed in main, process_timeout_ms is not; the default keeps it.
DeadlinesFitTheDrain == \A d \in ProcessTimeouts : d < DrainTimeout

\* A signal ends the process, and an admitted request that has a deadline is
\* answered unless the process ends first.
SignalEnds == main = "unready" ~> ~Alive
AdmittedAnswered ==
  \A r \in Requests : pc[r] = "handler" /\ call[r].deadline > 0 ~> pc[r] = "done" \/ ~Alive
=============================================================================
