------------------------------ MODULE Process ------------------------------
(***************************************************************************)
(* POST /process: the handler of internal/httpapi/process.go and the       *)
(* engine behind it (Engine.Process, maskInto and RememberIdentity of      *)
(* internal/engine/engine.go).  A step reads or writes the shared state --  *)
(* the live configuration, the store -- at most once; the request context   *)
(* may expire, a detector may panic, the operator may replace the           *)
(* configuration and the store may lose an entry between any two steps.     *)
(*                                                                         *)
(* The store is the mapping that MemStore is shown to implement: Get and    *)
(* Put are atomic, and an entry may go at any time.  Detection, filtering   *)
(* and masking together are the constant function Rewrite; a text is an     *)
(* unstructured value.                                                      *)
(*                                                                         *)
(* A definition named Slip_... is no part of the specification: it is a    *)
(* mistake the code could have made at that place, kept to show that the   *)
(* properties would notice it.                                             *)
(***************************************************************************)
EXTENDS Integers, FiniteSets

CONSTANTS
  Workers,       \* goroutines serving /process
  PayloadIds,    \* values of payload_id
  BlankId,       \* a payload_id that is empty after TrimSpace
  Keys,          \* normalised ids
  StoreKey,      \* PayloadIds -> Keys: lower case, trimmed
  Texts,         \* payloads
  EmptyText,     \* the payload ""
  Unreadable,    \* a body that does not decode
  TooLong,       \* texts above the store's MaxValueBytes
  StarMasked,    \* texts looksMasked recognises
  LabelMasked,   \* texts that carry a bracketed label
  Headers,       \* values of the system header
  NoHeader,      \* a request without one
  Secrets,       \* API keys, NoSecret among them
  NoSecret,
  Rules, Extras, \* a system's rules; the rest of what decides on a mask
  Rewrite,       \* rules, extra, text -> the masked text, Absent if nothing is replaced
  Configs,       \* configurations the operator may apply
  Traffic,       \* the requests that may arrive
  Absent,        \* no entry, no system, no text
  MaxCalls, MaxFaults, MaxChanges, MaxLosses   \* bounds on what happens

System == [enabled : BOOLEAN, demask : BOOLEAN, labels : BOOLEAN,
           rules : Rules, secret : Secrets]
Request == [id : PayloadIds, header : Headers, secret : Secrets,
            text : Texts \cup {EmptyText, Unreadable}]
Config == [requireSystem : BOOLEAN, failOpen : BOOLEAN, default : Headers,
           systems : [Headers -> System \cup {Absent}], extra : Extras]
Entry == [original : Texts, masked : Texts]   \* its system and types nobody reads

ASSUME RequestAssumption ==
  /\ BlankId \in PayloadIds /\ StoreKey \in [PayloadIds -> Keys]
  /\ EmptyText \notin Texts /\ Unreadable \notin Texts \cup {EmptyText}
  /\ NoSecret \in Secrets /\ NoHeader \in Headers
  /\ Traffic \subseteq Request
ASSUME ConfigsAssumption ==
  /\ Configs \subseteq Config
  /\ Rewrite \in [Rules \X Extras \X Texts -> Texts \cup {Absent}]
ASSUME AbsentAssumption ==
  Absent \notin System /\ Absent \notin Entry /\ Absent \notin Texts \cup {EmptyText}
ASSUME BoundsAssumption ==
  MaxCalls \in Nat /\ MaxFaults \in Nat /\ MaxChanges \in Nat /\ MaxLosses \in Nat

VARIABLES
  cfg,           \* the live configuration
  map,           \* the store: key -> entry
  pc, loc,       \* worker -> next step, local variables of its request
  budget         \* how much of each bound is left

vars == <<cfg, map, pc, loc, budget>>

NoLocals ==
  [id |-> BlankId, header |-> NoHeader, secret |-> NoSecret, text |-> EmptyText,
   allowList |-> FALSE, failOpen |-> FALSE, late |-> FALSE, sys |-> Absent,
   entry |-> Absent, dir |-> "none", masked |-> EmptyText, status |-> 0,
   out |-> Absent, op |-> "none", cached |-> FALSE, failed |-> "no", samples |-> 0,
   served |-> FALSE]

Init ==
  /\ cfg \in Configs
  /\ map = [k \in Keys |-> Absent]
  /\ pc = [w \in Workers |-> "idle"]
  /\ loc = [w \in Workers |-> NoLocals]
  /\ budget = [calls |-> MaxCalls, faults |-> MaxFaults,
               changes |-> MaxChanges, losses |-> MaxLosses]

Spend(b) == budget[b] > 0 /\ budget' = [budget EXCEPT ![b] = @ - 1]
Goto(w, from, to) == pc[w] = from /\ pc' = [pc EXCEPT ![w] = to]
KeyOf(w) == StoreKey[loc[w].id]

\* Manager.Resolve: an unknown id falls back to the default system unless the
\* allow-list is on; a disabled system never serves.
Resolved(c, h) ==
  LET s == IF c.systems[h] # Absent THEN c.systems[h]
           ELSE IF c.requireSystem THEN Absent ELSE c.systems[c.default]
  IN  IF s # Absent /\ s.enabled THEN s ELSE Absent

\* The handler has an answer of its own: metricsMW counts the request.
Reply(w, from, status, out) ==
  /\ Goto(w, from, "answer")
  /\ loc' = [loc EXCEPT ![w].status = status, ![w].out = out]

\* The engine has one: finish publishes the sample, the handler marks it.
Finish(w, from, op, out, cached) ==
  /\ Goto(w, from, "answer")
  /\ loc' = [loc EXCEPT ![w] = [@ EXCEPT
       !.status = 200, !.out = out, !.op = op, !.cached = cached,
       !.samples = loc[w].samples + 1, !.served = TRUE]]

-----------------------------------------------------------------------------
(* handleProcess: admission *)

\* A request reaches the handler, which reads the configuration once here and,
\* with the allow-list on, once more in authorize.
Receive(w, r) ==
  /\ Goto(w, "idle", "authorize")
  /\ Spend("calls")
  /\ loc' = [loc EXCEPT ![w] = [NoLocals EXCEPT
               !.id = r.id, !.header = r.header, !.secret = r.secret, !.text = r.text,
               !.allowList = cfg.requireSystem, !.failOpen = cfg.failOpen]]
  /\ UNCHANGED <<cfg, map>>

AuthStatus(w) ==
  LET s == cfg.systems[loc[w].header]
  IN  IF ~loc[w].allowList THEN 0
      ELSE IF s = Absent \/ ~s.enabled THEN 403
      ELSE IF s.secret \notin {NoSecret, loc[w].secret} THEN 401
      ELSE 0

Refuse(w) ==
  /\ AuthStatus(w) # 0
  /\ Reply(w, "authorize", AuthStatus(w), Absent)
  /\ UNCHANGED <<cfg, map, budget>>

Admitted(w) == AuthStatus(w) = 0
Slip_DecodeErrorIgnored(w) == loc[w].id = BlankId
BadRequest(w) == loc[w].text = Unreadable \/ loc[w].id = BlankId

\* The body does not decode or is too large (a 413, counted alike), or has no id.
Reject(w) ==
  /\ Admitted(w) /\ BadRequest(w)
  /\ Reply(w, "authorize", 400, Absent)
  /\ UNCHANGED <<cfg, map, budget>>

AnswerEmpty(w) ==
  /\ Admitted(w) /\ ~BadRequest(w) /\ loc[w].text = EmptyText
  /\ Reply(w, "authorize", 200, EmptyText)
  /\ UNCHANGED <<cfg, map, budget>>

Admit(w) ==
  /\ Admitted(w) /\ ~BadRequest(w) /\ loc[w].text # EmptyText
  /\ Goto(w, "authorize", "resolve")
  /\ UNCHANGED <<cfg, map, loc, budget>>

-----------------------------------------------------------------------------
(* Engine.Process *)

ResolveSystem(w) ==
  /\ Resolved(cfg, loc[w].header) # Absent
  /\ Goto(w, "resolve", "lookup")
  /\ loc' = [loc EXCEPT ![w].sys = Resolved(cfg, loc[w].header)]
  /\ UNCHANGED <<cfg, map, budget>>

\* ErrSystemUnavailable is refused even when failures are answered with 200.
Slip_UnavailableFailsOpen(w) ==
  /\ Resolved(cfg, loc[w].header) = Absent
  /\ Goto(w, "resolve", "failed")
  /\ loc' = [loc EXCEPT ![w].failed = "panic"]
  /\ UNCHANGED <<cfg, map, budget>>
Unavailable(w) ==
  /\ Resolved(cfg, loc[w].header) = Absent
  /\ Reply(w, "resolve", 403, Absent)
  /\ UNCHANGED <<cfg, map, budget>>

\* decide, and the label check that follows it on the forward branch.
Decide(e, t, sys) ==
  IF e = Absent
  THEN IF t \in StarMasked \/ (t \in LabelMasked /\ sys.labels) THEN "demaskMiss" ELSE "mask"
  ELSE IF t = e.masked THEN "demask" ELSE IF t = e.original THEN "maskRetry" ELSE "remask"

Direct(w, dir) ==
  /\ Goto(w, "lookup", "check")
  /\ loc' = [loc EXCEPT ![w].entry = map[KeyOf(w)], ![w].dir = dir]
  /\ UNCHANGED <<cfg, map, budget>>
Slip_SecondCallDemasks(w) ==
  Direct(w, IF map[KeyOf(w)] = Absent THEN Decide(Absent, loc[w].text, loc[w].sys) ELSE "demask")
Slip_MissIsMasked(w) ==
  Direct(w, IF map[KeyOf(w)] = Absent THEN "mask" ELSE Decide(map[KeyOf(w)], loc[w].text, loc[w].sys))
Slip_UnknownIsEchoed(w) ==
  Direct(w, IF map[KeyOf(w)] = Absent THEN "demaskMiss" ELSE Decide(map[KeyOf(w)], loc[w].text, loc[w].sys))
Lookup(w) == Direct(w, Decide(map[KeyOf(w)], loc[w].text, loc[w].sys))

\* The context has expired: the engine counts a 408 and reports an error.
Abandon(w, from, op) ==
  /\ loc[w].late
  /\ Goto(w, from, "failed")
  /\ loc' = [loc EXCEPT ![w] = [@ EXCEPT
       !.failed = "timeout", !.op = op, !.samples = loc[w].samples + 1]]
  /\ UNCHANGED <<cfg, map, budget>>

CheckLate(w) ==
  Abandon(w, "check", IF loc[w].dir \in {"demask", "demaskMiss"} THEN "demask" ELSE "mask")

Demask(w) ==
  /\ ~loc[w].late /\ loc[w].dir = "demask"
  /\ Finish(w, "check", "demask", loc[w].entry.original, TRUE)
  /\ UNCHANGED <<cfg, map, budget>>

MaskRetry(w) ==
  /\ ~loc[w].late /\ loc[w].dir = "maskRetry"
  /\ Finish(w, "check", "mask", loc[w].entry.masked, TRUE)
  /\ UNCHANGED <<cfg, map, budget>>

DemaskMiss(w) ==
  /\ ~loc[w].late /\ loc[w].dir = "demaskMiss"
  /\ Finish(w, "check", "demask", loc[w].text, FALSE)
  /\ UNCHANGED <<cfg, map, budget>>

MaskInto(w) ==
  /\ ~loc[w].late /\ loc[w].dir \in {"mask", "remask"}
  /\ Goto(w, "check", "detect")
  /\ UNCHANGED <<cfg, map, loc, budget>>

\* The deadline may also fall after the last look at the context.
Detected(w) ==
  /\ Goto(w, "detect", "rewrite")
  /\ UNCHANGED <<cfg, map, loc, budget>>

DetectLate(w) == Abandon(w, "detect", "mask")

\* runEngine turns a panic into an error; the engine has counted nothing.
DetectPanics(w) ==
  /\ Goto(w, "detect", "failed")
  /\ Spend("faults")
  /\ loc' = [loc EXCEPT ![w].failed = "panic"]
  /\ UNCHANGED <<cfg, map>>

\* The configuration is read again: the rules are those of the system resolved
\* before, the rest (custom types, label expansion) is the live one.
MaskWith(w) == Rewrite[loc[w].sys.rules, cfg.extra, loc[w].text]

\* Nothing was replaced: the answer is the payload, and nothing is remembered.
NothingMasked(w) ==
  /\ Finish(w, "rewrite", "mask", loc[w].text, FALSE)
  /\ MaskWith(w) = Absent
  /\ UNCHANGED <<cfg, map, budget>>

\* A strategy may well put back what was there: the text can be its own mask.
Masked(w) ==
  /\ Goto(w, "rewrite", IF loc[w].sys.demask THEN "put" ELSE "done")
  /\ MaskWith(w) # Absent
  /\ loc' = [loc EXCEPT ![w].masked = MaskWith(w)]
  /\ UNCHANGED <<cfg, map, budget>>

\* The store takes the entry, unless one of its halves is too long for it.
Remember(w, original, masked) ==
  map' = IF {original, masked} \cap TooLong # {} THEN map
         ELSE [map EXCEPT ![KeyOf(w)] = [original |-> original, masked |-> masked]]

Slip_PutForgotten(w) == Goto(w, "put", "done") /\ UNCHANGED <<cfg, map, loc, budget>>
Put(w) ==
  /\ Goto(w, "put", "done")
  /\ Remember(w, loc[w].text, loc[w].masked)
  /\ UNCHANGED <<cfg, loc, budget>>

Done(w) ==
  /\ Finish(w, "done", "mask", loc[w].masked, FALSE)
  /\ UNCHANGED <<cfg, map, budget>>

Engine(w) ==
  \/ ResolveSystem(w) \/ Unavailable(w) \/ Lookup(w)
  \/ CheckLate(w) \/ Demask(w) \/ MaskRetry(w) \/ DemaskMiss(w) \/ MaskInto(w)
  \/ Detected(w) \/ DetectLate(w) \/ DetectPanics(w)
  \/ NothingMasked(w) \/ Masked(w) \/ Put(w) \/ Done(w)

-----------------------------------------------------------------------------
(* writeProcessFailure and RememberIdentity *)

FailClosed(w) ==
  /\ ~loc[w].failOpen
  /\ Reply(w, "failed", IF loc[w].failed = "timeout" THEN 504 ELSE 503, Absent)
  /\ UNCHANGED <<cfg, map, budget>>

Echo(w, from) ==
  /\ Reply(w, from, 200, loc[w].text)
  /\ UNCHANGED <<cfg, map, budget>>

\* RememberIdentity resolves the system again.
MayRemember(w) == LET s == Resolved(cfg, loc[w].header) IN s # Absent /\ s.demask

IdentityRefused(w) ==
  /\ loc[w].failOpen /\ ~MayRemember(w)
  /\ Echo(w, "failed")

IdentityAllowed(w) ==
  /\ loc[w].failOpen /\ MayRemember(w)
  /\ Goto(w, "failed", "identityGet")
  /\ UNCHANGED <<cfg, map, loc, budget>>

IdentityFound(w) ==
  /\ map[KeyOf(w)] # Absent
  /\ Echo(w, "identityGet")

IdentityAbsent(w) ==
  /\ map[KeyOf(w)] = Absent
  /\ Goto(w, "identityGet", "identityPut")
  /\ UNCHANGED <<cfg, map, loc, budget>>

IdentityPut(w) ==
  /\ Reply(w, "identityPut", 200, loc[w].text)
  /\ Remember(w, loc[w].text, loc[w].text)
  /\ UNCHANGED <<cfg, budget>>

Failure(w) ==
  \/ FailClosed(w) \/ IdentityRefused(w) \/ IdentityAllowed(w)
  \/ IdentityFound(w) \/ IdentityAbsent(w) \/ IdentityPut(w)

\* The response leaves; metricsMW counts what the engine did not.
Samples(w) == loc[w].samples + (IF loc[w].served THEN 0 ELSE 1)
Answer(w) ==
  /\ Goto(w, "answer", "idle")
  /\ loc' = [loc EXCEPT ![w] = NoLocals]
  /\ UNCHANGED <<cfg, map, budget>>

-----------------------------------------------------------------------------
(* What goes on around the requests *)

\* process_timeout passes, or the client hangs up, at any moment; the steps
\* before the first look at the context do not depend on it.
Deadline(w) ==
  /\ pc[w] \in {"check", "detect"} /\ ~loc[w].late
  /\ Spend("faults")
  /\ loc' = [loc EXCEPT ![w].late = TRUE]
  /\ UNCHANGED <<cfg, map, pc>>

\* Manager.Apply publishes another configuration.
Reconfigure(c) ==
  /\ c # cfg
  /\ Spend("changes")
  /\ cfg' = c
  /\ UNCHANGED <<map, pc, loc>>

\* The store expires or evicts an entry.
Forget(k) ==
  /\ map[k] # Absent
  /\ Spend("losses")
  /\ map' = [map EXCEPT ![k] = Absent]
  /\ UNCHANGED <<cfg, pc, loc>>

Handle(w) ==
  \/ Refuse(w) \/ Reject(w) \/ AnswerEmpty(w) \/ Admit(w)
  \/ Engine(w) \/ Failure(w)

Requests(w) == \E r \in Traffic : Receive(w, r)

Surroundings ==
  \/ \E w \in Workers : Deadline(w)
  \/ \E c \in Configs : Reconfigure(c)
  \/ \E k \in Keys : Forget(k)

Next ==
  \/ \E w \in Workers : Requests(w) \/ Handle(w) \/ Answer(w)
  \/ Surroundings

Spec == Init /\ [][Next]_vars

-----------------------------------------------------------------------------
Directions == {"none", "mask", "remask", "maskRetry", "demask", "demaskMiss"}
Statuses == {0, 200, 400, 401, 403, 503, 504}
Outputs == Texts \cup {EmptyText, Absent}
LocalsType ==
  [id : PayloadIds, header : Headers, secret : Secrets,
   text : Texts \cup {EmptyText, Unreadable}, allowList : BOOLEAN, failOpen : BOOLEAN,
   late : BOOLEAN, sys : System \cup {Absent}, entry : Entry \cup {Absent},
   dir : Directions,
   masked : Texts \cup {EmptyText}, status : Statuses,
   out : Outputs, op : {"none", "mask", "demask"},
   cached : BOOLEAN, failed : {"no", "timeout", "panic"}, samples : {0, 1},
   served : BOOLEAN]

InEngine == {"resolve", "lookup", "check", "detect", "rewrite", "put", "done"}
InFailure == {"failed", "identityGet", "identityPut"}
Labels == {"idle", "authorize", "answer"} \cup InEngine \cup InFailure

\* Past the admission a request has a payload to work on, past the resolution a
\* system, and an entry wherever the direction says one was found; before the
\* engine counts it, nobody has.
Ready(at, l) ==
  /\ at \in InEngine \cup InFailure => l.text \in Texts
  /\ at \in {"authorize"} \cup InEngine => l.samples = 0
  /\ at \in InEngine \ {"resolve"} => l.sys # Absent
  /\ at \in {"put", "done"} => l.masked \in Texts
  /\ at = "check" /\ l.dir \in {"demask", "maskRetry"} => l.entry # Absent

\* Every variable has its type, and every call what its next step takes for
\* granted (handleProcess, Engine.Process).
TypeOK ==
  /\ cfg \in Configs
  /\ map \in [Keys -> Entry \cup {Absent}]
  /\ pc \in [Workers -> Labels]
  /\ loc \in [Workers -> LocalsType]
  /\ \A w \in Workers : Ready(pc[w], loc[w])
  /\ budget \in [calls : Nat, faults : Nat, changes : Nat, losses : Nat]
=============================================================================
