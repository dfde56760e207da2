--------------------------- MODULE ProcessProofs ---------------------------
(***************************************************************************)
(* What is true of /process whoever calls it, for all values of the        *)
(* constants: any number of requests, configurations, ids and texts, and    *)
(* any function Rewrite.  Type correctness first, then what the answers say *)
(* of the past.                                                            *)
(***************************************************************************)
EXTENDS ProcessHistory, TLAPS

-----------------------------------------------------------------------------
(* Types *)

\* Updating one local of a request keeps the type of all of them.
LEMMA SetStatus ==
  ASSUME NEW l \in LocalsType, NEW x \in Statuses
  PROVE  [l EXCEPT !.status = x] \in LocalsType
BY DEF LocalsType

LEMMA SetOut ==
  ASSUME NEW l \in LocalsType, NEW x \in Outputs
  PROVE  [l EXCEPT !.out = x] \in LocalsType
BY DEF LocalsType

LEMMA SetOp ==
  ASSUME NEW l \in LocalsType, NEW x \in {"none", "mask", "demask"}
  PROVE  [l EXCEPT !.op = x] \in LocalsType
BY DEF LocalsType

LEMMA SetFlags ==
  ASSUME NEW l \in LocalsType, NEW x \in BOOLEAN
  PROVE  /\ [l EXCEPT !.cached = x] \in LocalsType
         /\ [l EXCEPT !.late = x] \in LocalsType
         /\ [l EXCEPT !.served = x] \in LocalsType
BY DEF LocalsType

LEMMA SetSamples ==
  ASSUME NEW l \in LocalsType, NEW x \in {0, 1}
  PROVE  [l EXCEPT !.samples = x] \in LocalsType
BY DEF LocalsType

LEMMA SetFailed ==
  ASSUME NEW l \in LocalsType, NEW x \in {"no", "timeout", "panic"}
  PROVE  [l EXCEPT !.failed = x] \in LocalsType
BY DEF LocalsType

LEMMA SetFound ==
  ASSUME NEW l \in LocalsType, NEW x \in Entry \cup {Absent},
         NEW d \in Directions
  PROVE  /\ [l EXCEPT !.entry = x] \in LocalsType
         /\ [l EXCEPT !.dir = d] \in LocalsType
BY DEF LocalsType

LEMMA SetWork ==
  ASSUME NEW l \in LocalsType, NEW s \in System \cup {Absent}, NEW t \in Texts
  PROVE  /\ [l EXCEPT !.sys = s] \in LocalsType
         /\ [l EXCEPT !.masked = t] \in LocalsType
BY DEF LocalsType

LEMMA SetRequest ==
  ASSUME NEW l \in LocalsType, NEW r \in Request, NEW x \in BOOLEAN
  PROVE  /\ [l EXCEPT !.id = r.id] \in LocalsType
         /\ [l EXCEPT !.header = r.header] \in LocalsType
         /\ [l EXCEPT !.secret = r.secret] \in LocalsType
         /\ [l EXCEPT !.text = r.text] \in LocalsType
         /\ [l EXCEPT !.allowList = x] \in LocalsType
         /\ [l EXCEPT !.failOpen = x] \in LocalsType
BY DEF LocalsType, Request

LEMMA NoLocalsType == NoLocals \in LocalsType
BY RequestAssumption DEF NoLocals, LocalsType, Directions, Statuses, Outputs

-----------------------------------------------------------------------------
\* A step of request w that leaves its new locals r ready for the next label.
LEMMA StepTypes ==
  ASSUME TypeOK, NEW w \in Workers, NEW from, NEW to \in Labels, Goto(w, from, to),
         NEW r \in LocalsType, loc' = [loc EXCEPT ![w] = r], Ready(to, r)
  PROVE  /\ pc' \in [Workers -> Labels] /\ loc' \in [Workers -> LocalsType]
         /\ \A v \in Workers : Ready(pc'[v], loc'[v])
<1>1. /\ pc \in [Workers -> Labels] /\ loc \in [Workers -> LocalsType]
      /\ \A v \in Workers : Ready(pc[v], loc[v])
  BY DEF TypeOK
<1>2. pc' = [pc EXCEPT ![w] = to]
  BY DEF Goto
<1>3. pc' \in [Workers -> Labels] /\ loc' \in [Workers -> LocalsType]
  BY <1>1, <1>2
<1>4. pc'[w] = to /\ loc'[w] = r
  BY <1>1, <1>2
<1>5. ASSUME NEW v \in Workers, v # w PROVE pc'[v] = pc[v] /\ loc'[v] = loc[v]
  BY <1>1, <1>2, <1>5
<1>6. ASSUME NEW v \in Workers PROVE Ready(pc'[v], loc'[v])
  <2>1. CASE v = w
    BY <1>4, <2>1
  <2>2. CASE v # w
    BY <1>1, <1>5, <2>2
  <2>3. QED
    BY <1>1, <2>1, <2>2
<1>7. QED
  BY <1>3, <1>6

LEMMA MoveTypes ==
  ASSUME TypeOK, NEW w \in Workers, NEW from, NEW to \in Labels, Goto(w, from, to),
         loc' = loc, Ready(to, loc[w])
  PROVE  /\ pc' \in [Workers -> Labels] /\ loc' \in [Workers -> LocalsType]
         /\ \A v \in Workers : Ready(pc'[v], loc'[v])
<1>1. loc[w] \in LocalsType /\ loc' = [loc EXCEPT ![w] = loc[w]]
  BY DEF TypeOK
<1>2. QED
  BY <1>1, StepTypes

LEMMA ReplyTypes ==
  ASSUME TypeOK, NEW w \in Workers, NEW from, NEW status \in Statuses, NEW out \in Outputs,
         Reply(w, from, status, out)
  PROVE  /\ pc' \in [Workers -> Labels] /\ loc' \in [Workers -> LocalsType]
         /\ \A v \in Workers : Ready(pc'[v], loc'[v])
<1> DEFINE l1 == [loc[w] EXCEPT !.status = status]
           l2 == [l1 EXCEPT !.out = out]
<1>1. loc[w] \in LocalsType
  BY DEF TypeOK
<1>2. l1 \in LocalsType
  BY <1>1, SetStatus
<1>3. l2 \in LocalsType
  BY <1>2, SetOut
<1>4. loc' = [loc EXCEPT ![w] = l2]
  BY DEF Reply
<1>5. Ready("answer", l2)
  BY DEF Ready, InEngine, InFailure
<1>6. Goto(w, from, "answer") /\ "answer" \in Labels
  BY DEF Reply, Labels
<1> HIDE DEF l1, l2
<1>7. QED
  BY <1>3, <1>4, <1>5, <1>6, StepTypes

LEMMA AuthStatusIs ==
  ASSUME NEW w \in Workers
  PROVE  AuthStatus(w) \in {0, 401, 403}
BY DEF AuthStatus

LEMMA FinishTypes ==
  ASSUME TypeOK, NEW w \in Workers, NEW from \in InEngine, NEW op \in {"none", "mask", "demask"},
         NEW out \in Outputs, NEW cached \in BOOLEAN, Finish(w, from, op, out, cached)
  PROVE  /\ pc' \in [Workers -> Labels] /\ loc' \in [Workers -> LocalsType]
         /\ \A v \in Workers : Ready(pc'[v], loc'[v])
<1> DEFINE l1 == [loc[w] EXCEPT !.status = 200]
           l2 == [l1 EXCEPT !.out = out]
           l3 == [l2 EXCEPT !.op = op]
           l4 == [l3 EXCEPT !.cached = cached]
           l5 == [l4 EXCEPT !.samples = loc[w].samples + 1]
           l6 == [l5 EXCEPT !.served = TRUE]
<1>1. loc[w] \in LocalsType /\ loc[w].samples = 0
  <2>1. loc[w] \in LocalsType /\ Ready(pc[w], loc[w]) /\ pc[w] = from
    BY DEF TypeOK, Finish, Goto
  <2>2. QED
    BY <2>1 DEF Ready
<1>2. l1 \in LocalsType
  <2>1. 200 \in Statuses
    BY DEF Statuses
  <2>2. QED
    BY <1>1, <2>1, SetStatus
<1>3. l2 \in LocalsType
  BY <1>2, SetOut
<1>4. l3 \in LocalsType
  <2> HIDE DEF l2
  <2>1. QED
    BY <1>3, SetOp
<1>5. l4 \in LocalsType
  <2> HIDE DEF l3
  <2>1. QED
    BY <1>4, SetFlags
<1>6. l5 \in LocalsType
  <2>1. loc[w].samples + 1 \in {0, 1}
    BY <1>1
  <2> HIDE DEF l4
  <2>2. QED
    BY <1>5, <2>1, SetSamples
<1>7. l6 \in LocalsType
  <2> HIDE DEF l5
  <2>1. QED
    BY <1>6, SetFlags
<1>8. loc' = [loc EXCEPT ![w] = l6]
  BY DEF Finish
<1>9. Ready("answer", l6)
  BY DEF Ready, InEngine, InFailure
<1>10. Goto(w, from, "answer") /\ "answer" \in Labels
  BY DEF Finish, Labels
<1> HIDE DEF l1, l2, l3, l4, l5, l6
<1>11. QED
  BY <1>7, <1>8, <1>9, <1>10, StepTypes

LEMMA AbandonTypes ==
  ASSUME TypeOK, NEW w \in Workers, NEW from \in InEngine, NEW op \in {"none", "mask", "demask"},
         Abandon(w, from, op)
  PROVE  /\ pc' \in [Workers -> Labels] /\ loc' \in [Workers -> LocalsType]
         /\ \A v \in Workers : Ready(pc'[v], loc'[v])
<1> DEFINE l1 == [loc[w] EXCEPT !.failed = "timeout"]
           l2 == [l1 EXCEPT !.op = op]
           l3 == [l2 EXCEPT !.samples = loc[w].samples + 1]
<1>1. loc[w] \in LocalsType /\ loc[w].samples = 0 /\ loc[w].text \in Texts
  <2>1. loc[w] \in LocalsType /\ Ready(pc[w], loc[w]) /\ pc[w] = from
    BY DEF TypeOK, Abandon, Goto
  <2>2. QED
    BY <2>1 DEF Ready
<1>2. l1 \in LocalsType
  BY <1>1, SetFailed
<1>3. l2 \in LocalsType
  BY <1>2, SetOp
<1>4. l3 \in LocalsType
  <2>1. loc[w].samples + 1 \in {0, 1}
    BY <1>1
  <2> HIDE DEF l2
  <2>2. QED
    BY <1>3, <2>1, SetSamples
<1>5. loc' = [loc EXCEPT ![w] = l3]
  BY DEF Abandon
<1>6. Ready("failed", l3)
  <2>1. l3.text = loc[w].text
    BY <1>1 DEF LocalsType
  <2> HIDE DEF l3
  <2>2. QED
    BY <1>1, <2>1 DEF Ready, InEngine, InFailure
<1>7. Goto(w, from, "failed") /\ "failed" \in Labels
  BY DEF Abandon, Labels, InFailure
<1> HIDE DEF l1, l2, l3
<1>8. QED
  BY <1>4, <1>5, <1>6, <1>7, StepTypes

-----------------------------------------------------------------------------
(* What a step leaves in pc and loc.                                       *)

\* The call goes on to another label with its locals as they were.
LEMMA MoveFacts ==
  ASSUME TypeOK, NEW w \in Workers, NEW from, NEW to, Goto(w, from, to), loc' = loc
  PROVE  pc[w] = from /\ pc'[w] = to /\ loc'[w] = loc[w]
BY DEF TypeOK, Goto

LEMMA StepFacts ==
  ASSUME TypeOK, NEW w \in Workers, NEW from, NEW to, NEW r,
         Goto(w, from, to), loc' = [loc EXCEPT ![w] = r]
  PROVE  pc[w] = from /\ pc'[w] = to /\ loc'[w] = r
BY DEF TypeOK, Goto

LEMMA ReplyFacts ==
  ASSUME TypeOK, NEW w \in Workers, NEW from, NEW status, NEW out,
         Reply(w, from, status, out)
  PROVE  /\ pc[w] = from /\ pc'[w] = "answer"
         /\ loc'[w].id = loc[w].id /\ loc'[w].header = loc[w].header
         /\ loc'[w].text = loc[w].text /\ loc'[w].failed = loc[w].failed
         /\ loc'[w].status = status /\ loc'[w].out = out
         /\ loc'[w].cached = loc[w].cached /\ loc'[w].served = loc[w].served
<1>1. loc[w] \in LocalsType /\ loc \in [Workers -> LocalsType] /\ pc \in [Workers -> Labels]
  BY DEF TypeOK
<1>2. pc[w] = from /\ pc'[w] = "answer"
  BY <1>1 DEF Reply, Goto
<1>3. loc'[w] = [loc[w] EXCEPT !.status = status, !.out = out]
  BY <1>1 DEF Reply
<1>4. QED
  BY <1>1, <1>2, <1>3 DEF LocalsType

LEMMA FinishFacts ==
  ASSUME TypeOK, NEW w \in Workers, NEW from, NEW op, NEW out, NEW cached,
         Finish(w, from, op, out, cached)
  PROVE  /\ pc[w] = from /\ pc'[w] = "answer"
         /\ loc'[w].id = loc[w].id /\ loc'[w].text = loc[w].text /\ loc'[w].sys = loc[w].sys
         /\ loc'[w].header = loc[w].header /\ loc'[w].failed = loc[w].failed
         /\ loc'[w].status = 200 /\ loc'[w].out = out /\ loc'[w].op = op /\ loc'[w].cached = cached
<1>1. loc[w] \in LocalsType /\ loc \in [Workers -> LocalsType] /\ pc \in [Workers -> Labels]
  BY DEF TypeOK
<1>2. pc[w] = from /\ pc'[w] = "answer"
  BY <1>1 DEF Finish, Goto
<1>3. loc'[w] = [loc[w] EXCEPT
        !.status = 200, !.out = out, !.op = op, !.cached = cached,
        !.samples = loc[w].samples + 1, !.served = TRUE]
  BY <1>1 DEF Finish
<1>4. QED
  BY <1>1, <1>2, <1>3 DEF LocalsType

-----------------------------------------------------------------------------
\* The rest of the state, which most steps leave alone.
Surrounds == /\ cfg' \in Configs /\ map' \in [Keys -> Entry \cup {Absent}]
             /\ budget' \in [calls : Nat, faults : Nat, changes : Nat, losses : Nat]

LEMMA Assemble ==
  ASSUME Surrounds,
         pc' \in [Workers -> Labels] /\ loc' \in [Workers -> LocalsType],
         \A v \in Workers : Ready(pc'[v], loc'[v])
  PROVE  TypeOK'
BY DEF Surrounds, TypeOK

LEMMA Untouched ==
  ASSUME TypeOK, UNCHANGED <<cfg, map, budget>>
  PROVE  Surrounds
BY DEF TypeOK, Surrounds

LEMMA SpendTypes ==
  ASSUME TypeOK, NEW b \in {"calls", "faults", "changes", "losses"}, Spend(b)
  PROVE  budget' \in [calls : Nat, faults : Nat, changes : Nat, losses : Nat]
BY DEF TypeOK, Spend

LEMMA StatusTypes == {200, 400, 401, 403, 503, 504} \subseteq Statuses
BY DEF Statuses

LEMMA LabelTypes ==
  {"idle", "authorize", "resolve", "lookup", "check", "detect", "rewrite", "put", "done",
   "failed", "identityGet", "identityPut", "answer"} \subseteq Labels
BY DEF Labels, InEngine, InFailure

LEMMA ReceiveTypes ==
  ASSUME TypeOK, NEW w \in Workers, NEW r \in Request, Receive(w, r)
  PROVE  TypeOK'
<1> DEFINE l1 == [NoLocals EXCEPT !.id = r.id]
           l2 == [l1 EXCEPT !.header = r.header]
           l3 == [l2 EXCEPT !.secret = r.secret]
           l4 == [l3 EXCEPT !.text = r.text]
           l5 == [l4 EXCEPT !.allowList = cfg.requireSystem]
           l6 == [l5 EXCEPT !.failOpen = cfg.failOpen]
<1>1. r \in Request
  OBVIOUS
<1>2. cfg.requireSystem \in BOOLEAN /\ cfg.failOpen \in BOOLEAN
  <2>1. cfg \in Config
    BY ConfigsAssumption DEF TypeOK
  <2>2. QED
    BY <2>1 DEF Config
<1>3. l1 \in LocalsType
  BY <1>1, NoLocalsType, SetRequest
<1>4. l2 \in LocalsType
  BY <1>1, <1>3, SetRequest
<1>5. l3 \in LocalsType
  BY <1>1, <1>4, SetRequest
<1>6. l4 \in LocalsType
  BY <1>1, <1>5, SetRequest
<1>7. l5 \in LocalsType
  BY <1>1, <1>2, <1>6, SetRequest
<1>8. l6 \in LocalsType
  BY <1>1, <1>2, <1>7, SetRequest
<1>9. loc' = [loc EXCEPT ![w] = l6]
  BY DEF Receive
<1>10. l6.samples = 0
  BY DEF NoLocals
<1> HIDE DEF l1, l2, l3, l4, l5, l6
<1>11. Ready("authorize", l6)
  BY <1>10 DEF Ready, InEngine, InFailure
<1>12. Goto(w, "idle", "authorize") /\ "authorize" \in Labels
  BY LabelTypes DEF Receive
<1>13. Surrounds
  BY SpendTypes DEF Receive, TypeOK, Surrounds
<1>14. QED
  BY <1>8, <1>9, <1>11, <1>12, <1>13, StepTypes, Assemble

-----------------------------------------------------------------------------
LEMMA HandlerTypes ==
  ASSUME TypeOK, NEW w \in Workers, Refuse(w) \/ Reject(w) \/ AnswerEmpty(w) \/ Admit(w)
  PROVE  TypeOK'
<1>1. Surrounds
  BY Untouched DEF Refuse, Reject, AnswerEmpty, Admit
<1>2. CASE Refuse(w)
  <2>1. AuthStatus(w) \in Statuses /\ Absent \in Outputs
    BY AuthStatusIs DEF Statuses, Outputs
  <2>2. Reply(w, "authorize", AuthStatus(w), Absent)
    BY <1>2 DEF Refuse
  <2>3. QED
    BY <1>1, <2>1, <2>2, ReplyTypes, Assemble
<1>3. CASE Reject(w)
  <2>1. 400 \in Statuses /\ Absent \in Outputs
    BY DEF Statuses, Outputs
  <2>2. Reply(w, "authorize", 400, Absent)
    BY <1>3 DEF Reject
  <2>3. QED
    BY <1>1, <2>1, <2>2, ReplyTypes, Assemble
<1>4. CASE AnswerEmpty(w)
  <2>1. 200 \in Statuses /\ EmptyText \in Outputs
    BY DEF Statuses, Outputs
  <2>2. Reply(w, "authorize", 200, EmptyText)
    BY <1>4 DEF AnswerEmpty
  <2>3. QED
    BY <1>1, <2>1, <2>2, ReplyTypes, Assemble
<1>5. CASE Admit(w)
  <2>1. Goto(w, "authorize", "resolve") /\ loc' = loc
    BY <1>5 DEF Admit
  <2>2. loc[w] \in LocalsType /\ Ready("authorize", loc[w])
    BY <2>1 DEF TypeOK, Goto
  <2>3. loc[w].text \in Texts
    BY <1>5, <2>2 DEF Admit, BadRequest, LocalsType
  <2>4. Ready("resolve", loc[w])
    BY <2>2, <2>3 DEF Ready, InEngine, InFailure
  <2>5. QED
    BY <1>1, <2>1, <2>4, LabelTypes, MoveTypes, Assemble
<1>6. QED
  BY <1>2, <1>3, <1>4, <1>5

\* Manager.Resolve answers with a system or with none.
LEMMA ResolvedType ==
  ASSUME NEW c \in Config, NEW h \in Headers
  PROVE  Resolved(c, h) \in System \cup {Absent}
<1>1. c.systems \in [Headers -> System \cup {Absent}] /\ c.default \in Headers
  BY DEF Config
<1>2. QED
  BY <1>1 DEF Resolved

\* A call in the engine has what Ready says, and a key.
LEMMA AtWork ==
  ASSUME TypeOK, NEW w \in Workers, pc[w] \in InEngine \cup InFailure
  PROVE  /\ loc[w] \in LocalsType /\ Ready(pc[w], loc[w])
         /\ loc[w].text \in Texts /\ KeyOf(w) \in Keys
         /\ cfg \in Config /\ loc[w].header \in Headers
<1>1. loc[w] \in LocalsType /\ Ready(pc[w], loc[w])
  BY DEF TypeOK
<1>2. loc[w].text \in Texts
  BY <1>1 DEF Ready
<1>3. loc[w].id \in PayloadIds /\ loc[w].header \in Headers
  BY <1>1 DEF LocalsType
<1>4. KeyOf(w) \in Keys
  BY <1>3, RequestAssumption DEF KeyOf
<1>5. cfg \in Config
  BY ConfigsAssumption DEF TypeOK
<1>6. QED
  BY <1>1, <1>2, <1>3, <1>4, <1>5

LEMMA ResolveTypes ==
  ASSUME TypeOK, NEW w \in Workers, ResolveSystem(w) \/ Unavailable(w)
  PROVE  TypeOK'
<1>1. Surrounds
  BY Untouched DEF ResolveSystem, Unavailable
<1>2. CASE ResolveSystem(w)
  <2> DEFINE sys == Resolved(cfg, loc[w].header)
             l1 == [loc[w] EXCEPT !.sys = sys]
  <2>1. Goto(w, "resolve", "lookup") /\ loc' = [loc EXCEPT ![w] = l1] /\ sys # Absent
    BY <1>2 DEF ResolveSystem
  <2>2. pc[w] = "resolve" /\ pc[w] \in InEngine \cup InFailure
    BY <2>1 DEF Goto, InEngine
  <2>3. /\ loc[w] \in LocalsType /\ Ready("resolve", loc[w]) /\ loc[w].text \in Texts
        /\ sys \in System \cup {Absent}
    BY <2>2, AtWork, ResolvedType
  <2> HIDE DEF sys
  <2>4. l1 \in LocalsType
    BY <2>3, SetWork
  <2>5. l1.text = loc[w].text /\ l1.samples = loc[w].samples /\ l1.sys = sys
    BY <2>3 DEF LocalsType
  <2> HIDE DEF l1
  <2>6. Ready("lookup", l1)
    BY <2>1, <2>3, <2>5 DEF Ready, InEngine, InFailure
  <2>7. QED
    BY <1>1, <2>1, <2>4, <2>6, LabelTypes, StepTypes, Assemble
<1>3. CASE Unavailable(w)
  <2>1. 403 \in Statuses /\ Absent \in Outputs
    BY DEF Statuses, Outputs
  <2>2. Reply(w, "resolve", 403, Absent)
    BY <1>3 DEF Unavailable
  <2>3. QED
    BY <1>1, <2>1, <2>2, ReplyTypes, Assemble
<1>4. QED
  BY <1>2, <1>3

LEMMA LookupTypes ==
  ASSUME TypeOK, NEW w \in Workers, Lookup(w)
  PROVE  TypeOK'
<1> DEFINE e == map[KeyOf(w)]
           dir == Decide(e, loc[w].text, loc[w].sys)
           l1 == [loc[w] EXCEPT !.entry = e]
           l2 == [l1 EXCEPT !.dir = dir]
<1>1. Goto(w, "lookup", "check") /\ loc' = [loc EXCEPT ![w] = l2]
  BY DEF Lookup, Direct
<1>2. pc[w] = "lookup" /\ pc[w] \in InEngine \cup InFailure
  BY <1>1 DEF Goto, InEngine
<1>3. loc[w] \in LocalsType /\ Ready("lookup", loc[w]) /\ KeyOf(w) \in Keys
  BY <1>2, AtWork
<1>4. e \in Entry \cup {Absent} /\ dir \in Directions
  BY <1>3 DEF TypeOK, Decide, Directions
<1>5. dir \in {"demask", "maskRetry"} => e # Absent
  BY DEF Decide
<1> HIDE DEF e, dir
<1>6. l1 \in LocalsType
  BY <1>3, <1>4, SetFound
<1>7. l2 \in LocalsType
  BY <1>4, <1>6, SetFound
<1>8. /\ l2.text = loc[w].text /\ l2.samples = loc[w].samples /\ l2.sys = loc[w].sys
      /\ l2.entry = e /\ l2.dir = dir
  BY <1>3 DEF LocalsType
<1> HIDE DEF l1, l2
<1>9. Ready("check", l2)
  BY <1>3, <1>5, <1>8 DEF Ready, InEngine, InFailure
<1>10. Surrounds
  BY Untouched DEF Lookup, Direct
<1>11. QED
  BY <1>1, <1>7, <1>9, <1>10, LabelTypes, StepTypes, Assemble

LEMMA CheckTypes ==
  ASSUME TypeOK, NEW w \in Workers,
         CheckLate(w) \/ Demask(w) \/ MaskRetry(w) \/ DemaskMiss(w) \/ MaskInto(w)
  PROVE  TypeOK'
<1>1. Surrounds
  BY Untouched DEF CheckLate, Abandon, Demask, MaskRetry, DemaskMiss, MaskInto
<1>2. pc[w] = "check" /\ pc[w] \in InEngine \cup InFailure /\ "check" \in InEngine
  BY DEF CheckLate, Abandon, Demask, MaskRetry, DemaskMiss, MaskInto, Finish, Goto, InEngine
<1>3. loc[w] \in LocalsType /\ Ready("check", loc[w]) /\ loc[w].text \in Texts
  BY <1>2, AtWork
<1>4. CASE CheckLate(w)
  BY <1>1, <1>2, <1>4, AbandonTypes, Assemble DEF CheckLate
<1>5. CASE Demask(w)
  <2>1. Finish(w, "check", "demask", loc[w].entry.original, TRUE) /\ loc[w].dir = "demask"
    BY <1>5 DEF Demask
  <2>2. loc[w].entry \in Entry
    BY <1>3, <2>1 DEF Ready, LocalsType
  <2>3. loc[w].entry.original \in Outputs
    BY <2>2 DEF Entry, Outputs
  <2>4. QED
    BY <1>1, <1>2, <2>1, <2>3, FinishTypes, Assemble
<1>6. CASE MaskRetry(w)
  <2>1. Finish(w, "check", "mask", loc[w].entry.masked, TRUE) /\ loc[w].dir = "maskRetry"
    BY <1>6 DEF MaskRetry
  <2>2. loc[w].entry \in Entry
    BY <1>3, <2>1 DEF Ready, LocalsType
  <2>3. loc[w].entry.masked \in Outputs
    BY <2>2 DEF Entry, Outputs
  <2>4. QED
    BY <1>1, <1>2, <2>1, <2>3, FinishTypes, Assemble
<1>7. CASE DemaskMiss(w)
  <2>1. Finish(w, "check", "demask", loc[w].text, FALSE) /\ loc[w].text \in Outputs
    BY <1>3, <1>7 DEF DemaskMiss, Outputs
  <2>2. QED
    BY <1>1, <1>2, <2>1, FinishTypes, Assemble
<1>8. CASE MaskInto(w)
  <2>1. Goto(w, "check", "detect") /\ loc' = loc
    BY <1>8 DEF MaskInto
  <2>2. Ready("detect", loc[w])
    BY <1>3 DEF Ready, InEngine, InFailure
  <2>3. QED
    BY <1>1, <2>1, <2>2, LabelTypes, MoveTypes, Assemble
<1>9. QED
  BY <1>4, <1>5, <1>6, <1>7, <1>8

LEMMA DetectTypes ==
  ASSUME TypeOK, NEW w \in Workers, Detected(w) \/ DetectLate(w) \/ DetectPanics(w)
  PROVE  TypeOK'
<1>1. pc[w] = "detect" /\ pc[w] \in InEngine \cup InFailure /\ "detect" \in InEngine
  BY DEF Detected, DetectLate, DetectPanics, Abandon, Goto, InEngine
<1>2. loc[w] \in LocalsType /\ Ready("detect", loc[w]) /\ loc[w].text \in Texts
  BY <1>1, AtWork
<1>3. CASE Detected(w)
  <2>1. Goto(w, "detect", "rewrite") /\ loc' = loc /\ Surrounds
    BY <1>3, Untouched DEF Detected
  <2>2. Ready("rewrite", loc[w])
    BY <1>2 DEF Ready, InEngine, InFailure
  <2>3. QED
    BY <2>1, <2>2, LabelTypes, MoveTypes, Assemble
<1>4. CASE DetectLate(w)
  <2>1. Surrounds
    BY <1>4, Untouched DEF DetectLate, Abandon
  <2>2. QED
    BY <1>1, <1>4, <2>1, AbandonTypes, Assemble DEF DetectLate
<1>5. CASE DetectPanics(w)
  <2> DEFINE l1 == [loc[w] EXCEPT !.failed = "panic"]
  <2>1. Goto(w, "detect", "failed") /\ loc' = [loc EXCEPT ![w] = l1] /\ Surrounds
    BY <1>5, SpendTypes DEF DetectPanics, TypeOK, Surrounds
  <2>2. l1 \in LocalsType
    BY <1>2, SetFailed
  <2>3. l1.text = loc[w].text
    BY <1>2 DEF LocalsType
  <2> HIDE DEF l1
  <2>4. Ready("failed", l1)
    BY <1>2, <2>3 DEF Ready, InEngine, InFailure
  <2>5. QED
    BY <2>1, <2>2, <2>4, LabelTypes, StepTypes, Assemble
<1>6. QED
  BY <1>3, <1>4, <1>5

LEMMA RewriteTypes ==
  ASSUME TypeOK, NEW w \in Workers, NothingMasked(w) \/ Masked(w)
  PROVE  TypeOK'
<1>1. Surrounds
  BY Untouched DEF NothingMasked, Masked
<1>2. pc[w] = "rewrite" /\ pc[w] \in InEngine \cup InFailure /\ "rewrite" \in InEngine
  BY DEF NothingMasked, Masked, Finish, Goto, InEngine
<1>3. /\ loc[w] \in LocalsType /\ Ready("rewrite", loc[w])
      /\ loc[w].text \in Texts /\ cfg \in Config
  BY <1>2, AtWork
<1>4. CASE NothingMasked(w)
  <2>1. Finish(w, "rewrite", "mask", loc[w].text, FALSE) /\ loc[w].text \in Outputs
    BY <1>3, <1>4 DEF NothingMasked, Outputs
  <2>2. QED
    BY <1>1, <1>2, <2>1, FinishTypes, Assemble
<1>5. CASE Masked(w)
  <2> DEFINE masked == MaskWith(w)
             to == IF loc[w].sys.demask THEN "put" ELSE "done"
             l1 == [loc[w] EXCEPT !.masked = masked]
  <2>1. Goto(w, "rewrite", to) /\ loc' = [loc EXCEPT ![w] = l1] /\ masked # Absent
    BY <1>5 DEF Masked
  <2>2. masked \in Texts
    <3>1. loc[w].sys \in System
      BY <1>3 DEF Ready, InEngine, LocalsType
    <3>2. loc[w].sys.rules \in Rules /\ cfg.extra \in Extras
      BY <1>3, <3>1 DEF System, Config
    <3>3. <<loc[w].sys.rules, cfg.extra, loc[w].text>> \in Rules \X Extras \X Texts
      BY <1>3, <3>2
    <3>4. QED
      BY <2>1, <3>3, ConfigsAssumption DEF MaskWith
  <2> HIDE DEF masked
  <2>3. l1 \in LocalsType
    BY <1>3, <2>2, SetWork
  <2>4. /\ l1.text = loc[w].text /\ l1.samples = loc[w].samples
        /\ l1.sys = loc[w].sys /\ l1.masked = masked
    BY <1>3 DEF LocalsType
  <2> HIDE DEF l1
  <2>5. Ready(to, l1)
    BY <1>3, <2>2, <2>4 DEF Ready, InEngine, InFailure
  <2>6. to \in Labels
    BY LabelTypes
  <2> HIDE DEF to
  <2>7. QED
    BY <1>1, <2>1, <2>3, <2>5, <2>6, StepTypes, Assemble
<1>6. QED
  BY <1>4, <1>5

\* What the store holds after a Put is an entry.
LEMMA RememberTypes ==
  ASSUME TypeOK, NEW w \in Workers, KeyOf(w) \in Keys, NEW original \in Texts,
         NEW masked \in Texts, Remember(w, original, masked)
  PROVE  map' \in [Keys -> Entry \cup {Absent}]
<1>1. [original |-> original, masked |-> masked] \in Entry
  BY DEF Entry
<1>2. map \in [Keys -> Entry \cup {Absent}]
  BY DEF TypeOK
<1>3. QED
  BY <1>1, <1>2 DEF Remember

LEMMA PutTypes ==
  ASSUME TypeOK, NEW w \in Workers, Put(w) \/ Done(w)
  PROVE  TypeOK'
<1>1. pc[w] \in {"put", "done"} /\ pc[w] \in InEngine \cup InFailure /\ "done" \in InEngine
  BY DEF Put, Done, Finish, Goto, InEngine
<1>2. /\ loc[w] \in LocalsType /\ Ready(pc[w], loc[w])
      /\ loc[w].text \in Texts /\ loc[w].masked \in Texts /\ KeyOf(w) \in Keys
  BY <1>1, AtWork DEF Ready
<1>3. CASE Put(w)
  <2>1. Goto(w, "put", "done") /\ loc' = loc /\ cfg' = cfg /\ budget' = budget
    BY <1>3 DEF Put
  <2>2. map' \in [Keys -> Entry \cup {Absent}]
    BY <1>2, <1>3, RememberTypes DEF Put
  <2>3. Surrounds
    BY <2>1, <2>2 DEF TypeOK, Surrounds
  <2>4. Ready("done", loc[w])
    BY <1>1, <1>2 DEF Ready, InEngine, InFailure
  <2>5. QED
    BY <2>1, <2>3, <2>4, LabelTypes, MoveTypes, Assemble
<1>4. CASE Done(w)
  <2>1. Finish(w, "done", "mask", loc[w].masked, FALSE) /\ loc[w].masked \in Outputs
    BY <1>2, <1>4 DEF Done, Outputs
  <2>2. Surrounds
    BY <1>4, Untouched DEF Done
  <2>3. QED
    BY <1>1, <2>1, <2>2, FinishTypes, Assemble
<1>5. QED
  BY <1>3, <1>4

LEMMA FailureTypes ==
  ASSUME TypeOK, NEW w \in Workers, Failure(w)
  PROVE  TypeOK'
<1>1. pc[w] \in InFailure /\ pc[w] \in InEngine \cup InFailure
  BY DEF Failure, FailClosed, IdentityRefused, IdentityAllowed, IdentityFound,
         IdentityAbsent, IdentityPut, Echo, Reply, Goto, InFailure
<1>2. /\ loc[w] \in LocalsType /\ loc[w].text \in Texts
      /\ loc[w].text \in Outputs /\ KeyOf(w) \in Keys
  BY <1>1, AtWork DEF Outputs
<1>3. 200 \in Statuses /\ 503 \in Statuses /\ 504 \in Statuses /\ Absent \in Outputs
  BY DEF Statuses, Outputs
<1>4. CASE FailClosed(w)
  <2> DEFINE status == IF loc[w].failed = "timeout" THEN 504 ELSE 503
  <2>1. Reply(w, "failed", status, Absent) /\ Surrounds
    BY <1>4, Untouched DEF FailClosed
  <2>2. status \in Statuses
    BY <1>3
  <2>3. QED
    BY <1>3, <2>1, <2>2, ReplyTypes, Assemble
<1>5. ASSUME NEW from, Echo(w, from) PROVE TypeOK'
  <2>1. Reply(w, from, 200, loc[w].text) /\ Surrounds
    BY <1>5, Untouched DEF Echo
  <2>2. QED
    BY <1>2, <1>3, <2>1, ReplyTypes, Assemble
<1>6. CASE IdentityRefused(w) \/ IdentityFound(w)
  BY <1>5, <1>6 DEF IdentityRefused, IdentityFound
<1>7. CASE IdentityAllowed(w) \/ IdentityAbsent(w)
  <2>1. PICK from, to \in InFailure : Goto(w, from, to) /\ loc' = loc
    BY <1>7 DEF IdentityAllowed, IdentityAbsent, InFailure
  <2>2. Surrounds
    BY <1>7, Untouched DEF IdentityAllowed, IdentityAbsent
  <2>3. Ready(to, loc[w]) /\ to \in Labels
    BY <1>2 DEF Ready, InEngine, InFailure, Labels
  <2>4. QED
    BY <2>1, <2>2, <2>3, MoveTypes, Assemble
<1>8. CASE IdentityPut(w)
  <2>1. Reply(w, "identityPut", 200, loc[w].text) /\ cfg' = cfg /\ budget' = budget
    BY <1>8 DEF IdentityPut
  <2>2. map' \in [Keys -> Entry \cup {Absent}]
    BY <1>2, <1>8, RememberTypes DEF IdentityPut
  <2>3. Surrounds
    BY <2>1, <2>2 DEF TypeOK, Surrounds
  <2>4. QED
    BY <1>2, <1>3, <2>1, <2>3, ReplyTypes, Assemble
<1>9. QED
  BY <1>4, <1>6, <1>7, <1>8 DEF Failure

LEMMA AnswerTypes ==
  ASSUME TypeOK, NEW w \in Workers, Answer(w)
  PROVE  TypeOK'
<1>1. Goto(w, "answer", "idle") /\ loc' = [loc EXCEPT ![w] = NoLocals] /\ Surrounds
  BY Untouched DEF Answer
<1>2. Ready("idle", NoLocals)
  BY DEF Ready, InEngine, InFailure
<1>3. QED
  BY <1>1, <1>2, NoLocalsType, LabelTypes, StepTypes, Assemble

LEMMA SurroundingsTypes ==
  ASSUME TypeOK, Surroundings
  PROVE  TypeOK'
<1>1. ASSUME NEW w \in Workers, Deadline(w) PROVE TypeOK'
  <2> DEFINE l1 == [loc[w] EXCEPT !.late = TRUE]
  <2>1. loc' = [loc EXCEPT ![w] = l1] /\ pc' = pc /\ Surrounds
    BY <1>1, SpendTypes DEF Deadline, TypeOK, Surrounds
  <2>2. /\ loc[w] \in LocalsType /\ loc \in [Workers -> LocalsType]
        /\ pc \in [Workers -> Labels] /\ \A v \in Workers : Ready(pc[v], loc[v])
    BY DEF TypeOK
  <2>3. l1 \in LocalsType
    BY <2>2, SetFlags
  <2>4. /\ l1.text = loc[w].text /\ l1.samples = loc[w].samples /\ l1.sys = loc[w].sys
        /\ l1.masked = loc[w].masked /\ l1.dir = loc[w].dir /\ l1.entry = loc[w].entry
    BY <2>2 DEF LocalsType
  <2> HIDE DEF l1
  <2>5. Ready(pc[w], l1)
    BY <2>2, <2>4 DEF Ready
  <2>6. ASSUME NEW v \in Workers PROVE Ready(pc'[v], loc'[v])
    BY <2>1, <2>2, <2>5, <2>6
  <2>7. loc' \in [Workers -> LocalsType] /\ pc' \in [Workers -> Labels]
    BY <2>1, <2>2, <2>3
  <2>8. QED
    BY <2>1, <2>6, <2>7, Assemble
<1>2. ASSUME NEW c \in Configs, Reconfigure(c) PROVE TypeOK'
  <2>1. Surrounds /\ pc' = pc /\ loc' = loc
    BY <1>2, SpendTypes DEF Reconfigure, TypeOK, Surrounds
  <2>2. QED
    BY <2>1, Assemble DEF TypeOK
<1>3. ASSUME NEW k \in Keys, Forget(k) PROVE TypeOK'
  <2>1. Surrounds /\ pc' = pc /\ loc' = loc
    BY <1>3, SpendTypes DEF Forget, TypeOK, Surrounds
  <2>2. QED
    BY <2>1, Assemble DEF TypeOK
<1>4. QED
  BY <1>1, <1>2, <1>3 DEF Surroundings

\* A step of one request leaves the others alone.
LEMMA OthersStay ==
  ASSUME TypeOK, NEW w \in Workers,
         (\E r \in Request : Receive(w, r)) \/ Handle(w) \/ Answer(w), NEW v \in Workers, v # w
  PROVE  pc'[v] = pc[v] /\ loc'[v] = loc[v]
<1> DEFINE Stay == pc'[v] = pc[v] /\ loc'[v] = loc[v]
<1>1. pc \in [Workers -> Labels] /\ loc \in [Workers -> LocalsType]
  BY DEF TypeOK
<1>2. ASSUME NEW from, NEW to, Goto(w, from, to), loc' = loc PROVE Stay
  BY <1>1, <1>2 DEF Goto
<1>3. ASSUME NEW from, NEW to, NEW r, Goto(w, from, to), loc' = [loc EXCEPT ![w] = r]
      PROVE  Stay
  BY <1>1, <1>3 DEF Goto
<1>4. ASSUME NEW from, NEW status, NEW out, Reply(w, from, status, out) PROVE Stay
  BY <1>1, <1>4 DEF Reply, Goto
<1>5. ASSUME NEW from, NEW op, NEW out, NEW cached, Finish(w, from, op, out, cached)
      PROVE  Stay
  BY <1>3, <1>5 DEF Finish
<1>6. ASSUME NEW from, NEW op, Abandon(w, from, op) PROVE Stay
  BY <1>3, <1>6 DEF Abandon
<1> HIDE DEF Stay
<1>7. ASSUME (\E r \in Request : Receive(w, r)) \/ Answer(w) PROVE Stay
  BY <1>3, <1>7 DEF Receive, Answer
<1>8. ASSUME Refuse(w) \/ Reject(w) \/ AnswerEmpty(w) \/ Unavailable(w) \/ FailClosed(w)
             \/ IdentityRefused(w) \/ IdentityFound(w) \/ IdentityPut(w)
      PROVE  Stay
  BY <1>4, <1>8 DEF Refuse, Reject, AnswerEmpty, Unavailable, FailClosed, IdentityRefused,
     IdentityFound, IdentityPut, Echo
<1>9. ASSUME Admit(w) \/ MaskInto(w) \/ Detected(w) \/ Put(w) \/ IdentityAllowed(w)
             \/ IdentityAbsent(w)
      PROVE  Stay
  BY <1>2, <1>9 DEF Admit, MaskInto, Detected, Put, IdentityAllowed, IdentityAbsent
<1>10. ASSUME ResolveSystem(w) \/ Lookup(w) \/ DetectPanics(w) \/ Masked(w) PROVE Stay
  BY <1>1, <1>10 DEF ResolveSystem, Lookup, Direct, DetectPanics, Masked, Goto, Stay
<1>11. ASSUME Demask(w) \/ MaskRetry(w) \/ DemaskMiss(w) \/ NothingMasked(w) \/ Done(w)
       PROVE  Stay
  BY <1>5, <1>11 DEF Demask, MaskRetry, DemaskMiss, NothingMasked, Done
<1>12. ASSUME CheckLate(w) \/ DetectLate(w) PROVE Stay
  BY <1>6, <1>12 DEF CheckLate, DetectLate
<1>13. Stay
  BY <1>7, <1>8, <1>9, <1>10, <1>11, <1>12 DEF Handle, Engine, Failure
<1>14. QED
  BY <1>13 DEF Stay

\* What goes on around the requests is at most the end of their time.
LEMMA AroundStays ==
  ASSUME TypeOK, Surroundings \/ UNCHANGED vars, NEW v \in Workers
  PROVE  /\ pc'[v] = pc[v]
         /\ loc'[v] = loc[v] \/ loc'[v] = [loc[v] EXCEPT !.late = TRUE]
<1>1. loc \in [Workers -> LocalsType]
  BY DEF TypeOK
<1>2. ASSUME NEW w \in Workers, Deadline(w)
      PROVE  /\ pc' = pc
             /\ loc'[v] = loc[v] \/ loc'[v] = [loc[v] EXCEPT !.late = TRUE]
  <2>1. pc' = pc /\ loc' = [loc EXCEPT ![w] = [loc[w] EXCEPT !.late = TRUE]]
    BY <1>2 DEF Deadline
  <2>2. QED
    BY <1>1, <2>1
<1>3. QED
  BY <1>2 DEF Surroundings, Reconfigure, Forget, vars

\* A step of a call in progress stays with its payload id.
LEMMA CallGoesOn ==
  ASSUME TypeOK, NEW w \in Workers, Handle(w)
  PROVE  pc[w] # "idle" /\ loc'[w].id = loc[w].id
<1> DEFINE On == pc[w] # "idle" /\ loc'[w].id = loc[w].id
<1>1. pc \in [Workers -> Labels] /\ loc \in [Workers -> LocalsType] /\ loc[w] \in LocalsType
  BY DEF TypeOK
<1>2. ASSUME NEW from, from # "idle", NEW to, Goto(w, from, to), loc' = loc PROVE On
  BY <1>1, <1>2 DEF Goto
<1>3. ASSUME NEW from, from # "idle", NEW to, NEW r, r.id = loc[w].id, Goto(w, from, to),
             loc' = [loc EXCEPT ![w] = r]
      PROVE  On
  BY <1>1, <1>3 DEF Goto
<1>4. ASSUME NEW from, from # "idle", NEW status, NEW out, Reply(w, from, status, out) PROVE On
  BY <1>4, ReplyFacts
<1>5. ASSUME NEW from, from # "idle", NEW op, NEW out, NEW cached, Finish(w, from, op, out, cached)
      PROVE  On
  BY <1>5, FinishFacts
<1>6. ASSUME NEW from, from # "idle", NEW op, Abandon(w, from, op) PROVE On
  <2> DEFINE r == [loc[w] EXCEPT !.failed = "timeout", !.op = op, !.samples = loc[w].samples + 1]
  <2>1. r.id = loc[w].id
    BY <1>1 DEF LocalsType
  <2>2. QED
    BY <1>3, <1>6, <2>1 DEF Abandon
<1>7. ASSUME Refuse(w) \/ Reject(w) \/ AnswerEmpty(w) \/ Unavailable(w) \/ FailClosed(w)
             \/ IdentityRefused(w) \/ IdentityFound(w) \/ IdentityPut(w)
      PROVE  On
  <2>1. PICK from, status, out : from # "idle" /\ Reply(w, from, status, out)
    BY <1>7 DEF Refuse, Reject, AnswerEmpty, Unavailable, FailClosed, IdentityRefused,
       IdentityFound, IdentityPut, Echo
  <2>2. QED
    BY <1>4, <2>1
<1>8. ASSUME Admit(w) \/ MaskInto(w) \/ Detected(w) \/ Put(w) \/ IdentityAllowed(w)
             \/ IdentityAbsent(w)
      PROVE  On
  BY <1>2, <1>8 DEF Admit, MaskInto, Detected, Put, IdentityAllowed, IdentityAbsent
<1>9. ASSUME ResolveSystem(w) \/ Lookup(w) \/ DetectPanics(w) \/ Masked(w) PROVE On
  BY <1>1, <1>9 DEF ResolveSystem, Lookup, Direct, DetectPanics, Masked, Goto, LocalsType
<1>10. ASSUME Demask(w) \/ MaskRetry(w) \/ DemaskMiss(w) \/ NothingMasked(w) \/ Done(w)
       PROVE  On
  <2>1. PICK from, op, out, cached : from # "idle" /\ Finish(w, from, op, out, cached)
    BY <1>10 DEF Demask, MaskRetry, DemaskMiss, NothingMasked, Done
  <2>2. QED
    BY <1>5, <2>1
<1>11. ASSUME CheckLate(w) \/ DetectLate(w) PROVE On
  BY <1>6, <1>11 DEF CheckLate, DetectLate
<1>12. QED
  BY <1>7, <1>8, <1>9, <1>10, <1>11 DEF Handle, Engine, Failure

\* Only two steps of a call change the store.
LEMMA StoreUntouched ==
  ASSUME NEW w \in Workers, Handle(w)
  PROVE  Put(w) \/ IdentityPut(w) \/ map' = map
<1>1. ASSUME Refuse(w) \/ Reject(w) \/ AnswerEmpty(w) \/ Admit(w) PROVE map' = map
  BY <1>1 DEF Refuse, Reject, AnswerEmpty, Admit
<1>2. ASSUME ResolveSystem(w) \/ Unavailable(w) \/ Lookup(w) \/ CheckLate(w) \/ Demask(w)
             \/ MaskRetry(w) \/ DemaskMiss(w) \/ MaskInto(w)
      PROVE  map' = map
  BY <1>2 DEF ResolveSystem, Unavailable, Lookup, Direct, CheckLate, Abandon, Demask,
     MaskRetry, DemaskMiss, MaskInto
<1>3. ASSUME Detected(w) \/ DetectLate(w) \/ DetectPanics(w) \/ NothingMasked(w) \/ Masked(w)
             \/ Done(w)
      PROVE  map' = map
  BY <1>3 DEF Detected, DetectLate, Abandon, DetectPanics, NothingMasked, Masked, Done
<1>4. ASSUME FailClosed(w) \/ IdentityRefused(w) \/ IdentityAllowed(w) \/ IdentityFound(w)
             \/ IdentityAbsent(w)
      PROVE  map' = map
  BY <1>4 DEF FailClosed, IdentityRefused, IdentityAllowed, IdentityFound, IdentityAbsent, Echo
<1>5. QED
  BY <1>1, <1>2, <1>3, <1>4 DEF Handle, Engine, Failure

LEMMA InitTypes == Init => TypeOK
<1> SUFFICES ASSUME Init PROVE TypeOK
  OBVIOUS
<1>1. Ready("idle", NoLocals)
  BY DEF Ready, InEngine, InFailure
<1>2. pc = [w \in Workers |-> "idle"] /\ loc = [w \in Workers |-> NoLocals]
  BY DEF Init
<1>3. budget \in [calls : Nat, faults : Nat, changes : Nat, losses : Nat]
  BY BoundsAssumption DEF Init
<1>4. cfg \in Configs /\ map \in [Keys -> Entry \cup {Absent}]
  BY DEF Init
<1>5. QED
  BY <1>1, <1>2, <1>3, <1>4, NoLocalsType, LabelTypes DEF TypeOK

LEMMA NextTypes == TypeOK /\ [Next]_vars => TypeOK'
<1> SUFFICES ASSUME TypeOK, [Next]_vars PROVE TypeOK'
  OBVIOUS
<1>1. ASSUME NEW w \in Workers, Requests(w) PROVE TypeOK'
  BY <1>1, RequestAssumption, ReceiveTypes DEF Requests
<1>2. ASSUME NEW w \in Workers, Handle(w) PROVE TypeOK'
  BY <1>2, HandlerTypes, ResolveTypes, LookupTypes, CheckTypes, DetectTypes,
     RewriteTypes, PutTypes, FailureTypes DEF Handle, Engine
<1>3. ASSUME NEW w \in Workers, Answer(w) PROVE TypeOK'
  BY <1>3, AnswerTypes
<1>4. CASE Surroundings
  BY <1>4, SurroundingsTypes
<1>5. CASE UNCHANGED vars
  <2>1. Surrounds /\ pc' = pc /\ loc' = loc
    BY <1>5, Untouched DEF vars
  <2>2. QED
    BY <2>1, Assemble DEF TypeOK
<1>6. QED
  BY <1>1, <1>2, <1>3, <1>4, <1>5 DEF Next

\* Whatever the requests, the configurations and what Rewrite makes of a text,
\* every step of a call finds what it takes for granted: a payload, a system in
\* use, the entry its direction was decided on, and nothing counted before the
\* engine counts it.
THEOREM ProcessTypeCorrect == Spec => []TypeOK
<1>1. QED
  BY InitTypes, NextTypes, PTL DEF Spec

-----------------------------------------------------------------------------
(* Answers and the past *)

\* The history only grows: what a call found out stays true of it.
Grown ==
  /\ \A k \in Keys : pairs[k] \subseteq pairs'[k]
  /\ \A k \in Keys : map'[k] # Absent => map'[k] \in pairs'[k]
  /\ faulted \subseteq faulted'
  /\ \A w \in Workers : pc'[w] = "failed" => KeyOf(w) \in faulted'
  /\ \A w \in Workers : pc'[w] # "idle" =>
       (allowed'[w] <=> (allowed[w] \/ Resolved(cfg', loc'[w].header) # Absent))

LEMMA KeyTypes == ASSUME TypeOK, NEW w \in Workers PROVE KeyOf(w) \in Keys
<1>1. loc[w].id \in PayloadIds
  BY DEF TypeOK, LocalsType
<1>2. QED
  BY <1>1, RequestAssumption DEF KeyOf

LEMMA NoteTypes ==
  ASSUME TypeOK, TypeOK', HTypeOK, Note
  PROVE  HTypeOK' /\ Grown
<1>1. map' \in [Keys -> Entry \cup {Absent}] /\ pairs \in [Keys -> SUBSET Entry]
  BY DEF TypeOK, HTypeOK
<1>2. pairs' = [k \in Keys |-> pairs[k] \cup ({map'[k]} \ {Absent})]
  BY DEF Note
<1>3. /\ \A k \in Keys : pairs'[k] = pairs[k] \cup ({map'[k]} \ {Absent})
      /\ pairs' \in [Keys -> SUBSET Entry]
  BY <1>1, <1>2
<1>4. faulted' = faulted \cup {KeyOf(w) : w \in {x \in Workers : pc'[x] = "failed"}}
  BY DEF Note
<1>5. faulted' \subseteq Keys
  BY <1>4, KeyTypes DEF HTypeOK
<1>6. allowed' = [w \in Workers |->
        IF pc'[w] = "idle" THEN FALSE
        ELSE allowed[w] \/ Resolved(cfg', loc'[w].header) # Absent]
  BY DEF Note
<1>7. allowed' \in [Workers -> BOOLEAN]
  BY <1>6 DEF HTypeOK
<1>8. \A w \in Workers : pc'[w] # "idle" =>
        (allowed'[w] <=> (allowed[w] \/ Resolved(cfg', loc'[w].header) # Absent))
  BY <1>6
<1>9. HTypeOK'
  BY <1>3, <1>5, <1>7 DEF HTypeOK
<1>10. QED
  BY <1>3, <1>4, <1>8, <1>9 DEF Grown

\* A call that takes no step, but may run out of time, keeps what it has.
LEMMA BystanderKeeps ==
  ASSUME TypeOK, Grown, NEW w \in Workers, CallInv(w), pc'[w] = pc[w],
         \/ loc'[w] = loc[w]
         \/ loc'[w] = [loc[w] EXCEPT !.late = TRUE]
  PROVE  CallInv(w)'
<1> DEFINE l == loc'[w]
<1>1. loc[w] \in LocalsType
  BY DEF TypeOK
<1>2. /\ l.id = loc[w].id /\ l.text = loc[w].text /\ l.sys = loc[w].sys
      /\ l.entry = loc[w].entry /\ l.dir = loc[w].dir /\ l.masked = loc[w].masked
      /\ l.status = loc[w].status /\ l.out = loc[w].out /\ l.op = loc[w].op
      /\ l.cached = loc[w].cached /\ l.served = loc[w].served
  BY <1>1 DEF LocalsType
<1> HIDE DEF l
<1>3. StoreKey[l.id] = KeyOf(w) /\ KeyOf(w) \in Keys
  BY <1>2, KeyTypes DEF KeyOf
<1>4. pairs[KeyOf(w)] \subseteq pairs'[KeyOf(w)]
  BY <1>3 DEF Grown
<1>5. QED
  BY <1>2, <1>3, <1>4 DEF l, Grown, CallInv, OnTheWay, Remembered, Answering, FreshMask,
     Betrayed, KeyOf, InEngine, InFailure

-----------------------------------------------------------------------------
LEMMA ReplyCall ==
  ASSUME TypeOK, Grown, NEW w \in Workers, CallInv(w),
         NEW from, NEW status, NEW out, Reply(w, from, status, out), from # "answer",
         status = 200 /\ loc[w].text # EmptyText =>
           /\ allowed[w]
           /\ loc[w].text \in Personal /\ out = loc[w].text => KeyOf(w) \in faulted
  PROVE  CallInv(w)'
<1> DEFINE l == loc'[w]
<1>1. /\ pc[w] = from /\ pc'[w] = "answer" /\ l.id = loc[w].id /\ l.text = loc[w].text
      /\ l.status = status /\ l.out = out
      /\ l.cached = loc[w].cached /\ l.served = loc[w].served
  BY ReplyFacts
<1>2. ~l.cached /\ ~l.served
  BY <1>1 DEF CallInv, OnTheWay
<1> HIDE DEF l
<1>3. OnTheWay(w)'
  BY <1>1 DEF OnTheWay, InEngine, InFailure
<1>4. Remembered(w)'
  BY <1>2 DEF l, Remembered, FreshMask
<1>5. (Answering(w) => allowed[w])'
  BY <1>1 DEF l, Answering, Grown
<1>6. (Betrayed(w) => KeyOf(w) \in faulted)'
  BY <1>1 DEF l, Betrayed, Answering, Grown, KeyOf
<1>7. QED
  BY <1>3, <1>4, <1>5, <1>6 DEF CallInv

LEMMA FinishCall ==
  ASSUME TypeOK, Grown, NEW w \in Workers, CallInv(w),
         NEW from \in InEngine \ {"resolve"}, NEW op, NEW out, NEW cached,
         Finish(w, from, op, out, cached),
         cached => (IF op = "demask" THEN Pair(out, loc[w].text)
                                     ELSE Pair(loc[w].text, out)) \in pairs[KeyOf(w)],
         ~cached /\ op = "mask" /\ out # loc[w].text /\ loc[w].sys.demask
           /\ {loc[w].text, out} \cap TooLong = {} => Pair(loc[w].text, out) \in pairs[KeyOf(w)],
         loc[w].text \in Personal /\ out = loc[w].text => KeyOf(w) \in faulted
  PROVE  CallInv(w)'
<1> DEFINE l == loc'[w]
<1>1. /\ pc[w] = from /\ pc'[w] = "answer" /\ l.id = loc[w].id /\ l.text = loc[w].text
      /\ l.sys = loc[w].sys /\ l.out = out /\ l.op = op /\ l.cached = cached
  BY FinishFacts
<1> HIDE DEF l
<1>2. KeyOf(w)' = KeyOf(w) /\ KeyOf(w) \in Keys
  BY <1>1, KeyTypes DEF l, KeyOf
<1>3. pairs[KeyOf(w)] \subseteq pairs'[KeyOf(w)]
  BY <1>2 DEF Grown
<1>4. OnTheWay(w)'
  BY <1>1 DEF OnTheWay, InEngine, InFailure
<1>5. Remembered(w)'
  BY <1>1, <1>2, <1>3 DEF l, Remembered, FreshMask
<1>6. allowed[w]
  BY <1>1 DEF CallInv, OnTheWay
<1>7. (Answering(w) => allowed[w])'
  BY <1>1, <1>6 DEF Grown
<1>8. (Betrayed(w) => KeyOf(w) \in faulted)'
  BY <1>1, <1>2 DEF l, Betrayed, Grown
<1>9. QED
  BY <1>4, <1>5, <1>7, <1>8 DEF CallInv

-----------------------------------------------------------------------------
(* What the steps of a call leave of CallInv *)

LEMMA KeyStays ==
  ASSUME TypeOK, Grown, NEW w \in Workers, loc'[w].id = loc[w].id
  PROVE  KeyOf(w)' = KeyOf(w) /\ KeyOf(w) \in Keys /\ pairs[KeyOf(w)] \subseteq pairs'[KeyOf(w)]
BY KeyTypes DEF KeyOf, Grown

\* Before the answer CallInv is what the call has found out.
LEMMA Midway ==
  ASSUME NEW w \in Workers, pc'[w] # "answer", OnTheWay(w)'
  PROVE  CallInv(w)'
BY DEF CallInv, Remembered, Answering, Betrayed

LEMMA ReceiveCall ==
  ASSUME TypeOK, NEW w \in Workers, NEW r \in Traffic, Receive(w, r)
  PROVE  CallInv(w)'
<1> DEFINE l == [NoLocals EXCEPT
               !.id = r.id, !.header = r.header, !.secret = r.secret, !.text = r.text,
               !.allowList = cfg.requireSystem, !.failOpen = cfg.failOpen]
<1>1. Goto(w, "idle", "authorize") /\ loc' = [loc EXCEPT ![w] = l]
  BY DEF Receive
<1>2. ~l.cached /\ ~l.served
  BY DEF NoLocals
<1> HIDE DEF l
<1>3. pc'[w] = "authorize" /\ loc'[w] = l
  BY <1>1, StepFacts
<1>4. QED
  BY <1>2, <1>3, Midway DEF OnTheWay, InEngine, InFailure

LEMMA AdmissionCall ==
  ASSUME TypeOK, Grown, NEW w \in Workers, CallInv(w),
         Refuse(w) \/ Reject(w) \/ AnswerEmpty(w) \/ Admit(w) \/ Unavailable(w)
  PROVE  CallInv(w)'
<1>1. CASE Refuse(w)
  <2>1. PICK status : status = AuthStatus(w)
    OBVIOUS
  <2>2. Reply(w, "authorize", status, Absent) /\ status # 200
    BY <1>1, <2>1, AuthStatusIs DEF Refuse
  <2>3. QED
    BY <2>2, ReplyCall
<1>2. CASE Reject(w)
  BY <1>2, ReplyCall DEF Reject
<1>3. CASE AnswerEmpty(w)
  BY <1>3, ReplyCall DEF AnswerEmpty
<1>4. CASE Unavailable(w)
  BY <1>4, ReplyCall DEF Unavailable
<1>5. CASE Admit(w)
  <2>1. pc[w] = "authorize" /\ pc'[w] = "resolve" /\ loc'[w] = loc[w]
    BY <1>5, MoveFacts DEF Admit
  <2>2. OnTheWay(w)'
    BY <2>1 DEF CallInv, OnTheWay, InEngine, InFailure
  <2>3. QED
    BY <2>1, <2>2, Midway
<1>6. QED
  BY <1>1, <1>2, <1>3, <1>4, <1>5

LEMMA ResolvedInUse ==
  ASSUME NEW c \in Configs, NEW h \in Headers, Resolved(c, h) # Absent
  PROVE  Resolved(c, h) \in InUse
<1>1. c.default \in Headers
  BY ConfigsAssumption DEF Config
<1>2. QED
  BY <1>1 DEF Resolved, InUse

LEMMA ResolveCall ==
  ASSUME TypeOK, Grown, NEW w \in Workers, CallInv(w), ResolveSystem(w)
  PROVE  CallInv(w)'
<1> DEFINE sys == Resolved(cfg, loc[w].header)
           l == [loc[w] EXCEPT !.sys = sys]
<1>1. Goto(w, "resolve", "lookup") /\ loc' = [loc EXCEPT ![w] = l] /\ sys # Absent /\ cfg' = cfg
  BY DEF ResolveSystem
<1>2. loc[w] \in LocalsType /\ cfg \in Configs
  BY DEF TypeOK
<1>3. loc[w].header \in Headers
  BY <1>2 DEF LocalsType
<1>4. sys \in InUse
  BY <1>1, <1>2, <1>3, ResolvedInUse
<1>5. /\ l.header = loc[w].header /\ l.cached = loc[w].cached /\ l.served = loc[w].served
      /\ l.sys = sys
  BY <1>2 DEF LocalsType
<1> HIDE DEF l
<1>6. pc[w] = "resolve" /\ pc'[w] = "lookup" /\ loc'[w] = l
  BY <1>1, StepFacts
<1>7. allowed'[w]
  BY <1>1, <1>5, <1>6 DEF Grown
<1> HIDE DEF sys
<1>8. OnTheWay(w)'
  BY <1>4, <1>5, <1>6, <1>7 DEF CallInv, OnTheWay, InEngine, InFailure
<1>9. QED
  BY <1>6, <1>8, Midway

\* What decide says of an entry and a payload.
LEMMA DecideFacts ==
  ASSUME NEW e, NEW t, NEW sys
  PROVE  /\ Decide(e, t, sys) = "demask" => e # Absent /\ e.masked = t
         /\ Decide(e, t, sys) = "maskRetry" => e # Absent /\ e.original = t
         /\ Decide(e, t, sys) = "demaskMiss" => t \notin Personal
BY DEF Decide, Personal

LEMMA LookupCall ==
  ASSUME TypeOK, Grown, StoreKnown, NEW w \in Workers, CallInv(w), Lookup(w)
  PROVE  CallInv(w)'
<1> DEFINE e == map[KeyOf(w)]
           dir == Decide(e, loc[w].text, loc[w].sys)
           l == [loc[w] EXCEPT !.entry = e, !.dir = dir]
<1>1. Goto(w, "lookup", "check") /\ loc' = [loc EXCEPT ![w] = l]
  BY DEF Lookup, Direct
<1>2. loc[w] \in LocalsType /\ KeyOf(w) \in Keys
  BY KeyTypes DEF TypeOK
<1>3. e # Absent => e \in pairs[KeyOf(w)]
  BY <1>2 DEF StoreKnown
<1>4. /\ dir = "demask" => e # Absent /\ e.masked = loc[w].text
      /\ dir = "maskRetry" => e # Absent /\ e.original = loc[w].text
      /\ dir = "demaskMiss" => loc[w].text \notin Personal
  BY DecideFacts
<1> HIDE DEF e, dir
<1>5. /\ l.id = loc[w].id /\ l.text = loc[w].text /\ l.sys = loc[w].sys /\ l.entry = e
      /\ l.dir = dir /\ l.cached = loc[w].cached /\ l.served = loc[w].served
  BY <1>2 DEF LocalsType
<1> HIDE DEF l
<1>6. pc[w] = "lookup" /\ pc'[w] = "check" /\ loc'[w] = l
  BY <1>1, StepFacts
<1>7. KeyOf(w)' = KeyOf(w) /\ pairs[KeyOf(w)] \subseteq pairs'[KeyOf(w)]
  BY <1>5, <1>6, KeyStays
<1>8. allowed[w] /\ loc[w].sys \in InUse /\ ~loc[w].cached /\ ~loc[w].served
  BY <1>6 DEF CallInv, OnTheWay, InEngine
<1>9. allowed'[w]
  BY <1>6, <1>8 DEF Grown
<1>10. OnTheWay(w)'
  BY <1>3, <1>4, <1>5, <1>6, <1>7, <1>8, <1>9 DEF OnTheWay, InEngine, InFailure
<1>11. QED
  BY <1>6, <1>10, Midway

LEMMA AbandonCall ==
  ASSUME TypeOK, Grown, NEW w \in Workers, CallInv(w),
         NEW from \in InEngine \ {"resolve"}, NEW op, Abandon(w, from, op)
  PROVE  CallInv(w)'
<1> DEFINE l == [loc[w] EXCEPT
             !.failed = "timeout", !.op = op, !.samples = loc[w].samples + 1]
<1>1. Goto(w, from, "failed") /\ loc' = [loc EXCEPT ![w] = l]
  BY DEF Abandon
<1>2. loc[w] \in LocalsType
  BY DEF TypeOK
<1>3. l.id = loc[w].id /\ l.cached = loc[w].cached /\ l.served = loc[w].served
  BY <1>2 DEF LocalsType
<1> HIDE DEF l
<1>4. pc[w] = from /\ pc'[w] = "failed" /\ loc'[w] = l
  BY <1>1, StepFacts
<1>5. KeyOf(w)' = KeyOf(w)
  BY <1>3, <1>4, KeyStays
<1>6. allowed'[w] /\ KeyOf(w) \in faulted'
  BY <1>4 DEF CallInv, OnTheWay, InEngine, Grown
<1>7. ~loc[w].cached /\ ~loc[w].served
  BY <1>4 DEF CallInv, OnTheWay, InEngine
<1>8. OnTheWay(w)'
  BY <1>3, <1>4, <1>5, <1>6, <1>7 DEF OnTheWay, InEngine, InFailure
<1>9. QED
  BY <1>4, <1>8, Midway

\* An identity among the entries ever made for personal data betrays a failure.
LEMMA IdentityBetrays ==
  ASSUME StoreKnown, NEW k \in Keys, NEW e \in pairs[k],
         e.original \in Personal, e.original = e.masked
  PROVE  k \in faulted
BY DEF StoreKnown

LEMMA CheckCall ==
  ASSUME TypeOK, HTypeOK, Grown, StoreKnown, NEW w \in Workers, CallInv(w),
         CheckLate(w) \/ Demask(w) \/ MaskRetry(w) \/ DemaskMiss(w) \/ MaskInto(w)
  PROVE  CallInv(w)'
<1>1. pc[w] = "check" /\ "check" \in InEngine \ {"resolve"}
  BY DEF CheckLate, Abandon, Demask, MaskRetry, DemaskMiss, MaskInto, Finish, Goto, InEngine
<1>2. KeyOf(w) \in Keys
  BY KeyTypes
<1> DEFINE e == loc[w].entry
           t == loc[w].text
<1>3. /\ loc[w].dir = "demask" => e \in pairs[KeyOf(w)] /\ e.masked = t
      /\ loc[w].dir = "maskRetry" => e \in pairs[KeyOf(w)] /\ e.original = t
      /\ loc[w].dir = "demaskMiss" => t \notin Personal
  BY <1>1 DEF CallInv, OnTheWay
<1>4. ASSUME e \in pairs[KeyOf(w)] PROVE e = Pair(e.original, e.masked)
  <2>1. e \in Entry
    BY <1>2, <1>4 DEF HTypeOK
  <2>2. QED
    BY <2>1 DEF Entry, Pair
<1>5. CASE CheckLate(w)
  BY <1>1, <1>5, AbandonCall DEF CheckLate
<1>6. CASE Demask(w)
  <2>1. Finish(w, "check", "demask", e.original, TRUE) /\ e \in pairs[KeyOf(w)] /\ e.masked = t
    BY <1>3, <1>6 DEF Demask
  <2>2. Pair(e.original, t) \in pairs[KeyOf(w)]
    BY <1>4, <2>1
  <2>3. t \in Personal /\ e.original = t => KeyOf(w) \in faulted
    BY <1>2, <2>1, IdentityBetrays
  <2> HIDE DEF e
  <2>4. QED
    BY <1>1, <2>1, <2>2, <2>3, FinishCall
<1>7. CASE MaskRetry(w)
  <2>1. Finish(w, "check", "mask", e.masked, TRUE) /\ e \in pairs[KeyOf(w)] /\ e.original = t
    BY <1>3, <1>7 DEF MaskRetry
  <2>2. Pair(t, e.masked) \in pairs[KeyOf(w)]
    BY <1>4, <2>1
  <2>3. t \in Personal /\ e.masked = t => KeyOf(w) \in faulted
    BY <1>2, <2>1, IdentityBetrays
  <2> HIDE DEF e
  <2>4. QED
    BY <1>1, <2>1, <2>2, <2>3, FinishCall
<1>8. CASE DemaskMiss(w)
  <2>1. Finish(w, "check", "demask", t, FALSE) /\ t \notin Personal
    BY <1>3, <1>8 DEF DemaskMiss
  <2>2. QED
    BY <1>1, <2>1, FinishCall
<1>9. CASE MaskInto(w)
  <2>1. pc'[w] = "detect" /\ loc'[w] = loc[w]
    BY <1>9, MoveFacts DEF MaskInto
  <2>2. OnTheWay(w)'
    BY <1>1, <2>1 DEF CallInv, OnTheWay, InEngine, InFailure, Grown
  <2>3. QED
    BY <2>1, <2>2, Midway
<1>10. QED
  BY <1>5, <1>6, <1>7, <1>8, <1>9

LEMMA DetectCall ==
  ASSUME TypeOK, Grown, NEW w \in Workers, CallInv(w),
         Detected(w) \/ DetectLate(w) \/ DetectPanics(w)
  PROVE  CallInv(w)'
<1>1. pc[w] = "detect" /\ "detect" \in InEngine \ {"resolve"}
  BY DEF Detected, DetectLate, DetectPanics, Abandon, Goto, InEngine
<1>2. CASE Detected(w)
  <2>1. pc'[w] = "rewrite" /\ loc'[w] = loc[w]
    BY <1>2, MoveFacts DEF Detected
  <2>2. OnTheWay(w)'
    BY <1>1, <2>1 DEF CallInv, OnTheWay, InEngine, InFailure, Grown
  <2>3. QED
    BY <2>1, <2>2, Midway
<1>3. CASE DetectLate(w)
  BY <1>1, <1>3, AbandonCall DEF DetectLate
<1>4. CASE DetectPanics(w)
  <2> DEFINE l == [loc[w] EXCEPT !.failed = "panic"]
  <2>1. Goto(w, "detect", "failed") /\ loc' = [loc EXCEPT ![w] = l]
    BY <1>4 DEF DetectPanics
  <2>2. l.id = loc[w].id /\ l.cached = loc[w].cached /\ l.served = loc[w].served
    BY DEF TypeOK, LocalsType
  <2> HIDE DEF l
  <2>3. pc'[w] = "failed" /\ loc'[w] = l
    BY <2>1, StepFacts
  <2>4. KeyOf(w)' = KeyOf(w)
    BY <2>2, <2>3, KeyStays
  <2>5. OnTheWay(w)'
    BY <1>1, <2>2, <2>3, <2>4 DEF CallInv, OnTheWay, InEngine, InFailure, Grown
  <2>6. QED
    BY <2>3, <2>5, Midway
<1>5. QED
  BY <1>2, <1>3, <1>4

\* Every rule set in use replaces something of a personal text.
LEMMA PersonalIsMasked ==
  ASSUME NEW w \in Workers, cfg \in Configs, loc[w].sys \in InUse, loc[w].text \in Personal
  PROVE  MaskWith(w) \notin {loc[w].text, Absent}
BY DEF Personal, MaskWith

LEMMA RewriteCall ==
  ASSUME TypeOK, Grown, NEW w \in Workers, CallInv(w), NothingMasked(w) \/ Masked(w)
  PROVE  CallInv(w)'
<1>1. pc[w] = "rewrite" /\ "rewrite" \in InEngine \ {"resolve"}
  BY DEF NothingMasked, Masked, Finish, Goto, InEngine
<1>2. cfg \in Configs /\ loc[w] \in LocalsType
  BY DEF TypeOK
<1>3. loc[w].sys \in InUse /\ allowed[w] /\ ~loc[w].cached /\ ~loc[w].served
  BY <1>1 DEF CallInv, OnTheWay
<1>4. loc[w].text \in Personal => MaskWith(w) \notin {loc[w].text, Absent}
  BY <1>2, <1>3, PersonalIsMasked
<1>5. CASE NothingMasked(w)
  <2>1. Finish(w, "rewrite", "mask", loc[w].text, FALSE) /\ loc[w].text \notin Personal
    BY <1>4, <1>5 DEF NothingMasked
  <2>2. QED
    BY <1>1, <2>1, FinishCall
<1>6. CASE Masked(w)
  <2> DEFINE masked == MaskWith(w)
             to == IF loc[w].sys.demask THEN "put" ELSE "done"
             l == [loc[w] EXCEPT !.masked = masked]
  <2>1. Goto(w, "rewrite", to) /\ loc' = [loc EXCEPT ![w] = l]
    BY <1>6 DEF Masked
  <2> HIDE DEF masked
  <2>2. /\ l.id = loc[w].id /\ l.text = loc[w].text /\ l.sys = loc[w].sys
        /\ l.masked = masked /\ l.cached = loc[w].cached /\ l.served = loc[w].served
    BY <1>2 DEF LocalsType
  <2> HIDE DEF l
  <2>3. pc'[w] = to /\ loc'[w] = l
    BY <2>1, StepFacts
  <2>4. to \in {"put", "done"} /\ (to = "done" => ~loc[w].sys.demask)
    OBVIOUS
  <2> HIDE DEF to
  <2>5. loc[w].text \in Personal => masked # loc[w].text
    BY <1>4 DEF masked
  <2>6. allowed'[w]
    BY <1>3, <2>3, <2>4 DEF Grown
  <2>7. OnTheWay(w)'
    BY <1>3, <2>2, <2>3, <2>4, <2>5, <2>6 DEF OnTheWay, InEngine, InFailure
  <2>8. QED
    BY <2>3, <2>4, <2>7, Midway
<1>7. QED
  BY <1>5, <1>6

LEMMA PutCall ==
  ASSUME TypeOK, Grown, NEW w \in Workers, CallInv(w), Put(w) \/ Done(w)
  PROVE  CallInv(w)'
<1>1. CASE Put(w)
  <2>1. pc[w] = "put" /\ pc'[w] = "done" /\ loc'[w] = loc[w]
    BY <1>1, MoveFacts DEF Put
  <2>2. KeyOf(w)' = KeyOf(w) /\ KeyOf(w) \in Keys
    BY <2>1, KeyStays
  <2>3. ASSUME {loc[w].text, loc[w].masked} \cap TooLong = {}
        PROVE  Pair(loc[w].text, loc[w].masked) \in pairs'[KeyOf(w)]
    <3>1. map' = [map EXCEPT ![KeyOf(w)] = Pair(loc[w].text, loc[w].masked)]
      BY <1>1, <2>3 DEF Put, Remember, Pair
    <3>2. map'[KeyOf(w)] = Pair(loc[w].text, loc[w].masked)
      BY <2>2, <3>1 DEF TypeOK
    <3>3. loc[w] \in LocalsType /\ Ready("put", loc[w])
      BY <2>1 DEF TypeOK
    <3>4. loc[w].text \in Texts /\ loc[w].masked \in Texts
      BY <3>3 DEF Ready, InEngine
    <3>5. Pair(loc[w].text, loc[w].masked) \in Entry
      BY <3>4 DEF Pair, Entry
    <3>6. Pair(loc[w].text, loc[w].masked) # Absent
      BY <3>5, AbsentAssumption
    <3>7. QED
      BY <2>2, <3>2, <3>6 DEF Grown
  <2>4. /\ ~loc[w].cached /\ ~loc[w].served /\ allowed[w] /\ loc[w].sys \in InUse
        /\ loc[w].text \in Personal => loc[w].masked # loc[w].text
    BY <2>1 DEF CallInv, OnTheWay, InEngine
  <2>5. OnTheWay(w)'
    BY <2>1, <2>2, <2>3, <2>4 DEF OnTheWay, InEngine, InFailure, Grown
  <2>6. QED
    BY <2>1, <2>5, Midway
<1>2. CASE Done(w)
  <2>1. Finish(w, "done", "mask", loc[w].masked, FALSE) /\ "done" \in InEngine \ {"resolve"}
    BY <1>2 DEF Done, InEngine
  <2>2. pc[w] = "done"
    BY <2>1 DEF Finish, Goto
  <2>3. /\ loc[w].text \in Personal => loc[w].masked # loc[w].text
        /\ loc[w].sys.demask /\ {loc[w].text, loc[w].masked} \cap TooLong = {} =>
             Pair(loc[w].text, loc[w].masked) \in pairs[KeyOf(w)]
    BY <2>2 DEF CallInv, OnTheWay
  <2>4. QED
    BY <2>1, <2>3, FinishCall
<1>3. QED
  BY <1>1, <1>2

LEMMA FailureCall ==
  ASSUME TypeOK, Grown, NEW w \in Workers, CallInv(w), Failure(w)
  PROVE  CallInv(w)'
<1>1. pc[w] \in InFailure
  BY DEF Failure, FailClosed, IdentityRefused, IdentityAllowed, IdentityFound,
         IdentityAbsent, IdentityPut, Echo, Reply, Goto, InFailure
<1>2. allowed[w] /\ KeyOf(w) \in faulted /\ ~loc[w].cached /\ ~loc[w].served
  BY <1>1 DEF CallInv, OnTheWay, InFailure
<1>3. ASSUME NEW from \in InFailure, NEW status, NEW out, Reply(w, from, status, out)
      PROVE  CallInv(w)'
  <2>1. from # "answer"
    BY DEF InFailure
  <2>2. QED
    BY <1>2, <1>3, <2>1, ReplyCall
<1>4. CASE FailClosed(w) \/ IdentityRefused(w) \/ IdentityFound(w) \/ IdentityPut(w)
  <2>1. \E from \in InFailure : \E status, out : Reply(w, from, status, out)
    BY <1>4 DEF FailClosed, IdentityRefused, IdentityFound, IdentityPut, Echo, InFailure
  <2>2. QED
    BY <1>3, <2>1
<1>5. CASE IdentityAllowed(w) \/ IdentityAbsent(w)
  <2>1. PICK from, to \in InFailure : Goto(w, from, to) /\ loc' = loc
    BY <1>5 DEF IdentityAllowed, IdentityAbsent, InFailure
  <2>2. pc'[w] = to /\ loc'[w] = loc[w]
    BY <2>1, MoveFacts
  <2>3. KeyOf(w)' = KeyOf(w)
    BY <2>2, KeyStays
  <2>4. OnTheWay(w)'
    BY <1>2, <2>1, <2>2, <2>3 DEF OnTheWay, InEngine, InFailure, Grown
  <2>5. QED
    BY <2>1, <2>2, <2>4, Midway DEF InFailure
<1>6. QED
  BY <1>4, <1>5 DEF Failure

LEMMA AnswerCall ==
  ASSUME TypeOK, NEW w \in Workers, Answer(w)
  PROVE  CallInv(w)'
<1>1. pc'[w] = "idle" /\ loc'[w] = NoLocals
  BY StepFacts DEF Answer
<1>2. OnTheWay(w)'
  BY <1>1 DEF OnTheWay, NoLocals, InEngine, InFailure
<1>3. QED
  BY <1>1, <1>2, Midway

-----------------------------------------------------------------------------
(* The invariant *)

LEMMA HandleCall ==
  ASSUME TypeOK, HTypeOK, Grown, StoreKnown, NEW w \in Workers, CallInv(w),
         Requests(w) \/ Handle(w) \/ Answer(w)
  PROVE  CallInv(w)'
BY ReceiveCall, AdmissionCall, ResolveCall, LookupCall, CheckCall, DetectCall,
   RewriteCall, PutCall, FailureCall, AnswerCall DEF Requests, Handle, Engine

\* Only two steps give the store an entry, each the one of its own request.
LEMMA StoredBy ==
  ASSUME TypeOK, [Next]_vars, NEW k \in Keys
  PROVE  \/ map'[k] \in {map[k], Absent}
         \/ \E w \in Workers : /\ k = KeyOf(w) /\ pc[w] = "put"
                               /\ map'[k] = Pair(loc[w].text, loc[w].masked)
         \/ \E w \in Workers : /\ k = KeyOf(w) /\ pc[w] = "identityPut"
                               /\ map'[k] = Pair(loc[w].text, loc[w].text)
<1> DEFINE Goal ==
         \/ map'[k] \in {map[k], Absent}
         \/ \E w \in Workers : /\ k = KeyOf(w) /\ pc[w] = "put"
                               /\ map'[k] = Pair(loc[w].text, loc[w].masked)
         \/ \E w \in Workers : /\ k = KeyOf(w) /\ pc[w] = "identityPut"
                               /\ map'[k] = Pair(loc[w].text, loc[w].text)
<1>1. map \in [Keys -> Entry \cup {Absent}]
  BY DEF TypeOK
<1>2. ASSUME NEW w \in Workers, NEW o, NEW m, Remember(w, o, m)
      PROVE  map'[k] = map[k] \/ (k = KeyOf(w) /\ map'[k] = Pair(o, m))
  BY <1>1, <1>2 DEF Remember, Pair
<1>3. ASSUME map' = map PROVE Goal
  BY <1>3
<1>4. ASSUME NEW w \in Workers, Put(w) PROVE Goal
  <2>1. pc[w] = "put" /\ Remember(w, loc[w].text, loc[w].masked)
    BY <1>4 DEF Put, Goto
  <2>2. map'[k] = map[k] \/ (k = KeyOf(w) /\ map'[k] = Pair(loc[w].text, loc[w].masked))
    BY <1>2, <2>1
  <2>3. QED
    BY <2>1, <2>2
<1>5. ASSUME NEW w \in Workers, IdentityPut(w) PROVE Goal
  <2>1. pc[w] = "identityPut" /\ Remember(w, loc[w].text, loc[w].text)
    BY <1>5 DEF IdentityPut, Reply, Goto
  <2>2. map'[k] = map[k] \/ (k = KeyOf(w) /\ map'[k] = Pair(loc[w].text, loc[w].text))
    BY <1>2, <2>1
  <2>3. QED
    BY <2>1, <2>2
<1>6. ASSUME NEW j \in Keys, Forget(j) PROVE Goal
  BY <1>1, <1>6 DEF Forget
<1> HIDE DEF Goal
<1>7. ASSUME NEW w \in Workers, Requests(w) \/ Handle(w) \/ Answer(w) PROVE Goal
  <2>1. ASSUME Requests(w) \/ Answer(w) PROVE Goal
    BY <1>3, <2>1 DEF Requests, Receive, Answer
  <2>2. ASSUME Handle(w) PROVE Goal
    BY <1>3, <1>4, <1>5, <2>2, StoreUntouched
  <2>3. QED
    BY <1>7, <2>1, <2>2
<1>8. ASSUME Surroundings \/ UNCHANGED vars PROVE Goal
  BY <1>3, <1>6, <1>8 DEF Surroundings, Deadline, Reconfigure, vars
<1>9. Goal
  BY <1>7, <1>8 DEF Next
<1>10. QED
  BY <1>9 DEF Goal

LEMMA StoreStaysKnown ==
  ASSUME HistoryInv, [Next]_vars, Note, Grown
  PROVE  StoreKnown'
<1>1. TypeOK /\ StoreKnown /\ \A w \in Workers : CallInv(w)
  BY DEF HistoryInv
<1> SUFFICES ASSUME NEW k \in Keys
             PROVE  /\ map'[k] # Absent => map'[k] \in pairs'[k]
                    /\ \A e \in pairs'[k] :
                         e.original \in Personal /\ e.original = e.masked => k \in faulted'
  BY DEF StoreKnown
<1>2. map'[k] # Absent => map'[k] \in pairs'[k]
  BY DEF Grown
<1>3. pairs'[k] = pairs[k] \cup ({map'[k]} \ {Absent})
  BY DEF Note
<1>4. ASSUME NEW e \in pairs[k], e.original \in Personal, e.original = e.masked
      PROVE  k \in faulted'
  BY <1>1, <1>4 DEF StoreKnown, Grown
<1>5. ASSUME map'[k] # Absent, map'[k].original \in Personal,
             map'[k].original = map'[k].masked
      PROVE  k \in faulted'
  <2>1. CASE map'[k] = map[k]
    BY <1>1, <1>5, <2>1 DEF StoreKnown, Grown
  <2>2. ASSUME NEW w \in Workers, k = KeyOf(w), pc[w] = "put",
               map'[k] = Pair(loc[w].text, loc[w].masked)
        PROVE  FALSE
    <3>1. loc[w].text \in Personal => loc[w].masked # loc[w].text
      BY <1>1, <2>2 DEF CallInv, OnTheWay
    <3>2. QED
      BY <1>5, <2>2, <3>1 DEF Pair
  <2>3. ASSUME NEW w \in Workers, k = KeyOf(w), pc[w] = "identityPut"
        PROVE  k \in faulted'
    <3>1. KeyOf(w) \in faulted
      BY <1>1, <2>3 DEF CallInv, OnTheWay, InFailure
    <3>2. QED
      BY <2>3, <3>1 DEF Grown
  <2>4. QED
    BY <1>1, <1>5, <2>1, <2>2, <2>3, StoredBy
<1>6. QED
  BY <1>2, <1>3, <1>4, <1>5

LEMMA HistoryStep == HistoryInv /\ [HNext]_hvars => HistoryInv'
<1> SUFFICES ASSUME HistoryInv, [HNext]_hvars PROVE HistoryInv'
  OBVIOUS
<1>1. TypeOK /\ HTypeOK /\ StoreKnown /\ \A w \in Workers : CallInv(w)
  BY DEF HistoryInv
<1>2. CASE HNext
  <2>1. Next /\ Note /\ [Next]_vars
    BY <1>2 DEF HNext
  <2>2. TypeOK'
    BY <1>1, <2>1, NextTypes
  <2>3. HTypeOK' /\ Grown
    BY <1>1, <2>1, <2>2, NoteTypes
  <2>4. StoreKnown'
    BY <2>1, <2>3, StoreStaysKnown
  <2>5. ASSUME NEW v \in Workers PROVE CallInv(v)'
    <3>1. ASSUME NEW w \in Workers, Requests(w) \/ Handle(w) \/ Answer(w) PROVE CallInv(v)'
      <4>1. CASE v = w
        BY <1>1, <2>3, <3>1, <4>1, HandleCall
      <4>2. CASE v # w
        <5>1. pc'[v] = pc[v] /\ loc'[v] = loc[v]
          BY <1>1, <3>1, <4>2, RequestAssumption, OthersStay DEF Requests
        <5>2. QED
          BY <1>1, <2>3, <5>1, BystanderKeeps
      <4>3. QED
        BY <4>1, <4>2
    <3>2. ASSUME Surroundings PROVE CallInv(v)'
      BY <1>1, <2>3, <3>2, AroundStays, BystanderKeeps
    <3>3. QED
      BY <2>1, <3>1, <3>2 DEF Next
  <2>6. QED
    BY <2>2, <2>3, <2>4, <2>5 DEF HistoryInv
<1>3. CASE UNCHANGED hvars
  <2>1. TypeOK' /\ HTypeOK' /\ StoreKnown'
    BY <1>1, <1>3 DEF hvars, vars, TypeOK, HTypeOK, StoreKnown
  <2>2. ASSUME NEW v \in Workers PROVE CallInv(v)'
    <3>1. OnTheWay(v)'
      BY <1>1, <1>3 DEF hvars, vars, CallInv, OnTheWay, KeyOf
    <3>2. Remembered(v)'
      BY <1>1, <1>3 DEF hvars, vars, CallInv, Remembered, Answering, FreshMask, KeyOf
    <3>3. /\ Answering(v)' => allowed'[v]
          /\ Betrayed(v)' => KeyOf(v)' \in faulted'
      BY <1>1, <1>3 DEF hvars, vars, CallInv, Answering, Betrayed, KeyOf
    <3>4. QED
      BY <3>1, <3>2, <3>3 DEF CallInv
  <2>3. QED
    BY <2>1, <2>2 DEF HistoryInv
<1>4. QED
  BY <1>2, <1>3

LEMMA HistoryInit == HInit => HistoryInv
<1> SUFFICES ASSUME HInit PROVE HistoryInv
  OBVIOUS
<1>1. Init /\ TypeOK
  BY InitTypes DEF HInit
<1>2. /\ pairs = [k \in Keys |-> {}] /\ faulted = {}
      /\ allowed = [w \in Workers |-> FALSE]
  BY DEF HInit
<1>3. /\ map = [k \in Keys |-> Absent] /\ pc = [w \in Workers |-> "idle"]
      /\ loc = [w \in Workers |-> NoLocals]
  BY <1>1 DEF Init
<1>4. HTypeOK
  BY <1>2 DEF HTypeOK
<1>5. StoreKnown
  BY <1>2, <1>3 DEF StoreKnown
<1>6. ASSUME NEW w \in Workers PROVE CallInv(w)
  <2>1. pc[w] = "idle" /\ ~loc[w].cached /\ ~loc[w].served
    BY <1>3 DEF NoLocals
  <2>2. QED
    BY <2>1 DEF CallInv, OnTheWay, Remembered, Answering, Betrayed, InEngine, InFailure
<1>7. QED
  BY <1>1, <1>4, <1>5, <1>6 DEF HistoryInv

LEMMA HistoryCorrect == HSpec => []HistoryInv
BY HistoryInit, HistoryStep, PTL DEF HSpec

\* However many requests run at once, whatever the operator publishes and the
\* store loses meanwhile: an answer out of the store joins a mask to the text it
\* was made from under that id, and a fresh mask is in the store before it is
\* sent, unless one of the two is too long for it (decide, maskInto, storeKey).
THEOREM RememberedAnswers == HSpec => []AnswersAreRemembered
<1>1. HistoryInv => AnswersAreRemembered
  BY DEF HistoryInv, CallInv, AnswersAreRemembered
<1>2. QED
  BY <1>1, HistoryCorrect, PTL

\* No call answers with a text if its system was out of service from its first
\* step to its last, for all the times it looks at the configuration (authorize,
\* Engine.Process, RememberIdentity).
THEOREM DisabledStaysOut == HSpec => []DisabledNeverServed
<1>1. HistoryInv => DisabledNeverServed
  BY DEF HistoryInv, CallInv, DisabledNeverServed
<1>2. QED
  BY <1>1, HistoryCorrect, PTL

\* Personal data is answered unmasked only under an id for which a call has
\* failed: no race, retry, lost entry or change of configuration does it alone
\* (looksMasked, decide, writeProcessFailure).
THEOREM LeakNeedsFault == HSpec => []LeakOnlyAfterFault
<1>1. HistoryInv => LeakOnlyAfterFault
  BY DEF HistoryInv, CallInv, LeakOnlyAfterFault
<1>2. QED
  BY <1>1, HistoryCorrect, PTL
=============================================================================
