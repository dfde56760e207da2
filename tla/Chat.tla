-------------------------------- MODULE Chat --------------------------------
(***************************************************************************)
(* POST /v1/chat/completions: handleChat of internal/httpapi/chat.go, the   *)
(* limiter before it, MaskMessages and LeakGuard of internal/engine/llm.go  *)
(* and the client of internal/llm/llm.go.  A step reads or writes the       *)
(* shared state -- the live configuration, the snapshot of custom types the *)
(* detectors use, the token bucket -- at most once.                         *)
(*                                                                         *)
(* A message is a sequence of words; the detectors, external here, know a   *)
(* value of each type when they see one.  The upstream model is external    *)
(* too: it quotes messages it was sent, or fails.                           *)
(***************************************************************************)
EXTENDS Spans, LLMLimiter

CONSTANTS
  Workers,      \* goroutines
  Scenarios,    \* [traffic, configs, clients, calls, changes, time]: requests that
                \* may arrive, [key, header, secret, messages], what the operator
                \* may apply, and the bounds
  TypeOf,       \* word -> its type, NoRule for a plain word
  Customs,      \* the types of user-defined detectors
  NoKey,        \* no Bearer key, no API key
  Unreadable,   \* messages of a body that does not decode
  Nobody        \* no system

Types == DOMAIN Priority
Words == DOMAIN TypeOf

\* Messages are made of words, masks too.  The lines of a stream that are no chunks
\* are told from words.
Written(strategy, text) ==
  \A t \in Types, i, j \in 0 .. Len(text) :
    i < j => MaskOf(strategy, t, Slice(text, i, j)) \in Seq(Words)
ASSUME WordsAssumption ==
  /\ TypeOf \in [Words -> Types \cup {NoRule}] /\ NoRule \notin Types
  /\ Words \cap {"DONE", "broken", "comment", "blank"} = {}
  /\ \A s \in Scenarios : \A r \in s.traffic : r.messages # Unreadable =>
       /\ r.messages \in Seq(Seq(Words))
       /\ \A c \in s.configs, m \in ToSet(r.messages) : Written(c.strategy, m)

ASSUME ScenariosAssumption ==
  \A s \in Scenarios :
    /\ s.calls \in Nat /\ s.changes \in Nat /\ s.time \in Nat
    /\ \A c \in s.configs : c.perMinute \in Nat
    /\ \E c \in s.configs : \A d \in s.configs : c.perMinute >= d.perMinute

VARIABLES
  scenario,    \* the requests and bounds of this behaviour
  live,        \* the configuration
  published,   \* the custom types of detect.SetCustomTypes
  bucket, now, \* the limiter and the time in seconds
  client,      \* how the upstream answers: "demo", "json" or "stream"
  pc, loc,     \* worker -> next step, local variables
  budget,      \* what is left of the bounds
  taken        \* history: when the tokens were taken

vars == <<scenario, live, published, bucket, now, client, pc, loc, budget, taken>>

NoLocals ==
  [req |-> Nobody, require |-> FALSE, id |-> Nobody, sys |-> Nobody, conf |-> Nobody,
   limit |-> 0, next |-> 1, masked |-> <<>>, reps |-> <<>>,
   seen |-> Nobody, known |-> <<>>,    \* history: see InForce
   quote |-> <<>>, whole |-> TRUE, answer |-> <<>>, status |-> 0]

Init ==
  /\ scenario \in Scenarios
  /\ live \in scenario.configs
  /\ published = live.custom
  /\ bucket = NewLimiter(live.perMinute, 0) /\ now = 0
  /\ client \in scenario.clients
  /\ pc = [w \in Workers |-> "idle"]
  /\ loc = [w \in Workers |-> NoLocals]
  /\ budget = [calls |-> scenario.calls, changes |-> scenario.changes]
  /\ taken = <<>>

Goto(w, from, to) == pc[w] = from /\ pc' = [pc EXCEPT ![w] = to]
Set(w, changes) == loc' = [loc EXCEPT ![w] = changes]
Answer(w, from, status) ==
  Goto(w, from, "answered") /\ Set(w, [loc[w] EXCEPT !.status = status])
outside == <<scenario, live, published, bucket, now, client, budget, taken>>

-----------------------------------------------------------------------------
(* authorizeChat and Resolve *)

Arrive(w, r) ==
  /\ Goto(w, "idle", "bearer")
  /\ budget.calls > 0 /\ budget' = [budget EXCEPT !.calls = @ - 1]
  /\ Set(w, [NoLocals EXCEPT !.req = r])
  /\ UNCHANGED <<scenario, live, published, bucket, now, client, taken>>

\* matchBearerKey walks a map: of two systems with one key it takes any.
Matching(c, key) ==
  {s \in DOMAIN c.systems : key # NoKey /\ c.systems[s].enabled /\ c.systems[s].secret = key}

Bearer(w) ==
  /\ Goto(w, "bearer", "resolve")
  /\ \E s \in Matching(live, loc[w].req.key) : Set(w, [loc[w] EXCEPT !.id = s])
  /\ UNCHANGED outside

BearerRefused(w) ==
  /\ Answer(w, "bearer", 401)
  /\ loc[w].req.key # NoKey /\ Matching(live, loc[w].req.key) = {} /\ live.require
  /\ UNCHANGED outside

NoBearer(w) ==
  /\ Goto(w, "bearer", "headers")
  /\ Matching(live, loc[w].req.key) = {} /\ (loc[w].req.key = NoKey \/ ~live.require)
  /\ Set(w, [loc[w] EXCEPT !.require = live.require])
  /\ UNCHANGED outside

HeaderStatus(w) ==
  LET r == loc[w].req
  IN  IF ~loc[w].require THEN 0
      ELSE IF r.header \notin DOMAIN live.systems THEN 403
      ELSE IF ~live.systems[r.header].enabled THEN 403
      ELSE IF live.systems[r.header].secret \notin {NoKey, r.secret} THEN 401 ELSE 0

HeadersRefused(w) ==
  /\ Answer(w, "headers", HeaderStatus(w))
  /\ HeaderStatus(w) # 0
  /\ UNCHANGED outside

HeadersPass(w) ==
  /\ Goto(w, "headers", "resolve")
  /\ HeaderStatus(w) = 0
  /\ Set(w, [loc[w] EXCEPT !.id = loc[w].req.header])
  /\ UNCHANGED outside

Resolved(c, id) ==
  LET s == IF id \in DOMAIN c.systems THEN c.systems[id]
           ELSE IF c.require THEN Nobody ELSE c.systems[c.default]
  IN  IF s # Nobody /\ s.enabled THEN s ELSE Nobody

Resolve_(w) ==
  /\ Goto(w, "resolve", "decode")
  /\ Resolved(live, loc[w].id) # Nobody
  /\ Set(w, [loc[w] EXCEPT !.sys = Resolved(live, loc[w].id)])
  /\ UNCHANGED outside

ResolveRefused(w) ==
  /\ Answer(w, "resolve", 403)
  /\ Resolved(live, loc[w].id) = Nobody
  /\ UNCHANGED outside

-----------------------------------------------------------------------------
(* the body, the limiter *)

BadBody(w) ==
  /\ Answer(w, "decode", 400)
  /\ loc[w].req.messages \in {Unreadable, <<>>}
  /\ UNCHANGED outside

ReadLimit(w) ==
  /\ Goto(w, "decode", "adjust")
  /\ loc[w].req.messages \notin {Unreadable, <<>>}
  /\ Set(w, [loc[w] EXCEPT !.limit = live.perMinute])
  /\ UNCHANGED outside

AdjustLimit(w) ==
  /\ Goto(w, "adjust", "allow")
  /\ bucket' = SetCapacity(bucket, loc[w].limit, now)
  /\ UNCHANGED <<scenario, live, published, now, client, loc, budget, taken>>

AllowUnlimited(w) ==
  /\ Goto(w, "allow", "sync")
  /\ Unlimited(bucket)
  /\ UNCHANGED <<outside, loc>>

AllowToken(w) ==
  /\ Goto(w, "allow", "sync")
  /\ ~Unlimited(bucket) /\ HasToken(bucket, now)
  /\ bucket' = TakeToken(bucket, now)
  /\ taken' = Append(taken, now)
  /\ UNCHANGED <<scenario, live, published, now, client, loc, budget>>

RateLimited(w) ==
  /\ Goto(w, "allow", "answered")
  /\ ~Unlimited(bucket) /\ ~HasToken(bucket, now)
  /\ bucket' = Refill(bucket, now)
  /\ Set(w, [loc[w] EXCEPT !.status = 429])
  /\ UNCHANGED <<scenario, live, published, now, client, budget, taken>>

-----------------------------------------------------------------------------
(* MaskMessages and LeakGuard *)

\* syncCustom; the publication itself is CustomSync's.
Sync(w) ==
  /\ Goto(w, "sync", "maskConfig")
  /\ published' = live.custom
  /\ UNCHANGED <<scenario, live, bucket, now, client, loc, budget, taken>>

MaskConfig(w) ==
  /\ Goto(w, "maskConfig", "mask")
  /\ Set(w, [loc[w] EXCEPT !.conf = live, !.next = 1])
  /\ UNCHANGED outside

\* What the detectors report of a text now: the custom ones by their snapshot,
\* all of them by the live configuration's idea of what is enabled.
Detectable(rules, type) ==
  Enabled(rules, live.custom, type) /\ (type \in Customs => published[type] # NoRule)
WordSpan(text, i) == [start |-> i - 1, end |-> i, type |-> TypeOf[text[i]], conf |-> 5]
Detect(rules, text) ==
  LET words == [i \in DOMAIN text |-> WordSpan(text, i)]
  IN  Among(words, {s \in ToSet(words) : s.type # NoRule /\ Detectable(rules, s.type)})

Messages(w) == loc[w].req.messages
MaskNext(w) ==
  LET text == Messages(w)[loc[w].next]
      sys == loc[w].sys
      kept == Filter(sys.rules, loc[w].conf.custom, Detect(sys.rules, text))
      out == Apply(text, kept, [t \in Types |-> loc[w].conf.strategy])
  IN  /\ Goto(w, "mask", IF loc[w].next < Len(Messages(w)) THEN "mask" ELSE "guardConfig")
      /\ Set(w, [loc[w] EXCEPT !.masked = Append(@, out.masked),
                               !.reps = Append(@, out.reps), !.next = @ + 1])
      /\ UNCHANGED outside

MaskingFails(w) ==    \* the context is done; a panic in a detector is a 500
  /\ \E status \in {503, 500} : Answer(w, "mask", status)
  /\ UNCHANGED outside

GuardReads(w, c) ==
  /\ Goto(w, "guardConfig", "guard")
  /\ Set(w, [loc[w] EXCEPT !.conf = c, !.next = 1, !.seen = live])
  /\ UNCHANGED outside
Slip_ConfigKept(w) == GuardReads(w, loc[w].conf)
GuardConfig(w) == GuardReads(w, live)

CoveredByMasks(s, reps) ==
  \E i \in DOMAIN reps : s.start < reps[i].maskEnd /\ reps[i].maskStart < s.end

Slip_GuardTrusts(w) == FALSE
Leaks(w) ==
  LET text == loc[w].masked[loc[w].next]
      sys == loc[w].sys
      found == Filter(sys.rules, loc[w].conf.custom, Detect(sys.rules, text))
  IN  \E k \in DOMAIN found : ~CoveredByMasks(found[k], loc[w].reps[loc[w].next])

\* A detection error counts as a leak.
GuardRefuses(w) ==
  /\ Answer(w, "guard", 422)
  /\ UNCHANGED outside

\* The types a guard has to know at this moment, for the property below: those
\* of the configuration that was live when the guard began, which the detectors
\* still report and which need no companion to be believed.
InForce(w) ==
  LET rules == loc[w].sys.rules
      alone(t) == [type |-> t, conf |-> 5]
  IN  {t \in Types : /\ Detectable(rules, t)
                     /\ KeepSpan(rules, loc[w].seen.custom, alone(t))
                     /\ Vouched(rules, alone(t), <<>>)}
GuardNext(w) ==
  /\ Goto(w, "guard", IF loc[w].next < Len(Messages(w)) THEN "guard" ELSE "complete")
  /\ ~Leaks(w)
  /\ Set(w, [loc[w] EXCEPT !.next = @ + 1, !.known = Append(@, InForce(w))])
  /\ UNCHANGED outside

-----------------------------------------------------------------------------
(* Complete, RestoreText, the answer *)

Join(texts) == FoldLeft(LAMBDA s, t : s \o t, <<>>, texts)
Quoted(w, order) == Join([k \in DOMAIN order |-> loc[w].masked[order[k]]])

\* readJSON: an answer without choices is an error.
ReadJSON(choices) == IF choices = <<>> THEN Nobody ELSE choices[1]

\* readStream: the chunks up to [DONE]; empty and foreign lines are skipped, a
\* broken chunk is an error, a stream that just ends is an answer.
ReadStream(lines) ==
  LET read(acc, line) ==
        IF acc.done \/ line \in {<<"comment">>, <<"blank">>} THEN acc
        ELSE IF line = <<"DONE">> THEN [acc EXCEPT !.done = TRUE]
        ELSE IF line = <<"broken">> THEN [acc EXCEPT !.done = TRUE, !.text = Nobody]
        ELSE [acc EXCEPT !.text = @ \o line]
  IN  FoldLeft(read, [done |-> FALSE, text |-> <<>>], lines).text

\* demoAnswer quotes the last message of the user, here the last one.
Orders(w) ==
  LET n == Len(loc[w].masked)
  IN  IF client = "demo" THEN {<<n>>} ELSE {<<n>>, <<1, n>>, <<n, 1>>}

Chunks(text) == [i \in DOMAIN text |-> <<text[i]>>]
Responses(text) ==
  CASE client = "demo" -> {[text |-> text, whole |-> TRUE]}
    [] client = "json" -> {[text |-> ReadJSON(c), whole |-> TRUE] : c \in {<<text>>, <<>>}}
    [] client = "stream" ->
         {[text |-> ReadStream(lines), whole |-> TRUE] :
            lines \in {<<<<"blank">>>> \o Chunks(text) \o <<<<"DONE">>, <<"broken">>>>,
                       Chunks(text) \o <<<<"broken">>>>}}
         \cup {[text |-> ReadStream(SubSeq(Chunks(text), 1, n)), whole |-> n = Len(text)] :
                 n \in DOMAIN text}

Complete(w) ==
  /\ Goto(w, "complete", "restore")
  /\ \E order \in Orders(w) : \E r \in Responses(Quoted(w, order)) :
       /\ r.text # Nobody
       /\ Set(w, [loc[w] EXCEPT !.answer = r.text, !.quote = order, !.whole = r.whole])
  /\ UNCHANGED outside

CompleteFails(w) ==
  /\ Answer(w, "complete", 502) /\ client # "demo"
  /\ UNCHANGED outside

RestoreAnswer(w) ==
  /\ Goto(w, "restore", "answered")
  /\ \E text \in IF loc[w].sys.demask THEN RestoreText(loc[w].answer, Join(loc[w].reps))
                  ELSE {loc[w].answer} :
       Set(w, [loc[w] EXCEPT !.answer = text, !.status = 200])
  /\ UNCHANGED outside

Return(w) ==
  /\ Goto(w, "answered", "idle")
  /\ Set(w, NoLocals)
  /\ UNCHANGED outside

-----------------------------------------------------------------------------
Chat(w) ==
  \/ \E r \in scenario.traffic : Arrive(w, r)
  \/ Bearer(w) \/ BearerRefused(w) \/ NoBearer(w) \/ HeadersRefused(w) \/ HeadersPass(w)
  \/ Resolve_(w) \/ ResolveRefused(w) \/ BadBody(w) \/ ReadLimit(w) \/ AdjustLimit(w)
  \/ AllowUnlimited(w) \/ AllowToken(w) \/ RateLimited(w)
  \/ Sync(w) \/ MaskConfig(w) \/ MaskNext(w) \/ MaskingFails(w)
  \/ GuardConfig(w) \/ GuardRefuses(w) \/ GuardNext(w)
  \/ Complete(w) \/ CompleteFails(w) \/ RestoreAnswer(w) \/ Return(w)

Reconfigure ==
  /\ budget.changes > 0 /\ budget' = [budget EXCEPT !.changes = @ - 1]
  /\ live' \in scenario.configs \ {live}
  /\ UNCHANGED <<scenario, published, bucket, now, client, pc, loc, taken>>

\* Another request, /process say, publishes the live custom types.
Publish ==
  /\ published # live.custom /\ published' = live.custom
  /\ UNCHANGED <<scenario, live, bucket, now, client, pc, loc, budget, taken>>

Tick ==
  /\ now < scenario.time /\ now' = now + 1
  /\ UNCHANGED <<scenario, live, published, bucket, client, pc, loc, budget, taken>>

Next == Reconfigure \/ Publish \/ Tick \/ \E w \in Workers : Chat(w)
Spec == Init /\ [][Next]_vars

-----------------------------------------------------------------------------
\* No value reaches the model in the clear that the guard had to know: not one
\* whose type came into force after the messages were masked either, so that a
\* guard working by the configuration they were masked under fails.  A value
\* that is believed only beside a companion is no such value: once the companion
\* is masked, LeakGuard's filter lets it go.
ModelSeesNoKnownValue ==
  \A w \in Workers : pc[w] = "complete" =>
    \A m \in DOMAIN loc[w].masked : \A i \in DOMAIN loc[w].masked[m] :
      \/ TypeOf[loc[w].masked[m][i]] \notin loc[w].known[m]
      \/ CoveredByMasks([start |-> i - 1, end |-> i], loc[w].reps[m])

\* The words of a scenario's messages and the masks they are given.
Told(s) ==
  UNION {ToSet(m) : m \in UNION {ToSet(r.messages) : r \in {q \in s.traffic : q.messages # Unreadable}}}
Marks(s) ==
  {MaskOf(c.strategy, TypeOf[x], <<x>>) :
     c \in s.configs, x \in {y \in Told(s) : TypeOf[y] # NoRule}}

\* Masks that RestoreText can find again, labels and tokens for example: no word of
\* one occurs in a message, and none begins in the middle of another.
MasksStandOut ==
  \A s \in Scenarios :
    /\ \A m \in Marks(s) : \A i \in DOMAIN m : m[i] \notin Told(s)
    /\ \A m, n \in Marks(s) : m # <<>> => \A i \in 2 .. Len(n) : n[i] # m[1]

\* A message the model quotes whole comes back as it was sent, word by word, but
\* for masks that stand for two values, which stay.  RestoreText, which searches
\* the masks in any text, takes no mask for another person's value -- unless one
\* that stands for two values begins with one that does not: it is then put back
\* in the middle of a mask that should have been left alone.
QuotesRestored ==
  \A w \in Workers : pc[w] = "answered" /\ loc[w].status = 200 /\ loc[w].sys.demask /\ loc[w].whole =>
    LET reps == Join(loc[w].reps)
        clear == Unambiguous(reps)
        unclear == {reps[i].masked : i \in DOMAIN reps} \ clear
        left(m, i) == {r \in ToSet(loc[w].reps[m]) : r.start = i - 1 /\ r.masked \in unclear}
        back(m) == [i \in DOMAIN Messages(w)[m] |->
                      IF left(m, i) = {} THEN <<Messages(w)[m][i]>>
                      ELSE (CHOOSE r \in left(m, i) : TRUE).masked]
    IN  (\A a \in clear, b \in unclear : ~IsPrefix(a, b)) =>
          loc[w].answer = Join([k \in DOMAIN loc[w].quote |-> Join(back(loc[w].quote[k]))])

\* The highest limit that is ever set, the tokens taken in the minute from t.
Highest == Max({c.perMinute : c \in scenario.configs})
TakenIn(t) == {i \in DOMAIN taken : taken[i] \in t .. t + Minute - 1}

\* "A thread-safe token bucket that caps the number of LLM calls the whole process
\* may make per minute" (llmLimiter): no minute sees more calls than the highest
\* limit.  The code does not keep this: a bucket that starts full and refills while
\* it is emptied lets more through.
RateCapped == \A t \in 0 .. now : Cardinality(TakenIn(t)) <= Highest

\* What the bucket keeps instead: however requests and changes of the limit
\* interleave, a minute sees no more than a full bucket and what flows in while it
\* is emptied, twice the highest limit (calls made while there is no limit apart).
RateBounded == \A t \in 0 .. now : Cardinality(TakenIn(t)) <= 2 * Highest

\* Retry-After is honest: whenever the bucket refuses, it has a token for one
\* caller after that many seconds, if the limit stays and nobody else comes.
RetryAfterHonest ==
  ~Unlimited(bucket) /\ ~HasToken(bucket, now) => HasToken(bucket, now + RetryAfter(bucket))
=============================================================================
