# pdguard: verification project

pdguard is a masking proxy. `POST /process` receives a text, replaces the
personal data in it and remembers the pair (original, masked) under the caller's
`payload_id`; when the masked text comes back under the same id, it answers with
the original. This directory holds TLA+ modules that model the parts of the
program in which order, concurrency or failure decide what happens, the TLC
configurations that check them on small instances, and proofs for TLAPS.

Paths below are relative to `src/internal/` unless they say otherwise.

## The system

| Part | State | Operations | Hard part |
|---|---|---|---|
| mapping store, `store/store.go` | sharded map, per-shard lock, eight atomic counters, sweeper position | Put, Get, Delete, Close, sweep | counters and caps are kept without a common lock; expiry decided on a copy; rotation, rounding |
| `/process`, `httpapi/process.go` and `engine/engine.go` | none of its own; reads configuration and store | admission, direction, mask, remember, fail-open | store and configuration change between the steps; retries, timeouts, panics |
| custom types, `engine.applyCustom` | three package snapshots and `applied` | publish on the first request that sees a new configuration | several publishers, four stores, no lock |
| configuration, `config/config.go`, `httpapi/admin.go` | current snapshot, file | Get, Resolve, Apply, persist, PUT | publish before persist, secrets restored from a snapshot read earlier |
| HTTP pipeline, `httpapi/middleware.go` | semaphore, in-flight gauge | recover, metrics, limit, timeout, body limit | what is released and counted on a panic |
| chat, `httpapi/chat.go`, `engine/llm.go`, `llm/llm.go` | none | mask all, leak guard, call, restore | several configuration reads, ambiguous masks, long deadlines |
| LLM limiter, `httpapi/llm_limit.go` | tokens, capacity, last refill | setCapacity, allow | burst plus refill, capacity changes |
| span pipeline, `engine.go`, `pd/detect/detect.go`, `pd/mask/mask.go` | none | chunk, detect, resolve, filter, widen, apply, restore | boundaries: cut points, overlaps, empty spans |
| strategies, `pd/mask/strategies.go` | registry | one function per shape | what survives in the mask |
| detectors, `pd/detect/*.go`, dictionaries, text helpers | read-only tables | recognise | check digits, windows |
| metrics, `metrics/*.go` | counters, rate ring | observe, rate | slot claimed before it is zeroed |
| logging, `logging/logging.go` | level, sampling counter | scrub, sample | none that a model reaches |
| lifecycle, `src/cmd/server/main.go` | readiness | start, drain | drain shorter than a chat request |

How they meet: every HTTP request runs on a goroutine of its own through the
pipeline into a handler. `/process` calls `Engine.Process`, which reads the live
configuration (`Manager.Get`, an atomic pointer that `Apply` replaces), the store
(`Get`, `Put`), and the package snapshots of custom types; on failure the handler
calls back into `Engine.RememberIdentity`. The store's sweeper is the only
background goroutine besides the server's own. Nothing is persisted but the
configuration: a restart empties the store, which a caller sees as the loss of
every entry.

What makes each part correct, and what is hard to test about it, is listed with
its source line under `hazards` in `PROJECT.json`, with the properties that watch
it or the reason why none does.

## Modules

| Module | Content |
|---|---|
| `Mapping` | what the `Store` interface promises: Get answers with the last Put or nothing, never past the deadline |
| `MemStore` | the sharded table, step by step |
| `MemStoreProperties` | its invariants, action and liveness properties, and the refinement to `Mapping` |
| `MemStoreBytes` | the byte counter against a sum over the table |
| `MemStoreHistory` | a history variable for what a sweep cycle restores |
| `MemStoreProofs` | theorems about the store: types, locks and the caps; losses, the refinement, the two counters, the sweeper |
| `Process` | `handleProcess`, `Engine.Process`, `maskInto`, `RememberIdentity`, with deadlines, panics, lost entries and configuration changes |
| `ProcessHistory` | history variables, the properties of `/process`, and the invariant they follow from |
| `ProcessProofs` | theorems about `/process` |
| `Harness` | the client of the two-step contract, driving `Process` |
| `HarnessProofs` | theorems about that contract |
| `Spans` | the span pipeline as operators: the two contests of `Resolve`, cut points, filter, label expansion, `Apply`, `Restore`, `RestoreText` |
| `Masking` | one masking run over `Spans`, whole or in chunks, with a changing configuration and a deadline |
| `LLMLimiter` | the token bucket |
| `Chat` | `/v1/chat/completions`: admission, limiter, masking, leak guard, model, restoring; uses `Spans` and `LLMLimiter` |
| `Service` | the middleware around every handler and the life of the process around them |
| `Metrics` | the lock-free ring behind the request rate |
| `CustomSync` | `syncCustom` and `applyCustom` |
| `ConfigRules` | the configuration: defaults, wire form, normalising, validating, redacting, restoring |
| `Admin` | operators who get, edit and put the configuration, the file, crash and restart; extends `CustomSync` and `ConfigRules` |
| `ServiceProofs`, `AdminProofs` | theorems about the pipeline, the drain and the ring; the configuration and its publication |
| `SpansProofs` | general facts about folds, sorting, selections and slices |
| `MaskingProofs`, `ChatProofs` | theorems about the span pipeline; about the limiter and the leak guard |
| `Payload` | the text as cells, boundaries, cues and windows, shared by the detectors |
| `Finance`, `Contact`, `Docs`, `Dates` | the detectors for cards, accounts, INNs, CVVs and PINs; e-mails and phones; documents; dates |
| `Strategies` | stars, keep_domain, and the synthetic fakes |
| `Recognise` | `RunCtx` over the four detectors with a deadline, then `Spans` and `Strategies` |
| `MC...` | constants for TLC: `MCMemStore` (`MemStoreBytes` and `MemStoreHistory`), `MCMemStoreLive`, `MCProcess` (`ProcessHistory` and `Harness`, one of which drives a behaviour), `MCMasking`, `MCChat`, `MCService` (`Service` beside `Metrics`), `MCAdmin` (`Admin` beside the requests of `CustomSync`), `MCRecognise` |

Definitions named `Slip_...` are mistakes the code could have made at that place
(a dropped guard, an off-by-one, a forgotten store). No specification uses them;
each shows that some property would notice it, as `mutants` in `PROJECT.json` says.

### MemStore and the code

A step makes at most one access to state shared without a lock: an atomic
counter, or the clock. What happens to a shard's map between `Lock` and `Unlock`
is invisible to others and joins the neighbouring step.

| Code | Model |
|---|---|
| `memStore.shards[i].m` | `m`, all shards together; `ShardOf` says which shard an id is in |
| `shard.mu` | `lock[s]`: the goroutine holding the write lock; a reader's critical section is one step and needs the lock free |
| `entries`, `bytes`, `puts` ... | `entries`, `bytes`, `stats` |
| locals of `Put`, `Get`, `dropExpired`, `Delete` | `loc[w]` (id, record, `now`, evictions so far, size just cut) |
| locals of `sweepLoop`, `sweepShard`, `shardEvictQuota` | `sw` |
| `stop`, `done`, `closeOnce` | `closing` |
| `Put` | `PutRefused`, or `PutStart`, `PutLock*`, the `overCap`/`evictSampled` loop (`PutCap*`, `PutEvict*`, `PutDrop*`), `PutAdd`, `PutGrow`, `PutStore` |
| `Get` | `GetStart`, `GetAbsent` or `GetFound`, `GetHit` or `GetStale`, then `GetDrop` or `GetKeep` (the second look under the write lock) |
| `sweepLoop` tick | `SweepTick`, `SweepCap*`, then per shard `SweepNow` ... `SweepNext` |

Go's random map iteration is a choice: any dead record may be met first, and any
`EvictSample` of a shard's live records may be the sample. A sample is drawn only
from records that are alive, which is exactly the case in which the code gets to
the end of it.

### Process and the code

One action per point at which the call touches shared state: the handler's read
of the configuration (`Receive`), `authorize` with its second read (`Refuse`,
`Reject`, `AnswerEmpty`, `Admit`), `Manager.Resolve` (`ResolveSystem`,
`Unavailable`), the store lookup with `decide` (`Lookup`), the context check
(`CheckLate`), the five directions, detection (`Detected`, `DetectLate`,
`DetectPanics`), the third configuration read with the rewriting
(`NothingMasked`, `Masked`), `Put`, `Done`, and `writeProcessFailure` with
`RememberIdentity` (`FailClosed`, `Identity*`). `metricsMW` is the `samples` and
`served` fields. The store is the abstract map of `Mapping` with deadlines left
out: an entry may go at any time (`Forget`), which is what expiry, eviction and a
restart look like from here.

A text is a model value. What detection, filtering, widening and masking make of
a text under a system's rules and the rest of the configuration is the constant
function `Rewrite`; the instances contain two persons with the same mask, a text
whose mask is itself (strategy `none` replaces a span by itself), one without
personal data, a text too long for the store, a mask of a mask. `looksMasked`
and `looksLabelMasked` are the sets `StarMasked` and `LabelMasked`.

### Harness

The client is not in the repository. It is modelled from what the comments of
`decide`, `demaskMiss`, `RememberIdentity` and `storeKey` say it does: it sends an
element forward, may repeat a request whose answer it does not wait for
(`Overlap`), accepts the last answer it collected, sends that back, expects the
element, and may use the id again for another element. Its rows in the map are
marked external. `MCProcess` puts it beside the arbitrary callers of
`ProcessHistory`: `subject` says which of the two a behaviour is about. The
harness's configuration is one for which the contract is meant
(`MasksCanBeTakenBack`) and does not change, and its id has one spelling; the other
spellings of an id are the callers'. In its behaviours the history variables of
`ProcessHistory` stand at values that ask nothing of its calls.

### Spans, Masking and the code

A text is a sequence of bytes of nine kinds: letters and digits of one byte, a
two-byte letter (`L C`) and a two-byte sign (`N A`) whose second bytes are
continuations, blank, line break, colon. Offsets are byte offsets, as in the
code, so cut points and widened spans may fall on half a rune if the code lets
them. `Resolve` is the stable sort by `ResolveLess` and then `Pairwise` or
`Occupancy`; `SplitPoints` and `ChunkStart` are `splitPoints` and `chunkStart`;
`Filter` is `filter` with companions and confidence floors; `Expand...` widens a
span over the label word in front of it; `Apply` is `mask.Apply` with its check of
order. `Masking` strings them together as `maskInto` does, one step per read of
the configuration, per chunk, and per check of the deadline. What the detectors
report is an arbitrary set of spans; a context that sees a part of a span may
report the part. `MarksNotEmpty` and `EntitiesShort` are hypotheses of two
properties about what is reported; `MCMasking` assumes them of its texts.

### Chat and the code

One action per early return of `handleChat` (`BearerRefused`, `HeadersRefused`,
`ResolveRefused`, `BadBody`, `RateLimited`, `MaskingFails`, `GuardRefuses`,
`CompleteFails`) and per access to shared state between them: each read of the
configuration, the two critical sections of the limiter (`ReadLimit` reads the limit
that `AdjustLimit` sets), the published custom types. Messages are masked and
guarded one at a time. A message is a sequence of words. What the guard has to know
(`InForce`) are the types that need no companion to be believed and were in force
in the configuration that was live when the guard began. `seen` keeps that one for
the property; the guard does not read it, so a guard that went by an older
configuration (`Slip_ConfigKept`) fails. The model's answer quotes masked messages in some order,
whole, as JSON with or without a choice, or as a stream that may break, end early
or go on behind `[DONE]`. `RestoreText` is the code's: masks that stand for two
values are left out, longer ones are put back first, ties in map order, and each
is searched in the text as the ones before have left it. `QuotesRestored` says
what should come of that word by word, from the message and the replacements, with
no search in it.

### Service, Metrics and the code

`Arrive`, `Shed`, `Admit`, `Handle`, `Release`, `Observe` and `Leave` are the
layers `build` wraps around a handler, from `metricsMW` inwards to the handler and
out again, with `recoverMW` outermost, as `Ends` says; a probe takes no slot.
`Serve`, `SetReady`, `Signal`, `Shutdown`, `Drained`, `DrainExpired`,
`CloseStore` and `Exit` are `run` of `src/cmd/server/main.go`. `Metrics` has one
action per atomic access of `ringWindow.add`; it meets the rest in nothing but the
call of `Observe`, so `MCService` runs the two side by side and not through each
other.

### Admin, ConfigRules, CustomSync and the code

An operator holds a redacted copy of some earlier configuration (`Get`), edits it
and sends it (`Send`); `RestoreSecrets` is the body of the handler before `Apply`,
with `Validate` on what comes out; `ApplyConfig` is `Apply` up to the publication,
under `writeMu`; `Persist` is the temporary file and its rename, which fails or
replaces the whole file. `Restart` loses everything but the file. Validation is
all of `Validate`, on configurations reduced to the fields some rule looks at.

### Detectors and the code

A payload is a sequence of cells: a digit, a Latin letter, a mark, or a Cyrillic
word. A word carries its width in bytes and the lists it stands in, so windows
are measured in bytes as in the code and cues are found by role. Each scan of
`finance.go`, `contact.go`, `docs.go` and `date.go` is an operator of the same
name or nearly so; loops that go on behind what they found are folds (`Sweep`,
`Scan`). The regular expressions of `docs.go` are sequences of parts that take as
many cells as they may and give none back (`MatchEnd`); Go's expressions would, but
no part here can begin with what the one before it repeats. `Recognise` runs the detectors in the order in
which they register, with a deadline that may pass between two of them, and
then `Resolve`, `filter` and `Apply` of `Spans` with the strategies.

## What the runs show

| Run | Shows |
|---|---|
| `store` | `TypeOK`, `BytesAccounted`, `EntriesAccounted`, `OvershootPerShard`, `SweepCycleRestoresEntries` with calls of every kind and the sweeper running; nothing is lost without a reason, and eviction takes the record that is due (`LossExplained`); the table implements `Mapping` (`KeepsPromise`) |
| `store_live` | `DeadReclaimed`, `CallsReturn` under fairness |
| `process` | in behaviours of arbitrary callers: `TypeOK`, `DisabledNeverServed`, `AnswersAreRemembered`, `LeakOnlyAfterFault` with two overlapping requests of every kind under three configurations that change in mid-call; in behaviours of the harness: the two-step contract `RoundTrip`, `NeverMaskOfMask`, `RetriesAgree` |
| `masking` | the contest leaves disjoint spans and drops none but to a better one (`ContestDecided`), both algorithms decide it alike (`AlgorithmsAgree`), no entity is halved at a cut (`EntitiesWhole`), every value that should be masked is (`EverySpanMasked`), and the masks can be taken back (`RestoreUndoesApply`) |
| `chat` | what the guard has to know does not reach the model (`ModelSeesNoKnownValue`), quoted messages come back as they were but for ambiguous masks (`QuotesRestored`), at most two buckets pass in a minute (`RateBounded`), and who waits as told finds a token (`RetryAfterHonest`) |
| `service` | slots and gauge return to zero (`NothingLeaks`), what is answered in time is counted once (`AnswersCountedOnce`), the drain spares `/process` (`DrainSparesProcess`) and ends (`SignalEnds`), admitted requests are answered (`AdmittedAnswered`), the rate tells each second of its window exactly (`RateExact`) |
| `custom_publish` | publications that do not overlap are whole (`WholePublicationAgrees`), the last one is noticed in the end (`RequestsCatchUp`), keys survive edits of redacted copies (`SecretsSurvive`), a restart finds what was persisted and a valid configuration (`RestartFindsPersisted`) |
| `recognise` | neighbours in a list do not disturb each other (`SameInAList`), no card hides in a chain (`CardTouched`), the windows of `docs.go` lose nothing (`WindowsReach`), dates behind a birth cue are found exactly when the calendar has them (`CalendarDecides`), fakes are taken for what they stand for (`FakesRecognised`) |

Four runs end in a counterexample to something a comment says; `findings` in
`PROJECT.json` quotes each line:

| Run | What does not hold |
|---|---|
| `process_identity` | an identity never overwrites a mapping: look and store are two steps |
| `chat_rate` | the limiter "caps the number of LLM calls the whole process may make per minute" (`RateCapped`): a full bucket that refills while it is emptied lets more through. `RateBounded` is the bound the code keeps |
| `service_counts` | every request is counted, and once (`EachRequestCounted`): a panic passes `metricsMW` by, which is what the counterexample shows; a late request is counted by two layers. `AnswersCountedOnce` is what the code keeps |
| `custom_race` | Apply takes effect: overlapping publishers can leave an old snapshot for good |

### Known deviations

Places where the code does something else than a comment or a reader expects.
The models reproduce each of them; the properties above are worded to leave room
for them and say so.

Store and `/process`:

* A byte overshoot smaller than the mean record is no record at all after the
  integer division of `store.go:602`, so a sweep cycle leaves it standing, against
  "one sweep cycle brings the store back under the cap" (`store.go:586-587`).
* Replacing small records by large ones passes the byte cap with no eviction:
  `PutLockExisting` never looks at the caps (`store.go:352`).
* Of two Puts under one id the one that takes effect last may carry the earlier
  deadline, because the clock is read before the lock (`store.go:347`).
* A system with demasking off is given what another system stored under the same
  id (`engine.go:204`, against `config.go:92-93`).
* A request that times out is counted by the engine and by the metrics layer
  (`engine.go:199`, against `middleware.go:205-206`), one whose handler panics by
  neither (`middleware.go:82`, against `middleware.go:32`): `EachRequestCounted`,
  which the run `service_counts` refutes.
* A forward step repeated after a fail-open answer finds the identity entry and
  is counted as demasking (`engine.go:1064`); the answer is the same.
* When a repeated forward step fails although an earlier one left its entry, the
  identity is not stored, and sending the text back yields the earlier mask
  (`engine.go:291`). `RoundTrip` calls such an answer `shadowed`.
* When a call under an id has failed and the element is asked for twice at once,
  or its entry is lost, the identity of the one may stand beside the mask of the
  other: `Crossed` in `Harness`.
* Overlapping forward calls that straddle a configuration change are answered
  with different masks (`engine.go:344`); the harness runs under one
  configuration.

Masking and chat:

* Long texts are resolved chunk by chunk and the result once more, so of three
  overlapping spans at a cut the third may lose to one that loses itself;
  `EntitiesWhole` speaks of an entity that nothing contests.
* A carriage return ends the reach of a label but is no place to cut; a tab
  separates label and value but is no place to cut either.
* A mask that stands for two values is not always "left untouched"
  (`mask.go:169-173`): if a mask that stands for one begins it, that one is put back
  inside it. With "И. П." for two people and "И." for a third, the third's name
  appears in front of "П.". `QuotesRestored` leaves that case out by its premise;
  the messages of the run contain it. Initials side by side may also spell a
  longer mask, or be what a user typed; `MasksStandOut` excludes both.
* A stream that ends without `[DONE]` is accepted as an answer, and what the user
  typed literally like a mask is restored as one.
* Two systems with one API key are told apart by map order.
* No line rejects a custom type whose expression matches the empty string
  (`custom.go:66-90`, `validateCustomType`). From 48 spans on the bitmap lets an
  empty span stand inside another that was kept; `expandLabelSpans` takes the end of
  the empty one for the limit of the next, which may then widen into the first and
  be dropped by `Apply`, unmasked. `SpansMasked` therefore assumes `MarksNotEmpty`.
* `LeakGuard` filters what it finds in the masked text: a value that is believed only
  beside a companion (`requires_companion`) passes once the companion is masked or
  its type no longer enabled. `ModelSeesNoKnownValue` speaks of types that need none.
* A minute may see nearly twice `requests_per_minute`: the bucket starts full and
  refills while it is emptied (`llm_limit.go:87`, against `llm_limit.go:8-9`,
  `config.go:199-200`, `src/docs/CONFIG.md:87` and `src/README.md:110-111`):
  `RateCapped`, which the run `chat_rate` refutes.
* A limit raised from zero starts with an empty bucket, and a token is spent
  although masking or the guard refuses afterwards.

Service:

* `rate()` read between the claim of a slot and its zeroing counts a stale slot as
  fresh (`metrics.go:180-181`), and samples added in between are lost; `RateExact`
  names both.
* A chat request may run ten seconds longer than its own timeout, the drain lasts
  twelve: it is cut off within its time (`main.go:177`).
* A listener that fails for good ends the process without a drain; readiness may
  be announced before the listener listens, and nothing waits between taking it
  back and `Shutdown`.

Configuration:

* Two PUTs in flight can bring a rotated key back: each restores its secrets before
  it waits for the lock. `SecretsSurvive` speaks of PUTs that do not overlap.
* `MaxValueBytes` says "Zero means use the store package default" and `Validate`
  refuses zero; its default lies below `MaxBodyBytes`, against its comment.
* A system renamed while its key is redacted loses the key; a PUT that leaves
  `fail_open` out sets it; of two entries with one id the later wins.
* `Clone` shares the slices of `Dictionaries`; a duration below a millisecond is
  persisted as zero, which the next start refuses.
* `/admin/detect` ignores `requires_companion` and drops custom types although it
  says it mirrors what the engine would mask.

Detectors and strategies:

* A document cue reaches over a comma and changes the type of the next item of a
  list: `SameInAList` compares places, not types.
* Two phones that one blank separates make one run and both are lost.
* A cued window of sixteen digits that fails the Luhn test may start earlier than
  one that passes and leave the last group of the card unmasked; `CardTouched` asks
  for a part. A wider window may pass the Luhn test by chance.
* `usedWithin` demands that every claim of the chain so far lies in the account,
  not only those that touch it.
* "29 февраля 1990" with a hyphen or two blanks yields a year-less 29 February,
  and an impossible compound ordinal ("двадцать девятое февраля 1990") is read as
  its second word. `MCRecognise` leaves these spellings out of the dates.
* `dateCleanRun` says conjunctions break a run; no line does that.
* `docShapeMaxBytes` says no shape is longer than 21 bytes; licence shapes with 32
  blanks are, and `WindowsReach` holds for those within the slack.
* `syntheticDate` says its result is a real date: not for eight digits in a row,
  for 29 February in words, for groups of one digit. A date all in words is
  returned as it was. `keep_domain` and stars leave a value without letters or
  digits as it was.
* The control digits of an INN are taken modulo eleven and ten, so more numbers
  pass than the comment's one in eleven.

### Bounds

Every bound is a constant of the configuration: `MaxOps` and `MaxTime` for the
store; `MaxCalls`, `MaxFaults`, `MaxChanges` and `MaxLosses` for `/process`;
`MaxTries` and `MaxElements` for the client; `MaxReloads` for `Masking`; `calls`,
`changes` and `time` of a scenario for `Chat`; `Horizon`, `LastSecond` and
`MaxSamples` for `MCService`; `MaxChanges` for `MCAdmin` and `CustomSync`.

* Two shards with two ids in one of them: a shard can be emptied, shared and
  contended. Two sizes of record, so that counts and bytes part ways. Caps of one
  or two entries, so that every run evicts.
* One tick of TTL: the clock reads before and at a deadline. `store_live` has
  two, so that a tick sweeps half of the shards and the rotation has to come
  round.
* Workers are symmetric in all runs of `MCMemStore` and `MCProcess` without
  liveness, and so are the two ids that share a shard; the two callers of `chat`
  are symmetric.
* `store` has three ids, two workers, a sweeper and three calls: a burst over the
  cap, a replacement, and a call in the middle of a sweep. `store_live` has one id
  and two calls, Close among them. Between them they take every action of `MemStore`.
* Two requests see every interleaving of check and store on one id; three calls
  let a third come after both. The client may send three requests for each of
  two elements, any two of them at once.
* Faults, configuration changes and losses are bounded by one each, because a
  property speaks of one pair of steps they fall between. All three occur in the
  same behaviours.
* `masking`: every pair and triple of spans over three bytes, empty ones included
  (the second algorithm decides from three spans on here, and `AlgorithmsAgree`
  puts every set to both); every text of five runes in chunks of a few bytes, with every entity no
  longer than the overlap; every front of up to three fillers before a value.
* `chat`: two callers, two messages, masks that are shared, masks that begin with
  another and a shared one that does, two configuration changes within one call; and, apart from that,
  three calls that meet at a bucket of one or two tokens within two minutes of
  three seconds each, under a limit that is raised or lifted.
* `service`: two requests of any kind at a limit of one, a drain of two ticks
  between the deadline of `/process` (none or one tick) and the one of chat
  (three); two writers on a ring of three seconds with a window of two, twice
  round.
* `custom_publish`: two operators, one of them with the wrong token once a token
  is set, three configurations, restarts among them; three requests that publish.
* `recognise`: nine kinds of items in lists of two with four joiners; chains of up
  to three numbers out of seven with four cues; days, months and years at the
  edges of the calendar in every spelling; nine document numbers at six distances
  around the window behind each cue. It is a set of inputs, chosen where the code
  branches: what it says of other texts is an extrapolation.

### Fairness

`store_live` uses strong fairness for each goroutine in a call and for the
sweeper. Goroutines are scheduled; a Go mutex hands itself to a waiter after a
millisecond, so a lock that is free infinitely often is taken; the ticker keeps
firing; and `select` picks at random between a closed `stop` and a tick, so it
takes `stop` in the end. `custom_publish` uses weak fairness for each request and
assumes that requests keep coming, as the code does ("applied lazily on the hot
path"); operators are not fair. `service` uses weak fairness for the steps of the
shutdown, for time, for the layers of each request, and for a handler whose
deadline has passed (it is cut off by its context); a handler before its deadline,
or without one, may run for ever, and no signal need come. Handlers and the drain
are the only things that take time there: `Tick` waits for the rest.

## What is proved

Each theorem holds for all values of the constants that satisfy the assumptions
named in the modules. Those assumptions say what the code's types and its
validation say: shards and caps are positive, ids have a shard, an absent thing is
none of the present ones, requests are finitely many in a behaviour of `Service`,
limits are no negative numbers and one of them is the highest, the empty text and
the placeholder `***` are different texts, lower-casing twice is lower-casing
once, detections lie in their text, and messages and masks are made of words. TLC
evaluates each of them in the runs. Some theorems have a hypothesis of their own,
named and explained below: `MasksCanBeTakenBack` and `DeadlinesFitTheDrain` speak
of the configuration, `MarksNotEmpty` and `EntitiesShort` of what the detectors
report (`MCProcess`, `MCService` and `MCMasking` assume them, so TLC evaluates them
for the runs' constants), `EditsAreForms` of what the JSON decoder can yield.

The library's induction theorems take an operator as a parameter, which the
provers cannot instantiate. Where a claim about every sequence or set is needed, it
is written as a set of counterexamples, which by well-foundedness would have a
smallest element (`WFMin`), and that one is refuted. Recursive functions and folds
are `CHOOSE`s, so the first thing to show of each is that such a function exists,
by the smallest argument at which it could not.

### The store: `MemStoreProofs`

* `TypeCorrect`: `Spec => []TypeOK`. Two clauses of `TypeOK` are more than typing:
  the sweeper's index stays a shard, and a mean record size is only taken over a
  positive count. Both needed a fact about arithmetic on its own (`%`, `\div`).
* `Ownership`: past `Lock` and before `Unlock`, and only there, a goroutine owns
  its shard. Inductive together with `TypeOK`.
* `Overshoot`: `entries <= MaxEntries - 1 + |Settled|`, where a shard is settled
  when it holds a record (or its lock holder has one in hand) and its Put will add
  none that is not counted yet. `EntriesBounded` alone is not inductive, because a
  Put that has seen room adds its entry later, when others have done so too.
  The argument is that each such Put owns a shard (`Ownership`) that is not
  settled before its `PutAdd` and is afterwards, so count and bound grow together;
  that the cap check itself can only succeed below the cap; and that the eviction
  path gives an entry back before it adds one. `FreshBurst` (no evictions before
  the lock) completes the inductive invariant `OvershootInv`.
* `SoftCap`: `Spec => []EntriesBounded`, from `Overshoot` and
  `Cardinality(Settled) <= NumShards`. So the soft cap of the default
  configuration is soft by at most 255 entries, sweeper or not.
* `LossIsExplained`: a record goes only past its deadline, to make room, or by a
  Delete of its id. What a step removes is decided on a clock reading taken
  earlier; `DeadlineInv` says that no goroutine holds a reading of the future, nor
  a deadline more than one TTL away, and that suffices.
* `StoreImplementsMapping`: every step of `MemStore` is a step of `Mapping` or a
  stutter under the mapping of the table to its live records (`Remembered`) and of
  each Get's answer (`Found`). The step that takes effect is `PutStore` for a Put
  and the second look of a Get; `DeadlineInv` is what makes a deadline drawn before
  the lock one the abstract Put could have drawn.
* `CounterExact`: the entry counter is the size of the table plus what is removed
  and not given back, or announced and not inserted. Not inductive by itself: a
  Put announces an insertion long before it makes it, and counts on its id staying
  absent. `CountInv` adds that (`InsertsAbsent`), which follows from `Ownership`.
  An operation changes the table in one shard and its own debt, so each action is
  balanced by itself (`BalancedKeepsAccount`).
* `BytesExact`: the byte counter is the sum of the sizes in the table and of what
  the calls under way have taken out and not given back, or announced and not
  stored. `ByteInv` is `CountInv` with this account. The sum is a fold over a set,
  so it has to be shown to exist and not to depend on the order (`SumsExist`,
  `SumsAgree`) before one can say that changing one size changes it by as much
  (`SumChange`). Each action changes the size of one id and what its own goroutine
  owes (`Unsettled`), and the two balance what it adds to the counter
  (`WorkerSettles`, `SweeperSettles`); the others' debts stay (`OthersUnsettled`).
* `CycleRestoresEntries`: after an undisturbed cycle the count is within the cap.
  `CycleInv` says what is left to do while no worker moves: the count is within the
  cap or at most `MaxEntries - 1` plus one for each shard that is settled, not yet
  swept and has not handed over its share (`Pending`). It begins as `Overshoot`;
  each shard swept takes at least one entry off while there is an overshoot,
  whatever its proportional share rounds to; after the last, `Pending` is empty.

### /process: `ProcessProofs`

For any number of requests, any configurations, ids and texts, and any function
`Rewrite`.

* `ProcessTypeCorrect`: `Spec => []TypeOK`. Beyond typing, `TypeOK` says that each
  step of a call finds what it takes for granted (`Ready`): a payload after the
  admission, a system after `Resolve`, an entry wherever the direction says one
  was found, a mask where one is stored, and nothing counted before the engine
  counts it. Each action is reduced to one of six lemmas about moving to a label
  with updated locals.
* `RememberedAnswers`, `DisabledStaysOut`, `LeakNeedsFault`: the three history
  properties of the `process` run. None is inductive: they speak of the answer,
  and what makes the answer right was found out several steps earlier, since when
  the store and the configuration have moved on. `HistoryInv` adds, for each label,
  what a call knows there (`OnTheWay`: the entry it holds was once under its id,
  the text it is about to remember is in the history, its system is one in use)
  and `StoreKnown`: the store holds nothing the history has missed, and an identity
  ever stored for personal data betrays a failure under that id. The history only
  grows (`Grown`), so a request that takes no step keeps what it knows
  (`BystanderKeeps`); for the one that does there is a lemma per action; and only `Put`
  and `IdentityPut` give the store an entry (`StoredBy`).

### The two-step contract: `HarnessProofs`

For any number of requests, payload ids, elements and repetitions, and whatever
fails, is lost or overlaps.

* `RoundTripKept`, `MaskNeverMasked`, `RetriesGetOneMask`: `CSpec => []RoundTrip`,
  `[]NeverMaskOfMask`, `[]RetriesAgree` under `MasksCanBeTakenBack`, which says what
  the contract asks of a configuration: the harness's system is in service and
  keeps mappings; every mask it draws is one that `looksMasked` (or, with label
  strategies, `looksLabelMasked`) recognises, or leaves the text as it is; elements
  and masks fit the store; and a change of the configuration, of which any number
  may happen, does not touch this system. Stars, `PD_` tokens, initials of a
  full name and, with `label` among the rules, bracketed labels are such masks. A
  synthetic value or two initials are not: there `decide` has no way to know a
  mask whose entry is lost, and nothing is proved.
* The three speak of the end of a request, the invariant (`HarnessInv`) of what
  takes the harness back to its element. A text does (`Kept`) if it is the other
  half of the id's entry, or the element itself that masking leaves alone, or the
  mask every later call would draw again after the entry was lost. Every answer the
  harness relies on is kept, what a request carries to its answer is kept at each
  label (`Forward`, `Reverse`), and two kept texts are one (`KeptAgree`).
* That alone is not inductive: an identity remembered for a failed call
  (`RememberIdentity`) may stand beside the mask another call of the element got.
  Two parts more are needed. An entry joins a text to its mask or, once a call has
  failed, to itself (`Paired`, across elements); and a request that has its id to
  itself finds the store as it left it or without the entry (`Alone`). The cases in
  which neither helps are exactly those of `Crossed`.
* `Moves` says what a step may do to the entry of an element for which the contract
  holds; `KeptStays` and `Bystander` carry everything over such a move, for the
  requests that take no step. For the one that does there is a lemma per action, on
  records rather than on the state, and one per action that puts it in place.

### The pipeline, the drain and the ring: `ServiceProofs`

For any number of requests and any limit, timeouts included.

* `SlotsComeBack`, `RequestsCounted`: `NothingLeaks` and the totals of
  `AnswersCountedOnce` speak of the moment when no request runs. `PipelineInv` says what the semaphore, the
  gauge and the counters are at every moment, as cardinalities of the sets of
  requests that hold a slot (`Holding`), are in flight (`Running`), have been
  sampled or turned away; with nobody running the sets are empty or all of the
  finished. What a request may have become at each layer (`OnTheWay`, `Been`) ties
  the sets to the way it ended, panics included.
* `DrainSpares`: `Spec => []DrainSparesProcess` under `DeadlinesFitTheDrain`: every
  `/process` deadline is shorter than the drain. That is a fact about a
  configuration, and the default one has it (5 s against 12 s); `validateServer`
  asks of `process_timeout_ms` only that it be positive, so an operator may
  configure it away, and then the drain does cut requests off. `DrainInv`: once the
  drain has begun nobody enters (`NobodyEnters`), so whoever is under way with a
  deadline was admitted before and the deadline comes before the drain's
  (`Underway`); who is cut off has none, chat requests aside (`Admitted`).
* `RateTellsEach`: `MetricsSpec => []RateExact` for any number of writers and any
  ring. `RingInv` says of each second the ring has room for where its slot is:
  before the claim, between claim and zeroing, after it (`Kept`); that only one
  writer wins a claim; and that two writers at work in one slot stand for one second
  (`SameSlot`), which is where the assumption is needed that no writer sleeps while
  the ring turns.

### Configuration: `AdminProofs`

For any number of operators and publishers and any configurations.

* `WholePublication`: publishers that do not overlap leave three snapshots of one
  configuration. `SyncInv` says how far a lone publisher has come.
* `SecretsKept`, `RestartFinds`: under `EditsAreForms`, which says that whatever an
  operator writes decodes to the fields of `configJSON`: the decoder fills a struct,
  so it can give nothing else. `AdminInv` says what an operator's request has in
  hand at each step of `handleAdminConfigPut` (`InHand`), that the file loads as the
  configuration last persisted and passes `Validate` (`Filed`), that no configuration
  ever published holds the placeholder (`Clean`), and that, without overlapping
  requests, the keys are those the operators intended. Most of the proof is
  about the operators: what `Default`, `Redact`, `Restore`, `Normal`, `ToWire` and
  `FromWire` yield is a configuration again (or a wire form), and
  `RoundTripConfig`: reading back what `persist` wrote, `normalize` included, gives
  the configuration that was published, provided its texts are in canonical form
  and its durations whole milliseconds, as they are after any decoding. The list of
  systems is an arbitrary enumeration of the map; that it lists each system exactly
  once (`ListsAll`) is what makes "the later entry wins" harmless.

### The span pipeline: `SpansProofs`, `MaskingProofs`

For any texts, detections, priorities, confidence floors, strategies, chunk sizes
and overlaps, and any configuration changes on the way. `CallInv` follows a run:
what the chunks have found are spans of the text (`Holding`), the contest is
decided as it should be (`Deciding`), what is masked is what `Apply` makes of a
disjoint selection of them (`Masked`).

* `RestoreExact`: `Spec => []RestoreUndoesApply`. The replacements mirror the text
  (`Mirrors`): between two of them original and masked text run alike, each names
  its place in both. `Apply` keeps that for every span it takes or drops
  (`ReplaceMirrors`), and a `Restore` that has come through k replacements holds the
  original up to the end of the k-th (`Undone`).
* `ContestsDecided`: `Spec => []ContestDecided`, for both algorithms and any number
  of detections. At each step of the fold each span dealt with is kept, or overlaps
  one that is kept and at least as long (`Settled`); the bitmap's taken bytes are
  those of the kept spans (`TakenBy`), so "no byte taken" and "apart from all kept"
  are the same question.
* `AlgorithmsAlike`: `Spec => []AlgorithmsAgree`. The two do not keep the same spans:
  they differ in empty ones. They keep the same non-empty ones (`Same`, one step of
  both folds at a time), and what `Apply` writes depends on those only
  (`SameReplaced`, by the sum of the positions in the two lists).
* `SpansMasked`: `Spec => []EverySpanMasked` under `MarksNotEmpty`: where
  labels may be taken in, no detector reports an empty span. What the filter lets
  through is disjoint and rising (`Laid`), and stays so when spans take in the labels
  before them (`ExpandLaid`), so `Apply` finds nothing out of order to drop
  (`ApplyRecords`). With an empty span among the detections this is false; see the
  deviations.
* `EntitiesComeWhole`: `Spec => []EntitiesWhole` under `EntitiesShort`: in a text
  that is cut, the entities are not empty, no longer than the overlap, and apart from
  each other. `Gathered` says what the
  chunks so far have found: pieces of entities, and in one piece each entity that
  ends before the last cut (`ChunkGathers`); the chunk that follows starts an
  overlap before the cut, so it contains every entity the cut goes through. The
  whole outlives its pieces in the contest (`WholeSurvives`).

### The limiter and the leak guard: `ChatProofs`

* `TwoBucketsAtMost`: `Spec => []RateBounded` for any limits, callers and clock. A
  bound on the tokens of one minute says nothing of the next step; `LimiterInv` is a
  potential: for every second t, what the minute from t has seen, plus what the
  bucket still holds in it, is no more than a full bucket and what has flowed in
  since t. A refill moves inflow into the bucket (`LaterAccounted`), a call moves a
  token out of it (`TokenAccounted`), a change of the limit only takes away. The limit
  a caller carries from `ReadLimit` to `AdjustLimit` was once in force (`LimitsRead`),
  which the invariant of the guard gives; `ChatInvariant` proves the two together.
* `RetryIsHonest`: `Spec => []RetryAfterHonest`, from the same invariant and
  `RetryBringsToken`: rounding up brings a whole token.
* `NothingKnownLeaks`: `Spec => []ModelSeesNoKnownValue` for any messages, systems,
  masks and configurations, which may change between any two steps. `GuardInv`
  follows a call from its arrival to the model: what is masked so far are texts of
  words, one for each message (`MaskedSoFar`), the configuration the guard filters by
  is the one that was live when it began, and what was in force when a message
  was guarded is in none of them, but under a mask (`KnownSoFar`). What `Apply`
  writes is a text again (`ApplyWrites`), so the detection of the guard sees every
  word of it (`DetectFinds`) and the filter keeps those of a type that needs no
  companion (`FilterKeeps`, `GuardSees`).

### What is only model-checked

* Liveness (`DeadReclaimed`, `CallsReturn`, `SignalEnds`, `AdmittedAnswered`,
  `RequestsCatchUp`): fairness is out of the prover's reach.
* `QuotesRestored`: `RestoreText` replaces a mask wherever it occurs in the answer,
  also inside another mask or in what the user typed. What has to be kept apart for
  the property to hold is `MasksStandOut`, which TLC evaluates for the run's
  requests; that it is enough for all texts is not proved.
* `Recognise`: properties of a set of inputs, by evaluation.

## Not modelled

* Names, addresses and passports (`fio.go`, `fio_oblique.go`, `address.go`,
  `address_more.go`, `passport.go`), half of the detectors by lines: rules of
  Russian grammar over dictionaries of names, endings and street words. Whether
  they are right is a question about the language, and a payload of cells has no
  endings. What the pipeline does with whatever they report is in `Masking`.
  Dictionaries and inflection for the same reason.
* In the modelled detectors: the words themselves (a word is its lists and its
  width), the byte-level probes that skip a scan, hints, and letters of a
  document's series one by one (two of them are one word).
* In the strategies: initials and the synthetic name; label and token stand for
  any mask function in `Masking` and `Chat`. The hash stream a fake is drawn from
  is one fixed function.
* Map rebuild in `sweepShard` (content unchanged), the FNV hash, `Len` and `Stats`
  as calls (they read single counters), the sizing of the rotation.
* A wall clock that steps back; the models' clocks move forward only.
* In `Process`: the types and system an entry carries (nobody reads them when
  deciding), log lines, a panic outside detection and masking, `Engine.Mask` and
  `Engine.Demask` as entry points (they have no caller outside the tests).
* In `Chat`: the server without a model client (503), transport details of the
  call, usage numbers.
* In `Service`: identifiers, headers and the access log; a second signal.
* `/admin/detect`, which changes nothing; the admin console; metrics other than
  the request counters and the ring; logging; the benchmark client.
* Response bodies that fail to be written, HTTP framing, JSON.

## Plan

What a continuation would do first:

1. `QuotesRestored` for all texts under `MasksStandOut`: each mask put back turns
   what is joined of pieces into what is joined of the pieces with that one replaced.
2. Names, addresses and passports over cells with endings, at least the joins of
   parts across separators, which are control and not language.
3. The empty span and the lost companion as runs that end in a violation, once the
   documentation says what is meant to happen.
