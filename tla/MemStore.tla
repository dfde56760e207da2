----------------------------- MODULE MemStore ------------------------------
(***************************************************************************)
(* The sharded in-memory table of internal/store/store.go: Put, Get,       *)
(* Delete, Close and the background sweeper, at the granularity at which   *)
(* goroutines interleave.  Each step makes at most one access to the state *)
(* goroutines share without a lock (an atomic counter, the clock); what is *)
(* done to a shard's map between Lock and Unlock is visible to nobody else *)
(* and is folded into the neighbouring atomic access.                      *)
(*                                                                         *)
(* Left out: the bucket rebuild at the end of sweepShard, which copies the *)
(* map as it is; the hash, which is an arbitrary function ShardOf.         *)
(*                                                                         *)
(* A definition named Slip_... is no part of the specification: it is a    *)
(* mistake the code could have made at that place, kept to show that the   *)
(* properties would notice it.                                             *)
(***************************************************************************)
EXTENDS Integers, FiniteSets

CONSTANTS
  Ids,            \* payload ids
  EmptyId,        \* the id ""
  Entry,          \* masking results
  OriginalLen,    \* Entry -> len(Original)
  MaskedLen,      \* Entry -> len(Masked)
  NumShards,      \* len(s.shards)
  ShardOf,        \* Ids -> shard index
  Workers,        \* goroutines serving requests
  Sweeper,        \* the goroutine running sweepLoop
  NoOne,          \* the owner of a free lock
  Absent,         \* no record under an id
  TTL, SweepInterval, MaxEntries, MaxValueBytes, MaxBytes,    \* Config
  EvictSample, EvictBurst,  \* the constants evictSample and evictBurst
  Calls,          \* the kinds of calls the workers make
  MaxOps,         \* bound: calls started in a behaviour
  MaxTime         \* bound: the last clock reading

Shards == 0 .. NumShards - 1
Actors == Workers \cup {Sweeper}

ASSUME ShardsAssumption ==
  /\ NumShards \in Nat \ {0}
  /\ IsFiniteSet(Ids) /\ EmptyId \in Ids
  /\ ShardOf \in [Ids -> Shards]
ASSUME ActorsAssumption ==
  IsFiniteSet(Workers) /\ Sweeper \notin Workers /\ NoOne \notin Workers \cup {Sweeper}
ASSUME EntryAssumption ==
  OriginalLen \in [Entry -> Nat] /\ MaskedLen \in [Entry -> Nat]
ASSUME ConfigAssumption ==
  /\ TTL \in Nat \ {0} /\ SweepInterval \in Int
  /\ MaxEntries \in Nat \ {0} /\ MaxBytes \in Nat \ {0}
  /\ MaxValueBytes \in Nat \ {0} /\ EvictBurst \in Nat \ {0}
  /\ EvictSample \in Nat \ {0}
ASSUME BoundsAssumption == MaxOps \in Nat /\ MaxTime \in Nat

EntrySize(e) == OriginalLen[e] + MaskedLen[e]
Record == [entry : Entry, expires : Nat, size : Nat]
ASSUME AbsentAssumption ==
  Absent \notin Record /\ Absent \notin [entry : Entry, expires : Nat]

\* How many shards one tick sweeps so that a full cycle fits in one TTL.
ShardsPerTick(shards, ttl, interval) ==
  IF interval <= 0 \/ ttl <= 0 THEN 1
  ELSE LET ticks == IF ttl \div interval < 1 THEN 1 ELSE ttl \div interval
           per   == (shards + ticks - 1) \div ticks
       IN  IF per < 1 THEN 1 ELSE IF per > shards THEN shards ELSE per

-----------------------------------------------------------------------------
VARIABLES
  m,        \* id -> record, all shards together
  lock,     \* shard -> the goroutine that holds its write lock
  entries, bytes,                  \* atomics of the live table
  stats,    \* the other atomics: puts, hits, misses, expired, evicted, skipped
  clock,    \* time.Now()
  pc, loc,  \* actor -> next step, local variables
  sw,       \* locals of sweepLoop, sweepShard and shardEvictQuota
  closing,  \* stop closed, done closed, closeOnce running or finished
  ops       \* calls started so far

vars == <<m, lock, entries, bytes, stats, clock, pc, loc, sw, closing, ops>>

Locals(op, id, rec, now) ==
  [op |-> op, id |-> id, rec |-> rec, now |-> now, burst |-> 0, cut |-> 0]
NoLocals == Locals("none", EmptyId, Absent, 0)

Init ==
  /\ m = [i \in Ids |-> Absent]
  /\ lock = [s \in Shards |-> NoOne]
  /\ entries = 0 /\ bytes = 0
  /\ stats = [puts |-> 0, hits |-> 0, misses |-> 0,
              expired |-> 0, evicted |-> 0, skipped |-> 0]
  /\ clock = 0
  /\ pc = [a \in Actors |-> IF a # Sweeper THEN "idle"
                            ELSE IF SweepInterval > 0 THEN "select" ELSE "off"]
  /\ loc = [a \in Actors |-> NoLocals]
  /\ sw = [next |-> 0, left |-> 0, need |-> 0, count |-> 0, over |-> 0]
  /\ closing = [stop |-> FALSE, done |-> SweepInterval <= 0, once |-> "fresh"]
  /\ ops = 0

ShardOfActor(a) == IF a = Sweeper THEN sw.next ELSE ShardOf[loc[a].id]
Live(s) == {i \in Ids : ShardOf[i] = s /\ m[i] # Absent}
Dead(s, t) == {i \in Live(s) : m[i].expires <= t}

Goto(a, from, to) == pc[a] = from /\ pc' = [pc EXCEPT ![a] = to]
Acquire(a) == LET s == ShardOfActor(a)
              IN  lock[s] = NoOne /\ lock' = [lock EXCEPT ![s] = a]
Release(a) == lock' = [lock EXCEPT ![ShardOfActor(a)] = NoOne]
Counted(c) == stats' = [stats EXCEPT ![c] = @ + 1]
Begin(w, op, to) ==
  /\ op \in Calls /\ ops < MaxOps /\ ops' = ops + 1
  /\ Goto(w, "idle", to)
Return(w) == loc' = [loc EXCEPT ![w] = NoLocals]

\* The record of id i leaves the map; its count and size are given back next.
Remove(a, i, op) ==
  /\ m' = [m EXCEPT ![i] = Absent]
  /\ loc' = [loc EXCEPT ![a].op = op, ![a].cut = m[i].size]

-----------------------------------------------------------------------------
(* Put *)

Refused(i, e) ==
  i = EmptyId \/ OriginalLen[e] > MaxValueBytes \/ MaskedLen[e] > MaxValueBytes

PutRefused(w, i, e) ==
  /\ Refused(i, e)
  /\ Begin(w, "put", "idle")
  /\ Counted("skipped")
  /\ UNCHANGED <<m, lock, entries, bytes, clock, loc, sw, closing>>

\* The deadline is fixed by a clock read that precedes the lock.
PutStart(w, i, e) ==
  /\ ~Refused(i, e)
  /\ Begin(w, "put", "putLock")
  /\ LET rec == [entry |-> e, expires |-> clock + TTL, size |-> EntrySize(e)]
     IN  loc' = [loc EXCEPT ![w] = Locals("put", i, rec, clock)]
  /\ UNCHANGED <<m, lock, entries, bytes, stats, clock, sw, closing>>

\* An existing record is replaced: its bytes are given back, nothing evicted.
Replace(w, to, given) ==
  /\ Goto(w, "putLock", to)
  /\ m[loc[w].id] # Absent
  /\ Acquire(w)
  /\ bytes' = bytes - given
  /\ UNCHANGED <<m, entries, stats, clock, loc, sw, closing, ops>>
Slip_ReplaceKeepsBytes(w) == Replace(w, "putGrow", 0)
Slip_ReplaceCounts(w) == Replace(w, "putAdd", m[loc[w].id].size)
PutLockExisting(w) == Replace(w, "putGrow", m[loc[w].id].size)

Insert(w, to) ==
  /\ Goto(w, "putLock", to)
  /\ m[loc[w].id] = Absent
  /\ Acquire(w)
  /\ UNCHANGED <<m, entries, bytes, stats, clock, loc, sw, closing, ops>>
PutLockNew(w) == Insert(w, "putCapEntries")

\* overCap reads the two counters one after the other.
PutCapEntries(w) ==
  /\ Goto(w, "putCapEntries", IF entries >= MaxEntries THEN "putEvict" ELSE "putCapBytes")
  /\ UNCHANGED <<m, lock, entries, bytes, stats, clock, loc, sw, closing, ops>>

PutCapBytes(w) ==
  /\ Goto(w, "putCapBytes", IF bytes >= MaxBytes THEN "putEvict" ELSE "putAdd")
  /\ UNCHANGED <<m, lock, entries, bytes, stats, clock, loc, sw, closing, ops>>

PutEvictNone(w) ==
  /\ Goto(w, "putEvict", "putAdd")
  /\ Live(ShardOfActor(w)) = {}
  /\ UNCHANGED <<m, lock, entries, bytes, stats, clock, loc, sw, closing, ops>>

\* The first dead record met in the random iteration order goes.
PutEvictExpired(w) ==
  /\ Goto(w, "putEvict", "putDropEntry")
  /\ \E i \in Dead(ShardOfActor(w), loc[w].now) : Remove(w, i, "put")
  /\ Counted("expired")
  /\ UNCHANGED <<lock, entries, bytes, clock, sw, closing, ops>>

\* Samples of a shard in which evictSampled meets no dead record.
Samples(s, t) ==
  LET size == IF Cardinality(Live(s)) < EvictSample THEN Cardinality(Live(s))
                                                    ELSE EvictSample
  IN  {S \in SUBSET (Live(s) \ Dead(s, t)) : Cardinality(S) = size}

\* Those of a set of records that are closest to their deadlines.
Slip_Latest(S) == {i \in S : \A j \in S : m[i].expires >= m[j].expires}
Oldest(S) == {i \in S : \A j \in S : m[i].expires <= m[j].expires}

\* Otherwise the oldest of the sample goes.
PutEvictOldest(w) ==
  /\ Goto(w, "putEvict", "putDropEntry")
  /\ \E S \in Samples(ShardOfActor(w), loc[w].now) : \E i \in Oldest(S) : Remove(w, i, "put")
  /\ Counted("evicted")
  /\ UNCHANGED <<lock, entries, bytes, clock, sw, closing, ops>>

PutDropEntry(w) ==
  /\ Goto(w, "putDropEntry", "putDropBytes")
  /\ entries' = entries - 1
  /\ UNCHANGED <<m, lock, bytes, stats, clock, loc, sw, closing, ops>>

PutDropBytes(w) ==
  /\ Goto(w, "putDropBytes",
          IF loc[w].burst + 1 < EvictBurst THEN "putCapEntries" ELSE "putAdd")
  /\ bytes' = bytes - loc[w].cut
  /\ loc' = [loc EXCEPT ![w].burst = @ + 1, ![w].cut = 0]
  /\ UNCHANGED <<m, lock, entries, stats, clock, sw, closing, ops>>

PutAdd(w) ==
  /\ Goto(w, "putAdd", "putGrow")
  /\ entries' = entries + 1
  /\ UNCHANGED <<m, lock, bytes, stats, clock, loc, sw, closing, ops>>

PutGrow(w) ==
  /\ Goto(w, "putGrow", "putStore")
  /\ bytes' = bytes + loc[w].rec.size
  /\ UNCHANGED <<m, lock, entries, stats, clock, loc, sw, closing, ops>>

PutStore(w) ==
  /\ Goto(w, "putStore", "idle")
  /\ m' = [m EXCEPT ![loc[w].id] = loc[w].rec]
  /\ Release(w)
  /\ Counted("puts")
  /\ Return(w)
  /\ UNCHANGED <<entries, bytes, clock, sw, closing, ops>>

Put(w) ==
  \/ \E i \in Ids, e \in Entry : PutRefused(w, i, e) \/ PutStart(w, i, e)
  \/ PutLockExisting(w) \/ PutLockNew(w) \/ PutCapEntries(w) \/ PutCapBytes(w)
  \/ PutEvictNone(w) \/ PutEvictExpired(w) \/ PutEvictOldest(w)
  \/ PutDropEntry(w) \/ PutDropBytes(w) \/ PutAdd(w) \/ PutGrow(w) \/ PutStore(w)

-----------------------------------------------------------------------------
(* Get and Delete *)

GetStart(w, i) ==
  /\ Begin(w, "get", "getRead")
  /\ loc' = [loc EXCEPT ![w] = Locals("get", i, Absent, 0)]
  /\ UNCHANGED <<m, lock, entries, bytes, stats, clock, sw, closing>>

\* The lock is free: a reader gets in, and so does a writer that changes nothing.
Readable(w) == lock[ShardOfActor(w)] = NoOne

GetAbsent(w) ==
  /\ Goto(w, "getRead", "idle")
  /\ Readable(w) /\ m[loc[w].id] = Absent
  /\ Counted("misses") /\ Return(w)
  /\ UNCHANGED <<m, lock, entries, bytes, clock, sw, closing, ops>>

GetFound(w) ==
  /\ Goto(w, "getRead", "getCheck")
  /\ Readable(w) /\ m[loc[w].id] # Absent
  /\ loc' = [loc EXCEPT ![w].rec = m[loc[w].id]]
  /\ UNCHANGED <<m, lock, entries, bytes, stats, clock, sw, closing, ops>>

Serve(w, alive) ==
  /\ Goto(w, "getCheck", "idle")
  /\ alive
  /\ Counted("hits") /\ Return(w)
  /\ UNCHANGED <<m, lock, entries, bytes, clock, sw, closing, ops>>
Slip_ServeDead(w) == Serve(w, TRUE)
GetHit(w) == Serve(w, loc[w].rec.expires > clock)

GetStale(w) ==
  /\ Goto(w, "getCheck", "getDrop")
  /\ loc[w].rec.expires <= clock
  /\ loc' = [loc EXCEPT ![w].now = clock]
  /\ UNCHANGED <<m, lock, entries, bytes, stats, clock, sw, closing, ops>>

\* dropExpired looks again under the write lock: the record may be another.
Slip_NoSecondLook(w) == m[loc[w].id] # Absent
StillDead(w) == m[loc[w].id] # Absent /\ m[loc[w].id].expires <= loc[w].now

DropDead(w, reason) ==
  /\ Goto(w, "getDrop", "dropEntry")
  /\ Acquire(w) /\ StillDead(w)
  /\ Remove(w, loc[w].id, "get")
  /\ Counted(reason)
  /\ UNCHANGED <<entries, bytes, clock, sw, closing, ops>>
GetDrop(w) == DropDead(w, "expired")

GetKeep(w) ==
  /\ Goto(w, "getDrop", "idle")
  /\ Readable(w) /\ ~StillDead(w)
  /\ Counted("misses") /\ Return(w)
  /\ UNCHANGED <<m, lock, entries, bytes, clock, sw, closing, ops>>

DeleteStart(w, i) ==
  /\ Begin(w, "delete", "delLock")
  /\ loc' = [loc EXCEPT ![w] = Locals("delete", i, Absent, 0)]
  /\ UNCHANGED <<m, lock, entries, bytes, stats, clock, sw, closing>>

DeleteFound(w) ==
  /\ Goto(w, "delLock", "dropEntry")
  /\ Acquire(w) /\ m[loc[w].id] # Absent
  /\ Remove(w, loc[w].id, "delete")
  /\ UNCHANGED <<entries, bytes, stats, clock, sw, closing, ops>>

DeleteAbsent(w) ==
  /\ Goto(w, "delLock", "idle")
  /\ Readable(w) /\ m[loc[w].id] = Absent
  /\ Return(w)
  /\ UNCHANGED <<m, lock, entries, bytes, stats, clock, sw, closing, ops>>

DropEntry(a) ==
  /\ Goto(a, "dropEntry", "dropBytes")
  /\ entries' = entries - 1
  /\ UNCHANGED <<m, lock, bytes, stats, clock, loc, sw, closing, ops>>

\* The end of Delete and of the expired branch of Get.
DropBytes(w) ==
  /\ Goto(w, "dropBytes", "idle")
  /\ bytes' = bytes - loc[w].cut
  /\ Release(w) /\ Return(w)
  /\ IF loc[w].op = "get" THEN Counted("misses") ELSE UNCHANGED stats
  /\ UNCHANGED <<m, entries, clock, sw, closing, ops>>

Get(w) ==
  \/ \E i \in Ids : GetStart(w, i)
  \/ GetAbsent(w) \/ GetFound(w) \/ GetHit(w)
  \/ GetStale(w) \/ GetDrop(w) \/ GetKeep(w)

Delete(w) ==
  \/ \E i \in Ids : DeleteStart(w, i)
  \/ DeleteFound(w) \/ DeleteAbsent(w)

-----------------------------------------------------------------------------
(* Close: the first caller stops the sweeper and waits for it; closeOnce     *)
(* makes the others wait for the first.                                      *)

CloseStart(w) ==
  /\ Begin(w, "close", "closeOnce")
  /\ UNCHANGED <<m, lock, entries, bytes, stats, clock, loc, sw, closing>>

CloseFirst(w) ==
  /\ Goto(w, "closeOnce", "closeWait")
  /\ closing.once = "fresh"
  /\ closing' = [closing EXCEPT !.stop = TRUE, !.once = "running"]
  /\ UNCHANGED <<m, lock, entries, bytes, stats, clock, loc, sw, ops>>

CloseDone(w) ==
  /\ Goto(w, "closeWait", "idle")
  /\ closing.done
  /\ closing' = [closing EXCEPT !.once = "finished"]
  /\ UNCHANGED <<m, lock, entries, bytes, stats, clock, loc, sw, ops>>

CloseAgain(w) ==
  /\ Goto(w, "closeOnce", "idle")
  /\ closing.once = "finished"
  /\ UNCHANGED <<m, lock, entries, bytes, stats, clock, loc, sw, closing, ops>>

Close(w) == CloseStart(w) \/ CloseFirst(w) \/ CloseDone(w) \/ CloseAgain(w)

-----------------------------------------------------------------------------
(* sweepLoop *)

Stop(done) ==
  /\ Goto(Sweeper, "select", "off")
  /\ closing.stop
  /\ closing' = [closing EXCEPT !.done = done]
  /\ UNCHANGED <<m, lock, entries, bytes, stats, clock, loc, sw, ops>>
Slip_NeverDone == Stop(FALSE)
SweepStop == Stop(TRUE)

\* The ticker fires; select may prefer it to a closed stop channel.
SweepTick ==
  /\ Goto(Sweeper, "select", "capEntries")
  /\ UNCHANGED <<m, lock, entries, bytes, stats, clock, loc, sw, closing, ops>>

PerTick == ShardsPerTick(NumShards, TTL, SweepInterval)

\* n shards are swept in this tick, but never more than there are.
SweepPlan(n) ==
  sw' = [sw EXCEPT !.left = IF n < NumShards THEN n ELSE NumShards]

SweepCapEntries ==
  /\ Goto(Sweeper, "capEntries", IF entries >= MaxEntries THEN "sweepNow" ELSE "capBytes")
  /\ IF entries >= MaxEntries THEN SweepPlan(4 * PerTick) ELSE UNCHANGED sw
  /\ UNCHANGED <<m, lock, entries, bytes, stats, clock, loc, closing, ops>>

SweepCapBytes ==
  /\ Goto(Sweeper, "capBytes", "sweepNow")
  /\ SweepPlan(IF bytes >= MaxBytes THEN 4 * PerTick ELSE PerTick)
  /\ UNCHANGED <<m, lock, entries, bytes, stats, clock, loc, closing, ops>>

SweepNow ==
  /\ Goto(Sweeper, "sweepNow", "sweepLock")
  /\ loc' = [loc EXCEPT ![Sweeper].now = clock]
  /\ UNCHANGED <<m, lock, entries, bytes, stats, clock, sw, closing, ops>>

SweepLock ==
  /\ Goto(Sweeper, "sweepLock", "sweepScan")
  /\ Acquire(Sweeper)
  /\ UNCHANGED <<m, entries, bytes, stats, clock, loc, sw, closing, ops>>

SweepExpired ==
  /\ Goto(Sweeper, "sweepScan", "dropEntry")
  /\ \E i \in Dead(sw.next, loc[Sweeper].now) : Remove(Sweeper, i, "expire")
  /\ Counted("expired")
  /\ UNCHANGED <<lock, entries, bytes, clock, sw, closing, ops>>

\* After the scan, shardEvictQuota; an empty shard has no quota.
SweepScanned ==
  /\ Goto(Sweeper, "sweepScan", IF Live(sw.next) = {} THEN "sweepEvict" ELSE "quotaOver")
  /\ Dead(sw.next, loc[Sweeper].now) = {}
  /\ sw' = [sw EXCEPT !.need = 0]
  /\ UNCHANGED <<m, lock, entries, bytes, stats, clock, loc, closing, ops>>

\* The share of `need' records this shard gives up.
ShareOf(need, shardLen, extra) ==
  LET per == need \div NumShards + extra
  IN  IF need <= 0 THEN 0 ELSE IF per > shardLen THEN shardLen ELSE per
Slip_ShareRoundsDown(need, shardLen) == ShareOf(need, shardLen, 0)
Share(need, shardLen) == ShareOf(need, shardLen, 1)

\* shardEvictQuota loads entries twice, then bytes twice.
QuotaOver ==
  /\ Goto(Sweeper, "quotaOver", "quotaCount")
  /\ sw' = [sw EXCEPT !.need = IF entries > MaxEntries THEN entries - MaxEntries ELSE 0]
  /\ UNCHANGED <<m, lock, entries, bytes, stats, clock, loc, closing, ops>>

QuotaCount ==
  /\ Goto(Sweeper, "quotaCount", "quotaBytes")
  /\ sw' = [sw EXCEPT !.count = entries]
  /\ UNCHANGED <<m, lock, entries, bytes, stats, clock, loc, closing, ops>>

QuotaBytes ==
  LET heavy == bytes > MaxBytes /\ sw.count > 0 IN
  /\ Goto(Sweeper, "quotaBytes", IF heavy THEN "quotaMean" ELSE "sweepEvict")
  /\ sw' = IF heavy THEN [sw EXCEPT !.over = bytes - MaxBytes]
           ELSE [sw EXCEPT !.count = 0,
                           !.need = Share(sw.need, Cardinality(Live(sw.next)))]
  /\ UNCHANGED <<m, lock, entries, bytes, stats, clock, loc, closing, ops>>

\* The byte overshoot becomes a record count through the mean record size.
QuotaMean ==
  LET mean  == IF bytes \div sw.count < 1 THEN 1 ELSE bytes \div sw.count
      count == sw.over \div mean
      need  == IF count > sw.need THEN count ELSE sw.need IN
  /\ Goto(Sweeper, "quotaMean", "sweepEvict")
  /\ sw' = [sw EXCEPT !.count = 0, !.over = 0,
                      !.need = Share(need, Cardinality(Live(sw.next)))]
  /\ UNCHANGED <<m, lock, entries, bytes, stats, clock, loc, closing, ops>>

\* evictOldest takes the records in the order of their deadlines.
SweepEvict ==
  /\ sw.need > 0
  /\ Goto(Sweeper, "sweepEvict", "dropEntry")
  /\ \E i \in Oldest(Live(sw.next)) : Remove(Sweeper, i, "evict")
  /\ sw' = [sw EXCEPT !.need = @ - 1]
  /\ Counted("evicted")
  /\ UNCHANGED <<lock, entries, bytes, clock, closing, ops>>

SweepDropBytes ==
  /\ Goto(Sweeper, "dropBytes",
          IF loc[Sweeper].op = "expire" THEN "sweepScan" ELSE "sweepEvict")
  /\ bytes' = bytes - loc[Sweeper].cut
  /\ loc' = [loc EXCEPT ![Sweeper].cut = 0, ![Sweeper].op = "none"]
  /\ UNCHANGED <<m, lock, entries, stats, clock, sw, closing, ops>>

MoveOn(next) ==
  /\ sw.need <= 0
  /\ Goto(Sweeper, "sweepEvict", IF sw.left > 1 THEN "sweepNow" ELSE "select")
  /\ Release(Sweeper)
  /\ Return(Sweeper)
  /\ sw' = [sw EXCEPT !.next = next, !.left = @ - 1, !.need = 0]
  /\ UNCHANGED <<m, entries, bytes, stats, clock, closing, ops>>
Slip_NoWrap == MoveOn(sw.next + 1)
Slip_NextRestarts == MoveOn(IF sw.left > 1 THEN (sw.next + 1) % NumShards ELSE 0)
SweepNext == MoveOn((sw.next + 1) % NumShards)

SweepWork ==
  \/ SweepTick \/ SweepCapEntries \/ SweepCapBytes \/ SweepNow \/ SweepLock
  \/ SweepExpired \/ SweepScanned \/ QuotaOver \/ QuotaCount \/ QuotaBytes
  \/ QuotaMean \/ SweepEvict \/ DropEntry(Sweeper) \/ SweepDropBytes \/ SweepNext

-----------------------------------------------------------------------------
Elapse ==
  /\ clock < MaxTime
  /\ clock' = clock + 1
  /\ UNCHANGED <<m, lock, entries, bytes, stats, pc, loc, sw, closing, ops>>

WorkerStep(w) == Put(w) \/ Get(w) \/ Delete(w) \/ DropEntry(w) \/ DropBytes(w) \/ Close(w)

Next == (\E w \in Workers : WorkerStep(w)) \/ SweepWork \/ SweepStop \/ Elapse

Spec == Init /\ [][Next]_vars

(* Goroutines with work to do run; sync.RWMutex passes a contended lock on   *)
(* (a Go mutex is starvation-free); the ticker keeps firing and select       *)
(* chooses at random, so a closed stop channel is taken in the end.          *)
WorkerBusy(w) == pc[w] # "idle" /\ WorkerStep(w)
Fairness ==
  /\ \A w \in Workers : SF_vars(WorkerBusy(w))
  /\ SF_vars(SweepWork) /\ SF_vars(SweepStop)

-----------------------------------------------------------------------------
(* Types *)

PutHolds == {"putCapEntries", "putCapBytes", "putEvict", "putDropEntry",
             "putDropBytes", "putAdd", "putGrow", "putStore"}
DropHolds == {"dropEntry", "dropBytes"}
SweepHolds == {"sweepScan", "quotaOver", "quotaCount", "quotaBytes", "quotaMean", "sweepEvict"}
Holds == PutHolds \cup DropHolds \cup SweepHolds
WorkerLabels == PutHolds \cup DropHolds \cup
  {"idle", "putLock", "getRead", "getCheck", "getDrop", "delLock", "closeOnce", "closeWait"}
SweeperLabels == SweepHolds \cup DropHolds \cup
  {"off", "select", "capEntries", "capBytes", "sweepNow", "sweepLock"}

LocalsType == [op : {"none", "put", "get", "delete", "expire", "evict"}, id : Ids,
               rec : Record \cup {Absent}, now : Nat, burst : Nat, cut : Nat]

SweepType == [next : Shards, left : Int, need : Int, count : Int, over : Int]

\* Every variable has its type, the sweeper's shard index stays in range, each
\* goroutine runs its own steps, a Put or Get has its record in hand, and the
\* mean record size is never taken over zero entries.
TypeOK ==
  /\ m \in [Ids -> Record \cup {Absent}]
  /\ lock \in [Shards -> Actors \cup {NoOne}]
  /\ entries \in Int /\ bytes \in Int
  /\ stats \in [puts : Nat, hits : Nat, misses : Nat,
                expired : Nat, evicted : Nat, skipped : Nat]
  /\ clock \in Nat
  /\ pc \in [Actors -> WorkerLabels \cup SweeperLabels]
  /\ \A w \in Workers : pc[w] \in WorkerLabels
  /\ pc[Sweeper] \in SweeperLabels
  /\ loc \in [Actors -> LocalsType]
  /\ \A w \in Workers :
       pc[w] \in PutHolds \cup {"putLock", "getCheck"} => loc[w].rec \in Record
  /\ sw \in SweepType /\ (pc[Sweeper] = "quotaMean" => sw.count > 0)
  /\ closing \in [stop : BOOLEAN, done : BOOLEAN, once : {"fresh", "running", "finished"}]
  /\ ops \in Nat
=============================================================================
