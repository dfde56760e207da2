------------------------- MODULE MemStoreProperties -------------------------
(***************************************************************************)
(* What is true of the sharded table of MemStore, whatever the             *)
(* interleaving of requests and sweeper.                                   *)
(***************************************************************************)
EXTENDS MemStore

\* A goroutine past Lock and before Unlock, and only such a one, owns the
\* write lock of the shard it works on (sync.RWMutex around every map write).
LockOwned ==
  /\ \A a \in Actors : pc[a] \in Holds => lock[ShardOfActor(a)] = a
  /\ \A s \in Shards : lock[s] # NoOne =>
       pc[lock[s]] \in Holds /\ ShardOfActor(lock[s]) = s

\* The Put working in shard s may still add an entry that `entries' does not
\* count: it saw room for one, or made room for one.
Reserved(s) ==
  /\ lock[s] \in Workers
  /\ \/ pc[lock[s]] \in {"putCapBytes", "putDropBytes", "putAdd"}
     \/ /\ pc[lock[s]] \in {"putCapEntries", "putEvict", "putDropEntry"}
        /\ loc[lock[s]].burst > 0

\* The goroutine working in shard s has a record in hand that `entries'
\* counts and the map does not (or, for a replacement, holds already).
InHand(s) ==
  lock[s] # NoOne /\ pc[lock[s]] \in {"dropEntry", "putDropEntry", "putGrow", "putStore"}

\* Shard s holds a record, or has one in hand, and every entry it may end up
\* with beyond those is already counted.
SettledAt(s) == (Live(s) # {} \/ InHand(s)) /\ ~Reserved(s)
Settled == {s \in Shards : SettledAt(s)}

\* Whatever the interleaving of Puts on different shards, which all check the
\* entry cap without a common lock, the cap is overshot by at most one entry
\* for each shard that still has something to give (Put, overCap).
OvershootPerShard == entries <= MaxEntries - 1 + Cardinality(Settled)

\* A Put that is about to take its lock has reclaimed nothing yet.
FreshBurst == \A w \in Workers : pc[w] = "putLock" => loc[w].burst = 0

\* The inductive strengthening of the overshoot bound.
OvershootInv == TypeOK /\ LockOwned /\ FreshBurst /\ OvershootPerShard

\* "free space first so the table cannot grow past it": the entry cap is soft,
\* and this is how soft it is, with no help from the sweeper.
EntriesBounded == entries <= MaxEntries - 1 + NumShards

\* Len() is exact up to the operations in flight: `entries' counts the live
\* records, the ones removed but not yet given back, and the ones announced
\* but not yet inserted, whatever mix of Put, Get, Delete and sweep ran.
Removed(a) == pc[a] \in {"dropEntry", "putDropEntry"}
Announced(a) ==
  a \in Workers /\ pc[a] \in {"putGrow", "putStore"} /\ m[loc[a].id] = Absent
EntriesAccounted ==
  entries = Cardinality({i \in Ids : m[i] # Absent})
              + Cardinality({a \in Actors : Removed(a) \/ Announced(a)})

\* Whoever makes room works under the lock of the record's shard and takes none
\* of the younger records: EvictSample of the shard, or all if there are fewer,
\* would have lasted at least as long.
LegalVictim(i) ==
  LET lasting == {j \in Live(ShardOf[i]) : m[j].expires >= m[i].expires}
  IN  /\ lock[ShardOf[i]] # NoOne
      /\ lasting = Live(ShardOf[i]) \/ Cardinality(lasting) >= EvictSample

\* A mapping goes only for a reason, and the reason is counted in the same
\* step: its deadline has passed, although Get decides that on a copy read
\* before it takes the write lock and a Put may have renewed the record since
\* (dropExpired's second look); or somebody made room with it and it was the one
\* to go (evictSampled, sweepShard); or a Delete of that very id is under way.
LossExplained ==
  [][\A i \in Ids : m[i] # Absent /\ m'[i] = Absent =>
       \/ stats'.expired = stats.expired + 1 /\ m[i].expires <= clock
       \/ stats'.evicted = stats.evicted + 1 /\ LegalVictim(i)
       \/ \E w \in Workers : pc[w] = "delLock" /\ loc[w].id = i]_vars

\* The sweeper's rotation reaches every shard: an expired record does not
\* stay in memory for ever, even if its id is never asked for again, unless
\* the store is closed or the record replaced.
DeadReclaimed ==
  \A i \in Ids :
    (m[i] # Absent /\ m[i].expires <= clock) ~>
      (m[i] = Absent \/ m[i].expires > clock \/ closing.stop)

\* Close always returns, whoever calls it and however often, in the middle of
\* a sweep or not; so does every other call.
CallsReturn == \A w \in Workers : (pc[w] # "idle") ~> (pc[w] = "idle")

\* The store is an implementation of the mapping its interface promises: its
\* table without the sizes, and the record a Get has copied out of it.
Remembered == [i \in Ids |-> IF m[i] = Absent THEN Absent
                             ELSE [entry |-> m[i].entry, expires |-> m[i].expires]]
Found == [w \in Workers |-> IF pc[w] # "getCheck" THEN Absent
                            ELSE [entry |-> loc[w].rec.entry, expires |-> loc[w].rec.expires]]
Promise == INSTANCE Mapping WITH map <- Remembered, got <- Found, hits <- stats.hits
KeepsPromise == Promise!Spec
=============================================================================
