----------------------------- MODULE MCMemStore ------------------------------
(* Values for the constants of the store, for TLC: two workers with any    *)
(* calls, and the sweeper, over two shards at their caps.                    *)
EXTENDS MemStoreHistory, MemStoreBytes, TLC

CONSTANTS none, a, b, c, w1, w2, small, large

MCEntry == {small, large}
MCOriginalLen == [e \in Entry |-> IF e = small THEN 1 ELSE 4]
MCMaskedLen == MCOriginalLen

\* Two shards; a and b share one.
MCIds == {none, a, b, c}
MCShardOf == [i \in Ids |-> IF i = c THEN NumShards - 1 ELSE 0]

\* Workers are interchangeable, and so are the ids of the first shard.
StoreSymmetry == Permutations(Workers) \cup Permutations({a, b})
=============================================================================
