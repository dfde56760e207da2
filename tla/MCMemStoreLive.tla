--------------------------- MODULE MCMemStoreLive ----------------------------
(* Values for the constants of the store, for TLC: one id in the second of   *)
(* two shards, Put and Close against the sweeper.                            *)
EXTENDS MemStoreHistory

CONSTANTS none, c, w1, w2, small, large

MCEntry == {small, large}
MCOriginalLen == [e \in Entry |-> IF e = small THEN 1 ELSE 4]
MCMaskedLen == MCOriginalLen
MCIds == {none, c}
MCShardOf == [i \in Ids |-> IF i = c THEN NumShards - 1 ELSE 0]
=============================================================================
