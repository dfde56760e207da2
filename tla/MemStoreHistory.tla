-------------------------- MODULE MemStoreHistory --------------------------
(***************************************************************************)
(* MemStore with a history variable that tells when a whole cycle of the   *)
(* sweeper has gone by undisturbed.                                        *)
(***************************************************************************)
EXTENDS MemStoreProperties

VARIABLES
  quiet     \* shard sweeps completed since a worker last moved, with the store
            \* still over its entry cap; -1 while the sweep in progress began
            \* before that, or there is nothing to bring back under the cap

hvars == <<vars, quiet>>

HInit == Init /\ quiet = -1

WorkersMove ==
  /\ \E w \in Workers : WorkerStep(w)
  /\ quiet' = -1

SweeperMoves ==
  /\ SweepWork \/ SweepStop
  /\ quiet' = IF entries' <= MaxEntries THEN -1
              ELSE CASE pc[Sweeper] = "sweepNow" /\ quiet < 0 -> 0
                     [] SweepNext /\ quiet \in 0 .. NumShards - 1 -> quiet + 1
                     [] OTHER -> quiet

HNext ==
  \/ WorkersMove
  \/ SweeperMoves
  \/ Elapse /\ UNCHANGED quiet

HSpec == HInit /\ [][HNext]_hvars
FairHSpec == HSpec /\ Fairness

-----------------------------------------------------------------------------
\* "One sweep cycle brings the store back under the cap", for the entry cap:
\* once every shard has been swept and no call was under way, the count is
\* back within MaxEntries (sweepShard, shardEvictQuota).
SweepCycleRestoresEntries == quiet = NumShards => entries <= MaxEntries
=============================================================================
