CONSTANTS
  none = none
  c = c
  w1 = w1
  w2 = w2
  small = small
  large = large
  EmptyId = none
  Sweeper = sweeper
  NoOne = noone
  Absent = absent
  OriginalLen <- MCOriginalLen
  MaskedLen <- MCMaskedLen
  ShardOf <- MCShardOf
  EvictSample = 8
  Ids <- MCIds
  Entry <- MCEntry
  NumShards = 2
  Workers = {w1, w2}
  TTL = 2
  SweepInterval = 1
  MaxEntries = 2
  MaxValueBytes = 4
  MaxBytes = 6
  EvictBurst = 1
  Calls = {"put", "close"}
  MaxOps = 2
  MaxTime = 2
SPECIFICATION FairHSpec
PROPERTIES DeadReclaimed CallsReturn
CHECK_DEADLOCK FALSE
