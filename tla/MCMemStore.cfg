CONSTANTS
  none = none
  a = a
  b = b
  c = c
  w1 = w1
  w2 = w2
  small = small
  large = large
  EmptyId = none
  Sweeper = sweeper
  NoOne = noone
  Absent = absent
  OriginalLen <- MCOriginalLen
  MaskedLen <- MCMaskedLen
  ShardOf <- MCShardOf
  EvictSample = 8
  Ids <- MCIds
  Entry <- MCEntry
  NumShards = 2
  Workers = {w1, w2}
  TTL = 1
  SweepInterval = 1
  MaxEntries = 2
  MaxValueBytes = 4
  MaxBytes = 6
  EvictBurst = 2
  Calls = {"put", "get", "delete"}
  MaxOps = 3
  MaxTime = 1
SPECIFICATION HSpec
SYMMETRY StoreSymmetry
INVARIANTS TypeOK BytesAccounted OvershootPerShard EntriesAccounted SweepCycleRestoresEntries
PROPERTIES LossExplained KeepsPromise
CHECK_DEADLOCK FALSE
