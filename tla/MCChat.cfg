CONSTANTS
  w1 = w1
  w2 = w2
  Workers = {w1, w2}
  Scenarios <- MCScenarios
  TypeOf <- MCTypeOf
  Priority <- MCPriority
  MaskOf <- MCMaskOf
  Customs = {"badge"}
  NoKey = nokey
  NoRule = norule
  Nobody = nobody
  Unreadable = unreadable
  LabelWords = {}
  OccupancyMin = 48
  MaxLabelGap = 8
  ChunkOverlap = 256
  DefaultFloor = 5
  Minute = 3
SPECIFICATION Spec
SYMMETRY Symmetry
INVARIANTS ModelSeesNoKnownValue QuotesRestored RateBounded RetryAfterHonest
CHECK_DEADLOCK FALSE
