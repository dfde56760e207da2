CONSTANTS
  Priority <- MCPriority
  LabelWords <- MCLabelWords
  MaskOf <- MCMaskOf
  Glyphs <- MCGlyphs
  Cases <- MCCases
  NoRule = norule
  OccupancyMin = 3
  MaxLabelGap = 3
  ChunkOverlap = 2
  ChunkLimit = 4
  DefaultFloor = 5
  MaxReloads = 1
SPECIFICATION Spec
INVARIANTS ContestDecided AlgorithmsAgree EntitiesWhole EverySpanMasked RestoreUndoesApply
CHECK_DEADLOCK FALSE
