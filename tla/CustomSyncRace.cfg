CONSTANTS
  Workers = {w1, w2}
  MaxChanges = 2
SPECIFICATION Spec
INVARIANT ApplyTakesEffect
CHECK_DEADLOCK FALSE
