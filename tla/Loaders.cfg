SPECIFICATION Spec
CONSTANTS
  Total = 5
  Starts = {0, 2}
  ChunkSizes = {1, 2}
INVARIANT CompleteIsAll
PROPERTIES Contract Verdict
CHECK_DEADLOCK FALSE
