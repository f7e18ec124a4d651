SPECIFICATION Spec
CONSTANTS
  Total = 5
  TagEnds = {1, 4, 5}
  MaxChunk = 3
  Openings <- MCOpenings
  BufferInitialSize = 3
  Slack = 1
  SpeedList <- MCSpeedList
  LowSpeed = 2
  HighSpeed = 3
  MaxStash = 5
  Speeds = {0, 3}
  MaxRequests = 3
INVARIANTS TypeOK Labelled NoGap CompleteIsAll
PROPERTY Verdict
CHECK_DEADLOCK FALSE
