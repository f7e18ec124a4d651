SPECIFICATION Spec
CONSTANTS
  Feed <- MCFeed
  Configs <- MCConfigs
  Duration = 3
  MaxBackward = 2
  MinBackward = 1
  Padding = 1
  MaxSeeks = 1
  MaxEnds = 2
INVARIANTS NothingLost SeekClears CleanupBehind NoStall
CHECK_DEADLOCK FALSE
