SPECIFICATION Spec
CONSTANTS
  Parts = 1
  PartLength = 4
  Keyframes <- MCManyKeyframes
  Sources <- MCSources
  Settings <- MCSettings
  Second = 3
  LazyMax = 2
  LazyRecover = 1
  MaxSeeks = 1
  MaxLoads = 1
  MaxEvents = 2
  MaxMessages = 2
INVARIANT SeekpointComes
CHECK_DEADLOCK FALSE
