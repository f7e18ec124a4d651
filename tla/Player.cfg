SPECIFICATION Spec
CONSTANTS
  Parts = 3
  PartLength = 1
  Keyframes <- MCKeyframes
  Sources <- MCSources
  Settings <- MCSettings
  Second = 3
  LazyMax = 2
  LazyRecover = 1
  MaxSeeks = 2
  MaxLoads = 1
  MaxEvents = 2
  MaxMessages = 2
VIEW PlayerView
INVARIANTS TypeOK FlagMatches WillResume Playable
CHECK_DEADLOCK FALSE
