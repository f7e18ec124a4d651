SPECIFICATION TransmuxingSpec
CONSTANTS
  Parts = 3
  PartLength = 3
  Keyframes <- MCKeyframes
  Sources <- MCSources
INVARIANTS SeekPointTrue ReporterSafe
PROPERTIES InOrder SeekAnswered
CHECK_DEADLOCK FALSE
