CONSTANTS
  Encoders = {c1, b1}
  Players = {b1}
  Viewers = {v1}
  Names = {n1}
  Streams = {s1, s2}
  MaxPublish = 1
  Types = {"live", "append"}
  NoConn = NoConn
  NoStream = NoStream
  NoName = NoName
SPECIFICATION FairSpec
INVARIANTS TypeOK NoGhostPublisher RecorderReleased OustedOnlyByRival
PROPERTIES PoisonedStays DeleteEndsAudience
CHECK_DEADLOCK FALSE
