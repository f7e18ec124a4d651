CONSTANTS
  Encoders = {c1, c2}
  Players = {}
  Viewers = {}
  Names = {n1}
  Streams = {s1, s2}
  MaxPublish = 1
  Types = {"live"}
  NoConn = NoConn
  NoStream = NoStream
  NoName = NoName
SPECIFICATION Spec
SYMMETRY Symmetry
INVARIANT OnePublisherPerStream
CHECK_DEADLOCK FALSE
