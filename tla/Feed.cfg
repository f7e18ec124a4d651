SPECIFICATION Spec
CONSTANTS
  Viewers = {v1}
  Publisher = p
  RtmpLoops = {r1}
  HttpLoops = {h1}
  Media = {video}
  MaxSessions = 2
  MaxMessages = 3
INVARIANT Informed
INVARIANT Decodable
INVARIANT TornByOverlap
CHECK_DEADLOCK FALSE
