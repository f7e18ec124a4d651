SPECIFICATION Spec
CONSTANTS
  AudioRef = 232
  VideoRef = 400
  Sources <- MCSources
  MaxSeeks = 2
  MaxResumes = 1
INVARIANTS KeptBack TrueTime InfoTrue
PROPERTIES Conserved Gapless Decodable
CHECK_DEADLOCK FALSE
