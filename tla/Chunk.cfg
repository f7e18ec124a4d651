SPECIFICATION Spec
CONSTANTS
  Channels = {ch4, ch5}
  MediaTypes = {audio, video}
  Times = {0, 1, 2, 5}
  Sizes = {0, 1, 3}
  StreamIds = {1, 2}
  FirstChunk = 2
  ChunkSizes = {1, 2}
  Half = 3
  MaxMessages = 3
  None = None
SYMMETRY Symmetry
INVARIANT RoundTrip
INVARIANT NothingLost
INVARIANT InStep
INVARIANT NeverEarly
CHECK_DEADLOCK FALSE
