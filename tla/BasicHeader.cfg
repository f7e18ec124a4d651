SPECIFICATION HeaderSpec
CONSTANTS
  FirstBytes = {0, 1, 2, 4, 63, 64, 65, 66, 127, 128, 129, 192, 193, 194, 255}
  SecondBytes = {0, 1, 127, 128, 254, 255}
  ThirdBytes = {0, 1, 2, 127, 128, 255}
INVARIANT ChannelKept
CHECK_DEADLOCK FALSE
