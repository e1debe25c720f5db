SPECIFICATION RtcSpec
CONSTANTS
  Terminals = {1, 2}
  Openers = {1}
  RTC1024 = 8
  FREQ_SCALE = 3
  Frequencies = {1, 2, 4, 8, 9}
  CountWidth = 4
INVARIANT
  WaitBounded
