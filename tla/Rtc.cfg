SPECIFICATION RtcLiveSpec
CONSTANTS
  Terminals = {1, 2}
  Openers = {1, 2}
  RTC1024 = 3
  FREQ_SCALE = 1
  Frequencies = {1, 2, 4}
  CountWidth = 2
INVARIANTS
  TypeOK
  ReadIsFresh
PROPERTY
  ReadReturns
