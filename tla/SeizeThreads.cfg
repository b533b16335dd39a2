SPECIFICATION SeizeSpec
CONSTANTS
  NrStart = 4
  MaxTid = 8
INVARIANTS AllSeized ParasiteFound AllReleased
CHECK_DEADLOCK FALSE
