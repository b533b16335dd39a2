SPECIFICATION FairSpec
CONSTANTS
  NrVmas = 3
  ReadOnly = {2}
  SockBuf = 2
  Clean = {}
  Faults = {"slow"}
PROPERTIES SessionEnds
CHECK_DEADLOCK FALSE
