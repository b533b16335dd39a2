SPECIFICATION FairSpec
CONSTANTS
  NrVmas = 5
  ReadOnly = {2, 3, 5}
  Clean = {3}
  SockBuf = 3
  Faults = {"connect", "write", "read", "seize", "trap", "kill", "stop", "slow", "abort"}
INVARIANTS DroppedIsSaved MemoryIntact MappingsUnchanged
PROPERTY SessionEndsInTime
CHECK_DEADLOCK FALSE
