SPECIFICATION MCSpec
CONSTANTS
  NrPages = 5
  Space = 4
  MAX_VM_REGION_SIZE = 2
  MAX_VMAS = 3
INVARIANTS DumpedOnce RegionFits OnlyResident AllDumped
CHECK_DEADLOCK FALSE
