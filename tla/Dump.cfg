SPECIFICATION Spec
CONSTANTS
  IO_SIZE = 4
  block_size = 2
  Plenty = 1000
  MAX_DATA_SIZE = 9
  page_size = 4
  NrRegions = 2
  CSizes = {4, 7}
  Rooms = {0, 2, 4, 6, 8, 10, 12, 14, 16, 18, 20, 22, 24, 26, 28, 1000}
  Damages = {"cut", "byte"}
INVARIANT RoundTrip
INVARIANT ChecksumNoticesDamage
INVARIANT CutAtRegion
INVARIANT RestoreBounded
CHECK_DEADLOCK FALSE
