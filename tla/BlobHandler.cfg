SPECIFICATION BlobSpec
CONSTANTS
  Handled = {"h1"}
  Ignored = {}
  Fatal = {}
  Stop = {}
  Blocked = {}
  MaxSent = 1
  Fails = {}
INVARIANTS HandlersRun
CHECK_DEADLOCK FALSE
