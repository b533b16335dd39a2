SPECIFICATION BlobFairSpec
CONSTANTS
  Handled = {"h1", "h2"}
  Ignored = {"i1"}
  Fatal = {"f1"}
  Stop = {"SIGSTOP"}
  Blocked = {"h2"}
  MaxSent = 4
  Fails = {"signals_block", "mmap", "clone", "munmap", "signals_unblock"}
INVARIANTS ContextRestored MaskRestored SideEffectsOnce
PROPERTIES BlobsEnd
CHECK_DEADLOCK FALSE
