CONSTANTS
  CHECKPOINTED_PIDS_LIMIT = 2
  MAX_CLIENT_CONNECTIONS = 1
  MaxCheckpoints = 2
  MaxRestores = 1
  Pids = {p, q}
  Workers = {w1, w2}
  PID_INVALID = PID_INVALID
  SOCKET_INVALID = SOCKET_INVALID
  None = None
SYMMETRY Sym
SPECIFICATION Spec
CHECK_DEADLOCK FALSE
INVARIANTS RowsAgreeAtRest KillsWhatItTested
PROPERTIES TableIsAtomic ClearsOwnRow
