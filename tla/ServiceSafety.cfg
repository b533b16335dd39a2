CONSTANTS
  CHECKPOINTED_PIDS_LIMIT = 2
  MAX_CLIENT_CONNECTIONS = 2
  Pids = {p, q}
  Workers = {w1, w2, w3}
  Clients = {c1, c2, c3}
  PID_INVALID = PID_INVALID
  SOCKET_INVALID = SOCKET_INVALID
  None = None
  MaxOpen = 3
  parasite_socket_dir = TRUE
  Events = {"kill", "sigstop", "fail", "crash", "timeout", "fork", "bad", "stop"}
SPECIFICATION Spec
CHECK_DEADLOCK FALSE
SYMMETRY Sym
INVARIANT OneRowPerPid
INVARIANT RowsAgree
INVARIANT AbortReachesItsWorker
INVARIANT ImageKept
INVARIANT LostIsWaitedFor
INVARIANT FrozenIsKnown
INVARIANT NoFrozenLeft
PROPERTY OkIsTrue
PROPERTY TableIsAtomic
