CONSTANTS
  CHECKPOINTED_PIDS_LIMIT = 2
  MAX_CLIENT_CONNECTIONS = 2
  Pids = {p}
  Workers = {w1, w2}
  Clients = {c1, c2, c3}
  PID_INVALID = PID_INVALID
  SOCKET_INVALID = SOCKET_INVALID
  None = None
  MaxOpen = 3
  parasite_socket_dir = FALSE
  Events = {"stop", "slow", "bad"}
SPECIFICATION FairSpec
CHECK_DEADLOCK FALSE
INVARIANT NobodyKilled
INVARIANT WaitingIsReachable
PROPERTY AnsweredOnce
PROPERTY ShutdownCompletes
