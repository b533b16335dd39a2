CONSTANTS
  CHECKPOINTED_PIDS_LIMIT = 2
  MAX_CLIENT_CONNECTIONS = 2
  Pids = {p}
  Workers = {w1, w2}
  Clients = {c1, c2, c3}
  PID_INVALID = PID_INVALID
  SOCKET_INVALID = SOCKET_INVALID
  None = None
  MaxOpen = 1
  parasite_socket_dir = FALSE
  Events = {}
SPECIFICATION FairSpec
CHECK_DEADLOCK FALSE
PROPERTY CommandAnswered
