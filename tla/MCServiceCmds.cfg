CONSTANTS
  MAX_CLIENT_CONNECTIONS = 3
  Cmds = {c1, c2, c3}
  NoCmd = NoCmd
SPECIFICATION FairSpec
INVARIANT NoLostWakeup
PROPERTY RingIsQueue
PROPERTY QueuedIsHandled
PROPERTY InterruptStops
CHECK_DEADLOCK FALSE
