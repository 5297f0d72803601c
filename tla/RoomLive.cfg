\* Liveness: the same with one command, and goroutines that keep running.
CONSTANTS
  Browsers = {b1, b2}
  None = None
  Buffer = 2
  MaxConns = 2
  MaxCommands = 1
SPECIFICATION FairSpec
PROPERTIES EveryoneCatchesUp ClosedConnectionsEnd
CHECK_DEADLOCK FALSE
