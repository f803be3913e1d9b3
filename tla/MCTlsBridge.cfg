SPECIFICATION Spec
CONSTANTS
  MAX_CONCURRENT_TLS_SOCKETS = 2
  MaxConns = 3
  SockCap = 1
  Loads <- AllLoads
INVARIANTS FdsAccounted RoutedInOrder NothingLost
PROPERTIES VerdictKept PumpReturns DeadReleased DataArrives
