SPECIFICATION FairSpec
CONSTANTS
  WorkerConnections = 1
  Listeners = 1
  Main = main
  Closers = {}
  RecyWait = 2
  MaxStall = 0
  MaxDelay = 0
  MaxObjects = 7
  MaxClients = 7
  MaxRequests = 0
INVARIANTS PoolBounded
PROPERTIES AcceptsAgain
CHECK_DEADLOCK FALSE
