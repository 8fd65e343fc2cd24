SPECIFICATION Spec
CONSTANTS
  WorkerConnections = 2
  Listeners = 1
  Main = main
  Closers = {k1, k2}
  RecyWait = 4
  MaxStall = 1
  MaxDelay = 1
  MaxObjects = 12
  MaxClients = 3
  MaxRequests = 1
SYMMETRY Symmetry
INVARIANTS EachObjectOnce OnlineExact CallKeepsObject SequenceTells
CHECK_DEADLOCK FALSE
