SPECIFICATION Spec
CONSTANTS
  Conns = {c1, c2}
  Main = Main
  Closers = {}
  Timer = Timer
  Null = Null
  WaitTime = 1
  Grace = 1
  MaxLag = 1
  MaxClients = 2
  MaxTime = 8
INVARIANTS QueueExact EntryPerConnection RightClient SilentClosed
CHECK_DEADLOCK FALSE
