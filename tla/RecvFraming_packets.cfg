SPECIFICATION Spec
CONSTANTS
  Units = {0, 2, 4, 6}
  LenPkgHeader = 2
  MaxPkgLen = 4
  FloodTimeInterval = 2
  FloodKickCount = 2
  Times = {3, 4, 5}
  ClockRange = 16
  Null = Null
  MaxReceived = 8
  MaxClients = 2
INVARIANTS Framed WithinBuffer BlocksAccounted KickedExactly
CHECK_DEADLOCK FALSE
