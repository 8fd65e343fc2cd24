SPECIFICATION Spec
CONSTANTS
  Conns = {c1}
  Workers = {w1, w2}
  Main = main
  Sender = sender
  Timer = timer
  Null = null
  MsgLen = 2
  QueueCap = 5
  SendCap = 5
  MaxMsgs = 3
  MaxSeq = 4
  MaxUnread = 0
  PartialSend = TRUE
  PeerCloses = FALSE
  Floods = FALSE
  TimerKicks = FALSE
SYMMETRY Symmetry
INVARIANTS NoneStranded
CHECK_DEADLOCK FALSE
