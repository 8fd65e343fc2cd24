SPECIFICATION Spec
CONSTANTS
  Conns = {c1, c2}
  Workers = {w1, w2}
  Main = main
  Sender = sender
  Timer = timer
  Null = null
  MsgLen = 2
  QueueCap = 1
  SendCap = 0
  MaxMsgs = 3
  MaxSeq = 4
  MaxUnread = 0
  PartialSend = TRUE
  PeerCloses = FALSE
  Floods = FALSE
  TimerKicks = FALSE
SYMMETRY Symmetry
INVARIANTS EachPacketOnce OneWriter LimitsHold
CHECK_DEADLOCK FALSE
