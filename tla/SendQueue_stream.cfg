SPECIFICATION Spec
CONSTANTS
  Conns = {c1}
  Workers = {w1, w2}
  Main = main
  Sender = sender
  Timer = timer
  Null = null
  MsgLen = 2
  QueueCap = 5
  SendCap = 0
  MaxMsgs = 2
  MaxSeq = 4
  MaxUnread = 0
  PartialSend = TRUE
  PeerCloses = TRUE
  Floods = TRUE
  TimerKicks = TRUE
SYMMETRY Symmetry
INVARIANTS SendCountExact
PROPERTIES StreamSpec
CHECK_DEADLOCK FALSE
