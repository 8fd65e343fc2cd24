SPECIFICATION FairSpec
CONSTANTS
  Conns = {c1}
  Workers = {w1, w2}
  Main = main
  Sender = sender
  Timer = timer
  Null = null
  MsgLen = 2
  QueueCap = 5
  SendCap = 1
  MaxMsgs = 2
  MaxSeq = 4
  MaxUnread = 1
  PartialSend = FALSE
  PeerCloses = TRUE
  Floods = FALSE
  TimerKicks = FALSE
PROPERTIES QueueDrains FifoStreamSpec
CHECK_DEADLOCK FALSE
