SPECIFICATION FairSpec
CONSTANTS
  Threads = {t1, t2, t3}
  Main = main
  Null = null
  MaxMsgs = 3
  Stops = TRUE
INVARIANTS NoLostWakeup NoLeak OneLeftAsleep
PROPERTIES QueueSpec AllHandled
CHECK_DEADLOCK FALSE
