----------------------------- MODULE TimerQueue -----------------------------
(***************************************************************************)
(* The timer queue of a worker: AddToTimerQueue when a client is accepted, *)
(* DeleteFromTimerQueue when any thread closes it, and the timer thread,   *)
(* which collects the entries that are due under the mutex and examines    *)
(* their connections after it (procPingTimeOutChecking).  If               *)
(* m_ifTimeOutKick is set, a client is thrown out when its time is over;   *)
(* if not, its entry comes back every WaitTime until its last ping is too  *)
(* long ago.                                                               *)
(*                                                                         *)
(* A tick is a second.  The timer thread looks at the queue in every tick  *)
(* (it sleeps half a second) unless it is busy, for at most MaxLag ticks.  *)
(* When the recycle thread releases an object is ConnPool's: here at any   *)
(* time, once no thread is in zdClosesocketProc on it.                     *)
(***************************************************************************)
EXTENDS Integers, FiniteSets, FiniteSetsExt

CONSTANTS
  Conns,         \* connection objects
  Main,          \* the epoll thread
  Closers,       \* pool and send threads, which close connections
  Timer,         \* the timer thread
  Null,
  WaitTime,      \* m_iWaitTime
  Grace,         \* the 10 of m_iWaitTime * 3 + 10
  MaxLag,        \* bound: ticks one pass of the timer thread takes
  MaxClients,    \* bound: clients that connect
  MaxTime        \* bound: ticks

Threads == Closers \cup {Main, Timer}
Times == 0..MaxTime
Entry == [at : 0..MaxTime + WaitTime, conn : Conns, seq : Nat]

ASSUME TimerAssumption ==
  /\ {WaitTime, Grace} \subseteq Nat \ {0}
  /\ {MaxLag, MaxClients, MaxTime} \subseteq Nat
  /\ Main # Timer /\ {Main, Timer} \cap Closers = {}
  /\ Null \notin Conns /\ Null \notin Entry

VARIABLES
  m_ifTimeOutKick,   \* configured: = 1, set once before the threads start
  now,
  m_timerQueuemap, m_cur_size_, m_timer_value_,
  headers,                       \* message headers allocated for entries
  place, fdOpen,                 \* of every object
  iCurrsequence, lastPingTime, since,
  pc, on,                        \* each thread and the connection it closes
  cur_time, m_lsIdleList, tmpmsg, \* locals of the timer thread
  looked,                        \* whether it has looked in this tick
  clients                        \* clients that have connected

queueVars == <<m_timerQueuemap, m_cur_size_, m_timer_value_, headers>>
connVars == <<place, fdOpen, iCurrsequence, lastPingTime, since>>
timerVars == <<cur_time, m_lsIdleList, tmpmsg, looked>>
vars == <<m_ifTimeOutKick, now, queueVars, connVars, pc, on, timerVars, clients>>

\* Type invariant.
TypeOK ==
  /\ m_ifTimeOutKick \in BOOLEAN
  /\ now \in Times
  /\ m_timerQueuemap \subseteq Entry
  /\ m_cur_size_ \in Nat /\ headers \in Nat
  /\ m_timer_value_ \in 0..MaxTime + WaitTime
  /\ place \in [Conns -> {"free", "used", "recy"}]
  /\ fdOpen \in [Conns -> BOOLEAN]
  /\ iCurrsequence \in [Conns -> Nat]
  /\ lastPingTime \in [Conns -> Times] /\ since \in [Conns -> Times]
  /\ pc \in [Threads -> {"idle", "collect", "next", "check", "delete", "close", "recycle"}]
  /\ on \in [Threads -> Conns \cup {Null}]
  /\ cur_time \in Times
  /\ m_lsIdleList \subseteq Entry /\ tmpmsg \in Entry \cup {Null}
  /\ looked \in BOOLEAN /\ clients \in 0..MaxClients

Init ==
  /\ m_ifTimeOutKick \in BOOLEAN
  /\ now = 0
  /\ m_timerQueuemap = {} /\ m_cur_size_ = 0 /\ m_timer_value_ = 0 /\ headers = 0
  /\ place = [c \in Conns |-> "free"] /\ fdOpen = [c \in Conns |-> FALSE]
  /\ iCurrsequence = [c \in Conns |-> 1]
  /\ lastPingTime = [c \in Conns |-> 0] /\ since = [c \in Conns |-> 0]
  /\ pc = [t \in Threads |-> "idle"] /\ on = [t \in Threads |-> Null]
  /\ cur_time = 0 /\ m_lsIdleList = {} /\ tmpmsg = Null
  /\ looked = FALSE /\ clients = 0

Goto(t, label) == pc' = [pc EXCEPT ![t] = label]

GetEarliestTime(map) == Min({e.at : e \in map})

\* mutant: the cached time is not brought up to date
NotRefreshed(map) == UNCHANGED m_timer_value_

Refresh(map) ==
  m_timer_value_' = IF map = {} THEN m_timer_value_ ELSE GetEarliestTime(map)

----------------------------------------------------------------------------
\* Clients.

\* The end of ngx_event_accept: the object is in use and in the queue before the
\* epoll thread can take another event.
AddToTimerQueue(c) ==
  /\ pc[Main] = "idle" /\ place[c] = "free" /\ clients < MaxClients
  /\ clients' = clients + 1
  /\ place' = [place EXCEPT ![c] = "used"]
  /\ fdOpen' = [fdOpen EXCEPT ![c] = TRUE]
  /\ iCurrsequence' = [iCurrsequence EXCEPT ![c] = @ + 1]
  /\ lastPingTime' = [lastPingTime EXCEPT ![c] = now]
  /\ since' = [since EXCEPT ![c] = now]
  /\ m_timerQueuemap' = m_timerQueuemap \cup
       {[at |-> now + WaitTime, conn |-> c, seq |-> iCurrsequence'[c]]}
  /\ m_cur_size_' = m_cur_size_ + 1 /\ headers' = headers + 1
  /\ Refresh(m_timerQueuemap')
  /\ UNCHANGED <<now, pc, on, timerVars>>

\* _HandlePing in a pool thread.
HandlePing(c) ==
  /\ fdOpen[c] /\ lastPingTime[c] # now
  /\ lastPingTime' = [lastPingTime EXCEPT ![c] = now]
  /\ UNCHANGED <<now, queueVars, place, fdOpen, iCurrsequence, since, pc, on, timerVars,
                 clients>>

\* The recycle thread gives the object back.
PutOneToFree(c) ==
  /\ place[c] = "recy" /\ \A t \in Threads : on[t] # c
  /\ place' = [place EXCEPT ![c] = "free"]
  /\ iCurrsequence' = [iCurrsequence EXCEPT ![c] = @ + 1]
  /\ UNCHANGED <<now, queueVars, fdOpen, lastPingTime, since, pc, on, timerVars, clients>>

----------------------------------------------------------------------------
\* zdClosesocketProc in thread t.

BeginClose(t, c) ==
  /\ t # Timer /\ pc[t] = "idle" /\ fdOpen[c]
  /\ on' = [on EXCEPT ![t] = c]
  /\ Goto(t, "delete")
  /\ UNCHANGED <<now, queueVars, connVars, timerVars, clients>>

\* mutant: the close leaves the entry in the queue
NotDeleted(t) ==
  /\ pc[t] = "delete"
  /\ Goto(t, "close")
  /\ UNCHANGED <<now, queueVars, connVars, on, timerVars, clients>>

DeleteFromTimerQueue(t) ==
  /\ pc[t] = "delete"
  /\ LET gone == {e \in m_timerQueuemap : e.conn = on[t]}
     IN /\ m_timerQueuemap' = m_timerQueuemap \ gone
        /\ m_cur_size_' = m_cur_size_ - Cardinality(gone)
        /\ headers' = headers - Cardinality(gone)
  /\ Refresh(m_timerQueuemap')
  /\ Goto(t, "close")
  /\ UNCHANGED <<now, connVars, on, timerVars, clients>>

\* The test of fd, close and fd = -1, in one step: what becomes of the number, which
\* two closers may race for, is Worker's subject (CloseFd and FdOwned there).
CloseFd(t) ==
  /\ pc[t] = "close"
  /\ fdOpen' = [fdOpen EXCEPT ![on[t]] = FALSE]
  /\ Goto(t, "recycle")
  /\ UNCHANGED <<now, queueVars, place, iCurrsequence, lastPingTime, since, on, timerVars,
                 clients>>

\* inRecyConnectQueue; the timer thread then frees its entry and goes on.
InRecyConnectQueue(t) ==
  /\ pc[t] = "recycle"
  /\ place' = [place EXCEPT ![on[t]] = "recy"]
  /\ iCurrsequence' = [iCurrsequence EXCEPT ![on[t]] =
                         IF place[on[t]] = "recy" THEN @ ELSE @ + 1]
  /\ on' = [on EXCEPT ![t] = Null]
  /\ IF t = Timer THEN /\ Goto(t, "next")
                       /\ tmpmsg' = Null /\ headers' = headers - 1
                  ELSE Goto(t, "idle") /\ UNCHANGED <<tmpmsg, headers>>
  /\ UNCHANGED <<now, m_timerQueuemap, m_cur_size_, m_timer_value_, fdOpen, lastPingTime,
                 since, cur_time, m_lsIdleList, looked, clients>>

----------------------------------------------------------------------------
\* ServerTimerQueueMonitorThread.

\* The unlocked look at the size and at the earliest time.
Look ==
  /\ pc[Timer] = "idle"
  /\ looked' = TRUE
  /\ IF m_cur_size_ > 0 /\ m_timer_value_ < now
     THEN Goto(Timer, "collect") /\ cur_time' = now
     ELSE UNCHANGED <<pc, cur_time>>
  /\ UNCHANGED <<now, queueVars, connVars, on, m_lsIdleList, tmpmsg, clients>>

\* mutant: an entry is never inserted again
NeverAgain(due) == {}

\* Without m_ifTimeOutKick an expired entry is allocated and inserted again.
Again(due) ==
  IF m_ifTimeOutKick THEN {} ELSE {[e EXCEPT !.at = cur_time + WaitTime] : e \in due}

SizeAfter(due) ==
  IF m_ifTimeOutKick THEN m_cur_size_ - Cardinality(due) ELSE m_cur_size_

\* GetOverTimeTimer until it finds no more, all under the mutex.
GetOverTimeTimers ==
  /\ pc[Timer] = "collect"
  /\ LET due == {e \in m_timerQueuemap : e.at =< cur_time}
     IN /\ m_timerQueuemap' = (m_timerQueuemap \ due) \cup Again(due)
        /\ m_cur_size_' = SizeAfter(due)
        /\ headers' = headers + Cardinality(Again(due))
        /\ m_lsIdleList' = due
        /\ IF due = {} THEN UNCHANGED m_timer_value_ ELSE Refresh(m_timerQueuemap')
  /\ Goto(Timer, "next")
  /\ UNCHANGED <<now, connVars, on, cur_time, tmpmsg, looked, clients>>

\* The next of the collected entries; the order among them is left open.
NextIdle ==
  /\ pc[Timer] = "next"
  /\ \/ /\ m_lsIdleList = {}
        /\ Goto(Timer, "idle")
        /\ UNCHANGED <<m_lsIdleList, tmpmsg>>
     \/ \E e \in m_lsIdleList :
          /\ m_lsIdleList' = m_lsIdleList \ {e}
          /\ tmpmsg' = e
          /\ Goto(Timer, "check")
  /\ UNCHANGED <<now, queueVars, connVars, on, cur_time, looked, clients>>

KickAfter == 3 * WaitTime + Grace

\* mutant: the sequence numbers are not compared
AnyClient(e) == TRUE

SameClient(e) == e.seq = iCurrsequence[e.conn]

MustGo(e) == m_ifTimeOutKick \/ cur_time - lastPingTime[e.conn] > KickAfter

ProcPingTimeOutChecking ==
  /\ pc[Timer] = "check"
  /\ IF SameClient(tmpmsg) /\ MustGo(tmpmsg)
     THEN /\ on' = [on EXCEPT ![Timer] = tmpmsg.conn]
          /\ Goto(Timer, "delete")
          /\ UNCHANGED <<headers, tmpmsg>>
     ELSE /\ Goto(Timer, "next")
          /\ headers' = headers - 1 /\ tmpmsg' = Null
          /\ UNCHANGED on
  /\ UNCHANGED <<now, m_timerQueuemap, m_cur_size_, m_timer_value_, connVars, cur_time,
                 m_lsIdleList, looked, clients>>

----------------------------------------------------------------------------
Tick ==
  /\ now < MaxTime
  /\ IF pc[Timer] = "idle" THEN looked ELSE now - cur_time < MaxLag
  /\ now' = now + 1
  /\ looked' = FALSE
  /\ UNCHANGED <<queueVars, connVars, pc, on, cur_time, m_lsIdleList, tmpmsg, clients>>

ZdClosesocketProc(t) == DeleteFromTimerQueue(t) \/ CloseFd(t) \/ InRecyConnectQueue(t)

TimerThread == Look \/ GetOverTimeTimers \/ NextIdle \/ ProcPingTimeOutChecking

Step ==
  \/ \E c \in Conns : AddToTimerQueue(c) \/ HandlePing(c) \/ PutOneToFree(c)
  \/ \E t \in Threads : ZdClosesocketProc(t)
  \/ \E t \in Threads, c \in Conns : BeginClose(t, c)
  \/ TimerThread
  \/ Tick

Next == Step /\ UNCHANGED m_ifTimeOutKick

Spec == Init /\ [][Next]_vars

----------------------------------------------------------------------------
\* The size and the earliest time, which the timer thread reads without the mutex,
\* are those of the queue, and every header allocated for an entry is in the queue,
\* in the timer thread's list or in its hands (AddToTimerQueue,
\* DeleteFromTimerQueue, GetOverTimeTimer, procPingTimeOutChecking).
QueueExact ==
  /\ m_cur_size_ = Cardinality(m_timerQueuemap)
  /\ m_timerQueuemap # {} => m_timer_value_ = GetEarliestTime(m_timerQueuemap)
  /\ headers = m_cur_size_ + Cardinality(m_lsIdleList) + (IF tmpmsg = Null THEN 0 ELSE 1)

\* A connection that is open and that nobody has begun to close has exactly one entry
\* under its own number, which only the timer thread of a server that throws clients
\* out on time may have taken; a connection given up has none in the queue, so the
\* copy an examination puts back is never left behind by a close at the same time.
EntryPerConnection ==
  \A c \in Conns :
    LET mine == {e \in m_timerQueuemap : e.conn = c}
        taken == {e \in m_lsIdleList \cup {tmpmsg} : e # Null /\ e.conn = c}
        watched == {e \in (IF m_ifTimeOutKick THEN mine \cup taken ELSE mine) :
                      e.seq = iCurrsequence[c]}
    IN IF place[c] = "used"
       THEN (\A t \in Threads : on[t] # c) => Cardinality(watched) = 1
       ELSE mine = {}

\* The object the timer thread closes is still that of the client its entry was made
\* for, or has been closed meanwhile by another thread: it is never the object of the
\* next client, though procPingTimeOutChecking tests the sequence number without a
\* mutex and acts on it later.  The recycling delay sees to that.  Of the socket, which
\* ngx_c_slogic.cxx:163 warns may be another client's by then, it says nothing: the
\* number is closed and reused without any delay (Worker).
RightClient ==
  on[Timer] # Null =>
    iCurrsequence[on[Timer]] - tmpmsg.seq \in {0, 1}

\* How long after its time an entry may lie in the queue: a tick because of Look's <,
\* or the rest of a pass that began just before; and then its own pass takes MaxLag.
Overdue == IF MaxLag > 2 THEN MaxLag - 1 ELSE 1
Delay == Overdue + MaxLag

\* A client that has stopped to ping is being closed at the latest one period of the
\* queue and that delay after KickAfter; with Sock_TimeOutKick = 1 any client is,
\* however much it pings, as long after WaitTime.
SilentClosed ==
  \A c \in Conns :
    LET late == IF m_ifTimeOutKick
                THEN now - since[c] > WaitTime + Delay
                ELSE now - lastPingTime[c] > KickAfter + WaitTime + Delay
    IN fdOpen[c] /\ late => \E t \in Threads : on[t] = c
=============================================================================
