--------------------------- MODULE ThreadPoolProofs ---------------------------
(***************************************************************************)
(* Theorems of ThreadPool for any number of threads and messages, stopped  *)
(* at any moment or never, with spurious wakeups: its types, that StopAll  *)
(* waits for one thread asleep at most, that no message's memory is lost   *)
(* or freed twice, that no wakeup is lost, and that the pool implements    *)
(* WorkQueue.                                                              *)
(***************************************************************************)
EXTENDS ThreadPool, DataLemmas

\* Who is between lock and unlock owns the mutex; what a thread found in the queue
\* under the mutex is still there; and what the places of the threads say of their data.
Control ==
  /\ \A t \in Threads : pc[t] \in {"check", "enter", "test"} <=> mutex = t
  /\ pc[Main] = "push" <=> mutex = Main
  /\ \A t \in waiting : pc[t] = "wait"
  /\ \A t \in Threads : job[t] # Null <=> pc[t] \in {"count", "work", "free"}
  /\ \A t \in Threads : pc[t] = "enter" => m_MsgRecvQueue = <<>>
  /\ \A t \in Threads : pc[t] = "test" => m_MsgRecvQueue # <<>> \/ m_shutdown
  /\ pc[Main] \in {"lock", "push"} => next =< MaxMsgs
  /\ pc[Main] \in {"destroy", "clear", "gone"} => \A t \in Threads : pc[t] = "exit"

\* The count of busy threads is that of the threads between its two updates.
Busy == {t \in Threads : pc[t] \in {"work", "free", "end"}}
Counted == m_iRunningThreadNum = Cardinality(Busy)

\* A message has one place: every number below next is queued, with one thread, or done.
Unique ==
  /\ IsInjective(m_MsgRecvQueue)
  /\ \A m \in ToSet(m_MsgRecvQueue) : m < next /\ m \notin handled
  /\ \A t \in Threads : job[t] # Null =>
       job[t] < next /\ job[t] \notin ToSet(m_MsgRecvQueue)
  /\ \A t, u \in Threads : job[t] = job[u] /\ job[t] # Null => t = u
  /\ \A t \in Threads : pc[t] \in {"count", "work"} => job[t] \notin handled
  /\ \A m \in handled : m < next

Typed == TypeOK /\ Control /\ Counted

-----------------------------------------------------------------------------
(* Types, with the mutual exclusion they rest on.                          *)

LEMMA Constants ==
  /\ Main \in All /\ Threads \subseteq All /\ Main \notin Threads
  /\ Null \notin All /\ Null \notin Messages /\ MaxMsgs \in Nat
  BY ThreadPoolAssumption DEF All

LEMMA PoolInitTyped == Init => Typed
<1>1. SUFFICES ASSUME Init PROVE Typed
  OBVIOUS
<1>2. /\ IsFiniteSet(Threads) /\ Cardinality(Threads) \in Nat
      /\ Busy = {} /\ Cardinality({}) = 0
  BY <1>1, Constants, ThreadPoolAssumption, FS_CardinalityType, FS_EmptySet DEF Init, Busy
<1>3. TypeOK
  <2>1. pc \in [All -> PoolPCs \cup MainPCs]
    BY <1>1 DEF Init, PoolPCs, MainPCs
  <2>2. pc[Main] \in MainPCs /\ \A t \in Threads : pc[t] \in PoolPCs
    BY <1>1, Constants DEF Init, PoolPCs, MainPCs
  <2>3. m_iRunningThreadNum \in 0..Cardinality(Threads) /\ next \in 1..(MaxMsgs + 1)
    BY <1>1, <1>2, Constants DEF Init
  <2>4. job \in [Threads -> Messages \cup {Null}] /\ m_MsgRecvQueue \in Seq(Messages)
    BY <1>1 DEF Init
  <2>5. ifrunning \in [Threads -> BOOLEAN] /\ m_shutdown \in BOOLEAN
    BY <1>1, Zenon DEF Init
  <2>6. QED
    BY <1>1, <2>1, <2>2, <2>3, <2>4, <2>5 DEF Init, TypeOK
<1>4. QED
  BY <1>1, <1>2, <1>3, Constants DEF Init, Typed, Control, Counted

LEMMA PoolStepControl == TypeOK /\ Control /\ [Next]_vars => Control'
<1>1. SUFFICES ASSUME TypeOK, Control, [Next]_vars PROVE Control'
  OBVIOUS
<1> USE <1>1, Constants DEF TypeOK, Control, At, Goto
<1>2. ASSUME NEW t \in Threads, CreateThread(t) PROVE Control'
  BY <1>2 DEF CreateThread, syncVars, dataVars
<1>3. CASE Created
  BY <1>3 DEF Created, syncVars, dataVars
<1>4. CASE Receive
  BY <1>4 DEF Receive, syncVars, dataVars
<1>5. CASE LockForPush
  BY <1>5 DEF LockForPush, syncVars, dataVars
<1>6. CASE InMsgRecvQueue
  <2>1. next \in Messages
    BY <1>6 DEF InMsgRecvQueue, Messages
  <2>2. m_MsgRecvQueue' # <<>>
    BY <1>6, <2>1, EmptySeq, AppendProperties DEF InMsgRecvQueue
  <2>3. QED
    BY <1>6, <2>2 DEF InMsgRecvQueue
<1>7. CASE Call
  BY <1>7 DEF Call, CallSignal, Signal, dataVars
<1>8. CASE StopAll \/ Broadcast
  BY <1>8 DEF StopAll, Broadcast, WakeAll, dataVars
<1>9. CASE JoinAll \/ Destroy \/ Cleared
  BY <1>9 DEF JoinAll, AllEnded, Destroy, Cleared, syncVars, dataVars
<1>10. CASE ClearMsgRecvQueue
  BY <1>10 DEF ClearMsgRecvQueue, threadVars, syncVars
<1>11. ASSUME NEW t \in Threads, ThreadFunc(t) PROVE Control'
  <2>1. CASE Lock(t)
    BY <2>1 DEF Lock, dataVars
  <2>2. CASE Check(t)
    BY <2>2 DEF Check, syncVars, dataVars
  <2>3. CASE CondWait(t)
    BY <2>3 DEF CondWait, dataVars
  <2>4. CASE Rewoken(t)
    BY <2>4 DEF Rewoken, dataVars
  <2>5. CASE Leave(t)
    BY <2>5 DEF Leave, dataVars
  <2>6. CASE Take(t)
    <3>1. Head(m_MsgRecvQueue) # Null
      BY <2>6, Dequeued DEF Take
    <3>2. QED
      BY <2>6, <3>1 DEF Take, PopFront
  <2>7. CASE CountBusy(t) \/ Process(t) \/ CountIdle(t)
    BY <2>7 DEF CountBusy, Process, CountIdle, syncVars
  <2>8. CASE Free(t)
    BY <2>8 DEF Free, syncVars
  <2>9. QED
    BY <1>11, <2>1, <2>2, <2>3, <2>4, <2>5, <2>6, <2>7, <2>8 DEF ThreadFunc
<1>12. ASSUME NEW t \in Threads, SpuriousWakeup(t) PROVE Control'
  BY <1>12 DEF SpuriousWakeup, threadVars, dataVars
<1>13. CASE UNCHANGED vars
  BY <1>13 DEF vars, threadVars, syncVars, dataVars
<1>14. QED
  BY <1>2, <1>3, <1>4, <1>5, <1>6, <1>7, <1>8, <1>9, <1>10, <1>11, <1>12, <1>13
     DEF Next, MainThread

LEMMA PoolStepCounted == TypeOK /\ Control /\ Counted /\ [Next]_vars => Counted'
<1>1. SUFFICES ASSUME TypeOK, Control, Counted, [Next]_vars PROVE Counted'
  OBVIOUS
<1> USE <1>1, Constants DEF TypeOK, At, Goto
<1>2. IsFiniteSet(Busy)
  BY ThreadPoolAssumption, FS_Subset DEF Busy
<1>3. CASE Busy' = Busy /\ UNCHANGED m_iRunningThreadNum
  BY <1>3 DEF Counted
<1>4. CASE MainThread
  BY <1>3, <1>4 DEF MainThread, CreateThread, Created, Receive, LockForPush, InMsgRecvQueue,
     Call, StopAll, Broadcast, JoinAll, Destroy, ClearMsgRecvQueue, Cleared, Busy,
     threadVars, dataVars
<1>5. ASSUME NEW t \in Threads, ThreadFunc(t) PROVE Counted'
  <2>1. CASE CountBusy(t)
    <3>1. Busy' = Busy \cup {t} /\ t \notin Busy
      BY <2>1 DEF CountBusy, Busy
    <3>2. QED
      BY <1>2, <2>1, <3>1, OneMore DEF CountBusy, Counted
  <2>2. CASE CountIdle(t)
    <3>1. Busy' = Busy \ {t} /\ t \in Busy
      BY <2>2 DEF CountIdle, Busy
    <3>2. QED
      BY <1>2, <2>2, <3>1, OneLess DEF CountIdle, Counted
  <2>3. CASE Lock(t) \/ Check(t) \/ CondWait(t) \/ Rewoken(t) \/ Leave(t) \/ Take(t)
               \/ Process(t) \/ Free(t)
    BY <1>3, <2>3 DEF Lock, Check, CondWait, Rewoken, Leave, Take, Process, Free, Busy, dataVars
  <2>4. QED
    BY <1>5, <2>1, <2>2, <2>3 DEF ThreadFunc
<1>6. ASSUME NEW t \in Threads, SpuriousWakeup(t) PROVE Counted'
  BY <1>3, <1>6 DEF SpuriousWakeup, Busy, threadVars, dataVars
<1>7. CASE UNCHANGED vars
  BY <1>3, <1>7 DEF vars, Busy, threadVars, dataVars
<1>8. QED
  BY <1>4, <1>5, <1>6, <1>7 DEF Next

LEMMA PoolStepTypes == Typed /\ [Next]_vars => TypeOK'
<1>1. SUFFICES ASSUME TypeOK, Control, Counted, Counted', [Next]_vars PROVE TypeOK'
  BY PoolStepCounted DEF Typed
<1>2. m_iRunningThreadNum' \in 0..Cardinality(Threads)
  <2>1. Busy' \subseteq Threads
    BY DEF Busy
  <2>2. QED
    BY <1>1, <2>1, ThreadPoolAssumption, FS_Subset, FS_CardinalityType DEF Counted
<1> DEFINE Others == /\ m_MsgRecvQueue \in Seq(Messages)
                     /\ mutex \in All \cup {Null} /\ waiting \subseteq Threads
                     /\ m_shutdown \in BOOLEAN
                     /\ ifrunning \in [Threads -> BOOLEAN]
                     /\ pc \in [All -> PoolPCs \cup MainPCs]
                     /\ \A t \in Threads : pc[t] \in PoolPCs
                     /\ pc[Main] \in MainPCs
                     /\ job \in [Threads -> Messages \cup {Null}]
                     /\ next \in 1..(MaxMsgs + 1)
                     /\ heap \subseteq Messages /\ handled \subseteq Messages
<1>3. Others /\ (Others' => TypeOK')
  BY <1>1, <1>2 DEF TypeOK
<1> USE <1>3, Constants DEF PoolPCs, MainPCs, At, Goto
<1>4. ASSUME NEW t \in Threads, CreateThread(t) PROVE Others'
  BY <1>4 DEF CreateThread, syncVars, dataVars
<1>5. CASE Created \/ LockForPush \/ StopAll \/ Broadcast \/ JoinAll \/ Destroy \/ Cleared
  <2>1. CASE Created \/ JoinAll \/ Destroy \/ Cleared
    BY <2>1 DEF Created, JoinAll, Destroy, Cleared, syncVars, dataVars
  <2>2. CASE LockForPush
    BY <2>2 DEF LockForPush, dataVars
  <2>3. CASE StopAll \/ Broadcast
    BY <2>3 DEF StopAll, Broadcast, WakeAll, dataVars
  <2>4. QED
    BY <1>5, <2>1, <2>2, <2>3
<1>6. CASE Receive \/ InMsgRecvQueue
  <2>1. next \in Messages /\ next + 1 \in 1..(MaxMsgs + 1)
    BY <1>1, <1>6 DEF Receive, InMsgRecvQueue, Messages, Control
  <2>2. Append(m_MsgRecvQueue, next) \in Seq(Messages)
    BY <2>1, Enqueued
  <2>3. CASE Receive
    BY <2>1, <2>3 DEF Receive, syncVars
  <2>4. CASE InMsgRecvQueue
    BY <2>1, <2>2, <2>4 DEF InMsgRecvQueue
  <2>5. QED
    BY <1>6, <2>3, <2>4
<1>7. CASE Call
  BY <1>7 DEF Call, CallSignal, Signal, dataVars
<1>8. CASE ClearMsgRecvQueue
  <2>1. Tail(m_MsgRecvQueue) \in Seq(Messages)
    BY <1>8, Dequeued DEF ClearMsgRecvQueue
  <2>2. QED
    BY <1>8, <2>1 DEF ClearMsgRecvQueue, threadVars, syncVars
<1>9. ASSUME NEW t \in Threads, ThreadFunc(t) PROVE Others'
  <2>1. CASE Lock(t) \/ Check(t) \/ CondWait(t) \/ Rewoken(t) \/ Leave(t)
    <3>1. CASE Lock(t) \/ Rewoken(t) \/ Leave(t)
      BY <3>1 DEF Lock, Rewoken, Leave, dataVars, All
    <3>2. CASE Check(t)
      BY <3>2 DEF Check, syncVars, dataVars
    <3>3. CASE CondWait(t)
      BY <3>3 DEF CondWait, dataVars
    <3>4. QED
      BY <2>1, <3>1, <3>2, <3>3
  <2>2. CASE Take(t)
    <3>1. m_MsgRecvQueue # <<>>
      BY <1>1, <2>2 DEF Take, Control
    <3>2. Head(m_MsgRecvQueue) \in Messages /\ Tail(m_MsgRecvQueue) \in Seq(Messages)
      BY <3>1, Dequeued
    <3>3. QED
      BY <2>2, <3>2 DEF Take, PopFront
  <2>3. CASE CountBusy(t) \/ CountIdle(t)
    BY <2>3 DEF CountBusy, CountIdle, syncVars
  <2>4. CASE Process(t)
    <3>1. job[t] \in Messages
      BY <1>1, <2>4 DEF Process, Control
    <3>2. QED
      BY <2>4, <3>1 DEF Process, syncVars
  <2>5. CASE Free(t)
    BY <2>5 DEF Free, FreeMemory, syncVars
  <2>6. QED
    BY <1>9, <2>1, <2>2, <2>3, <2>4, <2>5 DEF ThreadFunc
<1>10. ASSUME NEW t \in Threads, SpuriousWakeup(t) PROVE Others'
  BY <1>10 DEF SpuriousWakeup, threadVars, dataVars
<1>11. CASE UNCHANGED vars
  BY <1>11 DEF vars, threadVars, syncVars, dataVars
<1>12. QED
  BY <1>1, <1>3, <1>4, <1>5, <1>6, <1>7, <1>8, <1>9, <1>10, <1>11 DEF Next, MainThread

LEMMA PoolStepTyped == Typed /\ [Next]_vars => Typed'
  BY PoolStepControl, PoolStepCounted, PoolStepTypes DEF Typed

(* Every variable keeps its type: no thread takes a message from an empty      *)
(* queue, and the count of busy threads never leaves 0 .. the number of them.  *)
THEOREM PoolTyped == Spec => []TypeOK
<1>1. Typed => TypeOK
  BY DEF Typed
<1>2. QED
  BY <1>1, PoolInitTyped, PoolStepTyped, PTL DEF Spec

\* From the broadcast on no thread goes to sleep but one that has the mutex already.
Stopping == pc[Main] \in {"broadcast", "join"} => m_shutdown
Stopped == Stopping /\ OneLeftAsleep

LEMMA PoolStepStopping == TypeOK /\ Stopping /\ [Next]_vars => Stopping'
<1>1. SUFFICES ASSUME TypeOK, Stopping, [Next]_vars PROVE Stopping'
  OBVIOUS
<1> USE <1>1, Constants DEF TypeOK, Stopping, At, Goto
<1>2. CASE MainThread
  BY <1>2 DEF MainThread, CreateThread, Created, Receive, LockForPush, InMsgRecvQueue, Call,
     StopAll, Broadcast, JoinAll, Destroy, ClearMsgRecvQueue, Cleared, threadVars, syncVars
<1>3. ASSUME NEW t \in Threads, ThreadFunc(t) \/ SpuriousWakeup(t) PROVE Stopping'
  BY <1>3 DEF ThreadFunc, Lock, Check, CondWait, Rewoken, Leave, Take, CountBusy, Process, Free,
     CountIdle, SpuriousWakeup, threadVars, syncVars
<1>4. CASE UNCHANGED vars
  BY <1>4 DEF vars, threadVars, syncVars
<1>5. QED
  BY <1>1, <1>2, <1>3, <1>4 DEF Next

LEMMA PoolStepAsleep ==
  TypeOK /\ Control /\ Stopped /\ [Next]_vars => OneLeftAsleep'
<1>1. SUFFICES ASSUME TypeOK, Control, Stopping, OneLeftAsleep, [Next]_vars
               PROVE  OneLeftAsleep'
  BY DEF Stopped
<1> USE <1>1, Constants DEF TypeOK, At, Goto
\* No other step of the threads adds to those asleep.
<1>2. CASE /\ pc'[Main] = "join" => pc[Main] = "join"
           /\ \A t \in Threads : Asleep(t)' => Asleep(t)
  BY <1>2 DEF OneLeftAsleep
<1>3. CASE Broadcast
  <2>1. \A t \in Threads : Asleep(t)' => mutex = t
    BY <1>3 DEF Broadcast, WakeAll, Asleep, Control
  <2>2. QED
    BY <2>1 DEF OneLeftAsleep
<1>4. CASE MainThread /\ ~Broadcast
  <2>1. pc'[Main] = "join" => pc[Main] = "join"
    BY <1>4 DEF MainThread, CreateThread, Created, Receive, LockForPush, InMsgRecvQueue, Call,
       StopAll, JoinAll, Destroy, ClearMsgRecvQueue, Cleared, threadVars
  <2>2. \A t \in Threads : Asleep(t)' => Asleep(t)
    BY <1>4 DEF MainThread, CreateThread, Created, Receive, LockForPush, InMsgRecvQueue, Call,
       CallSignal, Signal, StopAll, JoinAll, Destroy, ClearMsgRecvQueue, Cleared, Asleep,
       threadVars, syncVars
  <2>3. QED
    BY <1>2, <2>1, <2>2
<1>5. ASSUME NEW t \in Threads, ThreadFunc(t) PROVE OneLeftAsleep'
  <2>1. pc'[Main] = pc[Main]
    BY <1>5 DEF ThreadFunc, Lock, Check, CondWait, Rewoken, Leave, Take, CountBusy, Process,
       Free, CountIdle
  <2>2. CASE pc[Main] # "join"
    BY <2>1, <2>2 DEF OneLeftAsleep
  <2>3. CASE pc[Main] = "join"
    <3>1. m_shutdown
      BY <2>3 DEF Stopping
    <3>2. \A u \in Threads : Asleep(u)' => Asleep(u)
      <4>1. CASE Check(t)
        BY <3>1, <4>1 DEF Check, Asleep, syncVars
      <4>2. CASE CondWait(t)
        BY <4>2 DEF CondWait, Asleep
      <4>3. CASE Lock(t) \/ Rewoken(t) \/ Leave(t) \/ Take(t)
        BY <4>3 DEF Lock, Rewoken, Leave, Take, Asleep
      <4>4. CASE CountBusy(t) \/ Process(t) \/ Free(t) \/ CountIdle(t)
        BY <4>4 DEF CountBusy, Process, Free, CountIdle, Asleep, syncVars
      <4>5. QED
        BY <1>5, <4>1, <4>2, <4>3, <4>4 DEF ThreadFunc
    <3>3. QED
      BY <1>2, <2>1, <3>2
  <2>4. QED
    BY <2>2, <2>3
<1>6. ASSUME NEW t \in Threads, SpuriousWakeup(t) PROVE OneLeftAsleep'
  BY <1>2, <1>6 DEF SpuriousWakeup, Asleep, threadVars
<1>7. CASE UNCHANGED vars
  BY <1>2, <1>7 DEF vars, Asleep, threadVars, syncVars
<1>8. QED
  BY <1>1, <1>3, <1>4, <1>5, <1>6, <1>7 DEF Next

(* While StopAll waits for its threads at most one of them is asleep, or about *)
(* to be: the unlocked write of m_shutdown costs one wakeup and never two,     *)
(* however many threads there are and wherever they were.                      *)
THEOREM OneSleeperLeft == Spec => []OneLeftAsleep
<1>1. Init => Stopped
  BY Constants DEF Init, Stopped, Stopping, OneLeftAsleep, At
<1>2. Typed /\ Stopped /\ [Next]_vars => Stopped'
  BY PoolStepStopping, PoolStepAsleep DEF Typed, Stopped
<1>3. Stopped => OneLeftAsleep
  BY DEF Stopped
<1>4. QED
  BY <1>1, <1>2, <1>3, PoolInitTyped, PoolStepTyped, PTL DEF Spec

-----------------------------------------------------------------------------
(* One place for every message.                                            *)

LEMMA PoolInitUnique == Init => Unique
<1>1. SUFFICES ASSUME Init PROVE Unique
  OBVIOUS
<1>2. m_MsgRecvQueue = <<>> /\ ToSet(<<>>) = {} /\ IsInjective(<<>>)
  BY <1>1 DEF Init, ToSet, IsInjective
<1>3. QED
  BY <1>1, <1>2, Constants DEF Init, Unique

LEMMA PoolStepUnique == Typed /\ Unique /\ [Next]_vars => Unique'
<1>1. SUFFICES ASSUME TypeOK, Control, Unique, [Next]_vars PROVE Unique'
  BY DEF Typed
<1> USE Constants DEF At, Goto
<1>2. CASE /\ UNCHANGED <<m_MsgRecvQueue, job, handled, next>>
           /\ \A t \in Threads : pc'[t] \in {"count", "work"} => pc[t] \in {"count", "work"}
  BY <1>1, <1>2 DEF Unique
<1>3. CASE InMsgRecvQueue
  <2>1. next \in Messages /\ next \in Nat
    BY <1>1, <1>3 DEF TypeOK, Control, InMsgRecvQueue, Messages
  <2>2. next \notin ToSet(m_MsgRecvQueue) /\ next \notin handled
    BY <1>1, <2>1 DEF Unique
  <2>3. /\ ToSet(m_MsgRecvQueue') = ToSet(m_MsgRecvQueue) \cup {next}
        /\ IsInjective(m_MsgRecvQueue')
    BY <1>1, <1>3, <2>1, <2>2, Enqueued DEF TypeOK, Unique, InMsgRecvQueue
  <2>4. \A m \in Messages : m \in Nat /\ (m < next => m < next + 1 /\ m # next)
    BY <2>1 DEF Messages
  <2>5. ToSet(m_MsgRecvQueue) \subseteq Messages
    BY <1>1, ElementsTyped DEF TypeOK
  <2>6. \A m \in ToSet(m_MsgRecvQueue') : m < next' /\ m \notin handled'
    <3>1. next' = next + 1 /\ handled' = handled
      BY <1>3 DEF InMsgRecvQueue
    <3>2. SUFFICES ASSUME NEW m \in ToSet(m_MsgRecvQueue) \cup {next}
                   PROVE  m < next + 1 /\ m \notin handled
      BY <2>3, <3>1
    <3>3. CASE m = next
      BY <2>1, <2>2, <3>3
    <3>4. CASE m \in ToSet(m_MsgRecvQueue)
      BY <1>1, <2>4, <2>5, <3>4 DEF Unique
    <3>5. QED
      BY <3>2, <3>3, <3>4
  <2>7. \A t \in Threads : job'[t] # Null =>
          job'[t] < next' /\ job'[t] \notin ToSet(m_MsgRecvQueue')
    BY <1>1, <1>3, <2>3, <2>4 DEF TypeOK, Unique, InMsgRecvQueue
  <2>8. \A t \in Threads : pc'[t] = pc[t]
    BY <1>1, <1>3 DEF TypeOK, InMsgRecvQueue
  <2>9. \A m \in handled' : m < next'
    BY <1>1, <1>3, <2>4 DEF TypeOK, Unique, InMsgRecvQueue
  <2>10. QED
    BY <1>1, <1>3, <2>3, <2>6, <2>7, <2>8, <2>9 DEF Unique, InMsgRecvQueue
<1>4. CASE ClearMsgRecvQueue
  <2>1. /\ IsInjective(m_MsgRecvQueue')
        /\ ToSet(m_MsgRecvQueue') \subseteq ToSet(m_MsgRecvQueue)
    BY <1>1, <1>4, Dequeued DEF TypeOK, Unique, ClearMsgRecvQueue
  <2>2. QED
    BY <1>1, <1>4, <2>1 DEF Unique, ClearMsgRecvQueue, threadVars
<1>5. ASSUME NEW t \in Threads, Take(t) PROVE Unique'
  <2>1. m_MsgRecvQueue # <<>>
    BY <1>1, <1>5 DEF Take, Control
  <2>2. /\ IsInjective(m_MsgRecvQueue')
        /\ ToSet(m_MsgRecvQueue') \subseteq ToSet(m_MsgRecvQueue)
        /\ Head(m_MsgRecvQueue) \in ToSet(m_MsgRecvQueue)
        /\ Head(m_MsgRecvQueue) \notin ToSet(m_MsgRecvQueue')
    BY <1>1, <1>5, <2>1, Dequeued DEF TypeOK, Unique, Take, PopFront
  <2>3. /\ job'[t] = Head(m_MsgRecvQueue)
        /\ \A u \in Threads \ {t} : job'[u] = job[u] /\ pc'[u] = pc[u]
    BY <1>1, <1>5 DEF TypeOK, Take
  <2>4. \A u \in Threads : job'[u] # Null =>
          job'[u] < next' /\ job'[u] \notin ToSet(m_MsgRecvQueue')
    BY <1>1, <1>5, <2>2, <2>3 DEF Unique, Take
  <2>5. \A u, v \in Threads : job'[u] = job'[v] /\ job'[u] # Null => u = v
    BY <1>1, <2>2, <2>3 DEF Unique
  <2>6. \A u \in Threads : pc'[u] \in {"count", "work"} => job'[u] \notin handled'
    BY <1>1, <1>5, <2>2, <2>3 DEF Unique, Take
  <2>7. QED
    BY <1>1, <1>5, <2>2, <2>4, <2>5, <2>6 DEF Unique, Take
<1>6. ASSUME NEW t \in Threads, Process(t) PROVE Unique'
  <2>1. job[t] \in Messages /\ job[t] # Null
    BY <1>1, <1>6 DEF TypeOK, Control, Process
  <2>2. \A u \in Threads \ {t} : pc'[u] = pc[u]
    BY <1>1, <1>6 DEF TypeOK, Process
  <2>3. pc'[t] = "free"
    BY <1>1, <1>6 DEF TypeOK, Process
  <2>4. \A u \in Threads : pc'[u] \in {"count", "work"} => job'[u] \notin handled'
    BY <1>1, <1>6, <2>1, <2>2, <2>3 DEF Unique, Process
  <2>5. QED
    BY <1>1, <1>6, <2>1, <2>4 DEF Unique, Process
<1>7. ASSUME NEW t \in Threads, Free(t) PROVE Unique'
  <2>1. /\ job'[t] = Null /\ pc'[t] = "end"
        /\ \A u \in Threads \ {t} : job'[u] = job[u] /\ pc'[u] = pc[u]
    BY <1>1, <1>7 DEF TypeOK, Free
  <2>2. QED
    BY <1>1, <1>7, <2>1 DEF Unique, Free
<1>8. CASE MainThread
  <2>1. ASSUME NEW t \in Threads, CreateThread(t) PROVE Unique'
    BY <1>1, <1>2, <2>1 DEF TypeOK, CreateThread, dataVars
  <2>2. CASE Created \/ Receive \/ LockForPush \/ Call \/ StopAll \/ Broadcast \/ JoinAll
               \/ Destroy \/ Cleared
    BY <1>1, <1>2, <2>2 DEF TypeOK, Created, Receive, LockForPush, Call, StopAll, Broadcast,
       JoinAll, Destroy, Cleared, dataVars
  <2>3. QED
    BY <1>3, <1>4, <1>8, <2>1, <2>2 DEF MainThread
<1>9. ASSUME NEW t \in Threads, ThreadFunc(t) PROVE Unique'
  <2>1. CASE Lock(t) \/ Check(t) \/ CondWait(t) \/ Rewoken(t) \/ Leave(t) \/ CountBusy(t)
               \/ CountIdle(t)
    BY <1>1, <1>2, <2>1 DEF TypeOK, Lock, Check, CondWait, Rewoken, Leave, CountBusy,
       CountIdle, dataVars
  <2>2. QED
    BY <1>5, <1>6, <1>7, <1>9, <2>1 DEF ThreadFunc
<1>10. ASSUME NEW t \in Threads, SpuriousWakeup(t) PROVE Unique'
  BY <1>2, <1>10 DEF SpuriousWakeup, threadVars, dataVars
<1>11. CASE UNCHANGED vars
  BY <1>2, <1>11 DEF vars, threadVars, dataVars
<1>12. QED
  BY <1>1, <1>8, <1>9, <1>10, <1>11 DEF Next

-----------------------------------------------------------------------------
(* The memory of the messages.                                             *)

\* Owned, without the indices of the queue.
Incoming == IF pc[Main] \in {"lock", "push"} THEN {next} ELSE {}
InHand == {job[t] : t \in {u \in Threads : job[u] # Null}}
Kept == heap = Incoming \cup ToSet(m_MsgRecvQueue) \cup InHand

LEMMA KeptIsNoLeak == Typed /\ Kept => NoLeak
<1>1. SUFFICES ASSUME TypeOK, Control, Kept PROVE NoLeak
  BY DEF Typed
<1>2. /\ ToSet(m_MsgRecvQueue) = {m_MsgRecvQueue[i] : i \in 1..Len(m_MsgRecvQueue)}
      /\ ToSet(m_MsgRecvQueue) \subseteq Messages
  BY <1>1, ElementsTyped, LenProperties DEF TypeOK, ToSet
<1>3. InHand \subseteq Messages /\ Incoming \subseteq Messages
  BY <1>1 DEF TypeOK, Control, InHand, Incoming, Messages
<1>4. \A m \in Messages : Owned(m) <=>
        m \in Incoming \/ m \in ToSet(m_MsgRecvQueue) \/ m \in InHand
  BY <1>2, Constants DEF Owned, Incoming, InHand
<1>5. QED
  BY <1>1, <1>2, <1>3, <1>4 DEF NoLeak, Kept

LEMMA PoolStepKept == Typed /\ Unique /\ Kept /\ [Next]_vars => Kept'
<1>1. SUFFICES ASSUME TypeOK, Control, Unique, Kept, [Next]_vars PROVE Kept'
  BY DEF Typed
<1> USE Constants DEF At, Goto
<1>2. CASE UNCHANGED <<m_MsgRecvQueue, job, heap, next>> /\ Incoming' = Incoming
  BY <1>1, <1>2 DEF Kept, InHand
<1>3. CASE Receive
  BY <1>1, <1>3 DEF TypeOK, Receive, Kept, Incoming, InHand
<1>4. CASE InMsgRecvQueue
  <2>1. next \in Messages
    BY <1>1, <1>4 DEF TypeOK, Control, InMsgRecvQueue, Messages
  <2>2. ToSet(m_MsgRecvQueue') = ToSet(m_MsgRecvQueue) \cup {next}
    BY <1>1, <1>4, <2>1, Enqueued DEF TypeOK, InMsgRecvQueue
  <2>3. Incoming = {next} /\ Incoming' = {} /\ InHand' = InHand /\ heap' = heap
    BY <1>1, <1>4 DEF TypeOK, InMsgRecvQueue, Incoming, InHand
  <2>4. QED
    BY <1>1, <2>2, <2>3 DEF Kept
<1>5. CASE ClearMsgRecvQueue
  <2>1. /\ ToSet(m_MsgRecvQueue) = ToSet(m_MsgRecvQueue') \cup {Head(m_MsgRecvQueue)}
        /\ Head(m_MsgRecvQueue) \notin ToSet(m_MsgRecvQueue')
    BY <1>1, <1>5, Dequeued DEF TypeOK, Unique, ClearMsgRecvQueue
  <2>2. Incoming = {} /\ Incoming' = {} /\ InHand = {} /\ InHand' = {}
    BY <1>1, <1>5 DEF Control, ClearMsgRecvQueue, Incoming, InHand, threadVars
  <2>3. QED
    BY <1>1, <1>5, <2>1, <2>2 DEF Kept, ClearMsgRecvQueue
<1>6. ASSUME NEW t \in Threads, Take(t) PROVE Kept'
  <2>1. m_MsgRecvQueue # <<>> /\ job[t] = Null
    BY <1>1, <1>6 DEF Take, Control
  <2>2. /\ ToSet(m_MsgRecvQueue) = ToSet(m_MsgRecvQueue') \cup {Head(m_MsgRecvQueue)}
        /\ Head(m_MsgRecvQueue) # Null
    BY <1>1, <1>6, <2>1, Dequeued DEF TypeOK, Take, PopFront
  <2>3. /\ job'[t] = Head(m_MsgRecvQueue)
        /\ \A u \in Threads \ {t} : job'[u] = job[u]
    BY <1>1, <1>6 DEF TypeOK, Take
  <2>4. InHand' = InHand \cup {Head(m_MsgRecvQueue)}
    BY <2>1, <2>2, <2>3 DEF InHand
  <2>5. Incoming' = Incoming /\ heap' = heap
    BY <1>1, <1>6 DEF TypeOK, Take, Incoming
  <2>6. QED
    BY <1>1, <2>2, <2>4, <2>5 DEF Kept
<1>7. ASSUME NEW t \in Threads, Free(t) PROVE Kept'
  <2>1. job[t] \in Messages /\ job[t] # Null
    BY <1>1, <1>7 DEF TypeOK, Control, Free
  <2>2. /\ job'[t] = Null
        /\ \A u \in Threads \ {t} : job'[u] = job[u] /\ job[u] # job[t]
    BY <1>1, <1>7, <2>1 DEF TypeOK, Unique, Free
  <2>3. InHand' = InHand \ {job[t]}
    BY <2>1, <2>2 DEF InHand
  <2>4. Incoming' = Incoming /\ job[t] # next
    BY <1>1, <1>7, <2>1 DEF TypeOK, Unique, Free, Incoming, Messages
  <2>5. job[t] \notin ToSet(m_MsgRecvQueue) /\ m_MsgRecvQueue' = m_MsgRecvQueue
    BY <1>1, <1>7, <2>1 DEF Unique, Free
  <2>6. heap' = heap \ {job[t]}
    BY <1>7 DEF Free, FreeMemory
  <2>7. QED
    BY <1>1, <2>3, <2>4, <2>5, <2>6 DEF Kept, Incoming
<1>8. CASE MainThread
  <2>1. ASSUME NEW t \in Threads, CreateThread(t) PROVE Kept'
    BY <1>1, <1>2, <2>1 DEF TypeOK, CreateThread, dataVars, Incoming
  <2>2. CASE Created \/ LockForPush \/ Call \/ StopAll \/ Broadcast \/ JoinAll \/ Destroy
               \/ Cleared
    BY <1>1, <1>2, <2>2 DEF TypeOK, Created, LockForPush, Call, StopAll, Broadcast, JoinAll,
       Destroy, Cleared, dataVars, Incoming
  <2>3. QED
    BY <1>3, <1>4, <1>5, <1>8, <2>1, <2>2 DEF MainThread
<1>9. ASSUME NEW t \in Threads, ThreadFunc(t) PROVE Kept'
  <2>1. CASE Lock(t) \/ Check(t) \/ CondWait(t) \/ Rewoken(t) \/ Leave(t) \/ CountBusy(t)
               \/ Process(t) \/ CountIdle(t)
    BY <1>1, <1>2, <2>1 DEF TypeOK, Lock, Check, CondWait, Rewoken, Leave, CountBusy,
       Process, CountIdle, dataVars, Incoming
  <2>2. QED
    BY <1>6, <1>7, <1>9, <2>1 DEF ThreadFunc
<1>10. ASSUME NEW t \in Threads, SpuriousWakeup(t) PROVE Kept'
  BY <1>2, <1>10 DEF SpuriousWakeup, threadVars, dataVars, Incoming
<1>11. CASE UNCHANGED vars
  BY <1>2, <1>11 DEF vars, threadVars, dataVars, Incoming
<1>12. QED
  BY <1>1, <1>8, <1>9, <1>10, <1>11 DEF Next

(* A message's memory is held as long as somebody is going to use it, and no   *)
(* longer: none is leaked, none freed twice.                                   *)
THEOREM EveryMessageOwned == Spec => []NoLeak
<1>1. Init => Kept
  <2>1. SUFFICES ASSUME Init PROVE Kept
    OBVIOUS
  <2>2. ToSet(<<>>) = {}
    BY DEF ToSet
  <2>3. InHand = {} /\ Incoming = {}
    BY <2>1, Constants DEF Init, InHand, Incoming
  <2>4. QED
    BY <2>1, <2>2, <2>3 DEF Init, Kept
<1>2. QED
  BY <1>1, KeptIsNoLeak, PoolInitTyped, PoolInitUnique, PoolStepTyped, PoolStepUnique,
     PoolStepKept, PTL DEF Spec

-----------------------------------------------------------------------------
(* The wakeups.                                                            *)

HeadingSet == {t \in Threads : Heading(t)}
Owed == IF At(Main, "signal") THEN 1 ELSE 0

LEMMA PoolStepWakeup == Typed /\ NoLostWakeup /\ [Next]_vars => NoLostWakeup'
<1>1. SUFFICES ASSUME TypeOK, Control, NoLostWakeup, [Next]_vars PROVE NoLostWakeup'
  BY DEF Typed
<1> DEFINE Enough == Len(m_MsgRecvQueue) =< Cardinality(HeadingSet) + Owed
<1>2. /\ NoLostWakeup <=> (waiting # {} /\ ~m_shutdown => Enough)
      /\ NoLostWakeup' <=> (waiting' # {} /\ ~m_shutdown' => Enough')
  BY DEF NoLostWakeup, HeadingSet, Owed
<1>3. /\ Len(m_MsgRecvQueue) \in Nat /\ Owed \in {0, 1}
      /\ IsFiniteSet(HeadingSet) /\ Cardinality(HeadingSet) \in Nat
      /\ IsFiniteSet(HeadingSet') /\ Cardinality(HeadingSet') \in Nat
  BY <1>1, ThreadPoolAssumption, FS_Subset, FS_CardinalityType DEF TypeOK, HeadingSet, Owed
<1> HIDE DEF Enough
<1> USE Constants DEF At, Goto
\* Whoever heads for the queue keeps doing so.
<1>4. CASE /\ UNCHANGED m_MsgRecvQueue
           /\ waiting' # {} => waiting # {}
           /\ ~m_shutdown' => ~m_shutdown
           /\ HeadingSet' = HeadingSet /\ Owed' = Owed
  <2>1. Cardinality(HeadingSet') = Cardinality(HeadingSet)
    BY <1>4
  <2>2. Len(m_MsgRecvQueue') = Len(m_MsgRecvQueue)
    BY <1>4
  <2>3. Enough => Enough'
    BY <1>4, <2>1, <2>2, Zenon DEF Enough
  <2>4. QED
    BY <1>1, <1>2, <1>4, <2>3
\* One more heads for it.
<1>5. ASSUME NEW t, t \notin HeadingSet, HeadingSet' = HeadingSet \cup {t}, Owed' = Owed,
             UNCHANGED <<m_MsgRecvQueue, m_shutdown>>, waiting' # {} => waiting # {}
      PROVE  NoLostWakeup'
  <2>1. Cardinality(HeadingSet') = Cardinality(HeadingSet) + 1
    BY <1>3, <1>5, OneMore
  <2>2. QED
    BY <1>1, <1>2, <1>3, <1>5, <2>1 DEF Enough
<1>6. CASE InMsgRecvQueue
  <2>1. next \in Messages
    BY <1>1, <1>6 DEF TypeOK, Control, InMsgRecvQueue, Messages
  <2>2. Len(m_MsgRecvQueue') = Len(m_MsgRecvQueue) + 1
    BY <1>1, <1>6, <2>1, AppendProperties DEF TypeOK, InMsgRecvQueue
  <2>3. Owed = 0 /\ Owed' = 1 /\ HeadingSet' = HeadingSet
    BY <1>1, <1>6 DEF TypeOK, InMsgRecvQueue, Owed, HeadingSet, Heading
  <2>4. waiting' = waiting /\ m_shutdown' = m_shutdown
    BY <1>6 DEF InMsgRecvQueue
  <2>5. QED
    BY <1>1, <1>2, <1>3, <2>2, <2>3, <2>4 DEF Enough
<1>7. CASE Call
  <2>1. CASE waiting = {}
    BY <1>2, <1>7, <2>1 DEF Call, CallSignal, Signal
  <2>2. ASSUME NEW t \in waiting, waiting' = waiting \ {t} PROVE NoLostWakeup'
    <3>1. t \notin HeadingSet /\ HeadingSet' = HeadingSet \cup {t}
      BY <1>1, <1>7, <2>2 DEF TypeOK, Control, Call, HeadingSet, Heading
    <3>2. Owed = 1 /\ Owed' = 0
      BY <1>1, <1>7 DEF TypeOK, Call, Owed
    <3>3. Cardinality(HeadingSet') = Cardinality(HeadingSet) + 1
      BY <1>3, <3>1, OneMore
    <3>4. UNCHANGED <<m_MsgRecvQueue, m_shutdown>>
      BY <1>7 DEF Call, dataVars
    <3>5. QED
      BY <1>1, <1>2, <1>3, <2>2, <3>2, <3>3, <3>4 DEF Enough
  <2>3. QED
    BY <1>7, <2>1, <2>2 DEF Call, CallSignal, Signal
<1>8. CASE StopAll \/ Broadcast
  BY <1>2, <1>8 DEF StopAll, Broadcast, WakeAll
<1>9. CASE JoinAll \/ Destroy \/ ClearMsgRecvQueue \/ Cleared
  <2>1. waiting' = {}
    BY <1>1, <1>9 DEF TypeOK, Control, JoinAll, AllEnded, Destroy, ClearMsgRecvQueue,
       Cleared, syncVars
  <2>2. QED
    BY <1>2, <2>1
<1>10. ASSUME NEW t \in Threads, CreateThread(t) PROVE NoLostWakeup'
  <2>1. t \notin HeadingSet /\ HeadingSet' = HeadingSet \cup {t} /\ Owed' = Owed
    BY <1>1, <1>10 DEF TypeOK, CreateThread, HeadingSet, Heading, Owed, syncVars
  <2>2. QED
    BY <1>5, <1>10, <2>1 DEF CreateThread, syncVars, dataVars
<1>11. CASE MainThread
  <2>1. CASE Created \/ Receive \/ LockForPush
    <3>1. HeadingSet' = HeadingSet /\ Owed' = Owed
      BY <1>1, <2>1 DEF TypeOK, Created, Receive, LockForPush, HeadingSet, Heading, Owed,
         syncVars
    <3>2. QED
      BY <1>4, <2>1, <3>1 DEF Created, Receive, LockForPush, syncVars, dataVars
  <2>2. QED
    BY <1>6, <1>7, <1>8, <1>9, <1>10, <1>11, <2>1 DEF MainThread
<1>12. ASSUME NEW t \in Threads, ThreadFunc(t) PROVE NoLostWakeup'
  <2>0. Owed' = Owed
    BY <1>1, <1>12 DEF TypeOK, ThreadFunc, Lock, Check, CondWait, Rewoken, Leave, Take,
       CountBusy, Process, Free, CountIdle, Owed
  <2>1. CASE Lock(t) \/ Rewoken(t) \/ CountBusy(t) \/ Process(t) \/ Free(t)
    <3>1. HeadingSet' = HeadingSet
      BY <1>1, <2>1 DEF TypeOK, Control, Lock, Rewoken, CountBusy, Process, Free, HeadingSet,
         Heading, syncVars
    <3>2. QED
      BY <1>4, <2>0, <2>1, <3>1 DEF Lock, Rewoken, CountBusy, Process, Free, syncVars, dataVars
  <2>2. CASE Check(t)
    <3>1. CASE m_MsgRecvQueue = <<>> /\ ~m_shutdown
      <4>1. Len(m_MsgRecvQueue') = 0 /\ Owed' \in {0, 1}
        BY <1>3, <2>0, <2>2, <3>1 DEF Check, dataVars
      <4>2. QED
        BY <1>2, <1>3, <4>1 DEF Enough
    <3>2. CASE ~(m_MsgRecvQueue = <<>> /\ ~m_shutdown)
      <4>1. HeadingSet' = HeadingSet
        BY <1>1, <2>2, <3>2 DEF TypeOK, Check, HeadingSet, Heading, syncVars
      <4>2. QED
        BY <1>4, <2>0, <2>2, <4>1 DEF Check, syncVars, dataVars
    <3>3. QED
      BY <3>1, <3>2
  <2>3. CASE CondWait(t)
    <3>1. Len(m_MsgRecvQueue') = 0 /\ Owed' \in {0, 1}
      BY <1>1, <1>3, <2>0, <2>3 DEF Control, CondWait, dataVars
    <3>2. QED
      BY <1>2, <1>3, <3>1 DEF Enough
  <2>4. CASE Leave(t)
    BY <1>2, <2>4 DEF Leave
  <2>5. CASE Take(t)
    <3>1. m_MsgRecvQueue # <<>> /\ m_MsgRecvQueue' = Tail(m_MsgRecvQueue)
      BY <1>1, <2>5 DEF Take, Control, PopFront
    <3>2. Len(m_MsgRecvQueue') = Len(m_MsgRecvQueue) - 1
      BY <1>1, <3>1, PushPop DEF TypeOK
    <3>3. t \in HeadingSet /\ HeadingSet' = HeadingSet \ {t}
      BY <1>1, <2>5 DEF TypeOK, Take, HeadingSet, Heading
    <3>4. Cardinality(HeadingSet') = Cardinality(HeadingSet) - 1
      BY <1>3, <3>3, OneLess
    <3>5. UNCHANGED <<waiting, m_shutdown>>
      BY <2>5 DEF Take
    <3>6. QED
      BY <1>1, <1>2, <1>3, <2>0, <3>2, <3>4, <3>5 DEF Enough
  <2>6. CASE CountIdle(t)
    <3>1. t \notin HeadingSet /\ HeadingSet' = HeadingSet \cup {t}
      BY <1>1, <2>6 DEF TypeOK, CountIdle, HeadingSet, Heading, syncVars
    <3>2. QED
      BY <1>5, <2>0, <2>6, <3>1 DEF CountIdle, syncVars
  <2>7. QED
    BY <1>12, <2>1, <2>2, <2>3, <2>4, <2>5, <2>6 DEF ThreadFunc
<1>13. ASSUME NEW t \in Threads, SpuriousWakeup(t) PROVE NoLostWakeup'
  <2>1. t \notin HeadingSet /\ HeadingSet' = HeadingSet \cup {t} /\ Owed' = Owed
    BY <1>1, <1>13 DEF TypeOK, Control, SpuriousWakeup, HeadingSet, Heading, Owed, threadVars
  <2>2. QED
    BY <1>5, <1>13, <2>1 DEF SpuriousWakeup, threadVars, dataVars
<1>14. CASE UNCHANGED vars
  BY <1>4, <1>14 DEF vars, threadVars, syncVars, dataVars, HeadingSet, Heading, Owed
<1>15. QED
  BY <1>1, <1>11, <1>12, <1>13, <1>14 DEF Next

(* While a thread sleeps, every pending message has an awake thread on its way *)
(* to the queue, or its signal is about to be sent.                            *)
THEOREM NoWakeupIsLost == Spec => []NoLostWakeup
<1>1. Init => NoLostWakeup
  BY DEF Init, NoLostWakeup
<1>2. QED
  BY <1>1, PoolInitTyped, PoolStepTyped, PoolStepWakeup, PTL DEF Spec

-----------------------------------------------------------------------------
(* The pool is the work queue it promises to be.                           *)

Started == {m \in Messages : \E t \in Threads : job[t] = m /\ pc[t] # "free"}

\* Two threads never work on one message, so there are fewer started than threads
\* while one of them is at the queue.
LEMMA RoomToStart ==
  ASSUME Typed, Unique, NEW t \in Threads, job[t] = Null
  PROVE  Cardinality(Started) < Cardinality(Threads)
<1> DEFINE by == [m \in Started |-> CHOOSE u \in Threads : job[u] = m]
<1>1. \A m \in Started : by[m] \in Threads /\ job[by[m]] = m
  BY DEF Started
<1>2. \A m \in Started : by[m] # t
  BY <1>1, Constants DEF Started
<1>3. by \in [Started -> Threads \ {t}]
  BY <1>1, <1>2
<1>4. \A m, n \in Started : by[m] = by[n] => m = n
  BY <1>1
<1>5. by \in Injection(Started, Threads \ {t})
  <2> HIDE DEF by
  <2> QED
    BY <1>3, <1>4 DEF Injection, IsInjective
<1>6. IsFiniteSet(Threads \ {t}) /\ Cardinality(Threads \ {t}) = Cardinality(Threads) - 1
      /\ Cardinality(Threads) \in Nat
  BY ThreadPoolAssumption, OneLess
<1>7. IsFiniteSet(Started) /\ Cardinality(Started) =< Cardinality(Threads \ {t})
  <2> HIDE DEF by
  <2> QED
    BY <1>5, <1>6, FS_Injection
<1>8. QED
  BY <1>6, <1>7, FS_CardinalityType

LEMMA PoolStepQueue == Typed /\ Unique /\ [Next]_vars => [Queue!Next]_Queue!vars
<1>1. SUFFICES ASSUME TypeOK, Control, Unique, Typed, [Next]_vars
               PROVE  Queue!Next \/ UNCHANGED <<m_MsgRecvQueue, Started, handled>>
  BY DEF Typed, Queue!vars, Started
<1> USE Constants DEF At, Goto
<1>2. CASE InMsgRecvQueue
  <2>1. next \in Messages
    BY <1>1, <1>2 DEF TypeOK, Control, InMsgRecvQueue, Messages
  <2>2. /\ next \notin ToSet(m_MsgRecvQueue) /\ next \notin handled
        /\ next \notin Started
    BY <1>1, <2>1 DEF Unique, Started, Messages
  <2>3. \A i \in 1..Len(m_MsgRecvQueue) : m_MsgRecvQueue[i] # next
    BY <1>1, <2>2, LenProperties DEF TypeOK, ToSet
  <2>4. Started' = Started
    BY <1>1, <1>2 DEF TypeOK, InMsgRecvQueue, Started
  <2>5. Queue!Submit(next)
    BY <1>2, <2>2, <2>3, <2>4 DEF InMsgRecvQueue, Queue!Submit, Started
  <2>6. QED
    BY <2>1, <2>5 DEF Queue!Next
<1>3. CASE ClearMsgRecvQueue
  <2>1. Started = {} /\ Started' = {}
    BY <1>1, <1>3 DEF Control, ClearMsgRecvQueue, Started, threadVars
  <2>2. Queue!Drop
    BY <1>3, <2>1 DEF ClearMsgRecvQueue, Queue!Drop, Started
  <2>3. QED
    BY <2>2 DEF Queue!Next
<1>4. ASSUME NEW t \in Threads, Take(t) PROVE Queue!Start
  <2>1. m_MsgRecvQueue # <<>> /\ job[t] = Null
    BY <1>1, <1>4 DEF Take, Control
  <2>2. Head(m_MsgRecvQueue) \in Messages
    BY <1>1, <2>1, Dequeued DEF TypeOK
  <2>3. /\ job'[t] = Head(m_MsgRecvQueue) /\ pc'[t] = "count"
        /\ \A u \in Threads \ {t} : job'[u] = job[u] /\ pc'[u] = pc[u]
    BY <1>1, <1>4 DEF TypeOK, Take
  <2>4. Started' = Started \cup {Head(m_MsgRecvQueue)}
    BY <2>1, <2>2, <2>3 DEF Started
  <2>5. Cardinality(Started) < Cardinality(Threads)
    BY <1>1, <2>1, RoomToStart
  <2>6. m_MsgRecvQueue' = Tail(m_MsgRecvQueue) /\ handled' = handled
    BY <1>4 DEF Take, PopFront
  <2>7. QED
    BY <2>1, <2>4, <2>5, <2>6 DEF Queue!Start, Started, Queue!Cardinality, Cardinality
<1>5. ASSUME NEW t \in Threads, Process(t) PROVE Queue!Next
  <2>1. job[t] \in Messages /\ job[t] # Null
    BY <1>1, <1>5 DEF TypeOK, Control, Process
  <2>2. job[t] \in Started
    BY <1>5, <2>1 DEF Process, Started
  <2>3. /\ job' = job /\ pc'[t] = "free"
        /\ \A u \in Threads \ {t} : pc'[u] = pc[u] /\ job[u] # job[t]
    BY <1>1, <1>5, <2>1 DEF TypeOK, Unique, Process
  <2>4. Started' = Started \ {job[t]}
    BY <1>5, <2>1, <2>3 DEF Started, Process
  <2>5. PICK m \in Messages : m = job[t]
    BY <2>1
  <2>6. Queue!Finish(m)
    BY <1>5, <2>2, <2>4, <2>5 DEF Process, Queue!Finish, Started
  <2>7. QED
    BY <2>6 DEF Queue!Next
\* No other step changes the queue, or which messages are in progress.
<1>6. CASE /\ UNCHANGED <<m_MsgRecvQueue, job, handled>>
           /\ \A t \in Threads : job[t] # Null => (pc'[t] = "free" <=> pc[t] = "free")
  <2>1. Started' = Started
    BY <1>1, <1>6 DEF Started
  <2>2. QED
    BY <1>6, <2>1
<1>7. ASSUME NEW t \in Threads, Free(t) PROVE UNCHANGED <<m_MsgRecvQueue, Started, handled>>
  <2>1. job'[t] = Null /\ \A u \in Threads \ {t} : job'[u] = job[u] /\ pc'[u] = pc[u]
    BY <1>1, <1>7 DEF TypeOK, Free
  <2>2. Started' = Started
    BY <1>7, <2>1 DEF Started, Free
  <2>3. QED
    BY <1>7, <2>2 DEF Free
<1>8. CASE MainThread
  <2>1. ASSUME NEW t \in Threads, CreateThread(t)
        PROVE  \A u \in Threads : job[u] # Null => (pc'[u] = "free" <=> pc[u] = "free")
    BY <1>1, <2>1 DEF TypeOK, Control, CreateThread
  <2>2. CASE Created \/ Receive \/ LockForPush \/ Call \/ StopAll \/ Broadcast \/ JoinAll
               \/ Destroy \/ Cleared
    BY <1>1, <1>6, <2>2 DEF TypeOK, Created, Receive, LockForPush, Call, StopAll, Broadcast,
       JoinAll, Destroy, Cleared, dataVars
  <2>3. QED
    BY <1>2, <1>3, <1>6, <1>8, <2>1, <2>2 DEF MainThread, CreateThread, dataVars
<1>9. ASSUME NEW t \in Threads, ThreadFunc(t)
      PROVE  Queue!Next \/ UNCHANGED <<m_MsgRecvQueue, Started, handled>>
  <2>1. CASE Lock(t) \/ Check(t) \/ CondWait(t) \/ Rewoken(t) \/ Leave(t) \/ CountBusy(t)
               \/ CountIdle(t)
    BY <1>1, <1>6, <2>1 DEF TypeOK, Control, Lock, Check, CondWait, Rewoken, Leave, CountBusy,
       CountIdle, dataVars
  <2>2. QED
    BY <1>4, <1>5, <1>7, <1>9, <2>1 DEF ThreadFunc, Queue!Next
<1>10. ASSUME NEW t \in Threads, SpuriousWakeup(t)
       PROVE  UNCHANGED <<m_MsgRecvQueue, Started, handled>>
  BY <1>10 DEF SpuriousWakeup, threadVars, dataVars, Started
<1>11. CASE UNCHANGED vars
  BY <1>11 DEF vars, threadVars, dataVars, Started
<1>12. QED
  BY <1>1, <1>8, <1>9, <1>10, <1>11 DEF Next

(* Every behaviour of the pool is one of WorkQueue: messages are started in    *)
(* the order in which they were handed over, each by one thread and once, and  *)
(* never more of them at a time than there are threads.                        *)
THEOREM PoolIsWorkQueue == Spec => QueueSpec
<1>1. Init => Queue!Init
  BY Constants DEF Init, Queue!Init
<1>2. QED
  BY <1>1, PoolInitTyped, PoolInitUnique, PoolStepTyped, PoolStepUnique, PoolStepQueue, PTL
     DEF Spec, QueueSpec, Queue!Spec
=============================================================================
