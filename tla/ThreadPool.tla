----------------------------- MODULE ThreadPool -----------------------------
(***************************************************************************)
(* CThreadPool: Create, ThreadFunc, inMsgRecvQueueAndSignal with Call, and *)
(* StopAll with the destructor's clearMsgRecvQueue.  Main, the epoll       *)
(* thread, is the only producer.  m_iRecvMsgQueueCount always equals the   *)
(* length of m_MsgRecvQueue outside m_pthreadMutex and is written so; a    *)
(* pthread_create that fails ends the process and is left out.             *)
(***************************************************************************)
EXTENDS Integers, Sequences, FiniteSets

CONSTANTS
  Threads,   \* the pool's threads
  Main,      \* the thread that creates the pool and feeds it
  Null,      \* nobody, no message
  MaxMsgs,   \* bound: messages ever received
  Stops      \* whether the worker leaves its loop and calls StopAll

Messages == 1..MaxMsgs

ASSUME ThreadPoolAssumption ==
  /\ IsFiniteSet(Threads)
  /\ Main \notin Threads /\ Null \notin Threads /\ Main # Null
  /\ MaxMsgs \in Nat /\ Null \notin Messages
  /\ Stops \in BOOLEAN

VARIABLES
  m_MsgRecvQueue,
  mutex,                 \* owner of m_pthreadMutex
  waiting,               \* threads blocked on m_pthreadCond
  m_shutdown,
  m_iRunningThreadNum,
  ifrunning,             \* the flag of each ThreadItem
  pc, job,               \* where each thread is, and the message it works on
  next,                  \* the next message
  heap,                  \* messages allocated and not freed
  handled                \* history: messages threadRecvProcFunc is done with

threadVars == <<pc, job, ifrunning>>
syncVars == <<mutex, waiting, m_shutdown>>
dataVars == <<m_MsgRecvQueue, m_iRunningThreadNum, next, heap, handled>>
vars == <<threadVars, syncVars, dataVars>>

All == Threads \cup {Main}
PoolPCs == {"new", "lock", "check", "enter", "wait", "test", "count", "work",
            "free", "end", "exit"}
MainPCs == {"create", "ready", "lock", "push", "signal", "broadcast", "join",
            "destroy", "clear", "gone"}

TypeOK ==
  /\ m_MsgRecvQueue \in Seq(Messages)
  /\ mutex \in All \cup {Null}
  /\ waiting \subseteq Threads
  /\ m_shutdown \in BOOLEAN
  /\ m_iRunningThreadNum \in 0..Cardinality(Threads)
  /\ ifrunning \in [Threads -> BOOLEAN]
  /\ pc \in [All -> PoolPCs \cup MainPCs]
  /\ \A t \in Threads : pc[t] \in PoolPCs
  /\ pc[Main] \in MainPCs
  /\ job \in [Threads -> Messages \cup {Null}]
  /\ next \in 1..(MaxMsgs + 1)
  /\ heap \subseteq Messages
  /\ handled \subseteq Messages

Init ==
  /\ m_MsgRecvQueue = <<>>
  /\ mutex = Null
  /\ waiting = {}
  /\ m_shutdown = FALSE
  /\ m_iRunningThreadNum = 0
  /\ ifrunning = [t \in Threads |-> FALSE]
  /\ pc = [t \in All |-> IF t = Main THEN "create" ELSE "new"]
  /\ job = [t \in Threads |-> Null]
  /\ next = 1
  /\ heap = {}
  /\ handled = {}

-----------------------------------------------------------------------------
At(t, p) == pc[t] = p
Goto(t, p) == pc' = [pc EXCEPT ![t] = p]

\* pthread_cond_signal: one of the waiting threads, if there is any, goes on to
\* get the mutex back.
Signal == IF waiting = {} THEN UNCHANGED waiting
                          ELSE \E t \in waiting : waiting' = waiting \ {t}

NoSignal == UNCHANGED waiting   \* mutant: the message is queued quietly
CallSignal == Signal

WakeOne == Signal   \* mutant: pthread_cond_signal in place of the broadcast
WakeAll == waiting' = {}

-----------------------------------------------------------------------------
(* Main: Create, then messages, then perhaps StopAll.                      *)

CreateThread(t) ==
  /\ At(Main, "create") /\ At(t, "new")
  /\ Goto(t, "lock")
  /\ UNCHANGED <<job, ifrunning, syncVars, dataVars>>

AllRunning == \A t \in Threads : ifrunning[t]

\* Create looks at the flags, without the mutex, until all of them are set.
Created ==
  /\ At(Main, "create") /\ \A t \in Threads : pc[t] # "new"
  /\ AllRunning
  /\ Goto(Main, "ready")
  /\ UNCHANGED <<job, ifrunning, syncVars, dataVars>>

\* A whole message has been received: inMsgRecvQueueAndSignal is called.
Receive ==
  /\ At(Main, "ready") /\ next =< MaxMsgs
  /\ heap' = heap \cup {next}
  /\ Goto(Main, "lock")
  /\ UNCHANGED <<job, ifrunning, syncVars, m_MsgRecvQueue, m_iRunningThreadNum, next,
                 handled>>

LockForPush ==
  /\ At(Main, "lock") /\ mutex = Null
  /\ mutex' = Main
  /\ Goto(Main, "push")
  /\ UNCHANGED <<job, ifrunning, waiting, m_shutdown, dataVars>>

InMsgRecvQueue ==
  /\ At(Main, "push")
  /\ m_MsgRecvQueue' = Append(m_MsgRecvQueue, next)
  /\ next' = next + 1
  /\ mutex' = Null
  /\ Goto(Main, "signal")
  /\ UNCHANGED <<job, ifrunning, waiting, m_shutdown, m_iRunningThreadNum, heap, handled>>

\* Call: the signal is sent after the mutex was given up.
Call ==
  /\ At(Main, "signal")
  /\ CallSignal
  /\ Goto(Main, "ready")
  /\ UNCHANGED <<job, ifrunning, mutex, m_shutdown, dataVars>>

\* StopAll writes m_shutdown without taking the mutex, so it may do so between
\* the test and the sleep of a thread that has the mutex.
StopAll ==
  /\ At(Main, "ready") /\ Stops
  /\ m_shutdown' = TRUE
  /\ Goto(Main, "broadcast")
  /\ UNCHANGED <<job, ifrunning, mutex, waiting, dataVars>>

Broadcast ==
  /\ At(Main, "broadcast")
  /\ WakeAll
  /\ Goto(Main, "join")
  /\ UNCHANGED <<job, ifrunning, mutex, m_shutdown, dataVars>>

AllEnded == \A t \in Threads : At(t, "exit")

JoinAll ==
  /\ At(Main, "join") /\ AllEnded
  /\ Goto(Main, "destroy")
  /\ UNCHANGED <<job, ifrunning, syncVars, dataVars>>

\* The mutex and the condition variable are destroyed.
Destroy ==
  /\ At(Main, "destroy")
  /\ Goto(Main, "clear")
  /\ UNCHANGED <<job, ifrunning, syncVars, dataVars>>

\* ~CThreadPool, when the process ends.
ClearMsgRecvQueue ==
  /\ At(Main, "clear")
  /\ m_MsgRecvQueue # <<>>
  /\ m_MsgRecvQueue' = Tail(m_MsgRecvQueue)
  /\ heap' = heap \ {Head(m_MsgRecvQueue)}
  /\ UNCHANGED <<threadVars, syncVars, m_iRunningThreadNum, next, handled>>

Cleared ==
  /\ At(Main, "clear")
  /\ m_MsgRecvQueue = <<>>
  /\ Goto(Main, "gone")
  /\ UNCHANGED <<job, ifrunning, syncVars, dataVars>>

MainThread ==
  \/ \E t \in Threads : CreateThread(t)
  \/ Created \/ Receive \/ LockForPush \/ InMsgRecvQueue \/ Call
  \/ StopAll \/ Broadcast \/ JoinAll \/ Destroy \/ ClearMsgRecvQueue \/ Cleared

-----------------------------------------------------------------------------
(* ThreadFunc, in a thread t of the pool.                                  *)

Lock(t) ==
  /\ At(t, "lock") /\ mutex = Null
  /\ mutex' = t
  /\ Goto(t, "check")
  /\ UNCHANGED <<job, ifrunning, waiting, m_shutdown, dataVars>>

\* The condition of the while loop, and the flag Create looks at.
Check(t) ==
  /\ At(t, "check")
  /\ IF m_MsgRecvQueue = <<>> /\ ~m_shutdown
     THEN Goto(t, "enter") /\ ifrunning' = [ifrunning EXCEPT ![t] = TRUE]
     ELSE Goto(t, "test") /\ UNCHANGED ifrunning
  /\ UNCHANGED <<job, syncVars, dataVars>>

\* pthread_cond_wait gives up the mutex and blocks in one step.
CondWait(t) ==
  /\ At(t, "enter")
  /\ waiting' = waiting \cup {t}
  /\ mutex' = Null
  /\ Goto(t, "wait")
  /\ UNCHANGED <<job, ifrunning, m_shutdown, dataVars>>

\* It returns once the thread was woken and has the mutex; back to the while.
Rewoken(t) ==
  /\ At(t, "wait") /\ t \notin waiting /\ mutex = Null
  /\ mutex' = t
  /\ Goto(t, "check")
  /\ UNCHANGED <<job, ifrunning, waiting, m_shutdown, dataVars>>

\* pthread_cond_wait may also be left without a signal.
SpuriousWakeup(t) ==
  /\ t \in waiting
  /\ waiting' = waiting \ {t}
  /\ UNCHANGED <<threadVars, mutex, m_shutdown, dataVars>>

\* After the loop: leave, or take the first message and let go of the mutex.
Leave(t) ==
  /\ At(t, "test") /\ m_shutdown
  /\ mutex' = Null
  /\ Goto(t, "exit")
  /\ UNCHANGED <<job, ifrunning, waiting, m_shutdown, dataVars>>

Peek == UNCHANGED m_MsgRecvQueue   \* mutant: front() without pop_front()
PopFront == m_MsgRecvQueue' = Tail(m_MsgRecvQueue)

Take(t) ==
  /\ At(t, "test") /\ ~m_shutdown
  /\ job' = [job EXCEPT ![t] = Head(m_MsgRecvQueue)]
  /\ PopFront
  /\ mutex' = Null
  /\ Goto(t, "count")
  /\ UNCHANGED <<ifrunning, waiting, m_shutdown, m_iRunningThreadNum, next, heap, handled>>

CountBusy(t) ==
  /\ At(t, "count")
  /\ m_iRunningThreadNum' = m_iRunningThreadNum + 1
  /\ Goto(t, "work")
  /\ UNCHANGED <<job, ifrunning, syncVars, m_MsgRecvQueue, next, heap, handled>>

\* threadRecvProcFunc(jobbuf).
Process(t) ==
  /\ At(t, "work")
  /\ handled' = handled \cup {job[t]}
  /\ Goto(t, "free")
  /\ UNCHANGED <<job, ifrunning, syncVars, m_MsgRecvQueue, m_iRunningThreadNum, next, heap>>

KeepMemory(t) == UNCHANGED heap   \* mutant: jobbuf is not freed
FreeMemory(t) == heap' = heap \ {job[t]}

Free(t) ==
  /\ At(t, "free")
  /\ FreeMemory(t)
  /\ job' = [job EXCEPT ![t] = Null]
  /\ Goto(t, "end")
  /\ UNCHANGED <<ifrunning, syncVars, m_MsgRecvQueue, m_iRunningThreadNum, next, handled>>

CountIdle(t) ==
  /\ At(t, "end")
  /\ m_iRunningThreadNum' = m_iRunningThreadNum - 1
  /\ Goto(t, "lock")
  /\ UNCHANGED <<job, ifrunning, syncVars, m_MsgRecvQueue, next, heap, handled>>

ThreadFunc(t) ==
  \/ Lock(t) \/ Check(t) \/ CondWait(t) \/ Rewoken(t) \/ Leave(t) \/ Take(t)
  \/ CountBusy(t) \/ Process(t) \/ Free(t) \/ CountIdle(t)

-----------------------------------------------------------------------------
Next ==
  \/ MainThread
  \/ \E t \in Threads : ThreadFunc(t) \/ SpuriousWakeup(t)

Spec == Init /\ [][Next]_vars

\* A thread that can run does; one that waits for the mutex gets it if it is
\* free again and again.  No wakeup is owed but the signalled ones, no message
\* has to arrive, and the worker never has to stop.
Fairness ==
  /\ WF_vars(MainThread /\ ~At(Main, "ready"))
  /\ SF_vars(LockForPush)
  /\ \A t \in Threads :
       WF_vars(ThreadFunc(t)) /\ SF_vars(Lock(t)) /\ SF_vars(Rewoken(t))

FairSpec == Spec /\ Fairness

-----------------------------------------------------------------------------
(* Properties.                                                             *)

\* Threads on their way to look at the queue.
Heading(t) == pc[t] \in {"lock", "check", "test"} \/ (At(t, "wait") /\ t \notin waiting)

\* No wakeup is ever lost: while a thread sleeps, every pending message has an
\* awake thread on its way to the queue, or its signal is about to be sent.
NoLostWakeup ==
  waiting # {} /\ ~m_shutdown =>
    Len(m_MsgRecvQueue) =< Cardinality({t \in Threads : Heading(t)})
                             + IF At(Main, "signal") THEN 1 ELSE 0

\* Every message is in one place until it is freed: being received, in the
\* queue, or with the one thread that handles it.
Owned(m) ==
  \/ m = next /\ pc[Main] \in {"lock", "push"}
  \/ \E i \in 1..Len(m_MsgRecvQueue) : m_MsgRecvQueue[i] = m
  \/ \E t \in Threads : job[t] = m
NoLeak == heap = {m \in Messages : Owned(m)}

\* Threads that only a signal would get out of pthread_cond_wait, those included
\* that are past the test of m_shutdown and about to go to sleep.
Asleep(t) == t \in waiting \/ At(t, "enter")

\* While StopAll waits for its threads one of them may be asleep: the one that had
\* the mutex and had found m_shutdown false before StopAll wrote it without the
\* mutex.  There is never a second one, however many threads the broadcast found.
OneLeftAsleep ==
  At(Main, "join") => \A t, u \in Threads : Asleep(t) /\ Asleep(u) => t = u

\* The pool implements the work queue it promises to be.
Queue == INSTANCE WorkQueue WITH
  Width <- Cardinality(Threads),
  pending <- m_MsgRecvQueue,
  started <- {m \in Messages : \E t \in Threads : job[t] = m /\ pc[t] # "free"},
  finished <- handled
QueueSpec == Queue!Spec

\* Every message received is handled, unless the pool is stopped first, although no
\* wakeup but the signalled ones is owed to a thread.
AllHandled ==
  \A m \in Messages : m \in heap ~> m \in handled \/ m_shutdown
=============================================================================
