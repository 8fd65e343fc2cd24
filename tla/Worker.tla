------------------------------- MODULE Worker -------------------------------
(***************************************************************************)
(* The threads of one worker together, as far as they lock mutexes and use *)
(* descriptors: what each holds while it asks for the next, and who closes *)
(* which number.  What is done to the queues under the mutexes is the      *)
(* business of SendQueue, ThreadPool, ConnPool and TimerQueue.             *)
(*                                                                         *)
(* A piece of code is the sequence of its steps.  todo is what a thread    *)
(* has still to do; it chooses a way through the code when it begins.      *)
(***************************************************************************)
EXTENDS Integers, Sequences, FiniteSets, FiniteSetsExt

CONSTANTS
  Conns,     \* connection objects
  Main,      \* the epoll thread
  Pool,      \* threads of the pool
  Send, Timer, Recycle,
  Null,
  MaxFd      \* bound: the descriptors 1..MaxFd may be given to clients

Threads == Pool \cup {Main, Send, Timer, Recycle}
\* A connection stands for its logicPorcMutex.
\* m_pthreadMutex is ThreadPool's: no thread locks another one with it.
Mutexes == Conns \cup {"m_sendMessageQueueMutex", "m_timequeueMutex",
                       "m_recyconnqueueMutex", "m_connectionMutex"}
Numbers == 1..MaxFd

ASSUME WorkerAssumption ==
  /\ IsFiniteSet(Pool) /\ Cardinality({Main, Send, Timer, Recycle}) = 4
  /\ Pool \cap {Main, Send, Timer, Recycle} = {}
  /\ Null \notin Threads \cup Conns
  /\ Conns \cap {"m_sendMessageQueueMutex", "m_timequeueMutex",
                "m_recyconnqueueMutex", "m_connectionMutex"} = {}
  /\ MaxFd \in Nat

VARIABLES
  mutex,    \* the owner of each mutex
  todo, on, \* of each thread: its next steps, the connection it works on
  seen,     \* the number a thread found in fd and is about to close, or -1
  fd,       \* of each connection
  place,    \* where each connection is
  open,     \* descriptors open in the kernel
  s,        \* local of ngx_event_accept, or -1
  clash     \* history: two threads have been closing one connection at once

vars == <<mutex, todo, on, seen, fd, place, open, s, clash>>

Init ==
  /\ mutex = [m \in Mutexes |-> Null]
  /\ todo = [t \in Threads |-> <<>>]
  /\ on = [t \in Threads |-> Null]
  /\ seen = [t \in Threads |-> -1]
  /\ fd = [o \in Conns |-> -1]
  /\ place = [o \in Conns |-> "free"]
  /\ open = {} /\ s = -1 /\ clash = FALSE

-----------------------------------------------------------------------------
(* The code.                                                               *)

Do(step) == <<<<step, Null>>>>
CLock(m, body) == <<<<"lock", m>>>> \o body \o <<<<"unlock", m>>>>

CloseFd == Do("test") \o Do("close") \o Do("unset")
DeleteFromTimerQueue == CLock("m_timequeueMutex", <<>>)
inRecyConnectQueue == CLock("m_recyconnqueueMutex", Do("recycle"))
zdClosesocketProc == DeleteFromTimerQueue \o CloseFd \o inRecyConnectQueue

\* The message is queued or dropped, or the client has too many of them.
msgSend == {CLock("m_sendMessageQueueMutex", body) : body \in {<<>>, zdClosesocketProc}}

\* What threadRecvProcFunc calls; it has returned before if the message is bad.
Handler(o) == {CLock(o, body) : body \in msgSend}

ngx_get_connection == CLock("m_connectionMutex", Do("get"))
ngx_free_connection == CLock("m_connectionMutex", Do("free"))
ngx_close_connection == ngx_free_connection \o CloseFd
AddToTimerQueue == CLock("m_timequeueMutex", Do("add"))

\* After accept4: too many clients; epoll_ctl fails; all is well.
ngx_event_accept ==
  {Do("refuse"), ngx_get_connection \o ngx_close_connection,
   ngx_get_connection \o AddToTimerQueue}

\* mutant: the entries are examined before the mutex is given back
CheckedLocked == {CLock("m_timequeueMutex", zdClosesocketProc)}

\* The due entries are taken under the mutex, and examined after it.
TimerThread ==
  {CLock("m_timequeueMutex", <<>>) \o check : check \in {<<>>, zdClosesocketProc}}

RecycleThread == CLock("m_recyconnqueueMutex", ngx_free_connection)

-----------------------------------------------------------------------------
(* The steps.                                                              *)

At(t, step) == todo[t] # <<>> /\ Head(todo[t])[1] = step
Idle(t) == todo[t] = <<>>
Advance(t) == todo' = [todo EXCEPT ![t] = Tail(@)]

Begin(t, code, o) ==
  /\ Idle(t)
  /\ todo' = [todo EXCEPT ![t] = code]
  /\ on' = [on EXCEPT ![t] = o]
  /\ UNCHANGED <<mutex, seen, fd, place, clash>>

\* accept4 gives the smallest number that is free.  (Objects: bounded by Conns.)
Accept ==
  /\ Numbers \ open # {} /\ \E o \in Conns : place[o] = "free"
  /\ s' = Min(Numbers \ open)
  /\ open' = open \cup {s'}
  /\ \E code \in ngx_event_accept : Begin(Main, code, Null)

\* A thread begins to work on a connection that is there: the epoll thread when recv
\* fails or finds a flood, a pool thread for a message, the timer thread for an entry.
Used == {o \in Conns : place[o] = "used"}
Call ==
  /\ \E o \in Used :
       \/ Begin(Main, zdClosesocketProc, o)
       \/ \E t \in Pool, code \in Handler(o) : Begin(t, code, o)
       \/ \E code \in TimerThread : Begin(Timer, code, o)
  /\ UNCHANGED <<open, s>>

\* ServerSendQueueThread sends with the mutex, and closes nothing.
SendTurn ==
  /\ Begin(Send, CLock("m_sendMessageQueueMutex", <<>>), Null)
  /\ UNCHANGED <<open, s>>

\* The delay is over, which outlasts every call on the connection (see ConnPool).
RecycleTurn ==
  /\ \E o \in Conns :
       /\ place[o] = "recycle" /\ \A t \in Threads : on[t] = o => Idle(t)
       /\ Begin(Recycle, RecycleThread, o)
  /\ UNCHANGED <<open, s>>

Lock(t) ==
  /\ At(t, "lock") /\ mutex[Head(todo[t])[2]] = Null
  /\ mutex' = [mutex EXCEPT ![Head(todo[t])[2]] = t]
  /\ Advance(t)
  /\ UNCHANGED <<on, seen, fd, place, open, s, clash>>

Unlock(t) ==
  /\ At(t, "unlock")
  /\ mutex' = [mutex EXCEPT ![Head(todo[t])[2]] = Null]
  /\ Advance(t)
  /\ UNCHANGED <<on, seen, fd, place, open, s, clash>>

Closers(o) == {t \in Threads : on[t] = o /\ seen[t] # -1}

\* if (p_Conn->fd != -1)
Test(t) ==
  LET o == on[t] IN
  /\ At(t, "test")
  /\ IF fd[o] = -1
     THEN /\ todo' = [todo EXCEPT ![t] = SubSeq(@, 4, Len(@))]
          /\ UNCHANGED <<seen, clash>>
     ELSE /\ Advance(t)
          /\ seen' = [seen EXCEPT ![t] = fd[o]]
          /\ clash' = (clash \/ Closers(o) # {})
  /\ UNCHANGED <<mutex, on, fd, place, open, s>>

\* close(p_Conn->fd): the number seen, or what is there by now; fd is no atomic.
Close(t) ==
  /\ At(t, "close")
  /\ \E n \in {seen[t], fd[on[t]]} : open' = open \ {n}
  /\ Advance(t)
  /\ UNCHANGED <<mutex, on, seen, fd, place, s, clash>>

\* mutant: fd keeps its number
NotUnset(t) ==
  /\ At(t, "unset")
  /\ seen' = [seen EXCEPT ![t] = -1]
  /\ Advance(t)
  /\ UNCHANGED <<mutex, on, fd, place, open, s, clash>>

Unset(t) ==
  /\ At(t, "unset")
  /\ fd' = [fd EXCEPT ![on[t]] = -1]
  /\ seen' = [seen EXCEPT ![t] = -1]
  /\ Advance(t)
  /\ UNCHANGED <<mutex, on, place, open, s, clash>>

\* mutant: the refused socket stays open
Forget ==
  /\ At(Main, "refuse")
  /\ s' = -1
  /\ Advance(Main)
  /\ UNCHANGED <<mutex, on, seen, fd, place, open, clash>>

Refuse ==
  /\ At(Main, "refuse")
  /\ open' = open \ {s} /\ s' = -1
  /\ Advance(Main)
  /\ UNCHANGED <<mutex, on, seen, fd, place, clash>>

Get ==
  /\ At(Main, "get")
  /\ \E o \in Conns :
       /\ place[o] = "free"
       /\ place' = [place EXCEPT ![o] = "new"]
       /\ on' = [on EXCEPT ![Main] = o]
       /\ fd' = [fd EXCEPT ![o] = s]
  /\ s' = -1
  /\ Advance(Main)
  /\ UNCHANGED <<mutex, seen, open, clash>>

Moves == [add |-> "used", recycle |-> "recycle", free |-> "free"]
Move(t) ==
  /\ \E step \in DOMAIN Moves :
       At(t, step) /\ place' = [place EXCEPT ![on[t]] = Moves[step]]
  /\ Advance(t)
  /\ UNCHANGED <<mutex, on, seen, fd, open, s, clash>>

Run(t) == Lock(t) \/ Unlock(t) \/ Test(t) \/ Close(t) \/ Unset(t) \/ Move(t)

Next ==
  \/ Accept \/ Call \/ SendTurn \/ RecycleTurn
  \/ Refuse \/ Get \/ \E t \in Threads : Run(t)

Spec == Init /\ [][Next]_vars

-----------------------------------------------------------------------------
(* Properties.                                                             *)

\* t asks for a mutex that u holds.
WaitsFor(t, u) == At(t, "lock") /\ mutex[Head(todo[t])[2]] = u

\* No threads wait for each other in a circle, nor one for itself, although a
\* handler holds logicPorcMutex and the send queue's mutex while it closes, and the
\* recycle thread the recycle list's while it locks the pool.
NoDeadlock ==
  \A S \in (SUBSET Threads) \ {{}} : \E t \in S : \A u \in S : ~WaitsFor(t, u)

\* Every descriptor that is open is one that a connection still has or that is
\* being accepted; whoever closes, and in whatever order, none is left behind.
NoFdLeak == open \subseteq {fd[o] : o \in Conns} \cup {s}

\* As long as no two threads have closed one connection at the same time, a
\* number belongs to the connection that has it, until that one closes it.
FdOwned ==
  ~clash =>
    \A o \in Conns : fd[o] # -1 /\ Closers(o) = {} =>
      /\ fd[o] \in open
      /\ \A p \in Conns \ {o} : fd[p] = fd[o] => Closers(p) # {}
=============================================================================
