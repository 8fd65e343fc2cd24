------------------------------ MODULE ConnPool ------------------------------
(***************************************************************************)
(* The connection objects of one worker: initconnection and                *)
(* ngx_get_connection, the accept handler's limits, inRecyConnectQueue,    *)
(* ServerRecyConnectionThread, and the sequence number by which a handler  *)
(* recognises a message of a client that is gone.                          *)
(*                                                                         *)
(* Objects are numbered in the order they enter m_connectionList.  Time is *)
(* kept as ages, in ticks: of an entry of the recycle list, of a message   *)
(* in the receive queue, of a call on a connection.  RecyWait is           *)
(* Sock_RecyConnectionWaitTime; that a call takes at most MaxStall and a   *)
(* message waits at most MaxDelay is assumed of the machine.               *)
(***************************************************************************)
EXTENDS Integers, Sequences, SequencesExt, FiniteSets

CONSTANTS
  WorkerConnections, \* worker_connections
  Listeners,         \* listening sockets of the process
  Main,              \* the epoll thread
  Closers,           \* pool, send and timer threads, which use connections
  RecyWait, MaxStall, MaxDelay,
  MaxObjects,        \* bound: connection objects there is memory for
  MaxClients,        \* bound: clients that ever connect
  MaxRequests        \* bound: messages in the receive queue

ASSUME ConnPoolAssumption ==
  /\ {WorkerConnections, Listeners, RecyWait, MaxStall, MaxDelay, MaxObjects,
      MaxClients, MaxRequests} \subseteq Nat
  /\ 1 =< Listeners /\ Listeners =< WorkerConnections
  /\ WorkerConnections < MaxObjects
  /\ 2 * MaxStall + MaxDelay < RecyWait
  /\ Main \notin Closers

Threads == Closers \cup {Main}
Objects == 1..MaxObjects
Clients == 1..MaxClients
Listening == 0   \* client of the objects of the listening sockets
Nobody == -1

VARIABLES
  m_total_connection_n,  \* length of m_connectionList
  m_freeconnectionList,
  m_recyconnectionList,
  m_onlineUserCount,
  iCurrsequence,         \* of every object
  fdOpen,                \* fd # -1
  client,                \* whose object it is
  recyAge,               \* seconds since inRecyTime, at most RecyWait
  requests,              \* messages received and not yet handled
  stamps,                \* entries of the timer queue, kept for ever
  pc, hold,              \* each thread, and the call it is in
  newc,                  \* the object being set up by the accept handler
  ripe,                  \* entries the recycle thread has found due
  nextClient             \* the next client to connect

poolVars == <<m_total_connection_n, m_freeconnectionList>>
recyVars == <<m_recyconnectionList, recyAge, ripe>>
objectVars == <<iCurrsequence, fdOpen, client>>
threadVars == <<pc, hold>>
vars == <<poolVars, recyVars, objectVars, threadVars, m_onlineUserCount, requests, stamps,
          newc, nextClient>>

Call == [conn : Objects, client : Clients, age : 0..MaxStall]
Stamp == [conn : Objects, client : Clients, seq : Nat]
Request == [conn : Objects, client : Clients, seq : Nat, age : 0..MaxDelay]
NoCall == [conn |-> 0, client |-> Nobody, age |-> 0]

TypeOK ==
  /\ m_total_connection_n \in Objects
  /\ m_freeconnectionList \in Seq(Objects)
  /\ m_recyconnectionList \in Seq(Objects)
  /\ m_onlineUserCount \in Nat
  /\ iCurrsequence \in [Objects -> Nat]
  /\ fdOpen \in [Objects -> BOOLEAN]
  /\ client \in [Objects -> Clients \cup {Listening, Nobody}]
  /\ recyAge \in [Objects -> 0..RecyWait]
  /\ requests \subseteq Request
  /\ stamps \subseteq Stamp
  /\ pc \in [Threads -> {"idle", "call", "recycle", "epollAdd"}]
  /\ hold \in [Threads -> Call \cup {NoCall}]
  /\ newc \in Objects \cup {0}
  /\ ripe \subseteq Objects
  /\ nextClient \in 1..(MaxClients + 1)

\* After ngx_epoll_init: worker_connections objects, of which the first ones
\* were taken for the listening sockets.
Init ==
  /\ m_total_connection_n = WorkerConnections
  /\ m_freeconnectionList = [i \in 1..(WorkerConnections - Listeners) |-> i + Listeners]
  /\ m_recyconnectionList = <<>>
  /\ m_onlineUserCount = 0
  /\ iCurrsequence = [o \in Objects |-> IF o =< Listeners THEN 2
                                        ELSE IF o =< WorkerConnections THEN 1 ELSE 0]
  /\ fdOpen = [o \in Objects |-> o =< Listeners]
  /\ client = [o \in Objects |-> IF o =< Listeners THEN Listening ELSE Nobody]
  /\ recyAge = [o \in Objects |-> 0]
  /\ requests = {}
  /\ stamps = {}
  /\ pc = [t \in Threads |-> "idle"]
  /\ hold = [t \in Threads |-> NoCall]
  /\ newc = 0
  /\ ripe = {}
  /\ nextClient = 1

-----------------------------------------------------------------------------
At(t, p) == pc[t] = p
Goto(t, p) == pc' = [pc EXCEPT ![t] = p]

InRecyList(o) == Contains(m_recyconnectionList, o)

\* Objects of clients that have been set up and not been closed.
Online == {o \in 1..m_total_connection_n :
             client[o] \in Clients /\ ~InRecyList(o) /\ o # newc}

\* t enters, or leaves, a call on the object o for the client k.
Enter(t, o, k) ==
  /\ Goto(t, "call")
  /\ hold' = [hold EXCEPT ![t] = [conn |-> o, client |-> k, age |-> 0]]
Return(t) ==
  /\ Goto(t, "idle")
  /\ hold' = [hold EXCEPT ![t] = NoCall]

-----------------------------------------------------------------------------
(* ngx_event_accept, once a client's socket has been accepted.             *)

TooManyOnline == m_onlineUserCount >= WorkerConnections

LateLimit ==   \* mutant: the pool grows by one more
  /\ m_total_connection_n > WorkerConnections * 5 + 1
  /\ Len(m_freeconnectionList) < WorkerConnections
PoolTooLarge ==
  /\ m_total_connection_n > WorkerConnections * 5
  /\ Len(m_freeconnectionList) < WorkerConnections

\* The new socket is closed at once.
Refuse ==
  /\ At(Main, "idle") /\ nextClient =< MaxClients
  /\ TooManyOnline \/ PoolTooLarge
  /\ nextClient' = nextClient + 1
  /\ UNCHANGED <<poolVars, recyVars, objectVars, threadVars, m_onlineUserCount, requests,
                 stamps, newc>>

\* ngx_get_connection: a free object, or a new one; GetOneToUse starts a new
\* life of it.
GetConnection(o) ==
  \/ /\ m_freeconnectionList # <<>> /\ o = Head(m_freeconnectionList)
     /\ m_freeconnectionList' = Tail(m_freeconnectionList)
     /\ UNCHANGED m_total_connection_n
  \/ /\ m_freeconnectionList = <<>> /\ o = m_total_connection_n + 1
     /\ m_total_connection_n' = o
     /\ UNCHANGED m_freeconnectionList

GetOneToUse(o) == iCurrsequence' = [iCurrsequence EXCEPT ![o] = @ + 1]

Accept ==
  /\ At(Main, "idle") /\ nextClient =< MaxClients
  /\ ~TooManyOnline /\ ~PoolTooLarge
  /\ \E o \in Objects :
       /\ GetConnection(o)
       /\ GetOneToUse(o)
       /\ fdOpen' = [fdOpen EXCEPT ![o] = TRUE]
       /\ client' = [client EXCEPT ![o] = nextClient]
       /\ newc' = o
  /\ nextClient' = nextClient + 1
  /\ Goto(Main, "epollAdd")
  /\ UNCHANGED <<recyVars, hold, m_onlineUserCount, requests, stamps>>

\* The client is watched from now on: AddToTimerQueue, then the count.
EpollAdd ==
  /\ At(Main, "epollAdd")
  /\ stamps' = stamps \cup
       {[conn |-> newc, client |-> client[newc], seq |-> iCurrsequence[newc]]}
  /\ m_onlineUserCount' = m_onlineUserCount + 1
  /\ newc' = 0
  /\ Goto(Main, "idle")
  /\ UNCHANGED <<poolVars, recyVars, objectVars, hold, requests, nextClient>>

\* PutOneToFree, then the back of the free list.
FreeConnection(o) ==
  /\ iCurrsequence' = [iCurrsequence EXCEPT ![o] = @ + 1]
  /\ m_freeconnectionList' = Append(m_freeconnectionList, o)
  /\ client' = [client EXCEPT ![o] = Nobody]

\* Adding the socket to epoll failed: ngx_close_connection.
EpollAddFails ==
  /\ At(Main, "epollAdd")
  /\ FreeConnection(newc)
  /\ fdOpen' = [fdOpen EXCEPT ![newc] = FALSE]
  /\ newc' = 0
  /\ Goto(Main, "idle")
  /\ UNCHANGED <<m_total_connection_n, recyVars, hold, m_onlineUserCount, requests, stamps,
                 nextClient>>

-----------------------------------------------------------------------------
(* Messages: stamped by the main thread, handled by another.               *)

\* The main thread has an epoll event of a client whose socket is open.
Event(o) ==
  /\ At(Main, "idle") /\ client[o] \in Clients /\ fdOpen[o]
  /\ Enter(Main, o, client[o])
  /\ UNCHANGED <<poolVars, recyVars, objectVars, m_onlineUserCount, requests, stamps, newc,
                 nextClient>>

\* The header of a packet has been read: the message carries the sequence number
\* the object has by now.  (Two messages that differ in nothing are one here.)
Received ==
  LET o == hold[Main].conn IN
  /\ At(Main, "call") /\ Cardinality(requests) < MaxRequests
  /\ requests' = requests \cup
       {[conn |-> o, client |-> hold[Main].client, seq |-> iCurrsequence[o], age |-> 0]}
  /\ Return(Main)
  /\ UNCHANGED <<poolVars, recyVars, objectVars, m_onlineUserCount, stamps, newc, nextClient>>

NeverStale(r) == FALSE   \* mutant: threadRecvProcFunc does not compare
Stale(r) == iCurrsequence[r.conn] # r.seq

\* threadRecvProcFunc: the message of a client that is gone is dropped.
Drop(r) ==
  /\ r \in requests /\ Stale(r)
  /\ requests' = requests \ {r}
  /\ UNCHANGED <<poolVars, recyVars, objectVars, threadVars, m_onlineUserCount, stamps, newc,
                 nextClient>>

Handle(t, r) ==
  /\ At(t, "idle") /\ r \in requests /\ ~Stale(r)
  /\ requests' = requests \ {r}
  /\ Enter(t, r.conn, r.client)
  /\ UNCHANGED <<poolVars, recyVars, objectVars, m_onlineUserCount, stamps, newc, nextClient>>

\* It is handled, and a reply with the same header waits in the send queue.
Answer(t, r) ==
  /\ At(t, "idle") /\ r \in requests /\ ~Stale(r)
  /\ Enter(t, r.conn, r.client)
  /\ UNCHANGED <<poolVars, recyVars, objectVars, m_onlineUserCount, requests, stamps, newc,
                 nextClient>>

\* Any later look at a connection by a number taken while the client was there:
\* the timer thread's, or the send thread's.
CheckConnection(t, r) ==
  /\ At(t, "idle") /\ r \in stamps /\ ~Stale(r)
  /\ Enter(t, r.conn, r.client)
  /\ UNCHANGED <<poolVars, recyVars, objectVars, m_onlineUserCount, requests, stamps, newc,
                 nextClient>>

\* The call ends without closing anything.
Done(t) ==
  /\ At(t, "call")
  /\ Return(t)
  /\ UNCHANGED <<poolVars, recyVars, objectVars, m_onlineUserCount, requests, stamps, newc,
                 nextClient>>

\* zdClosesocketProc: the socket, then the recycle list.
CloseSocket(t) ==
  /\ At(t, "call")
  /\ fdOpen' = [fdOpen EXCEPT ![hold[t].conn] = FALSE]
  /\ Goto(t, "recycle")
  /\ UNCHANGED <<poolVars, recyVars, iCurrsequence, client, hold, m_onlineUserCount,
                 requests, stamps, newc, nextClient>>

NotLookedFor(o) == FALSE   \* mutant: the list is not searched
AlreadyIn(o) == InRecyList(o)

CountKept == UNCHANGED m_onlineUserCount   \* mutant: no --m_onlineUserCount
CountOffline == m_onlineUserCount' = m_onlineUserCount - 1

\* m_recyconnqueueMutex is free unless the recycle thread is freeing entries.
InRecyConnectQueue(t) ==
  LET o == hold[t].conn IN
  /\ At(t, "recycle") /\ ripe = {}
  /\ IF AlreadyIn(o)
     THEN UNCHANGED <<m_recyconnectionList, recyAge, iCurrsequence, m_onlineUserCount>>
     ELSE /\ recyAge' = [recyAge EXCEPT ![o] = 0]
          /\ iCurrsequence' = [iCurrsequence EXCEPT ![o] = @ + 1]
          /\ m_recyconnectionList' = Append(m_recyconnectionList, o)
          /\ CountOffline
  /\ Return(t)
  /\ UNCHANGED <<poolVars, ripe, fdOpen, client, requests, stamps, newc, nextClient>>

-----------------------------------------------------------------------------
(* ServerRecyConnectionThread.                                             *)

AtOnce(o) == TRUE   \* mutant: nothing waits
NotEver(o) == FALSE   \* mutant: nothing is given back
Due(o) == recyAge[o] >= RecyWait

\* Under the list's mutex, with the time read just before: the entries due.
RecyScan ==
  /\ ripe = {}
  /\ ripe' = {o \in Objects : InRecyList(o) /\ Due(o)}
  /\ ripe' # {}
  /\ UNCHANGED <<poolVars, m_recyconnectionList, recyAge, objectVars, threadVars,
                 m_onlineUserCount, requests, stamps, newc, nextClient>>

\* The first of them is erased and given back to the pool.
RecyFree ==
  /\ \E i \in 1..Len(m_recyconnectionList) :
       /\ m_recyconnectionList[i] \in ripe
       /\ \A j \in 1..(i - 1) : m_recyconnectionList[j] \notin ripe
       /\ m_recyconnectionList' = RemoveAt(m_recyconnectionList, i)
       /\ FreeConnection(m_recyconnectionList[i])
       /\ ripe' = ripe \ {m_recyconnectionList[i]}
  /\ UNCHANGED <<m_total_connection_n, recyAge, fdOpen, threadVars, m_onlineUserCount,
                 requests, stamps, newc, nextClient>>

-----------------------------------------------------------------------------
\* A second passes, unless that would make a call or a message too old.
Older(n, max) == IF n < max THEN n + 1 ELSE n
Tick ==
  /\ \A t \in Threads : pc[t] # "idle" => hold[t].age < MaxStall
  /\ \A r \in requests : r.age < MaxDelay
  /\ recyAge' = [o \in Objects |-> IF InRecyList(o) THEN Older(recyAge[o], RecyWait)
                                                    ELSE recyAge[o]]
  /\ hold' = [t \in Threads |-> IF hold[t] = NoCall THEN NoCall
                                ELSE [hold[t] EXCEPT !.age = @ + 1]]
  /\ requests' = {[r EXCEPT !.age = @ + 1] : r \in requests}
  /\ UNCHANGED <<poolVars, m_recyconnectionList, ripe, objectVars, pc, m_onlineUserCount,
                 stamps, newc, nextClient>>

AcceptHandler == Refuse \/ Accept \/ EpollAdd \/ EpollAddFails
RecycleThread == RecyScan \/ RecyFree

Next ==
  \/ AcceptHandler \/ Received \/ RecycleThread \/ Tick
  \/ \E o \in Objects : Event(o)
  \/ \E r \in stamps : \E t \in Closers : CheckConnection(t, r)
  \/ \E r \in requests : Drop(r) \/ \E t \in Closers : Handle(t, r) \/ Answer(t, r)
  \/ \E t \in Threads : Done(t) \/ CloseSocket(t) \/ InRecyConnectQueue(t)

Spec == Init /\ [][Next]_vars

\* Time passes, the recycle thread runs, no message waits and no call lasts for
\* ever.
Fairness ==
  /\ SF_vars(Tick)
  /\ WF_vars(RecycleThread)
  /\ WF_vars(EpollAdd \/ EpollAddFails)
  /\ SF_vars(\E r \in requests : Drop(r) \/ \E t \in Closers : Handle(t, r))
  /\ \A t \in Threads : WF_vars(Done(t) \/ InRecyConnectQueue(t))

FairSpec == Spec /\ Fairness

-----------------------------------------------------------------------------
(* Properties.                                                             *)

Occurrences(s, o) == Cardinality({i \in 1..Len(s) : s[i] = o})

\* Every object of the pool is in one place: with a listening socket or a client
\* that is online, in the recycle list, or in the free list, and there once.
EachObjectOnce ==
  \A o \in 1..m_total_connection_n :
    IF client[o] = Nobody
    THEN Occurrences(m_freeconnectionList, o) = 1 /\ ~InRecyList(o)
    ELSE /\ Occurrences(m_freeconnectionList, o) = 0
         /\ Occurrences(m_recyconnectionList, o) =< 1
         /\ client[o] = Listening => ~InRecyList(o)

\* m_onlineUserCount is the number of clients that have an object and are not in
\* the recycle list, and stays within worker_connections: the limit neither
\* shuts clients out for ever nor lets in more and more of them.
OnlineExact ==
  /\ m_onlineUserCount = Cardinality(Online)
  /\ m_onlineUserCount =< WorkerConnections

\* However fast clients come and go, the pool grows to one object more than five
\* times worker_connections and no further.
PoolBounded == m_total_connection_n =< 5 * WorkerConnections + 1

\* While a thread is in a call for one client, the object is not given to
\* another: the delay of the recycle list outlasts every call and message.
CallKeepsObject ==
  \A t \in Threads : hold[t] # NoCall => client[hold[t].conn] = hold[t].client

\* A message that carries the number its object has now is of the client that the
\* object still is kept for, however long ago the number was taken.
SequenceTells ==
  \A r \in requests \cup stamps : ~Stale(r) => client[r.conn] = r.client

\* A pool that was found too large accepts clients again.
AcceptsAgain == PoolTooLarge ~> ~PoolTooLarge
=============================================================================
