------------------------------ MODULE SendQueue ------------------------------
(***************************************************************************)
(* The sending half of one worker process: msgSend (called by the pool     *)
(* threads), ServerSendQueueThread, the main thread's epoll dispatch with  *)
(* ngx_write_request_handler, and zdClosesocketProc, which pool threads    *)
(* call with the mutex of the queue held, the main thread and the timer    *)
(* thread without.  The connection objects, the send queue and the         *)
(* semaphore are shared; only the queue is under m_sendMessageQueueMutex,  *)
(* so every access of another thread to a connection is a step of its own. *)
(*                                                                         *)
(* m_iSendMsgQueueCount always equals the queue's length outside the       *)
(* mutex and is written Len(MsgSendQueue).  A packet is an identifier and  *)
(* MsgLen units; send() moves units.  A connection is released by the      *)
(* recycle thread only once no thread is in the middle of a call on it:    *)
(* that is what RecyConnectionWaitTime (150 s) buys, see ConnPool.         *)
(***************************************************************************)
EXTENDS Integers, Sequences, SequencesExt, FiniteSets

CONSTANTS
  Conns,        \* connection objects
  Workers,      \* threads of the pool, which call msgSend
  Main, Sender, \* the epoll thread and the send thread
  Timer,        \* the timer thread, which throws out clients that are silent
  Null,         \* no connection, no packet
  MsgLen,       \* units of a packet
  QueueCap,     \* 50000 in msgSend
  SendCap,      \* 400 in msgSend
  MaxMsgs,      \* bound: packets ever submitted
  MaxSeq,       \* bound: iCurrsequence of a connection
  MaxUnread,    \* bound: reads before a closing peer's end of file is seen
  PartialSend,  \* whether the socket buffer can fill up
  PeerCloses,   \* whether clients close or reset
  Floods,       \* whether the read handler kicks a client that still is up
  TimerKicks    \* m_ifkickTimeCount: whether the timer thread runs

Closers == Workers \cup {Main, Timer}
Threads == Workers \cup {Main, Sender, Timer}
Ids == 1..MaxMsgs
Packet == [id : Ids, conn : Conns, seq : Nat]

ASSUME SendQueueAssumption ==
  /\ Main # Sender /\ Main # Timer /\ Sender # Timer
  /\ Workers \cap {Main, Sender, Timer} = {}
  /\ Null \notin Conns /\ Null \notin Threads /\ Null \notin Ids /\ Null \notin Packet
  /\ MsgLen \in Nat \ {0}
  /\ {QueueCap, SendCap, MaxMsgs, MaxSeq, MaxUnread} \subseteq Nat
  /\ {PartialSend, PeerCloses, Floods, TimerKicks} \subseteq BOOLEAN

VARIABLES
  MsgSendQueue,     \* m_MsgSendQueue
  semaphore,        \* m_semEventSendQueue
  mutex,            \* owner of m_sendMessageQueueMutex
  heap,             \* packets allocated and not freed
  nextId,           \* the next packet
  iCurrsequence, fd, iThrowsendCount, iSendCount,
  psendMemPointer, psendbuf, isendlen, events,   \* fields of a connection
  slot,             \* in use, in the recycle list, or free
  peer, unread,     \* the client's side of the socket
  pc, arg,          \* where each thread is, and with which connection
  msg,              \* a pool thread's packet
  pos, sent,        \* the send thread's list position and send() result
  event,            \* the epoll event the main thread is dispatching
  accepted, wire    \* history: packets queued, units written, in this life

connVars == <<iCurrsequence, fd, iThrowsendCount, iSendCount, psendMemPointer,
              psendbuf, isendlen, events, slot>>
queueVars == <<MsgSendQueue, semaphore, mutex, heap, nextId>>
threadVars == <<pc, arg, msg, pos, sent, event>>
peerVars == <<peer, unread>>
history == <<accepted, wire>>
vars == <<queueVars, connVars, threadVars, peerVars, history>>

-----------------------------------------------------------------------------
NoEvent == [in |-> FALSE, out |-> FALSE, hup |-> FALSE]
PCs == {"idle", "lock", "body", "push", "post", "closefd", "decTest", "dec", "recycle",
        "unlock", "wait", "mutex", "scan", "throw", "send", "after", "null",
        "arm", "read", "out", "wsend", "wpost", "wfree", "wnull", "wdec"}

QueueTypeOK ==
  /\ MsgSendQueue \in Seq(Packet)
  /\ semaphore \in Nat
  /\ mutex \in Threads \cup {Null}
  /\ heap \subseteq Ids
  /\ nextId \in 1..(MaxMsgs + 1)

ConnTypeOK ==
  /\ iCurrsequence \in [Conns -> Nat]
  /\ fd \in [Conns -> BOOLEAN]
  /\ iThrowsendCount \in [Conns -> Int]
  /\ iSendCount \in [Conns -> Int]
  /\ psendMemPointer \in [Conns -> Ids \cup {Null}]
  /\ psendbuf \in [Conns -> Ids \cup {Null}]
  /\ isendlen \in [Conns -> Int]
  /\ events \in [Conns -> BOOLEAN]
  /\ slot \in [Conns -> {"used", "recy", "free"}]

ThreadTypeOK ==
  /\ pc \in [Threads -> PCs]
  /\ arg \in [Threads -> Conns \cup {Null}]
  /\ msg \in [Workers -> Packet \cup {Null}]
  /\ pos \in Nat \ {0}
  /\ sent \in Int
  /\ event \in [in : BOOLEAN, out : BOOLEAN, hup : BOOLEAN]

PeerTypeOK ==
  /\ peer \in [Conns -> {"up", "closed", "reset"}]
  /\ unread \in [Conns -> 0..MaxUnread]

HistoryTypeOK ==
  /\ accepted \in [Conns -> Seq(Ids)]
  /\ wire \in [Conns -> Seq(Ids \cup {Null})]

TypeOK == QueueTypeOK /\ ConnTypeOK /\ ThreadTypeOK /\ PeerTypeOK /\ HistoryTypeOK

\* One connection accepted per slot at the start: the accept path is ConnPool's.
Init ==
  /\ MsgSendQueue = <<>>
  /\ semaphore = 0
  /\ mutex = Null
  /\ heap = {}
  /\ nextId = 1
  /\ iCurrsequence = [c \in Conns |-> 1]
  /\ fd = [c \in Conns |-> TRUE]
  /\ iThrowsendCount = [c \in Conns |-> 0]
  /\ iSendCount = [c \in Conns |-> 0]
  /\ psendMemPointer = [c \in Conns |-> Null]
  /\ psendbuf = [c \in Conns |-> Null]
  /\ isendlen = [c \in Conns |-> 0]
  /\ events = [c \in Conns |-> FALSE]
  /\ slot = [c \in Conns |-> "used"]
  /\ peer = [c \in Conns |-> "up"]
  /\ unread = [c \in Conns |-> 0]
  /\ pc = [t \in Threads |-> IF t = Sender THEN "wait" ELSE "idle"]
  /\ arg = [t \in Threads |-> Null]
  /\ msg = [w \in Workers |-> Null]
  /\ pos = 1
  /\ sent = 0
  /\ event = NoEvent
  /\ accepted = [c \in Conns |-> <<>>]
  /\ wire = [c \in Conns |-> <<>>]

-----------------------------------------------------------------------------
(* Helpers.                                                                *)

At(t, p) == pc[t] = p
Goto(t, p) == pc' = [pc EXCEPT ![t] = p]

\* The thread ends its call on a connection.
Leave(t, p) ==
  /\ Goto(t, p)
  /\ arg' = [arg EXCEPT ![t] = Null]

\* FreeMemory: deleting the null pointer is a no-op.
FreeMemory(m) == heap' = heap \ {m}

\* erase(): the i-th entry leaves the send queue.
EraseAt(i) == MsgSendQueue' = RemoveAt(MsgSendQueue, i)

\* sendproc(): what send() may return for the isendlen units of c.  A closed
\* or reset socket is an error (-2); a full buffer is -1 (EAGAIN) or a part.
SendResults(c) ==
  IF ~fd[c] \/ peer[c] = "reset"
  THEN {-2}
  ELSE {isendlen[c]} \cup IF PartialSend THEN {-1} \cup 1..(isendlen[c] - 1) ELSE {}

\* n units of the packet at psendbuf leave through the socket of c.
Put(c, n) ==
  wire' = [wire EXCEPT ![c] = @ \o [i \in 1..n |-> psendbuf[c]]]

-----------------------------------------------------------------------------
(* msgSend, in a pool thread w.                                            *)

\* A handler has built a reply for a request of c: the header it copies holds
\* the sequence number the connection had when the request was read.
BeginReply(w, c) ==
  /\ At(w, "idle") /\ nextId =< MaxMsgs
  /\ slot[c] = "used" /\ fd[c]
  /\ msg' = [msg EXCEPT ![w] = [id |-> nextId, conn |-> c, seq |-> iCurrsequence[c]]]
  /\ heap' = heap \cup {nextId}
  /\ nextId' = nextId + 1
  /\ Goto(w, "lock")
  /\ UNCHANGED <<MsgSendQueue, semaphore, mutex, connVars, arg, pos, sent, event,
                 peerVars, history>>

MsgSendLock(w) ==
  /\ At(w, "lock") /\ mutex = Null
  /\ mutex' = w
  /\ Goto(w, "body")
  /\ UNCHANGED <<MsgSendQueue, semaphore, heap, nextId, connVars, arg, msg, pos,
                 sent, event, peerVars, history>>

QueueFull == Len(MsgSendQueue) > QueueCap
LooseTooManyQueued(c) == iSendCount[c] > SendCap + 1   \* mutant: one too many
TooManyQueued(c) == iSendCount[c] > SendCap

\* The whole queue is too long: the packet is dropped.
MsgSendDiscard(w) ==
  /\ At(w, "body") /\ QueueFull
  /\ FreeMemory(msg[w].id)
  /\ Goto(w, "unlock")
  /\ UNCHANGED <<MsgSendQueue, semaphore, mutex, nextId, connVars, arg, msg, pos,
                 sent, event, peerVars, history>>

\* This client takes its replies too slowly: drop the packet, close it.
MsgSendKick(w) ==
  /\ At(w, "body") /\ ~QueueFull /\ TooManyQueued(msg[w].conn)
  /\ FreeMemory(msg[w].id)
  /\ arg' = [arg EXCEPT ![w] = msg[w].conn]
  /\ Goto(w, "closefd")
  /\ UNCHANGED <<MsgSendQueue, semaphore, mutex, nextId, connVars, msg, pos, sent,
                 event, peerVars, history>>

MsgSendAdmit(w) ==
  /\ At(w, "body") /\ ~QueueFull /\ ~TooManyQueued(msg[w].conn)
  /\ Goto(w, "push")
  /\ UNCHANGED <<queueVars, connVars, arg, msg, pos, sent, event, peerVars, history>>

PushFront(m) == MsgSendQueue' = <<m>> \o MsgSendQueue   \* mutant: a stack
Push(m) == MsgSendQueue' = Append(MsgSendQueue, m)
CountQueued(c) == iSendCount' = [iSendCount EXCEPT ![c] = @ + 1]

MsgSendPush(w) ==
  LET m == msg[w] IN
  /\ At(w, "push")
  /\ CountQueued(m.conn)
  /\ Push(m)
  /\ accepted' = IF m.seq = iCurrsequence[m.conn]
                 THEN [accepted EXCEPT ![m.conn] = Append(@, m.id)]
                 ELSE accepted
  /\ Goto(w, "post")
  /\ UNCHANGED <<semaphore, mutex, heap, nextId, iCurrsequence, fd, iThrowsendCount,
                 psendMemPointer, psendbuf, isendlen, events, slot, arg, msg, pos,
                 sent, event, peerVars, wire>>

NoPost == UNCHANGED semaphore   \* mutant: the sender is not woken
PostSend == semaphore' = semaphore + 1

\* sem_post, then the CLock's destructor.
MsgSendPost(w) ==
  /\ At(w, "post")
  /\ PostSend
  /\ mutex' = Null
  /\ msg' = [msg EXCEPT ![w] = Null]
  /\ Goto(w, "idle")
  /\ UNCHANGED <<MsgSendQueue, heap, nextId, connVars, arg, pos, sent, event,
                 peerVars, history>>

MsgSendUnlock(w) ==
  /\ At(w, "unlock")
  /\ mutex' = Null
  /\ msg' = [msg EXCEPT ![w] = Null]
  /\ Leave(w, "idle")
  /\ UNCHANGED <<MsgSendQueue, semaphore, heap, nextId, connVars, pos, sent, event,
                 peerVars, history>>

-----------------------------------------------------------------------------
(* zdClosesocketProc(arg[t]), in a pool, the main or the timer thread.     *)

\* close() takes the descriptor out of epoll.
CloseFd(t) ==
  LET c == arg[t] IN
  /\ At(t, "closefd")
  /\ fd' = [fd EXCEPT ![c] = FALSE]
  /\ events' = [events EXCEPT ![c] = FALSE]
  /\ Goto(t, "decTest")
  /\ UNCHANGED <<queueVars, iCurrsequence, iThrowsendCount, iSendCount,
                 psendMemPointer, psendbuf, isendlen, slot, arg, msg, pos, sent,
                 event, peerVars, history>>

DecTest(t) ==
  /\ At(t, "decTest")
  /\ Goto(t, IF iThrowsendCount[arg[t]] > 0 THEN "dec" ELSE "recycle")
  /\ UNCHANGED <<queueVars, connVars, arg, msg, pos, sent, event, peerVars, history>>

Dec(t) ==
  /\ At(t, "dec")
  /\ iThrowsendCount' = [iThrowsendCount EXCEPT ![arg[t]] = @ - 1]
  /\ Goto(t, "recycle")
  /\ UNCHANGED <<queueVars, iCurrsequence, fd, iSendCount, psendMemPointer, psendbuf,
                 isendlen, events, slot, arg, msg, pos, sent, event, peerVars, history>>

\* inRecyConnectQueue under its mutex: once only while it is in the list.
EnterRecycleList(c) ==
  IF slot[c] = "recy"
  THEN UNCHANGED <<slot, iCurrsequence>>
  ELSE /\ slot' = [slot EXCEPT ![c] = "recy"]
       /\ iCurrsequence' = [iCurrsequence EXCEPT ![c] = @ + 1]

InRecyConnectQueue(t) ==
  /\ At(t, "recycle")
  /\ EnterRecycleList(arg[t])
  /\ CASE t \in Workers -> Goto(t, "unlock") /\ UNCHANGED arg
       [] t = Main /\ event.out -> Goto(t, "out") /\ UNCHANGED arg
       [] OTHER -> Leave(t, "idle")
  /\ UNCHANGED <<queueVars, fd, iThrowsendCount, iSendCount, psendMemPointer,
                 psendbuf, isendlen, events, msg, pos, sent, event, peerVars, history>>

ZdClosesocketProc(t) ==
  CloseFd(t) \/ DecTest(t) \/ Dec(t) \/ InRecyConnectQueue(t)

-----------------------------------------------------------------------------
(* ServerSendQueueThread.                                                  *)

CanProceed == semaphore > 0

\* sem_wait, then the unlocked look at m_iSendMsgQueueCount.
SemWait ==
  /\ At(Sender, "wait") /\ CanProceed
  /\ semaphore' = semaphore - 1
  /\ Goto(Sender, IF Len(MsgSendQueue) > 0 THEN "mutex" ELSE "wait")
  /\ UNCHANGED <<MsgSendQueue, mutex, heap, nextId, connVars, arg, msg, pos, sent,
                 event, peerVars, history>>

\* sem_wait interrupted by a signal (EINTR): nothing is taken from the
\* semaphore, and the thread looks at the queue all the same.
SemInterrupted ==
  /\ At(Sender, "wait") /\ Len(MsgSendQueue) > 0
  /\ Goto(Sender, "mutex")
  /\ UNCHANGED <<queueVars, connVars, arg, msg, pos, sent, event, peerVars, history>>

LockQueue ==
  /\ At(Sender, "mutex") /\ mutex = Null
  /\ mutex' = Sender
  /\ pos' = 1
  /\ Goto(Sender, "scan")
  /\ UNCHANGED <<MsgSendQueue, semaphore, heap, nextId, connVars, arg, msg, sent,
                 event, peerVars, history>>

EndOfQueue ==
  /\ At(Sender, "scan") /\ pos > Len(MsgSendQueue)
  /\ mutex' = Null
  /\ pos' = 1
  /\ Goto(Sender, "wait")
  /\ UNCHANGED <<MsgSendQueue, semaphore, heap, nextId, connVars, arg, msg, sent,
                 event, peerVars, history>>

\* The connection was recycled since the request was read.
Expired(m) == iCurrsequence[m.conn] # m.seq

DropExpired ==
  /\ At(Sender, "scan") /\ pos =< Len(MsgSendQueue)
  /\ Expired(MsgSendQueue[pos])
  /\ EraseAt(pos)
  /\ FreeMemory(MsgSendQueue[pos].id)
  /\ UNCHANGED <<semaphore, mutex, nextId, connVars, threadVars, peerVars, history>>

KeepFresh ==
  /\ At(Sender, "scan") /\ pos =< Len(MsgSendQueue)
  /\ ~Expired(MsgSendQueue[pos])
  /\ arg' = [arg EXCEPT ![Sender] = MsgSendQueue[pos].conn]
  /\ Goto(Sender, "throw")
  /\ UNCHANGED <<queueVars, connVars, msg, pos, sent, event, peerVars, history>>

Finished(c) == FALSE   \* mutant: the next packet does not wait
\* An earlier packet of this client is still being written by epoll.
Unfinished(c) == iThrowsendCount[c] > 0

SkipUnfinished ==
  /\ At(Sender, "throw") /\ Unfinished(arg[Sender])
  /\ pos' = pos + 1
  /\ Leave(Sender, "scan")
  /\ UNCHANGED <<queueVars, connVars, msg, sent, event, peerVars, history>>

CountKept(c) == UNCHANGED iSendCount   \* mutant: no --iSendCount
CountTaken(c) == iSendCount' = [iSendCount EXCEPT ![c] = @ - 1]

TakePacket ==
  LET c == arg[Sender]  m == MsgSendQueue[pos] IN
  /\ At(Sender, "throw") /\ ~Unfinished(c)
  /\ CountTaken(c)
  /\ psendMemPointer' = [psendMemPointer EXCEPT ![c] = m.id]
  /\ EraseAt(pos)
  /\ psendbuf' = [psendbuf EXCEPT ![c] = m.id]
  /\ isendlen' = [isendlen EXCEPT ![c] = MsgLen]
  /\ Goto(Sender, "send")
  /\ UNCHANGED <<semaphore, mutex, heap, nextId, iCurrsequence, fd, iThrowsendCount,
                 events, slot, arg, msg, pos, sent, event, peerVars, history>>

SendProc ==
  LET c == arg[Sender] IN
  /\ At(Sender, "send")
  /\ \E r \in SendResults(c) : sent' = r /\ Put(c, r)
  /\ Goto(Sender, "after")
  /\ UNCHANGED <<queueVars, connVars, arg, msg, pos, event, peerVars, accepted>>

\* All of it left, or the peer is gone: the packet is freed either way.
SentAll ==
  LET c == arg[Sender] IN
  /\ At(Sender, "after") /\ sent \in {isendlen[c], -2}
  /\ FreeMemory(psendMemPointer[c])
  /\ Goto(Sender, "null")
  /\ UNCHANGED <<MsgSendQueue, semaphore, mutex, nextId, connVars, arg, msg, pos,
                 sent, event, peerVars, history>>

ClearSent ==
  LET c == arg[Sender] IN
  /\ At(Sender, "null")
  /\ psendMemPointer' = [psendMemPointer EXCEPT ![c] = Null]
  /\ iThrowsendCount' = [iThrowsendCount EXCEPT ![c] = 0]
  /\ Leave(Sender, "scan")
  /\ UNCHANGED <<queueVars, iCurrsequence, fd, iSendCount, psendbuf, isendlen, events,
                 slot, msg, pos, sent, event, peerVars, history>>

\* The socket buffer is full: the rest is left to epoll.
SentPart ==
  LET c == arg[Sender] IN
  /\ At(Sender, "after") /\ sent \notin {isendlen[c], -2}
  /\ isendlen' = [isendlen EXCEPT ![c] = IF sent > 0 THEN @ - sent ELSE @]
  /\ iThrowsendCount' = [iThrowsendCount EXCEPT ![c] = @ + 1]
  /\ Goto(Sender, "arm")
  /\ UNCHANGED <<queueVars, iCurrsequence, fd, iSendCount, psendMemPointer, psendbuf,
                 events, slot, arg, msg, pos, sent, event, peerVars, history>>

\* ngx_epoll_oper_event adds EPOLLOUT, which fails on a closed descriptor.
ArmWrite ==
  LET c == arg[Sender] IN
  /\ At(Sender, "arm")
  /\ events' = [events EXCEPT ![c] = fd[c]]
  /\ Leave(Sender, "scan")
  /\ UNCHANGED <<queueVars, iCurrsequence, fd, iThrowsendCount, iSendCount,
                 psendMemPointer, psendbuf, isendlen, slot, msg, pos, sent, event,
                 peerVars, history>>

ServerSendQueueThread ==
  \/ SemWait \/ LockQueue \/ EndOfQueue \/ DropExpired \/ KeepFresh
  \/ SkipUnfinished \/ TakePacket \/ SendProc \/ SentAll \/ ClearSent
  \/ SentPart \/ ArmWrite

-----------------------------------------------------------------------------
(* The main thread: ngx_epoll_process_events, one event at a time, and the *)
(* handlers it calls.                                                      *)

\* epoll is level triggered: EPOLLOUT is reported only while it is armed, and
\* a peer that closed or reset makes EPOLLRDHUP or EPOLLHUP part of the mask.
EpollWait(c) ==
  /\ At(Main, "idle") /\ fd[c]
  /\ \E in, out \in BOOLEAN :
       /\ in \/ out
       /\ out => events[c]
       /\ peer[c] # "up" => in
       /\ event' = [in |-> in, out |-> out, hup |-> peer[c] # "up"]
       /\ Goto(Main, IF in THEN "read" ELSE "out")
  /\ arg' = [arg EXCEPT ![Main] = c]
  /\ UNCHANGED <<queueVars, connVars, msg, pos, sent, peerVars, history>>

\* After the read handler: the write branch of the same event, if it has one.
NextBranch == IF event.out THEN Goto(Main, "out") /\ UNCHANGED arg
                           ELSE Leave(Main, "idle")

\* recvproc got bytes (what becomes of them is not this module's matter).
ReadData ==
  LET c == arg[Main] IN
  /\ At(Main, "read") /\ fd[c]
  /\ \/ peer[c] = "up" /\ UNCHANGED unread
     \/ /\ peer[c] = "closed" /\ unread[c] > 0
        /\ unread' = [unread EXCEPT ![c] = @ - 1]
  /\ NextBranch
  /\ UNCHANGED <<queueVars, connVars, msg, pos, sent, event, peer, history>>

\* recvproc got end of file or an error, or the client floods: close it.
ReadClose ==
  LET c == arg[Main] IN
  /\ At(Main, "read")
  /\ \/ ~fd[c]
     \/ peer[c] = "reset"
     \/ peer[c] = "closed" /\ unread[c] = 0
     \/ peer[c] = "up" /\ Floods
  /\ Goto(Main, "closefd")
  /\ UNCHANGED <<queueVars, connVars, arg, msg, pos, sent, event, peerVars, history>>

\* The write branch when the mask holds EPOLLERR, EPOLLHUP or EPOLLRDHUP.
HangUp ==
  /\ At(Main, "out") /\ event.hup
  /\ iThrowsendCount' = [iThrowsendCount EXCEPT ![arg[Main]] = @ - 1]
  /\ Leave(Main, "idle")
  /\ UNCHANGED <<queueVars, iCurrsequence, fd, iSendCount, psendMemPointer, psendbuf,
                 isendlen, events, slot, msg, pos, sent, event, peerVars, history>>

\* EPOLLOUT is taken out of epoll once the whole packet has left.
StayArmed(c, r) == UNCHANGED events   \* mutant: it is left in
Disarm(c, r) == events' = [events EXCEPT ![c] = IF r = -2 THEN @ ELSE FALSE]

\* ngx_write_request_handler: one send() of what is left.
WriteHandler ==
  LET c == arg[Main] IN
  /\ At(Main, "out") /\ ~event.hup
  /\ \E r \in SendResults(c) :
       /\ Put(c, r)
       /\ \/ /\ r \in {isendlen[c], -2}
             /\ Disarm(c, r)
             /\ Goto(Main, "wpost")
             /\ UNCHANGED <<isendlen, arg>>
          \/ /\ r \notin {isendlen[c], -2}
             /\ isendlen' = [isendlen EXCEPT ![c] = IF r > 0 THEN @ - r ELSE @]
             /\ Leave(Main, "idle")
             /\ UNCHANGED events
  /\ UNCHANGED <<queueVars, iCurrsequence, fd, iThrowsendCount, iSendCount,
                 psendMemPointer, psendbuf, slot, msg, pos, sent, event, peerVars,
                 accepted>>

\* Its last lines, in the order they are written: sem_post, FreeMemory,
\* psendMemPointer = NULL, --iThrowsendCount.
WritePost ==
  /\ At(Main, "wpost")
  /\ PostSend
  /\ Goto(Main, "wfree")
  /\ UNCHANGED <<MsgSendQueue, mutex, heap, nextId, connVars, arg, msg, pos, sent,
                 event, peerVars, history>>

WriteFree ==
  /\ At(Main, "wfree")
  /\ FreeMemory(psendMemPointer[arg[Main]])
  /\ Goto(Main, "wnull")
  /\ UNCHANGED <<MsgSendQueue, semaphore, mutex, nextId, connVars, arg, msg, pos,
                 sent, event, peerVars, history>>

WriteNull ==
  /\ At(Main, "wnull")
  /\ psendMemPointer' = [psendMemPointer EXCEPT ![arg[Main]] = Null]
  /\ Goto(Main, "wdec")
  /\ UNCHANGED <<queueVars, iCurrsequence, fd, iThrowsendCount, iSendCount, psendbuf,
                 isendlen, events, slot, arg, msg, pos, sent, event, peerVars, history>>

WriteDone(c) == iThrowsendCount' = [iThrowsendCount EXCEPT ![c] = @ - 1]

WriteDec ==
  /\ At(Main, "wdec")
  /\ WriteDone(arg[Main])
  /\ Leave(Main, "idle")
  /\ UNCHANGED <<queueVars, iCurrsequence, fd, iSendCount, psendMemPointer, psendbuf,
                 isendlen, events, slot, msg, pos, sent, event, peerVars, history>>

MainThread ==
  \/ \E c \in Conns : EpollWait(c)
  \/ ReadData \/ ReadClose \/ HangUp \/ WriteHandler
  \/ WritePost \/ WriteFree \/ WriteNull \/ WriteDec

-----------------------------------------------------------------------------
(* The timer thread.                                                       *)

\* procPingTimeOutChecking: c still has the number of the entry, and its client is
\* thrown out.  When is TimerQueue's matter; here, at any time.
ProcPingTimeOutChecking(c) ==
  /\ TimerKicks /\ At(Timer, "idle") /\ slot[c] = "used"
  /\ arg' = [arg EXCEPT ![Timer] = c]
  /\ Goto(Timer, "closefd")
  /\ UNCHANGED <<queueVars, connVars, msg, pos, sent, event, peerVars, history>>

-----------------------------------------------------------------------------
(* The client, and the end of a connection's life.                         *)

PeerClose(c) ==
  /\ PeerCloses /\ peer[c] = "up" /\ fd[c]
  /\ peer' = [peer EXCEPT ![c] = "closed"]
  /\ \E n \in 0..MaxUnread : unread' = [unread EXCEPT ![c] = n]
  /\ UNCHANGED <<queueVars, connVars, threadVars, history>>

PeerReset(c) ==
  /\ PeerCloses /\ peer[c] # "reset" /\ fd[c]
  /\ peer' = [peer EXCEPT ![c] = "reset"]
  /\ unread' = [unread EXCEPT ![c] = 0]
  /\ UNCHANGED <<queueVars, connVars, threadVars, history>>

\* No thread is in a call on c or about to send a reply to it.
Quiet(c) ==
  /\ \A t \in Threads : arg[t] # c
  /\ \A w \in Workers : msg[w] # Null => msg[w].conn # c

\* ServerRecyConnectionThread: ngx_free_connection and PutOneToFree.
Release(c) ==
  /\ slot[c] = "recy" /\ Quiet(c)
  /\ slot' = [slot EXCEPT ![c] = "free"]
  /\ iCurrsequence' = [iCurrsequence EXCEPT ![c] = @ + 1]
  /\ FreeMemory(psendMemPointer[c])
  /\ psendMemPointer' = [psendMemPointer EXCEPT ![c] = Null]
  /\ iThrowsendCount' = [iThrowsendCount EXCEPT ![c] = 0]
  /\ UNCHANGED <<MsgSendQueue, semaphore, mutex, nextId, fd, iSendCount, psendbuf,
                 isendlen, events, threadVars, peerVars, history>>

NewSequence(c) == iCurrsequence' = [iCurrsequence EXCEPT ![c] = @ + 1]

\* ngx_get_connection gives the object to a new client: GetOneToUse.
Reuse(c) ==
  /\ slot[c] = "free" /\ iCurrsequence[c] < MaxSeq
  /\ slot' = [slot EXCEPT ![c] = "used"]
  /\ NewSequence(c)
  /\ fd' = [fd EXCEPT ![c] = TRUE]
  /\ iThrowsendCount' = [iThrowsendCount EXCEPT ![c] = 0]
  /\ psendMemPointer' = [psendMemPointer EXCEPT ![c] = Null]
  /\ events' = [events EXCEPT ![c] = FALSE]
  /\ iSendCount' = [iSendCount EXCEPT ![c] = 0]
  /\ peer' = [peer EXCEPT ![c] = "up"]
  /\ unread' = [unread EXCEPT ![c] = 0]
  /\ accepted' = [accepted EXCEPT ![c] = <<>>]
  /\ wire' = [wire EXCEPT ![c] = <<>>]
  /\ UNCHANGED <<queueVars, psendbuf, isendlen, threadVars>>

-----------------------------------------------------------------------------
MsgSend(w) ==
  \/ MsgSendLock(w) \/ MsgSendDiscard(w) \/ MsgSendKick(w) \/ MsgSendAdmit(w)
  \/ MsgSendPush(w) \/ MsgSendPost(w) \/ MsgSendUnlock(w)

Next ==
  \/ \E w \in Workers : MsgSend(w) \/ \E c \in Conns : BeginReply(w, c)
  \/ \E t \in Closers : ZdClosesocketProc(t)
  \/ \E c \in Conns : ProcPingTimeOutChecking(c)
  \/ ServerSendQueueThread \/ SemInterrupted
  \/ MainThread
  \/ \E c \in Conns : PeerClose(c) \/ PeerReset(c) \/ Release(c) \/ Reuse(c)

Spec == Init /\ [][Next]_vars

\* Every thread keeps running, and a thread that waits for the mutex gets it if
\* it is free again and again.  Nothing is owed by clients or by signals, and a
\* pool thread need not find another request.
Fairness ==
  /\ WF_vars(ServerSendQueueThread)
  /\ \A w \in Workers : SF_vars(MsgSendLock(w)) /\ WF_vars(MsgSend(w) \/ ZdClosesocketProc(w))
  /\ SF_vars(LockQueue)
  /\ WF_vars(MainThread \/ ZdClosesocketProc(Main)) /\ WF_vars(ZdClosesocketProc(Timer))

FairSpec == Spec /\ Fairness

-----------------------------------------------------------------------------
(* Properties.                                                             *)

\* iSendCount is the number of replies of this life waiting in the queue: a
\* drift would disconnect clients that read, or never those that do not.
IsFor(m, c) == m.conn = c /\ m.seq = iCurrsequence[c]
SendCountExact ==
  \A c \in Conns :
    slot[c] = "used" =>
      iSendCount[c] = Cardinality({i \in 1..Len(MsgSendQueue) : IsFor(MsgSendQueue[i], c)})

\* A packet is in one place until it is freed: with the pool thread that built it, in
\* the send queue, or at its connection's psendMemPointer.
Held(m) ==
  \/ \E w \in Workers : msg[w] # Null /\ msg[w].id = m /\ pc[w] \in {"lock", "body", "push"}
  \/ \E i \in 1..Len(MsgSendQueue) : MsgSendQueue[i].id = m
  \/ \E c \in Conns : psendMemPointer[c] = m

\* psendMemPointer is kept to free the packet after it was sent: no packet is
\* forgotten that has not been freed.
NoLeak == \A m \in heap : Held(m)

\* A packet in the queue or about to be continued has not been freed.
NotFreed ==
  /\ \A i \in 1..Len(MsgSendQueue) : MsgSendQueue[i].id \in heap
  /\ \A c \in Conns : events[c] /\ fd[c] => psendbuf[c] \in heap

\* So no packet is lost and none is used after it was freed, while connections are
\* closed with the mutex of the queue held, as msgSend does, whatever the send thread
\* and the write handler are doing with them, and whenever the recycle thread releases
\* what is left.  A close without the mutex, by the timer thread or the epoll
\* thread, loses packets (NoLeak).
EachPacketOnce == NoLeak /\ NotFreed

\* The send thread and the write handler never work on one connection at once.
OneWriter ==
  ~ /\ pc[Sender] \in {"send", "after", "null", "arm"}
    /\ pc[Main] \in {"wpost", "wfree", "wnull", "wdec"} \/ (At(Main, "out") /\ ~event.hup)
    /\ arg[Sender] = arg[Main]

\* The queue and a client's share of it exceed their limits by at most one.
LimitsHold ==
  /\ Len(MsgSendQueue) =< QueueCap + 1
  /\ \A c \in Conns : iSendCount[c] =< SendCap + 1

\* A hung-up write event is only reported for a connection whose write is
\* outstanding, so the decrement gives back what the send thread added.
HangUpCounted ==
  At(Main, "out") /\ event.hup => iThrowsendCount[arg[Main]] > 0

\* Nothing waits in the queue of a stopped sender that could be sent.
Sendable(m) == m.seq = iCurrsequence[m.conn] => ~Unfinished(m.conn)
NoneStranded ==
  (/\ At(Sender, "wait") /\ semaphore = 0
   /\ At(Main, "idle") /\ \A w \in Workers : At(w, "idle"))
  => \A i \in 1..Len(MsgSendQueue) : ~Sendable(MsgSendQueue[i])

\* What the client sees implements ByteStream: whole packets, each once, of its
\* own life only.  The packets may overtake each other: one that is skipped because
\* of an unfinished write is passed by the next if the write handler ends just then.
Stream == INSTANCE ByteStream WITH Fifo <- FALSE
StreamSpec == Stream!Spec

\* While the socket buffer never fills, the packets are in queue order too.
FifoStream == INSTANCE ByteStream WITH Fifo <- TRUE
FifoStreamSpec == FifoStream!Spec

\* Every reply in the queue leaves it, sent or expired.
QueueDrains ==
  \A m \in Ids : (\E i \in 1..Len(MsgSendQueue) : MsgSendQueue[i].id = m)
                  ~> ~(\E i \in 1..Len(MsgSendQueue) : MsgSendQueue[i].id = m)
=============================================================================
