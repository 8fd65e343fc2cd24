---------------------------- MODULE RecvFraming ----------------------------
(***************************************************************************)
(* How the epoll thread cuts the bytes of a client into packets:           *)
(* ngx_read_request_handler with recvproc, ngx_wait_request_handler_proc_p1 *)
(* and _plast, and TestFlood, on one connection object that serves one     *)
(* client after another (GetOneToUse, PutOneToFree).                       *)
(*                                                                         *)
(* The stream is a sequence of units.  A header is LenPkgHeader units, the *)
(* first of them the length the client claims for the packet, header       *)
(* included.  Only the epoll thread runs these handlers and touches the    *)
(* receive state, so each is a step.  The other threads only close the     *)
(* socket (CloseElsewhere) or, when the entry of the recycle list is due,  *)
(* free the object; a close in the middle of a handler, which makes the    *)
(* message carry a number nobody has, is in ConnPool.                      *)
(***************************************************************************)
EXTENDS Integers, Sequences, SequencesExt

CONSTANTS
  Units,              \* what one unit of a stream may be
  LenPkgHeader,       \* m_iLenPkgHeader
  MaxPkgLen,          \* _PKG_MAX_LENGTH - 1000
  FloodTimeInterval,  \* m_floodTimeInterval
  FloodKickCount,     \* m_floodKickCount
  Times,              \* readings of gettimeofday, which may also go back
  ClockRange,         \* 2^64, the range of uint64_t
  Null,
  MaxReceived,        \* bound: units one client sends
  MaxClients          \* bound: clients the object serves

Content == Seq(Units \cup {Null})   \* of memory; Null is what nobody has written
Message == [iCurrsequence : Nat, pkg : Content]

ASSUME RecvAssumption ==
  /\ Units \subseteq Nat /\ Times \subseteq Nat
  /\ {LenPkgHeader, MaxPkgLen, FloodTimeInterval, FloodKickCount, ClockRange}
       \subseteq Nat \ {0}
  /\ LenPkgHeader =< MaxPkgLen
  /\ \A t \in Times : FloodTimeInterval =< t /\ t + FloodTimeInterval < ClockRange
  /\ Null \notin Units /\ Null \notin Content
  /\ MaxReceived \in Nat /\ MaxClients \in Nat \ {0}

VARIABLES
  m_floodAkEnable,                     \* configured: = 1, never changed
  curStat, precvbuf, irecvlen,
  dataHeadInfo,                        \* the header is collected here
  precvMemPointer,                     \* the packet's block, or Null
  allocated,                           \* blocks allocated and not freed
  FloodkickLastTime, FloodAttackCount,
  iCurrsequence,
  fd,                                  \* "free", "open" or "closed"
  m_MsgRecvQueue,                      \* messages of this object's client
  received, arrivals, flooded          \* history of the present client

bufVars == <<curStat, precvbuf, irecvlen>>
memVars == <<dataHeadInfo, precvMemPointer, allocated>>
floodVars == <<FloodkickLastTime, FloodAttackCount, arrivals, flooded>>
vars == <<m_floodAkEnable, bufVars, memVars, floodVars, iCurrsequence, fd, m_MsgRecvQueue, received>>

\* Type invariant.
TypeOK ==
  /\ m_floodAkEnable \in BOOLEAN
  /\ curStat \in {"HD_INIT", "HD_RECVING", "BD_INIT", "BD_RECVING"}
  /\ precvbuf \in [mem : {"dataHeadInfo", "block"}, at : Nat]
  /\ irecvlen \in 1..MaxPkgLen
  /\ dataHeadInfo \in Content /\ Len(dataHeadInfo) = LenPkgHeader
  /\ precvMemPointer \in Content \cup {Null}
  /\ allocated \in Nat
  /\ FloodkickLastTime \in Times \cup {0}
  /\ FloodAttackCount \in Nat
  /\ iCurrsequence \in Nat
  /\ fd \in {"free", "open", "closed"}
  /\ m_MsgRecvQueue \in Seq(Message)
  /\ received \in Seq(Units) /\ arrivals \in Seq(Times)
  /\ flooded \in BOOLEAN

Blank(n) == [i \in 1..n |-> Null]

Init ==
  /\ m_floodAkEnable \in BOOLEAN
  /\ curStat = "HD_INIT"
  /\ precvbuf = [mem |-> "dataHeadInfo", at |-> 0]
  /\ irecvlen = LenPkgHeader
  /\ dataHeadInfo = Blank(LenPkgHeader)
  /\ precvMemPointer = Null /\ allocated = 0
  /\ FloodkickLastTime = 0 /\ FloodAttackCount = 0
  /\ iCurrsequence = 1 /\ fd = "free"
  /\ m_MsgRecvQueue = <<>>
  /\ received = <<>> /\ arrivals = <<>> /\ flooded = FALSE

----------------------------------------------------------------------------
\* The object.

ResetBuffer ==
  /\ curStat' = "HD_INIT"
  /\ precvbuf' = [mem |-> "dataHeadInfo", at |-> 0]
  /\ irecvlen' = LenPkgHeader

\* mutant: the receive position of the last client stays
BufferNotReset ==
  /\ fd = "free" /\ iCurrsequence < 3 * MaxClients
  /\ fd' = "open"
  /\ iCurrsequence' = iCurrsequence + 1
  /\ precvMemPointer' = Null
  /\ FloodkickLastTime' = 0 /\ FloodAttackCount' = 0
  /\ received' = <<>> /\ arrivals' = <<>> /\ flooded' = FALSE
  /\ UNCHANGED <<bufVars, dataHeadInfo, allocated, m_MsgRecvQueue>>

\* The accept handler takes the object; dataHeadInfo keeps what was in it.
GetOneToUse ==
  /\ fd = "free" /\ iCurrsequence < 3 * MaxClients
  /\ fd' = "open"
  /\ iCurrsequence' = iCurrsequence + 1
  /\ ResetBuffer
  /\ precvMemPointer' = Null
  /\ FloodkickLastTime' = 0 /\ FloodAttackCount' = 0
  /\ received' = <<>> /\ arrivals' = <<>> /\ flooded' = FALSE
  /\ UNCHANGED <<dataHeadInfo, allocated, m_MsgRecvQueue>>

\* mutant: the half-received packet is not freed
NotFreed == allocated

Freed == IF precvMemPointer = Null THEN allocated ELSE allocated - 1

\* The pool's threads, which leave the receive state alone, take the messages; when
\* is ThreadPool's, here once the client is gone.
TakenByPool ==
  /\ fd = "closed" /\ m_MsgRecvQueue # <<>>
  /\ m_MsgRecvQueue' = <<>>
  /\ allocated' = allocated - Len(m_MsgRecvQueue)
  /\ UNCHANGED <<bufVars, dataHeadInfo, precvMemPointer, floodVars, iCurrsequence, fd,
                 received>>

\* The recycle thread gives the object back, which no message outlasts (ConnPool).
PutOneToFree ==
  /\ fd = "closed" /\ m_MsgRecvQueue = <<>>
  /\ fd' = "free"
  /\ iCurrsequence' = iCurrsequence + 1
  /\ precvMemPointer' = Null
  /\ allocated' = Freed
  /\ UNCHANGED <<bufVars, dataHeadInfo, floodVars, m_MsgRecvQueue, received>>

\* zdClosesocketProc, whose inRecyConnectQueue raises the sequence number.
Close == fd' = "closed" /\ iCurrsequence' = iCurrsequence + 1

\* A pool, send or timer thread closes the connection.
CloseElsewhere ==
  /\ fd = "open" /\ Close
  /\ UNCHANGED <<bufVars, memVars, floodVars, m_MsgRecvQueue, received>>

----------------------------------------------------------------------------
\* Flood detection, at the time t a packet is complete.

\* mutant: a signed difference
SignedApart(t) == t - FloodkickLastTime

Apart(t) == (t - FloodkickLastTime) % ClockRange

CountAt(t) == IF Apart(t) < FloodTimeInterval THEN FloodAttackCount + 1 ELSE 0

TestFlood(t) == CountAt(t) >= FloodKickCount

QueueWith(block, isflood) ==
  IF isflood THEN m_MsgRecvQueue
  ELSE Append(m_MsgRecvQueue, [iCurrsequence |-> iCurrsequence, pkg |-> block])

BlocksLeft(blocks, isflood) == IF isflood THEN blocks - 1 ELSE blocks

\* ngx_wait_request_handler_proc_plast with the block of a packet, blocks
\* being allocated by now; then the end of ngx_read_request_handler.
Plast(block, blocks, isflood) ==
  /\ m_MsgRecvQueue' = QueueWith(block, isflood)
  /\ allocated' = BlocksLeft(blocks, isflood)
  /\ precvMemPointer' = Null
  /\ ResetBuffer
  /\ IF isflood THEN Close ELSE UNCHANGED <<fd, iCurrsequence>>

Complete(block, blocks) ==
  \/ /\ ~m_floodAkEnable
     /\ Plast(block, blocks, FALSE)
     /\ UNCHANGED floodVars
  \/ /\ m_floodAkEnable
     /\ \E t \in Times :
          /\ arrivals' = Append(arrivals, t)
          /\ FloodkickLastTime' = t
          /\ FloodAttackCount' = CountAt(t)
          /\ flooded' = TestFlood(t)
          /\ Plast(block, blocks, TestFlood(t))

----------------------------------------------------------------------------
\* ngx_read_request_handler.

\* recv stores data from precvbuf on.
Store(mem, data) ==
  [i \in DOMAIN mem |-> IF i - precvbuf.at \in DOMAIN data THEN data[i - precvbuf.at]
                                                           ELSE mem[i]]

\* mutant: the length to come is not lowered
SameLength(stat, n) ==
  /\ curStat' = stat
  /\ precvbuf' = [precvbuf EXCEPT !.at = @ + n]
  /\ irecvlen' = irecvlen
  /\ UNCHANGED <<allocated, floodVars, fd, iCurrsequence, m_MsgRecvQueue>>

\* Fewer units than asked for.
More(stat, n) ==
  /\ curStat' = stat
  /\ precvbuf' = [precvbuf EXCEPT !.at = @ + n]
  /\ irecvlen' = irecvlen - n
  /\ UNCHANGED <<allocated, floodVars, fd, iCurrsequence, m_MsgRecvQueue>>

Refused(pkgLen) == pkgLen < LenPkgHeader \/ pkgLen > MaxPkgLen

\* ngx_wait_request_handler_proc_p1 on a complete header.
ProcP1(head) ==
  LET pkgLen == head[1]
      block == head \o Blank(pkgLen - LenPkgHeader)
  IN \/ /\ Refused(pkgLen)
        /\ ResetBuffer
        /\ UNCHANGED <<precvMemPointer, allocated, floodVars, fd, iCurrsequence,
                       m_MsgRecvQueue>>
     \/ /\ pkgLen = LenPkgHeader
        /\ Complete(block, allocated + 1)
     \/ /\ ~Refused(pkgLen) /\ pkgLen > LenPkgHeader
        /\ precvMemPointer' = block
        /\ allocated' = allocated + 1
        /\ curStat' = "BD_INIT"
        /\ precvbuf' = [mem |-> "block", at |-> LenPkgHeader]
        /\ irecvlen' = pkgLen - LenPkgHeader
        /\ UNCHANGED <<floodVars, fd, iCurrsequence, m_MsgRecvQueue>>

HeaderComplete(n) ==
  n = IF curStat = "HD_INIT" THEN LenPkgHeader ELSE irecvlen

ReadHeader(data) ==
  /\ curStat \in {"HD_INIT", "HD_RECVING"}
  /\ dataHeadInfo' = Store(dataHeadInfo, data)
  /\ \/ HeaderComplete(Len(data)) /\ ProcP1(dataHeadInfo')
     \/ /\ ~HeaderComplete(Len(data)) /\ More("HD_RECVING", Len(data))
        /\ UNCHANGED precvMemPointer

ReadBody(data) ==
  /\ curStat \in {"BD_INIT", "BD_RECVING"}
  /\ UNCHANGED dataHeadInfo
  /\ LET block == Store(precvMemPointer, data)
     IN \/ Len(data) = irecvlen /\ Complete(block, allocated)
        \/ /\ Len(data) < irecvlen /\ More("BD_RECVING", Len(data))
           /\ precvMemPointer' = block

\* Any number of units up to irecvlen may be there.
ReadRequestHandler ==
  /\ fd = "open"
  /\ \E n \in 1..irecvlen : \E data \in [1..n -> Units] :
       /\ Len(received) + n =< MaxReceived
       /\ received' = received \o data
       /\ ReadHeader(data) \/ ReadBody(data)

\* recv returns 0 or an error other than EAGAIN and EINTR, on which recvproc
\* changes nothing.
RecvCloses ==
  /\ fd = "open" /\ Close
  /\ UNCHANGED <<bufVars, memVars, floodVars, m_MsgRecvQueue, received>>

----------------------------------------------------------------------------
Step ==
  \/ GetOneToUse \/ TakenByPool \/ PutOneToFree \/ CloseElsewhere
  \/ ReadRequestHandler \/ RecvCloses

Next == Step /\ UNCHANGED m_floodAkEnable

Spec == Init /\ [][Next]_vars

----------------------------------------------------------------------------
\* The packets in a stream that begin at its unit i or later, the stream being whole
\* packets before i.  Of one of impossible length only the header is dropped.
PacketsFrom(stream) ==
  LET after == Len(stream) + 1
      from[i \in 1..after] ==
        LET pkgLen == stream[i]
            next == i + (IF Refused(pkgLen) THEN LenPkgHeader ELSE pkgLen)
        IN IF i + LenPkgHeader > after \/ next > after THEN <<>>
           ELSE (IF Refused(pkgLen) THEN <<>> ELSE <<SubSeq(stream, i, next - 1)>>)
                \o from[next]
  IN from

\* The packets in what the client has sent, whatever the pieces it came in.
Packets == PacketsFrom(received)[1]

Delivered == [i \in DOMAIN m_MsgRecvQueue |-> m_MsgRecvQueue[i].pkg]

\* The number the object had when the client got it.
Number == IF fd = "closed" THEN iCurrsequence - 1 ELSE iCurrsequence

\* The messages the pool gets of a client are the packets it has sent, whole, in
\* order, with no unit of another packet, of another client or of unwritten memory,
\* and all under the number of this client, however recv cuts the stream; only the
\* packet of a flood is left out (ngx_read_request_handler, its four states, after
\* GetOneToUse).
Framed ==
  fd = "open" \/ m_MsgRecvQueue # <<>> =>
    /\ Delivered = IF flooded THEN Front(Packets) ELSE Packets
    /\ \A i \in DOMAIN m_MsgRecvQueue : m_MsgRecvQueue[i].iCurrsequence = Number

\* recv is always given exactly the rest of the part that is awaited: the next
\* unit never lands outside dataHeadInfo or outside the block allocated for the
\* packet, and never short of its end (precvbuf, irecvlen, precvMemPointer).
WithinBuffer ==
  fd = "open" =>
    IF precvbuf.mem = "dataHeadInfo"
    THEN precvbuf.at + irecvlen = LenPkgHeader
    ELSE /\ precvMemPointer # Null
         /\ precvbuf.at + irecvlen = Len(precvMemPointer)
         /\ precvMemPointer[1] = Len(precvMemPointer)

\* Every block allocated for a packet is in the receive queue or still hangs on
\* the connection, also after a flood or a client that leaves in the middle of a
\* packet (AllocMemory in proc_p1, FreeMemory in _plast and PutOneToFree).
BlocksAccounted ==
  allocated = Len(m_MsgRecvQueue) + (IF precvMemPointer = Null THEN 0 ELSE 1)

\* The client is thrown out at exactly the packet that ends FloodKickCount gaps
\* in a row shorter than the interval, a clock set back counting as no such gap
\* (TestFlood, Sock_FloodKickCounter).
Burst ==
  /\ Len(arrivals) > FloodKickCount
  /\ \A i \in Len(arrivals) - FloodKickCount + 1..Len(arrivals) :
       arrivals[i] - arrivals[i - 1] \in 0..FloodTimeInterval - 1

KickedExactly == flooded <=> m_floodAkEnable /\ Burst
=============================================================================
