--------------------------- MODULE SendQueueProofs ---------------------------
(***************************************************************************)
(* Theorems of SendQueue for any number of connections and pool threads    *)
(* and any limits: its types, that m_sendMessageQueueMutex really excludes *)
(* msgSend and the send thread's scan from each other, that neither the    *)
(* queue nor a client's share of it passes its limit by more than one,     *)
(* that iSendCount counts exactly the packets of the life that goes on;    *)
(* as long as only msgSend closes connections that are open, that every    *)
(* packet is freed once and that the send thread and the write handler are *)
(* never at work on one connection together; and, as long as the end of    *)
(* file of a client is met by the first read after it, that the threads    *)
(* together implement ByteStream, in queue order too while the socket      *)
(* buffers never fill up.                                                  *)
(***************************************************************************)
EXTENDS SendQueue, DataLemmas

-----------------------------------------------------------------------------
(* The control state of each thread, and what its locals hold there.       *)

ClosePCs == {"closefd", "decTest", "dec", "recycle"}
MsgSendPCs == {"body", "push", "post", "unlock"} \cup ClosePCs
ScanPCs == {"scan", "throw", "send", "after", "null", "arm"}
DispatchPCs == {"read", "out", "wpost", "wfree", "wnull", "wdec"} \cup ClosePCs

WorkerOK(w) ==
  /\ pc[w] \in {"idle", "lock"} \cup MsgSendPCs
  /\ pc[w] # "idle" => msg[w] \in Packet
  /\ pc[w] \in ClosePCs => arg[w] \in Conns

SenderOK ==
  /\ pc[Sender] \in {"wait", "mutex"} \cup ScanPCs
  /\ pc[Sender] \in {"throw", "send", "after", "null", "arm"} => arg[Sender] \in Conns
  /\ pc[Sender] = "throw" => pos =< Len(MsgSendQueue)

LoopsOK ==
  /\ pc[Main] \in {"idle"} \cup DispatchPCs
  /\ pc[Main] # "idle" => arg[Main] \in Conns
  /\ pc[Timer] \in {"idle"} \cup ClosePCs
  /\ pc[Timer] # "idle" => arg[Timer] \in Conns

Inv ==
  /\ TypeOK
  /\ \A w \in Workers : WorkerOK(w)
  /\ SenderOK
  /\ LoopsOK

\* A thread between lock and unlock is the owner of the mutex.
MutexInv ==
  /\ \A w \in Workers : pc[w] \in MsgSendPCs => mutex = w
  /\ pc[Sender] \in ScanPCs => mutex = Sender

\* What msgSend found under the mutex is still so when it pushes.
Admitted ==
  \A w \in Workers :
    pc[w] = "push" => /\ Len(MsgSendQueue) =< QueueCap
                      /\ iSendCount[msg[w].conn] =< SendCap

-----------------------------------------------------------------------------
(* Erasing an entry keeps a sequence a sequence and shortens it by one.    *)
LEMMA RemoveAtType ==
  ASSUME NEW S, NEW s \in Seq(S), NEW i \in 1..Len(s)
  PROVE  RemoveAt(s, i) \in Seq(S) /\ Len(RemoveAt(s, i)) = Len(s) - 1
  BY RemovedPlaces

(* The units a send puts on the wire keep it a sequence of packets.        *)
LEMMA PutType ==
  ASSUME TypeOK, NEW c \in Conns, NEW n \in Int, Put(c, n)
  PROVE  wire' \in [Conns -> Seq(Ids \cup {Null})]
<1> DEFINE P == Ids \cup {Null}
           u == [i \in 1..n |-> psendbuf[c]]
<1>0. psendbuf[c] \in P /\ wire \in [Conns -> Seq(P)]
  BY DEF TypeOK, ConnTypeOK, HistoryTypeOK
<1>1. u \in Seq(P)
  <2>1. CASE n \in Nat
    BY <2>1, <1>0
  <2>2. CASE n \notin Nat
    <3>1. 1..n = 1..0
      BY <2>2
    <3>2. u = [i \in 1..0 |-> psendbuf[c]]
      BY <3>1, Zenon
    <3>3. QED
      BY <3>2, <1>0
  <2>3. QED
    BY <2>1, <2>2
<1>2. wire[c] \o u \in Seq(P)
  BY <1>0, <1>1, ConcatProperties
<1>3. wire' = [wire EXCEPT ![c] = wire[c] \o u]
  BY DEF Put
<1>4. QED
  BY <1>0, <1>2, <1>3

(* What a send returns is a number of units or an error code.              *)
LEMMA SendResultsInt ==
  ASSUME TypeOK, NEW c \in Conns, NEW r \in SendResults(c)
  PROVE  r \in Int
BY DEF SendResults, TypeOK, ConnTypeOK

(* A worker just started: every thread is at the top of its loop.          *)
LEMMA InitInv == Init => Inv
<1> SUFFICES ASSUME Init PROVE Inv
  OBVIOUS
<1> USE SendQueueAssumption
<1>1. MsgSendQueue \in Seq(Packet)
  BY DEF Init
<1>2. /\ accepted \in [Conns -> Seq(Ids)]
      /\ wire \in [Conns -> Seq(Ids \cup {Null})]
  BY DEF Init
<1>3. event \in [in : BOOLEAN, out : BOOLEAN, hup : BOOLEAN]
  BY DEF Init, NoEvent
<1>4. /\ pc \in [Threads -> PCs]
      /\ arg \in [Threads -> Conns \cup {Null}]
      /\ msg \in [Workers -> Packet \cup {Null}]
  BY DEF Init, Threads, PCs
<1>5. TypeOK
  BY <1>1, <1>2, <1>3, <1>4
  DEF Init, TypeOK, QueueTypeOK, ConnTypeOK, ThreadTypeOK, PeerTypeOK, HistoryTypeOK,
      Threads, Ids
<1>6. \A w \in Workers : WorkerOK(w)
  BY DEF Init, WorkerOK, Threads, ClosePCs
<1>7. SenderOK /\ LoopsOK
  BY DEF Init, SenderOK, LoopsOK, Threads
<1>8. QED
  BY <1>5, <1>6, <1>7 DEF Inv

(* A part none of whose variables changes keeps its types.                 *)
LEMMA Frame ==
  ASSUME TypeOK
  PROVE  /\ UNCHANGED queueVars => QueueTypeOK'
         /\ UNCHANGED connVars => ConnTypeOK'
         /\ UNCHANGED threadVars => ThreadTypeOK'
         /\ UNCHANGED peerVars => PeerTypeOK'
         /\ UNCHANGED history => HistoryTypeOK'
BY DEF TypeOK, QueueTypeOK, ConnTypeOK, ThreadTypeOK, PeerTypeOK, HistoryTypeOK,
       queueVars, connVars, threadVars, peerVars, history

-----------------------------------------------------------------------------
(* Inv is inductive: one lemma per action.                                  *)

(* A new packet carries its own id and a connection of the pool.           *)
LEMMA BeginReplyInv ==
  ASSUME Inv, NEW w \in Workers, NEW c \in Conns, BeginReply(w, c)
  PROVE  Inv'
<1> USE SendQueueAssumption DEF BeginReply, At, Goto
<1> DEFINE m == [id |-> nextId, conn |-> c, seq |-> iCurrsequence[c]]
<1>a. m \in Packet /\ nextId \in Ids
  BY DEF Inv, TypeOK, QueueTypeOK, ConnTypeOK, Packet, Ids
<1>b. msg' = [msg EXCEPT ![w] = m]
  OBVIOUS
<1> HIDE DEF m
<1>1. QueueTypeOK'
  BY <1>a DEF Inv, TypeOK, QueueTypeOK, Ids
<1>2. ThreadTypeOK'
  BY <1>a, <1>b DEF Inv, TypeOK, ThreadTypeOK, Threads, PCs
<1>3. TypeOK'
  BY <1>1, <1>2, Frame DEF Inv, TypeOK
<1>4. (\A u \in Workers : WorkerOK(u))'
  BY <1>a, <1>b DEF Inv, TypeOK, ThreadTypeOK, WorkerOK, Threads, MsgSendPCs, ClosePCs
<1>5. SenderOK'
  BY DEF Inv, TypeOK, QueueTypeOK, ThreadTypeOK, SenderOK, Threads, ScanPCs,
     ClosePCs, queueVars, threadVars
<1>6. LoopsOK'
  BY DEF Inv, TypeOK, ThreadTypeOK, LoopsOK, Threads, DispatchPCs, ClosePCs, threadVars
<1>7. QED
  BY <1>3, <1>4, <1>5, <1>6 DEF Inv

(* Taking the send mutex moves only the thread that takes it.              *)
LEMMA MsgSendLockInv ==
  ASSUME Inv, NEW w \in Workers, MsgSendLock(w)
  PROVE  Inv'
<1> USE SendQueueAssumption DEF MsgSendLock, At, Goto
<1>1. QueueTypeOK'
  BY DEF Inv, TypeOK, QueueTypeOK, WorkerOK, SenderOK, Threads, MsgSendPCs, ClosePCs
<1>2. ThreadTypeOK'
  BY DEF Inv, TypeOK, QueueTypeOK, ThreadTypeOK, WorkerOK, Threads, PCs, ClosePCs
<1>3. TypeOK'
  BY <1>1, <1>2, Frame DEF Inv, TypeOK
<1>4. (\A u \in Workers : WorkerOK(u))'
  BY DEF Inv, TypeOK, ThreadTypeOK, WorkerOK, LoopsOK, Threads, MsgSendPCs, ClosePCs,
       threadVars
<1>5. SenderOK'
  BY DEF Inv, TypeOK, QueueTypeOK, ThreadTypeOK, SenderOK, Threads, ScanPCs,
     ClosePCs, queueVars, threadVars
<1>6. LoopsOK'
  BY DEF Inv, TypeOK, ThreadTypeOK, LoopsOK, Threads, DispatchPCs, ClosePCs, threadVars
<1>7. QED
  BY <1>3, <1>4, <1>5, <1>6 DEF Inv

(* Dropping a packet frees it and leaves the queue as it was.              *)
LEMMA MsgSendDiscardInv ==
  ASSUME Inv, NEW w \in Workers, MsgSendDiscard(w)
  PROVE  Inv'
<1> USE SendQueueAssumption DEF MsgSendDiscard, FreeMemory, At, Goto
<1>1. QueueTypeOK'
  BY DEF Inv, TypeOK, QueueTypeOK, WorkerOK, SenderOK, Threads, MsgSendPCs, ClosePCs
<1>2. ThreadTypeOK'
  BY DEF Inv, TypeOK, QueueTypeOK, ThreadTypeOK, WorkerOK, Threads, PCs, ClosePCs
<1>3. TypeOK'
  BY <1>1, <1>2, Frame DEF Inv, TypeOK
<1>4. (\A u \in Workers : WorkerOK(u))'
  BY DEF Inv, TypeOK, ThreadTypeOK, WorkerOK, LoopsOK, Threads, MsgSendPCs, ClosePCs,
       threadVars
<1>5. SenderOK'
  BY DEF Inv, TypeOK, QueueTypeOK, ThreadTypeOK, SenderOK, Threads, ScanPCs,
     ClosePCs, queueVars, threadVars
<1>6. LoopsOK'
  BY DEF Inv, TypeOK, ThreadTypeOK, LoopsOK, Threads, DispatchPCs, ClosePCs, threadVars
<1>7. QED
  BY <1>3, <1>4, <1>5, <1>6 DEF Inv

(* Kicking a slow client hands its connection to zdClosesocketProc.        *)
LEMMA MsgSendKickInv ==
  ASSUME Inv, NEW w \in Workers, MsgSendKick(w)
  PROVE  Inv'
<1> USE SendQueueAssumption DEF MsgSendKick, FreeMemory, Packet, At, Goto
<1>1. QueueTypeOK'
  BY DEF Inv, TypeOK, QueueTypeOK, WorkerOK, SenderOK, Threads, MsgSendPCs, ClosePCs
<1>2. ThreadTypeOK'
  BY DEF Inv, TypeOK, QueueTypeOK, ThreadTypeOK, WorkerOK, Threads, PCs, ClosePCs
<1>3. TypeOK'
  BY <1>1, <1>2, Frame DEF Inv, TypeOK
<1>4. (\A u \in Workers : WorkerOK(u))'
  BY DEF Inv, TypeOK, ThreadTypeOK, WorkerOK, LoopsOK, Threads, MsgSendPCs, ClosePCs,
       threadVars
<1>5. SenderOK'
  BY DEF Inv, TypeOK, QueueTypeOK, ThreadTypeOK, SenderOK, Threads, ScanPCs,
     ClosePCs, queueVars, threadVars
<1>6. LoopsOK'
  BY DEF Inv, TypeOK, ThreadTypeOK, LoopsOK, Threads, DispatchPCs, ClosePCs, threadVars
<1>7. QED
  BY <1>3, <1>4, <1>5, <1>6 DEF Inv

(* Passing both limit checks changes nothing but the pool thread.          *)
LEMMA MsgSendAdmitInv ==
  ASSUME Inv, NEW w \in Workers, MsgSendAdmit(w)
  PROVE  Inv'
<1> USE SendQueueAssumption DEF MsgSendAdmit, At, Goto
<1>1. ThreadTypeOK'
  BY DEF Inv, TypeOK, QueueTypeOK, ThreadTypeOK, WorkerOK, Threads, PCs, ClosePCs
<1>2. TypeOK'
  BY <1>1, Frame DEF Inv, TypeOK
<1>3. (\A u \in Workers : WorkerOK(u))'
  BY DEF Inv, TypeOK, ThreadTypeOK, WorkerOK, LoopsOK, Threads, MsgSendPCs, ClosePCs,
       threadVars
<1>4. SenderOK'
  BY DEF Inv, TypeOK, QueueTypeOK, ThreadTypeOK, SenderOK, Threads, ScanPCs,
     ClosePCs, queueVars, threadVars
<1>5. LoopsOK'
  BY DEF Inv, TypeOK, ThreadTypeOK, LoopsOK, Threads, DispatchPCs, ClosePCs, threadVars
<1>6. QED
  BY <1>2, <1>3, <1>4, <1>5 DEF Inv

(* The queue grows by one packet, which still has its types.               *)
LEMMA MsgSendPushInv ==
  ASSUME Inv, NEW w \in Workers, MsgSendPush(w)
  PROVE  Inv'
<1> USE SendQueueAssumption DEF MsgSendPush, At, Goto
<1>a. msg[w] \in Packet
  BY DEF Inv, WorkerOK
<1>b. msg[w].id \in Ids /\ msg[w].conn \in Conns
  BY <1>a DEF Packet
<1>c. Len(MsgSendQueue') = Len(MsgSendQueue) + 1 /\ Len(MsgSendQueue) \in Nat
  BY <1>a, AppendProperties, LenProperties DEF Push, Inv, TypeOK, QueueTypeOK
<1>1. QueueTypeOK'
  BY <1>a, AppendProperties DEF Push, Inv, TypeOK, QueueTypeOK
<1>2. ConnTypeOK'
  <2>1. iSendCount \in [Conns -> Int] /\ iSendCount' = [iSendCount EXCEPT ![msg[w].conn] = @ + 1]
    BY DEF CountQueued, Inv, TypeOK, ConnTypeOK
  <2>2. iSendCount' \in [Conns -> Int]
    BY <1>b, <2>1
  <2>3. QED
    BY <2>2 DEF Inv, TypeOK, ConnTypeOK
<1>3. ThreadTypeOK'
  BY DEF Inv, TypeOK, QueueTypeOK, ThreadTypeOK, WorkerOK, Threads, PCs, ClosePCs
<1>4. HistoryTypeOK'
  <2>1. Append(accepted[msg[w].conn], msg[w].id) \in Seq(Ids)
    BY <1>b, AppendProperties DEF Inv, TypeOK, HistoryTypeOK
  <2>2. accepted' \in [Conns -> Seq(Ids)]
    BY <1>b, <2>1 DEF Inv, TypeOK, HistoryTypeOK
  <2>3. QED
    BY <2>2 DEF Inv, TypeOK, HistoryTypeOK
<1>5. TypeOK'
  BY <1>1, <1>2, <1>3, <1>4, Frame DEF Inv, TypeOK
<1>6. (\A u \in Workers : WorkerOK(u))'
  BY DEF Inv, TypeOK, ThreadTypeOK, WorkerOK, LoopsOK, Threads, MsgSendPCs, ClosePCs,
       threadVars
<1>7. SenderOK'
  BY <1>c DEF Inv, TypeOK, ThreadTypeOK, SenderOK, Threads, ScanPCs
<1>8. LoopsOK'
  BY DEF Inv, TypeOK, ThreadTypeOK, LoopsOK, Threads, DispatchPCs, ClosePCs, threadVars
<1>9. QED
  BY <1>5, <1>6, <1>7, <1>8 DEF Inv

(* sem_post and unlock end the call of msgSend.                            *)
LEMMA MsgSendPostInv ==
  ASSUME Inv, NEW w \in Workers, MsgSendPost(w)
  PROVE  Inv'
<1> USE SendQueueAssumption DEF MsgSendPost, PostSend, At, Goto
<1>1. QueueTypeOK'
  BY DEF Inv, TypeOK, QueueTypeOK, WorkerOK, SenderOK, Threads, MsgSendPCs, ClosePCs
<1>2. ThreadTypeOK'
  BY DEF Inv, TypeOK, QueueTypeOK, ThreadTypeOK, WorkerOK, Threads, PCs, ClosePCs
<1>3. TypeOK'
  BY <1>1, <1>2, Frame DEF Inv, TypeOK
<1>4. (\A u \in Workers : WorkerOK(u))'
  BY DEF Inv, TypeOK, ThreadTypeOK, WorkerOK, LoopsOK, Threads, MsgSendPCs, ClosePCs,
       threadVars
<1>5. SenderOK'
  BY DEF Inv, TypeOK, QueueTypeOK, ThreadTypeOK, SenderOK, Threads, ScanPCs,
     ClosePCs, queueVars, threadVars
<1>6. LoopsOK'
  BY DEF Inv, TypeOK, ThreadTypeOK, LoopsOK, Threads, DispatchPCs, ClosePCs, threadVars
<1>7. QED
  BY <1>3, <1>4, <1>5, <1>6 DEF Inv

(* A refused packet ends the call of msgSend too.                          *)
LEMMA MsgSendUnlockInv ==
  ASSUME Inv, NEW w \in Workers, MsgSendUnlock(w)
  PROVE  Inv'
<1> USE SendQueueAssumption DEF MsgSendUnlock, Leave, At, Goto
<1>1. QueueTypeOK'
  BY DEF Inv, TypeOK, QueueTypeOK, WorkerOK, SenderOK, Threads, MsgSendPCs, ClosePCs
<1>2. ThreadTypeOK'
  BY DEF Inv, TypeOK, QueueTypeOK, ThreadTypeOK, WorkerOK, Threads, PCs, ClosePCs
<1>3. TypeOK'
  BY <1>1, <1>2, Frame DEF Inv, TypeOK
<1>4. (\A u \in Workers : WorkerOK(u))'
  BY DEF Inv, TypeOK, ThreadTypeOK, WorkerOK, LoopsOK, Threads, MsgSendPCs, ClosePCs,
       threadVars
<1>5. SenderOK'
  BY DEF Inv, TypeOK, QueueTypeOK, ThreadTypeOK, SenderOK, Threads, ScanPCs,
     ClosePCs, queueVars, threadVars
<1>6. LoopsOK'
  BY DEF Inv, TypeOK, ThreadTypeOK, LoopsOK, Threads, DispatchPCs, ClosePCs, threadVars
<1>7. QED
  BY <1>3, <1>4, <1>5, <1>6 DEF Inv

(* close() touches the descriptor and the epoll registration only.         *)
LEMMA CloseFdInv ==
  ASSUME Inv, NEW t \in Closers, CloseFd(t)
  PROVE  Inv'
<1> USE SendQueueAssumption DEF CloseFd, At, Goto
<1>1. ConnTypeOK'
  BY DEF Inv, TypeOK, QueueTypeOK, ConnTypeOK, ThreadTypeOK, WorkerOK, SenderOK, LoopsOK,
       Threads, ClosePCs
<1>2. ThreadTypeOK'
  BY DEF Inv, TypeOK, QueueTypeOK, ThreadTypeOK, WorkerOK, Threads, PCs, ClosePCs
<1>3. TypeOK'
  BY <1>1, <1>2, Frame DEF Inv, TypeOK
<1>4. (\A u \in Workers : WorkerOK(u))'
  BY DEF Inv, TypeOK, ThreadTypeOK, WorkerOK, LoopsOK, Threads, MsgSendPCs, ClosePCs,
       threadVars
<1>5. SenderOK'
  BY DEF Inv, TypeOK, QueueTypeOK, ThreadTypeOK, SenderOK, Threads, ScanPCs,
     ClosePCs, queueVars, threadVars
<1>6. LoopsOK'
  BY DEF Inv, TypeOK, ThreadTypeOK, LoopsOK, Threads, DispatchPCs, ClosePCs, threadVars
<1>7. QED
  BY <1>3, <1>4, <1>5, <1>6 DEF Inv

(* Testing iThrowsendCount writes nothing.                                 *)
LEMMA DecTestInv ==
  ASSUME Inv, NEW t \in Closers, DecTest(t)
  PROVE  Inv'
<1> USE SendQueueAssumption DEF DecTest, At, Goto
<1>1. ThreadTypeOK'
  BY DEF Inv, TypeOK, QueueTypeOK, ThreadTypeOK, WorkerOK, Threads, PCs, ClosePCs
<1>2. TypeOK'
  BY <1>1, Frame DEF Inv, TypeOK
<1>3. (\A u \in Workers : WorkerOK(u))'
  BY DEF Inv, TypeOK, ThreadTypeOK, WorkerOK, LoopsOK, Threads, MsgSendPCs, ClosePCs,
       threadVars
<1>4. SenderOK'
  BY DEF Inv, TypeOK, QueueTypeOK, ThreadTypeOK, SenderOK, Threads, ScanPCs,
     ClosePCs, queueVars, threadVars
<1>5. LoopsOK'
  BY DEF Inv, TypeOK, ThreadTypeOK, LoopsOK, Threads, DispatchPCs, ClosePCs, threadVars
<1>6. QED
  BY <1>2, <1>3, <1>4, <1>5 DEF Inv

(* The decrement may go below zero, and stays an integer.                  *)
LEMMA DecInv ==
  ASSUME Inv, NEW t \in Closers, Dec(t)
  PROVE  Inv'
<1> USE SendQueueAssumption DEF Dec, At, Goto
<1>a. arg[t] \in Conns
  BY DEF Inv, WorkerOK, LoopsOK, Closers, ClosePCs
<1>1. ConnTypeOK'
  BY <1>a DEF Inv, TypeOK, ConnTypeOK
<1>2. ThreadTypeOK'
  BY DEF Inv, TypeOK, QueueTypeOK, ThreadTypeOK, WorkerOK, Threads, PCs, ClosePCs
<1>3. TypeOK'
  BY <1>1, <1>2, Frame DEF Inv, TypeOK
<1>4. (\A u \in Workers : WorkerOK(u))'
  BY DEF Inv, TypeOK, ThreadTypeOK, WorkerOK, LoopsOK, Threads, MsgSendPCs, ClosePCs,
       threadVars
<1>5. SenderOK'
  BY DEF Inv, TypeOK, QueueTypeOK, ThreadTypeOK, SenderOK, Threads, ScanPCs,
     ClosePCs, queueVars, threadVars
<1>6. LoopsOK'
  BY DEF Inv, TypeOK, ThreadTypeOK, LoopsOK, Threads, DispatchPCs, ClosePCs, threadVars
<1>7. QED
  BY <1>3, <1>4, <1>5, <1>6 DEF Inv

(* Whoever closes goes on to where it was called from.                     *)
LEMMA InRecyConnectQueueInv ==
  ASSUME Inv, NEW t \in Closers, InRecyConnectQueue(t)
  PROVE  Inv'
<1> USE SendQueueAssumption DEF InRecyConnectQueue, At, Goto
<1>a. arg[t] \in Conns
  BY DEF Inv, WorkerOK, LoopsOK, Closers, ClosePCs
<1>b. /\ pc' = [pc EXCEPT ![t] = IF t \in Workers THEN "unlock"
                                ELSE IF t = Main /\ event.out THEN "out" ELSE "idle"]
      /\ arg' = IF t \in Workers \/ (t = Main /\ event.out) THEN arg
                ELSE [arg EXCEPT ![t] = Null]
  BY DEF Leave
<1>1. ConnTypeOK'
  <2>1. CASE slot[arg[t]] = "recy"
    BY <2>1 DEF EnterRecycleList, Inv, TypeOK, ConnTypeOK
  <2>2. CASE slot[arg[t]] # "recy"
    BY <1>a, <2>2 DEF EnterRecycleList, Inv, TypeOK, ConnTypeOK
  <2>3. QED
    BY <2>1, <2>2
<1>2. ThreadTypeOK'
  BY <1>b DEF Inv, TypeOK, ThreadTypeOK, Threads, Closers, PCs
<1>3. TypeOK'
  BY <1>1, <1>2, Frame DEF Inv, TypeOK
<1>4. (\A u \in Workers : WorkerOK(u))'
  BY <1>b DEF Inv, TypeOK, ThreadTypeOK, WorkerOK, Threads, MsgSendPCs, ClosePCs
<1>5. SenderOK'
  BY <1>b DEF Inv, TypeOK, ThreadTypeOK, SenderOK, Threads, ScanPCs, queueVars
<1>6. LoopsOK'
  BY <1>a, <1>b DEF Inv, TypeOK, ThreadTypeOK, LoopsOK, Threads, Closers, DispatchPCs,
     ClosePCs
<1>7. QED
  BY <1>3, <1>4, <1>5, <1>6 DEF Inv

(* The semaphore is only decremented while it is positive.                 *)
LEMMA SemWaitInv ==
  ASSUME Inv, SemWait
  PROVE  Inv'
<1> USE SendQueueAssumption DEF SemWait, CanProceed, At, Goto
<1>1. QueueTypeOK'
  BY DEF Inv, TypeOK, QueueTypeOK, WorkerOK, SenderOK, Threads, MsgSendPCs, ClosePCs
<1>2. ThreadTypeOK'
  BY DEF Inv, TypeOK, QueueTypeOK, ThreadTypeOK, WorkerOK, Threads, PCs, ClosePCs
<1>3. TypeOK'
  BY <1>1, <1>2, Frame DEF Inv, TypeOK
<1>4. (\A u \in Workers : WorkerOK(u))'
  BY DEF Inv, TypeOK, ThreadTypeOK, WorkerOK, LoopsOK, Threads, MsgSendPCs, ClosePCs,
       threadVars
<1>5. SenderOK'
  BY DEF Inv, TypeOK, QueueTypeOK, ThreadTypeOK, SenderOK, Threads, ScanPCs,
     ClosePCs, queueVars, threadVars
<1>6. LoopsOK'
  BY DEF Inv, TypeOK, ThreadTypeOK, LoopsOK, Threads, DispatchPCs, ClosePCs, threadVars
<1>7. QED
  BY <1>3, <1>4, <1>5, <1>6 DEF Inv

(* An interrupted sem_wait takes nothing from the semaphore.               *)
LEMMA SemInterruptedInv ==
  ASSUME Inv, SemInterrupted
  PROVE  Inv'
<1> USE SendQueueAssumption DEF SemInterrupted, At, Goto
<1>1. ThreadTypeOK'
  BY DEF Inv, TypeOK, QueueTypeOK, ThreadTypeOK, WorkerOK, Threads, PCs, ClosePCs
<1>2. TypeOK'
  BY <1>1, Frame DEF Inv, TypeOK
<1>3. (\A u \in Workers : WorkerOK(u))'
  BY DEF Inv, TypeOK, ThreadTypeOK, WorkerOK, LoopsOK, Threads, MsgSendPCs, ClosePCs,
       threadVars
<1>4. SenderOK'
  BY DEF Inv, TypeOK, QueueTypeOK, ThreadTypeOK, SenderOK, Threads, ScanPCs,
     ClosePCs, queueVars, threadVars
<1>5. LoopsOK'
  BY DEF Inv, TypeOK, ThreadTypeOK, LoopsOK, Threads, DispatchPCs, ClosePCs, threadVars
<1>6. QED
  BY <1>2, <1>3, <1>4, <1>5 DEF Inv

(* The scan starts at the first entry.                                     *)
LEMMA LockQueueInv ==
  ASSUME Inv, LockQueue
  PROVE  Inv'
<1> USE SendQueueAssumption DEF LockQueue, At, Goto
<1>1. QueueTypeOK'
  BY DEF Inv, TypeOK, QueueTypeOK, WorkerOK, SenderOK, Threads, MsgSendPCs, ClosePCs
<1>2. ThreadTypeOK'
  BY DEF Inv, TypeOK, QueueTypeOK, ThreadTypeOK, WorkerOK, Threads, PCs, ClosePCs
<1>3. TypeOK'
  BY <1>1, <1>2, Frame DEF Inv, TypeOK
<1>4. (\A u \in Workers : WorkerOK(u))'
  BY DEF Inv, TypeOK, ThreadTypeOK, WorkerOK, LoopsOK, Threads, MsgSendPCs, ClosePCs,
       threadVars
<1>5. SenderOK'
  BY DEF Inv, TypeOK, QueueTypeOK, ThreadTypeOK, SenderOK, Threads, ScanPCs,
     ClosePCs, queueVars, threadVars
<1>6. LoopsOK'
  BY DEF Inv, TypeOK, ThreadTypeOK, LoopsOK, Threads, DispatchPCs, ClosePCs, threadVars
<1>7. QED
  BY <1>3, <1>4, <1>5, <1>6 DEF Inv

(* The scan ends after the last entry.                                     *)
LEMMA EndOfQueueInv ==
  ASSUME Inv, EndOfQueue
  PROVE  Inv'
<1> USE SendQueueAssumption DEF EndOfQueue, At, Goto
<1>1. QueueTypeOK'
  BY DEF Inv, TypeOK, QueueTypeOK, WorkerOK, SenderOK, Threads, MsgSendPCs, ClosePCs
<1>2. ThreadTypeOK'
  BY DEF Inv, TypeOK, QueueTypeOK, ThreadTypeOK, WorkerOK, Threads, PCs, ClosePCs
<1>3. TypeOK'
  BY <1>1, <1>2, Frame DEF Inv, TypeOK
<1>4. (\A u \in Workers : WorkerOK(u))'
  BY DEF Inv, TypeOK, ThreadTypeOK, WorkerOK, LoopsOK, Threads, MsgSendPCs, ClosePCs,
       threadVars
<1>5. SenderOK'
  BY DEF Inv, TypeOK, QueueTypeOK, ThreadTypeOK, SenderOK, Threads, ScanPCs,
     ClosePCs, queueVars, threadVars
<1>6. LoopsOK'
  BY DEF Inv, TypeOK, ThreadTypeOK, LoopsOK, Threads, DispatchPCs, ClosePCs, threadVars
<1>7. QED
  BY <1>3, <1>4, <1>5, <1>6 DEF Inv

(* An expired packet is erased at the position of the scan.                *)
LEMMA DropExpiredInv ==
  ASSUME Inv, DropExpired
  PROVE  Inv'
<1> USE SendQueueAssumption DEF DropExpired, At, Goto
<1>a. pos \in 1..Len(MsgSendQueue)
  BY LenProperties DEF Inv, TypeOK, QueueTypeOK, ThreadTypeOK
<1>1. QueueTypeOK'
  BY <1>a, RemoveAtType DEF EraseAt, FreeMemory, Inv, TypeOK, QueueTypeOK
<1>2. TypeOK'
  BY <1>1, Frame DEF Inv, TypeOK
<1>3. (\A u \in Workers : WorkerOK(u))'
  BY DEF Inv, TypeOK, ThreadTypeOK, WorkerOK, LoopsOK, Threads, MsgSendPCs, ClosePCs,
       threadVars
<1>4. SenderOK'
  BY DEF Inv, TypeOK, QueueTypeOK, ThreadTypeOK, SenderOK, Threads, ScanPCs,
     ClosePCs, queueVars, threadVars
<1>5. LoopsOK'
  BY DEF Inv, TypeOK, ThreadTypeOK, LoopsOK, Threads, DispatchPCs, ClosePCs, threadVars
<1>6. QED
  BY <1>2, <1>3, <1>4, <1>5 DEF Inv

(* The entry at the position of the scan names a connection.               *)
LEMMA KeepFreshInv ==
  ASSUME Inv, KeepFresh
  PROVE  Inv'
<1> USE SendQueueAssumption DEF KeepFresh, At, Goto
<1>a. MsgSendQueue[pos].conn \in Conns
  <2>1. pos \in 1..Len(MsgSendQueue)
    BY LenProperties DEF Inv, TypeOK, QueueTypeOK, ThreadTypeOK
  <2>2. MsgSendQueue[pos] \in Packet
    BY <2>1, ElementOfSeq DEF Inv, TypeOK, QueueTypeOK
  <2>3. QED
    BY <2>2 DEF Packet
<1>1. ThreadTypeOK'
  BY <1>a DEF Inv, TypeOK, ThreadTypeOK, Threads, PCs
<1>2. TypeOK'
  BY <1>1, Frame DEF Inv, TypeOK
<1>3. (\A u \in Workers : WorkerOK(u))'
  BY DEF Inv, TypeOK, ThreadTypeOK, WorkerOK, LoopsOK, Threads, MsgSendPCs, ClosePCs,
       threadVars
<1>4. SenderOK'
  BY <1>a DEF Inv, TypeOK, ThreadTypeOK, SenderOK, Threads, ScanPCs, queueVars
<1>5. LoopsOK'
  BY DEF Inv, TypeOK, ThreadTypeOK, LoopsOK, Threads, DispatchPCs, ClosePCs, threadVars
<1>6. QED
  BY <1>2, <1>3, <1>4, <1>5 DEF Inv

(* Skipping moves the scan one entry on.                                   *)
LEMMA SkipUnfinishedInv ==
  ASSUME Inv, SkipUnfinished
  PROVE  Inv'
<1> USE SendQueueAssumption DEF SkipUnfinished, Leave, At, Goto
<1>1. ThreadTypeOK'
  BY DEF Inv, TypeOK, QueueTypeOK, ThreadTypeOK, WorkerOK, Threads, PCs, ClosePCs
<1>2. TypeOK'
  BY <1>1, Frame DEF Inv, TypeOK
<1>3. (\A u \in Workers : WorkerOK(u))'
  BY DEF Inv, TypeOK, ThreadTypeOK, WorkerOK, LoopsOK, Threads, MsgSendPCs, ClosePCs,
       threadVars
<1>4. SenderOK'
  BY DEF Inv, TypeOK, QueueTypeOK, ThreadTypeOK, SenderOK, Threads, ScanPCs,
     ClosePCs, queueVars, threadVars
<1>5. LoopsOK'
  BY DEF Inv, TypeOK, ThreadTypeOK, LoopsOK, Threads, DispatchPCs, ClosePCs, threadVars
<1>6. QED
  BY <1>2, <1>3, <1>4, <1>5 DEF Inv

(* The packet taken becomes the one in flight at its connection.           *)
LEMMA TakePacketInv ==
  ASSUME Inv, TakePacket
  PROVE  Inv'
<1> USE SendQueueAssumption DEF TakePacket, At, Goto
<1>a. arg[Sender] \in Conns /\ pos \in 1..Len(MsgSendQueue)
  BY LenProperties DEF Inv, SenderOK, TypeOK, QueueTypeOK, ThreadTypeOK
<1>b. MsgSendQueue[pos] \in Packet
  BY <1>a, ElementOfSeq DEF Inv, TypeOK, QueueTypeOK
<1>c. MsgSendQueue[pos].id \in Ids
  BY <1>b DEF Packet
<1>d. MsgLen \in Int
  OBVIOUS
<1>1. QueueTypeOK'
  BY <1>a, RemoveAtType DEF EraseAt, Inv, TypeOK, QueueTypeOK
<1>2. ConnTypeOK'
  <2>1. iSendCount' \in [Conns -> Int]
    BY <1>a DEF CountTaken, Inv, TypeOK, ConnTypeOK
  <2>2. /\ psendMemPointer' \in [Conns -> Ids \cup {Null}]
        /\ psendbuf' \in [Conns -> Ids \cup {Null}]
    BY <1>a, <1>c DEF Inv, TypeOK, ConnTypeOK
  <2>3. isendlen' \in [Conns -> Int]
    BY <1>a, <1>d DEF Inv, TypeOK, ConnTypeOK
  <2>4. QED
    BY <2>1, <2>2, <2>3 DEF Inv, TypeOK, ConnTypeOK
<1>3. ThreadTypeOK'
  BY DEF Inv, TypeOK, QueueTypeOK, ThreadTypeOK, WorkerOK, Threads, PCs, ClosePCs
<1>4. TypeOK'
  BY <1>1, <1>2, <1>3, Frame DEF Inv, TypeOK
<1>5. (\A u \in Workers : WorkerOK(u))'
  BY DEF Inv, TypeOK, ThreadTypeOK, WorkerOK, LoopsOK, Threads, MsgSendPCs, ClosePCs,
       threadVars
<1>6. SenderOK'
  BY <1>a DEF Inv, TypeOK, ThreadTypeOK, SenderOK, Threads, ScanPCs
<1>7. LoopsOK'
  BY DEF Inv, TypeOK, ThreadTypeOK, LoopsOK, Threads, DispatchPCs, ClosePCs, threadVars
<1>8. QED
  BY <1>4, <1>5, <1>6, <1>7 DEF Inv

(* Units of the packet in flight go to the wire.                           *)
LEMMA SendProcInv ==
  ASSUME Inv, SendProc
  PROVE  Inv'
<1> USE SendQueueAssumption DEF SendProc, At, Goto
<1>a. arg[Sender] \in Conns
  BY DEF Inv, SenderOK
<1>b. PICK r \in SendResults(arg[Sender]) : sent' = r /\ Put(arg[Sender], r)
  OBVIOUS
<1>c. r \in Int
  BY <1>a, SendResultsInt DEF Inv
<1>1. ThreadTypeOK'
  BY <1>b, <1>c DEF Inv, TypeOK, ThreadTypeOK, Threads, PCs
<1>2. HistoryTypeOK'
  BY <1>a, <1>b, <1>c, PutType DEF Inv, TypeOK, HistoryTypeOK
<1>3. TypeOK'
  BY <1>1, <1>2, Frame DEF Inv, TypeOK
<1>4. (\A u \in Workers : WorkerOK(u))'
  BY DEF Inv, TypeOK, ThreadTypeOK, WorkerOK, LoopsOK, Threads, MsgSendPCs, ClosePCs,
       threadVars
<1>5. SenderOK'
  BY DEF Inv, TypeOK, QueueTypeOK, ThreadTypeOK, SenderOK, Threads, ScanPCs,
     ClosePCs, queueVars, threadVars
<1>6. LoopsOK'
  BY DEF Inv, TypeOK, ThreadTypeOK, LoopsOK, Threads, DispatchPCs, ClosePCs, threadVars
<1>7. QED
  BY <1>3, <1>4, <1>5, <1>6 DEF Inv

(* A finished or failed packet is freed.                                   *)
LEMMA SentAllInv ==
  ASSUME Inv, SentAll
  PROVE  Inv'
<1> USE SendQueueAssumption DEF SentAll, FreeMemory, At, Goto
<1>1. QueueTypeOK'
  BY DEF Inv, TypeOK, QueueTypeOK, WorkerOK, SenderOK, Threads, MsgSendPCs, ClosePCs
<1>2. ThreadTypeOK'
  BY DEF Inv, TypeOK, QueueTypeOK, ThreadTypeOK, WorkerOK, Threads, PCs, ClosePCs
<1>3. TypeOK'
  BY <1>1, <1>2, Frame DEF Inv, TypeOK
<1>4. (\A u \in Workers : WorkerOK(u))'
  BY DEF Inv, TypeOK, ThreadTypeOK, WorkerOK, LoopsOK, Threads, MsgSendPCs, ClosePCs,
       threadVars
<1>5. SenderOK'
  BY DEF Inv, TypeOK, QueueTypeOK, ThreadTypeOK, SenderOK, Threads, ScanPCs,
     ClosePCs, queueVars, threadVars
<1>6. LoopsOK'
  BY DEF Inv, TypeOK, ThreadTypeOK, LoopsOK, Threads, DispatchPCs, ClosePCs, threadVars
<1>7. QED
  BY <1>3, <1>4, <1>5, <1>6 DEF Inv

(* Forgetting a sent packet clears its connection.                         *)
LEMMA ClearSentInv ==
  ASSUME Inv, ClearSent
  PROVE  Inv'
<1> USE SendQueueAssumption DEF ClearSent, Leave, At, Goto
<1>1. ConnTypeOK'
  BY DEF Inv, TypeOK, QueueTypeOK, ConnTypeOK, ThreadTypeOK, WorkerOK, SenderOK, LoopsOK,
       Threads, ClosePCs
<1>2. ThreadTypeOK'
  BY DEF Inv, TypeOK, QueueTypeOK, ThreadTypeOK, WorkerOK, Threads, PCs, ClosePCs
<1>3. TypeOK'
  BY <1>1, <1>2, Frame DEF Inv, TypeOK
<1>4. (\A u \in Workers : WorkerOK(u))'
  BY DEF Inv, TypeOK, ThreadTypeOK, WorkerOK, LoopsOK, Threads, MsgSendPCs, ClosePCs,
       threadVars
<1>5. SenderOK'
  BY DEF Inv, TypeOK, QueueTypeOK, ThreadTypeOK, SenderOK, Threads, ScanPCs,
     ClosePCs, queueVars, threadVars
<1>6. LoopsOK'
  BY DEF Inv, TypeOK, ThreadTypeOK, LoopsOK, Threads, DispatchPCs, ClosePCs, threadVars
<1>7. QED
  BY <1>3, <1>4, <1>5, <1>6 DEF Inv

(* What a partial send leaves is still an integer.                         *)
LEMMA SentPartInv ==
  ASSUME Inv, SentPart
  PROVE  Inv'
<1> USE SendQueueAssumption DEF SentPart, At, Goto
<1>a. arg[Sender] \in Conns
  BY DEF Inv, SenderOK
<1>b. sent \in Int
  BY DEF Inv, TypeOK, ThreadTypeOK
<1>1. ConnTypeOK'
  <2>1. isendlen' \in [Conns -> Int]
    BY <1>a, <1>b DEF Inv, TypeOK, ConnTypeOK
  <2>2. iThrowsendCount' \in [Conns -> Int]
    BY <1>a DEF Inv, TypeOK, ConnTypeOK
  <2>3. QED
    BY <2>1, <2>2 DEF Inv, TypeOK, ConnTypeOK
<1>2. ThreadTypeOK'
  BY DEF Inv, TypeOK, QueueTypeOK, ThreadTypeOK, WorkerOK, Threads, PCs, ClosePCs
<1>3. TypeOK'
  BY <1>1, <1>2, Frame DEF Inv, TypeOK
<1>4. (\A u \in Workers : WorkerOK(u))'
  BY DEF Inv, TypeOK, ThreadTypeOK, WorkerOK, LoopsOK, Threads, MsgSendPCs, ClosePCs,
       threadVars
<1>5. SenderOK'
  BY DEF Inv, TypeOK, QueueTypeOK, ThreadTypeOK, SenderOK, Threads, ScanPCs,
     ClosePCs, queueVars, threadVars
<1>6. LoopsOK'
  BY DEF Inv, TypeOK, ThreadTypeOK, LoopsOK, Threads, DispatchPCs, ClosePCs, threadVars
<1>7. QED
  BY <1>3, <1>4, <1>5, <1>6 DEF Inv

(* EPOLLOUT is armed only on an open descriptor.                           *)
LEMMA ArmWriteInv ==
  ASSUME Inv, ArmWrite
  PROVE  Inv'
<1> USE SendQueueAssumption DEF ArmWrite, Leave, At, Goto
<1>1. ConnTypeOK'
  BY DEF Inv, TypeOK, QueueTypeOK, ConnTypeOK, ThreadTypeOK, WorkerOK, SenderOK, LoopsOK,
       Threads, ClosePCs
<1>2. ThreadTypeOK'
  BY DEF Inv, TypeOK, QueueTypeOK, ThreadTypeOK, WorkerOK, Threads, PCs, ClosePCs
<1>3. TypeOK'
  BY <1>1, <1>2, Frame DEF Inv, TypeOK
<1>4. (\A u \in Workers : WorkerOK(u))'
  BY DEF Inv, TypeOK, ThreadTypeOK, WorkerOK, LoopsOK, Threads, MsgSendPCs, ClosePCs,
       threadVars
<1>5. SenderOK'
  BY DEF Inv, TypeOK, QueueTypeOK, ThreadTypeOK, SenderOK, Threads, ScanPCs,
     ClosePCs, queueVars, threadVars
<1>6. LoopsOK'
  BY DEF Inv, TypeOK, ThreadTypeOK, LoopsOK, Threads, DispatchPCs, ClosePCs, threadVars
<1>7. QED
  BY <1>3, <1>4, <1>5, <1>6 DEF Inv

(* An event names the connection it is for.                                *)
LEMMA EpollWaitInv ==
  ASSUME Inv, NEW c \in Conns, EpollWait(c)
  PROVE  Inv'
<1> USE SendQueueAssumption DEF EpollWait, At, Goto
<1>1. ThreadTypeOK'
  BY DEF Inv, TypeOK, QueueTypeOK, ThreadTypeOK, WorkerOK, Threads, PCs, ClosePCs
<1>2. TypeOK'
  BY <1>1, Frame DEF Inv, TypeOK
<1>3. (\A u \in Workers : WorkerOK(u))'
  BY DEF Inv, TypeOK, ThreadTypeOK, WorkerOK, LoopsOK, Threads, MsgSendPCs, ClosePCs,
       threadVars
<1>4. SenderOK'
  BY DEF Inv, TypeOK, QueueTypeOK, ThreadTypeOK, SenderOK, Threads, ScanPCs,
     ClosePCs, queueVars, threadVars
<1>5. LoopsOK'
  BY DEF Inv, TypeOK, ThreadTypeOK, LoopsOK, Threads, DispatchPCs, ClosePCs, threadVars
<1>6. QED
  BY <1>2, <1>3, <1>4, <1>5 DEF Inv

(* A read takes bytes that are there.                                      *)
LEMMA ReadDataInv ==
  ASSUME Inv, ReadData
  PROVE  Inv'
<1> USE SendQueueAssumption DEF ReadData, NextBranch, Leave, At, Goto
<1>a. arg[Main] \in Conns
  BY DEF Inv, LoopsOK
<1>1. ThreadTypeOK'
  BY DEF Inv, TypeOK, QueueTypeOK, ThreadTypeOK, WorkerOK, Threads, PCs, ClosePCs
<1>2. PeerTypeOK'
  <2>1. unread' \in [Conns -> 0..MaxUnread]
    BY <1>a DEF Inv, TypeOK, PeerTypeOK
  <2>2. QED
    BY <2>1 DEF Inv, TypeOK, PeerTypeOK
<1>3. TypeOK'
  BY <1>1, <1>2, Frame DEF Inv, TypeOK
<1>4. (\A u \in Workers : WorkerOK(u))'
  BY DEF Inv, TypeOK, ThreadTypeOK, WorkerOK, LoopsOK, Threads, MsgSendPCs, ClosePCs,
       threadVars
<1>5. SenderOK'
  BY DEF Inv, TypeOK, QueueTypeOK, ThreadTypeOK, SenderOK, Threads, ScanPCs,
     ClosePCs, queueVars, threadVars
<1>6. LoopsOK'
  BY DEF Inv, TypeOK, ThreadTypeOK, LoopsOK, Threads, DispatchPCs, ClosePCs, threadVars
<1>7. QED
  BY <1>3, <1>4, <1>5, <1>6 DEF Inv

(* A failed read leads to zdClosesocketProc on the same connection.        *)
LEMMA ReadCloseInv ==
  ASSUME Inv, ReadClose
  PROVE  Inv'
<1> USE SendQueueAssumption DEF ReadClose, At, Goto
<1>1. ThreadTypeOK'
  BY DEF Inv, TypeOK, QueueTypeOK, ThreadTypeOK, WorkerOK, Threads, PCs, ClosePCs
<1>2. TypeOK'
  BY <1>1, Frame DEF Inv, TypeOK
<1>3. (\A u \in Workers : WorkerOK(u))'
  BY DEF Inv, TypeOK, ThreadTypeOK, WorkerOK, LoopsOK, Threads, MsgSendPCs, ClosePCs,
       threadVars
<1>4. SenderOK'
  BY DEF Inv, TypeOK, QueueTypeOK, ThreadTypeOK, SenderOK, Threads, ScanPCs,
     ClosePCs, queueVars, threadVars
<1>5. LoopsOK'
  BY DEF Inv, TypeOK, ThreadTypeOK, LoopsOK, Threads, DispatchPCs, ClosePCs, threadVars
<1>6. QED
  BY <1>2, <1>3, <1>4, <1>5 DEF Inv

(* The hang-up branch only decrements.                                     *)
LEMMA HangUpInv ==
  ASSUME Inv, HangUp
  PROVE  Inv'
<1> USE SendQueueAssumption DEF HangUp, Leave, At, Goto
<1>1. ConnTypeOK'
  BY DEF Inv, TypeOK, QueueTypeOK, ConnTypeOK, ThreadTypeOK, WorkerOK, SenderOK, LoopsOK,
       Threads, ClosePCs
<1>2. ThreadTypeOK'
  BY DEF Inv, TypeOK, QueueTypeOK, ThreadTypeOK, WorkerOK, Threads, PCs, ClosePCs
<1>3. TypeOK'
  BY <1>1, <1>2, Frame DEF Inv, TypeOK
<1>4. (\A u \in Workers : WorkerOK(u))'
  BY DEF Inv, TypeOK, ThreadTypeOK, WorkerOK, LoopsOK, Threads, MsgSendPCs, ClosePCs,
       threadVars
<1>5. SenderOK'
  BY DEF Inv, TypeOK, QueueTypeOK, ThreadTypeOK, SenderOK, Threads, ScanPCs,
     ClosePCs, queueVars, threadVars
<1>6. LoopsOK'
  BY DEF Inv, TypeOK, ThreadTypeOK, LoopsOK, Threads, DispatchPCs, ClosePCs, threadVars
<1>7. QED
  BY <1>3, <1>4, <1>5, <1>6 DEF Inv

(* Units of the packet in flight go to the wire, from the main thread.     *)
LEMMA WriteHandlerInv ==
  ASSUME Inv, WriteHandler
  PROVE  Inv'
<1> USE SendQueueAssumption DEF WriteHandler, At, Goto
<1>a. arg[Main] \in Conns
  BY DEF Inv, LoopsOK
<1>b. PICK r \in SendResults(arg[Main]) :
        /\ Put(arg[Main], r)
        /\ \/ /\ Disarm(arg[Main], r)
              /\ Goto(Main, "wpost")
              /\ UNCHANGED <<isendlen, arg>>
           \/ /\ isendlen' = [isendlen EXCEPT ![arg[Main]] = IF r > 0 THEN @ - r ELSE @]
              /\ Leave(Main, "idle")
              /\ UNCHANGED events
  BY Zenon
<1>c. r \in Int
  BY <1>a, SendResultsInt DEF Inv
<1>d. UNCHANGED <<queueVars, iCurrsequence, fd, iThrowsendCount, iSendCount,
     psendMemPointer,
                  psendbuf, slot, msg, pos, sent, event, peerVars, accepted>>
  OBVIOUS
<1>e. \/ pc' = [pc EXCEPT ![Main] = "wpost"] /\ UNCHANGED arg
      \/ pc' = [pc EXCEPT ![Main] = "idle"] /\ arg' = [arg EXCEPT ![Main] = Null]
  BY <1>b DEF Leave
<1>f. At(Main, "out")
  OBVIOUS
<1> HIDE DEF WriteHandler
<1>1. ConnTypeOK'
  <2>1. events' \in [Conns -> BOOLEAN]
    BY <1>a, <1>b DEF Disarm, Inv, TypeOK, ConnTypeOK
  <2>2. isendlen' \in [Conns -> Int]
    BY <1>a, <1>b, <1>c DEF Inv, TypeOK, ConnTypeOK
  <2>3. QED
    BY <1>d, <2>1, <2>2 DEF Inv, TypeOK, ConnTypeOK
<1>2. ThreadTypeOK'
  BY <1>d, <1>e DEF Inv, TypeOK, ThreadTypeOK, Threads, PCs
<1>3. HistoryTypeOK'
  BY <1>a, <1>b, <1>c, <1>d, PutType DEF Inv, TypeOK, HistoryTypeOK
<1>4. TypeOK'
  BY <1>1, <1>2, <1>3, <1>d, Frame DEF Inv, TypeOK
<1>5. (\A u \in Workers : WorkerOK(u))'
  BY <1>d, <1>e DEF Inv, TypeOK, ThreadTypeOK, WorkerOK, Threads
<1>6. SenderOK'
  BY <1>d, <1>e DEF Inv, TypeOK, ThreadTypeOK, SenderOK, Threads, queueVars
<1>7. LoopsOK'
  BY <1>d, <1>e, <1>f DEF Inv, TypeOK, ThreadTypeOK, LoopsOK, Threads, DispatchPCs
<1>8. QED
  BY <1>4, <1>5, <1>6, <1>7 DEF Inv

(* The write handler posts before it lets go of the packet.                *)
LEMMA WritePostInv ==
  ASSUME Inv, WritePost
  PROVE  Inv'
<1> USE SendQueueAssumption DEF WritePost, PostSend, At, Goto
<1>1. QueueTypeOK'
  BY DEF Inv, TypeOK, QueueTypeOK, WorkerOK, SenderOK, Threads, MsgSendPCs, ClosePCs
<1>2. ThreadTypeOK'
  BY DEF Inv, TypeOK, QueueTypeOK, ThreadTypeOK, WorkerOK, Threads, PCs, ClosePCs
<1>3. TypeOK'
  BY <1>1, <1>2, Frame DEF Inv, TypeOK
<1>4. (\A u \in Workers : WorkerOK(u))'
  BY DEF Inv, TypeOK, ThreadTypeOK, WorkerOK, LoopsOK, Threads, MsgSendPCs, ClosePCs,
       threadVars
<1>5. SenderOK'
  BY DEF Inv, TypeOK, QueueTypeOK, ThreadTypeOK, SenderOK, Threads, ScanPCs,
     ClosePCs, queueVars, threadVars
<1>6. LoopsOK'
  BY DEF Inv, TypeOK, ThreadTypeOK, LoopsOK, Threads, DispatchPCs, ClosePCs, threadVars
<1>7. QED
  BY <1>3, <1>4, <1>5, <1>6 DEF Inv

(* The write handler frees the packet in flight.                           *)
LEMMA WriteFreeInv ==
  ASSUME Inv, WriteFree
  PROVE  Inv'
<1> USE SendQueueAssumption DEF WriteFree, FreeMemory, At, Goto
<1>1. QueueTypeOK'
  BY DEF Inv, TypeOK, QueueTypeOK, WorkerOK, SenderOK, Threads, MsgSendPCs, ClosePCs
<1>2. ThreadTypeOK'
  BY DEF Inv, TypeOK, QueueTypeOK, ThreadTypeOK, WorkerOK, Threads, PCs, ClosePCs
<1>3. TypeOK'
  BY <1>1, <1>2, Frame DEF Inv, TypeOK
<1>4. (\A u \in Workers : WorkerOK(u))'
  BY DEF Inv, TypeOK, ThreadTypeOK, WorkerOK, LoopsOK, Threads, MsgSendPCs, ClosePCs,
       threadVars
<1>5. SenderOK'
  BY DEF Inv, TypeOK, QueueTypeOK, ThreadTypeOK, SenderOK, Threads, ScanPCs,
     ClosePCs, queueVars, threadVars
<1>6. LoopsOK'
  BY DEF Inv, TypeOK, ThreadTypeOK, LoopsOK, Threads, DispatchPCs, ClosePCs, threadVars
<1>7. QED
  BY <1>3, <1>4, <1>5, <1>6 DEF Inv

(* Then it forgets the packet.                                             *)
LEMMA WriteNullInv ==
  ASSUME Inv, WriteNull
  PROVE  Inv'
<1> USE SendQueueAssumption DEF WriteNull, At, Goto
<1>1. ConnTypeOK'
  BY DEF Inv, TypeOK, QueueTypeOK, ConnTypeOK, ThreadTypeOK, WorkerOK, SenderOK, LoopsOK,
       Threads, ClosePCs
<1>2. ThreadTypeOK'
  BY DEF Inv, TypeOK, QueueTypeOK, ThreadTypeOK, WorkerOK, Threads, PCs, ClosePCs
<1>3. TypeOK'
  BY <1>1, <1>2, Frame DEF Inv, TypeOK
<1>4. (\A u \in Workers : WorkerOK(u))'
  BY DEF Inv, TypeOK, ThreadTypeOK, WorkerOK, LoopsOK, Threads, MsgSendPCs, ClosePCs,
       threadVars
<1>5. SenderOK'
  BY DEF Inv, TypeOK, QueueTypeOK, ThreadTypeOK, SenderOK, Threads, ScanPCs,
     ClosePCs, queueVars, threadVars
<1>6. LoopsOK'
  BY DEF Inv, TypeOK, ThreadTypeOK, LoopsOK, Threads, DispatchPCs, ClosePCs, threadVars
<1>7. QED
  BY <1>3, <1>4, <1>5, <1>6 DEF Inv

(* Last it gives its count back.                                           *)
LEMMA WriteDecInv ==
  ASSUME Inv, WriteDec
  PROVE  Inv'
<1> USE SendQueueAssumption DEF WriteDec, WriteDone, Leave, At, Goto
<1>1. ConnTypeOK'
  BY DEF Inv, TypeOK, QueueTypeOK, ConnTypeOK, ThreadTypeOK, WorkerOK, SenderOK, LoopsOK,
       Threads, ClosePCs
<1>2. ThreadTypeOK'
  BY DEF Inv, TypeOK, QueueTypeOK, ThreadTypeOK, WorkerOK, Threads, PCs, ClosePCs
<1>3. TypeOK'
  BY <1>1, <1>2, Frame DEF Inv, TypeOK
<1>4. (\A u \in Workers : WorkerOK(u))'
  BY DEF Inv, TypeOK, ThreadTypeOK, WorkerOK, LoopsOK, Threads, MsgSendPCs, ClosePCs,
       threadVars
<1>5. SenderOK'
  BY DEF Inv, TypeOK, QueueTypeOK, ThreadTypeOK, SenderOK, Threads, ScanPCs,
     ClosePCs, queueVars, threadVars
<1>6. LoopsOK'
  BY DEF Inv, TypeOK, ThreadTypeOK, LoopsOK, Threads, DispatchPCs, ClosePCs, threadVars
<1>7. QED
  BY <1>3, <1>4, <1>5, <1>6 DEF Inv

(* A client that closes leaves bytes to read behind.                       *)
LEMMA PeerCloseInv ==
  ASSUME Inv, NEW c \in Conns, PeerClose(c)
  PROVE  Inv'
<1> USE SendQueueAssumption DEF PeerClose, At, Goto
<1>1. PeerTypeOK'
  BY DEF Inv, TypeOK, PeerTypeOK
<1>2. TypeOK'
  BY <1>1, Frame DEF Inv, TypeOK
<1>3. (\A u \in Workers : WorkerOK(u))'
  BY DEF Inv, TypeOK, ThreadTypeOK, WorkerOK, LoopsOK, Threads, MsgSendPCs, ClosePCs,
       threadVars
<1>4. SenderOK'
  BY DEF Inv, TypeOK, QueueTypeOK, ThreadTypeOK, SenderOK, Threads, ScanPCs,
     ClosePCs, queueVars, threadVars
<1>5. LoopsOK'
  BY DEF Inv, TypeOK, ThreadTypeOK, LoopsOK, Threads, DispatchPCs, ClosePCs, threadVars
<1>6. QED
  BY <1>2, <1>3, <1>4, <1>5 DEF Inv

(* A client that resets leaves none.                                       *)
LEMMA PeerResetInv ==
  ASSUME Inv, NEW c \in Conns, PeerReset(c)
  PROVE  Inv'
<1> USE SendQueueAssumption DEF PeerReset, At, Goto
<1>1. PeerTypeOK'
  BY DEF Inv, TypeOK, PeerTypeOK
<1>2. TypeOK'
  BY <1>1, Frame DEF Inv, TypeOK
<1>3. (\A u \in Workers : WorkerOK(u))'
  BY DEF Inv, TypeOK, ThreadTypeOK, WorkerOK, LoopsOK, Threads, MsgSendPCs, ClosePCs,
       threadVars
<1>4. SenderOK'
  BY DEF Inv, TypeOK, QueueTypeOK, ThreadTypeOK, SenderOK, Threads, ScanPCs,
     ClosePCs, queueVars, threadVars
<1>5. LoopsOK'
  BY DEF Inv, TypeOK, ThreadTypeOK, LoopsOK, Threads, DispatchPCs, ClosePCs, threadVars
<1>6. QED
  BY <1>2, <1>3, <1>4, <1>5 DEF Inv

(* A released connection keeps the types of its fields.                    *)
LEMMA ReleaseInv ==
  ASSUME Inv, NEW c \in Conns, Release(c)
  PROVE  Inv'
<1> USE SendQueueAssumption DEF Release, FreeMemory, At, Goto
<1>1. QueueTypeOK'
  BY DEF Inv, TypeOK, QueueTypeOK, WorkerOK, SenderOK, Threads, MsgSendPCs, ClosePCs
<1>2. ConnTypeOK'
  BY DEF Inv, TypeOK, QueueTypeOK, ConnTypeOK, ThreadTypeOK, WorkerOK, SenderOK, LoopsOK,
       Threads, ClosePCs
<1>3. TypeOK'
  BY <1>1, <1>2, Frame DEF Inv, TypeOK
<1>4. (\A u \in Workers : WorkerOK(u))'
  BY DEF Inv, TypeOK, ThreadTypeOK, WorkerOK, LoopsOK, Threads, MsgSendPCs, ClosePCs,
       threadVars
<1>5. SenderOK'
  BY DEF Inv, TypeOK, QueueTypeOK, ThreadTypeOK, SenderOK, Threads, ScanPCs,
     ClosePCs, queueVars, threadVars
<1>6. LoopsOK'
  BY DEF Inv, TypeOK, ThreadTypeOK, LoopsOK, Threads, DispatchPCs, ClosePCs, threadVars
<1>7. QED
  BY <1>3, <1>4, <1>5, <1>6 DEF Inv

(* A reused connection starts with empty histories.                        *)
LEMMA ReuseInv ==
  ASSUME Inv, NEW c \in Conns, Reuse(c)
  PROVE  Inv'
<1> USE SendQueueAssumption DEF Reuse, NewSequence, At, Goto
<1>1. ConnTypeOK'
  BY DEF Inv, TypeOK, QueueTypeOK, ConnTypeOK, ThreadTypeOK, WorkerOK, SenderOK, LoopsOK,
       Threads, ClosePCs
<1>2. PeerTypeOK'
  BY DEF Inv, TypeOK, PeerTypeOK
<1>3. HistoryTypeOK'
  <2>1. <<>> \in Seq(Ids) /\ <<>> \in Seq(Ids \cup {Null})
    BY EmptySeq
  <2>2. accepted' = [accepted EXCEPT ![c] = <<>>] /\ wire' = [wire EXCEPT ![c] = <<>>]
    OBVIOUS
  <2>3. QED
    BY <2>1, <2>2 DEF Inv, TypeOK, HistoryTypeOK
<1>4. TypeOK'
  BY <1>1, <1>2, <1>3, Frame DEF Inv, TypeOK
<1>5. (\A u \in Workers : WorkerOK(u))'
  BY DEF Inv, TypeOK, ThreadTypeOK, WorkerOK, LoopsOK, Threads, MsgSendPCs, ClosePCs,
       threadVars
<1>6. SenderOK'
  BY DEF Inv, TypeOK, QueueTypeOK, ThreadTypeOK, SenderOK, Threads, ScanPCs,
     ClosePCs, queueVars, threadVars
<1>7. LoopsOK'
  BY DEF Inv, TypeOK, ThreadTypeOK, LoopsOK, Threads, DispatchPCs, ClosePCs, threadVars
<1>8. QED
  BY <1>4, <1>5, <1>6, <1>7 DEF Inv

(* A kick of the timer thread moves that thread and nothing else.          *)
LEMMA KickCalm ==
  ASSUME Inv, NEW c \in Conns, ProcPingTimeOutChecking(c)
  PROVE  /\ UNCHANGED <<queueVars, connVars, msg, pos, sent, event, peerVars, history>>
         /\ TimerKicks /\ slot[c] = "used" /\ pc[Timer] = "idle"
         /\ pc'[Timer] = "closefd" /\ arg'[Timer] = c
         /\ pc' \in [Threads -> PCs] /\ arg' \in [Threads -> Conns \cup {Null}]
         /\ \A t \in Threads : t # Timer => pc'[t] = pc[t] /\ arg'[t] = arg[t]
         /\ Workers \cup {Main, Sender} \subseteq Threads /\ Timer \in Threads
         /\ Timer \notin Workers \cup {Main, Sender}
BY SendQueueAssumption DEF ProcPingTimeOutChecking, At, Goto, Inv, TypeOK, ThreadTypeOK,
   Threads, PCs

LEMMA KickInv ==
  ASSUME Inv, NEW c \in Conns, ProcPingTimeOutChecking(c)
  PROVE  Inv'
<1>1. ThreadTypeOK'
  BY KickCalm DEF Inv, TypeOK, ThreadTypeOK
<1>2. TypeOK'
  BY <1>1, KickCalm, Frame DEF Inv, TypeOK
<1>3. (\A u \in Workers : WorkerOK(u))'
  BY KickCalm DEF Inv, WorkerOK
<1>4. SenderOK'
  BY KickCalm DEF Inv, SenderOK, queueVars
<1>5. LoopsOK'
  BY KickCalm DEF Inv, LoopsOK, ClosePCs
<1>6. QED
  BY <1>2, <1>3, <1>4, <1>5 DEF Inv

-----------------------------------------------------------------------------
(* The invariant of the specification, and what follows from it.           *)

(* Every step of the program keeps the types and every thread's control    *)
(* state.                                                                  *)
LEMMA InvStep ==
  ASSUME Inv, [Next]_vars
  PROVE  Inv'
<1>1. CASE UNCHANGED vars
  BY <1>1 DEF vars, queueVars, connVars, threadVars, peerVars, history, Inv, TypeOK,
     QueueTypeOK, ConnTypeOK, ThreadTypeOK, PeerTypeOK, HistoryTypeOK, WorkerOK,
     SenderOK, LoopsOK
<1>2. CASE \E w \in Workers : MsgSend(w) \/ \E c \in Conns : BeginReply(w, c)
  BY <1>2, BeginReplyInv, MsgSendLockInv, MsgSendDiscardInv, MsgSendKickInv,
     MsgSendAdmitInv, MsgSendPushInv, MsgSendPostInv, MsgSendUnlockInv DEF MsgSend
<1>3. CASE \E t \in Closers : ZdClosesocketProc(t)
  BY <1>3, CloseFdInv, DecTestInv, DecInv, InRecyConnectQueueInv DEF ZdClosesocketProc
<1>4. CASE ServerSendQueueThread \/ SemInterrupted
  BY <1>4, SemWaitInv, SemInterruptedInv, LockQueueInv, EndOfQueueInv, DropExpiredInv,
     KeepFreshInv, SkipUnfinishedInv, TakePacketInv, SendProcInv, SentAllInv,
     ClearSentInv, SentPartInv, ArmWriteInv DEF ServerSendQueueThread
<1>5. CASE MainThread
  BY <1>5, EpollWaitInv, ReadDataInv, ReadCloseInv, HangUpInv, WriteHandlerInv,
     WritePostInv, WriteFreeInv, WriteNullInv, WriteDecInv DEF MainThread
<1>6. CASE \E c \in Conns : PeerClose(c) \/ PeerReset(c) \/ Release(c) \/ Reuse(c)
  BY <1>6, PeerCloseInv, PeerResetInv, ReleaseInv, ReuseInv
<1>7. CASE \E c \in Conns : ProcPingTimeOutChecking(c)
  BY <1>7, KickInv
<1>8. QED
  BY <1>1, <1>2, <1>3, <1>4, <1>5, <1>6, <1>7 DEF Next

(* The types of the sending half, for any number of clients, threads and   *)
(* packets, and where each thread can be in its code.                      *)
THEOREM TypeCorrect == Spec => []TypeOK
<1>1. Inv => TypeOK
  BY DEF Inv
<1>2. QED
  BY <1>1, InitInv, InvStep, PTL DEF Spec

-----------------------------------------------------------------------------
(* Two threads inside the lock are one thread.                             *)
LEMMA MutexStep ==
  ASSUME Inv, MutexInv, [Next]_vars
  PROVE  MutexInv'
<1> USE SendQueueAssumption DEF MutexInv, At, Goto, Inv, TypeOK, ThreadTypeOK, Threads,
        MsgSendPCs, ScanPCs, ClosePCs
<1>1. CASE UNCHANGED vars
  BY <1>1 DEF vars, queueVars, threadVars
<1>2. ASSUME NEW w \in Workers, MsgSend(w) \/ \E c \in Conns : BeginReply(w, c)
      PROVE  MutexInv'
  <2>1. CASE \E c \in Conns : BeginReply(w, c)
    BY <2>1 DEF BeginReply
  <2>2. CASE MsgSendLock(w)
    BY <2>2 DEF MsgSendLock
  <2>3. CASE MsgSendDiscard(w) \/ MsgSendKick(w) \/ MsgSendAdmit(w) \/ MsgSendPush(w)
    BY <2>3 DEF MsgSendDiscard, MsgSendKick, MsgSendAdmit, MsgSendPush, queueVars
  <2>4. CASE MsgSendPost(w) \/ MsgSendUnlock(w)
    BY <2>4 DEF MsgSendPost, MsgSendUnlock, Leave
  <2>5. QED
    BY <1>2, <2>1, <2>2, <2>3, <2>4 DEF MsgSend
<1>3. ASSUME NEW t \in Closers, ZdClosesocketProc(t)
      PROVE  MutexInv'
  <2>1. CASE CloseFd(t) \/ DecTest(t) \/ Dec(t)
    BY <2>1 DEF CloseFd, DecTest, Dec, queueVars
  <2>2. CASE InRecyConnectQueue(t)
    BY <2>2 DEF InRecyConnectQueue, Leave, queueVars
  <2>3. QED
    BY <1>3, <2>1, <2>2 DEF ZdClosesocketProc
<1>4. CASE ServerSendQueueThread \/ SemInterrupted
  <2>1. CASE SemWait \/ SemInterrupted
    BY <2>1 DEF SemWait, SemInterrupted, queueVars
  <2>2. CASE LockQueue \/ EndOfQueue
    BY <2>2 DEF LockQueue, EndOfQueue
  <2>3. CASE DropExpired \/ KeepFresh \/ SkipUnfinished
    BY <2>3 DEF DropExpired, KeepFresh, SkipUnfinished, Leave, queueVars, threadVars
  <2>4. CASE TakePacket \/ SendProc \/ SentAll
    BY <2>4 DEF TakePacket, SendProc, SentAll, queueVars
  <2>5. CASE ClearSent \/ SentPart \/ ArmWrite
    BY <2>5 DEF ClearSent, SentPart, ArmWrite, Leave, queueVars
  <2>6. QED
    BY <1>4, <2>1, <2>2, <2>3, <2>4, <2>5 DEF ServerSendQueueThread
<1>5. CASE MainThread
  <2>1. CASE \E c \in Conns : EpollWait(c)
    BY <2>1 DEF EpollWait, queueVars
  <2>2. CASE ReadData \/ ReadClose \/ HangUp
    BY <2>2 DEF ReadData, ReadClose, HangUp, NextBranch, Leave, queueVars
  <2>3. CASE WriteHandler
    BY <2>3 DEF WriteHandler, Leave, queueVars
  <2>4. CASE WritePost \/ WriteFree \/ WriteNull \/ WriteDec
    BY <2>4 DEF WritePost, WriteFree, WriteNull, WriteDec, Leave, queueVars
  <2>5. QED
    BY <1>5, <2>1, <2>2, <2>3, <2>4 DEF MainThread
<1>6. CASE \E c \in Conns : PeerClose(c) \/ PeerReset(c) \/ Release(c) \/ Reuse(c)
  BY <1>6 DEF PeerClose, PeerReset, Release, Reuse, queueVars, threadVars
<1>7. CASE \E c \in Conns : ProcPingTimeOutChecking(c)
  BY <1>7 DEF ProcPingTimeOutChecking, queueVars
<1>8. QED
  BY <1>1, <1>2, <1>3, <1>4, <1>5, <1>6, <1>7 DEF Next

(* While a packet is between msgSend's checks and its push, nobody else    *)
(* has touched the queue or added to the client's count.                   *)
LEMMA AdmittedStep ==
  ASSUME Inv, MutexInv, Admitted, LimitsHold, [Next]_vars
  PROVE  (Admitted /\ LimitsHold)'
<1> USE SendQueueAssumption DEF Admitted, LimitsHold, At, Goto
<1>0. /\ Len(MsgSendQueue) \in Nat
      /\ pc \in [Threads -> PCs] /\ mutex \in Threads \cup {Null}
      /\ iSendCount \in [Conns -> Int] /\ msg \in [Workers -> Packet \cup {Null}]
      /\ \A w \in Workers : pc[w] = "push" => msg[w] \in Packet /\ msg[w].conn \in Conns
  BY LenProperties DEF Inv, TypeOK, QueueTypeOK, ConnTypeOK, ThreadTypeOK, WorkerOK, Packet
<1>1. CASE UNCHANGED vars
  BY <1>1 DEF vars, queueVars, connVars, threadVars
<1>2. ASSUME NEW w \in Workers, MsgSend(w) \/ \E c \in Conns : BeginReply(w, c)
      PROVE  (Admitted /\ LimitsHold)'
  <2>1. CASE \E c \in Conns : BeginReply(w, c)
    BY <1>0, <2>1 DEF BeginReply, connVars, Threads
  <2>2. CASE MsgSendLock(w) \/ MsgSendDiscard(w) \/ MsgSendKick(w)
    BY <1>0, <2>2 DEF MsgSendLock, MsgSendDiscard, MsgSendKick, connVars, Threads
  <2>3. CASE MsgSendAdmit(w)
    <3>1. Len(MsgSendQueue) =< QueueCap /\ iSendCount[msg[w].conn] =< SendCap
      <4>1. msg[w].conn \in Conns
        BY <2>3 DEF MsgSendAdmit, Inv, WorkerOK, Packet
      <4>2. QED
        BY <1>0, <2>3, <4>1 DEF MsgSendAdmit, QueueFull, TooManyQueued
    <3>2. QED
      BY <1>0, <2>3, <3>1 DEF MsgSendAdmit, queueVars, connVars, Threads
  <2>4. CASE MsgSendPush(w)
    <3>1. /\ Len(MsgSendQueue') = Len(MsgSendQueue) + 1
          /\ iSendCount' = [iSendCount EXCEPT ![msg[w].conn] = @ + 1]
          /\ pc' = [pc EXCEPT ![w] = "post"] /\ pc[w] = "push"
      BY <1>0, <2>4, AppendProperties
      DEF MsgSendPush, Push, CountQueued, Inv, TypeOK, QueueTypeOK
    <3>2. mutex = w /\ \A u \in Workers : pc[u] = "push" => u = w
      BY <3>1 DEF MutexInv, MsgSendPCs
    <3>3. LimitsHold'
      BY <1>0, <3>1
    <3>4. Admitted'
      BY <1>0, <3>1, <3>2 DEF Threads
    <3>5. QED
      BY <3>3, <3>4
  <2>5. CASE MsgSendPost(w) \/ MsgSendUnlock(w)
    BY <1>0, <2>5 DEF MsgSendPost, MsgSendUnlock, Leave, connVars, Threads
  <2>6. QED
    BY <1>2, <2>1, <2>2, <2>3, <2>4, <2>5 DEF MsgSend
<1>3. ASSUME NEW t \in Closers, ZdClosesocketProc(t)
      PROVE  (Admitted /\ LimitsHold)'
  <2>1. CASE CloseFd(t) \/ DecTest(t) \/ Dec(t)
    BY <1>0, <2>1 DEF CloseFd, DecTest, Dec, queueVars, connVars, Threads
  <2>2. CASE InRecyConnectQueue(t)
    BY <1>0, <2>2 DEF InRecyConnectQueue, Leave, queueVars, Threads
  <2>3. QED
    BY <1>3, <2>1, <2>2 DEF ZdClosesocketProc
<1>4. CASE ServerSendQueueThread \/ SemInterrupted
  <2>1. CASE SemWait \/ SemInterrupted \/ LockQueue \/ EndOfQueue
    BY <1>0, <2>1 DEF SemWait, SemInterrupted, LockQueue, EndOfQueue, queueVars, connVars,
       Threads
  <2>2. CASE DropExpired
    <3>1. pos \in 1..Len(MsgSendQueue)
      BY <1>0, <2>2 DEF DropExpired, Inv, TypeOK, ThreadTypeOK
    <3>2. Len(MsgSendQueue') = Len(MsgSendQueue) - 1
      BY <2>2, <3>1, RemoveAtType DEF DropExpired, EraseAt, Inv, TypeOK, QueueTypeOK
    <3>3. QED
      BY <1>0, <2>2, <3>2 DEF DropExpired, connVars, threadVars
  <2>3. CASE KeepFresh \/ SkipUnfinished
    BY <1>0, <2>3 DEF KeepFresh, SkipUnfinished, Leave, queueVars, connVars, Threads
  <2>4. CASE TakePacket
    <3>1. pos \in 1..Len(MsgSendQueue) /\ arg[Sender] \in Conns
      BY <1>0, <2>4 DEF TakePacket, Inv, SenderOK, TypeOK, ThreadTypeOK
    <3>2. Len(MsgSendQueue') = Len(MsgSendQueue) - 1
      BY <2>4, <3>1, RemoveAtType DEF TakePacket, EraseAt, Inv, TypeOK, QueueTypeOK
    <3>3. /\ iSendCount' = [iSendCount EXCEPT ![arg[Sender]] = @ - 1]
          /\ pc' = [pc EXCEPT ![Sender] = "send"] /\ UNCHANGED msg
      BY <2>4 DEF TakePacket, CountTaken
    <3>4. \A c \in Conns : iSendCount'[c] =< iSendCount[c] /\ iSendCount'[c] \in Int
      BY <1>0, <3>1, <3>3
    <3>5. LimitsHold'
      BY <1>0, <3>2, <3>4
    <3>6. Admitted'
      BY <1>0, <3>2, <3>3, <3>4 DEF Threads
    <3>7. QED
      BY <3>5, <3>6
  <2>5. CASE SendProc \/ SentAll \/ ClearSent
    BY <1>0, <2>5 DEF SendProc, SentAll, ClearSent, Leave, queueVars, connVars, Threads
  <2>6. CASE SentPart \/ ArmWrite
    BY <1>0, <2>6 DEF SentPart, ArmWrite, Leave, queueVars, Threads
  <2>7. QED
    BY <1>4, <2>1, <2>2, <2>3, <2>4, <2>5, <2>6 DEF ServerSendQueueThread
<1>5. CASE MainThread
  <2>1. CASE \E c \in Conns : EpollWait(c)
    BY <1>0, <2>1 DEF EpollWait, queueVars, connVars, Threads
  <2>2. CASE ReadData \/ ReadClose \/ HangUp
    BY <1>0, <2>2 DEF ReadData, ReadClose, HangUp, NextBranch, Leave, queueVars, connVars,
       Threads
  <2>3. CASE WriteHandler
    BY <1>0, <2>3 DEF WriteHandler, Leave, queueVars, Threads
  <2>4. CASE WritePost \/ WriteFree
    BY <1>0, <2>4 DEF WritePost, WriteFree, connVars, Threads
  <2>5. CASE WriteNull \/ WriteDec
    BY <1>0, <2>5 DEF WriteNull, WriteDec, Leave, queueVars, Threads
  <2>6. QED
    BY <1>5, <2>1, <2>2, <2>3, <2>4, <2>5 DEF MainThread
<1>6. CASE \E c \in Conns : PeerClose(c) \/ PeerReset(c) \/ Release(c)
  BY <1>0, <1>6 DEF PeerClose, PeerReset, Release, queueVars, connVars, threadVars
<1>7. CASE \E c \in Conns : Reuse(c)
  BY <1>0, <1>7 DEF Reuse, queueVars, threadVars
<1>8. CASE \E c \in Conns : ProcPingTimeOutChecking(c)
  BY <1>0, <1>8, KickCalm DEF queueVars, connVars
<1>9. QED
  BY <1>1, <1>2, <1>3, <1>4, <1>5, <1>6, <1>7, <1>8 DEF Next

(* m_MsgSendQueue never holds more than QueueCap + 1 packets and no client *)
(* ever has more than SendCap + 1 of them: the checks of msgSend and its   *)
(* push are one critical section, and the send thread only takes away.     *)
THEOREM Limits == Spec => []LimitsHold
<1> DEFINE I == Inv /\ MutexInv /\ Admitted /\ LimitsHold
<1>1. Init => I
  <2>1. Init => MutexInv /\ Admitted
    BY SendQueueAssumption DEF Init, MutexInv, Admitted, Threads, MsgSendPCs, ScanPCs,
         ClosePCs
  <2>2. Init => LimitsHold
    BY SendQueueAssumption DEF Init, LimitsHold
  <2>3. QED
    BY <2>1, <2>2, InitInv
<1>2. I /\ [Next]_vars => I'
  BY InvStep, MutexStep, AdmittedStep
<1>3. I => LimitsHold
  OBVIOUS
<1>4. QED
  BY <1>1, <1>2, <1>3, PTL DEF Spec

-----------------------------------------------------------------------------
(* Lives of a connection.  iCurrsequence grows whenever a life ends and    *)
(* whenever one begins, so a packet numbered with it belongs to the life   *)
(* that goes on, and any other packet to one that is over.                 *)

Numbered(m) ==
  /\ m.seq =< iCurrsequence[m.conn]
  /\ m.seq = iCurrsequence[m.conn] => slot[m.conn] = "used"

\* The packet's connection has not been released since its request was read.
Kept(m) ==
  /\ slot[m.conn] \in {"used", "recy"}
  /\ slot[m.conn] = "used" => m.seq = iCurrsequence[m.conn]

\* So it is with the packets the threads work on; those in the queue may
\* outlive their connection, which is why the send thread compares numbers.
BuiltOK == \A w \in Workers : msg[w] # Null => Numbered(msg[w]) /\ Kept(msg[w])
QueuedOK == \A i \in 1..Len(MsgSendQueue) : Numbered(MsgSendQueue[i])
ThrownOK ==
  pc[Sender] = "throw" =>
    /\ MsgSendQueue[pos].conn = arg[Sender]
    /\ Kept(MsgSendQueue[pos])

LivesInv == BuiltOK /\ QueuedOK /\ ThrownOK

(* What the steps below use of the types.                                  *)
LEMMA LifeTypes ==
  ASSUME Inv
  PROVE  /\ MsgSendQueue \in Seq(Packet) /\ Len(MsgSendQueue) \in Nat
         /\ \A i \in 1..Len(MsgSendQueue) : MsgSendQueue[i] \in Packet
         /\ iCurrsequence \in [Conns -> Nat] /\ slot \in [Conns -> {"used", "recy", "free"}]
         /\ iSendCount \in [Conns -> Int]
         /\ pc \in [Threads -> PCs] /\ arg \in [Threads -> Conns \cup {Null}]
         /\ msg \in [Workers -> Packet \cup {Null}] /\ pos \in Nat \ {0}
         /\ \A w \in Workers : msg[w] # Null => msg[w] \in Packet
         /\ \A m \in Packet : m.conn \in Conns /\ m.seq \in Nat /\ m.id \in Ids
  BY ElementOfSeq, LenProperties
  DEF Inv, TypeOK, QueueTypeOK, ConnTypeOK, ThreadTypeOK, Packet

(* When a life of c ends or begins every packet of c is of an earlier one. *)
LEMMA LifeEnds ==
  ASSUME Inv, NEW c \in Conns, NEW s,
         slot' = [slot EXCEPT ![c] = s],
         iCurrsequence' = [iCurrsequence EXCEPT ![c] = @ + 1]
  PROVE  \A m \in Packet :
           Numbered(m) => /\ m.seq =< iCurrsequence'[m.conn]
                          /\ m.seq = iCurrsequence'[m.conn] => slot'[m.conn] = "used"
                          /\ m.conn = c => m.seq # iCurrsequence'[c]
  BY LifeTypes DEF Numbered

(* A step that neither moves a packet nor ends or begins a life.           *)
LEMMA LivesCalm ==
  ASSUME LivesInv, UNCHANGED <<MsgSendQueue, msg, slot, iCurrsequence>>,
         pc'[Sender] = "throw" => /\ pc[Sender] = "throw"
                                  /\ pos' = pos /\ arg'[Sender] = arg[Sender]
  PROVE  LivesInv'
  BY DEF LivesInv, BuiltOK, QueuedOK, ThrownOK, Numbered, Kept

(* What is left of the queue when the send thread takes an entry out.      *)
LEMMA QueuedErased ==
  ASSUME Inv, QueuedOK, NEW i \in 1..Len(MsgSendQueue), EraseAt(i),
         UNCHANGED <<slot, iCurrsequence>>
  PROVE  QueuedOK'
<1> DEFINE t == RemoveAt(MsgSendQueue, i)
<1>1. /\ Len(MsgSendQueue) \in Nat /\ Len(t) = Len(MsgSendQueue) - 1
      /\ \A j \in 1..Len(MsgSendQueue) - 1 :
           t[j] = IF j < i THEN MsgSendQueue[j] ELSE MsgSendQueue[j + 1]
  BY LifeTypes, RemovedPlaces
<1>2. MsgSendQueue' = t
  BY DEF EraseAt
<1> HIDE DEF t
<1>3. \A j \in 1..Len(t) : \E k \in 1..Len(MsgSendQueue) : t[j] = MsgSendQueue[k]
  BY <1>1
<1>4. QED
  BY <1>2, <1>3 DEF QueuedOK, Numbered

(* Every step keeps what is known of lives.                                *)
LEMMA LivesStep ==
  ASSUME Inv, MutexInv, LivesInv, [Next]_vars
  PROVE  LivesInv'
<1> USE SendQueueAssumption DEF At, Goto
<1>0. /\ Len(MsgSendQueue) \in Nat /\ pc \in [Threads -> PCs]
      /\ arg \in [Threads -> Conns \cup {Null}]
      /\ iCurrsequence \in [Conns -> Nat] /\ slot \in [Conns -> {"used", "recy", "free"}]
      /\ msg \in [Workers -> Packet \cup {Null}] /\ pos \in Nat \ {0}
      /\ \A i \in 1..Len(MsgSendQueue) : MsgSendQueue[i] \in Packet
      /\ \A w \in Workers : msg[w] # Null => msg[w] \in Packet
      /\ \A m \in Packet : m.conn \in Conns /\ m.seq \in Nat
      /\ \A w \in Workers : w \in Threads /\ w # Sender
      /\ Sender \in Threads /\ Main \in Threads
  BY LifeTypes DEF Threads
<1>1. CASE UNCHANGED vars
  BY <1>1, LivesCalm DEF vars, queueVars, connVars, threadVars
<1>2. ASSUME NEW w \in Workers, MsgSend(w) \/ \E c \in Conns : BeginReply(w, c)
      PROVE  LivesInv'
  <2>1. ASSUME NEW c \in Conns, BeginReply(w, c)
        PROVE  LivesInv'
    <3> DEFINE m == [id |-> nextId, conn |-> c, seq |-> iCurrsequence[c]]
    <3>1. /\ msg' = [msg EXCEPT ![w] = m] /\ m.conn = c /\ m.seq = iCurrsequence[c]
          /\ slot[c] = "used" /\ pc'[Sender] = pc[Sender]
          /\ UNCHANGED <<MsgSendQueue, slot, iCurrsequence, pos, arg>>
      BY <1>0, <2>1 DEF BeginReply, connVars
    <3> HIDE DEF m
    <3>2. BuiltOK'
      BY <1>0, <3>1 DEF LivesInv, BuiltOK, Numbered, Kept
    <3>3. QED
      BY <3>1, <3>2 DEF LivesInv, QueuedOK, ThrownOK, Numbered, Kept
  <2>2. CASE MsgSendLock(w) \/ MsgSendDiscard(w) \/ MsgSendKick(w) \/ MsgSendAdmit(w)
    <3>1. /\ UNCHANGED <<MsgSendQueue, msg, slot, iCurrsequence, pos>>
          /\ pc'[Sender] = pc[Sender] /\ arg'[Sender] = arg[Sender]
      BY <1>0, <2>2
      DEF MsgSendLock, MsgSendDiscard, MsgSendKick, MsgSendAdmit, connVars, queueVars
    <3>2. QED
      BY <3>1, LivesCalm
  <2>3. CASE MsgSendPush(w)
    <3>1. /\ msg[w] \in Packet /\ MsgSendQueue' = Append(MsgSendQueue, msg[w])
          /\ UNCHANGED <<msg, slot, iCurrsequence, pos, arg>> /\ pc[w] = "push"
          /\ pc'[Sender] = pc[Sender]
      BY <1>0, <2>3 DEF MsgSendPush, Push, Inv, WorkerOK
    <3>2. msg[w] # Null => Numbered(msg[w])
      BY DEF LivesInv, BuiltOK
    <3>3. msg[w] # Null
      BY <3>1
    <3>4. /\ Len(MsgSendQueue') = Len(MsgSendQueue) + 1
          /\ MsgSendQueue'[Len(MsgSendQueue) + 1] = msg[w]
          /\ \A i \in 1..Len(MsgSendQueue) : MsgSendQueue'[i] = MsgSendQueue[i]
      BY <3>1, LifeTypes, AppendProperties
    <3>5. QueuedOK'
      <4>1. \A i \in 1..Len(MsgSendQueue) + 1 :
              i \in 1..Len(MsgSendQueue) \/ i = Len(MsgSendQueue) + 1
        BY <1>0
      <4>2. QED
        BY <3>1, <3>2, <3>3, <3>4, <4>1 DEF LivesInv, QueuedOK, Numbered
    <3>6. pc[Sender] # "throw"
      BY <1>0, <3>1 DEF MutexInv, MsgSendPCs, ScanPCs
    <3>7. QED
      BY <3>1, <3>5, <3>6 DEF LivesInv, BuiltOK, ThrownOK, Numbered, Kept
  <2>4. CASE MsgSendPost(w) \/ MsgSendUnlock(w)
    <3>1. /\ UNCHANGED <<MsgSendQueue, slot, iCurrsequence, pos>>
          /\ msg' = [msg EXCEPT ![w] = Null]
          /\ pc'[Sender] = pc[Sender] /\ arg'[Sender] = arg[Sender]
      BY <1>0, <2>4 DEF MsgSendPost, MsgSendUnlock, Leave, connVars
    <3>2. QED
      BY <1>0, <3>1 DEF LivesInv, BuiltOK, QueuedOK, ThrownOK, Numbered, Kept
  <2>5. QED
    BY <1>2, <2>1, <2>2, <2>3, <2>4 DEF MsgSend
<1>3. ASSUME NEW t \in Closers, ZdClosesocketProc(t)
      PROVE  LivesInv'
  <2>0. t \in Threads /\ t # Sender
    BY DEF Threads, Closers
  <2>1. CASE CloseFd(t) \/ DecTest(t) \/ Dec(t)
    <3>1. /\ UNCHANGED <<MsgSendQueue, msg, slot, iCurrsequence, pos, arg>>
          /\ pc'[Sender] = pc[Sender]
      BY <1>0, <2>0, <2>1 DEF CloseFd, DecTest, Dec, queueVars, connVars
    <3>2. QED
      BY <3>1, LivesCalm
  <2>2. CASE InRecyConnectQueue(t)
    <3>1. /\ UNCHANGED <<MsgSendQueue, msg, pos>> /\ EnterRecycleList(arg[t])
          /\ pc'[Sender] = pc[Sender] /\ arg'[Sender] = arg[Sender]
      BY <1>0, <2>0, <2>2 DEF InRecyConnectQueue, Leave, queueVars
    <3>2. arg[t] \in Conns
      BY <2>2 DEF InRecyConnectQueue, Inv, WorkerOK, LoopsOK, Closers, ClosePCs
    <3>3. CASE slot[arg[t]] = "recy"
      BY <3>1, <3>3, LivesCalm DEF EnterRecycleList
    <3>4. CASE slot[arg[t]] # "recy"
      <4> DEFINE c == arg[t]
      <4>1. /\ slot' = [slot EXCEPT ![c] = "recy"]
            /\ iCurrsequence' = [iCurrsequence EXCEPT ![c] = @ + 1]
        BY <3>1, <3>4 DEF EnterRecycleList
      <4>2. c \in Conns
        BY <3>2
      <4> HIDE DEF c
      <4>3. \A m \in Packet :
              /\ Numbered(m) => /\ m.seq =< iCurrsequence'[m.conn]
                                /\ m.seq = iCurrsequence'[m.conn] => slot'[m.conn] = "used"
              /\ Kept(m) => /\ slot'[m.conn] \in {"used", "recy"}
                            /\ slot'[m.conn] = "used" => m.seq = iCurrsequence'[m.conn]
        BY <1>0, <4>1, <4>2, LifeEnds DEF Kept
      <4>4. BuiltOK' /\ QueuedOK'
        BY <1>0, <3>1, <4>3 DEF LivesInv, BuiltOK, QueuedOK, Numbered, Kept
      <4>5. ThrownOK'
        <5>1. pc[Sender] = "throw" => MsgSendQueue[pos] \in Packet
          BY <1>0 DEF Inv, SenderOK
        <5>2. QED
          BY <3>1, <4>3, <5>1 DEF LivesInv, ThrownOK, Kept
      <4>6. QED
        BY <4>4, <4>5 DEF LivesInv
    <3>5. QED
      BY <3>3, <3>4
  <2>3. QED
    BY <1>3, <2>1, <2>2 DEF ZdClosesocketProc
<1>4. CASE ServerSendQueueThread \/ SemInterrupted
  <2>1. CASE SemWait \/ SemInterrupted \/ LockQueue \/ EndOfQueue \/ SkipUnfinished
    <3>1. UNCHANGED <<MsgSendQueue, msg, slot, iCurrsequence>> /\ pc'[Sender] # "throw"
      BY <1>0, <2>1 DEF SemWait, SemInterrupted, LockQueue, EndOfQueue, SkipUnfinished,
         Leave, queueVars, connVars
    <3>2. QED
      BY <3>1, LivesCalm
  <2>2. CASE DropExpired
    <3>1. /\ pos \in 1..Len(MsgSendQueue) /\ EraseAt(pos)
          /\ UNCHANGED <<msg, slot, iCurrsequence, pc>> /\ pc[Sender] = "scan"
      BY <1>0, <2>2 DEF DropExpired, connVars, threadVars
    <3>2. QueuedOK'
      BY <3>1, QueuedErased DEF LivesInv
    <3>3. QED
      BY <3>1, <3>2 DEF LivesInv, BuiltOK, ThrownOK, Numbered, Kept
  <2>3. CASE KeepFresh
    <3>1. /\ UNCHANGED <<MsgSendQueue, msg, slot, iCurrsequence, pos>>
          /\ pos \in 1..Len(MsgSendQueue)
          /\ arg'[Sender] = MsgSendQueue[pos].conn
          /\ iCurrsequence[MsgSendQueue[pos].conn] = MsgSendQueue[pos].seq
      BY <1>0, <2>3 DEF KeepFresh, Expired, queueVars, connVars
    <3>2. Numbered(MsgSendQueue[pos])
      BY <3>1 DEF LivesInv, QueuedOK
    <3>3. QED
      BY <3>1, <3>2 DEF LivesInv, BuiltOK, QueuedOK, ThrownOK, Numbered, Kept
  <2>4. CASE TakePacket
    <3>1. /\ pos \in 1..Len(MsgSendQueue) /\ EraseAt(pos)
          /\ UNCHANGED <<msg, slot, iCurrsequence>> /\ pc'[Sender] # "throw"
      BY <1>0, <2>4 DEF TakePacket, Inv, SenderOK
    <3>2. QueuedOK'
      BY <3>1, QueuedErased DEF LivesInv
    <3>3. QED
      BY <3>1, <3>2 DEF LivesInv, BuiltOK, ThrownOK, Numbered, Kept
  <2>5. CASE SendProc \/ SentAll \/ ClearSent \/ SentPart \/ ArmWrite
    <3>1. UNCHANGED <<MsgSendQueue, msg, slot, iCurrsequence>> /\ pc'[Sender] # "throw"
      BY <1>0, <2>5 DEF SendProc, SentAll, ClearSent, SentPart, ArmWrite, Leave, queueVars,
         connVars
    <3>2. QED
      BY <3>1, LivesCalm
  <2>6. QED
    BY <1>4, <2>1, <2>2, <2>3, <2>4, <2>5 DEF ServerSendQueueThread
<1>5. CASE MainThread
  <2>1. /\ UNCHANGED <<MsgSendQueue, msg, slot, iCurrsequence, pos>>
        /\ pc'[Sender] = pc[Sender] /\ arg'[Sender] = arg[Sender]
    <3>1. CASE \E c \in Conns : EpollWait(c)
      BY <1>0, <3>1 DEF EpollWait, queueVars, connVars
    <3>2. CASE ReadData \/ ReadClose \/ HangUp
      BY <1>0, <3>2 DEF ReadData, ReadClose, HangUp, NextBranch, Leave, queueVars, connVars
    <3>3. CASE WriteHandler
      BY <1>0, <3>3 DEF WriteHandler, Leave, queueVars
    <3>4. CASE WritePost \/ WriteFree \/ WriteNull \/ WriteDec
      BY <1>0, <3>4 DEF WritePost, WriteFree, WriteNull, WriteDec, Leave, queueVars, connVars
    <3>5. QED
      BY <1>5, <3>1, <3>2, <3>3, <3>4 DEF MainThread
  <2>2. QED
    BY <2>1, LivesCalm
<1>6. CASE \E c \in Conns : PeerClose(c) \/ PeerReset(c)
  BY <1>6, LivesCalm DEF PeerClose, PeerReset, queueVars, connVars, threadVars
<1>7. ASSUME NEW c \in Conns, Release(c) \/ Reuse(c)
      PROVE  LivesInv'
  <2>1. PICK s \in {"used", "free"} : slot' = [slot EXCEPT ![c] = s]
    BY <1>7 DEF Release, Reuse
  <2>2. /\ iCurrsequence' = [iCurrsequence EXCEPT ![c] = @ + 1]
        /\ UNCHANGED <<MsgSendQueue, msg, pc, pos, arg>>
    BY <1>7 DEF Release, Reuse, NewSequence, queueVars, threadVars
  <2>3. \A m \in Packet :
          Numbered(m) => /\ m.seq =< iCurrsequence'[m.conn]
                         /\ m.seq = iCurrsequence'[m.conn] => slot'[m.conn] = "used"
    BY <2>1, <2>2, LifeEnds
  <2>4. \A w \in Workers : msg[w] # Null => msg[w].conn # c
    BY <1>0, <1>7 DEF Release, Quiet, Reuse, LivesInv, BuiltOK, Kept
  <2>5. pc[Sender] = "throw" => MsgSendQueue[pos].conn # c
    BY <1>0, <1>7 DEF Release, Quiet, Reuse, LivesInv, ThrownOK, Kept
  <2>6. BuiltOK'
    BY <1>0, <2>1, <2>2, <2>3, <2>4 DEF LivesInv, BuiltOK, Numbered, Kept
  <2>7. QueuedOK'
    BY <1>0, <2>2, <2>3 DEF LivesInv, QueuedOK, Numbered
  <2>8. ThrownOK'
    BY <1>0, <2>1, <2>2, <2>5 DEF LivesInv, ThrownOK, Kept
  <2>9. QED
    BY <2>6, <2>7, <2>8 DEF LivesInv
<1>8. CASE \E c \in Conns : ProcPingTimeOutChecking(c)
  BY <1>8, KickCalm, LivesCalm DEF queueVars, connVars
<1>9. QED
  BY <1>1, <1>2, <1>3, <1>4, <1>5, <1>6, <1>7, <1>8 DEF Next

-----------------------------------------------------------------------------
(* The count of a client is that of its packets in the queue: the push     *)
(* adds to both, the send thread takes from both, and the packets it drops *)
(* without counting are those of a life that is over.                      *)

Waiting(c) == {i \in 1..Len(MsgSendQueue) : IsFor(MsgSendQueue[i], c)}

(* They are the places that hold an element of one set.                    *)
LEMMA WaitingHits ==
  ASSUME NEW q \in Seq(Packet), NEW c \in Conns
  PROVE  {i \in 1..Len(q) : IsFor(q[i], c)} = Hits(q, {m \in Packet : IsFor(m, c)})
<1>1. \A i \in 1..Len(q) : q[i] \in Packet
  BY ElementOfSeq, LenProperties
<1>2. QED
  BY <1>1 DEF Hits

(* A step that touches neither the queue nor the counts.                   *)
LEMMA CountCalm ==
  ASSUME SendCountExact, UNCHANGED <<MsgSendQueue, iSendCount, slot, iCurrsequence>>
  PROVE  SendCountExact'
  BY DEF SendCountExact, IsFor

(* m is pushed.                                                            *)
LEMMA WaitingPushed ==
  ASSUME Inv, NEW m \in Packet, NEW c \in Conns, Push(m), UNCHANGED iCurrsequence
  PROVE  /\ Cardinality(Waiting(c)) \in Nat
         /\ Cardinality(Waiting(c)') = IF IsFor(m, c) THEN Cardinality(Waiting(c)) + 1
                                                     ELSE Cardinality(Waiting(c))
<1> DEFINE q == Append(MsgSendQueue, m)
           M == {n \in Packet : IsFor(n, c)}
<1>1. MsgSendQueue \in Seq(Packet) /\ q \in Seq(Packet)
  BY LifeTypes, AppendProperties
<1>2. Waiting(c) = Hits(MsgSendQueue, M)
  BY <1>1, WaitingHits DEF Waiting
<1>3. Waiting(c)' = Hits(q, M)
  <2>1. MsgSendQueue' = q
    BY DEF Push
  <2>2. Waiting(c)' = {i \in 1..Len(q) : IsFor(q[i], c)}
    BY <2>1 DEF Waiting, IsFor
  <2>3. QED
    BY <1>1, <2>2, WaitingHits
<1>4. m \in M <=> IsFor(m, c)
  OBVIOUS
<1> HIDE DEF M
<1>5. QED
  BY <1>1, <1>2, <1>3, <1>4, HitsFinite, HitsAppended

(* The entry at i is erased.                                               *)
LEMMA WaitingErased ==
  ASSUME Inv, NEW i \in 1..Len(MsgSendQueue), NEW c \in Conns, EraseAt(i),
         UNCHANGED iCurrsequence
  PROVE  /\ Cardinality(Waiting(c)) \in Nat
         /\ Cardinality(Waiting(c)') = IF IsFor(MsgSendQueue[i], c)
                                       THEN Cardinality(Waiting(c)) - 1
                                       ELSE Cardinality(Waiting(c))
<1> DEFINE q == RemoveAt(MsgSendQueue, i)
           M == {n \in Packet : IsFor(n, c)}
<1>1. MsgSendQueue \in Seq(Packet) /\ q \in Seq(Packet)
  BY LifeTypes, RemoveAtType
<1>2. Waiting(c) = Hits(MsgSendQueue, M)
  BY <1>1, WaitingHits DEF Waiting
<1>3. Waiting(c)' = Hits(q, M)
  <2>1. MsgSendQueue' = q
    BY DEF EraseAt
  <2>2. Waiting(c)' = {j \in 1..Len(q) : IsFor(q[j], c)}
    BY <2>1 DEF Waiting, IsFor
  <2>3. QED
    BY <1>1, <2>2, WaitingHits
<1>4. MsgSendQueue[i] \in M <=> IsFor(MsgSendQueue[i], c)
  BY LifeTypes
<1> HIDE DEF M
<1>5. QED
  BY <1>1, <1>2, <1>3, <1>4, HitsFinite, HitsRemoved

(* Every step keeps the counts.                                            *)
LEMMA CountStep ==
  ASSUME Inv, MutexInv, LivesInv, SendCountExact, [Next]_vars
  PROVE  SendCountExact'
<1> USE SendQueueAssumption DEF At, Goto
<1>0. /\ iCurrsequence \in [Conns -> Nat] /\ slot \in [Conns -> {"used", "recy", "free"}]
      /\ iSendCount \in [Conns -> Int] /\ pos \in Nat \ {0}
      /\ \A i \in 1..Len(MsgSendQueue) : MsgSendQueue[i] \in Packet
      /\ \A m \in Packet : m.conn \in Conns /\ m.seq \in Nat
  BY LifeTypes
<1>1. CASE UNCHANGED vars
  BY <1>1, CountCalm DEF vars, queueVars, connVars
<1>2. ASSUME NEW w \in Workers, MsgSend(w) \/ \E c \in Conns : BeginReply(w, c)
      PROVE  SendCountExact'
  <2>1. CASE \E c \in Conns : BeginReply(w, c)
    BY <2>1, CountCalm DEF BeginReply, connVars
  <2>2. CASE MsgSendLock(w) \/ MsgSendDiscard(w) \/ MsgSendKick(w) \/ MsgSendAdmit(w)
    BY <2>2, CountCalm
    DEF MsgSendLock, MsgSendDiscard, MsgSendKick, MsgSendAdmit, connVars, queueVars
  <2>3. CASE MsgSendPush(w)
    <3>1. /\ msg[w] \in Packet /\ Push(msg[w])
          /\ iSendCount' = [iSendCount EXCEPT ![msg[w].conn] = @ + 1]
          /\ UNCHANGED <<slot, iCurrsequence>>
      BY <2>3 DEF MsgSendPush, CountQueued, Inv, WorkerOK
    <3>2. slot[msg[w].conn] = "used" => IsFor(msg[w], msg[w].conn)
      BY <3>1 DEF LivesInv, BuiltOK, Kept, IsFor
    <3>3. ASSUME NEW c \in Conns, slot[c] = "used"
          PROVE  iSendCount'[c] = Cardinality(Waiting(c)')
      <4>1. iSendCount[c] = Cardinality(Waiting(c))
        BY <3>3 DEF SendCountExact, Waiting
      <4>2. msg[w].conn = c <=> IsFor(msg[w], c)
        BY <3>2, <3>3 DEF IsFor
      <4>3. QED
        BY <1>0, <3>1, <4>1, <4>2, WaitingPushed
    <3>4. QED
      BY <3>1, <3>3 DEF SendCountExact, Waiting
  <2>4. CASE MsgSendPost(w) \/ MsgSendUnlock(w)
    BY <2>4, CountCalm DEF MsgSendPost, MsgSendUnlock, connVars
  <2>5. QED
    BY <1>2, <2>1, <2>2, <2>3, <2>4 DEF MsgSend
<1>3. ASSUME NEW t \in Closers, ZdClosesocketProc(t)
      PROVE  SendCountExact'
  <2>1. CASE CloseFd(t) \/ DecTest(t) \/ Dec(t)
    BY <2>1, CountCalm DEF CloseFd, DecTest, Dec, queueVars, connVars
  <2>2. CASE InRecyConnectQueue(t)
    <3>1. UNCHANGED <<MsgSendQueue, iSendCount>> /\ EnterRecycleList(arg[t])
      BY <2>2 DEF InRecyConnectQueue, queueVars
    <3>2. \A c \in Conns : slot'[c] = "used" =>
            slot[c] = "used" /\ iCurrsequence'[c] = iCurrsequence[c]
      BY <1>0, <3>1 DEF EnterRecycleList
    <3>3. QED
      BY <3>1, <3>2 DEF SendCountExact, IsFor
  <2>3. QED
    BY <1>3, <2>1, <2>2 DEF ZdClosesocketProc
<1>4. CASE ServerSendQueueThread \/ SemInterrupted
  <2>1. CASE SemWait \/ SemInterrupted \/ LockQueue \/ EndOfQueue \/ KeepFresh \/ SkipUnfinished
    BY <2>1, CountCalm DEF SemWait, SemInterrupted, LockQueue, EndOfQueue, KeepFresh,
       SkipUnfinished, queueVars, connVars
  <2>2. CASE DropExpired
    <3>1. /\ pos \in 1..Len(MsgSendQueue) /\ EraseAt(pos)
          /\ UNCHANGED <<iSendCount, slot, iCurrsequence>>
          /\ \A c \in Conns : ~IsFor(MsgSendQueue[pos], c)
      BY <1>0, <2>2 DEF DropExpired, Expired, IsFor, connVars
    <3>2. QED
      BY <3>1, WaitingErased DEF SendCountExact, Waiting
  <2>3. CASE TakePacket
    <3> DEFINE m == MsgSendQueue[pos]
    <3>1. /\ pos \in 1..Len(MsgSendQueue) /\ EraseAt(pos) /\ pc[Sender] = "throw"
          /\ iSendCount' = [iSendCount EXCEPT ![arg[Sender]] = @ - 1]
          /\ UNCHANGED <<slot, iCurrsequence>>
      BY <1>0, <2>3 DEF TakePacket, CountTaken, Inv, SenderOK
    <3>2. m \in Packet /\ m.conn = arg[Sender] /\ arg[Sender] \in Conns
      BY <1>0, <3>1 DEF LivesInv, ThrownOK
    <3>3. slot[m.conn] = "used" => IsFor(m, m.conn)
      BY <3>1 DEF LivesInv, ThrownOK, Kept, IsFor
    <3>4. ASSUME NEW c \in Conns, slot[c] = "used"
          PROVE  iSendCount'[c] = Cardinality(Waiting(c)')
      <4>1. iSendCount[c] = Cardinality(Waiting(c))
        BY <3>4 DEF SendCountExact, Waiting
      <4>2. m.conn = c <=> IsFor(m, c)
        BY <3>3, <3>4 DEF IsFor
      <4>3. Cardinality(Waiting(c)) \in Nat
            /\ Cardinality(Waiting(c)') = IF IsFor(m, c) THEN Cardinality(Waiting(c)) - 1
                                                        ELSE Cardinality(Waiting(c))
        BY <3>1, WaitingErased
      <4> HIDE DEF m
      <4>4. QED
        BY <1>0, <3>1, <3>2, <4>1, <4>2, <4>3
    <3>5. QED
      BY <3>1, <3>4 DEF SendCountExact, Waiting
  <2>4. CASE SendProc \/ SentAll \/ ClearSent \/ SentPart \/ ArmWrite
    BY <2>4, CountCalm DEF SendProc, SentAll, ClearSent, SentPart, ArmWrite, queueVars,
       connVars
  <2>5. QED
    BY <1>4, <2>1, <2>2, <2>3, <2>4 DEF ServerSendQueueThread
<1>5. CASE MainThread
  <2>1. CASE (\E c \in Conns : EpollWait(c)) \/ ReadData \/ ReadClose \/ HangUp
    BY <2>1, CountCalm DEF EpollWait, ReadData, ReadClose, HangUp, queueVars, connVars
  <2>2. CASE WriteHandler
    BY <2>2, CountCalm DEF WriteHandler, queueVars
  <2>3. CASE WritePost \/ WriteFree \/ WriteNull \/ WriteDec
    BY <2>3, CountCalm DEF WritePost, WriteFree, WriteNull, WriteDec, queueVars, connVars
  <2>4. QED
    BY <1>5, <2>1, <2>2, <2>3 DEF MainThread
<1>6. CASE \E c \in Conns : PeerClose(c) \/ PeerReset(c)
  BY <1>6, CountCalm DEF PeerClose, PeerReset, queueVars, connVars
<1>7. ASSUME NEW c \in Conns, Release(c)
      PROVE  SendCountExact'
  <2>1. /\ slot' = [slot EXCEPT ![c] = "free"]
        /\ iCurrsequence' = [iCurrsequence EXCEPT ![c] = @ + 1]
        /\ UNCHANGED <<MsgSendQueue, iSendCount>>
    BY <1>7 DEF Release
  <2>2. \A d \in Conns : slot'[d] = "used" =>
          slot[d] = "used" /\ iCurrsequence'[d] = iCurrsequence[d]
    BY <1>0, <2>1
  <2>3. QED
    BY <2>1, <2>2 DEF SendCountExact, IsFor
<1>8. ASSUME NEW c \in Conns, Reuse(c)
      PROVE  SendCountExact'
  <2>1. /\ slot' = [slot EXCEPT ![c] = "used"]
        /\ iCurrsequence' = [iCurrsequence EXCEPT ![c] = @ + 1]
        /\ iSendCount' = [iSendCount EXCEPT ![c] = 0]
        /\ UNCHANGED MsgSendQueue
    BY <1>8 DEF Reuse, NewSequence, queueVars
  <2>2. \A i \in 1..Len(MsgSendQueue) : ~(IsFor(MsgSendQueue[i], c)')
    BY <1>0, <2>1, LifeEnds DEF LivesInv, QueuedOK, IsFor
  <2>3. iSendCount'[c] = Cardinality(Waiting(c)')
    <3>1. Waiting(c)' = {}
      BY <2>1, <2>2 DEF Waiting, IsFor
    <3>2. QED
      BY <1>0, <2>1, <3>1, FS_EmptySet
  <2>4. \A d \in Conns : d # c =>
          /\ iSendCount'[d] = iSendCount[d] /\ slot'[d] = slot[d]
          /\ Waiting(d)' = Waiting(d)
    BY <1>0, <2>1 DEF Waiting, IsFor
  <2>5. QED
    BY <2>3, <2>4 DEF SendCountExact, Waiting
<1>9. CASE \E c \in Conns : ProcPingTimeOutChecking(c)
  BY <1>9, KickCalm, CountCalm DEF queueVars, connVars
<1>10. QED
  BY <1>1, <1>2, <1>3, <1>4, <1>5, <1>6, <1>7, <1>8, <1>9 DEF Next

(* iSendCount of a live client is exactly the number of its packets in     *)
(* m_MsgSendQueue, through partial sends, hang-ups, kicks and reuse of the *)
(* connection object by the next client.                                   *)
THEOREM CountExact == Spec => []SendCountExact
<1> DEFINE I == Inv /\ MutexInv /\ LivesInv /\ SendCountExact
<1>1. Init => I
  <2> USE SendQueueAssumption
  <2>1. Init => MutexInv /\ LivesInv
    BY DEF Init, MutexInv, Threads, MsgSendPCs, ScanPCs, ClosePCs, LivesInv, BuiltOK,
         QueuedOK, ThrownOK
  <2>2. Init => SendCountExact
    <3>1. ASSUME Init, NEW c \in Conns
          PROVE  iSendCount[c] = Cardinality({i \in 1..Len(MsgSendQueue) :
                                               IsFor(MsgSendQueue[i], c)})
      <4>1. {i \in 1..Len(MsgSendQueue) : IsFor(MsgSendQueue[i], c)} = {}
        BY <3>1 DEF Init
      <4>2. QED
        BY <3>1, <4>1, FS_EmptySet DEF Init
    <3>2. QED
      BY <3>1 DEF SendCountExact
  <2>3. QED
    BY <2>1, <2>2, InitInv
<1>2. I /\ [Next]_vars => I'
  BY InvStep, MutexStep, LivesStep, CountStep
<1>3. I => SendCountExact
  OBVIOUS
<1>4. QED
  BY <1>1, <1>2, <1>3, PTL DEF Spec

-----------------------------------------------------------------------------
(* Packets, and who writes to whom, as long as no client hangs up and      *)
(* neither the read handler nor the timer thread throws one out: then only *)
(* msgSend closes a connection that is open, with the mutex that the send  *)
(* thread needs for its scan.                                              *)

Patient == ~PeerCloses /\ ~Floods /\ ~TimerKicks

Closed == {"decTest", "dec", "recycle"}
Busy == {"throw", "send", "after", "null", "arm"}

\* Where a connection may be closed or free, and who still has it then.
Open ==
  /\ ~event.hup /\ \A c \in Conns : peer[c] = "up"
  /\ \A c \in Conns : fd[c] => slot[c] = "used"
  /\ \A c \in Conns : slot[c] = "free" => Quiet(c) /\ psendMemPointer[c] = Null
  /\ \A t \in Workers \cup {Main} : pc[t] \in Closed => ~fd[arg[t]]
  /\ pc[Main] = "closefd" => ~fd[arg[Main]]
  /\ pc[Main] = "out" => event.out
  /\ pc[Sender] \in Busy => fd[arg[Sender]]
  /\ \A c \in Conns : slot[c] = "used" /\ ~fd[c] =>
       \E w \in Workers : arg[w] = c /\ pc[w] \in ClosePCs

\* The send thread, and the write handler, are at work on a packet of c.
Sends(c) == arg[Sender] = c /\ pc[Sender] \in {"send", "after", "null", "arm"}
Writes(c) == arg[Main] = c /\ pc[Main] \in {"wpost", "wfree", "wnull", "wdec"}

\* c has a packet of which units are to be sent, or that is to be freed.
Loaded(c) ==
  \/ events[c]
  \/ arg[Sender] = c /\ pc[Sender] \in {"send", "after", "arm"}
  \/ arg[Main] = c /\ pc[Main] \in {"wpost", "wfree"}

\* A packet is handed from the send thread to the write handler with EPOLLOUT, and
\* iThrowsendCount is 1 from before that until the write handler has done.
Phase(c) ==
  /\ iThrowsendCount[c] =
       IF events[c] \/ Writes(c) \/ (arg[Sender] = c /\ pc[Sender] = "arm") THEN 1 ELSE 0
  /\ events[c] => ~Writes(c) /\ ~Sends(c)
  /\ Writes(c) => ~Sends(c)
  /\ Loaded(c) => /\ psendMemPointer[c] = psendbuf[c] /\ psendbuf[c] \in heap
                  /\ isendlen[c] > 0
  /\ arg[Sender] = c /\ pc[Sender] = "after" => sent =< isendlen[c]
  /\ ~events[c] /\ ~Sends(c) /\ ~Writes(c) => psendMemPointer[c] = Null
  /\ arg[Main] = c /\ pc[Main] = "wdec" => psendMemPointer[c] = Null
  /\ arg[Main] = c /\ (pc[Main] = "out" \/ (pc[Main] = "read" /\ event.out)) => events[c]
Phases == \A c \in Conns : fd[c] => Phase(c)

\* A packet is with one pool thread, or once in the queue, or with one connection.
Building(w) == pc[w] \in {"lock", "body", "push"}
Queued(m) == \E i \in 1..Len(MsgSendQueue) : MsgSendQueue[i].id = m
Once ==
  \A i, j \in 1..Len(MsgSendQueue) : MsgSendQueue[i].id = MsgSendQueue[j].id => i = j
Apart ==
  /\ \A m \in heap : m < nextId
  /\ \A w \in Workers : Building(w) =>
       /\ msg[w].id \in heap /\ ~Queued(msg[w].id)
       /\ \A v \in Workers \ {w} : Building(v) => msg[v].id # msg[w].id
  /\ Once /\ \A m \in Ids : Queued(m) => m \in heap
  /\ \A c \in Conns : psendMemPointer[c] # Null =>
       /\ psendMemPointer[c] < nextId /\ ~Queued(psendMemPointer[c])
       /\ \A w \in Workers : Building(w) => msg[w].id # psendMemPointer[c]
       /\ \A d \in Conns \ {c} : psendMemPointer[d] # psendMemPointer[c]
  /\ pc[Sender] = "null" => psendMemPointer[arg[Sender]] \notin heap
  /\ pc[Main] = "wnull" => psendMemPointer[arg[Main]] \notin heap

\* All of it.
MemInv ==
  /\ Patient /\ pc[Timer] = "idle" /\ Inv /\ MutexInv /\ LivesInv
  /\ Open /\ Phases /\ Apart /\ NoLeak

(* What the steps below use of the types.                                  *)
LEMMA MemTypes ==
  ASSUME Inv
  PROVE  /\ heap \subseteq Ids /\ nextId \in Nat /\ Ids \subseteq Nat /\ Null \notin Ids
         /\ fd \in [Conns -> BOOLEAN] /\ events \in [Conns -> BOOLEAN]
         /\ iThrowsendCount \in [Conns -> Int]
         /\ psendMemPointer \in [Conns -> Ids \cup {Null}]
         /\ psendbuf \in [Conns -> Ids \cup {Null}]
         /\ isendlen \in [Conns -> Int] /\ sent \in Int
         /\ slot \in [Conns -> {"used", "recy", "free"}]
         /\ peer \in [Conns -> {"up", "closed", "reset"}]
         /\ event \in [in : BOOLEAN, out : BOOLEAN, hup : BOOLEAN]
         /\ pc \in [Threads -> PCs] /\ arg \in [Threads -> Conns \cup {Null}]
         /\ msg \in [Workers -> Packet \cup {Null}] /\ Null \notin Conns
         /\ \A w \in Workers : pc[w] # "idle" => msg[w] \in Packet /\ msg[w] # Null
         /\ \A w \in Workers : /\ pc[w] \in {"idle", "lock"} \cup MsgSendPCs
                               /\ pc[w] \in ClosePCs => arg[w] \in Conns
         /\ pc[Main] \in {"idle"} \cup DispatchPCs
         /\ pc[Main] # "idle" => arg[Main] \in Conns
         /\ pc[Sender] \in {"wait", "mutex"} \cup ScanPCs
         /\ pc[Sender] \in Busy => arg[Sender] \in Conns
         /\ \A w \in Workers : w \in Threads /\ w # Main /\ w # Sender
         /\ Main \in Threads /\ Sender \in Threads /\ Main # Sender
         /\ Timer \in Threads /\ Timer \notin Workers \cup {Main, Sender}
         /\ pc[Timer] \in {"idle"} \cup ClosePCs /\ (pc[Timer] # "idle" => arg[Timer] \in Conns)
  BY SendQueueAssumption
  DEF Inv, TypeOK, QueueTypeOK, ConnTypeOK, ThreadTypeOK, PeerTypeOK, WorkerOK, LoopsOK,
      SenderOK, Threads, Ids, Busy

(* The threads that close, and that they close a connection.               *)
LEMMA CloserTypes ==
  ASSUME Inv
  PROVE  /\ \A t \in Closers : /\ t \in Threads /\ t # Sender
                                /\ pc[t] \in ClosePCs => arg[t] \in Conns
         /\ Workers \cup {Main, Timer} = Closers
<1>1. ASSUME NEW t \in Closers
      PROVE  /\ t \in Threads /\ t # Sender
             /\ pc[t] \in ClosePCs => arg[t] \in Conns
  <2>1. t \in Workers \/ t = Main \/ t = Timer
    BY DEF Closers
  <2>2. pc[t] \in ClosePCs => pc[t] # "idle"
    BY DEF ClosePCs
  <2>3. QED
    BY <2>1, <2>2, MemTypes
<1>2. QED
  BY <1>1 DEF Closers

(* The timer thread kicks nobody, and is not in the middle of a close.     *)
LEMMA TimerIdle ==
  ASSUME MemInv, [Next]_vars
  PROVE  /\ pc'[Timer] = "idle" /\ \A c \in Conns : ~ProcPingTimeOutChecking(c)
         /\ \A t \in Closers : ZdClosesocketProc(t) => t \in Workers \cup {Main}
<1>1. Inv /\ pc[Timer] = "idle" /\ ~TimerKicks
  BY DEF MemInv, Patient
<1>2. \A c \in Conns : ~ProcPingTimeOutChecking(c)
  BY <1>1 DEF ProcPingTimeOutChecking
<1>3. \A t \in Closers : ZdClosesocketProc(t) => t \in Workers \cup {Main}
  BY <1>1 DEF ZdClosesocketProc, CloseFd, DecTest, Dec, InRecyConnectQueue, At, Closers
<1>4. ASSUME NEW t \in Threads \ {Timer}, UNCHANGED pc \/ \E p \in PCs : Goto(t, p)
      PROVE  pc'[Timer] = "idle"
  BY <1>1, <1>4, MemTypes DEF Goto
<1> HIDE DEF Goto
<1>5. pc'[Timer] = "idle"
  <2>1. CASE UNCHANGED vars
    BY <1>1, <2>1 DEF vars, threadVars
  <2>2. CASE \E w \in Workers : MsgSend(w) \/ \E c \in Conns : BeginReply(w, c)
    BY <1>4, <2>2, MemTypes, <1>1
    DEF MsgSend, BeginReply, MsgSendLock, MsgSendDiscard, MsgSendKick, MsgSendAdmit,
        MsgSendPush, MsgSendPost, MsgSendUnlock, Leave, PCs
  <2>3. CASE \E t \in Closers : ZdClosesocketProc(t)
    BY <1>1, <1>3, <1>4, <2>3, MemTypes
    DEF ZdClosesocketProc, CloseFd, DecTest, Dec, InRecyConnectQueue, Leave, PCs
  <2>4. CASE ServerSendQueueThread \/ SemInterrupted
    BY <1>1, <1>4, <2>4, MemTypes
    DEF ServerSendQueueThread, SemWait, SemInterrupted, LockQueue, EndOfQueue, DropExpired,
        KeepFresh, SkipUnfinished, TakePacket, SendProc, SentAll, ClearSent, SentPart, ArmWrite,
        Leave, threadVars, PCs
  <2>5. CASE MainThread
    BY <1>1, <1>4, <2>5, MemTypes
    DEF MainThread, EpollWait, ReadData, ReadClose, HangUp, NextBranch, WriteHandler,
        WritePost, WriteFree, WriteNull, WriteDec, Leave, PCs
  <2>6. CASE \E c \in Conns : PeerClose(c) \/ PeerReset(c) \/ Release(c) \/ Reuse(c)
    BY <1>1, <2>6 DEF PeerClose, PeerReset, Release, Reuse, threadVars
  <2>7. QED
    BY <1>2, <2>1, <2>2, <2>3, <2>4, <2>5, <2>6 DEF Next
<1>6. QED
  BY <1>2, <1>3, <1>5

-----------------------------------------------------------------------------
(* Open.                                                                   *)

(* A step that closes no socket and releases no object.                    *)
LEMMA OpenCalm ==
  ASSUME Inv, Open, UNCHANGED <<fd, slot, peer>>, ~event'.hup,
         \A c \in Conns : slot[c] = "free" => psendMemPointer'[c] = psendMemPointer[c],
         \A t \in Workers \cup {Main} :
           pc'[t] \in Closed => pc[t] \in Closed /\ arg'[t] = arg[t],
         pc'[Main] = "closefd" => ~fd[arg'[Main]],
         pc'[Main] = "out" => event'.out,
         pc'[Sender] \in Busy => fd[arg'[Sender]],
         \A w \in Workers : pc[w] \in ClosePCs => pc'[w] \in ClosePCs /\ arg'[w] = arg[w],
         \A t \in Threads : arg'[t] \in {arg[t], Null} \/ slot[arg'[t]] # "free",
         \A w \in Workers : msg'[w] \in {msg[w], Null} \/ slot[msg'[w].conn] # "free"
  PROVE  Open'
<1>1. \A c \in Conns : slot[c] = "free" => Quiet(c)'
  BY MemTypes DEF Open, Quiet
<1>2. \A c \in Conns : slot[c] = "used" /\ ~fd[c] =>
        \E w \in Workers : arg'[w] = c /\ pc'[w] \in ClosePCs
  BY DEF Open
<1>3. QED
  BY <1>1, <1>2 DEF Open

(* The steps of a pool thread in msgSend.                                  *)
LEMMA MsgSendOpen ==
  ASSUME MemInv, NEW w \in Workers, MsgSend(w) \/ \E c \in Conns : BeginReply(w, c)
  PROVE  Open'
<1> USE DEF At, Goto
<1>1. /\ Inv /\ Open
  BY DEF MemInv
<1>2. /\ UNCHANGED <<fd, slot, peer, event, psendMemPointer>>
      /\ \A t \in Threads : t # w => pc'[t] = pc[t] /\ arg'[t] = arg[t]
      /\ \A v \in Workers : v # w => msg'[v] = msg[v]
  BY <1>1, MemTypes DEF MsgSend, BeginReply, MsgSendLock, MsgSendDiscard, MsgSendKick,
     MsgSendAdmit, MsgSendPush, MsgSendPost, MsgSendUnlock, Leave, connVars, peerVars
<1>3. /\ pc'[w] \notin Closed /\ pc[w] \notin ClosePCs
      /\ arg'[w] \in {arg[w], Null} \/ slot[arg'[w]] # "free"
      /\ msg'[w] \in {msg[w], Null} \/ slot[msg'[w].conn] # "free"
  <2>1. CASE \E c \in Conns : BeginReply(w, c)
    BY <1>1, <2>1, MemTypes DEF BeginReply, Closed, ClosePCs
  <2>2. CASE MsgSendKick(w)
    <3>1. slot[msg[w].conn] # "free"
      BY <1>1, <2>2, MemTypes DEF MsgSendKick, Open, Quiet, Packet
    <3>2. QED
      BY <1>1, <2>2, <3>1, MemTypes DEF MsgSendKick, Closed, ClosePCs
  <2>3. CASE MsgSendLock(w) \/ MsgSendDiscard(w) \/ MsgSendAdmit(w) \/ MsgSendPush(w)
             \/ MsgSendPost(w) \/ MsgSendUnlock(w)
    BY <1>1, <2>3, MemTypes DEF MsgSendLock, MsgSendDiscard, MsgSendAdmit, MsgSendPush,
       MsgSendPost, MsgSendUnlock, Leave, Closed, ClosePCs
  <2>4. QED
    BY <2>1, <2>2, <2>3 DEF MsgSend
<1>4. QED
  BY <1>1, <1>2, <1>3, OpenCalm, MemTypes DEF Open, Busy

(* The steps of a close: the socket is closed before the count is lowered  *)
(* and the object goes to the recycle list.                                *)
LEMMA CloseOpen ==
  ASSUME MemInv, NEW t \in Workers \cup {Main}, ZdClosesocketProc(t)
  PROVE  Open'
<1> USE DEF At, Goto
<1>1. /\ Inv /\ Open /\ MutexInv /\ t \in Threads /\ t # Sender /\ arg[t] \in Conns
      /\ pc[t] \in ClosePCs /\ pc[t] # "idle"
  BY MemTypes DEF MemInv, ZdClosesocketProc, CloseFd, DecTest, Dec, InRecyConnectQueue, ClosePCs
<1>2. /\ \A u \in Threads : u # t => pc'[u] = pc[u] /\ arg'[u] = arg[u]
      /\ UNCHANGED <<peer, event, psendMemPointer, msg>>
  BY <1>1, MemTypes DEF ZdClosesocketProc, CloseFd, DecTest, Dec, InRecyConnectQueue, Leave,
     connVars, peerVars
<1>3. CASE CloseFd(t)
  <2>1. /\ fd' = [fd EXCEPT ![arg[t]] = FALSE] /\ UNCHANGED <<slot, arg>>
        /\ pc[t] = "closefd" /\ pc'[t] = "decTest"
    BY <1>1, <1>3, MemTypes DEF CloseFd
  <2>2. \A c \in Conns : fd'[c] => fd[c] /\ c # arg[t]
    BY <1>1, <2>1, MemTypes
  <2>3. \A c \in Conns : slot[c] = "free" => Quiet(c)'
    BY <1>1, <1>2, <2>1 DEF Open, Quiet
  <2>4. pc[Sender] \in Busy => fd'[arg[Sender]]
    <3>1. CASE t = Main
      <4>1. ~fd[arg[t]]
        BY <1>1, <2>1, <3>1 DEF Open
      <4>2. QED
        BY <1>1, <2>1, <4>1, MemTypes DEF Open
    <3>2. CASE t \in Workers
      <4>1. pc[Sender] \notin Busy
        BY <1>1, <3>2, MemTypes DEF MutexInv, MsgSendPCs, ScanPCs, Busy
      <4>2. QED
        BY <4>1
    <3>3. QED
      BY <3>1, <3>2
  <2>5. \A u \in Workers \cup {Main} : pc'[u] \in Closed => ~fd'[arg'[u]]
    BY <1>1, <1>2, <2>1, <2>2, MemTypes DEF Open, ClosePCs, Closed, DispatchPCs
  <2>6. \A c \in Conns : slot[c] = "used" /\ ~fd'[c] =>
          \E w \in Workers : arg'[w] = c /\ pc'[w] \in ClosePCs
    <3>1. SUFFICES ASSUME NEW c \in Conns, slot[c] = "used", ~fd'[c]
                   PROVE  \E w \in Workers : arg'[w] = c /\ pc'[w] \in ClosePCs
      OBVIOUS
    <3>2. CASE fd[c]
      <4>1. c = arg[t]
        BY <1>1, <2>1, <3>1, <3>2, MemTypes
      <4>2. t \in Workers
        BY <1>1, <2>1, <3>2, <4>1 DEF Open
      <4>3. QED
        BY <2>1, <4>1, <4>2 DEF ClosePCs
    <3>3. CASE ~fd[c]
      <4>1. PICK w \in Workers : arg[w] = c /\ pc[w] \in ClosePCs
        BY <1>1, <3>1, <3>3 DEF Open
      <4>2. QED
        BY <1>1, <1>2, <2>1, <4>1, MemTypes DEF ClosePCs
    <3>4. QED
      BY <3>2, <3>3
  <2>7. /\ pc'[Main] = "closefd" => pc[Main] = "closefd"
        /\ pc'[Main] = "out" => pc[Main] = "out"
        /\ pc'[Sender] = pc[Sender]
    BY <1>1, <1>2, <2>1, MemTypes
  <2>8. pc'[Main] = "closefd" => ~fd'[arg'[Main]]
    BY <1>1, <2>1, <2>2, <2>7, MemTypes DEF Open
  <2>9. QED
    BY <1>1, <1>2, <2>1, <2>2, <2>3, <2>4, <2>5, <2>6, <2>7, <2>8 DEF Open
<1>4. CASE DecTest(t) \/ Dec(t)
  <2>1. /\ UNCHANGED <<fd, slot, arg>> /\ pc[t] \in Closed /\ pc'[t] \in Closed
    BY <1>1, <1>4, MemTypes DEF DecTest, Dec, Closed, connVars
  <2>2. /\ pc'[t] \in ClosePCs /\ pc'[t] \notin {"closefd", "out"}
    BY <2>1 DEF ClosePCs, Closed
  <2>3. QED
    BY <1>1, <1>2, <2>1, <2>2, OpenCalm, MemTypes DEF Open
<1>5. CASE InRecyConnectQueue(t)
  <2>1. /\ pc[t] = "recycle" /\ fd' = fd
        /\ slot' = [slot EXCEPT ![arg[t]] = "recy"]
        /\ arg'[t] \in {arg[t], Null}
        /\ t \in Workers => pc'[t] = "unlock"
        /\ t = Main => pc'[t] \in {"out", "idle"} /\ (pc'[t] = "out" => event.out)
    BY <1>1, <1>5, MemTypes DEF InRecyConnectQueue, EnterRecycleList, Leave
  <2>2. pc'[t] \in {"unlock", "out", "idle"} /\ (pc'[Main] = "out" => event.out)
    BY <1>1, <1>2, <2>1, MemTypes DEF Open
  <2>3. ~fd[arg[t]]
    BY <1>1, <2>1 DEF Open, Closed
  <2>4. \A c \in Conns : slot'[c] = (IF c = arg[t] THEN "recy" ELSE slot[c])
    BY <1>1, <2>1, MemTypes
  <2>5. \A c \in Conns : slot'[c] = "free" => Quiet(c)' /\ psendMemPointer'[c] = Null
    BY <1>1, <1>2, <2>1, <2>4, MemTypes DEF Open, Quiet
  <2>6. \A c \in Conns : slot'[c] = "used" /\ ~fd'[c] =>
          \E w \in Workers : arg'[w] = c /\ pc'[w] \in ClosePCs
    BY <1>1, <1>2, <2>1, <2>4, MemTypes DEF Open
  <2>7. \A u \in Workers \cup {Main} : pc'[u] \in Closed => ~fd'[arg'[u]]
    BY <1>1, <1>2, <2>1, <2>2, MemTypes DEF Open, Closed
  <2>8. \A c \in Conns : fd'[c] => slot'[c] = "used"
    BY <1>1, <2>1, <2>3, <2>4 DEF Open
  <2>9. /\ pc'[Sender] \in Busy => fd'[arg'[Sender]]
        /\ pc'[Main] = "closefd" => ~fd'[arg'[Main]]
    BY <1>1, <1>2, <2>1, <2>2, MemTypes DEF Open
  <2>10. QED
    BY <1>1, <1>2, <2>2, <2>5, <2>6, <2>7, <2>8, <2>9 DEF Open
<1>6. QED
  BY <1>3, <1>4, <1>5 DEF ZdClosesocketProc

(* The send thread takes up a packet of this life only, and while it does  *)
(* nobody closes, as it has the mutex.                                     *)
LEMMA SenderOpen ==
  ASSUME MemInv, ServerSendQueueThread \/ SemInterrupted
  PROVE  Open'
<1> USE DEF At, Goto
<1>1. Inv /\ Open /\ MutexInv /\ LivesInv
  BY DEF MemInv
<1>2. /\ UNCHANGED <<fd, slot, peer, event, msg>>
      /\ \A t \in Threads : t # Sender => pc'[t] = pc[t] /\ arg'[t] = arg[t]
  BY <1>1, MemTypes
  DEF ServerSendQueueThread, SemWait, SemInterrupted, LockQueue, EndOfQueue, DropExpired,
      KeepFresh, SkipUnfinished, TakePacket, SendProc, SentAll, ClearSent, SentPart, ArmWrite,
      Leave, connVars, peerVars, threadVars
<1>3. ASSUME ~KeepFresh
      PROVE  /\ pc'[Sender] \in Busy => pc[Sender] \in Busy /\ arg'[Sender] = arg[Sender]
             /\ arg'[Sender] \in {arg[Sender], Null}
  BY <1>1, <1>3, MemTypes
  DEF ServerSendQueueThread, SemWait, SemInterrupted, LockQueue, EndOfQueue, DropExpired,
      SkipUnfinished, TakePacket, SendProc, SentAll, ClearSent, SentPart, ArmWrite,
      Leave, threadVars, Busy
<1>4. ASSUME KeepFresh
      PROVE  fd[arg'[Sender]] /\ slot[arg'[Sender]] = "used"
  <2> DEFINE m == MsgSendQueue[pos]
  <2>1. pos \in 1..Len(MsgSendQueue) /\ iCurrsequence[m.conn] = m.seq /\ arg'[Sender] = m.conn
    BY <1>1, <1>4, MemTypes, LifeTypes DEF KeepFresh, Expired
  <2>2. m \in Packet /\ Numbered(m)
    BY <1>1, <2>1, LifeTypes DEF LivesInv, QueuedOK
  <2>3. slot[m.conn] = "used" /\ m.conn \in Conns
    BY <2>1, <2>2 DEF Numbered, Packet
  <2>4. mutex = Sender
    BY <1>1, <1>4 DEF MutexInv, ScanPCs, KeepFresh
  <2>5. \A w \in Workers : pc[w] \notin ClosePCs
    BY <1>1, <2>4, MemTypes DEF MutexInv, MsgSendPCs
  <2>6. QED
    BY <1>1, <2>1, <2>3, <2>5 DEF Open
<1>5. \A c \in Conns : slot[c] = "free" => psendMemPointer'[c] = psendMemPointer[c]
  <2>1. ASSUME NEW c \in Conns, psendMemPointer'[c] # psendMemPointer[c]
        PROVE  arg[Sender] = c
    BY <1>1, <2>1, MemTypes
    DEF ServerSendQueueThread, SemWait, SemInterrupted, LockQueue, EndOfQueue, DropExpired,
        KeepFresh, SkipUnfinished, TakePacket, SendProc, SentAll, ClearSent, SentPart, ArmWrite,
        connVars
  <2>2. QED
    BY <1>1, <2>1, MemTypes DEF Open, Quiet
<1>6. /\ pc'[Sender] \in Busy => fd[arg'[Sender]]
      /\ arg'[Sender] \in {arg[Sender], Null} \/ slot[arg'[Sender]] # "free"
  BY <1>1, <1>3, <1>4 DEF Open
<1>7. QED
  BY <1>1, <1>2, <1>5, <1>6, OpenCalm, MemTypes DEF Open, Closed

(* The epoll thread closes only what a pool thread has closed before.      *)
LEMMA MainOpen ==
  ASSUME MemInv, MainThread
  PROVE  Open'
<1> USE DEF At, Goto
<1>1. Inv /\ Open /\ Patient
  BY DEF MemInv
<1>2. /\ UNCHANGED <<fd, slot, peer, msg>>
      /\ \A t \in Threads : t # Main => pc'[t] = pc[t] /\ arg'[t] = arg[t]
  BY <1>1, MemTypes
  DEF MainThread, EpollWait, ReadData, ReadClose, HangUp, NextBranch, WriteHandler, WritePost,
      WriteFree, WriteNull, WriteDec, Leave, connVars, peerVars
<1>3. /\ ~event'.hup /\ pc'[Main] \notin Closed
      /\ pc'[Main] = "closefd" => ~fd[arg'[Main]]
      /\ pc'[Main] = "out" => event'.out
      /\ arg'[Main] \in {arg[Main], Null} \/ slot[arg'[Main]] # "free"
  <2>1. ASSUME NEW c \in Conns, EpollWait(c)
        PROVE  /\ ~event'.hup /\ pc'[Main] \in {"read", "out"} /\ (pc'[Main] = "out" => event'.out)
               /\ arg'[Main] = c /\ slot[c] # "free"
    BY <1>1, <2>1, MemTypes DEF EpollWait, Open
  <2>2. CASE ReadClose
    BY <1>1, <2>2, MemTypes DEF ReadClose, Open, Patient, Closed
  <2>3. CASE ReadData \/ HangUp \/ WriteHandler \/ WritePost \/ WriteFree \/ WriteNull \/ WriteDec
    BY <1>1, <2>3, MemTypes
    DEF ReadData, HangUp, NextBranch, WriteHandler, WritePost, WriteFree, WriteNull, WriteDec,
        Leave, Open, Closed
  <2>4. QED
    BY <2>1, <2>2, <2>3 DEF MainThread, Closed
<1>4. \A c \in Conns : slot[c] = "free" => psendMemPointer'[c] = psendMemPointer[c]
  <2>1. ASSUME NEW c \in Conns, psendMemPointer'[c] # psendMemPointer[c]
        PROVE  arg[Main] = c
    BY <1>1, <2>1, MemTypes
    DEF MainThread, EpollWait, ReadData, ReadClose, HangUp, WriteHandler, WritePost, WriteFree,
        WriteNull, WriteDec, connVars
  <2>2. QED
    BY <1>1, <2>1, MemTypes DEF Open, Quiet
<1>5. QED
  BY <1>1, <1>2, <1>3, <1>4, OpenCalm, MemTypes DEF Open

(* Nobody is left who works on an object when it is released or used again. *)
LEMMA LifeOpen ==
  ASSUME MemInv, NEW c \in Conns, PeerClose(c) \/ PeerReset(c) \/ Release(c) \/ Reuse(c)
  PROVE  Open'
<1>1. Inv /\ Open /\ Patient
  BY DEF MemInv
<1>2. Release(c) \/ Reuse(c)
  BY <1>1 DEF PeerClose, PeerReset, Patient
<1>3. Quiet(c) /\ UNCHANGED <<pc, arg, msg, event>>
  BY <1>1, <1>2 DEF Release, Reuse, Open, threadVars
<1>4. \A t \in Threads : arg[t] # c
  BY <1>3 DEF Quiet
<1>5. \A d \in Conns : d # c => /\ fd'[d] = fd[d] /\ slot'[d] = slot[d] /\ peer'[d] = peer[d]
                                /\ psendMemPointer'[d] = psendMemPointer[d]
  BY <1>1, <1>2, MemTypes DEF Release, Reuse, peerVars
<1>6. \/ slot'[c] = "free" /\ fd'[c] = fd[c] /\ ~fd[c] /\ peer'[c] = peer[c] /\ psendMemPointer'[c] = Null
      \/ slot'[c] = "used" /\ fd'[c] /\ peer'[c] = "up" /\ psendMemPointer'[c] = Null
  BY <1>1, <1>2, MemTypes DEF Release, Reuse, Open, peerVars
<1>7. \A d \in Conns : slot'[d] = "free" => Quiet(d)' /\ psendMemPointer'[d] = Null
  BY <1>1, <1>3, <1>5, <1>6 DEF Open, Quiet
<1>8. \A d \in Conns : slot'[d] = "used" /\ ~fd'[d] =>
        \E w \in Workers : arg'[w] = d /\ pc'[w] \in ClosePCs
  BY <1>1, <1>3, <1>5, <1>6 DEF Open
<1>9. \A t \in Workers \cup {Main} : pc'[t] \in Closed => ~fd'[arg'[t]]
  BY <1>1, <1>3, <1>4, <1>5, MemTypes DEF Open, Closed, ClosePCs
<1>10. /\ pc'[Main] = "closefd" => ~fd'[arg'[Main]]
       /\ pc'[Sender] \in Busy => fd'[arg'[Sender]]
  BY <1>1, <1>3, <1>4, <1>5, MemTypes DEF Open
<1>11. \A d \in Conns : (fd'[d] => slot'[d] = "used") /\ peer'[d] = "up"
  BY <1>1, <1>5, <1>6 DEF Open
<1>12. QED
  BY <1>1, <1>3, <1>7, <1>8, <1>9, <1>10, <1>11 DEF Open

-----------------------------------------------------------------------------
(* Packets in their places.                                                *)

\* A step after which c has what it had.
Same(c) ==
  /\ iThrowsendCount'[c] = iThrowsendCount[c] /\ events'[c] = events[c]
  /\ psendMemPointer'[c] = psendMemPointer[c] /\ psendbuf'[c] = psendbuf[c]
  /\ isendlen'[c] = isendlen[c]

(* A connection the step is not about.                                     *)
LEMMA PhaseKept ==
  ASSUME NEW c \in Conns, Phase(c), Same(c),
         psendMemPointer[c] \in heap => psendMemPointer[c] \in heap',
         \A p \in {"send", "after", "null", "arm"} :
           (arg'[Sender] = c /\ pc'[Sender] = p) <=> (arg[Sender] = c /\ pc[Sender] = p),
         arg[Sender] = c => sent' = sent,
         \A p \in {"wpost", "wfree", "wnull", "wdec"} :
           (arg'[Main] = c /\ pc'[Main] = p) <=> (arg[Main] = c /\ pc[Main] = p),
         arg'[Main] = c /\ (pc'[Main] = "out" \/ (pc'[Main] = "read" /\ event'.out)) => events[c]
  PROVE  Phase(c)'
<1>1. (Sends(c)' <=> Sends(c)) /\ (Writes(c)' <=> Writes(c)) /\ (Loaded(c)' <=> Loaded(c))
  BY DEF Same, Sends, Writes, Loaded
<1>2. QED
  BY <1>1 DEF Phase, Same

(* The steps of a pool thread in msgSend.                                  *)
LEMMA MsgSendPhases ==
  ASSUME MemInv, NEW w \in Workers, MsgSend(w) \/ \E c \in Conns : BeginReply(w, c)
  PROVE  Phases'
<1> USE DEF At, Goto
<1>1. Inv /\ Phases /\ Apart
  BY DEF MemInv
<1>2. /\ UNCHANGED <<fd, event, sent, iThrowsendCount, events, psendMemPointer, psendbuf, isendlen>>
      /\ \A t \in Threads : t # w => pc'[t] = pc[t] /\ arg'[t] = arg[t]
  BY <1>1, MemTypes DEF MsgSend, BeginReply, MsgSendLock, MsgSendDiscard, MsgSendKick,
     MsgSendAdmit, MsgSendPush, MsgSendPost, MsgSendUnlock, Leave, connVars
<1>3. \A c \in Conns : psendMemPointer[c] \in heap => psendMemPointer[c] \in heap'
  <2>1. CASE MsgSendDiscard(w) \/ MsgSendKick(w)
    <3>1. heap' = heap \ {msg[w].id} /\ Building(w)
      BY <2>1 DEF MsgSendDiscard, MsgSendKick, FreeMemory, Building
    <3>2. QED
      BY <1>1, <3>1, MemTypes DEF Apart
  <2>2. CASE \E c \in Conns : BeginReply(w, c)
    BY <2>2 DEF BeginReply
  <2>3. CASE MsgSendLock(w) \/ MsgSendAdmit(w) \/ MsgSendPush(w) \/ MsgSendPost(w)
             \/ MsgSendUnlock(w)
    BY <2>3 DEF MsgSendLock, MsgSendAdmit, MsgSendPush, MsgSendPost, MsgSendUnlock, queueVars
  <2>4. QED
    BY <2>1, <2>2, <2>3 DEF MsgSend
<1>4. QED
  <2>1. SUFFICES ASSUME NEW c \in Conns, fd'[c]
                 PROVE  Phase(c)'
    BY DEF Phases
  <2>2. Phase(c) /\ Same(c)
    BY <1>1, <1>2, <2>1 DEF Phases, Same
  <2>3. /\ pc'[Sender] = pc[Sender] /\ arg'[Sender] = arg[Sender]
        /\ pc'[Main] = pc[Main] /\ arg'[Main] = arg[Main]
    BY <1>1, <1>2, MemTypes
  <2>4. arg'[Main] = c /\ (pc'[Main] = "out" \/ (pc'[Main] = "read" /\ event'.out)) => events[c]
    BY <1>2, <2>2, <2>3 DEF Phase
  <2>5. QED
    BY <1>2, <1>3, <2>2, <2>3, <2>4, PhaseKept

(* A close is about a connection that is closed by then.                   *)
LEMMA ClosePhases ==
  ASSUME MemInv, NEW t \in Workers \cup {Main}, ZdClosesocketProc(t)
  PROVE  Phases'
<1> USE DEF At, Goto
<1>1. /\ Inv /\ Open /\ Phases /\ t \in Threads /\ t # Sender /\ arg[t] \in Conns
      /\ pc[t] \in ClosePCs
  BY MemTypes DEF MemInv, ZdClosesocketProc, CloseFd, DecTest, Dec, InRecyConnectQueue, ClosePCs
<1>2. /\ UNCHANGED <<heap, event, sent, psendMemPointer, psendbuf, isendlen>>
      /\ \A u \in Threads : u # t => pc'[u] = pc[u] /\ arg'[u] = arg[u]
      /\ \A c \in Conns : c # arg[t] => Same(c) /\ fd'[c] = fd[c]
      /\ arg'[t] \in {arg[t], Null}
  BY <1>1, MemTypes DEF ZdClosesocketProc, CloseFd, DecTest, Dec, InRecyConnectQueue, Leave,
     connVars, queueVars, Same
<1>3. ~fd'[arg[t]]
  BY <1>1, MemTypes DEF ZdClosesocketProc, CloseFd, DecTest, Dec, InRecyConnectQueue,
     connVars, Open, Closed
<1>4. QED
  <2>1. SUFFICES ASSUME NEW c \in Conns, fd'[c]
                 PROVE  Phase(c)'
    BY DEF Phases
  <2>2. c # arg[t] /\ Phase(c) /\ Same(c)
    BY <1>1, <1>2, <1>3, <2>1 DEF Phases
  <2>3. /\ pc'[Sender] = pc[Sender] /\ arg'[Sender] = arg[Sender]
        /\ t # Main => pc'[Main] = pc[Main] /\ arg'[Main] = arg[Main]
        /\ t = Main => arg[Main] # c /\ arg'[Main] # c
    BY <1>1, <1>2, <2>2, MemTypes
  <2>4. arg'[Main] = c /\ (pc'[Main] = "out" \/ (pc'[Main] = "read" /\ event'.out)) => events[c]
    BY <1>2, <2>2, <2>3 DEF Phase
  <2>5. QED
    BY <1>2, <2>2, <2>3, <2>4, PhaseKept

(* The send thread, which takes up a packet of c only when nobody else is  *)
(* at work on one, as iThrowsendCount tells it.                            *)
LEMMA ScanPhases ==
  ASSUME MemInv, SemWait \/ SemInterrupted \/ LockQueue \/ EndOfQueue \/ DropExpired
                 \/ KeepFresh \/ SkipUnfinished
  PROVE  Phases'
<1> USE DEF At, Goto
<1>1. Inv /\ Phases /\ Apart
  BY DEF MemInv
<1>2. /\ UNCHANGED <<fd, event, sent, iThrowsendCount, events, psendMemPointer, psendbuf, isendlen>>
      /\ pc'[Main] = pc[Main] /\ arg'[Main] = arg[Main]
      /\ \A p \in {"send", "after", "null", "arm"} : pc[Sender] # p /\ pc'[Sender] # p
  BY <1>1, MemTypes
  DEF SemWait, SemInterrupted, LockQueue, EndOfQueue, DropExpired, KeepFresh, SkipUnfinished,
      Leave, connVars, threadVars
<1>3. \A c \in Conns : psendMemPointer[c] \in heap => psendMemPointer[c] \in heap'
  <2>1. CASE DropExpired
    <3> DEFINE m == MsgSendQueue[pos].id
    <3>1. heap' = heap \ {m} /\ Queued(m)
      BY <1>1, <2>1, LifeTypes DEF DropExpired, FreeMemory, Queued
    <3>2. QED
      BY <1>1, <3>1, MemTypes DEF Apart
  <2>2. CASE ~DropExpired
    BY <2>2 DEF SemWait, SemInterrupted, LockQueue, EndOfQueue, KeepFresh, SkipUnfinished, queueVars
  <2>3. QED
    BY <2>1, <2>2
<1>4. QED
  <2>1. SUFFICES ASSUME NEW c \in Conns, fd'[c]
                 PROVE  Phase(c)'
    BY DEF Phases
  <2>2. Phase(c) /\ Same(c)
    BY <1>1, <1>2, <2>1 DEF Phases, Same
  <2>3. arg'[Main] = c /\ (pc'[Main] = "out" \/ (pc'[Main] = "read" /\ event'.out)) => events[c]
    BY <1>2, <2>2 DEF Phase
  <2>4. QED
    BY <1>2, <1>3, <2>2, <2>3, PhaseKept

\* The send thread works on a packet of c, and nobody else has one of c.
Alone(c) ==
  /\ arg[Sender] = c /\ c \in Conns /\ fd[c] /\ ~events[c] /\ ~Writes(c)
  /\ ~(arg[Main] = c /\ (pc[Main] = "out" \/ (pc[Main] = "read" /\ event.out)))

(* It does not touch the other connections.                                *)
LEMMA SendPhases ==
  ASSUME MemInv, TakePacket \/ SendProc \/ SentAll \/ ClearSent \/ SentPart \/ ArmWrite
  PROVE  Phases'
<1> USE DEF At, Goto
<1>0. PICK s \in Conns : s = arg[Sender]
  BY MemTypes DEF MemInv, TakePacket, SendProc, SentAll, ClearSent, SentPart, ArmWrite, Busy
<1>1. /\ Inv /\ Open /\ Phases /\ Apart /\ fd[s] /\ Phase(s)
      /\ peer[s] = "up" /\ pc[Sender] \in Busy /\ s = arg[Sender]
  BY <1>0, MemTypes DEF MemInv, TakePacket, SendProc, SentAll, ClearSent, SentPart, ArmWrite,
     Busy, Open, Phases
<1>2. /\ UNCHANGED <<fd, event>> /\ arg'[Sender] \in {s, Null}
      /\ \A t \in Threads : t # Sender => pc'[t] = pc[t] /\ arg'[t] = arg[t]
      /\ \A c \in Conns : c # s => Same(c)
  <2>1. CASE TakePacket
    BY <1>1, <2>1, MemTypes DEF TakePacket, Same
  <2>2. CASE SendProc \/ SentAll \/ ArmWrite
    <3>1. UNCHANGED <<fd, event>> /\ \A c \in Conns : c # s => Same(c)
      BY <1>1, <2>2, MemTypes DEF SendProc, SentAll, ArmWrite, connVars, Same
    <3>2. QED
      BY <1>1, <2>2, <3>1, MemTypes DEF SendProc, SentAll, ArmWrite, Leave
  <2>3. CASE ClearSent
    BY <1>1, <2>3, MemTypes DEF ClearSent, Leave, Same
  <2>4. CASE SentPart
    BY <1>1, <2>4, MemTypes DEF SentPart, Same
  <2>5. QED
    BY <2>1, <2>2, <2>3, <2>4
<1>3. Alone(s)
  <2>1. CASE TakePacket
    <3>1. iThrowsendCount[s] # 1 /\ pc[Sender] = "throw"
      BY <1>1, <2>1, MemTypes DEF TakePacket, Unfinished
    <3>2. QED
      BY <1>1, <3>1 DEF Phase, Alone
  <2>2. CASE ~TakePacket
    <3>1. Sends(s)
      BY <1>1, <2>2 DEF SendProc, SentAll, ClearSent, SentPart, ArmWrite, Sends
    <3>2. QED
      BY <1>1, <3>1 DEF Phase, Alone
  <2>3. QED
    BY <2>1, <2>2
<1>4. \A c \in Conns : c # s /\ psendMemPointer[c] \in heap => psendMemPointer[c] \in heap'
  <2>1. CASE SentAll
    <3>1. heap' = heap \ {psendMemPointer[s]}
      BY <1>1, <2>1 DEF SentAll, FreeMemory
    <3>2. QED
      BY <1>1, <3>1, MemTypes DEF Apart
  <2>2. CASE ~SentAll
    BY <2>2 DEF TakePacket, SendProc, ClearSent, SentPart, ArmWrite, queueVars
  <2>3. QED
    BY <2>1, <2>2
<1>5. ASSUME NEW c \in Conns, c # s, fd'[c]
      PROVE  Phase(c)'
  <2>1. Phase(c) /\ Same(c) /\ arg'[Sender] # c /\ arg[Sender] # c
    BY <1>1, <1>2, <1>5, MemTypes DEF Phases
  <2>2. pc'[Main] = pc[Main] /\ arg'[Main] = arg[Main]
    BY <1>1, <1>2, MemTypes
  <2>3. arg'[Main] = c /\ (pc'[Main] = "out" \/ (pc'[Main] = "read" /\ event'.out)) => events[c]
    BY <1>2, <2>1, <2>2 DEF Phase
  <2>4. QED
    BY <1>4, <1>5, <2>1, <2>2, <2>3, PhaseKept
<1>6. /\ ~Writes(s)' /\ (~ArmWrite => ~events'[s])
      /\ ~(arg'[Main] = s /\ (pc'[Main] = "out" \/ (pc'[Main] = "read" /\ event'.out)))
  <2>1. pc'[Main] = pc[Main] /\ arg'[Main] = arg[Main]
    BY <1>1, <1>2, MemTypes
  <2>2. ~ArmWrite => events' = events
    BY DEF TakePacket, SendProc, SentAll, ClearSent, SentPart, connVars
  <2>3. QED
    BY <1>2, <1>3, <2>1, <2>2 DEF Alone, Writes
<1>7. Phase(s)'
  <2>1. CASE TakePacket
    <3> DEFINE m == MsgSendQueue[pos].id
    <3>1. /\ psendMemPointer'[s] = m /\ psendbuf'[s] = m /\ isendlen'[s] = MsgLen
          /\ heap' = heap /\ iThrowsendCount' = iThrowsendCount /\ pc[Sender] = "throw"
          /\ arg'[Sender] = s /\ pc'[Sender] = "send" /\ events' = events
      BY <1>1, <2>1, MemTypes DEF TakePacket
    <3>2. pos \in 1..Len(MsgSendQueue) /\ MsgSendQueue[pos] \in Packet
      BY <1>1, <2>1, LifeTypes DEF Inv, SenderOK, TakePacket
    <3>3. m \in heap
      BY <1>1, <3>2, LifeTypes DEF Apart, Queued
    <3>4. MsgLen > 0 /\ iThrowsendCount[s] = 0
      BY <1>1, <1>3, <3>1, SendQueueAssumption DEF Phase, Alone
    <3> HIDE DEF m
    <3>5. QED
      BY <1>1, <1>6, <2>1, <3>1, <3>3, <3>4 DEF Phase, Sends, Writes, Loaded, TakePacket
  <2>2. CASE SendProc
    <3>1. /\ pc[Sender] = "send" /\ pc'[Sender] = "after" /\ arg'[Sender] = s
          /\ UNCHANGED <<heap, iThrowsendCount, psendMemPointer, psendbuf, isendlen, events>>
          /\ sent' \in SendResults(s)
      BY <1>1, <2>2, MemTypes DEF SendProc, connVars, queueVars
    <3>2. isendlen[s] > 0 /\ isendlen[s] \in Int
      BY <1>1, <3>1, MemTypes DEF Phase, Loaded
    <3>3. sent' =< isendlen[s]
      BY <1>1, <3>1, <3>2 DEF SendResults
    <3>4. QED
      BY <1>1, <1>3, <1>6, <3>1, <3>3 DEF Phase, Alone, Sends, Writes, Loaded
  <2>3. CASE SentAll
    <3>1. /\ pc[Sender] = "after" /\ pc'[Sender] = "null" /\ arg'[Sender] = s
          /\ UNCHANGED <<iThrowsendCount, psendMemPointer, psendbuf, isendlen, events>>
      BY <1>1, <2>3, MemTypes DEF SentAll, connVars
    <3>2. QED
      BY <1>1, <1>3, <1>6, <3>1 DEF Phase, Alone, Sends, Writes, Loaded
  <2>4. CASE ClearSent
    <3>1. /\ arg'[Sender] = Null /\ pc'[Sender] = "scan" /\ events' = events
          /\ iThrowsendCount'[s] = 0 /\ psendMemPointer'[s] = Null
      BY <1>1, <2>4, MemTypes DEF ClearSent, Leave
    <3>2. QED
      BY <1>1, <1>3, <1>6, <3>1, MemTypes DEF Phase, Alone, Sends, Writes, Loaded
  <2>5. CASE SentPart
    <3>1. /\ pc[Sender] = "after" /\ pc'[Sender] = "arm" /\ arg'[Sender] = s
          /\ UNCHANGED <<heap, psendMemPointer, psendbuf, events>>
          /\ iThrowsendCount'[s] = iThrowsendCount[s] + 1
          /\ isendlen'[s] = IF sent > 0 THEN isendlen[s] - sent ELSE isendlen[s]
          /\ sent # isendlen[s]
      BY <1>1, <2>5, MemTypes DEF SentPart, queueVars
    <3>2. /\ iThrowsendCount[s] = 0 /\ isendlen[s] > 0 /\ sent =< isendlen[s]
          /\ psendMemPointer[s] = psendbuf[s] /\ psendbuf[s] \in heap
      BY <1>1, <1>3, <3>1 DEF Phase, Alone, Sends, Writes, Loaded
    <3>3. isendlen'[s] > 0
      BY <1>1, <3>1, <3>2, MemTypes
    <3>4. QED
      BY <1>1, <1>3, <1>6, <3>1, <3>2, <3>3 DEF Phase, Alone, Sends, Writes, Loaded
  <2>6. CASE ArmWrite
    <3>1. /\ pc[Sender] = "arm" /\ pc'[Sender] = "scan" /\ arg'[Sender] = Null
          /\ UNCHANGED <<heap, psendMemPointer, psendbuf, iThrowsendCount, isendlen>>
          /\ events'[s]
      BY <1>1, <2>6, MemTypes DEF ArmWrite, Leave, queueVars
    <3>2. QED
      BY <1>1, <1>3, <1>6, <3>1, MemTypes DEF Phase, Alone, Sends, Writes, Loaded
  <2>7. QED
    BY <2>1, <2>2, <2>3, <2>4, <2>5, <2>6
<1>8. QED
  BY <1>2, <1>5, <1>7 DEF Phases

(* The epoll thread goes into the write branch only where EPOLLOUT is      *)
(* armed, and gives the packet and the count back when it has sent it all. *)
LEMMA MainPhases ==
  ASSUME MemInv, MainThread
  PROVE  Phases'
<1> USE DEF At, Goto
<1>1. Inv /\ Open /\ Phases /\ Apart /\ Patient
  BY DEF MemInv
<1>2. ASSUME NEW d \in Conns, EpollWait(d)
      PROVE  Phases'
  <2>1. SUFFICES ASSUME NEW c \in Conns, fd'[c]
                 PROVE  Phase(c)'
    BY DEF Phases
  <2>2. /\ Phase(c) /\ Same(c) /\ UNCHANGED <<heap, sent>>
        /\ pc'[Sender] = pc[Sender] /\ arg'[Sender] = arg[Sender]
        /\ pc[Main] = "idle" /\ pc'[Main] \in {"read", "out"} /\ arg'[Main] = d
        /\ pc'[Main] = "out" => event'.out
        /\ event'.out => events[d]
    BY <1>1, <1>2, <2>1, MemTypes DEF EpollWait, connVars, queueVars, Same, Phases
  <2>3. QED
    BY <2>2, PhaseKept
<1>3. ASSUME ~ \E c \in Conns : EpollWait(c)
      PROVE  Phases'
  <2>0. PICK d \in Conns : d = arg[Main]
    BY <1>1, <1>3, MemTypes
    DEF MainThread, ReadData, ReadClose, HangUp, WriteHandler, WritePost, WriteFree, WriteNull,
        WriteDec
  <2>1. ~HangUp
    BY <1>1 DEF HangUp, Open
  <2>2. /\ UNCHANGED <<fd, event, sent, psendbuf>>
        /\ \A t \in Threads : t # Main => pc'[t] = pc[t] /\ arg'[t] = arg[t]
        /\ arg'[Main] \in {d, Null}
    BY <1>1, <1>3, <2>0, <2>1, MemTypes
    DEF MainThread, ReadData, ReadClose, WriteHandler, WritePost, WriteFree, WriteNull,
        WriteDec, NextBranch, Leave, connVars
  <2>3. \A c \in Conns : c # d => Same(c)
    <3>1. CASE ReadData \/ ReadClose \/ WritePost \/ WriteFree
      BY <3>1 DEF ReadData, ReadClose, WritePost, WriteFree, connVars, Same
    <3>2. CASE WriteHandler
      BY <1>1, <2>0, <3>2, MemTypes DEF WriteHandler, Disarm, Same
    <3>3. CASE WriteNull \/ WriteDec
      BY <1>1, <2>0, <3>3, MemTypes DEF WriteNull, WriteDec, WriteDone, Same
    <3>4. QED
      BY <1>3, <2>1, <3>1, <3>2, <3>3 DEF MainThread
  <2>4. \A c \in Conns : c # d /\ psendMemPointer[c] \in heap => psendMemPointer[c] \in heap'
    <3>1. CASE WriteFree
      <4>1. heap' = heap \ {psendMemPointer[d]}
        BY <2>0, <3>1 DEF WriteFree, FreeMemory
      <4>2. QED
        BY <1>1, <4>1, MemTypes DEF Apart
    <3>2. CASE ~WriteFree
      BY <1>3, <2>1, <3>2
      DEF MainThread, ReadData, ReadClose, WriteHandler, WritePost, WriteNull, WriteDec, queueVars
    <3>3. QED
      BY <3>1, <3>2
  <2>5. pc'[Sender] = pc[Sender] /\ arg'[Sender] = arg[Sender]
    BY <1>1, <2>2, MemTypes
  <2>6. ASSUME NEW c \in Conns, c # d, fd'[c]
        PROVE  Phase(c)'
    <3>1. Phase(c) /\ Same(c) /\ arg'[Main] # c /\ arg[Main] # c
      BY <1>1, <2>0, <2>2, <2>3, <2>6, MemTypes DEF Phases
    <3>2. QED
      BY <2>2, <2>4, <2>5, <2>6, <3>1, PhaseKept
  <2>7. ASSUME fd'[d]
        PROVE  Phase(d)'
    <3>1. fd[d] /\ Phase(d) /\ peer[d] = "up"
      BY <1>1, <2>2, <2>7 DEF Phases, Open
    <3>2. CASE ReadData \/ ReadClose
      <4>1. /\ UNCHANGED <<heap, iThrowsendCount, events, psendMemPointer, isendlen>>
            /\ pc[Main] = "read" /\ pc'[Main] \in {"out", "idle", "closefd"}
            /\ pc'[Main] = "out" => event.out
        BY <1>1, <3>2, MemTypes DEF ReadData, ReadClose, NextBranch, Leave, connVars, queueVars
      <4>2. Same(d)
        BY <2>2, <4>1 DEF Same
      <4>3. pc'[Main] = "out" => events[d]
        BY <2>0, <3>1, <4>1 DEF Phase
      <4>4. QED
        BY <2>2, <2>5, <3>1, <4>1, <4>2, <4>3, PhaseKept
    <3>3. CASE WriteHandler
      <4>1. events[d] /\ ~event.hup /\ pc[Main] = "out"
        BY <2>0, <3>1, <3>3 DEF WriteHandler, Phase
      <4>2. /\ iThrowsendCount[d] = 1 /\ ~Sends(d) /\ isendlen[d] > 0 /\ isendlen[d] \in Int
            /\ psendMemPointer[d] = psendbuf[d] /\ psendbuf[d] \in heap
        BY <1>1, <3>1, <4>1, MemTypes DEF Phase, Loaded
      <4>3. PICK r \in SendResults(d) :
              \/ /\ r \in {isendlen[d], -2} /\ Disarm(d, r) /\ pc' = [pc EXCEPT ![Main] = "wpost"]
                 /\ UNCHANGED <<isendlen, arg>>
              \/ /\ r \notin {isendlen[d], -2} /\ UNCHANGED events
                 /\ isendlen' = [isendlen EXCEPT ![d] = IF r > 0 THEN @ - r ELSE @]
                 /\ pc' = [pc EXCEPT ![Main] = "idle"] /\ arg' = [arg EXCEPT ![Main] = Null]
        BY <2>0, <3>3 DEF WriteHandler, Leave
      <4>4. r \in Int /\ r # -2 /\ r =< isendlen[d]
        BY <3>1, <4>2 DEF SendResults
      <4>5. /\ UNCHANGED <<heap, iThrowsendCount, psendMemPointer, psendbuf>>
        BY <3>3 DEF WriteHandler, queueVars
      <4>6. CASE r = isendlen[d]
        <5>1. /\ ~events'[d] /\ pc'[Main] = "wpost" /\ arg'[Main] = d
              /\ isendlen'[d] = isendlen[d]
          BY <1>1, <2>0, <4>3, <4>4, <4>6, MemTypes DEF Disarm
        <5>2. QED
          BY <2>5, <4>2, <4>5, <5>1 DEF Phase, Sends, Writes, Loaded
      <4>7. CASE r # isendlen[d]
        <5>1. /\ events'[d] /\ pc'[Main] = "idle" /\ arg'[Main] = Null
              /\ isendlen'[d] = IF r > 0 THEN isendlen[d] - r ELSE isendlen[d]
          BY <1>1, <2>0, <4>1, <4>3, <4>4, <4>7, MemTypes
        <5>2. isendlen'[d] > 0
          BY <4>2, <4>4, <4>7, <5>1
        <5>3. QED
          BY <1>1, <2>5, <4>2, <4>5, <5>1, <5>2, MemTypes DEF Phase, Sends, Writes, Loaded
      <4>8. QED
        BY <4>6, <4>7
    <3>4. CASE WritePost \/ WriteFree \/ WriteNull \/ WriteDec
      <4>1. /\ Writes(d) /\ ~events[d] /\ ~Sends(d) /\ iThrowsendCount[d] = 1
            /\ UNCHANGED <<events, isendlen>>
        BY <2>0, <3>1, <3>4 DEF WritePost, WriteFree, WriteNull, WriteDec, Writes, Phase, connVars
      <4>2. CASE WritePost
        <5>1. /\ pc[Main] = "wpost" /\ pc'[Main] = "wfree" /\ arg'[Main] = d
              /\ UNCHANGED <<heap, iThrowsendCount, psendMemPointer>>
          BY <1>1, <2>0, <4>2, MemTypes DEF WritePost, connVars
        <5>2. QED
          BY <2>0, <2>2, <2>5, <3>1, <4>1, <5>1 DEF Phase, Sends, Writes, Loaded
      <4>3. CASE WriteFree
        <5>1. /\ pc[Main] = "wfree" /\ pc'[Main] = "wnull" /\ arg'[Main] = d
              /\ UNCHANGED <<iThrowsendCount, psendMemPointer>>
          BY <1>1, <2>0, <4>3, MemTypes DEF WriteFree, connVars
        <5>2. QED
          BY <2>0, <2>2, <2>5, <3>1, <4>1, <5>1 DEF Phase, Sends, Writes, Loaded
      <4>4. CASE WriteNull
        <5>1. /\ pc[Main] = "wnull" /\ pc'[Main] = "wdec" /\ arg'[Main] = d
              /\ psendMemPointer'[d] = Null /\ UNCHANGED iThrowsendCount
          BY <1>1, <2>0, <4>4, MemTypes DEF WriteNull
        <5>2. QED
          BY <2>0, <2>2, <2>5, <3>1, <4>1, <5>1 DEF Phase, Sends, Writes, Loaded
      <4>5. CASE WriteDec
        <5>1. /\ pc[Main] = "wdec" /\ pc'[Main] = "idle" /\ arg'[Main] = Null
              /\ iThrowsendCount'[d] = 0 /\ UNCHANGED psendMemPointer
          BY <1>1, <2>0, <4>1, <4>5, MemTypes DEF WriteDec, WriteDone, Leave
        <5>2. QED
          BY <1>1, <2>0, <2>2, <2>5, <3>1, <4>1, <5>1, MemTypes DEF Phase, Sends, Writes, Loaded
      <4>6. QED
        BY <3>4, <4>2, <4>3, <4>4, <4>5
    <3>5. QED
      BY <1>3, <2>1, <3>2, <3>3, <3>4 DEF MainThread
  <2>8. QED
    BY <2>6, <2>7 DEF Phases
<1>4. QED
  BY <1>2, <1>3

(* A new life starts with no packet.                                       *)
LEMMA LifePhases ==
  ASSUME MemInv, NEW c \in Conns, PeerClose(c) \/ PeerReset(c) \/ Release(c) \/ Reuse(c)
  PROVE  Phases'
<1>1. Inv /\ Open /\ Phases /\ Apart /\ Patient
  BY DEF MemInv
<1>2. Release(c) \/ Reuse(c)
  BY <1>1 DEF PeerClose, PeerReset, Patient
<1>3. Quiet(c) /\ UNCHANGED <<pc, arg, event, sent>>
  BY <1>1, <1>2 DEF Release, Reuse, Open, threadVars
<1>4. \A t \in Threads : arg'[t] # c
  BY <1>3 DEF Quiet
<1>5. \A d \in Conns : d # c /\ psendMemPointer[d] \in heap => psendMemPointer[d] \in heap'
  <2>1. CASE Release(c)
    <3>1. heap' = heap \ {psendMemPointer[c]}
      BY <2>1 DEF Release, FreeMemory
    <3>2. QED
      BY <1>1, <3>1, MemTypes DEF Apart
  <2>2. CASE Reuse(c)
    BY <2>2 DEF Reuse, queueVars
  <2>3. QED
    BY <1>2, <2>1, <2>2
<1>6. ASSUME NEW d \in Conns, d # c, fd'[d]
      PROVE  Phase(d)'
  <2>1. Same(d) /\ fd'[d] = fd[d]
    BY <1>1, <1>2, <1>6, MemTypes DEF Release, Reuse, Same
  <2>2. Phase(d)
    BY <1>1, <1>6, <2>1 DEF Phases
  <2>3. arg'[Main] = d /\ (pc'[Main] = "out" \/ (pc'[Main] = "read" /\ event'.out)) => events[d]
    BY <1>3, <2>2 DEF Phase
  <2>4. QED
    BY <1>3, <1>5, <1>6, <2>1, <2>2, <2>3, PhaseKept
<1>7. ASSUME fd'[c]
      PROVE  Phase(c)'
  <2>1. ~Release(c)
    BY <1>1, <1>7 DEF Release, Open
  <2>2. psendMemPointer'[c] = Null /\ iThrowsendCount'[c] = 0 /\ ~events'[c]
    BY <1>1, <1>2, <2>1, MemTypes DEF Reuse
  <2>3. arg'[Main] # c /\ arg'[Sender] # c
    BY <1>1, <1>4, MemTypes
  <2>4. QED
    BY <2>2, <2>3 DEF Phase, Sends, Writes, Loaded
<1>8. QED
  BY <1>6, <1>7 DEF Phases

-----------------------------------------------------------------------------
(* Packets in one place each.                                              *)

(* An entry leaves the queue, and the others stay.                         *)
LEMMA Erased ==
  ASSUME Inv, Once, NEW i \in 1..Len(MsgSendQueue), EraseAt(i)
  PROVE  /\ Once'
         /\ \A m : Queued(m)' <=> Queued(m) /\ m # MsgSendQueue[i].id
<1> DEFINE n == Len(MsgSendQueue)
           t == RemoveAt(MsgSendQueue, i)
<1>1. /\ n \in Nat /\ Len(t) = n - 1
      /\ \A j \in 1..(n - 1) : t[j] = IF j < i THEN MsgSendQueue[j] ELSE MsgSendQueue[j + 1]
  BY LifeTypes, RemovedPlaces
<1>2. MsgSendQueue' = t
  BY DEF EraseAt
<1> HIDE DEF t
<1>3. \A j, k \in 1..n : MsgSendQueue[j].id = MsgSendQueue[k].id => j = k
  BY DEF Once
<1>4. \A j \in 1..(n - 1) : \E k \in 1..n : /\ t[j] = MsgSendQueue[k] /\ k # i
                                         /\ k = IF j < i THEN j ELSE j + 1
  <2>1. ASSUME NEW j \in 1..(n - 1)
        PROVE  \E k \in 1..n : t[j] = MsgSendQueue[k] /\ k # i /\ k = IF j < i THEN j ELSE j + 1
    <3>1. CASE j < i
      BY <1>1, <3>1
    <3>2. CASE ~(j < i)
      BY <1>1, <3>2
    <3>3. QED
      BY <3>1, <3>2
  <2>2. QED
    BY <2>1
<1>5. \A k \in 1..n : k # i => \E j \in 1..(n - 1) : t[j] = MsgSendQueue[k]
  <2>1. ASSUME NEW k \in 1..n, k # i
        PROVE  \E j \in 1..(n - 1) : t[j] = MsgSendQueue[k]
    <3>1. CASE k < i
      <4>1. k \in 1..(n - 1) /\ t[k] = MsgSendQueue[k]
        BY <1>1, <3>1
      <4>2. QED
        BY <4>1
    <3>2. CASE ~(k < i)
      <4>1. (k - 1) \in 1..(n - 1) /\ ~((k - 1) < i) /\ (k - 1) + 1 = k
        BY <1>1, <2>1, <3>2
      <4>2. t[k - 1] = MsgSendQueue[k]
        BY <1>1, <4>1
      <4>3. QED
        BY <4>1, <4>2
    <3>3. QED
      BY <3>1, <3>2
  <2>2. QED
    BY <2>1
<1>6. \A j, k \in 1..(n - 1) : t[j].id = t[k].id => j = k
  <2>1. ASSUME NEW j \in 1..(n - 1), NEW k \in 1..(n - 1), t[j].id = t[k].id
        PROVE  j = k
    <3>1. PICK a \in 1..n : t[j] = MsgSendQueue[a] /\ a # i /\ a = IF j < i THEN j ELSE j + 1
      BY <1>4
    <3>2. PICK b \in 1..n : t[k] = MsgSendQueue[b] /\ b # i /\ b = IF k < i THEN k ELSE k + 1
      BY <1>4
    <3>3. a = b
      BY <1>3, <2>1, <3>1, <3>2
    <3>4. QED
      BY <1>1, <3>1, <3>2, <3>3
  <2>2. QED
    BY <2>1
<1>7. \A m : (\E j \in 1..(n - 1) : t[j].id = m) <=>
             (\E k \in 1..n : MsgSendQueue[k].id = m) /\ m # MsgSendQueue[i].id
  <2>1. ASSUME NEW m, NEW j \in 1..(n - 1), t[j].id = m
        PROVE  (\E k \in 1..n : MsgSendQueue[k].id = m) /\ m # MsgSendQueue[i].id
    <3>1. PICK a \in 1..n : t[j] = MsgSendQueue[a] /\ a # i
      BY <1>4
    <3>2. QED
      BY <1>3, <2>1, <3>1
  <2>2. ASSUME NEW m, NEW k \in 1..n, MsgSendQueue[k].id = m, m # MsgSendQueue[i].id
        PROVE  \E j \in 1..(n - 1) : t[j].id = m
    <3>1. PICK j \in 1..(n - 1) : t[j] = MsgSendQueue[k]
      BY <1>5, <2>2
    <3>2. QED
      BY <2>2, <3>1
  <2>3. QED
    BY <2>1, <2>2
<1>8. QED
  BY <1>1, <1>2, <1>6, <1>7 DEF Once, Queued

(* An entry comes to the queue.                                            *)
LEMMA Pushed ==
  ASSUME Inv, NEW e \in Packet, Push(e)
  PROVE  /\ \A m : Queued(m)' <=> Queued(m) \/ m = e.id
         /\ Once /\ ~Queued(e.id) => Once'
<1> DEFINE n == Len(MsgSendQueue)
<1>1. /\ n \in Nat /\ Len(MsgSendQueue') = n + 1 /\ MsgSendQueue'[n + 1] = e
      /\ \A i \in 1..n : MsgSendQueue'[i] = MsgSendQueue[i]
  BY LifeTypes, AppendProperties DEF Push
<1>2. /\ \A i \in 1..(n + 1) : i \in 1..n \/ i = n + 1
      /\ \A i \in 1..n : i \in 1..(n + 1)
      /\ n + 1 \in 1..(n + 1)
  BY <1>1
<1>3. QED
  BY <1>1, <1>2 DEF Queued, Once

(* A step that frees packets, if any, and moves none.                      *)
LEMMA MemLess ==
  ASSUME Inv, Apart, NoLeak, nextId' = nextId, heap' \subseteq heap, Once',
         \A w \in Workers : /\ Building(w)' <=> Building(w) /\ msg[w].id \in heap'
                            /\ Building(w)' => msg'[w] = msg[w],
         \A m \in Ids : Queued(m)' <=> Queued(m) /\ m \in heap',
         \A c \in Conns : psendMemPointer'[c] = psendMemPointer[c] \/
                          (psendMemPointer'[c] = Null /\ psendMemPointer[c] \notin heap'),
         pc'[Sender] = "null" => psendMemPointer'[arg'[Sender]] \notin heap',
         pc'[Main] = "wnull" => psendMemPointer'[arg'[Main]] \notin heap'
  PROVE  Apart' /\ NoLeak'
<1>1. /\ \A w \in Workers : Building(w) => msg[w] # Null /\ msg[w].id \in Ids
      /\ heap \subseteq Ids /\ psendMemPointer \in [Conns -> Ids \cup {Null}]
  BY MemTypes DEF Building, Packet
<1>2. Apart'
  BY <1>1 DEF Apart
<1>3. ASSUME NEW m \in heap'
      PROVE  Held(m)'
  <2>1. Held(m) /\ m \in Ids
    BY <1>1, <1>3 DEF NoLeak
  <2>2. CASE \E w \in Workers : msg[w] # Null /\ msg[w].id = m /\ Building(w)
    BY <1>1, <1>3, <2>2 DEF Held, Building
  <2>3. CASE Queued(m)
    BY <1>3, <2>1, <2>3 DEF Held, Queued
  <2>4. CASE \E c \in Conns : psendMemPointer[c] = m
    BY <1>3, <2>4 DEF Held
  <2>5. QED
    BY <2>1, <2>2, <2>3, <2>4 DEF Held, Building, Queued
<1>4. QED
  BY <1>2, <1>3 DEF NoLeak

(* A step that is about no packet.                                         *)
LEMMA MemCalm ==
  ASSUME Inv, Apart, NoLeak, UNCHANGED <<nextId, heap, MsgSendQueue, psendMemPointer>>,
         \A w \in Workers : /\ Building(w)' <=> Building(w)
                            /\ Building(w)' => msg'[w] = msg[w],
         pc'[Sender] = "null" => pc[Sender] = "null" /\ arg'[Sender] = arg[Sender],
         pc'[Main] = "wnull" => pc[Main] = "wnull" /\ arg'[Main] = arg[Main]
  PROVE  Apart' /\ NoLeak'
<1>1. /\ Once' /\ \A m : Queued(m)' <=> Queued(m)
  BY DEF Once, Queued, Apart
<1>2. /\ \A m \in Ids : Queued(m) => m \in heap
      /\ \A w \in Workers : Building(w) => msg[w].id \in heap
      /\ pc'[Sender] = "null" => psendMemPointer'[arg'[Sender]] \notin heap'
      /\ pc'[Main] = "wnull" => psendMemPointer'[arg'[Main]] \notin heap'
  BY DEF Apart
<1>3. QED
  BY <1>1, <1>2, MemLess

(* msgSend makes a packet, and frees or queues its own.                    *)
LEMMA MsgSendMem ==
  ASSUME MemInv, NEW w \in Workers, MsgSend(w) \/ \E c \in Conns : BeginReply(w, c)
  PROVE  Apart' /\ NoLeak'
<1> USE DEF At, Goto
<1>1. /\ Inv /\ Apart /\ NoLeak
  BY DEF MemInv
<1>2. /\ UNCHANGED psendMemPointer
      /\ \A t \in Threads : t # w => pc'[t] = pc[t] /\ arg'[t] = arg[t]
      /\ \A v \in Workers : v # w => msg'[v] = msg[v]
  BY <1>1, MemTypes DEF MsgSend, BeginReply, MsgSendLock, MsgSendDiscard, MsgSendKick,
     MsgSendAdmit, MsgSendPush, MsgSendPost, MsgSendUnlock, Leave, connVars
<1>3. /\ pc'[Sender] = pc[Sender] /\ arg'[Sender] = arg[Sender]
      /\ pc'[Main] = pc[Main] /\ arg'[Main] = arg[Main]
      /\ \A v \in Workers : v # w => (Building(v)' <=> Building(v))
      /\ w \in Threads /\ \A v \in Workers : Building(v) => msg[v] \in Packet /\ msg[v].id \in Ids
      /\ \A v \in Workers : Building(v) => msg[v] # Null
  BY <1>1, <1>2, MemTypes DEF Building, Packet
<1>4. CASE MsgSendLock(w) \/ MsgSendAdmit(w) \/ MsgSendPost(w) \/ MsgSendUnlock(w)
  <2>1. /\ UNCHANGED <<nextId, heap, MsgSendQueue>>
        /\ Building(w)' <=> Building(w)
        /\ Building(w)' => msg'[w] = msg[w]
    BY <1>3, <1>4, <1>1, MemTypes DEF MsgSendLock, MsgSendAdmit, MsgSendPost, MsgSendUnlock, Leave,
       Building, queueVars
  <2>2. QED
    BY <1>1, <1>2, <1>3, <2>1, MemCalm
<1>5. CASE MsgSendDiscard(w) \/ MsgSendKick(w)
  <2>1. /\ heap' = heap \ {msg[w].id} /\ UNCHANGED <<nextId, MsgSendQueue, msg>>
        /\ Building(w) /\ ~Building(w)'
    BY <1>1, <1>3, <1>5, MemTypes DEF MsgSendDiscard, MsgSendKick, FreeMemory, Building
  <2>2. /\ Once' /\ \A m : Queued(m)' <=> Queued(m)
    BY <1>1, <2>1 DEF Once, Queued, Apart
  <2>3. /\ \A m \in Ids : Queued(m)' <=> Queued(m) /\ m \in heap'
        /\ pc'[Sender] = "null" => psendMemPointer'[arg'[Sender]] \notin heap'
        /\ pc'[Main] = "wnull" => psendMemPointer'[arg'[Main]] \notin heap'
    BY <1>1, <1>2, <1>3, <2>1, <2>2 DEF Apart
  <2>4. \A v \in Workers : /\ Building(v)' <=> Building(v) /\ msg[v].id \in heap'
                           /\ Building(v)' => msg'[v] = msg[v]
    BY <1>1, <1>2, <1>3, <2>1 DEF Apart
  <2>5. QED
    BY <1>1, <1>2, <2>1, <2>2, <2>3, <2>4, MemLess
<1>6. ASSUME NEW c \in Conns, BeginReply(w, c)
      PROVE  Apart' /\ NoLeak'
  <2>1. /\ heap' = heap \cup {nextId} /\ nextId' = nextId + 1 /\ UNCHANGED MsgSendQueue
        /\ ~Building(w) /\ Building(w)' /\ msg'[w].id = nextId /\ msg'[w] # Null
    <3>1. msg'[w] = [id |-> nextId, conn |-> c, seq |-> iCurrsequence[c]] /\ nextId =< MaxMsgs
      BY <1>1, <1>6, MemTypes DEF BeginReply
    <3>2. msg'[w] \in Packet /\ msg'[w].id = nextId
      BY <1>1, <3>1, MemTypes, LifeTypes DEF Packet, Ids, Inv, TypeOK, QueueTypeOK
    <3>3. QED
      BY <1>1, <1>3, <1>6, <3>2, MemTypes, SendQueueAssumption DEF BeginReply, Building
  <2>2. /\ Once' /\ \A m : Queued(m)' <=> Queued(m)
    BY <1>1, <2>1 DEF Once, Queued, Apart
  <2>3. nextId \in Ids /\ nextId \in Nat /\ heap \subseteq Nat
        /\ psendMemPointer \in [Conns -> Ids \cup {Null}] /\ Null \notin Ids
    BY <1>1, <1>6, MemTypes DEF BeginReply, Ids, Inv, TypeOK, QueueTypeOK
  <2>4. /\ nextId \notin heap /\ \A c1 \in Conns : psendMemPointer[c1] # nextId
        /\ ~Queued(nextId) /\ \A v \in Workers : Building(v) => msg[v].id # nextId
    BY <1>1, <2>3 DEF Apart
  <2>5. /\ \A m \in heap' : m < nextId'
        /\ \A c1 \in Conns : psendMemPointer'[c1] # Null => psendMemPointer'[c1] < nextId'
    BY <1>1, <1>2, <2>1, <2>3 DEF Apart, Ids
  <2>6. /\ pc'[Sender] = "null" => psendMemPointer'[arg'[Sender]] \notin heap'
        /\ pc'[Main] = "wnull" => psendMemPointer'[arg'[Main]] \notin heap'
    BY <1>1, <1>2, <1>3, <2>1, <2>4, MemTypes DEF Apart, Busy
  <2>7. \A v \in Workers : Building(v)' =>
          /\ msg'[v].id \in heap' /\ ~Queued(msg'[v].id)
          /\ \A u \in Workers \ {v} : Building(u)' => msg'[u].id # msg'[v].id
    BY <1>1, <1>2, <1>3, <2>1, <2>4 DEF Apart
  <2>8. \A c1 \in Conns : psendMemPointer'[c1] # Null =>
          /\ ~Queued(psendMemPointer'[c1])
          /\ \A v \in Workers : Building(v)' => msg'[v].id # psendMemPointer'[c1]
          /\ \A d \in Conns \ {c1} : psendMemPointer'[d] # psendMemPointer'[c1]
    BY <1>1, <1>2, <1>3, <2>1, <2>4 DEF Apart
  <2>9. Apart'
    BY <1>1, <2>1, <2>2, <2>5, <2>6, <2>7, <2>8 DEF Apart
  <2>10. ASSUME NEW m \in heap'
         PROVE  Held(m)'
    <3>1. CASE m = nextId
      BY <2>1, <3>1 DEF Held, Building
    <3>2. CASE m # nextId
      <4>1. Held(m)
        BY <1>1, <2>1, <2>10, <3>2 DEF NoLeak
      <4>2. CASE \E v \in Workers : msg[v] # Null /\ msg[v].id = m /\ Building(v)
        BY <1>2, <1>3, <2>1, <4>2 DEF Held, Building
      <4>3. CASE Queued(m) \/ \E d \in Conns : psendMemPointer[d] = m
        BY <1>2, <2>1, <4>3 DEF Held, Queued
      <4>4. QED
        BY <4>1, <4>2, <4>3 DEF Held, Building, Queued
    <3>3. QED
      BY <3>1, <3>2
  <2>11. QED
    BY <2>9, <2>10 DEF NoLeak
<1>7. CASE MsgSendPush(w)
  <2>1. /\ Push(msg[w]) /\ UNCHANGED <<heap, nextId, msg>> /\ Building(w) /\ ~Building(w)'
        /\ msg[w] \in Packet
    BY <1>1, <1>3, <1>7, MemTypes DEF MsgSendPush, Building
  <2>2. /\ \A m : Queued(m)' <=> Queued(m) \/ m = msg[w].id
        /\ Once'
    BY <1>1, <2>1, Pushed DEF Apart
  <2>3. /\ \A m \in heap' : m < nextId'
        /\ pc'[Sender] = "null" => psendMemPointer'[arg'[Sender]] \notin heap'
        /\ pc'[Main] = "wnull" => psendMemPointer'[arg'[Main]] \notin heap'
    BY <1>1, <1>2, <1>3, <2>1 DEF Apart
  <2>4. \A v \in Workers : Building(v)' => Building(v) /\ msg'[v] = msg[v] /\ v # w
    BY <1>3, <2>1
  <2>5. \A v \in Workers : Building(v)' =>
          /\ msg'[v].id \in heap' /\ ~(Queued(msg[v].id)')
          /\ \A u \in Workers \ {v} : Building(u)' => msg'[u].id # msg'[v].id
    BY <1>1, <2>1, <2>2, <2>4 DEF Apart
  <2>6. \A c \in Conns : psendMemPointer'[c] # Null =>
          /\ psendMemPointer'[c] < nextId' /\ ~(Queued(psendMemPointer[c])')
          /\ \A v \in Workers : Building(v)' => msg'[v].id # psendMemPointer'[c]
          /\ \A d \in Conns \ {c} : psendMemPointer'[d] # psendMemPointer'[c]
    BY <1>1, <1>2, <2>1, <2>2, <2>4 DEF Apart
  <2>7. \A m \in Ids : Queued(m)' => m \in heap'
    BY <1>1, <2>1, <2>2 DEF Apart
  <2>8. Apart'
    BY <1>2, <2>1, <2>2, <2>3, <2>5, <2>6, <2>7 DEF Apart, Queued
  <2>9. ASSUME NEW m \in heap'
        PROVE  Held(m)'
    <3>1. Held(m)
      BY <1>1, <2>1, <2>9 DEF NoLeak
    <3>2. CASE \E v \in Workers : v # w /\ msg[v] # Null /\ msg[v].id = m /\ Building(v)
      BY <1>3, <2>1, <3>2 DEF Held, Building
    <3>3. CASE Queued(m) \/ m = msg[w].id
      BY <2>2, <3>3 DEF Held, Queued
    <3>4. CASE \E d \in Conns : psendMemPointer[d] = m
      BY <1>2, <3>4 DEF Held
    <3>5. QED
      BY <3>1, <3>2, <3>3, <3>4 DEF Held, Building, Queued
  <2>10. QED
    BY <2>8, <2>9 DEF NoLeak
<1>8. QED
  BY <1>4, <1>5, <1>6, <1>7 DEF MsgSend

(* A close frees nothing: what is left of the connection's packet is the   *)
(* recycle thread's.                                                       *)
LEMMA CloseMem ==
  ASSUME MemInv, NEW t \in Workers \cup {Main}, ZdClosesocketProc(t)
  PROVE  Apart' /\ NoLeak'
<1> USE DEF At, Goto
<1>1. /\ Inv /\ Apart /\ NoLeak /\ t \in Threads /\ t # Sender /\ pc[t] \in ClosePCs
  BY MemTypes DEF MemInv, ZdClosesocketProc, CloseFd, DecTest, Dec, InRecyConnectQueue, ClosePCs
<1>2. /\ UNCHANGED <<nextId, heap, MsgSendQueue, psendMemPointer, msg>>
      /\ \A u \in Threads : u # t => pc'[u] = pc[u] /\ arg'[u] = arg[u]
      /\ pc'[t] \in {"decTest", "dec", "recycle", "unlock", "out", "idle"}
  BY <1>1, MemTypes DEF ZdClosesocketProc, CloseFd, DecTest, Dec, InRecyConnectQueue, Leave,
     connVars, queueVars
<1>3. /\ \A w \in Workers : Building(w)' <=> Building(w)
      /\ pc'[Sender] = pc[Sender] /\ arg'[Sender] = arg[Sender]
      /\ pc'[Main] = "wnull" => pc[Main] = "wnull" /\ arg'[Main] = arg[Main]
  BY <1>1, <1>2, MemTypes DEF Building, ClosePCs
<1>4. QED
  BY <1>1, <1>2, <1>3, MemCalm

(* The send thread moves a packet from the queue to its connection, where  *)
(* there is none; it frees the expired ones and those that it has sent.    *)
LEMMA SenderMem ==
  ASSUME MemInv, ServerSendQueueThread \/ SemInterrupted
  PROVE  Apart' /\ NoLeak'
<1> USE DEF At, Goto
<1>1. /\ Inv /\ Open /\ Phases /\ Apart /\ NoLeak /\ Sender \in Threads
      /\ \A w \in Workers : Building(w) => msg[w] # Null /\ msg[w].id \in Ids
  BY MemTypes DEF MemInv, Building, Packet
<1>2. /\ UNCHANGED <<nextId, msg>>
      /\ \A t \in Threads : t # Sender => pc'[t] = pc[t] /\ arg'[t] = arg[t]
  BY <1>1, MemTypes
  DEF ServerSendQueueThread, SemWait, SemInterrupted, LockQueue, EndOfQueue, DropExpired,
      KeepFresh, SkipUnfinished, TakePacket, SendProc, SentAll, ClearSent, SentPart, ArmWrite,
      Leave, queueVars, threadVars
<1>3. /\ \A w \in Workers : Building(w)' <=> Building(w)
      /\ pc'[Main] = pc[Main] /\ arg'[Main] = arg[Main]
  BY <1>1, <1>2, MemTypes DEF Building
<1>4. CASE SemWait \/ SemInterrupted \/ LockQueue \/ EndOfQueue \/ KeepFresh \/ SkipUnfinished
           \/ SendProc \/ SentPart \/ ArmWrite
  <2>1. /\ UNCHANGED <<heap, MsgSendQueue, psendMemPointer>>
        /\ pc'[Sender] # "null"
    BY <1>1, <1>4, MemTypes
    DEF SemWait, SemInterrupted, LockQueue, EndOfQueue, KeepFresh, SkipUnfinished,
        SendProc, SentPart, ArmWrite, Leave, queueVars, connVars
  <2>2. QED
    BY <1>1, <1>2, <1>3, <2>1, MemCalm
<1>5. CASE DropExpired
  <2>1. /\ pos \in 1..Len(MsgSendQueue) /\ EraseAt(pos)
        /\ heap' = heap \ {MsgSendQueue[pos].id} /\ UNCHANGED psendMemPointer
        /\ pc' = pc /\ pc[Sender] = "scan"
    BY <1>1, <1>5, LifeTypes DEF DropExpired, FreeMemory, threadVars, connVars
  <2>2. PICK m : m = MsgSendQueue[pos].id
    OBVIOUS
  <2>3. /\ Once' /\ \A n : Queued(n)' <=> Queued(n) /\ n # m
    BY <1>1, <2>1, <2>2, Erased DEF Apart
  <2>4. Queued(m) /\ heap' = heap \ {m}
    BY <2>1, <2>2 DEF Queued
  <2>5. /\ \A n \in Ids : Queued(n)' <=> Queued(n) /\ n \in heap'
        /\ \A w \in Workers : Building(w)' <=> Building(w) /\ msg[w].id \in heap'
        /\ pc'[Main] = "wnull" => psendMemPointer'[arg'[Main]] \notin heap'
    BY <1>1, <1>2, <1>3, <2>1, <2>3, <2>4 DEF Apart
  <2>6. QED
    BY <1>1, <1>2, <2>1, <2>3, <2>4, <2>5, MemLess
<1>6. CASE SentAll \/ ClearSent
  <2>0. PICK s \in Conns : s = arg[Sender]
    BY <1>1, <1>6, MemTypes DEF SentAll, ClearSent, Busy
  <2>1. UNCHANGED MsgSendQueue /\ Once' /\ \A n : Queued(n)' <=> Queued(n)
    BY <1>1, <1>6 DEF SentAll, ClearSent, queueVars, Once, Queued, Apart
  <2>2. CASE SentAll
    <3>1. /\ heap' = heap \ {psendMemPointer[s]} /\ UNCHANGED <<psendMemPointer, arg>>
      BY <2>0, <2>2 DEF SentAll, FreeMemory, connVars
    <3>2. /\ \A n \in Ids : Queued(n)' <=> Queued(n) /\ n \in heap'
          /\ \A w \in Workers : Building(w)' <=> Building(w) /\ msg[w].id \in heap'
          /\ pc'[Main] = "wnull" => psendMemPointer'[arg'[Main]] \notin heap'
      BY <1>1, <1>2, <1>3, <2>1, <3>1, MemTypes DEF Apart
    <3>3. QED
      BY <1>1, <1>2, <2>0, <2>1, <3>1, <3>2, MemLess
  <2>3. CASE ClearSent
    <3>1. /\ psendMemPointer' = [psendMemPointer EXCEPT ![s] = Null] /\ heap' = heap
          /\ psendMemPointer[s] \notin heap /\ pc'[Sender] = "scan"
      BY <1>1, <2>0, <2>3, MemTypes DEF ClearSent, Leave, queueVars, Apart
    <3>2. \A c \in Conns : psendMemPointer'[c] = psendMemPointer[c] \/
                          (psendMemPointer'[c] = Null /\ psendMemPointer[c] \notin heap')
      BY <1>1, <3>1, MemTypes
    <3>3. pc'[Main] = "wnull" => psendMemPointer'[arg'[Main]] \notin heap'
      <4>1. pc[Main] = "wnull" => arg[Main] \in Conns /\ psendMemPointer[arg[Main]] \notin heap
        BY <1>1, MemTypes DEF Apart
      <4>2. Null \notin heap
        BY <1>1, MemTypes
      <4>3. QED
        BY <1>3, <3>1, <3>2, <4>1, <4>2
    <3>4. /\ \A n \in Ids : Queued(n)' <=> Queued(n) /\ n \in heap'
          /\ \A w \in Workers : Building(w)' <=> Building(w) /\ msg[w].id \in heap'
      BY <1>1, <1>3, <2>1, <3>1 DEF Apart
    <3>5. QED
      BY <1>1, <1>2, <2>1, <3>1, <3>2, <3>3, <3>4, MemLess
  <2>4. QED
    BY <1>6, <2>2, <2>3
<1>7. CASE TakePacket
  <2>0. PICK s \in Conns : s = arg[Sender]
    BY <1>1, <1>7, MemTypes DEF TakePacket, Busy
  <2>1. /\ pos \in 1..Len(MsgSendQueue) /\ EraseAt(pos) /\ UNCHANGED heap
        /\ pc[Sender] = "throw" /\ pc'[Sender] = "send" /\ iThrowsendCount[s] # 1
        /\ psendMemPointer' = [psendMemPointer EXCEPT ![s] = MsgSendQueue[pos].id]
    BY <1>1, <1>7, <2>0, MemTypes, LifeTypes DEF TakePacket, Unfinished, Inv, SenderOK
  <2>2. PICK m \in Ids : m = MsgSendQueue[pos].id
    BY <1>1, <2>1, LifeTypes
  <2>3. /\ Once' /\ \A n : Queued(n)' <=> Queued(n) /\ n # m
    BY <1>1, <2>1, <2>2, Erased DEF Apart
  <2>4. Queued(m) /\ m \in heap /\ m # Null
    BY <1>1, <2>1, <2>2, MemTypes DEF Queued, Apart
  <2>5. ~Writes(s) /\ psendMemPointer[s] = Null
    <3>1. fd[s] /\ Phase(s)
      BY <1>1, <2>0, <2>1 DEF Open, Phases, Busy
    <3>2. QED
      BY <2>0, <2>1, <3>1 DEF Phase, Sends
  <2>6. /\ psendMemPointer'[s] = m
        /\ \A c \in Conns : c # s => psendMemPointer'[c] = psendMemPointer[c]
    BY <1>1, <2>1, <2>2, MemTypes
  <2>7. pc'[Main] = "wnull" => psendMemPointer'[arg'[Main]] \notin heap'
    <3>1. pc[Main] = "wnull" => arg[Main] # s /\ arg[Main] \in Conns
      BY <1>1, <2>5, MemTypes DEF Writes
    <3>2. QED
      BY <1>1, <1>3, <2>1, <2>6, <3>1 DEF Apart
  <2>8. \A w \in Workers : Building(w)' =>
          /\ msg'[w].id \in heap' /\ ~(Queued(msg[w].id)') /\ msg[w].id # m
          /\ \A v \in Workers \ {w} : Building(v)' => msg'[v].id # msg'[w].id
    BY <1>1, <1>2, <1>3, <2>1, <2>3, <2>4 DEF Apart
  <2>9. \A c \in Conns : psendMemPointer'[c] # Null =>
          /\ psendMemPointer'[c] < nextId' /\ \A n : n = psendMemPointer'[c] => ~(Queued(n)')
          /\ \A w \in Workers : Building(w)' => msg'[w].id # psendMemPointer'[c]
          /\ \A d \in Conns \ {c} : psendMemPointer'[d] # psendMemPointer'[c]
    <3>1. SUFFICES ASSUME NEW c \in Conns, psendMemPointer'[c] # Null
                   PROVE /\ psendMemPointer'[c] < nextId'
                         /\ \A n : n = psendMemPointer'[c] => ~(Queued(n)')
                         /\ \A w \in Workers : Building(w)' => msg'[w].id # psendMemPointer'[c]
                         /\ \A d \in Conns \ {c} : psendMemPointer'[d] # psendMemPointer'[c]
      OBVIOUS
    <3>2. CASE c = s
      <4>1. psendMemPointer'[c] = m /\ m < nextId'
        BY <1>1, <1>2, <2>4, <2>6, <3>2 DEF Apart
      <4>2. \A d \in Conns : psendMemPointer[d] # m
        BY <1>1, <2>4 DEF Apart
      <4>3. QED
        BY <1>2, <2>3, <2>6, <2>8, <3>2, <4>1, <4>2
    <3>3. CASE c # s
      <4>1. psendMemPointer'[c] = psendMemPointer[c] /\ ~Queued(psendMemPointer[c])
        BY <1>1, <2>6, <3>1, <3>3 DEF Apart
      <4>2. /\ psendMemPointer'[c] < nextId' /\ psendMemPointer'[c] # m
            /\ \A w \in Workers : Building(w) => msg[w].id # psendMemPointer'[c]
            /\ \A d \in Conns \ {c} : psendMemPointer[d] # psendMemPointer'[c]
        BY <1>1, <1>2, <2>4, <3>1, <4>1 DEF Apart
      <4>3. QED
        BY <1>2, <1>3, <2>3, <2>6, <3>3, <4>1, <4>2
    <3>4. QED
      BY <3>2, <3>3
  <2>10. /\ \A n \in heap' : n < nextId'
         /\ \A n \in Ids : Queued(n)' => n \in heap'
    BY <1>1, <1>2, <2>1, <2>3 DEF Apart
  <2>11. Apart'
    <3>1. \A w \in Workers : Building(w)' => \A n : n = msg'[w].id => ~(Queued(n)')
      BY <1>2, <2>8
    <3>2. \A w \in Workers : Building(w)' =>
            /\ msg'[w].id \in heap'
            /\ \A v \in Workers \ {w} : Building(v)' => msg'[v].id # msg'[w].id
      BY <2>8
    <3>3. pc'[Sender] # "null"
      BY <2>1
    <3> HIDE <1>1, <1>2, <1>3, <1>7, <2>0, <2>1, <2>3, <2>4, <2>5, <2>6, <2>7, <2>8
    <3>4. QED
      BY <2>3, <2>7, <2>9, <2>10, <3>1, <3>2, <3>3 DEF Apart, Queued
  <2>12. ASSUME NEW n \in heap'
         PROVE  Held(n)'
    <3>1. Held(n)
      BY <1>1, <2>1, <2>12 DEF NoLeak
    <3>2. CASE \E w \in Workers : msg[w] # Null /\ msg[w].id = n /\ Building(w)
      BY <1>2, <1>3, <3>2 DEF Held, Building
    <3>3. CASE Queued(n)
      BY <2>3, <2>6, <3>3 DEF Held, Queued
    <3>4. CASE \E c \in Conns : psendMemPointer[c] = n
      <4>1. n # Null
        BY <1>1, <2>1, <2>12, MemTypes
      <4>2. QED
        BY <2>5, <2>6, <3>4, <4>1 DEF Held
    <3>5. QED
      BY <3>1, <3>2, <3>3, <3>4 DEF Held, Building, Queued
  <2>13. QED
    BY <2>11, <2>12 DEF NoLeak
<1>8. QED
  BY <1>4, <1>5, <1>6, <1>7 DEF ServerSendQueueThread

(* The write handler frees the packet that it has sent.                    *)
LEMMA MainMem ==
  ASSUME MemInv, MainThread
  PROVE  Apart' /\ NoLeak'
<1> USE DEF At, Goto
<1>1. /\ Inv /\ Open /\ Apart /\ NoLeak /\ Main \in Threads
      /\ \A w \in Workers : Building(w) => msg[w] # Null /\ msg[w].id \in Ids
  BY MemTypes DEF MemInv, Building, Packet
<1>2. /\ UNCHANGED <<nextId, msg, MsgSendQueue>>
      /\ \A t \in Threads : t # Main => pc'[t] = pc[t] /\ arg'[t] = arg[t]
  BY <1>1, MemTypes
  DEF MainThread, EpollWait, ReadData, ReadClose, HangUp, NextBranch, WriteHandler, WritePost,
      WriteFree, WriteNull, WriteDec, Leave, queueVars
<1>3. /\ \A w \in Workers : Building(w)' <=> Building(w)
      /\ pc'[Sender] = pc[Sender] /\ arg'[Sender] = arg[Sender]
      /\ Once' /\ \A n : Queued(n)' <=> Queued(n)
  BY <1>1, <1>2, MemTypes DEF Building, Once, Queued, Apart
<1>4. CASE (\E c \in Conns : EpollWait(c)) \/ ReadData \/ ReadClose \/ HangUp \/ WriteHandler
           \/ WritePost \/ WriteDec
  <2>1. /\ UNCHANGED <<heap, psendMemPointer>> /\ pc'[Main] # "wnull"
    BY <1>1, <1>4, MemTypes
    DEF EpollWait, ReadData, ReadClose, HangUp, NextBranch, WriteHandler, WritePost, WriteDec,
        Leave, queueVars, connVars
  <2>2. QED
    BY <1>1, <1>2, <1>3, <2>1, MemCalm
<1>5. CASE WriteFree \/ WriteNull
  <2>0. PICK d \in Conns : d = arg[Main]
    BY <1>1, <1>5, MemTypes DEF WriteFree, WriteNull
  <2>2. CASE WriteFree
    <3>1. /\ heap' = heap \ {psendMemPointer[d]} /\ UNCHANGED <<psendMemPointer, arg>>
      BY <2>0, <2>2 DEF WriteFree, FreeMemory, connVars
    <3>2. /\ \A n \in Ids : Queued(n)' <=> Queued(n) /\ n \in heap'
          /\ \A w \in Workers : Building(w)' <=> Building(w) /\ msg[w].id \in heap'
          /\ pc'[Sender] = "null" => psendMemPointer'[arg'[Sender]] \notin heap'
      BY <1>1, <1>2, <1>3, <3>1, MemTypes DEF Apart
    <3>3. QED
      BY <1>1, <1>2, <1>3, <2>0, <3>1, <3>2, MemLess
  <2>3. CASE WriteNull
    <3>1. /\ psendMemPointer' = [psendMemPointer EXCEPT ![d] = Null] /\ heap' = heap
          /\ psendMemPointer[d] \notin heap /\ pc'[Main] = "wdec"
      BY <1>1, <2>0, <2>3, MemTypes DEF WriteNull, queueVars, Apart
    <3>2. \A c \in Conns : psendMemPointer'[c] = psendMemPointer[c] \/
                          (psendMemPointer'[c] = Null /\ psendMemPointer[c] \notin heap')
      BY <1>1, <3>1, MemTypes
    <3>3. pc'[Sender] = "null" => psendMemPointer'[arg'[Sender]] \notin heap'
      <4>1. pc[Sender] = "null" => arg[Sender] \in Conns /\ psendMemPointer[arg[Sender]] \notin heap
        BY <1>1, MemTypes DEF Apart, Busy
      <4>2. Null \notin heap
        BY <1>1, MemTypes
      <4>3. QED
        BY <1>3, <3>1, <3>2, <4>1, <4>2
    <3>4. /\ \A n \in Ids : Queued(n)' <=> Queued(n) /\ n \in heap'
          /\ \A w \in Workers : Building(w)' <=> Building(w) /\ msg[w].id \in heap'
      BY <1>1, <1>3, <3>1 DEF Apart
    <3>5. QED
      BY <1>1, <1>2, <1>3, <3>1, <3>2, <3>3, <3>4, MemLess
  <2>4. QED
    BY <1>5, <2>2, <2>3
<1>6. QED
  BY <1>4, <1>5 DEF MainThread

(* What a closed connection still has is freed when it is released, and    *)
(* the next client finds nothing.                                          *)
LEMMA LifeMem ==
  ASSUME MemInv, NEW c \in Conns, PeerClose(c) \/ PeerReset(c) \/ Release(c) \/ Reuse(c)
  PROVE  Apart' /\ NoLeak'
<1>1. /\ Inv /\ Open /\ Apart /\ NoLeak /\ Patient
      /\ \A w \in Workers : Building(w) => msg[w] # Null /\ msg[w].id \in Ids
  BY MemTypes DEF MemInv, Building, Packet
<1>2. Release(c) \/ Reuse(c)
  BY <1>1 DEF PeerClose, PeerReset, Patient
<1>3. /\ Quiet(c) /\ UNCHANGED <<nextId, MsgSendQueue, pc, arg, msg>>
      /\ psendMemPointer' = [psendMemPointer EXCEPT ![c] = Null]
  BY <1>1, <1>2 DEF Release, Reuse, Open, threadVars, queueVars
<1>4. /\ \A w \in Workers : Building(w)' <=> Building(w)
      /\ Once' /\ \A n : Queued(n)' <=> Queued(n)
  BY <1>1, <1>3 DEF Building, Once, Queued, Apart
<1>5. heap' = heap \ {psendMemPointer[c]}
  <2>1. CASE Release(c)
    BY <2>1 DEF Release, FreeMemory
  <2>2. CASE Reuse(c)
    BY <1>1, <2>2, MemTypes DEF Reuse, queueVars, Open
  <2>3. QED
    BY <1>2, <2>1, <2>2
<1>6. /\ \A n \in Ids : Queued(n)' <=> Queued(n) /\ n \in heap'
      /\ \A w \in Workers : Building(w)' <=> Building(w) /\ msg[w].id \in heap'
  BY <1>1, <1>4, <1>5, MemTypes DEF Apart
<1>7. \A d \in Conns : psendMemPointer'[d] = psendMemPointer[d] \/
                       (psendMemPointer'[d] = Null /\ psendMemPointer[d] \notin heap')
  BY <1>1, <1>3, <1>5, MemTypes
<1>8. /\ pc'[Sender] = "null" => psendMemPointer'[arg'[Sender]] \notin heap'
      /\ pc'[Main] = "wnull" => psendMemPointer'[arg'[Main]] \notin heap'
  <2>1. arg[Sender] # c /\ arg[Main] # c
    BY <1>1, <1>3, MemTypes DEF Quiet
  <2>2. /\ pc[Sender] = "null" => arg[Sender] \in Conns
        /\ pc[Main] = "wnull" => arg[Main] \in Conns
    BY <1>1, MemTypes DEF Busy
  <2>3. QED
    BY <1>1, <1>3, <1>5, <2>1, <2>2, MemTypes DEF Apart
<1>9. QED
  BY <1>1, <1>3, <1>4, <1>5, <1>6, <1>7, <1>8, MemLess

-----------------------------------------------------------------------------
(* The theorems.                                                           *)

(* It holds at the start.                                                  *)
LEMMA MemInit == Patient /\ Init => MemInv
<1> SUFFICES ASSUME Patient, Init PROVE MemInv
  OBVIOUS
<1>1. Inv
  BY InitInv
<1>2. MutexInv /\ LivesInv
  BY SendQueueAssumption
  DEF Init, MutexInv, Threads, MsgSendPCs, ScanPCs, ClosePCs, LivesInv, BuiltOK, QueuedOK, ThrownOK
<1>3. /\ \A w \in Workers : pc[w] = "idle"
      /\ pc[Main] = "idle" /\ pc[Sender] = "wait"
      /\ Main \notin Workers /\ \A t \in Threads : arg[t] = Null
      /\ pc[Timer] = "idle"
  BY SendQueueAssumption DEF Init, Threads
<1>4. Open
  BY <1>3 DEF Init, NoEvent, Open, Closed, Busy
<1>5. Phases
  BY <1>1, <1>3, MemTypes DEF Init, Phases, Phase, Sends, Writes, Loaded
<1>6. Len(MsgSendQueue) = 0 /\ heap = {} /\ \A c \in Conns : psendMemPointer[c] = Null
  BY DEF Init
<1>7. Apart /\ NoLeak
  BY <1>3, <1>6 DEF Apart, Once, Queued, Building, NoLeak
<1>8. QED
  BY <1>1, <1>2, <1>3, <1>4, <1>5, <1>7 DEF MemInv

(* Every step keeps it.                                                    *)
LEMMA MemStep == MemInv /\ [Next]_vars => MemInv'
<1> SUFFICES ASSUME MemInv, [Next]_vars PROVE MemInv'
  OBVIOUS
<1>1. Inv' /\ MutexInv' /\ LivesInv' /\ Patient' /\ pc'[Timer] = "idle"
  BY InvStep, MutexStep, LivesStep, TimerIdle DEF MemInv, Patient
<1>2. CASE UNCHANGED vars
  <2>1. Open' /\ Phases'
    BY <1>2 DEF MemInv, Open, Phases, Phase, Sends, Writes, Loaded, Quiet, vars, queueVars,
       connVars, threadVars, peerVars
  <2>2. Apart' /\ NoLeak'
    BY <1>2 DEF MemInv, Apart, Once, Queued, Building, NoLeak, Held, vars, queueVars,
       connVars, threadVars
  <2>3. QED
    BY <1>1, <2>1, <2>2 DEF MemInv
<1>3. CASE Next
  <2>1. Open'
    BY <1>3, TimerIdle, MsgSendOpen, CloseOpen, SenderOpen, MainOpen, LifeOpen DEF Next
  <2>2. Phases'
    BY <1>3, TimerIdle, MsgSendPhases, ClosePhases, ScanPhases, SendPhases, MainPhases, LifePhases
    DEF Next, ServerSendQueueThread
  <2>3. Apart' /\ NoLeak'
    BY <1>3, TimerIdle, MsgSendMem, CloseMem, SenderMem, MainMem, LifeMem DEF Next
  <2>4. QED
    BY <1>1, <2>1, <2>2, <2>3 DEF MemInv
<1>4. QED
  BY <1>2, <1>3

(* As long as clients neither hang up nor are thrown out by the read       *)
(* handler or by the timer thread, every packet of msgSend is freed exactly *)
(* once, by msgSend, the send thread, the write handler or the release, and *)
(* none is freed while the queue or an armed write still has it, though    *)
(* msgSend may close any connection at any time between two steps of the   *)
(* epoll thread.                                                           *)
THEOREM PacketsOnce == Patient /\ Spec => []EachPacketOnce
<1>1. MemInv => EachPacketOnce
  <2> SUFFICES ASSUME MemInv PROVE EachPacketOnce
    OBVIOUS
  <2>1. \A i \in 1..Len(MsgSendQueue) : MsgSendQueue[i].id \in heap
    BY LifeTypes DEF MemInv, Apart, Queued
  <2>2. \A c \in Conns : events[c] /\ fd[c] => psendbuf[c] \in heap
    BY DEF MemInv, Phases, Phase, Loaded
  <2>3. QED
    BY <2>1, <2>2 DEF MemInv, EachPacketOnce, NotFreed
<1>2. QED
  BY <1>1, MemInit, MemStep, PTL DEF Spec

(* And then the send thread and ngx_write_request_handler never write to   *)
(* one connection at once, though they share no lock: iThrowsendCount and  *)
(* EPOLLOUT hand the connection over from the one to the other.            *)
THEOREM OneWriterAtOnce == Patient /\ Spec => []OneWriter
<1>1. MemInv => OneWriter
  <2> SUFFICES ASSUME MemInv, arg[Sender] = arg[Main],
                      pc[Sender] \in {"send", "after", "null", "arm"},
                      \/ pc[Main] \in {"wpost", "wfree", "wnull", "wdec"}
                      \/ pc[Main] = "out" /\ ~event.hup
               PROVE  FALSE
    BY DEF OneWriter, At
  <2>1. PICK c \in Conns : c = arg[Sender]
    BY MemTypes DEF MemInv, Busy
  <2>2. fd[c] /\ Phase(c)
    BY <2>1 DEF MemInv, Open, Busy, Phases
  <2>3. QED
    BY <2>1, <2>2 DEF Phase, Sends, Writes
<1>2. QED
  BY <1>1, MemInit, MemStep, PTL DEF Spec

-----------------------------------------------------------------------------
(* What a client sees, as long as the end of file of a client that closes  *)
(* is seen by the first read after it: clients may close and reset, and    *)
(* any thread may close a connection at any time.                          *)

Prompt == MaxUnread = 0

\* Units can still leave through the socket of c.
Live(c) == fd[c] /\ peer[c] # "reset"

\* A hang-up that came with an event is met by a read that closes.
Hung ==
  /\ \A c \in Conns : fd[c] => slot[c] = "used"
  /\ \A c \in Conns : slot[c] = "free" => Quiet(c)
  /\ \A t \in Closers : pc[t] \in Closed => ~fd[arg[t]]
  /\ pc[Main] = "read" /\ event.hup => peer[arg[Main]] # "up"
  /\ pc[Main] = "out" => event.out /\ (event.hup => ~fd[arg[Main]])

\* The packet of c goes from the send thread to the write handler with EPOLLOUT, and
\* iThrowsendCount is 1 from before that until the write handler has done.
Turn(c) ==
  /\ iThrowsendCount[c] =
       IF events[c] \/ Writes(c) \/ (arg[Sender] = c /\ pc[Sender] = "arm") THEN 1 ELSE 0
  /\ events[c] => ~Writes(c) /\ ~Sends(c)
  /\ Writes(c) => ~Sends(c)
  /\ arg[Main] = c /\ (pc[Main] = "out" \/ (pc[Main] = "read" /\ event.out)) => events[c]
  /\ events[c] \/ (arg[Sender] = c /\ pc[Sender] \in {"send", "after", "arm"}) =>
       isendlen[c] \in 1..MsgLen
  /\ arg[Sender] = c /\ pc[Sender] = "after" => sent =< isendlen[c] /\ sent # -2

\* Units of the packet of c that have not left.
ToGo(c) ==
  IF events[c] \/ (arg[Sender] = c /\ pc[Sender] \in {"send", "arm"}) THEN isendlen[c]
  ELSE IF arg[Sender] = c /\ pc[Sender] = "after"
       THEN IF sent > 0 THEN isendlen[c] - sent ELSE isendlen[c]
  ELSE 0

\* What is on the wire is what was accepted, less the queue, less g units of psendbuf.
InOrder(c, g) ==
  /\ Len(wire[c]) + g = MsgLen * (Len(accepted[c]) - iSendCount[c])
  /\ ToSet(wire[c]) \subseteq ToSet(accepted[c])
  /\ g > 0 => /\ psendbuf[c] \in ToSet(accepted[c])
              /\ g = MsgLen => psendbuf[c] \notin ToSet(wire[c])
              /\ g < MsgLen => Len(wire[c]) > 0 /\ wire[c][Len(wire[c])] = psendbuf[c]
  /\ \A i \in 1..Len(MsgSendQueue) : IsFor(MsgSendQueue[i], c) =>
       /\ MsgSendQueue[i].id \in ToSet(accepted[c]) \ ToSet(wire[c])
       /\ g > 0 => MsgSendQueue[i].id # psendbuf[c]

Streams == \A c \in Conns : Live(c) => Turn(c) /\ InOrder(c, ToGo(c))

\* A packet that msgSend has not queued yet is in no queue and in no history.
Fresh ==
  /\ \A w \in Workers : Building(w) =>
       /\ msg[w].id < nextId /\ ~Queued(msg[w].id)
       /\ \A v \in Workers \ {w} : Building(v) => msg[v].id # msg[w].id
       /\ \A c \in Conns : msg[w].id \notin ToSet(accepted[c])
  /\ Once /\ \A m \in Ids : Queued(m) => m < nextId
  /\ \A c \in Conns : \A m \in ToSet(accepted[c]) : m < nextId

StreamInv ==
  /\ Prompt /\ Inv /\ MutexInv /\ LivesInv /\ SendCountExact
  /\ Hung /\ Fresh /\ Streams

(* What the steps below use of the types.                                  *)
LEMMA StreamTypes ==
  ASSUME Inv
  PROVE  /\ accepted \in [Conns -> Seq(Ids)] /\ wire \in [Conns -> Seq(Ids \cup {Null})]
         /\ \A c \in Conns : /\ Len(wire[c]) \in Nat /\ Len(accepted[c]) \in Nat
                             /\ psendbuf[c] \in Ids \cup {Null} /\ iSendCount[c] \in Int
         /\ unread \in [Conns -> 0..MaxUnread] /\ MsgLen \in Nat \ {0} /\ MaxUnread \in Nat
         /\ Len(MsgSendQueue) \in Nat
  BY SendQueueAssumption, LenProperties
  DEF Inv, TypeOK, QueueTypeOK, ConnTypeOK, PeerTypeOK, HistoryTypeOK

-----------------------------------------------------------------------------
(* Units on the wire.                                                      *)

(* What a send adds to the wire.                                           *)
LEMMA UnitsPut ==
  ASSUME Inv, NEW c \in Conns, NEW r \in Int, Put(c, r)
  PROVE  /\ r =< 0 => wire' = wire
         /\ \A d \in Conns : d # c => wire'[d] = wire[d]
         /\ r > 0 => /\ Len(wire'[c]) = Len(wire[c]) + r
                     /\ wire'[c][Len(wire'[c])] = psendbuf[c]
                     /\ ToSet(wire'[c]) = ToSet(wire[c]) \cup {psendbuf[c]}
<1> DEFINE P == Ids \cup {Null}
           u == [i \in 1..r |-> psendbuf[c]]
<1>1. wire \in [Conns -> Seq(P)] /\ psendbuf[c] \in P /\ Len(wire[c]) \in Nat /\ wire[c] \in Seq(P)
  BY StreamTypes
<1>2. wire' = [wire EXCEPT ![c] = wire[c] \o u]
  BY DEF Put
<1>3. \A d \in Conns : d # c => wire'[d] = wire[d]
  BY <1>1, <1>2
<1>4. ASSUME r =< 0
      PROVE  wire' = wire
  <2>1. 1..r = 1..0
    BY <1>4
  <2>2. u = [i \in 1..0 |-> psendbuf[c]]
    BY <2>1, Zenon
  <2>3. u = << >>
    BY <2>2
  <2>4. wire[c] \o u = wire[c]
    BY <1>1, <2>3, ConcatEmptySeq
  <2>5. QED
    BY <1>1, <1>2, <2>4
<1>5. ASSUME r > 0
      PROVE  /\ Len(wire'[c]) = Len(wire[c]) + r
             /\ wire'[c][Len(wire'[c])] = psendbuf[c]
             /\ ToSet(wire'[c]) = ToSet(wire[c]) \cup {psendbuf[c]}
  <2>1. u \in Seq(P) /\ Len(u) = r /\ \A i \in 1..r : u[i] = psendbuf[c]
    BY <1>1, <1>5
  <2>2. wire'[c] = wire[c] \o u
    BY <1>1, <1>2
  <2> DEFINE n == Len(wire[c])
             t == wire[c] \o u
  <2>3. /\ t \in Seq(P) /\ Len(t) = n + r
        /\ \A i \in 1..(n + r) : t[i] = IF i =< n THEN wire[c][i] ELSE u[i - n]
    <3> HIDE DEF u, P
    <3>1. /\ wire[c] \o u \in Seq(P) /\ Len(wire[c] \o u) = Len(wire[c]) + Len(u)
          /\ \A i \in 1..Len(wire[c]) + Len(u) :
               (wire[c] \o u)[i] = IF i <= Len(wire[c]) THEN wire[c][i] ELSE u[i - Len(wire[c])]
      BY <1>1, <2>1, ConcatProperties, ZenonT(40)
    <3>2. QED
      BY <2>1, <3>1
  <2> HIDE DEF t
  <2>4. \A i \in 1..(n + r) : t[i] = IF i =< n THEN wire[c][i] ELSE psendbuf[c]
    <3>1. \A i \in 1..(n + r) : ~(i =< n) => i - n \in 1..r
      BY <1>1
    <3>2. QED
      BY <2>1, <2>3, <3>1
  <2>5. DOMAIN t = 1..(n + r) /\ DOMAIN wire[c] = 1..n
    BY <1>1, <2>3, LenProperties
  <2>6. n + r \in 1..(n + r) /\ ~(n + r =< n) /\ \A i \in 1..n : i \in 1..(n + r) /\ i =< n
    BY <1>1, <1>5
  <2>7. t[n + r] = psendbuf[c]
    BY <2>4, <2>6
  <2>8. ToSet(t) = ToSet(wire[c]) \cup {psendbuf[c]}
    <3>1. ToSet(t) \subseteq ToSet(wire[c]) \cup {psendbuf[c]}
      <4>1. ASSUME NEW i \in 1..(n + r)
            PROVE  t[i] \in ToSet(wire[c]) \cup {psendbuf[c]}
        <5>1. CASE i =< n
          <6>1. i \in 1..n
            BY <1>1, <5>1
          <6>2. QED
            BY <2>4, <2>5, <5>1, <6>1 DEF ToSet
        <5>2. CASE ~(i =< n)
          BY <2>4, <5>2
        <5>3. QED
          BY <5>1, <5>2
      <4>2. QED
        BY <2>5, <4>1 DEF ToSet
    <3>2. \A i \in 1..n : t[i] = wire[c][i]
      BY <2>4, <2>6
    <3>3. QED
      BY <2>5, <2>6, <2>7, <3>1, <3>2 DEF ToSet
  <2>9. QED
    BY <2>2, <2>3, <2>7, <2>8 DEF t
<1>6. QED
  BY <1>3, <1>4, <1>5

(* Units of psendbuf leave.                                                *)
LEMMA Sent ==
  ASSUME Inv, NEW c \in Conns, NEW g \in 1..MsgLen, NEW r \in Int, r =< g, InOrder(c, g),
         Put(c, r), NEW h \in Int, h = IF r > 0 THEN g - r ELSE g,
         UNCHANGED <<MsgSendQueue, accepted, iSendCount, iCurrsequence, psendbuf>>
  PROVE  InOrder(c, h)'
<1>1. /\ MsgLen \in Nat \ {0} /\ g > 0 /\ g \in Int /\ g =< MsgLen /\ Len(wire[c]) \in Nat
  BY StreamTypes
<1>2. CASE r > 0
  <2>1. /\ Len(wire'[c]) = Len(wire[c]) + r
        /\ wire'[c][Len(wire'[c])] = psendbuf[c]
        /\ ToSet(wire'[c]) = ToSet(wire[c]) \cup {psendbuf[c]}
    BY <1>2, UnitsPut
  <2>2. Len(wire'[c]) + h = Len(wire[c]) + g /\ h < MsgLen /\ Len(wire'[c]) > 0
    BY <1>1, <1>2, <2>1
  <2>3. Len(wire'[c]) + h = MsgLen * (Len(accepted'[c]) - iSendCount'[c])
    BY <2>2 DEF InOrder
  <2>4. h # MsgLen
    BY <1>1, <2>2
  <2>5. psendbuf[c] \in ToSet(accepted[c])
    BY <1>1 DEF InOrder
  <2>6. \A i \in 1..Len(MsgSendQueue) : IsFor(MsgSendQueue[i], c) =>
          /\ MsgSendQueue[i].id \in ToSet(accepted[c]) \ ToSet(wire[c])
          /\ MsgSendQueue[i].id # psendbuf[c]
    BY <1>1 DEF InOrder
  <2>7. ToSet(wire'[c]) \subseteq ToSet(accepted'[c])
    BY <2>1, <2>5 DEF InOrder
  <2>8. QED
    BY <2>1, <2>2, <2>3, <2>4, <2>5, <2>6, <2>7 DEF InOrder, IsFor
<1>3. CASE ~(r > 0)
  <2>1. wire' = wire /\ h = g
    BY <1>3, UnitsPut
  <2>2. QED
    BY <2>1 DEF InOrder, IsFor
<1>4. QED
  BY <1>2, <1>3

-----------------------------------------------------------------------------
(* A connection that a step is not about.                                  *)

Aside(c) ==
  /\ iThrowsendCount'[c] = iThrowsendCount[c] /\ events'[c] = events[c]
  /\ isendlen'[c] = isendlen[c] /\ psendbuf'[c] = psendbuf[c]
  /\ \A p \in {"send", "after", "null", "arm"} :
       (arg'[Sender] = c /\ pc'[Sender] = p) <=> (arg[Sender] = c /\ pc[Sender] = p)
  /\ arg[Sender] = c => sent' = sent
  /\ \A p \in {"wpost", "wfree", "wnull", "wdec"} :
       (arg'[Main] = c /\ pc'[Main] = p) <=> (arg[Main] = c /\ pc[Main] = p)
  /\ arg'[Main] = c /\ (pc'[Main] = "out" \/ (pc'[Main] = "read" /\ event'.out)) => events[c]

\* Its share of the queue and of the history stays.
Stays(c) ==
  /\ wire'[c] = wire[c] /\ accepted'[c] = accepted[c]
  /\ iSendCount'[c] = iSendCount[c] /\ iCurrsequence'[c] = iCurrsequence[c]
  /\ \A i \in 1..Len(MsgSendQueue') :
       \/ \E j \in 1..Len(MsgSendQueue) : MsgSendQueue'[i] = MsgSendQueue[j]
       \/ MsgSendQueue'[i].conn # c

(* Whose turn it is on c stays.                                            *)
LEMMA TurnKept ==
  ASSUME NEW c \in Conns, Turn(c), Aside(c)
  PROVE  Turn(c)' /\ ToGo(c)' = ToGo(c)
<1>1. (Sends(c)' <=> Sends(c)) /\ (Writes(c)' <=> Writes(c))
  BY DEF Aside, Sends, Writes
<1>2. Turn(c)'
  BY <1>1 DEF Turn, Aside
<1>3. ToGo(c)' = ToGo(c)
  BY DEF ToGo, Aside
<1>4. QED
  BY <1>2, <1>3

(* What is on the wire of c, and what is to come, stays.                   *)
LEMMA OrderKept ==
  ASSUME NEW c \in Conns, NEW g, InOrder(c, g), Stays(c), psendbuf'[c] = psendbuf[c]
  PROVE  InOrder(c, g)'
<1>1. \A i \in 1..Len(MsgSendQueue') : IsFor(MsgSendQueue[i], c)' =>
        \E j \in 1..Len(MsgSendQueue) : /\ MsgSendQueue'[i] = MsgSendQueue[j]
                                        /\ IsFor(MsgSendQueue[j], c)
  BY DEF Stays, IsFor
<1>2. QED
  BY <1>1 DEF InOrder, Stays

(* A step of others leaves the stream of c as it is.                       *)
LEMMA StreamKept ==
  ASSUME NEW c \in Conns, Turn(c), InOrder(c, ToGo(c)), Aside(c), Stays(c)
  PROVE  Turn(c)' /\ InOrder(c, ToGo(c))'
<1>1. Turn(c)' /\ ToGo(c)' = ToGo(c) /\ psendbuf'[c] = psendbuf[c]
  BY TurnKept DEF Aside
<1>2. PICK g : g = ToGo(c)
  OBVIOUS
<1>3. InOrder(c, g)'
  BY <1>2, OrderKept, <1>1
<1>4. QED
  BY <1>1, <1>2, <1>3 DEF InOrder

-----------------------------------------------------------------------------
(* Hung.                                                                   *)

(* A step that closes no socket and releases no object.                    *)
LEMMA HungCalm ==
  ASSUME Hung, UNCHANGED <<fd, slot>>,
         \A t \in Closers :
           pc'[t] \in Closed => pc[t] \in Closed /\ arg'[t] = arg[t],
         pc'[Main] = "read" /\ event'.hup => peer'[arg'[Main]] # "up",
         pc'[Main] = "out" => event'.out /\ (event'.hup => ~fd[arg'[Main]]),
         \A t \in Threads : arg'[t] \in {arg[t], Null} \/ slot[arg'[t]] # "free",
         \A w \in Workers : msg'[w] \in {msg[w], Null} \/ slot[msg'[w].conn] # "free",
         Null \notin Conns
  PROVE  Hung'
<1>1. \A c \in Conns : slot[c] = "free" => Quiet(c)'
  BY DEF Hung, Quiet
<1>2. QED
  BY <1>1 DEF Hung

(* The steps of the pool threads.                                          *)
LEMMA MsgSendHung ==
  ASSUME Inv, Hung, NEW w \in Workers, MsgSend(w) \/ \E c \in Conns : BeginReply(w, c)
  PROVE  Hung'
<1> USE DEF At, Goto
<1>1. /\ UNCHANGED <<fd, slot, peer, event>>
      /\ \A t \in Threads : t # w => pc'[t] = pc[t] /\ arg'[t] = arg[t]
      /\ \A v \in Workers : v # w => msg'[v] = msg[v]
  BY MemTypes DEF MsgSend, BeginReply, MsgSendLock, MsgSendDiscard, MsgSendKick,
     MsgSendAdmit, MsgSendPush, MsgSendPost, MsgSendUnlock, Leave, connVars, peerVars
<1>2. /\ pc'[w] \notin Closed
      /\ arg'[w] \in {arg[w], Null} \/ slot[arg'[w]] # "free"
      /\ msg'[w] \in {msg[w], Null} \/ slot[msg'[w].conn] # "free"
  <2>1. CASE \E c \in Conns : BeginReply(w, c)
    BY <2>1, MemTypes DEF BeginReply, Closed
  <2>2. CASE MsgSendKick(w)
    <3>1. slot[msg[w].conn] # "free"
      BY <2>2, MemTypes DEF MsgSendKick, Hung, Quiet, Packet
    <3>2. QED
      BY <2>2, <3>1, MemTypes DEF MsgSendKick, Closed
  <2>3. CASE MsgSendLock(w) \/ MsgSendDiscard(w) \/ MsgSendAdmit(w) \/ MsgSendPush(w)
             \/ MsgSendPost(w) \/ MsgSendUnlock(w)
    BY <2>3, MemTypes DEF MsgSendLock, MsgSendDiscard, MsgSendAdmit, MsgSendPush,
       MsgSendPost, MsgSendUnlock, Leave, Closed
  <2>4. QED
    BY <2>1, <2>2, <2>3 DEF MsgSend
<1>3. QED
  BY <1>1, <1>2, HungCalm, MemTypes, CloserTypes DEF Hung

(* Those of a close.                                                       *)
LEMMA CloseHung ==
  ASSUME Inv, Hung, NEW t \in Closers, ZdClosesocketProc(t)
  PROVE  Hung'
<1> USE DEF At, Goto
<1>1. /\ t \in Threads /\ t # Sender /\ arg[t] \in Conns /\ pc[t] \in ClosePCs
  BY MemTypes, CloserTypes
  DEF ZdClosesocketProc, CloseFd, DecTest, Dec, InRecyConnectQueue, ClosePCs
<1>2. /\ \A u \in Threads : u # t => pc'[u] = pc[u] /\ arg'[u] = arg[u]
      /\ UNCHANGED <<peer, event, msg>> /\ arg'[t] \in {arg[t], Null}
      /\ Main \in Threads /\ \A w \in Workers : w \in Threads
  BY <1>1, MemTypes DEF ZdClosesocketProc, CloseFd, DecTest, Dec, InRecyConnectQueue, Leave,
     connVars, peerVars
<1>3. CASE CloseFd(t)
  <2>1. /\ fd' = [fd EXCEPT ![arg[t]] = FALSE] /\ UNCHANGED <<slot, arg>>
        /\ pc'[t] = "decTest"
    BY <1>1, <1>3, MemTypes DEF CloseFd
  <2>2. /\ ~fd'[arg[t]] /\ \A c \in Conns : fd'[c] => fd[c]
    BY <1>1, <2>1, MemTypes
  <2>3. \A c \in Conns : slot[c] = "free" => Quiet(c)'
    BY <1>2, <2>1 DEF Hung, Quiet
  <2>4. \A u \in Closers : pc'[u] \in Closed => ~fd'[arg'[u]]
    BY <1>1, <1>2, <2>1, <2>2, MemTypes, CloserTypes DEF Hung, Closed, ClosePCs, DispatchPCs
  <2>5. /\ pc'[Main] = "read" => pc[Main] = "read"
        /\ pc'[Main] = "out" => pc[Main] = "out" /\ arg[Main] \in Conns
    BY <1>1, <1>2, <2>1, MemTypes
  <2>6. QED
    BY <1>2, <2>1, <2>2, <2>3, <2>4, <2>5 DEF Hung
<1>4. CASE DecTest(t) \/ Dec(t)
  <2>1. /\ UNCHANGED <<fd, slot, arg>> /\ pc[t] \in Closed /\ pc'[t] \in Closed
    BY <1>1, <1>4, MemTypes DEF DecTest, Dec, Closed, connVars
  <2>2. pc'[t] \notin {"read", "out"}
    BY <2>1 DEF Closed
  <2>3. QED
    BY <1>1, <1>2, <2>1, <2>2, HungCalm, MemTypes, CloserTypes DEF Hung
<1>5. CASE InRecyConnectQueue(t)
  <2>1. /\ pc[t] = "recycle" /\ fd' = fd
        /\ slot' = [slot EXCEPT ![arg[t]] = "recy"]
        /\ t \in Workers => pc'[t] = "unlock"
        /\ t = Main => pc'[t] \in {"out", "idle"}
        /\ t = Timer => pc'[t] = "idle"
        /\ t = Main /\ pc'[t] = "out" => event.out /\ arg'[t] = arg[t]
    BY <1>1, <1>5, MemTypes DEF InRecyConnectQueue, EnterRecycleList, Leave
  <2>2. ~fd[arg[t]] /\ pc'[t] \in {"unlock", "out", "idle"}
    BY <1>1, <2>1, CloserTypes DEF Hung, Closed
  <2>3. \A c \in Conns : slot'[c] = (IF c = arg[t] THEN "recy" ELSE slot[c])
    BY <1>1, <2>1, MemTypes
  <2>4. \A c \in Conns : slot'[c] = "free" => Quiet(c)'
    BY <1>1, <1>2, <2>1, <2>3, MemTypes DEF Hung, Quiet
  <2>5. \A u \in Closers : pc'[u] \in Closed => ~fd'[arg'[u]]
    BY <1>1, <1>2, <2>1, <2>2, MemTypes, CloserTypes DEF Hung, Closed
  <2>6. \A c \in Conns : fd'[c] => slot'[c] = "used"
    BY <1>1, <2>1, <2>2, <2>3 DEF Hung
  <2>7. pc'[Main] = "out" => event'.out /\ (event'.hup => ~fd'[arg'[Main]])
    BY <1>1, <1>2, <2>1, <2>2, MemTypes DEF Hung
  <2>8. pc'[Main] = "read" /\ event'.hup => peer'[arg'[Main]] # "up"
    BY <1>1, <1>2, <2>2, MemTypes DEF Hung
  <2>9. QED
    BY <2>4, <2>5, <2>6, <2>7, <2>8 DEF Hung
<1>6. QED
  BY <1>3, <1>4, <1>5 DEF ZdClosesocketProc

(* A packet of the present life has a connection in use.                   *)
LEMMA SenderHung ==
  ASSUME Inv, Hung, LivesInv, ServerSendQueueThread \/ SemInterrupted
  PROVE  Hung'
<1> USE DEF At, Goto
<1>1. /\ UNCHANGED <<fd, slot, peer, event, msg>>
      /\ \A t \in Threads : t # Sender => pc'[t] = pc[t] /\ arg'[t] = arg[t]
  BY MemTypes
  DEF ServerSendQueueThread, SemWait, SemInterrupted, LockQueue, EndOfQueue, DropExpired,
      KeepFresh, SkipUnfinished, TakePacket, SendProc, SentAll, ClearSent, SentPart, ArmWrite,
      Leave, connVars, peerVars, threadVars
<1>2. ASSUME ~KeepFresh
      PROVE  arg'[Sender] \in {arg[Sender], Null}
  BY <1>2, MemTypes
  DEF ServerSendQueueThread, SemWait, SemInterrupted, LockQueue, EndOfQueue, DropExpired,
      SkipUnfinished, TakePacket, SendProc, SentAll, ClearSent, SentPart, ArmWrite,
      Leave, threadVars
<1>3. ASSUME KeepFresh
      PROVE  slot[arg'[Sender]] = "used"
  <2> DEFINE m == MsgSendQueue[pos]
  <2>1. pos \in 1..Len(MsgSendQueue) /\ iCurrsequence[m.conn] = m.seq /\ arg'[Sender] = m.conn
    BY <1>3, MemTypes, LifeTypes DEF KeepFresh, Expired
  <2>2. m \in Packet /\ Numbered(m)
    BY <2>1, LifeTypes DEF LivesInv, QueuedOK
  <2>3. QED
    BY <2>1, <2>2 DEF Numbered, Packet
<1>4. QED
  BY <1>1, <1>2, <1>3, HungCalm, MemTypes, CloserTypes DEF Hung

(* A hang-up is reported with EPOLLIN, and the read then finds it, or      *)
(* there is no write branch after the read.                                *)
LEMMA MainHung ==
  ASSUME Prompt \/ ~event.out, Inv, Hung, MainThread
  PROVE  Hung'
<1> USE DEF At, Goto
<1>1. /\ UNCHANGED <<fd, slot, peer, msg>>
      /\ \A t \in Threads : t # Main => pc'[t] = pc[t] /\ arg'[t] = arg[t]
  BY MemTypes
  DEF MainThread, EpollWait, ReadData, ReadClose, HangUp, NextBranch, WriteHandler, WritePost,
      WriteFree, WriteNull, WriteDec, Leave, connVars, peerVars
<1>2. /\ pc'[Main] \notin Closed
      /\ pc'[Main] = "read" /\ event'.hup => peer'[arg'[Main]] # "up"
      /\ pc'[Main] = "out" => event'.out /\ (event'.hup => ~fd[arg'[Main]])
      /\ arg'[Main] \in {arg[Main], Null} \/ slot[arg'[Main]] # "free"
  <2>1. ASSUME NEW c \in Conns, EpollWait(c)
        PROVE  /\ pc'[Main] \in {"read", "out"} /\ arg'[Main] = c /\ slot[c] # "free"
               /\ pc'[Main] = "out" => event'.out /\ ~event'.hup
               /\ event'.hup => peer'[c] # "up"
    <3>1. PICK in \in BOOLEAN, out \in BOOLEAN :
            /\ in \/ out
            /\ peer[c] # "up" => in
            /\ event' = [in |-> in, out |-> out, hup |-> peer[c] # "up"]
            /\ pc' = [pc EXCEPT ![Main] = IF in THEN "read" ELSE "out"]
      BY <2>1 DEF EpollWait
    <3>2. /\ pc'[Main] = IF in THEN "read" ELSE "out"
          /\ arg'[Main] = c /\ fd[c] /\ peer' = peer
      BY <2>1, <3>1, MemTypes DEF EpollWait, peerVars
    <3>3. event'.out = out /\ event'.hup = (peer[c] # "up")
      BY <3>1
    <3>4. slot[c] # "free"
      BY <3>2 DEF Hung
    <3>5. event'.hup => peer[c] # "up"
      BY <3>3
    <3>6. CASE in
      BY <3>2, <3>4, <3>5, <3>6
    <3>7. CASE ~in
      <4>1. out /\ peer[c] = "up"
        BY <3>1, <3>7
      <4>2. event'.out /\ ~event'.hup
        BY <3>3, <4>1
      <4>3. QED
        BY <3>2, <3>4, <3>7, <4>2
    <3>8. QED
      BY <3>6, <3>7
  <2>2. CASE ReadData
    <3>1. /\ pc[Main] = "read" /\ event' = event
          /\ pc'[Main] \in {"out", "idle"} /\ (pc'[Main] = "out" => event.out /\ arg' = arg)
          /\ arg'[Main] \in {arg[Main], Null}
      BY <2>2, MemTypes DEF ReadData, NextBranch, Leave
    <3>2. event.out => ~event.hup
      <4>1. SUFFICES ASSUME event.out PROVE ~event.hup
        OBVIOUS
      <4>2. unread[arg[Main]] = 0
        BY <2>2, <4>1, MemTypes, StreamTypes DEF ReadData, Prompt
      <4>3. peer[arg[Main]] = "up"
        BY <2>2, <4>2 DEF ReadData
      <4>4. QED
        BY <3>1, <4>3 DEF Hung
    <3>3. QED
      BY <3>1, <3>2 DEF Closed
  <2>3. CASE ReadClose \/ HangUp \/ WriteHandler \/ WritePost \/ WriteFree \/ WriteNull \/ WriteDec
    BY <2>3, MemTypes
    DEF ReadClose, HangUp, WriteHandler, WritePost, WriteFree, WriteNull, WriteDec, Leave, Closed
  <2>4. QED
    BY <2>1, <2>2, <2>3 DEF MainThread, Closed
<1>3. QED
  BY <1>1, <1>2, HungCalm, MemTypes, CloserTypes DEF Hung

(* Those of clients, of the release and of a new life.                     *)
LEMMA LifeHung ==
  ASSUME Inv, Hung, NEW c \in Conns, PeerClose(c) \/ PeerReset(c) \/ Release(c) \/ Reuse(c)
  PROVE  Hung'
<1>1. UNCHANGED <<pc, arg, msg, event>>
  BY DEF PeerClose, PeerReset, Release, Reuse, threadVars
<1>2. CASE PeerClose(c) \/ PeerReset(c)
  <2>1. UNCHANGED <<fd, slot>> /\ \A d \in Conns : peer'[d] = "up" => peer[d] = "up"
    BY <1>2, MemTypes DEF PeerClose, PeerReset, connVars
  <2>2. pc[Main] = "read" => arg[Main] \in Conns
    BY MemTypes
  <2>3. QED
    BY <1>1, <2>1, <2>2, HungCalm, MemTypes DEF Hung
<1>3. CASE Release(c) \/ Reuse(c)
  <2>1. Quiet(c)
    BY <1>3 DEF Release, Reuse, Hung
  <2>2. \A t \in Threads : arg[t] # c
    BY <2>1 DEF Quiet
  <2>3. \A d \in Conns : d # c => /\ fd'[d] = fd[d] /\ slot'[d] = slot[d] /\ peer'[d] = peer[d]
    BY <1>3, MemTypes DEF Release, Reuse, peerVars
  <2>4. fd'[c] => slot'[c] = "used"
    BY <1>3, MemTypes DEF Release, Reuse, Hung
  <2>5. \A d \in Conns : slot'[d] = "free" => Quiet(d)'
    BY <1>1, <2>1, <2>3 DEF Hung, Quiet
  <2>6. \A t \in Closers : pc'[t] \in Closed => ~fd'[arg'[t]]
    BY <1>1, <2>2, <2>3, MemTypes, CloserTypes DEF Hung, Closed, ClosePCs
  <2>7. /\ pc'[Main] = "read" /\ event'.hup => peer'[arg'[Main]] # "up"
        /\ pc'[Main] = "out" => event'.out /\ (event'.hup => ~fd'[arg'[Main]])
    BY <1>1, <2>2, <2>3, MemTypes DEF Hung
  <2>8. QED
    BY <2>3, <2>4, <2>5, <2>6, <2>7 DEF Hung
<1>4. QED
  BY <1>2, <1>3

(* A kick starts with the socket still as it was.                          *)
LEMMA KickHung ==
  ASSUME Inv, Hung, NEW c \in Conns, ProcPingTimeOutChecking(c)
  PROVE  Hung'
<1>1. /\ UNCHANGED <<fd, slot, peer, event, msg>> /\ slot[c] # "free"
      /\ pc'[Timer] \notin Closed /\ arg'[Timer] = c
      /\ \A t \in Threads : t # Timer => pc'[t] = pc[t] /\ arg'[t] = arg[t]
  BY KickCalm DEF connVars, peerVars, Closed
<1>2. QED
  BY <1>1, HungCalm, MemTypes, CloserTypes DEF Hung

(* All of them.                                                            *)
LEMMA HungStep ==
  ASSUME Prompt \/ ~event.out, Inv, Hung, LivesInv, [Next]_vars
  PROVE  Hung'
<1>1. CASE UNCHANGED vars
  BY <1>1, HungCalm, MemTypes DEF vars, connVars, threadVars, peerVars, Hung
<1>2. CASE Next
  BY <1>2, MsgSendHung, CloseHung, SenderHung, MainHung, LifeHung, KickHung DEF Next
<1>3. QED
  BY <1>1, <1>2

-----------------------------------------------------------------------------
(* Fresh.                                                                  *)

(* A step that makes no packet and queues none.                            *)
LEMMA FreshCalm ==
  ASSUME Inv, Fresh, nextId' = nextId, Once',
         \A m : Queued(m)' => Queued(m),
         \A w \in Workers : Building(w)' => Building(w) /\ msg'[w] = msg[w],
         \A c \in Conns : ToSet(accepted'[c]) \subseteq ToSet(accepted[c])
  PROVE  Fresh'
<1>1. \A w \in Workers : Building(w)' =>
        /\ msg'[w].id < nextId' /\ \A m : m = msg'[w].id => ~(Queued(m)')
        /\ \A v \in Workers \ {w} : Building(v)' => msg'[v].id # msg'[w].id
        /\ \A c \in Conns : msg'[w].id \notin ToSet(accepted'[c])
  BY DEF Fresh
<1>2. /\ \A m \in Ids : Queued(m)' => m < nextId'
      /\ \A c \in Conns : \A m \in ToSet(accepted'[c]) : m < nextId'
  BY DEF Fresh
<1>3. QED
  BY <1>1, <1>2 DEF Fresh, Queued

(* A packet takes the next number.                                         *)
LEMMA BeginReplyFresh ==
  ASSUME Inv, Fresh, NEW w \in Workers, NEW c \in Conns, BeginReply(w, c)
  PROVE  Fresh'
<1> USE DEF At, Goto
<1>1. /\ nextId' = nextId + 1 /\ UNCHANGED <<MsgSendQueue, accepted>> /\ nextId \in Ids
      /\ nextId \in Nat
      /\ msg'[w] = [id |-> nextId, conn |-> c, seq |-> iCurrsequence[c]]
      /\ \A v \in Workers : v # w => msg'[v] = msg[v] /\ pc'[v] = pc[v]
  BY MemTypes DEF BeginReply, Ids, Inv, TypeOK, QueueTypeOK, history
<1>2. msg'[w].id = nextId
  BY <1>1
<1>3. /\ Once' /\ \A m : Queued(m)' <=> Queued(m)
  BY <1>1 DEF Once, Queued, Fresh
<1>4. /\ \A v \in Workers : v # w => (Building(v)' <=> Building(v))
      /\ \A v \in Workers : Building(v) => msg[v].id \in Ids
      /\ Ids \subseteq Nat /\ \A d \in Conns : ToSet(accepted[d]) \subseteq Ids
  BY <1>1, MemTypes, StreamTypes, ElementsTyped DEF Building, Packet
<1>5. \A v \in Workers : Building(v)' =>
        /\ msg'[v].id < nextId' /\ \A m : m = msg'[v].id => ~(Queued(m)')
        /\ \A u \in Workers \ {v} : Building(u)' => msg'[u].id # msg'[v].id
        /\ \A d \in Conns : msg'[v].id \notin ToSet(accepted'[d])
  <2>1. /\ nextId < nextId' /\ ~Queued(nextId)
        /\ \A v \in Workers : Building(v) => msg[v].id # nextId
        /\ \A d \in Conns : nextId \notin ToSet(accepted[d])
    <3>1. ~(nextId < nextId) /\ nextId < nextId'
      BY <1>1
    <3>2. QED
      BY <1>1, <3>1, Zenon DEF Fresh
  <2>2. \A v \in Workers : v # w /\ Building(v) => msg[v].id < nextId'
    <3>1. \A m \in Ids : m < nextId => m < nextId'
      BY <1>1, <1>4
    <3>2. QED
      BY <1>4, <3>1, Zenon DEF Fresh
  <2>3. QED
    BY <1>1, <1>2, <1>3, <1>4, <2>1, <2>2 DEF Fresh
<1>6. /\ \A m \in Ids : Queued(m)' => m < nextId'
      /\ \A d \in Conns : \A m \in ToSet(accepted'[d]) : m < nextId'
  <2>1. \A m \in Ids : m < nextId => m < nextId'
    BY <1>1, <1>4
  <2>2. QED
    BY <1>1, <1>3, <1>4, <2>1, Zenon DEF Fresh
<1>7. QED
  BY <1>3, <1>5, <1>6 DEF Fresh, Queued

(* The histories a push leaves.                                            *)
LEMMA PushTold ==
  ASSUME Inv, NEW w \in Workers, MsgSendPush(w)
  PROVE  /\ \A c \in Conns : ToSet(accepted'[c]) \subseteq ToSet(accepted[c]) \cup {msg[w].id}
         /\ \A c \in Conns : c # msg[w].conn => accepted'[c] = accepted[c]
         /\ IsFor(msg[w], msg[w].conn) =>
              /\ accepted'[msg[w].conn] = Append(accepted[msg[w].conn], msg[w].id)
              /\ ToSet(accepted'[msg[w].conn]) = ToSet(accepted[msg[w].conn]) \cup {msg[w].id}
              /\ Len(accepted'[msg[w].conn]) = Len(accepted[msg[w].conn]) + 1
         /\ ~IsFor(msg[w], msg[w].conn) => accepted' = accepted
<1> USE DEF At
<1>1. msg[w] \in Packet /\ msg[w].conn \in Conns /\ msg[w].id \in Ids
  BY MemTypes DEF MsgSendPush, Packet
<1>2. accepted \in [Conns -> Seq(Ids)] /\ accepted[msg[w].conn] \in Seq(Ids)
  BY <1>1, StreamTypes
<1>3. /\ IsFor(msg[w], msg[w].conn) =>
           accepted' = [accepted EXCEPT ![msg[w].conn] = Append(accepted[msg[w].conn], msg[w].id)]
      /\ ~IsFor(msg[w], msg[w].conn) => accepted' = accepted
  BY DEF MsgSendPush, IsFor
<1>4. /\ ToSet(Append(accepted[msg[w].conn], msg[w].id)) = ToSet(accepted[msg[w].conn]) \cup {msg[w].id}
      /\ Len(Append(accepted[msg[w].conn], msg[w].id)) = Len(accepted[msg[w].conn]) + 1
  BY <1>1, <1>2, Enqueued, AppendProperties
<1>5. CASE IsFor(msg[w], msg[w].conn)
  <2>1. /\ accepted'[msg[w].conn] = Append(accepted[msg[w].conn], msg[w].id)
        /\ \A c \in Conns : c # msg[w].conn => accepted'[c] = accepted[c]
    BY <1>1, <1>2, <1>3, <1>5
  <2>2. QED
    BY <1>4, <1>5, <2>1
<1>6. CASE ~IsFor(msg[w], msg[w].conn)
  BY <1>3, <1>6
<1>7. QED
  BY <1>5, <1>6

(* A packet goes to the queue, and to one history.                         *)
LEMMA PushFresh ==
  ASSUME Inv, Fresh, NEW w \in Workers, MsgSendPush(w)
  PROVE  Fresh'
<1> USE DEF At, Goto
<1>1. /\ Push(msg[w]) /\ UNCHANGED <<nextId, msg>> /\ Building(w) /\ ~Building(w)'
      /\ msg[w] \in Packet
      /\ \A v \in Workers : v # w => (Building(v)' <=> Building(v))
  BY MemTypes DEF MsgSendPush, Building
<1>2. PICK n : n = msg[w].id
  OBVIOUS
<1>3. /\ \A m : Queued(m)' <=> Queued(m) \/ m = n
      /\ Once'
  BY <1>1, <1>2, Pushed DEF Fresh
<1>4. \A c \in Conns : ToSet(accepted'[c]) \subseteq ToSet(accepted[c]) \cup {n}
  BY <1>2, PushTold
<1>5. n < nextId
  BY <1>1, <1>2 DEF Fresh
<1>6. \A v \in Workers : Building(v)' => v # w /\ Building(v) /\ msg'[v] = msg[v] /\ msg[v].id # n
  BY <1>1, <1>2 DEF Fresh
<1>7. \A v \in Workers : Building(v)' =>
        /\ msg'[v].id < nextId' /\ \A m : m = msg'[v].id => ~(Queued(m)')
        /\ \A u \in Workers \ {v} : Building(u)' => msg'[u].id # msg'[v].id
        /\ \A d \in Conns : msg'[v].id \notin ToSet(accepted'[d])
  BY <1>1, <1>3, <1>4, <1>6 DEF Fresh
<1>8. /\ \A m \in Ids : Queued(m)' => m < nextId'
      /\ \A d \in Conns : \A m \in ToSet(accepted'[d]) : m < nextId'
  BY <1>1, <1>3, <1>4, <1>5 DEF Fresh
<1>9. QED
  BY <1>3, <1>7, <1>8 DEF Fresh, Queued

(* All of them.                                                            *)
LEMMA FreshStep ==
  ASSUME Inv, Fresh, [Next]_vars
  PROVE  Fresh'
<1> USE DEF At, Goto
<1>0. Once
  BY DEF Fresh
<1>1. CASE UNCHANGED vars
  BY <1>0, <1>1, FreshCalm DEF vars, queueVars, threadVars, history, Once, Queued, Building
<1>2. ASSUME NEW w \in Workers, MsgSend(w), ~MsgSendPush(w)
      PROVE  Fresh'
  <2>1. /\ UNCHANGED <<nextId, MsgSendQueue, accepted>>
        /\ \A v \in Workers : Building(v)' => Building(v) /\ msg'[v] = msg[v]
    BY <1>2, MemTypes
    DEF MsgSend, MsgSendLock, MsgSendDiscard, MsgSendKick, MsgSendAdmit, MsgSendPost,
        MsgSendUnlock, Leave, Building, queueVars, history
  <2>2. QED
    BY <1>0, <2>1, FreshCalm DEF Once, Queued
<1>3. ASSUME NEW t \in Closers, ZdClosesocketProc(t)
      PROVE  Fresh'
  <2>1. /\ UNCHANGED <<nextId, MsgSendQueue, accepted, msg>>
        /\ \A v \in Workers : Building(v)' => Building(v)
    BY <1>3, MemTypes
    DEF ZdClosesocketProc, CloseFd, DecTest, Dec, InRecyConnectQueue, Leave, Building,
        queueVars, history
  <2>2. QED
    BY <1>0, <2>1, FreshCalm DEF Once, Queued
<1>4. CASE ServerSendQueueThread \/ SemInterrupted
  <2>1. /\ UNCHANGED <<nextId, accepted, msg>>
        /\ \A v \in Workers : Building(v)' => Building(v)
    BY <1>4, MemTypes
    DEF ServerSendQueueThread, SemWait, SemInterrupted, LockQueue, EndOfQueue, DropExpired,
        KeepFresh, SkipUnfinished, TakePacket, SendProc, SentAll, ClearSent, SentPart, ArmWrite,
        Leave, Building, queueVars, threadVars, history
  <2>2. Once' /\ \A m : Queued(m)' => Queued(m)
    <3>1. CASE DropExpired \/ TakePacket
      <4>1. EraseAt(pos) /\ pos \in 1..Len(MsgSendQueue)
        BY <3>1, LifeTypes DEF DropExpired, TakePacket, Inv, SenderOK
      <4>2. QED
        BY <1>0, <4>1, Erased
    <3>2. CASE ~(DropExpired \/ TakePacket)
      <4>1. UNCHANGED MsgSendQueue
        BY <1>4, <3>2
        DEF ServerSendQueueThread, SemWait, SemInterrupted, LockQueue, EndOfQueue, KeepFresh,
            SkipUnfinished, SendProc, SentAll, ClearSent, SentPart, ArmWrite, queueVars
      <4>2. QED
        BY <1>0, <4>1 DEF Once, Queued
    <3>3. QED
      BY <3>1, <3>2
  <2>3. QED
    BY <2>1, <2>2, FreshCalm
<1>5. CASE MainThread
  <2>1. /\ UNCHANGED <<nextId, MsgSendQueue, accepted, msg>>
        /\ \A v \in Workers : Building(v)' => Building(v)
    BY <1>5, MemTypes
    DEF MainThread, EpollWait, ReadData, ReadClose, HangUp, NextBranch, WriteHandler, WritePost,
        WriteFree, WriteNull, WriteDec, Leave, Building, queueVars, history
  <2>2. QED
    BY <1>0, <2>1, FreshCalm DEF Once, Queued
<1>6. ASSUME NEW c \in Conns, PeerClose(c) \/ PeerReset(c) \/ Release(c) \/ Reuse(c)
      PROVE  Fresh'
  <2>1. UNCHANGED <<nextId, MsgSendQueue, pc, msg>>
    BY <1>6 DEF PeerClose, PeerReset, Release, Reuse, queueVars, threadVars
  <2>2. \A d \in Conns : accepted'[d] = accepted[d] \/ accepted'[d] = << >>
    BY <1>6, StreamTypes DEF PeerClose, PeerReset, Release, Reuse, history
  <2>3. \A d \in Conns : ToSet(accepted'[d]) \subseteq ToSet(accepted[d])
    BY <2>2 DEF ToSet
  <2>4. QED
    BY <1>0, <2>1, <2>3, FreshCalm DEF Once, Queued, Building
<1>7. ASSUME NEW c \in Conns, ProcPingTimeOutChecking(c)
      PROVE  Fresh'
  BY <1>0, <1>7, KickCalm, FreshCalm DEF Once, Queued, Building, queueVars, history
<1>8. QED
  BY <1>1, <1>2, <1>3, <1>4, <1>5, <1>6, <1>7, BeginReplyFresh, PushFresh DEF Next

-----------------------------------------------------------------------------
(* Streams.                                                                *)

(* The steps of a pool thread in msgSend: a push is one packet more that   *)
(* was accepted and one more that waits.                                   *)
LEMMA MsgSendStreams ==
  ASSUME StreamInv, NEW w \in Workers, MsgSend(w) \/ \E c \in Conns : BeginReply(w, c)
  PROVE  Streams'
<1> USE DEF At, Goto
<1>1. Inv /\ Hung /\ Fresh /\ LivesInv /\ Streams
  BY DEF StreamInv
<1>2. /\ UNCHANGED <<fd, peer, slot, event, sent, iThrowsendCount, events, psendbuf, isendlen,
                     iCurrsequence, wire>>
      /\ \A t \in Threads : t # w => pc'[t] = pc[t] /\ arg'[t] = arg[t]
  BY <1>1, MemTypes DEF MsgSend, BeginReply, MsgSendLock, MsgSendDiscard, MsgSendKick,
     MsgSendAdmit, MsgSendPush, MsgSendPost, MsgSendUnlock, Leave, connVars, peerVars, history
<1>3. /\ pc'[Sender] = pc[Sender] /\ arg'[Sender] = arg[Sender]
      /\ pc'[Main] = pc[Main] /\ arg'[Main] = arg[Main]
  BY <1>1, <1>2, MemTypes
<1>4. ASSUME NEW c \in Conns, Live(c)'
      PROVE  Live(c) /\ Turn(c) /\ InOrder(c, ToGo(c)) /\ Aside(c)
  <2>1. Live(c)
    BY <1>2, <1>4 DEF Live
  <2>2. Turn(c) /\ InOrder(c, ToGo(c))
    BY <1>1, <2>1 DEF Streams
  <2>3. arg'[Main] = c /\ (pc'[Main] = "out" \/ (pc'[Main] = "read" /\ event'.out)) => events[c]
    BY <1>2, <1>3, <2>2 DEF Turn
  <2>4. Aside(c)
    BY <1>2, <1>3, <2>3 DEF Aside
  <2>5. QED
    BY <2>1, <2>2, <2>4
<1>5. CASE ~MsgSendPush(w)
  <2>1. UNCHANGED <<MsgSendQueue, iSendCount, accepted>>
    BY <1>1, <1>5, MemTypes DEF MsgSend, BeginReply, MsgSendLock, MsgSendDiscard, MsgSendKick,
       MsgSendAdmit, MsgSendPost, MsgSendUnlock, connVars, queueVars, history
  <2>2. \A c \in Conns : Stays(c)
    BY <1>2, <2>1 DEF Stays
  <2>3. QED
    BY <1>4, <2>2, StreamKept DEF Streams
<1>6. CASE MsgSendPush(w)
  <2>1. /\ msg[w] \in Packet /\ msg[w] # Null /\ Push(msg[w])
        /\ iSendCount' = [iSendCount EXCEPT ![msg[w].conn] = @ + 1] /\ Building(w)
    BY <1>1, <1>6, MemTypes DEF MsgSendPush, CountQueued, Building
  <2>2. PICK m \in Packet : m = msg[w]
    BY <2>1
  <2>3. PICK n \in Nat : n = Len(MsgSendQueue)
    BY <1>1, LifeTypes
  <2>4. /\ Len(MsgSendQueue') = n + 1 /\ MsgSendQueue'[n + 1] = m
        /\ \A i \in 1..n : MsgSendQueue'[i] = MsgSendQueue[i]
        /\ \A i \in 1..(n + 1) : i \in 1..n \/ i = n + 1
    BY <1>1, <2>1, <2>2, <2>3, LifeTypes, AppendProperties DEF Push
  <2>5. ASSUME NEW c \in Conns, Live(c)', c # m.conn
        PROVE  Turn(c)' /\ InOrder(c, ToGo(c))'
    <3>1. accepted'[c] = accepted[c] /\ iSendCount'[c] = iSendCount[c]
      BY <1>1, <1>6, <2>1, <2>2, <2>5, PushTold, StreamTypes, LifeTypes
    <3>2. Stays(c)
      BY <1>2, <2>3, <2>4, <2>5, <3>1 DEF Stays
    <3>3. QED
      BY <1>4, <2>5, <3>2, StreamKept
  <2>6. ASSUME NEW c \in Conns, Live(c)', c = m.conn
        PROVE  Turn(c)' /\ InOrder(c, ToGo(c))'
    <3>1. PICK g : g = ToGo(c)
      OBVIOUS
    <3>2. Live(c) /\ InOrder(c, g) /\ Turn(c)' /\ ToGo(c)' = g
      BY <1>4, <2>6, <3>1, TurnKept
    <3>3. IsFor(m, c)
      <4>1. slot[c] = "used"
        BY <1>1, <3>2 DEF Live, Hung
      <4>2. QED
        BY <1>1, <2>1, <2>2, <2>6, <4>1 DEF LivesInv, BuiltOK, Kept, IsFor
    <3>4. /\ ToSet(accepted'[c]) = ToSet(accepted[c]) \cup {m.id}
          /\ Len(accepted'[c]) = Len(accepted[c]) + 1
          /\ iSendCount'[c] = iSendCount[c] + 1
      BY <1>1, <1>6, <2>1, <2>2, <2>6, <3>3, PushTold, LifeTypes
    <3>5. m.id \notin ToSet(accepted[c])
      BY <1>1, <2>1, <2>2 DEF Fresh
    <3>6. Len(accepted'[c]) - iSendCount'[c] = Len(accepted[c]) - iSendCount[c]
      BY <1>1, <3>4, StreamTypes, SMTT(20)
    <3>7. \A i \in 1..Len(MsgSendQueue') : IsFor(MsgSendQueue[i], c)' =>
            /\ MsgSendQueue'[i].id \in ToSet(accepted'[c]) \ ToSet(wire'[c])
            /\ g > 0 => MsgSendQueue'[i].id # psendbuf'[c]
      <4>1. ASSUME NEW i \in 1..n, IsFor(MsgSendQueue[i], c)'
            PROVE  /\ MsgSendQueue'[i].id \in ToSet(accepted'[c]) \ ToSet(wire'[c])
                   /\ g > 0 => MsgSendQueue'[i].id # psendbuf'[c]
        BY <1>2, <2>3, <2>4, <3>2, <3>4, <4>1 DEF InOrder, IsFor
      <4>2. /\ m.id \in ToSet(accepted'[c]) \ ToSet(wire'[c])
            /\ g > 0 => m.id # psendbuf'[c]
        BY <1>2, <3>2, <3>4, <3>5 DEF InOrder
      <4>3. QED
        BY <2>4, <4>1, <4>2
    <3>8. InOrder(c, g)'
      BY <1>2, <3>2, <3>4, <3>6, <3>7 DEF InOrder
    <3>9. QED
      BY <3>2, <3>8 DEF InOrder
  <2>7. QED
    BY <2>5, <2>6 DEF Streams
<1>7. QED
  BY <1>5, <1>6

(* A close is about a connection that is closed by then.                   *)
LEMMA CloseStreams ==
  ASSUME StreamInv, NEW t \in Closers, ZdClosesocketProc(t)
  PROVE  Streams'
<1> USE DEF At, Goto
<1>1. /\ Inv /\ Hung /\ Streams /\ t \in Threads /\ t # Sender /\ arg[t] \in Conns
      /\ pc[t] \in ClosePCs
  BY MemTypes, CloserTypes
  DEF StreamInv, ZdClosesocketProc, CloseFd, DecTest, Dec, InRecyConnectQueue, ClosePCs
<1>2. /\ UNCHANGED <<peer, event, sent, psendbuf, isendlen, MsgSendQueue, iSendCount, accepted, wire>>
      /\ \A u \in Threads : u # t => pc'[u] = pc[u] /\ arg'[u] = arg[u]
      /\ \A c \in Conns : c # arg[t] => /\ fd'[c] = fd[c] /\ events'[c] = events[c]
                                        /\ iThrowsendCount'[c] = iThrowsendCount[c]
                                        /\ iCurrsequence'[c] = iCurrsequence[c]
      /\ arg'[t] \in {arg[t], Null}
  BY <1>1, MemTypes, LifeTypes
  DEF ZdClosesocketProc, CloseFd, DecTest, Dec, InRecyConnectQueue, EnterRecycleList, Leave,
      connVars, queueVars, peerVars, history
<1>3. ~fd'[arg[t]]
  BY <1>1, MemTypes DEF ZdClosesocketProc, CloseFd, DecTest, Dec, InRecyConnectQueue,
     connVars, Hung, Closed
<1>4. ASSUME NEW c \in Conns, Live(c)'
      PROVE  Turn(c)' /\ InOrder(c, ToGo(c))'
  <2>1. c # arg[t] /\ Live(c)
    BY <1>2, <1>3, <1>4 DEF Live
  <2>2. Turn(c) /\ InOrder(c, ToGo(c))
    BY <1>1, <2>1 DEF Streams
  <2>3. /\ pc'[Sender] = pc[Sender] /\ arg'[Sender] = arg[Sender]
        /\ t # Main => pc'[Main] = pc[Main] /\ arg'[Main] = arg[Main]
        /\ t = Main => arg[Main] # c /\ arg'[Main] # c
    BY <1>1, <1>2, <2>1, MemTypes
  <2>4. arg'[Main] = c /\ (pc'[Main] = "out" \/ (pc'[Main] = "read" /\ event'.out)) => events[c]
    BY <1>2, <2>2, <2>3 DEF Turn
  <2>5. Aside(c) /\ Stays(c)
    BY <1>2, <2>1, <2>3, <2>4 DEF Aside, Stays
  <2>6. QED
    BY <2>2, <2>5, StreamKept
<1>5. QED
  BY <1>4 DEF Streams

(* What is left of the queue was in it.                                    *)
LEMMA LeftOver ==
  ASSUME Inv, NEW i \in 1..Len(MsgSendQueue), EraseAt(i)
  PROVE  \A j \in 1..Len(MsgSendQueue') :
           \E k \in 1..Len(MsgSendQueue) : MsgSendQueue'[j] = MsgSendQueue[k]
<1> DEFINE t == RemoveAt(MsgSendQueue, i)
<1>1. /\ Len(MsgSendQueue) \in Nat /\ Len(t) = Len(MsgSendQueue) - 1
      /\ \A j \in 1..Len(MsgSendQueue) - 1 :
           t[j] = IF j < i THEN MsgSendQueue[j] ELSE MsgSendQueue[j + 1]
  BY LifeTypes, RemovedPlaces
<1>2. MsgSendQueue' = t
  BY DEF EraseAt
<1> HIDE DEF t
<1>3. QED
  BY <1>1, <1>2

(* The send thread goes through the queue.                                 *)
LEMMA ScanStreams ==
  ASSUME StreamInv, SemWait \/ SemInterrupted \/ LockQueue \/ EndOfQueue \/ DropExpired
                    \/ KeepFresh \/ SkipUnfinished
  PROVE  Streams'
<1> USE DEF At, Goto
<1>1. Inv /\ Streams
  BY DEF StreamInv
<1>2. /\ UNCHANGED <<fd, peer, event, sent, iThrowsendCount, events, psendbuf, isendlen,
                     iCurrsequence, iSendCount, accepted, wire>>
      /\ pc'[Main] = pc[Main] /\ arg'[Main] = arg[Main]
      /\ \A p \in {"send", "after", "null", "arm"} : pc[Sender] # p /\ pc'[Sender] # p
  BY <1>1, MemTypes
  DEF SemWait, SemInterrupted, LockQueue, EndOfQueue, DropExpired, KeepFresh, SkipUnfinished,
      Leave, connVars, threadVars, peerVars, history
<1>3. \A j \in 1..Len(MsgSendQueue') :
        \E k \in 1..Len(MsgSendQueue) : MsgSendQueue'[j] = MsgSendQueue[k]
  <2>1. CASE DropExpired
    BY <1>1, <2>1, LeftOver, LifeTypes DEF DropExpired
  <2>2. CASE ~DropExpired
    BY <2>2 DEF SemWait, SemInterrupted, LockQueue, EndOfQueue, KeepFresh, SkipUnfinished, queueVars
  <2>3. QED
    BY <2>1, <2>2
<1>4. ASSUME NEW c \in Conns, Live(c)'
      PROVE  Turn(c)' /\ InOrder(c, ToGo(c))'
  <2>1. Turn(c) /\ InOrder(c, ToGo(c))
    BY <1>1, <1>2, <1>4 DEF Live, Streams
  <2>2. arg'[Main] = c /\ (pc'[Main] = "out" \/ (pc'[Main] = "read" /\ event'.out)) => events[c]
    BY <1>2, <2>1 DEF Turn
  <2>3. Aside(c) /\ Stays(c)
    BY <1>2, <1>3, <2>2 DEF Aside, Stays
  <2>4. QED
    BY <2>1, <2>3, StreamKept
<1>5. QED
  BY <1>4 DEF Streams

(* Its packet leaves the queue for the wire: whoever is at work on one     *)
(* connection, the units on the wire and those to go make whole packets.   *)
LEMMA TakeStreams ==
  ASSUME StreamInv, TakePacket, NEW s \in Conns, s = arg[Sender], Live(s)
  PROVE  Turn(s)' /\ InOrder(s, ToGo(s))'
<1> USE DEF At, Goto
<1>1. /\ Inv /\ Hung /\ Fresh /\ LivesInv /\ Turn(s) /\ InOrder(s, ToGo(s))
      /\ MsgLen \in Nat \ {0}
  BY StreamTypes DEF StreamInv, Streams
<1>2. /\ pc[Sender] = "throw" /\ pc'[Sender] = "send" /\ arg' = arg /\ pc'[Main] = pc[Main]
      /\ UNCHANGED <<iThrowsendCount, events, event, accepted, wire, iCurrsequence>>
      /\ ~(iThrowsendCount[s] > 0) /\ EraseAt(pos) /\ pos \in 1..Len(MsgSendQueue)
      /\ isendlen'[s] = MsgLen /\ psendbuf'[s] = MsgSendQueue[pos].id
      /\ iSendCount'[s] = iSendCount[s] - 1
  BY <1>1, MemTypes, LifeTypes DEF TakePacket, Unfinished, CountTaken, Inv, SenderOK, history
<1>3. /\ ~events[s] /\ ~Writes(s) /\ iThrowsendCount[s] = 0 /\ ToGo(s) = 0
      /\ ~(arg[Main] = s /\ (pc[Main] = "out" \/ (pc[Main] = "read" /\ event.out)))
  <2>1. ~events[s] /\ ~Writes(s) /\ iThrowsendCount[s] = 0
    BY <1>1, <1>2 DEF Turn
  <2>2. QED
    BY <1>1, <1>2, <2>1 DEF Turn, ToGo
<1>4. Turn(s)' /\ ToGo(s)' = MsgLen
  <2>1. MsgLen \in 1..MsgLen
    BY <1>1
  <2>2. ~Writes(s)'
    BY <1>2, <1>3 DEF Writes
  <2>3. QED
    BY <1>2, <1>3, <2>1, <2>2 DEF Turn, ToGo
<1>5. PICK m \in Packet : m = MsgSendQueue[pos]
  BY <1>1, <1>2, LifeTypes
<1>6. IsFor(m, s)
  <2>1. slot[s] = "used"
    BY <1>1 DEF Live, Hung
  <2>2. QED
    BY <1>1, <1>2, <1>5, <2>1 DEF LivesInv, ThrownOK, Kept, IsFor
<1>7. InOrder(s, 0)
  BY <1>1, <1>3 DEF InOrder
<1>8. m.id \in ToSet(accepted[s]) \ ToSet(wire[s])
  BY <1>2, <1>5, <1>6, <1>7 DEF InOrder
<1>9. Len(wire'[s]) + MsgLen = MsgLen * (Len(accepted'[s]) - iSendCount'[s])
  <2>0. Len(accepted[s]) \in Nat /\ iSendCount[s] \in Int
    BY <1>1, StreamTypes
  <2>1. PICK a \in Int : a = Len(accepted[s]) - iSendCount[s]
    BY <2>0
  <2>2. Len(accepted'[s]) - iSendCount'[s] = a + 1
    BY <1>2, <2>0, <2>1, SMTT(20)
  <2>3. Len(wire[s]) = MsgLen * a
    BY <1>1, <1>7, <2>1, StreamTypes DEF InOrder
  <2>4. MsgLen * (a + 1) = MsgLen * a + MsgLen
    BY <1>1
  <2>5. QED
    BY <1>2, <2>2, <2>3, <2>4
<1>10. \A j \in 1..Len(MsgSendQueue') : IsFor(MsgSendQueue[j], s)' =>
         /\ MsgSendQueue'[j].id \in ToSet(accepted'[s]) \ ToSet(wire'[s])
         /\ MsgSendQueue'[j].id # psendbuf'[s]
  <2>1. SUFFICES ASSUME NEW j \in 1..Len(MsgSendQueue'), IsFor(MsgSendQueue[j], s)'
                 PROVE  /\ MsgSendQueue'[j].id \in ToSet(accepted'[s]) \ ToSet(wire'[s])
                        /\ MsgSendQueue'[j].id # psendbuf'[s]
    OBVIOUS
  <2>2. PICK k \in 1..Len(MsgSendQueue) : MsgSendQueue'[j] = MsgSendQueue[k]
    BY <1>1, <1>2, LeftOver
  <2>3. IsFor(MsgSendQueue[k], s)
    BY <1>2, <2>1, <2>2 DEF IsFor
  <2>4. ~(Queued(m.id)')
    BY <1>1, <1>2, <1>5, Erased DEF Fresh
  <2>5. MsgSendQueue'[j].id # m.id
    BY <2>4 DEF Queued
  <2>6. QED
    BY <1>2, <1>5, <1>7, <2>2, <2>3, <2>5 DEF InOrder
<1>11. InOrder(s, MsgLen)'
  <2>1. /\ psendbuf'[s] = m.id /\ accepted' = accepted /\ wire' = wire
        /\ MsgLen > 0 /\ ~(MsgLen < MsgLen) /\ ToSet(wire[s]) \subseteq ToSet(accepted[s])
    BY <1>1, <1>2, <1>5, <1>7 DEF InOrder
  <2>2. QED
    BY <1>8, <1>9, <1>10, <2>1 DEF InOrder
<1>12. QED
  BY <1>4, <1>11 DEF InOrder

(* send() takes some of it, or all.                                        *)
LEMMA SentStreams ==
  ASSUME StreamInv, NEW s \in Conns, s = arg[Sender], Live(s), SendProc
  PROVE  Turn(s)' /\ InOrder(s, ToGo(s))'
<1> USE DEF At, Goto
<1>1. /\ Inv /\ Turn(s) /\ InOrder(s, ToGo(s)) /\ MsgLen \in Nat \ {0}
  BY StreamTypes DEF StreamInv, Streams
<1>2. /\ pc[Sender] = "send" /\ pc'[Sender] = "after" /\ arg' = arg /\ pc'[Main] = pc[Main]
      /\ UNCHANGED <<MsgSendQueue, iThrowsendCount, events, event, isendlen, psendbuf, accepted,
                     iCurrsequence, iSendCount>>
  BY <1>1, MemTypes DEF SendProc, connVars, queueVars
<1>3. PICK r \in SendResults(s) : sent' = r /\ Put(s, r)
  BY DEF SendProc
<1>4. PICK g \in 1..MsgLen : g = isendlen[s]
  BY <1>1, <1>2 DEF Turn
<1>5. r \in Int /\ r =< g /\ r # -2 /\ ToGo(s) = g
  <2>1. r \in {g} \cup {-1} \cup 1..(g - 1)
    BY <1>4 DEF SendResults, Live
  <2>2. QED
    BY <1>2, <1>4, <2>1 DEF ToGo
<1>6. ~events[s] /\ ~Writes(s) /\ iThrowsendCount[s] = 0
      /\ ~(arg[Main] = s /\ (pc[Main] = "out" \/ (pc[Main] = "read" /\ event.out)))
  <2>1. Sends(s)
    BY <1>2 DEF Sends
  <2>2. ~events[s] /\ ~Writes(s)
    BY <1>1, <2>1 DEF Turn
  <2>3. QED
    BY <1>1, <1>2, <2>2 DEF Turn
<1>7. PICK h \in Int : h = IF r > 0 THEN g - r ELSE g
  <2>1. g - r \in Int /\ g \in Int
    BY <1>5
  <2>2. QED
    BY <2>1
<1>8. InOrder(s, h)'
  <2>1. InOrder(s, g)
    BY <1>1, <1>5 DEF InOrder
  <2>2. QED
    BY <1>1, <1>2, <1>3, <1>5, <1>7, <2>1, Sent
<1>9. Turn(s)' /\ ToGo(s)' = h
  BY <1>2, <1>3, <1>4, <1>5, <1>6, <1>7 DEF Turn, ToGo, Writes
<1>10. QED
  BY <1>8, <1>9 DEF InOrder

(* What is left goes to the write handler, with iThrowsendCount at 1.      *)
LEMMA AfterStreams ==
  ASSUME StreamInv, NEW s \in Conns, s = arg[Sender], Live(s),
         SentAll \/ ClearSent \/ SentPart \/ ArmWrite
  PROVE  Turn(s)' /\ InOrder(s, ToGo(s))'
<1> USE DEF At, Goto
<1>1. /\ Inv /\ Turn(s) /\ InOrder(s, ToGo(s))
  BY DEF StreamInv, Streams
<1>2. /\ pc[Sender] \in {"after", "null", "arm"} /\ pc'[Main] = pc[Main] /\ arg'[Main] = arg[Main]
      /\ UNCHANGED <<MsgSendQueue, event, psendbuf, accepted, wire, iCurrsequence, iSendCount>>
  BY <1>1, MemTypes
  DEF SentAll, ClearSent, SentPart, ArmWrite, Leave, connVars, queueVars, history
<1>3. /\ ~events[s] /\ ~Writes(s) /\ ~Writes(s)'
      /\ ~(arg[Main] = s /\ (pc[Main] = "out" \/ (pc[Main] = "read" /\ event.out)))
  <2>1. Sends(s)
    BY <1>2 DEF Sends
  <2>2. ~events[s] /\ ~Writes(s)
    BY <1>1, <2>1 DEF Turn
  <2>3. QED
    BY <1>1, <1>2, <2>2 DEF Turn, Writes
<1>4. Turn(s)' /\ ToGo(s)' = ToGo(s)
  <2>1. CASE SentAll
    <3>1. /\ pc[Sender] = "after" /\ pc'[Sender] = "null" /\ arg'[Sender] = s
          /\ sent \in {isendlen[s], -2}
          /\ UNCHANGED <<iThrowsendCount, isendlen, events>>
      BY <1>1, <2>1, MemTypes DEF SentAll, connVars
    <3>2. sent = isendlen[s] /\ isendlen[s] > 0 /\ isendlen[s] - sent = 0
      BY <1>1, <3>1 DEF Turn
    <3>3. ToGo(s) = 0
      BY <1>3, <3>1, <3>2 DEF ToGo
    <3>4. ToGo(s)' = 0
      BY <1>3, <3>1 DEF ToGo
    <3>5. QED
      BY <1>1, <1>2, <1>3, <3>1, <3>3, <3>4 DEF Turn
  <2>2. CASE ClearSent
    <3>1. /\ pc[Sender] = "null" /\ pc'[Sender] = "scan" /\ arg'[Sender] = Null /\ events' = events
          /\ iThrowsendCount'[s] = 0
      BY <1>1, <2>2, MemTypes DEF ClearSent, Leave
    <3>2. QED
      BY <1>2, <1>3, <3>1, MemTypes DEF Turn, ToGo
  <2>3. CASE SentPart
    <3>1. /\ pc[Sender] = "after" /\ pc'[Sender] = "arm" /\ arg'[Sender] = s
          /\ events' = events
          /\ iThrowsendCount'[s] = iThrowsendCount[s] + 1
          /\ isendlen'[s] = IF sent > 0 THEN isendlen[s] - sent ELSE isendlen[s]
          /\ sent # isendlen[s]
      BY <1>1, <2>3, MemTypes DEF SentPart
    <3>2. isendlen[s] \in 1..MsgLen /\ sent =< isendlen[s] /\ iThrowsendCount[s] = 0
      BY <1>1, <1>3, <3>1 DEF Turn
    <3>3. isendlen'[s] \in 1..MsgLen
      BY <1>1, <3>1, <3>2, MemTypes, StreamTypes
    <3>4. ToGo(s) = isendlen'[s] /\ ToGo(s)' = isendlen'[s]
      BY <1>3, <3>1 DEF ToGo
    <3>5. QED
      BY <1>2, <1>3, <3>1, <3>2, <3>3, <3>4 DEF Turn
  <2>4. CASE ArmWrite
    <3>1. /\ pc[Sender] = "arm" /\ pc'[Sender] = "scan" /\ arg'[Sender] = Null
          /\ UNCHANGED <<iThrowsendCount, isendlen>> /\ events'[s]
      BY <1>1, <2>4, MemTypes DEF ArmWrite, Leave, Live
    <3>2. QED
      BY <1>1, <1>2, <1>3, <3>1, MemTypes DEF Turn, ToGo, Sends
  <2>5. QED
    BY <2>1, <2>2, <2>3, <2>4
<1>5. PICK g : g = ToGo(s)
  OBVIOUS
<1>6. InOrder(s, g)
  BY <1>1, <1>5 DEF InOrder
<1>7. InOrder(s, g)'
  BY <1>2, <1>6 DEF InOrder, IsFor
<1>8. QED
  BY <1>4, <1>5, <1>7 DEF InOrder

(* It does not touch the other connections.                                *)
LEMMA SendStreams ==
  ASSUME StreamInv, TakePacket \/ SendProc \/ SentAll \/ ClearSent \/ SentPart \/ ArmWrite
  PROVE  Streams'
<1> USE DEF At, Goto
<1>0. PICK s \in Conns : s = arg[Sender]
  BY MemTypes DEF StreamInv, TakePacket, SendProc, SentAll, ClearSent, SentPart, ArmWrite, Busy
<1>1. Inv /\ Streams
  BY DEF StreamInv
<1>2. /\ UNCHANGED <<fd, peer, event, accepted, iCurrsequence>> /\ arg'[Sender] \in {s, Null}
      /\ pc'[Main] = pc[Main] /\ arg'[Main] = arg[Main]
  <2>1. CASE TakePacket
    BY <1>0, <1>1, <2>1, MemTypes DEF TakePacket, peerVars, history
  <2>2. CASE ~TakePacket
    BY <1>0, <1>1, <2>2, MemTypes DEF SendProc, SentAll, ClearSent, SentPart, ArmWrite, Leave,
       connVars, peerVars, history
  <2>3. QED
    BY <2>1, <2>2
<1>3. \A c \in Conns : c # s =>
        /\ iThrowsendCount'[c] = iThrowsendCount[c] /\ events'[c] = events[c]
        /\ isendlen'[c] = isendlen[c] /\ psendbuf'[c] = psendbuf[c]
        /\ iSendCount'[c] = iSendCount[c]
  <2>1. CASE TakePacket
    BY <1>0, <1>1, <2>1, MemTypes, LifeTypes DEF TakePacket, CountTaken
  <2>2. CASE SendProc \/ SentAll \/ ArmWrite
    BY <1>0, <1>1, <2>2, MemTypes DEF SendProc, SentAll, ArmWrite, connVars
  <2>3. CASE ClearSent
    BY <1>0, <1>1, <2>3, MemTypes DEF ClearSent
  <2>4. CASE SentPart
    BY <1>0, <1>1, <2>4, MemTypes DEF SentPart
  <2>5. QED
    BY <2>1, <2>2, <2>3, <2>4
<1>4. \A c \in Conns : c # s => wire'[c] = wire[c]
  <2>1. CASE SendProc
    <3>1. PICK r \in SendResults(s) : Put(s, r)
      BY <1>0, <2>1 DEF SendProc
    <3>2. r \in Int
      BY <1>1, SendResultsInt DEF Inv
    <3>3. QED
      BY <1>1, <3>1, <3>2, UnitsPut
  <2>2. CASE ~SendProc
    BY <2>2 DEF TakePacket, SentAll, ClearSent, SentPart, ArmWrite, history
  <2>3. QED
    BY <2>1, <2>2
<1>5. \A j \in 1..Len(MsgSendQueue') :
        \E k \in 1..Len(MsgSendQueue) : MsgSendQueue'[j] = MsgSendQueue[k]
  <2>1. CASE TakePacket
    BY <1>1, <2>1, LeftOver, LifeTypes DEF TakePacket, Inv, SenderOK
  <2>2. CASE ~TakePacket
    BY <2>2 DEF SendProc, SentAll, ClearSent, SentPart, ArmWrite, queueVars
  <2>3. QED
    BY <2>1, <2>2
<1>6. ASSUME NEW c \in Conns, c # s, Live(c)'
      PROVE  Turn(c)' /\ InOrder(c, ToGo(c))'
  <2>1. /\ Turn(c) /\ InOrder(c, ToGo(c)) /\ arg[Sender] # c /\ arg'[Sender] # c
    BY <1>0, <1>1, <1>2, <1>6, MemTypes DEF Live, Streams
  <2>2. arg'[Main] = c /\ (pc'[Main] = "out" \/ (pc'[Main] = "read" /\ event'.out)) => events[c]
    BY <1>2, <2>1 DEF Turn
  <2>3. Aside(c) /\ Stays(c)
    BY <1>2, <1>3, <1>4, <1>5, <1>6, <2>1, <2>2 DEF Aside, Stays
  <2>4. QED
    BY <2>1, <2>3, StreamKept
<1>7. Live(s)' => Turn(s)' /\ InOrder(s, ToGo(s))'
  <2>1. Live(s)' => Live(s)
    BY <1>2 DEF Live
  <2>2. QED
    BY <1>0, <2>1, TakeStreams, SentStreams, AfterStreams
<1>8. QED
  BY <1>6, <1>7 DEF Streams

(* The write handler goes on with the packet that EPOLLOUT was armed for.  *)
LEMMA HandlerStreams ==
  ASSUME StreamInv, NEW d \in Conns, d = arg[Main], Live(d), WriteHandler
  PROVE  Turn(d)' /\ InOrder(d, ToGo(d))'
<1> USE DEF At, Goto
<1>1. /\ Inv /\ Turn(d) /\ InOrder(d, ToGo(d)) /\ MsgLen \in Nat \ {0}
  BY StreamTypes DEF StreamInv, Streams
<1>2. /\ pc[Main] = "out" /\ pc'[Sender] = pc[Sender] /\ arg'[Sender] = arg[Sender]
      /\ UNCHANGED <<MsgSendQueue, iThrowsendCount, event, sent, psendbuf, accepted,
                     iCurrsequence, iSendCount>>
  BY <1>1, MemTypes DEF WriteHandler, Leave, queueVars
<1>3. /\ events[d] /\ ~Writes(d) /\ ~Sends(d) /\ iThrowsendCount[d] = 1
  BY <1>1, <1>2 DEF Turn
<1>4. PICK g \in 1..MsgLen : g = isendlen[d]
  BY <1>1, <1>3 DEF Turn
<1>5. PICK r \in SendResults(d) :
        /\ Put(d, r)
        /\ \/ /\ r \in {isendlen[d], -2} /\ Disarm(d, r) /\ pc' = [pc EXCEPT ![Main] = "wpost"]
              /\ UNCHANGED <<isendlen, arg>>
           \/ /\ r \notin {isendlen[d], -2} /\ UNCHANGED events
              /\ isendlen' = [isendlen EXCEPT ![d] = IF r > 0 THEN @ - r ELSE @]
              /\ pc' = [pc EXCEPT ![Main] = "idle"] /\ arg' = [arg EXCEPT ![Main] = Null]
  BY DEF WriteHandler, Leave
<1>6. r \in Int /\ r =< g /\ r # -2 /\ ToGo(d) = g
  <2>1. r \in {g} \cup {-1} \cup 1..(g - 1)
    BY <1>4 DEF SendResults, Live
  <2>2. QED
    BY <1>3, <1>4, <2>1 DEF ToGo
<1>7. PICK h \in Int : h = IF r > 0 THEN g - r ELSE g
  <2>1. g - r \in Int /\ g \in Int
    BY <1>6
  <2>2. QED
    BY <2>1
<1>8. InOrder(d, h)'
  <2>1. InOrder(d, g)
    BY <1>1, <1>6 DEF InOrder
  <2>2. QED
    BY <1>1, <1>2, <1>5, <1>6, <1>7, <2>1, Sent
<1>9. Turn(d)' /\ ToGo(d)' = h
  <2>0. ~Sends(d)'
    BY <1>2, <1>3 DEF Sends
  <2>1. CASE r = g
    <3>1. /\ ~events'[d] /\ pc'[Main] = "wpost" /\ arg'[Main] = d
          /\ isendlen'[d] = isendlen[d] /\ h = 0
      BY <1>1, <1>4, <1>5, <1>6, <1>7, <2>1, MemTypes DEF Disarm
    <3>2. Writes(d)'
      BY <3>1 DEF Writes
    <3>3. ~(arg'[Sender] = d /\ pc'[Sender] \in {"send", "after", "null", "arm"})
      BY <2>0 DEF Sends
    <3>4. Turn(d)'
      BY <1>2, <1>3, <2>0, <3>1, <3>2, <3>3 DEF Turn
    <3>5. QED
      BY <3>1, <3>3, <3>4 DEF ToGo
  <2>2. CASE r # g
    <3>1. /\ events'[d] /\ pc'[Main] = "idle" /\ arg'[Main] = Null
          /\ isendlen'[d] = h
      BY <1>1, <1>3, <1>4, <1>5, <1>6, <1>7, <2>2, MemTypes
    <3>2. h \in 1..MsgLen
      BY <1>1, <1>6, <1>7, <2>2
    <3>3. ~Writes(d)'
      BY <3>1 DEF Writes
    <3>4. ~(arg'[Sender] = d /\ pc'[Sender] \in {"send", "after", "null", "arm"})
      BY <2>0 DEF Sends
    <3>5. Turn(d)'
      BY <1>2, <1>3, <2>0, <3>1, <3>2, <3>3, <3>4 DEF Turn
    <3>6. QED
      BY <3>1, <3>4, <3>5 DEF ToGo
  <2>3. QED
    BY <2>1, <2>2
<1>10. QED
  BY <1>8, <1>9 DEF InOrder

(* The epoll thread, which only writes where EPOLLOUT was armed.           *)
LEMMA MainStreams ==
  ASSUME StreamInv, MainThread
  PROVE  Streams'
<1> USE DEF At, Goto
<1>1. Inv /\ Hung /\ Streams
  BY DEF StreamInv
<1>2. /\ UNCHANGED <<fd, peer, sent, psendbuf, MsgSendQueue, accepted, iCurrsequence, iSendCount>>
      /\ pc'[Sender] = pc[Sender] /\ arg'[Sender] = arg[Sender]
  BY <1>1, MemTypes
  DEF MainThread, EpollWait, ReadData, ReadClose, HangUp, NextBranch, WriteHandler, WritePost,
      WriteFree, WriteNull, WriteDec, Leave, connVars, queueVars, peerVars, history
<1>3. ASSUME NEW c \in Conns, Live(c)'
      PROVE  Live(c) /\ Turn(c) /\ InOrder(c, ToGo(c))
  BY <1>1, <1>2, <1>3 DEF Live, Streams
<1>4. ASSUME NEW d \in Conns, EpollWait(d)
      PROVE  Streams'
  <2>1. UNCHANGED <<iThrowsendCount, events, isendlen, wire>>
    BY <1>4 DEF EpollWait, connVars, history
  <2>2. PICK in \in BOOLEAN, out \in BOOLEAN :
          /\ in \/ out
          /\ out => events[d]
          /\ event' = [in |-> in, out |-> out, hup |-> peer[d] # "up"]
          /\ pc' = [pc EXCEPT ![Main] = IF in THEN "read" ELSE "out"]
    BY <1>4 DEF EpollWait
  <2>3. /\ pc[Main] = "idle" /\ pc'[Main] = (IF in THEN "read" ELSE "out")
        /\ arg'[Main] = d /\ event'.out = out
    BY <1>1, <1>4, <2>2, MemTypes DEF EpollWait
  <2>4. pc'[Main] \in {"read", "out"} /\ (pc'[Main] = "out" => out)
    BY <2>2, <2>3
  <2>5. ASSUME NEW c \in Conns, Live(c)'
        PROVE  Turn(c)' /\ InOrder(c, ToGo(c))'
    <3>1. arg'[Main] = c /\ (pc'[Main] = "out" \/ (pc'[Main] = "read" /\ event'.out)) => events[c]
      BY <2>2, <2>3, <2>4
    <3>2. Aside(c)
      BY <1>2, <2>1, <2>3, <2>4, <3>1 DEF Aside
    <3>3. Stays(c)
      BY <1>2, <2>1 DEF Stays
    <3>4. QED
      BY <1>3, <2>5, <3>2, <3>3, StreamKept
  <2>6. QED
    BY <2>5 DEF Streams
<1>5. ASSUME ~ \E c \in Conns : EpollWait(c)
      PROVE  Streams'
  <2>0. PICK d \in Conns : d = arg[Main]
    BY <1>1, <1>5, MemTypes
    DEF MainThread, ReadData, ReadClose, HangUp, WriteHandler, WritePost, WriteFree, WriteNull,
        WriteDec
  <2>1. /\ event' = event /\ arg'[Main] \in {d, Null}
    BY <1>1, <1>5, <2>0, MemTypes
    DEF MainThread, ReadData, ReadClose, HangUp, NextBranch, WriteHandler, WritePost, WriteFree,
        WriteNull, WriteDec, Leave
  <2>2. \A c \in Conns : c # d =>
          /\ iThrowsendCount'[c] = iThrowsendCount[c] /\ events'[c] = events[c]
          /\ isendlen'[c] = isendlen[c]
    <3>1. CASE ReadData \/ ReadClose \/ WritePost \/ WriteFree \/ WriteNull
      BY <3>1 DEF ReadData, ReadClose, WritePost, WriteFree, WriteNull, connVars
    <3>2. CASE WriteHandler
      BY <1>1, <2>0, <3>2, MemTypes DEF WriteHandler, Disarm
    <3>3. CASE HangUp \/ WriteDec
      BY <1>1, <2>0, <3>3, MemTypes DEF HangUp, WriteDec, WriteDone
    <3>4. QED
      BY <1>5, <3>1, <3>2, <3>3 DEF MainThread
  <2>3. \A c \in Conns : c # d => wire'[c] = wire[c]
    <3>1. CASE WriteHandler
      <4>1. PICK r \in SendResults(d) : Put(d, r)
        BY <2>0, <3>1 DEF WriteHandler
      <4>2. r \in Int
        BY <1>1, SendResultsInt DEF Inv
      <4>3. QED
        BY <1>1, <4>1, <4>2, UnitsPut
    <3>2. CASE ~WriteHandler
      BY <1>5, <3>2 DEF MainThread, ReadData, ReadClose, HangUp, WritePost, WriteFree, WriteNull,
         WriteDec, history
    <3>3. QED
      BY <3>1, <3>2
  <2>4. ASSUME NEW c \in Conns, c # d, Live(c)'
        PROVE  Turn(c)' /\ InOrder(c, ToGo(c))'
    <3>1. arg[Main] # c /\ arg'[Main] # c
      BY <1>1, <2>0, <2>1, <2>4, MemTypes
    <3>2. Aside(c) /\ Stays(c)
      BY <1>2, <2>1, <2>2, <2>3, <2>4, <3>1 DEF Aside, Stays
    <3>3. QED
      BY <1>3, <2>4, <3>2, StreamKept
  <2>5. ASSUME Live(d)'
        PROVE  Turn(d)' /\ InOrder(d, ToGo(d))'
    <3>1. Live(d) /\ Turn(d) /\ InOrder(d, ToGo(d))
      BY <1>3, <2>5
    <3>2. ~HangUp
      BY <1>1, <2>0, <3>1 DEF HangUp, Hung, Live
    <3>3. CASE ReadData \/ ReadClose
      <4>1. /\ UNCHANGED <<iThrowsendCount, events, isendlen, wire>>
            /\ pc[Main] = "read" /\ pc'[Main] \in {"out", "idle", "closefd"}
            /\ pc'[Main] = "out" => event.out
        BY <1>1, <3>3, MemTypes DEF ReadData, ReadClose, NextBranch, Leave, connVars, history
      <4>2. pc'[Main] = "out" => events[d]
        BY <2>0, <3>1, <4>1 DEF Turn
      <4>3. Aside(d) /\ Stays(d)
        BY <1>2, <2>1, <4>1, <4>2 DEF Aside, Stays
      <4>4. QED
        BY <3>1, <4>3, StreamKept
    <3>4. CASE WritePost \/ WriteFree \/ WriteNull \/ WriteDec
      <4>1. /\ UNCHANGED <<events, isendlen, wire>>
            /\ Writes(d) /\ ~events[d] /\ ~Sends(d) /\ iThrowsendCount[d] = 1
        BY <2>0, <3>1, <3>4
        DEF WritePost, WriteFree, WriteNull, WriteDec, Writes, Turn, connVars, history
      <4>2. ~(arg[Sender] = d /\ pc[Sender] \in {"send", "after", "null", "arm"})
        BY <4>1 DEF Sends
      <4>3. ~Sends(d)'
        BY <1>2, <4>2 DEF Sends
      <4>4. Turn(d)'
        <5>1. CASE ~WriteDec
          <6>1. /\ iThrowsendCount' = iThrowsendCount /\ arg'[Main] = d
                /\ pc'[Main] \in {"wfree", "wnull", "wdec"}
            BY <1>1, <2>0, <3>4, <5>1, MemTypes DEF WritePost, WriteFree, WriteNull, connVars
          <6>2. Writes(d)'
            BY <6>1 DEF Writes
          <6>3. QED
            BY <1>2, <3>1, <4>1, <4>2, <4>3, <6>1, <6>2 DEF Turn
        <5>2. CASE WriteDec
          <6>1. /\ pc'[Main] = "idle" /\ arg'[Main] = Null /\ iThrowsendCount'[d] = 0
            BY <1>1, <2>0, <4>1, <5>2, MemTypes DEF WriteDec, WriteDone, Leave
          <6>2. ~Writes(d)'
            BY <6>1 DEF Writes
          <6>3. QED
            BY <1>2, <3>1, <4>1, <4>2, <4>3, <6>1, <6>2 DEF Turn
        <5>3. QED
          BY <5>1, <5>2
      <4>5. ToGo(d) = 0 /\ ToGo(d)' = 0
        BY <1>2, <4>1, <4>2 DEF ToGo
      <4>6. InOrder(d, 0)
        BY <3>1, <4>5 DEF InOrder
      <4>7. InOrder(d, 0)'
        BY <1>2, <4>1, <4>6 DEF InOrder, IsFor
      <4>8. QED
        BY <4>4, <4>5, <4>7 DEF InOrder
    <3>5. QED
      BY <1>5, <2>0, <3>1, <3>2, <3>3, <3>4, HandlerStreams DEF MainThread
  <2>6. QED
    BY <2>4, <2>5 DEF Streams
<1>6. QED
  BY <1>4, <1>5

(* A connection that is closed, released or given to the next client.      *)
LEMMA LifeStreams ==
  ASSUME StreamInv, NEW c \in Conns, PeerClose(c) \/ PeerReset(c) \/ Release(c) \/ Reuse(c)
  PROVE  Streams'
<1>1. Inv /\ Hung /\ LivesInv /\ Streams /\ MsgLen \in Nat
  BY StreamTypes DEF StreamInv
<1>2. UNCHANGED <<MsgSendQueue, pc, arg, event, sent, psendbuf, isendlen>>
  BY DEF PeerClose, PeerReset, Release, Reuse, connVars, threadVars, queueVars
<1>3. ASSUME NEW d \in Conns, Live(d), Live(d)',
             /\ iThrowsendCount'[d] = iThrowsendCount[d] /\ events'[d] = events[d]
             /\ wire'[d] = wire[d] /\ accepted'[d] = accepted[d]
             /\ iSendCount'[d] = iSendCount[d] /\ iCurrsequence'[d] = iCurrsequence[d]
      PROVE  Turn(d)' /\ InOrder(d, ToGo(d))'
  <2>1. Turn(d) /\ InOrder(d, ToGo(d))
    BY <1>1, <1>3 DEF Streams
  <2>2. arg'[Main] = d /\ (pc'[Main] = "out" \/ (pc'[Main] = "read" /\ event'.out)) => events[d]
    BY <1>2, <2>1 DEF Turn
  <2>3. Aside(d) /\ Stays(d)
    BY <1>2, <1>3, <2>2 DEF Aside, Stays
  <2>4. QED
    BY <2>1, <2>3, StreamKept
<1>4. CASE PeerClose(c) \/ PeerReset(c)
  <2>1. UNCHANGED <<fd, iThrowsendCount, events, wire, accepted, iSendCount, iCurrsequence>>
    BY <1>4 DEF PeerClose, PeerReset, connVars, history
  <2>2. \A d \in Conns : Live(d)' => Live(d)
    BY <1>1, <1>4, <2>1, MemTypes DEF PeerClose, PeerReset, Live
  <2>3. QED
    BY <1>3, <2>1, <2>2 DEF Streams
<1>5. CASE Release(c) \/ Reuse(c)
  <2>1. ASSUME NEW d \in Conns, d # c, Live(d)'
        PROVE  Turn(d)' /\ InOrder(d, ToGo(d))'
    <3>1. CASE Release(c)
      <4>1. /\ iThrowsendCount'[d] = iThrowsendCount[d] /\ events'[d] = events[d]
            /\ wire'[d] = wire[d] /\ accepted'[d] = accepted[d]
            /\ iSendCount'[d] = iSendCount[d] /\ iCurrsequence'[d] = iCurrsequence[d]
            /\ fd'[d] = fd[d] /\ peer'[d] = peer[d]
        BY <1>1, <2>1, <3>1, MemTypes, LifeTypes DEF Release, peerVars, history
      <4>2. QED
        BY <1>3, <2>1, <4>1 DEF Live
    <3>2. CASE Reuse(c)
      <4>1. /\ iThrowsendCount'[d] = iThrowsendCount[d] /\ events'[d] = events[d]
            /\ wire'[d] = wire[d] /\ accepted'[d] = accepted[d]
            /\ iSendCount'[d] = iSendCount[d] /\ iCurrsequence'[d] = iCurrsequence[d]
            /\ fd'[d] = fd[d] /\ peer'[d] = peer[d]
        BY <1>1, <2>1, <3>2, MemTypes, LifeTypes, StreamTypes DEF Reuse, NewSequence
      <4>2. QED
        BY <1>3, <2>1, <4>1 DEF Live
    <3>3. QED
      BY <1>5, <3>1, <3>2
  <2>2. ASSUME Live(c)'
        PROVE  Turn(c)' /\ InOrder(c, ToGo(c))'
    <3>1. Reuse(c)
      BY <1>1, <1>5, <2>2 DEF Release, Hung, Live
    <3>2. Quiet(c)
      BY <1>1, <3>1 DEF Reuse, Hung
    <3>3. arg'[Main] # c /\ arg'[Sender] # c
      BY <1>1, <1>2, <3>2, MemTypes DEF Quiet
    <3>4. /\ iThrowsendCount'[c] = 0 /\ ~events'[c] /\ iSendCount'[c] = 0
          /\ accepted'[c] = << >> /\ wire'[c] = << >>
      BY <1>1, <3>1, MemTypes, LifeTypes, StreamTypes DEF Reuse
    <3>5. Turn(c)' /\ ToGo(c)' = 0
      BY <3>3, <3>4 DEF Turn, ToGo, Sends, Writes
    <3>6. \A i \in 1..Len(MsgSendQueue) : ~(IsFor(MsgSendQueue[i], c)')
      <4>1. slot' = [slot EXCEPT ![c] = "used"] /\ iCurrsequence' = [iCurrsequence EXCEPT ![c] = @ + 1]
        BY <3>1 DEF Reuse, NewSequence
      <4>2. QED
        BY <1>1, <1>2, <4>1, LifeEnds, LifeTypes DEF LivesInv, QueuedOK, IsFor
    <3>7. \A i \in 1..Len(MsgSendQueue') : ~(IsFor(MsgSendQueue[i], c)')
      BY <1>2, <3>6
    <3>8. Len(wire'[c]) + 0 = MsgLen * (Len(accepted'[c]) - iSendCount'[c])
      BY <1>1, <3>4
    <3>9. ToSet(wire'[c]) \subseteq ToSet(accepted'[c])
      BY <3>4 DEF ToSet
    <3>10. InOrder(c, 0)'
      BY <3>7, <3>8, <3>9 DEF InOrder
    <3>11. QED
      BY <3>5, <3>10 DEF InOrder
  <2>3. QED
    BY <2>1, <2>2 DEF Streams
<1>6. QED
  BY <1>4, <1>5

(* A kick of the timer thread puts nothing on the wire.                    *)
LEMMA KickStreams ==
  ASSUME StreamInv, NEW k \in Conns, ProcPingTimeOutChecking(k)
  PROVE  Streams'
<1>1. Inv
  BY DEF StreamInv
<1>2. /\ UNCHANGED <<fd, peer, iThrowsendCount, events, isendlen, psendbuf, sent, event>>
      /\ UNCHANGED <<wire, accepted, iSendCount, iCurrsequence, MsgSendQueue>>
      /\ pc'[Sender] = pc[Sender] /\ arg'[Sender] = arg[Sender]
      /\ pc'[Main] = pc[Main] /\ arg'[Main] = arg[Main]
  BY <1>1, KickCalm DEF queueVars, connVars, peerVars, history
<1>3. ASSUME NEW c \in Conns, Live(c)'
      PROVE  Turn(c)' /\ InOrder(c, ToGo(c))'
  <2>1. Turn(c) /\ InOrder(c, ToGo(c))
    BY <1>2, <1>3 DEF StreamInv, Streams, Live
  <2>2. Aside(c) /\ Stays(c)
    BY <1>2, <2>1 DEF Aside, Stays, Turn
  <2>3. QED
    BY <2>1, <2>2, StreamKept
<1>4. QED
  BY <1>3 DEF Streams

(* All of them.                                                            *)
LEMMA StreamInvStep ==
  ASSUME StreamInv, [Next]_vars
  PROVE  StreamInv'
<1>1. Inv' /\ MutexInv' /\ LivesInv' /\ SendCountExact' /\ Hung' /\ Fresh' /\ Prompt'
  BY InvStep, MutexStep, LivesStep, CountStep, HungStep, FreshStep DEF StreamInv, Prompt
<1>2. Streams'
  <2>1. CASE UNCHANGED vars
    <3>1. /\ UNCHANGED <<fd, peer, iThrowsendCount, events, isendlen, psendbuf, sent, pc, arg, event>>
          /\ UNCHANGED <<wire, accepted, iSendCount, iCurrsequence, MsgSendQueue>>
      BY <2>1 DEF vars, queueVars, connVars, threadVars, peerVars, history
    <3>2. ASSUME NEW c \in Conns, Live(c)'
          PROVE  Turn(c)' /\ InOrder(c, ToGo(c))'
      <4>1. Turn(c) /\ InOrder(c, ToGo(c))
        BY <3>1, <3>2 DEF StreamInv, Streams, Live
      <4>2. Aside(c) /\ Stays(c)
        BY <3>1, <4>1 DEF Aside, Stays, Turn
      <4>3. QED
        BY <4>1, <4>2, StreamKept
    <3>3. QED
      BY <3>2 DEF Streams
  <2>2. CASE Next
    BY <2>2, MsgSendStreams, CloseStreams, ScanStreams, SendStreams, MainStreams, LifeStreams,
       KickStreams
    DEF Next, ServerSendQueueThread
  <2>3. QED
    BY <2>1, <2>2
<1>3. QED
  BY <1>1, <1>2 DEF StreamInv

(* They hold at the start.                                                 *)
LEMMA StreamStarts ==
  ASSUME Init
  PROVE  Inv /\ MutexInv /\ LivesInv /\ SendCountExact /\ Hung /\ Fresh
<1>1. Inv
  BY InitInv
<1>2. MutexInv /\ LivesInv
  BY SendQueueAssumption
  DEF Init, MutexInv, Threads, MsgSendPCs, ScanPCs, ClosePCs, LivesInv, BuiltOK, QueuedOK, ThrownOK
<1>3. /\ \A w \in Workers : pc[w] = "idle"
      /\ pc[Main] = "idle" /\ pc[Sender] = "wait"
      /\ Main \notin Workers /\ \A t \in Threads : arg[t] = Null
  BY SendQueueAssumption DEF Init, Threads
<1>4. /\ Len(MsgSendQueue) = 0
      /\ \A c \in Conns : /\ accepted[c] = << >> /\ wire[c] = << >> /\ ~events[c]
                          /\ iSendCount[c] = 0 /\ iThrowsendCount[c] = 0 /\ slot[c] = "used"
  BY DEF Init
<1>5. SendCountExact
  <2>1. \A c \in Conns : {i \in 1..Len(MsgSendQueue) : IsFor(MsgSendQueue[i], c)} = {}
    BY <1>4
  <2>2. QED
    BY <1>4, <2>1, FS_EmptySet DEF SendCountExact
<1>6. Hung
  <2>1. \A t \in Closers : pc[t] = "idle"
    BY SendQueueAssumption DEF Init, Closers, Threads
  <2>2. QED
    BY <1>1, <1>3, <1>4, <2>1, MemTypes DEF Hung, Closed
<1>7. \A c \in Conns : ToSet(accepted[c]) = {} /\ ToSet(wire[c]) = {}
  BY <1>4 DEF ToSet
<1>8. Fresh
  BY <1>3, <1>4, <1>7 DEF Fresh, Building, Once, Queued
<1>9. QED
  BY <1>1, <1>2, <1>5, <1>6, <1>8

(* The streams are empty then.                                             *)
LEMMA StreamInvInit ==
  ASSUME Prompt, Init
  PROVE  StreamInv
<1>1. Inv /\ MutexInv /\ LivesInv /\ SendCountExact /\ Hung /\ Fresh
  BY StreamStarts
<1>2. pc[Main] = "idle" /\ pc[Sender] = "wait" /\ \A t \in Threads : arg[t] = Null
  BY SendQueueAssumption DEF Init, Threads
<1>3. ASSUME NEW c \in Conns
      PROVE  Turn(c) /\ InOrder(c, ToGo(c))
  <2>1. /\ Len(MsgSendQueue) = 0 /\ accepted[c] = << >> /\ wire[c] = << >> /\ ~events[c]
        /\ iSendCount[c] = 0 /\ iThrowsendCount[c] = 0
    BY DEF Init
  <2>2. Turn(c) /\ ToGo(c) = 0
    BY <1>1, <1>2, <2>1, MemTypes DEF Turn, ToGo, Sends, Writes
  <2>3. Len(wire[c]) + 0 = MsgLen * (Len(accepted[c]) - iSendCount[c])
    BY <1>1, <2>1, StreamTypes
  <2>4. ToSet(accepted[c]) = {} /\ ToSet(wire[c]) = {}
    BY <2>1 DEF ToSet
  <2>5. InOrder(c, 0)
    BY <2>1, <2>3, <2>4 DEF InOrder
  <2>6. QED
    BY <2>2, <2>5 DEF InOrder
<1>4. QED
  BY <1>1, <1>3 DEF StreamInv, Streams

-----------------------------------------------------------------------------
(* Every step of the threads is one of the stream, or none.                *)

(* Units past the last whole packet.                                       *)
LEMMA PastWhole ==
  ASSUME NEW M \in Nat \ {0}, NEW q \in Int, NEW x \in 0..(M - 1)
  PROVE  (M * q + x) % M = x
<1> DEFINE n == M * q + x
<1>1. n \in Int /\ M > 0
  OBVIOUS
<1>2. PICK d \in Int, m \in 0..(M - 1) : d = n \div M /\ m = n % M /\ n = M * d + m
  BY <1>1
<1>3. PICK z \in Int : z = q - d
  BY <1>2
<1>4. M * z = m - x
  BY <1>2, <1>3
<1>5. M * z < M /\ -M < M * z
  BY <1>2, <1>4
<1>6. z = 0
  <2>1. z >= 1 => M * z >= M
    BY <1>1, <1>3
  <2>2. z =< -1 => M * z =< -M
    BY <1>1, <1>3
  <2>3. QED
    BY <1>5, <2>1, <2>2
<1>7. QED
  BY <1>2, <1>4, <1>6

(* r of the g units that psendbuf still has to send leave.                 *)
LEMMA Transmitted ==
  ASSUME StreamInv, NEW c \in Conns, Live(c), NEW g \in 1..MsgLen, InOrder(c, g),
         NEW r \in Int, r > 0, r =< g, Put(c, r), UNCHANGED accepted
  PROVE  r \in 1..MsgLen /\ Stream!Transmit(c, r)
<1>1. /\ MsgLen \in Nat \ {0} /\ Len(wire[c]) \in Nat /\ Len(accepted[c]) \in Nat
      /\ iSendCount[c] \in Int /\ slot[c] = "used"
  BY StreamTypes DEF StreamInv, Hung, Live
<1>2. iSendCount[c] \in Nat
  <2>1. IsFiniteSet({i \in 1..Len(MsgSendQueue) : IsFor(MsgSendQueue[i], c)})
    <3>1. 0 \in Int /\ Len(MsgSendQueue) \in Int /\ Inv
      BY StreamTypes DEF StreamInv
    <3>2. IsFiniteSet(1..Len(MsgSendQueue))
      BY <3>1, FS_Interval
    <3>3. QED
      BY <3>2, FS_Subset
  <2>2. QED
    BY <1>1, <2>1, FS_CardinalityType DEF StreamInv, SendCountExact
<1>3. PICK k \in Int : k = Len(accepted[c]) - iSendCount[c]
  BY <1>1
<1>4. Len(wire[c]) + g = MsgLen * k
  BY <1>3 DEF InOrder
<1>5. Len(wire[c]) < MsgLen * Len(accepted[c])
  <2>1. k =< Len(accepted[c])
    BY <1>1, <1>2, <1>3
  <2>2. MsgLen * k =< MsgLen * Len(accepted[c])
    BY <1>1, <2>1
  <2>3. QED
    BY <1>1, <1>4, <2>2
<1>6. Stream!Begun(wire[c]) = MsgLen - g
  <2>1. MsgLen - g \in 0..(MsgLen - 1) /\ k - 1 \in Int
    BY <1>1
  <2>2. Len(wire[c]) = MsgLen * (k - 1) + (MsgLen - g)
    BY <1>1, <1>4
  <2>3. (MsgLen * (k - 1) + (MsgLen - g)) % MsgLen = MsgLen - g
    BY <1>1, <2>1, PastWhole
  <2>4. QED
    BY <2>2, <2>3 DEF Stream!Begun
<1>7. psendbuf[c] \in Stream!NextPacket(accepted[c], wire[c])
  <2>1. CASE g = MsgLen
    <3>1. psendbuf[c] \in ToSet(accepted[c]) \ ToSet(wire[c])
      BY <1>1, <2>1 DEF InOrder
    <3>2. Stream!NextPacket(accepted[c], wire[c]) = ToSet(accepted[c]) \ ToSet(wire[c])
      BY <1>1, <1>6, <2>1 DEF Stream!NextPacket, Stream!Range, ToSet
    <3>3. QED
      BY <3>1, <3>2
  <2>2. CASE g < MsgLen
    <3>1. Stream!NextPacket(accepted[c], wire[c]) = {wire[c][Len(wire[c])]}
      BY <1>1, <1>6, <2>2 DEF Stream!NextPacket
    <3>2. QED
      BY <1>1, <2>2, <3>1 DEF InOrder
  <2>3. QED
    BY <1>1, <2>1, <2>2
<1>8. r =< MsgLen - Stream!Begun(wire[c]) /\ r \in 1..MsgLen
  BY <1>1, <1>6
<1>9. QED
  BY <1>5, <1>7, <1>8 DEF Stream!Transmit, Put

(* The steps that show in the histories.                                   *)
LEMMA Told ==
  ASSUME Inv, [Next]_vars
  PROVE  \/ UNCHANGED history
         \/ \E w \in Workers : MsgSendPush(w)
         \/ SendProc \/ WriteHandler
         \/ \E c \in Conns : Stream!NewLife(c) /\ FifoStream!NewLife(c)
<1>1. CASE UNCHANGED vars
  BY <1>1 DEF vars
<1>2. ASSUME NEW w \in Workers, MsgSend(w), ~MsgSendPush(w)
      PROVE  UNCHANGED history
  BY <1>2 DEF MsgSend, MsgSendLock, MsgSendDiscard, MsgSendKick, MsgSendAdmit, MsgSendPost,
     MsgSendUnlock
<1>3. ASSUME NEW w \in Workers, NEW c \in Conns, BeginReply(w, c)
      PROVE  UNCHANGED history
  BY <1>3 DEF BeginReply
<1>4. ASSUME NEW t \in Closers, ZdClosesocketProc(t)
      PROVE  UNCHANGED history
  BY <1>4 DEF ZdClosesocketProc, CloseFd, DecTest, Dec, InRecyConnectQueue
<1>5. CASE (ServerSendQueueThread \/ SemInterrupted) /\ ~SendProc
  BY <1>5
  DEF ServerSendQueueThread, SemWait, SemInterrupted, LockQueue, EndOfQueue, DropExpired,
      KeepFresh, SkipUnfinished, TakePacket, SentAll, ClearSent, SentPart, ArmWrite
<1>6. CASE MainThread /\ ~WriteHandler
  BY <1>6
  DEF MainThread, EpollWait, ReadData, ReadClose, HangUp, WritePost, WriteFree, WriteNull, WriteDec
<1>7. ASSUME NEW c \in Conns,
             PeerClose(c) \/ PeerReset(c) \/ Release(c) \/ ProcPingTimeOutChecking(c)
      PROVE  UNCHANGED history
  BY <1>7 DEF PeerClose, PeerReset, Release, ProcPingTimeOutChecking
<1>8. ASSUME NEW c \in Conns, Reuse(c)
      PROVE  Stream!NewLife(c) /\ FifoStream!NewLife(c)
  BY <1>8 DEF Reuse, Stream!NewLife, FifoStream!NewLife
<1>9. QED
  BY <1>1, <1>2, <1>3, <1>4, <1>5, <1>6, <1>7, <1>8 DEF Next

(* What msgSend queues for the life that goes on is a packet of its own.   *)
LEMMA Submitted ==
  ASSUME Inv, Fresh, NEW w \in Workers, MsgSendPush(w)
  PROVE  \/ UNCHANGED history
         \/ \E c \in Conns, m \in Ids : Stream!Submit(c, m) /\ FifoStream!Submit(c, m)
<1> USE DEF At
<1>1. msg[w] \in Packet /\ msg[w].conn \in Conns /\ msg[w].id \in Ids /\ Building(w)
      /\ wire' = wire
  BY MemTypes DEF MsgSendPush, Packet, Building
<1>2. CASE msg[w].seq = iCurrsequence[msg[w].conn]
  <2>1. accepted' = [accepted EXCEPT ![msg[w].conn] = Append(@, msg[w].id)]
    BY <1>2 DEF MsgSendPush
  <2>2. msg[w].id \notin ToSet(accepted[msg[w].conn])
    BY <1>1 DEF Fresh
  <2>3. /\ Stream!Submit(msg[w].conn, msg[w].id)
        /\ FifoStream!Submit(msg[w].conn, msg[w].id)
    BY <1>1, <2>1, <2>2
    DEF Stream!Submit, Stream!Range, FifoStream!Submit, FifoStream!Range, ToSet
  <2>4. QED
    BY <1>1, <2>3
<1>3. CASE msg[w].seq # iCurrsequence[msg[w].conn]
  BY <1>1, <1>3 DEF MsgSendPush, history
<1>4. QED
  BY <1>2, <1>3

(* A push submits, a send transmits, a new client starts a new life, and   *)
(* every other step leaves both histories alone.                           *)
LEMMA StreamStep ==
  ASSUME StreamInv, [Next]_vars
  PROVE  [Stream!Next]_Stream!vars
<1> USE DEF At, Goto
<1>1. Inv /\ Fresh /\ MsgLen \in Nat \ {0}
  BY StreamTypes DEF StreamInv
<1>2. ASSUME SendProc \/ WriteHandler
      PROVE  UNCHANGED history \/ Stream!Next
  <2>1. PICK t \in {Sender, Main} : \/ t = Sender /\ SendProc
                                    \/ t = Main /\ WriteHandler
    BY <1>2
  <2>2. PICK c \in Conns : c = arg[t]
    <3>1. SendProc => arg[Sender] \in Conns
      BY <1>1, MemTypes DEF SendProc, Busy
    <3>2. WriteHandler => arg[Main] \in Conns
      BY <1>1, MemTypes DEF WriteHandler
    <3>3. QED
      BY <2>1, <3>1, <3>2
  <2>3. accepted' = accepted
    BY <2>1 DEF SendProc, WriteHandler
  <2>4. PICK r \in SendResults(c) : Put(c, r)
    BY <2>1, <2>2 DEF SendProc, WriteHandler
  <2>5. r \in Int
    BY <1>1, <2>4, SendResultsInt DEF Inv
  <2>6. CASE r =< 0
    BY <1>1, <2>3, <2>4, <2>5, <2>6, UnitsPut DEF history
  <2>7. CASE r > 0
    <3>1. Live(c)
      BY <2>4, <2>7 DEF SendResults, Live
    <3>2. Turn(c) /\ InOrder(c, ToGo(c))
      BY <3>1 DEF StreamInv, Streams
    <3>3. \/ events[c]
          \/ arg[Sender] = c /\ pc[Sender] = "send"
      BY <2>1, <2>2, <3>2 DEF SendProc, WriteHandler, Turn
    <3>4. PICK g \in 1..MsgLen : g = isendlen[c]
      BY <3>2, <3>3 DEF Turn
    <3>5. ToGo(c) = g
      BY <3>3, <3>4 DEF ToGo
    <3>6. InOrder(c, g)
      BY <3>2, <3>5 DEF InOrder
    <3>7. r =< g
      <4>1. r \in {g} \cup {-1} \cup 1..(g - 1)
        BY <2>4, <3>1, <3>4 DEF SendResults, Live
      <4>2. QED
        BY <1>1, <4>1
    <3>8. r \in 1..MsgLen /\ Stream!Transmit(c, r)
      BY <2>3, <2>4, <2>5, <2>7, <3>1, <3>6, <3>7, Transmitted
    <3>9. QED
      BY <3>8 DEF Stream!Next
  <2>8. QED
    BY <2>5, <2>6, <2>7
<1>3. UNCHANGED history \/ Stream!Next
  <2>1. ASSUME NEW w \in Workers, MsgSendPush(w)
        PROVE  UNCHANGED history \/ Stream!Next
    BY <1>1, <2>1, Submitted DEF Stream!Next
  <2>2. (\E c \in Conns : Stream!NewLife(c)) => Stream!Next
    BY DEF Stream!Next
  <2>3. QED
    BY <1>1, <1>2, <2>1, <2>2, Told
<1>4. QED
  BY <1>3 DEF history, Stream!vars

(* What each client receives is a stream of whole packets of its own life, *)
(* each once, no packet cut into by another: msgSend, the send thread and  *)
(* the write handler keep to that with no lock on the connection, though   *)
(* clients hang up, msgSend and the read handler close connections at any  *)
(* time and objects are given to new clients.  Only a client whose end of  *)
(* file stays behind unread input, so that the write branch meets the      *)
(* hang-up first, is left out.                                             *)
THEOREM SendsStreams == Prompt /\ Spec => StreamSpec
<1>1. Prompt /\ Init => StreamInv /\ Stream!Init
  BY StreamInvInit DEF Init, Stream!Init
<1>2. StreamInv /\ [Next]_vars => StreamInv' /\ [Stream!Next]_Stream!vars
  BY StreamInvStep, StreamStep
<1>3. QED
  BY <1>1, <1>2, PTL DEF Spec, StreamSpec, Stream!Spec

-----------------------------------------------------------------------------
(* The order of the packets, as long as the socket buffer never fills.     *)

Roomy == ~PartialSend

\* Then no packet is left to the write handler, and the send thread skips none.
Unbroken ==
  /\ \A c \in Conns : iThrowsendCount[c] = 0 /\ ~events[c]
  /\ ~event.out
  /\ pc[Main] \notin {"out", "wpost", "wfree", "wnull", "wdec"}
  /\ \A t \in Closers : pc[t] # "dec"
  /\ pos = 1 /\ pc[Sender] # "arm"
  /\ pc[Sender] \in {"send", "after"} => isendlen[arg[Sender]] = MsgLen
  /\ pc[Sender] = "after" => sent \in {MsgLen, -2}

\* The packets accepted for c that have left the queue.
Left(c) == Len(accepted[c]) - iSendCount[c]

\* All of these are on the wire, but b that the send thread has.
OnWire(c, b) ==
  /\ Len(wire[c]) = MsgLen * (Left(c) - b)
  /\ b \in {0, 1} /\ Left(c) \in b..Len(accepted[c])
  /\ b = 1 => psendbuf[c] = accepted[c][Left(c)]

\* No packet is accepted twice; those in the queue are the last ones, in order.
NoneTwice(c) ==
  \A k, l \in 1..Len(accepted[c]) : accepted[c][k] = accepted[c][l] => k = l
NoneEarly(c) ==
  \A i \in 1..Len(MsgSendQueue) : IsFor(MsgSendQueue[i], c) =>
    \E k \in (Left(c) + 1)..Len(accepted[c]) : MsgSendQueue[i].id = accepted[c][k]
NoneMissing(c) ==
  \A k \in (Left(c) + 1)..Len(accepted[c]) :
    \E i \in 1..Len(MsgSendQueue) : /\ IsFor(MsgSendQueue[i], c)
                                    /\ MsgSendQueue[i].id = accepted[c][k]
NonePasses(c) ==
  \A i, j \in 1..Len(MsgSendQueue) :
    i < j /\ IsFor(MsgSendQueue[i], c) /\ IsFor(MsgSendQueue[j], c) =>
      \A k, l \in 1..Len(accepted[c]) :
        MsgSendQueue[i].id = accepted[c][k] /\ MsgSendQueue[j].id = accepted[c][l] => k < l

InLine(c, b) ==
  OnWire(c, b) /\ NoneTwice(c) /\ NoneEarly(c) /\ NoneMissing(c) /\ NonePasses(c)

\* Whether the send thread has taken a packet of c that is not on the wire yet.
Taken(c) == IF arg[Sender] = c /\ pc[Sender] = "send" THEN 1 ELSE 0

Lines == \A c \in Conns : Live(c) => InLine(c, Taken(c))

LineInv ==
  /\ Roomy /\ Inv /\ MutexInv /\ LivesInv
  /\ Hung /\ Fresh /\ Unbroken /\ Lines

-----------------------------------------------------------------------------
(* Unbroken.                                                               *)

(* A send takes the whole packet or fails.                                 *)
LEMMA WholeSends ==
  ASSUME LineInv, NEW c \in Conns, NEW r \in SendResults(c)
  PROVE  /\ r \in {isendlen[c], -2}
         /\ Live(c) => r = isendlen[c]
         /\ ~Live(c) => r = -2
  BY DEF LineInv, Roomy, SendResults, Live

(* The steps of the pool threads.                                          *)
LEMMA MsgSendUnbroken ==
  ASSUME Inv, Unbroken, NEW w \in Workers, MsgSend(w) \/ \E c \in Conns : BeginReply(w, c)
  PROVE  Unbroken'
<1> USE DEF At, Goto
<1>1. /\ UNCHANGED <<iThrowsendCount, events, event, pos, isendlen, sent>>
      /\ \A t \in Threads : t # w => pc'[t] = pc[t] /\ arg'[t] = arg[t]
      /\ pc'[w] # "dec"
  BY MemTypes DEF MsgSend, BeginReply, MsgSendLock, MsgSendDiscard, MsgSendKick,
     MsgSendAdmit, MsgSendPush, MsgSendPost, MsgSendUnlock, Leave, connVars
<1>2. /\ pc'[Sender] = pc[Sender] /\ arg'[Sender] = arg[Sender] /\ pc'[Main] = pc[Main]
      /\ \A t \in Closers : pc'[t] # "dec"
  BY <1>1, MemTypes, CloserTypes DEF Unbroken
<1>3. QED
  BY <1>1, <1>2 DEF Unbroken

(* A close finds iThrowsendCount at 0, and no write branch follows it.     *)
LEMMA CloseUnbroken ==
  ASSUME Inv, Unbroken, NEW t \in Closers, ZdClosesocketProc(t)
  PROVE  Unbroken'
<1> USE DEF At, Goto
<1>1. t \in Threads /\ t # Sender /\ arg[t] \in Conns /\ ~Dec(t)
  BY MemTypes, CloserTypes
  DEF ZdClosesocketProc, CloseFd, DecTest, Dec, InRecyConnectQueue, ClosePCs, DispatchPCs, Unbroken
<1>2. /\ UNCHANGED <<iThrowsendCount, event, pos, isendlen, sent>>
      /\ \A u \in Threads : u # t => pc'[u] = pc[u] /\ arg'[u] = arg[u]
      /\ pc'[t] \in {"decTest", "recycle", "unlock", "idle"}
  <2>1. CASE CloseFd(t)
    BY <1>1, <2>1, MemTypes DEF CloseFd
  <2>2. CASE DecTest(t)
    BY <1>1, <2>2, MemTypes DEF DecTest, connVars, Unbroken
  <2>3. CASE InRecyConnectQueue(t)
    BY <1>1, <2>3, MemTypes DEF InRecyConnectQueue, Leave, Unbroken
  <2>4. QED
    BY <1>1, <2>1, <2>2, <2>3 DEF ZdClosesocketProc
<1>3. \A c \in Conns : ~events'[c]
  BY <1>1, MemTypes DEF ZdClosesocketProc, CloseFd, DecTest, Dec, InRecyConnectQueue,
     connVars, Unbroken
<1>4. /\ pc'[Sender] = pc[Sender] /\ arg'[Sender] = arg[Sender]
      /\ \A u \in Closers : u \in Threads
      /\ t = Main => pc'[t] \in {"decTest", "recycle", "idle"}
  BY <1>1, <1>2, MemTypes, CloserTypes
  DEF ZdClosesocketProc, CloseFd, DecTest, Dec, InRecyConnectQueue, Leave, Unbroken
<1>5. \A u \in Closers : pc'[u] # "dec"
  BY <1>1, <1>2, <1>4 DEF Unbroken
<1>6. pc'[Main] \notin {"out", "wpost", "wfree", "wnull", "wdec"}
  BY <1>2, <1>4, MemTypes DEF Unbroken
<1>7. QED
  BY <1>1, <1>2, <1>3, <1>4, <1>5, <1>6 DEF Unbroken

(* The send thread stays at the head of the queue.                         *)
LEMMA SenderUnbroken ==
  ASSUME LineInv, ServerSendQueueThread \/ SemInterrupted
  PROVE  Unbroken'
<1> USE DEF At, Goto
<1>1. Inv /\ Unbroken /\ MsgLen \in Nat \ {0}
  BY StreamTypes DEF LineInv
<1>2. ~SkipUnfinished /\ ~SentPart /\ ~ArmWrite
  <2>1. SkipUnfinished => arg[Sender] \in Conns
    BY <1>1, MemTypes DEF SkipUnfinished, Busy
  <2>2. QED
    BY <1>1, <2>1 DEF SkipUnfinished, SentPart, ArmWrite, Unfinished, Unbroken
<1>3. UNCHANGED <<events, event>> /\ \A t \in Threads : t # Sender => pc'[t] = pc[t]
  BY <1>1, <1>2, MemTypes
  DEF ServerSendQueueThread, SemWait, SemInterrupted, LockQueue, EndOfQueue, DropExpired,
      KeepFresh, TakePacket, SendProc, SentAll, ClearSent, Leave, connVars, threadVars
<1>4. /\ pos' = 1 /\ pc'[Sender] # "arm" /\ \A c \in Conns : iThrowsendCount'[c] = 0
      /\ pc'[Sender] \in {"send", "after"} => isendlen'[arg'[Sender]] = MsgLen
      /\ pc'[Sender] = "after" => sent' \in {MsgLen, -2}
  <2>1. CASE SemWait \/ SemInterrupted \/ LockQueue \/ EndOfQueue \/ DropExpired \/ KeepFresh
             \/ SentAll
    BY <1>1, <2>1, MemTypes
    DEF SemWait, SemInterrupted, LockQueue, EndOfQueue, DropExpired, KeepFresh, SentAll,
        connVars, threadVars, Unbroken
  <2>2. CASE TakePacket
    <3>1. arg[Sender] \in Conns
      BY <1>1, <2>2, MemTypes DEF TakePacket, Busy
    <3>2. QED
      BY <1>1, <2>2, <3>1, MemTypes DEF TakePacket, Unbroken
  <2>3. CASE SendProc
    <3>1. PICK c \in Conns : c = arg[Sender]
      BY <1>1, <2>3, MemTypes DEF SendProc, Busy
    <3>2. PICK r \in SendResults(c) : sent' = r
      BY <2>3, <3>1 DEF SendProc
    <3>3. /\ isendlen[c] = MsgLen /\ isendlen' = isendlen /\ arg' = arg /\ pos' = pos
          /\ iThrowsendCount' = iThrowsendCount /\ pc'[Sender] = "after"
      BY <1>1, <2>3, <3>1, MemTypes DEF SendProc, connVars, Unbroken
    <3>4. sent' \in {MsgLen, -2}
      BY <3>1, <3>2, <3>3, WholeSends
    <3>5. QED
      BY <1>1, <3>1, <3>3, <3>4 DEF Unbroken
  <2>4. CASE ClearSent
    BY <1>1, <2>4, MemTypes DEF ClearSent, Leave, Unbroken
  <2>5. QED
    BY <1>2, <2>1, <2>2, <2>3, <2>4 DEF ServerSendQueueThread
<1>5. /\ \A t \in Closers : t \in Threads /\ t # Sender
      /\ Main \in Threads /\ Main # Sender
  BY <1>1, CloserTypes, MemTypes
<1>6. QED
  BY <1>1, <1>3, <1>4, <1>5 DEF Unbroken

(* EPOLLOUT is never asked for, so the epoll thread only reads.            *)
LEMMA MainUnbroken ==
  ASSUME Inv, Unbroken, MainThread
  PROVE  Unbroken'
<1> USE DEF At, Goto
<1>1. /\ UNCHANGED <<iThrowsendCount, events, pos, isendlen, sent>>
      /\ \A t \in Threads : t # Main => pc'[t] = pc[t] /\ arg'[t] = arg[t]
      /\ pc'[Main] \in {"read", "idle", "closefd"} /\ ~event'.out
  <2>1. ASSUME NEW c \in Conns, EpollWait(c)
        PROVE  /\ UNCHANGED <<iThrowsendCount, events, pos, isendlen, sent>>
               /\ \A t \in Threads : t # Main => pc'[t] = pc[t] /\ arg'[t] = arg[t]
               /\ pc'[Main] \in {"read", "idle", "closefd"} /\ ~event'.out
    <3>1. PICK in \in BOOLEAN, out \in BOOLEAN :
            /\ in \/ out
            /\ out => events[c]
            /\ event' = [in |-> in, out |-> out, hup |-> peer[c] # "up"]
            /\ pc' = [pc EXCEPT ![Main] = IF in THEN "read" ELSE "out"]
      BY <2>1 DEF EpollWait
    <3>2. ~out /\ in
      BY <3>1 DEF Unbroken
    <3>3. event'.out = out
      BY <3>1
    <3>4. QED
      BY <2>1, <3>1, <3>2, <3>3, MemTypes DEF EpollWait, connVars
  <2>2. CASE ReadData \/ ReadClose
    BY <2>2, MemTypes DEF ReadData, ReadClose, NextBranch, Leave, connVars, Unbroken
  <2>3. ~HangUp /\ ~WriteHandler /\ ~WritePost /\ ~WriteFree /\ ~WriteNull /\ ~WriteDec
    BY DEF HangUp, WriteHandler, WritePost, WriteFree, WriteNull, WriteDec, Unbroken
  <2>4. QED
    BY <2>1, <2>2, <2>3 DEF MainThread
<1>2. /\ pc'[Sender] = pc[Sender] /\ arg'[Sender] = arg[Sender]
      /\ \A t \in Closers : t \in Threads
  BY <1>1, MemTypes, CloserTypes
<1>3. QED
  BY <1>1, <1>2 DEF Unbroken

(* All of them.                                                            *)
LEMMA UnbrokenStep ==
  ASSUME LineInv, [Next]_vars
  PROVE  Unbroken'
<1>1. Inv /\ Unbroken
  BY DEF LineInv
<1>2. CASE UNCHANGED vars
  BY <1>1, <1>2 DEF vars, queueVars, connVars, threadVars, Unbroken
<1>3. ASSUME NEW c \in Conns, PeerClose(c) \/ PeerReset(c) \/ Release(c) \/ Reuse(c)
      PROVE  Unbroken'
  <2>1. UNCHANGED <<pc, arg, event, pos, sent, isendlen>>
    BY <1>3 DEF PeerClose, PeerReset, Release, Reuse, threadVars, connVars
  <2>2. \A d \in Conns : iThrowsendCount'[d] = 0 /\ ~events'[d]
    BY <1>1, <1>3, MemTypes DEF PeerClose, PeerReset, Release, Reuse, connVars, Unbroken
  <2>3. QED
    BY <1>1, <2>1, <2>2 DEF Unbroken
<1>4. ASSUME NEW c \in Conns, ProcPingTimeOutChecking(c)
      PROVE  Unbroken'
  <2>1. /\ UNCHANGED <<iThrowsendCount, events, event, pos, isendlen, sent>>
        /\ \A t \in Threads : t # Timer => pc'[t] = pc[t] /\ arg'[t] = arg[t]
        /\ pc'[Timer] # "dec"
    BY <1>1, <1>4, KickCalm DEF connVars
  <2>2. QED
    BY <1>1, <2>1, MemTypes, CloserTypes DEF Unbroken
<1>5. QED
  BY <1>1, <1>2, <1>3, <1>4, MsgSendUnbroken, CloseUnbroken, SenderUnbroken, MainUnbroken DEF Next

-----------------------------------------------------------------------------
(* Lines.                                                                  *)

\* What InLine says of c stays, but that e packets of others leave the head of the queue.
Behind(c, e) ==
  /\ wire'[c] = wire[c] /\ accepted'[c] = accepted[c] /\ psendbuf'[c] = psendbuf[c]
  /\ iSendCount'[c] = iSendCount[c] /\ iCurrsequence'[c] = iCurrsequence[c]
  /\ \A j \in 1..Len(MsgSendQueue') : IsFor(MsgSendQueue[j], c)' =>
       j + e \in 1..Len(MsgSendQueue) /\ MsgSendQueue'[j] = MsgSendQueue[j + e]
  /\ \A i \in 1..Len(MsgSendQueue) : IsFor(MsgSendQueue[i], c) =>
       i - e \in 1..Len(MsgSendQueue') /\ MsgSendQueue'[i - e] = MsgSendQueue[i]

LEMMA LineKept ==
  ASSUME Inv, NEW c \in Conns, NEW b, NEW e \in {0, 1}, InLine(c, b), Behind(c, e)
  PROVE  InLine(c, b)'
<1>1. Left(c)' = Left(c)
  BY DEF Left, Behind
<1>7. /\ wire'[c] = wire[c] /\ accepted'[c] = accepted[c] /\ psendbuf'[c] = psendbuf[c]
  BY DEF Behind
<1>2. \A j \in 1..Len(MsgSendQueue') : IsFor(MsgSendQueue[j], c)' =>
        /\ j + e \in 1..Len(MsgSendQueue) /\ MsgSendQueue'[j] = MsgSendQueue[j + e]
        /\ IsFor(MsgSendQueue[j + e], c)
  BY DEF Behind, IsFor
<1>3. \A i \in 1..Len(MsgSendQueue) : IsFor(MsgSendQueue[i], c) =>
        /\ i - e \in 1..Len(MsgSendQueue') /\ MsgSendQueue'[i - e] = MsgSendQueue[i]
        /\ IsFor(MsgSendQueue[i - e], c)'
  BY DEF Behind, IsFor
<1>4. NoneEarly(c)'
  <2>1. ASSUME NEW j \in 1..Len(MsgSendQueue'), IsFor(MsgSendQueue[j], c)'
        PROVE  \E k \in (Left(c) + 1)..Len(accepted[c]) : MsgSendQueue'[j].id = accepted[c][k]
    <3>1. PICK i \in 1..Len(MsgSendQueue) : MsgSendQueue'[j] = MsgSendQueue[i] /\ IsFor(MsgSendQueue[i], c)
      BY <1>2, <2>1
    <3>2. QED
      BY <3>1 DEF InLine, NoneEarly
  <2>2. QED
    BY <1>1, <1>7, <2>1 DEF NoneEarly
<1>5. NoneMissing(c)'
  <2>1. ASSUME NEW k \in (Left(c) + 1)..Len(accepted[c])
        PROVE  \E j \in 1..Len(MsgSendQueue') : /\ IsFor(MsgSendQueue[j], c)'
                                                /\ MsgSendQueue'[j].id = accepted[c][k]
    <3>1. PICK i \in 1..Len(MsgSendQueue) : /\ IsFor(MsgSendQueue[i], c)
                                           /\ MsgSendQueue[i].id = accepted[c][k]
      BY <2>1 DEF InLine, NoneMissing
    <3>2. PICK j \in 1..Len(MsgSendQueue') : MsgSendQueue'[j] = MsgSendQueue[i] /\ IsFor(MsgSendQueue[j], c)'
      BY <1>3, <3>1
    <3>3. QED
      BY <3>1, <3>2
  <2>2. QED
    BY <1>1, <1>7, <2>1 DEF NoneMissing
<1>6. NonePasses(c)'
  <2>1. ASSUME NEW i \in 1..Len(MsgSendQueue'), NEW j \in 1..Len(MsgSendQueue'), i < j,
               IsFor(MsgSendQueue[i], c)', IsFor(MsgSendQueue[j], c)',
               NEW k \in 1..Len(accepted[c]), NEW l \in 1..Len(accepted[c]),
               MsgSendQueue'[i].id = accepted[c][k], MsgSendQueue'[j].id = accepted[c][l]
        PROVE  k < l
    <3>1. PICK x \in 1..Len(MsgSendQueue), y \in 1..Len(MsgSendQueue) :
            /\ x = i + e /\ MsgSendQueue'[i] = MsgSendQueue[x] /\ IsFor(MsgSendQueue[x], c)
            /\ y = j + e /\ MsgSendQueue'[j] = MsgSendQueue[y] /\ IsFor(MsgSendQueue[y], c)
      BY <1>2, <2>1
    <3>2. x < y
      BY <2>1, <3>1
    <3>3. QED
      BY <2>1, <3>1, <3>2 DEF InLine, NonePasses
  <2>2. QED
    BY <1>7, <2>1 DEF NonePasses
<1>8. OnWire(c, b)' /\ NoneTwice(c)'
  BY <1>1, <1>7 DEF InLine, OnWire, NoneTwice
<1>9. QED
  BY <1>4, <1>5, <1>6, <1>8 DEF InLine

(* A step that does not touch the packets of c.                            *)
LEMMA LineStays ==
  ASSUME Inv, NEW c \in Conns, InLine(c, Taken(c)), Taken(c)' = Taken(c), MsgSendQueue' = MsgSendQueue,
         wire'[c] = wire[c], accepted'[c] = accepted[c], psendbuf'[c] = psendbuf[c],
         iSendCount'[c] = iSendCount[c], iCurrsequence'[c] = iCurrsequence[c]
  PROVE  InLine(c, Taken(c))'
<1>1. Behind(c, 0)
  BY LifeTypes DEF Behind, IsFor
<1>2. PICK b : b = Taken(c)
  OBVIOUS
<1>3. InLine(c, b)
  BY <1>2 DEF InLine
<1>4. InLine(c, b)'
  BY <1>1, <1>3, LineKept
<1>5. QED
  BY <1>2, <1>4 DEF InLine

(* m joins the queue, and the line of its client at the end.               *)
LEMMA PushLine ==
  ASSUME LineInv, NEW w \in Workers, MsgSendPush(w), NEW c \in Conns, InLine(c, Taken(c)), Live(c)
  PROVE  InLine(c, Taken(c))'
<1> USE DEF At, Goto
<1>1. Inv /\ Hung /\ Fresh /\ LivesInv
  BY DEF LineInv
<1>2. /\ msg[w] \in Packet /\ msg[w] # Null /\ Push(msg[w]) /\ w # Sender
      /\ iSendCount' = [iSendCount EXCEPT ![msg[w].conn] = @ + 1] /\ Building(w)
      /\ UNCHANGED <<wire, psendbuf, iCurrsequence, arg>> /\ pc'[Sender] = pc[Sender]
  BY <1>1, MemTypes DEF MsgSendPush, CountQueued, Building
<1>3. PICK m \in Packet : m = msg[w]
  BY <1>2
<1>4. PICK n \in Nat : n = Len(MsgSendQueue)
  BY <1>1, LifeTypes
<1>5. /\ Len(MsgSendQueue') = n + 1 /\ MsgSendQueue'[n + 1] = m
      /\ \A i \in 1..n : MsgSendQueue'[i] = MsgSendQueue[i]
      /\ \A i \in 1..(n + 1) : i \in 1..n \/ i = n + 1
  BY <1>1, <1>2, <1>3, <1>4, LifeTypes, AppendProperties DEF Push
<1>6. PICK b \in {0, 1} : b = Taken(c)
  BY DEF Taken
<1>7. InLine(c, b) /\ Taken(c)' = b
  BY <1>2, <1>6 DEF InLine, Taken
<1>8. CASE c # m.conn
  <2>1. accepted'[c] = accepted[c] /\ iSendCount'[c] = iSendCount[c]
    BY <1>1, <1>2, <1>3, <1>8, PushTold, LifeTypes
  <2>2. Behind(c, 0)
    BY <1>2, <1>4, <1>5, <1>8, <2>1 DEF Behind, IsFor
  <2>3. InLine(c, b)'
    BY <1>1, <1>7, <2>2, LineKept
  <2>4. QED
    BY <1>7, <2>3 DEF InLine
<1>9. CASE c = m.conn
  <2>1. IsFor(m, c)
    <3>1. slot[c] = "used"
      BY <1>1 DEF Live, Hung
    <3>2. QED
      BY <1>1, <1>2, <1>3, <1>9, <3>1 DEF LivesInv, BuiltOK, Kept, IsFor
  <2>2. PICK p \in Nat, d \in Int : p = Len(accepted[c]) /\ d = Left(c)
    <3>1. Len(accepted[c]) \in Nat /\ Left(c) \in Int
      BY <1>1, StreamTypes DEF Left
    <3>2. QED
      BY <3>1
  <2>3. /\ Len(accepted'[c]) = p + 1 /\ accepted'[c][p + 1] = m.id
        /\ \A k \in 1..p : accepted'[c][k] = accepted[c][k]
        /\ \A k \in 1..(p + 1) : k \in 1..p \/ k = p + 1
    <3>1. accepted'[c] = Append(accepted[c], m.id) /\ m.id \in Ids
      BY <1>1, <1>3, <1>9, <2>1, PushTold, LifeTypes
    <3>2. accepted[c] \in Seq(Ids)
      BY <1>1, StreamTypes
    <3>3. QED
      BY <2>2, <3>1, <3>2, AppendProperties
  <2>4. Left(c)' = d
    <3>1. iSendCount'[c] = iSendCount[c] + 1 /\ iSendCount[c] \in Int
      BY <1>1, <1>2, <1>3, <1>9, LifeTypes
    <3>2. Left(c)' = Len(accepted'[c]) - iSendCount'[c] /\ d = p - iSendCount[c]
      BY <2>2 DEF Left
    <3>3. PICK q \in Int : q = iSendCount[c]
      BY <3>1
    <3>4. Left(c)' = (p + 1) - (q + 1) /\ d = p - q
      BY <2>3, <3>1, <3>2, <3>3
    <3>5. QED
      BY <3>3, <3>4
  <2>5. \A k \in 1..p : accepted[c][k] # m.id
    <3>1. m.id \notin ToSet(accepted[c])
      BY <1>1, <1>2, <1>3 DEF Fresh
    <3>2. DOMAIN accepted[c] = 1..p
      BY <1>1, <2>2, StreamTypes, LenProperties
    <3>3. QED
      BY <3>1, <3>2 DEF ToSet
  <2>6. /\ d \in b..p /\ d \in 0..p
        /\ \A k \in (d + 1)..(p + 1) : k \in 1..(p + 1) /\ (k \in (d + 1)..p \/ k = p + 1)
        /\ \A k \in (d + 1)..p : k \in 1..p /\ k \in (d + 1)..(p + 1)
        /\ p + 1 \in (d + 1)..(p + 1) /\ p + 1 \in 1..(p + 1)
    BY <1>7, <2>2 DEF InLine, OnWire
  <2>7. /\ Len(wire'[c]) = MsgLen * (d - b) /\ d \in b..(p + 1)
        /\ b = 1 => d \in 1..p /\ psendbuf'[c] = accepted'[c][d]
    <3>1. b = 1 => d \in 1..p
      BY <2>6
    <3>2. QED
      BY <1>2, <1>7, <2>2, <2>3, <2>6, <3>1 DEF InLine, OnWire
  <2>8. \A k, l \in 1..(p + 1) : accepted'[c][k] = accepted'[c][l] => k = l
    <3>1. \A k, l \in 1..p : accepted[c][k] = accepted[c][l] => k = l
      BY <1>7, <2>2 DEF InLine, NoneTwice
    <3>2. ASSUME NEW k \in 1..(p + 1), NEW l \in 1..(p + 1), accepted'[c][k] = accepted'[c][l]
          PROVE  k = l
      <4>1. CASE k \in 1..p /\ l \in 1..p
        BY <2>3, <3>1, <3>2, <4>1
      <4>2. CASE k = p + 1 /\ l \in 1..p
        BY <2>3, <2>5, <3>2, <4>2
      <4>3. CASE k \in 1..p /\ l = p + 1
        BY <2>3, <2>5, <3>2, <4>3
      <4>4. QED
        BY <2>3, <4>1, <4>2, <4>3
    <3>3. QED
      BY <3>2
  <2>9. \A i \in 1..(n + 1) : IsFor(MsgSendQueue[i], c)' =>
          \E k \in (d + 1)..(p + 1) : MsgSendQueue'[i].id = accepted'[c][k]
    <3>1. ASSUME NEW i \in 1..n, IsFor(MsgSendQueue[i], c)'
          PROVE  \E k \in (d + 1)..(p + 1) : MsgSendQueue'[i].id = accepted'[c][k]
      <4>1. IsFor(MsgSendQueue[i], c)
        BY <1>2, <1>5, <3>1 DEF IsFor
      <4>2. PICK k \in (d + 1)..p : MsgSendQueue[i].id = accepted[c][k]
        BY <1>4, <1>7, <2>2, <4>1 DEF InLine, NoneEarly
      <4>3. QED
        BY <1>5, <2>3, <2>6, <4>2
    <3>2. QED
      BY <1>5, <2>3, <2>6, <3>1
  <2>10. \A k \in (d + 1)..(p + 1) :
           \E i \in 1..(n + 1) : /\ IsFor(MsgSendQueue[i], c)'
                                 /\ MsgSendQueue'[i].id = accepted'[c][k]
    <3>1. ASSUME NEW k \in (d + 1)..p
          PROVE  \E i \in 1..(n + 1) : /\ IsFor(MsgSendQueue[i], c)'
                                       /\ MsgSendQueue'[i].id = accepted'[c][k]
      <4>1. PICK i \in 1..n : IsFor(MsgSendQueue[i], c) /\ MsgSendQueue[i].id = accepted[c][k]
        BY <1>4, <1>7, <2>2 DEF InLine, NoneMissing
      <4>2. i \in 1..(n + 1) /\ MsgSendQueue'[i] = MsgSendQueue[i] /\ accepted'[c][k] = accepted[c][k]
        BY <1>4, <1>5, <2>3, <2>6
      <4>3. QED
        BY <1>2, <4>1, <4>2 DEF IsFor
    <3>2. n + 1 \in 1..(n + 1) /\ IsFor(MsgSendQueue[n + 1], c)'
      BY <1>2, <1>4, <1>5, <2>1 DEF IsFor
    <3>3. QED
      BY <1>5, <2>3, <2>6, <3>1, <3>2
  <2>11. ASSUME NEW i \in 1..(n + 1), NEW j \in 1..(n + 1), i < j,
                IsFor(MsgSendQueue[i], c)', IsFor(MsgSendQueue[j], c)',
                NEW k \in 1..(p + 1), NEW l \in 1..(p + 1),
                MsgSendQueue'[i].id = accepted'[c][k], MsgSendQueue'[j].id = accepted'[c][l]
         PROVE  k < l
    <3>1. i \in 1..n /\ (j \in 1..n \/ j = n + 1)
      BY <1>4, <2>11
    <3>2. IsFor(MsgSendQueue[i], c) /\ MsgSendQueue'[i] = MsgSendQueue[i]
      BY <1>2, <1>5, <2>11, <3>1 DEF IsFor
    <3>3. PICK x \in (d + 1)..p : MsgSendQueue[i].id = accepted[c][x]
      BY <1>4, <1>7, <2>2, <3>1, <3>2 DEF InLine, NoneEarly
    <3>4. k = x /\ k \in 1..p
      <4>1. x \in 1..p /\ x \in 1..(p + 1) /\ accepted'[c][x] = accepted[c][x]
        BY <2>3, <2>6
      <4>2. QED
        BY <2>8, <2>11, <3>2, <3>3, <4>1
    <3>5. CASE j = n + 1
      <4>1. l = p + 1
        BY <1>5, <2>3, <2>5, <2>11, <3>5
      <4>2. QED
        BY <3>4, <4>1
    <3>6. CASE j \in 1..n
      <4>1. IsFor(MsgSendQueue[j], c) /\ MsgSendQueue'[j] = MsgSendQueue[j]
        BY <1>2, <1>5, <2>11, <3>6 DEF IsFor
      <4>2. PICK y \in (d + 1)..p : MsgSendQueue[j].id = accepted[c][y]
        BY <1>4, <1>7, <2>2, <3>6, <4>1 DEF InLine, NoneEarly
      <4>3. y \in 1..p /\ y \in 1..(p + 1) /\ accepted'[c][y] = accepted[c][y]
        BY <2>3, <2>6
      <4>4. l = y
        BY <2>8, <2>11, <4>1, <4>2, <4>3
      <4>5. QED
        BY <1>4, <1>7, <2>2, <2>11, <3>1, <3>2, <3>3, <3>4, <3>6, <4>1, <4>2, <4>3, <4>4 DEF InLine, NonePasses
    <3>7. QED
      BY <3>1, <3>5, <3>6
  <2>12. InLine(c, b)'
    <3>1. OnWire(c, b)'
      BY <2>3, <2>4, <2>7 DEF OnWire
    <3>2. NoneTwice(c)'
      BY <2>3, <2>8 DEF NoneTwice
    <3>3. NoneEarly(c)' /\ NoneMissing(c)'
      BY <1>5, <2>3, <2>4, <2>9, <2>10 DEF NoneEarly, NoneMissing
    <3>4. NonePasses(c)'
      BY <1>5, <2>3, <2>11 DEF NonePasses
    <3>5. QED
      BY <3>1, <3>2, <3>3, <3>4 DEF InLine
  <2>13. QED
    BY <1>7, <2>12 DEF InLine
<1>10. QED
  BY <1>8, <1>9

(* The head of the queue is erased: the others move up.                    *)
LEMMA HeadErased ==
  ASSUME Inv, Len(MsgSendQueue) > 0, EraseAt(1)
  PROVE  /\ Len(MsgSendQueue') = Len(MsgSendQueue) - 1
         /\ \A j \in 1..Len(MsgSendQueue') :
              j + 1 \in 1..Len(MsgSendQueue) /\ MsgSendQueue'[j] = MsgSendQueue[j + 1]
         /\ \A i \in 1..Len(MsgSendQueue) : i # 1 =>
              i - 1 \in 1..Len(MsgSendQueue') /\ MsgSendQueue'[i - 1] = MsgSendQueue[i]
<1> DEFINE t == RemoveAt(MsgSendQueue, 1)
<1>1. PICK n \in Nat : n = Len(MsgSendQueue) /\ 1 \in 1..n
  BY LifeTypes
<1>2. /\ Len(t) = n - 1
      /\ \A j \in 1..(n - 1) : t[j] = IF j < 1 THEN MsgSendQueue[j] ELSE MsgSendQueue[j + 1]
  BY <1>1, LifeTypes, RemovedPlaces
<1>3. MsgSendQueue' = t
  BY DEF EraseAt
<1> HIDE DEF t
<1>4. \A j \in 1..(n - 1) : j + 1 \in 1..n /\ t[j] = MsgSendQueue[j + 1]
  BY <1>1, <1>2
<1>5. ASSUME NEW i \in 1..n, i # 1
      PROVE  i - 1 \in 1..(n - 1) /\ t[i - 1] = MsgSendQueue[i]
  <2>1. i - 1 \in 1..(n - 1) /\ (i - 1) + 1 = i
    BY <1>1, <1>5
  <2>2. QED
    BY <1>4, <2>1
<1>6. QED
  BY <1>1, <1>2, <1>3, <1>4, <1>5

(* It was no packet of c.                                                  *)
LEMMA OthersLine ==
  ASSUME Inv, NEW c \in Conns, InLine(c, Taken(c)), Taken(c)' = Taken(c),
         Len(MsgSendQueue) > 0, EraseAt(1), ~IsFor(MsgSendQueue[1], c),
         wire'[c] = wire[c], accepted'[c] = accepted[c], psendbuf'[c] = psendbuf[c],
         iSendCount'[c] = iSendCount[c], iCurrsequence'[c] = iCurrsequence[c]
  PROVE  InLine(c, Taken(c))'
<1>1. Behind(c, 1)
  BY HeadErased DEF Behind
<1>2. PICK b : b = Taken(c)
  OBVIOUS
<1>3. InLine(c, b)
  BY <1>2 DEF InLine
<1>4. InLine(c, b)'
  BY <1>1, <1>3, LineKept
<1>5. QED
  BY <1>2, <1>4 DEF InLine

(* The first packet of s in the queue is the next one of its line.         *)
LEMMA TakeLine ==
  ASSUME LineInv, TakePacket, NEW s \in Conns, s = arg[Sender], Live(s)
  PROVE  InLine(s, Taken(s))'
<1> USE DEF At, Goto
<1>1. Inv /\ Hung /\ LivesInv /\ Unbroken /\ InLine(s, Taken(s))
  BY DEF LineInv, Lines
<1>2. /\ pc[Sender] = "throw" /\ pc'[Sender] = "send" /\ arg' = arg /\ pos = 1
      /\ UNCHANGED <<accepted, wire, iCurrsequence>>
      /\ EraseAt(1) /\ Len(MsgSendQueue) > 0
      /\ psendbuf'[s] = MsgSendQueue[1].id
      /\ iSendCount'[s] = iSendCount[s] - 1
  BY <1>1, MemTypes, LifeTypes DEF TakePacket, CountTaken, Inv, SenderOK, history, Unbroken
<1>3. InLine(s, 0) /\ Taken(s)' = 1
  BY <1>1, <1>2 DEF Taken, InLine
<1>4. PICK n \in Nat, p \in Nat, d \in Int :
        n = Len(MsgSendQueue) /\ p = Len(accepted[s]) /\ d = Left(s) /\ n > 0
  <2>1. Len(MsgSendQueue) \in Nat /\ Len(accepted[s]) \in Nat /\ Left(s) \in Int
    BY <1>1, StreamTypes DEF Left
  <2>2. QED
    BY <1>2, <2>1
<1>5. Left(s)' = d + 1 /\ d \in 0..p
  <2>1. iSendCount[s] \in Int
    BY <1>1, LifeTypes
  <2>2. PICK k \in Int : k = iSendCount[s] /\ d = p - k
    BY <1>4, <2>1 DEF Left
  <2>3. Left(s)' = p - (k - 1)
    BY <1>2, <1>4, <2>2 DEF Left
  <2>4. d \in 0..p
    BY <1>3, <1>4 DEF InLine, OnWire
  <2>5. QED
    BY <1>4, <2>2, <2>3, <2>4, SMTT(20)
<1>6. IsFor(MsgSendQueue[1], s)
  <2>1. slot[s] = "used"
    BY <1>1 DEF Live, Hung
  <2>2. QED
    BY <1>1, <1>2, <2>1 DEF LivesInv, ThrownOK, Kept, IsFor
<1>7. /\ Len(MsgSendQueue') = n - 1
      /\ \A j \in 1..(n - 1) : j + 1 \in 1..n /\ MsgSendQueue'[j] = MsgSendQueue[j + 1]
      /\ \A i \in 1..n : i # 1 => i - 1 \in 1..(n - 1) /\ MsgSendQueue'[i - 1] = MsgSendQueue[i]
  BY <1>1, <1>2, <1>4, HeadErased
<1>8. d + 1 \in 1..p /\ MsgSendQueue[1].id = accepted[s][d + 1]
  <2>1. PICK k \in (d + 1)..p : MsgSendQueue[1].id = accepted[s][k]
    <3>1. 1 \in 1..n
      BY <1>4
    <3>2. QED
      BY <1>3, <1>4, <1>6, <3>1 DEF InLine, NoneEarly
  <2>2. d + 1 \in (d + 1)..p /\ d + 1 \in 1..p /\ k \in 1..p /\ 1 \in 1..n
    BY <1>4, <1>5, <2>1
  <2>3. PICK i \in 1..n : IsFor(MsgSendQueue[i], s) /\ MsgSendQueue[i].id = accepted[s][d + 1]
    BY <1>3, <1>4, <2>2 DEF InLine, NoneMissing
  <2>4. CASE i = 1
    BY <2>2, <2>3, <2>4
  <2>5. CASE i # 1
    <3>1. 1 < i
      BY <2>5
    <3>2. k < d + 1
      BY <1>3, <1>4, <1>6, <2>1, <2>2, <2>3, <3>1 DEF InLine, NonePasses
    <3>3. QED
      BY <1>4, <2>1, <3>2
  <2>6. QED
    BY <2>4, <2>5
<1>9. OnWire(s, 1)'
  <2>1. d = (d + 1) - 1 /\ d + 1 \in 1..p
    BY <1>4, <1>8
  <2>2. Len(wire[s]) = MsgLen * (d - 0) /\ d - 0 = d
    BY <1>3, <1>4 DEF InLine, OnWire
  <2>3. Len(wire'[s]) = MsgLen * ((d + 1) - 1)
    BY <1>2, <2>1, <2>2
  <2>4. QED
    BY <1>2, <1>4, <1>5, <1>8, <2>1, <2>3 DEF OnWire
<1>10. NoneTwice(s)'
  BY <1>2, <1>3 DEF InLine, NoneTwice
<1>11. NoneEarly(s)'
  <2>1. ASSUME NEW j \in 1..(n - 1), IsFor(MsgSendQueue[j], s)'
        PROVE  \E k \in ((d + 1) + 1)..p : MsgSendQueue'[j].id = accepted[s][k]
    <3>1. PICK i \in 1..n : i = j + 1 /\ MsgSendQueue'[j] = MsgSendQueue[i]
      BY <1>7
    <3>2. IsFor(MsgSendQueue[i], s) /\ 1 < i /\ 1 \in 1..n
      BY <1>2, <1>4, <2>1, <3>1 DEF IsFor
    <3>3. PICK k \in (d + 1)..p : MsgSendQueue[i].id = accepted[s][k]
      BY <1>3, <1>4, <3>2 DEF InLine, NoneEarly
    <3>4. k \in 1..p
      BY <1>5, <3>3
    <3>5. d + 1 < k
      BY <1>3, <1>4, <1>6, <1>8, <3>2, <3>3, <3>4 DEF InLine, NonePasses
    <3>6. k \in ((d + 1) + 1)..p
      BY <1>4, <3>3, <3>5
    <3>7. QED
      BY <3>1, <3>3, <3>6
  <2>2. QED
    BY <1>2, <1>4, <1>5, <1>7, <2>1 DEF NoneEarly
<1>12. NoneMissing(s)'
  <2>1. ASSUME NEW k \in ((d + 1) + 1)..p
        PROVE  \E j \in 1..(n - 1) : /\ IsFor(MsgSendQueue[j], s)'
                                     /\ MsgSendQueue'[j].id = accepted[s][k]
    <3>1. k \in (d + 1)..p /\ k \in 1..p /\ k # d + 1
      BY <1>5, <2>1
    <3>2. PICK i \in 1..n : IsFor(MsgSendQueue[i], s) /\ MsgSendQueue[i].id = accepted[s][k]
      BY <1>3, <1>4, <3>1 DEF InLine, NoneMissing
    <3>3. i # 1
      BY <1>3, <1>4, <1>8, <3>1, <3>2 DEF InLine, NoneTwice
    <3>4. PICK j \in 1..(n - 1) : MsgSendQueue'[j] = MsgSendQueue[i]
      BY <1>7, <3>3
    <3>5. QED
      BY <1>2, <3>2, <3>4 DEF IsFor
  <2>2. QED
    BY <1>2, <1>4, <1>5, <1>7, <2>1 DEF NoneMissing
<1>13. NonePasses(s)'
  <2>1. ASSUME NEW i \in 1..(n - 1), NEW j \in 1..(n - 1), i < j,
               IsFor(MsgSendQueue[i], s)', IsFor(MsgSendQueue[j], s)',
               NEW k \in 1..p, NEW l \in 1..p,
               MsgSendQueue'[i].id = accepted[s][k], MsgSendQueue'[j].id = accepted[s][l]
        PROVE  k < l
    <3>1. PICK x \in 1..n, y \in 1..n : /\ x = i + 1 /\ MsgSendQueue'[i] = MsgSendQueue[x]
                                        /\ y = j + 1 /\ MsgSendQueue'[j] = MsgSendQueue[y]
      BY <1>7
    <3>2. x < y /\ IsFor(MsgSendQueue[x], s) /\ IsFor(MsgSendQueue[y], s)
      BY <1>2, <2>1, <3>1 DEF IsFor
    <3>3. QED
      BY <1>3, <1>4, <2>1, <3>1, <3>2 DEF InLine, NonePasses
  <2>2. Len(MsgSendQueue') = n - 1 /\ accepted' = accepted /\ Len(accepted[s]) = p
    BY <1>2, <1>4, <1>7
  <2>3. QED
    BY <2>1, <2>2 DEF NonePasses
<1>14. InLine(s, 1)'
  BY <1>9, <1>10, <1>11, <1>12, <1>13 DEF InLine
<1>15. QED
  BY <1>3, <1>14 DEF InLine

(* Whole packets on the wire.                                              *)
LEMMA WholePackets ==
  ASSUME NEW M \in Nat \ {0}, NEW n \in Nat, NEW d \in Nat, n = M * (d - 1)
  PROVE  n % M = 0 /\ n \div M = d - 1
<1>1. PICK e \in Int : e = d - 1
  OBVIOUS
<1>2. n = M * e + 0 /\ 0 \in 0..(M - 1)
  BY <1>1
<1>3. n % M = 0
  BY <1>2, PastWhole
<1>4. PICK q \in Int : q = n \div M
  OBVIOUS
<1>5. n = M * q
  BY <1>3, <1>4
<1>6. e = q
  <2>1. e > q => M * e > M * q
    BY <1>1, <1>4
  <2>2. e < q => M * e < M * q
    BY <1>1, <1>4
  <2>3. QED
    BY <1>1, <1>2, <1>4, <1>5, <2>1, <2>2
<1>7. QED
  BY <1>1, <1>3, <1>4, <1>6

(* It leaves whole.                                                        *)
LEMMA SentLine ==
  ASSUME LineInv, SendProc, NEW s \in Conns, s = arg[Sender], Live(s)
  PROVE  InLine(s, Taken(s))' /\ FifoStream!Transmit(s, MsgLen)
<1> USE DEF At, Goto
<1>1. Inv /\ Unbroken /\ InLine(s, Taken(s)) /\ MsgLen \in Nat \ {0}
  BY StreamTypes DEF LineInv, Lines
<1>2. /\ pc[Sender] = "send" /\ pc'[Sender] = "after" /\ arg' = arg /\ isendlen[s] = MsgLen
      /\ UNCHANGED <<MsgSendQueue, accepted, iCurrsequence, iSendCount, psendbuf>>
  BY <1>1, MemTypes DEF SendProc, connVars, queueVars, Unbroken
<1>3. Put(s, MsgLen)
  <2>1. PICK r \in SendResults(s) : Put(s, r)
    BY DEF SendProc
  <2>2. r = MsgLen
    BY <1>2, <2>1, WholeSends
  <2>3. QED
    BY <2>1, <2>2
<1>4. InLine(s, 1) /\ Taken(s)' = 0
  BY <1>1, <1>2 DEF Taken, InLine
<1>5. PICK d \in Nat : d = Left(s) /\ d \in 1..Len(accepted[s])
  <2>1. Left(s) \in 1..Len(accepted[s])
    BY <1>4 DEF InLine, OnWire
  <2>2. QED
    BY <1>1, <2>1, StreamTypes
<1>6. /\ Len(wire[s]) = MsgLen * (d - 1) /\ psendbuf[s] = accepted[s][d]
      /\ MsgLen * (d - 0) = MsgLen * (d - 1) + MsgLen
  <2>1. MsgLen * d = MsgLen * (d - 1) + MsgLen
    BY <1>1, <1>5
  <2>2. d - 0 = d
    BY <1>5
  <2>3. QED
    BY <1>4, <1>5, <2>1, <2>2 DEF InLine, OnWire
<1>7. Len(wire'[s]) = Len(wire[s]) + MsgLen /\ Len(wire[s]) \in Nat
  <2>1. MsgLen \in Int /\ MsgLen > 0
    BY <1>1
  <2>2. QED
    BY <1>1, <1>3, <2>1, UnitsPut, StreamTypes
<1>8. InLine(s, 0)'
  <2>1. Left(s)' = d /\ Left(s)' = Left(s)
    BY <1>2, <1>5 DEF Left
  <2>2. OnWire(s, 0)'
    <3>1. d \in 0..Len(accepted'[s])
      BY <1>2, <1>5
    <3>2. QED
      BY <1>6, <1>7, <2>1, <3>1 DEF OnWire
  <2>3. (NoneTwice(s) /\ NoneEarly(s) /\ NoneMissing(s) /\ NonePasses(s))'
    <3>1. NoneTwice(s) /\ NoneEarly(s) /\ NoneMissing(s) /\ NonePasses(s)
      BY <1>4 DEF InLine
    <3>2. NoneTwice(s)' /\ NonePasses(s)'
      BY <1>2, <3>1 DEF NoneTwice, NonePasses, IsFor
    <3>3. NoneEarly(s)'
      BY <1>2, <2>1, <3>1 DEF NoneEarly, IsFor
    <3>4. NoneMissing(s)'
      BY <1>2, <2>1, <3>1 DEF NoneMissing, IsFor
    <3>5. QED
      BY <3>2, <3>3, <3>4
  <2>4. QED
    BY <2>2, <2>3 DEF InLine
<1>9. FifoStream!Transmit(s, MsgLen)
  <2>1. FifoStream!Begun(wire[s]) = 0
    BY <1>1, <1>5, <1>6, <1>7, WholePackets DEF FifoStream!Begun
  <2>2. (Len(wire[s]) \div MsgLen) + 1 = d
    BY <1>1, <1>5, <1>6, <1>7, WholePackets, SMTT(20)
  <2>3. psendbuf[s] \in FifoStream!NextPacket(accepted[s], wire[s])
    BY <1>6, <2>1, <2>2 DEF FifoStream!NextPacket
  <2>4. Len(wire[s]) < MsgLen * Len(accepted[s])
    <3>1. MsgLen * d =< MsgLen * Len(accepted[s])
      BY <1>1, <1>5, StreamTypes
    <3>2. MsgLen * d = Len(wire[s]) + MsgLen
      BY <1>6, <1>5
    <3>3. PICK x \in Int, y \in Int : x = MsgLen * d /\ y = MsgLen * Len(accepted[s])
      <4>1. MsgLen * d \in Int /\ MsgLen * Len(accepted[s]) \in Int
        BY <1>1, <1>5, StreamTypes
      <4>2. QED
        BY <4>1
    <3>4. QED
      BY <1>1, <1>7, <3>1, <3>2, <3>3
  <2>5. MsgLen =< MsgLen - FifoStream!Begun(wire[s])
    BY <1>1, <2>1
  <2>6. QED
    BY <1>2, <1>3, <2>3, <2>4, <2>5 DEF FifoStream!Transmit, Put
<1>10. QED
  BY <1>4, <1>8, <1>9 DEF InLine

(* The steps of the send thread.                                           *)
LEMMA SenderLines ==
  ASSUME LineInv, ServerSendQueueThread \/ SemInterrupted
  PROVE  Lines'
<1> USE DEF At, Goto
<1>1. Inv /\ Unbroken /\ Lines
  BY DEF LineInv
<1>2. ~SkipUnfinished /\ ~SentPart /\ ~ArmWrite
  <2>1. SkipUnfinished => arg[Sender] \in Conns
    BY <1>1, MemTypes DEF SkipUnfinished, Busy
  <2>2. QED
    BY <1>1, <2>1 DEF SkipUnfinished, SentPart, ArmWrite, Unfinished, Unbroken
<1>3. UNCHANGED <<fd, peer, accepted, iCurrsequence>>
  BY <1>1, <1>2
  DEF ServerSendQueueThread, SemWait, SemInterrupted, LockQueue, EndOfQueue, DropExpired,
      KeepFresh, TakePacket, SendProc, SentAll, ClearSent, connVars, peerVars, history
<1>4. ASSUME NEW c \in Conns, Live(c)'
      PROVE  InLine(c, Taken(c))'
  <2>1. Live(c) /\ InLine(c, Taken(c))
    BY <1>1, <1>3, <1>4 DEF Live, Lines
  <2>2. CASE SemWait \/ SemInterrupted \/ LockQueue \/ EndOfQueue \/ KeepFresh \/ SentAll \/ ClearSent
    <3>1. UNCHANGED <<MsgSendQueue, wire, psendbuf, iSendCount>>
      BY <2>2 DEF SemWait, SemInterrupted, LockQueue, EndOfQueue, KeepFresh, SentAll, ClearSent,
         queueVars, connVars, history
    <3>2. pc[Sender] # "send" /\ pc'[Sender] # "send"
      BY <1>1, <2>2, MemTypes
      DEF SemWait, SemInterrupted, LockQueue, EndOfQueue, KeepFresh, SentAll, ClearSent, Leave
    <3>3. Taken(c)' = Taken(c)
      BY <3>2 DEF Taken
    <3>4. QED
      BY <1>1, <1>3, <2>1, <3>1, <3>3, LineStays
  <2>3. CASE DropExpired
    <3>1. /\ EraseAt(1) /\ Len(MsgSendQueue) > 0 /\ Expired(MsgSendQueue[1])
          /\ UNCHANGED <<wire, psendbuf, iSendCount, pc, arg>>
      BY <1>1, <2>3, LifeTypes DEF DropExpired, connVars, threadVars, history, Unbroken
    <3>2. ~IsFor(MsgSendQueue[1], c)
      BY <3>1 DEF Expired, IsFor
    <3>3. Taken(c)' = Taken(c)
      BY <3>1 DEF Taken
    <3>4. QED
      BY <1>1, <1>3, <2>1, <3>1, <3>2, <3>3, OthersLine
  <2>4. CASE TakePacket
    <3>1. PICK s \in Conns : s = arg[Sender]
      BY <1>1, <2>4, MemTypes DEF TakePacket, Busy
    <3>2. CASE c = s
      BY <2>1, <2>4, <3>1, <3>2, TakeLine
    <3>3. CASE c # s
      <4>1. /\ EraseAt(1) /\ Len(MsgSendQueue) > 0 /\ UNCHANGED <<wire, arg>>
            /\ psendbuf'[c] = psendbuf[c] /\ iSendCount'[c] = iSendCount[c]
        BY <1>1, <2>4, <3>1, <3>3, MemTypes, LifeTypes
        DEF TakePacket, CountTaken, Inv, SenderOK, history, Unbroken
      <4>2. MsgSendQueue[1].conn = s
        BY <1>1, <2>4, <3>1 DEF LineInv, LivesInv, ThrownOK, TakePacket, Unbroken
      <4>3. ~IsFor(MsgSendQueue[1], c) /\ Taken(c)' = Taken(c)
        BY <3>1, <3>3, <4>1, <4>2 DEF IsFor, Taken
      <4>4. QED
        BY <1>1, <1>3, <2>1, <4>1, <4>3, OthersLine
    <3>4. QED
      BY <3>2, <3>3
  <2>5. CASE SendProc
    <3>1. PICK s \in Conns : s = arg[Sender]
      BY <1>1, <2>5, MemTypes DEF SendProc, Busy
    <3>2. CASE c = s
      BY <2>1, <2>5, <3>1, <3>2, SentLine
    <3>3. CASE c # s
      <4>1. UNCHANGED <<MsgSendQueue, psendbuf, iSendCount, arg>>
        BY <2>5 DEF SendProc, queueVars, connVars
      <4>2. PICK r \in SendResults(s) : Put(s, r)
        BY <2>5, <3>1 DEF SendProc
      <4>3. wire'[c] = wire[c]
        BY <1>1, <3>3, <4>2, UnitsPut, SendResultsInt DEF Inv
      <4>4. Taken(c)' = Taken(c)
        BY <3>1, <3>3, <4>1 DEF Taken
      <4>5. QED
        BY <1>1, <1>3, <2>1, <4>1, <4>3, <4>4, LineStays
    <3>4. QED
      BY <3>2, <3>3
  <2>6. QED
    BY <1>2, <2>2, <2>3, <2>4, <2>5 DEF ServerSendQueueThread
<1>5. QED
  BY <1>4 DEF Lines

(* Those of the other threads.                                             *)
LEMMA OtherLines ==
  ASSUME LineInv,
         \/ \E w \in Workers : MsgSend(w) \/ \E c \in Conns : BeginReply(w, c)
         \/ \E t \in Closers : ZdClosesocketProc(t)
         \/ MainThread
         \/ \E c \in Conns : PeerClose(c) \/ PeerReset(c) \/ ProcPingTimeOutChecking(c)
  PROVE  Lines'
<1> USE DEF At, Goto
<1>1. Inv /\ Hung /\ Unbroken /\ Lines
  BY DEF LineInv
<1>2. ASSUME NEW w \in Workers, MsgSend(w) \/ \E c \in Conns : BeginReply(w, c)
      PROVE  Lines'
  <2>1. /\ UNCHANGED <<fd, peer, wire, psendbuf, iCurrsequence>>
        /\ \A t \in Threads : t # w => pc'[t] = pc[t] /\ arg'[t] = arg[t]
    BY <1>1, <1>2, MemTypes DEF MsgSend, BeginReply, MsgSendLock, MsgSendDiscard, MsgSendKick,
       MsgSendAdmit, MsgSendPush, MsgSendPost, MsgSendUnlock, Leave, connVars, peerVars, history
  <2>2. pc'[Sender] = pc[Sender] /\ arg'[Sender] = arg[Sender]
    BY <1>1, <2>1, MemTypes
  <2>3. ASSUME NEW c \in Conns, Live(c)'
        PROVE  InLine(c, Taken(c))'
    <3>1. Live(c) /\ InLine(c, Taken(c)) /\ Taken(c)' = Taken(c)
      BY <1>1, <2>1, <2>2, <2>3 DEF Live, Lines, Taken
    <3>2. CASE MsgSendPush(w)
      BY <3>1, <3>2, PushLine
    <3>3. CASE ~MsgSendPush(w)
      <4>1. UNCHANGED <<MsgSendQueue, iSendCount, accepted>>
        BY <1>2, <3>3 DEF MsgSend, BeginReply, MsgSendLock, MsgSendDiscard, MsgSendKick,
           MsgSendAdmit, MsgSendPost, MsgSendUnlock, connVars, queueVars, history
      <4>2. QED
        BY <1>1, <2>1, <3>1, <4>1, LineStays
    <3>4. QED
      BY <3>2, <3>3
  <2>4. QED
    BY <2>3, SMTT(20) DEF Lines
<1>3. ASSUME NEW t \in Closers, ZdClosesocketProc(t)
      PROVE  Lines'
  <2>1. t \in Threads /\ t # Sender /\ arg[t] \in Conns /\ pc[t] \in ClosePCs
    BY <1>1, <1>3, MemTypes, CloserTypes
    DEF ZdClosesocketProc, CloseFd, DecTest, Dec, InRecyConnectQueue, ClosePCs
  <2>2. /\ UNCHANGED <<peer, psendbuf, MsgSendQueue, iSendCount, accepted, wire>>
        /\ \A c \in Conns : c # arg[t] => fd'[c] = fd[c] /\ iCurrsequence'[c] = iCurrsequence[c]
        /\ pc'[Sender] = pc[Sender] /\ arg'[Sender] = arg[Sender]
    BY <1>1, <1>3, <2>1, MemTypes, LifeTypes
    DEF ZdClosesocketProc, CloseFd, DecTest, Dec, InRecyConnectQueue, EnterRecycleList, Leave,
        connVars, queueVars, peerVars, history
  <2>3. ~fd'[arg[t]]
    BY <1>1, <1>3, <2>1, MemTypes DEF ZdClosesocketProc, CloseFd, DecTest, Dec,
       InRecyConnectQueue, connVars, Hung, Closed
  <2>4. ASSUME NEW c \in Conns, Live(c)'
        PROVE  InLine(c, Taken(c))'
    <3>1. c # arg[t]
      BY <2>3, <2>4 DEF Live
    <3>2. InLine(c, Taken(c)) /\ Taken(c)' = Taken(c)
      BY <1>1, <2>2, <2>4, <3>1 DEF Live, Lines, Taken
    <3>3. QED
      BY <1>1, <2>2, <3>1, <3>2, LineStays
  <2>5. QED
    BY <2>4 DEF Lines
<1>4. CASE MainThread \/ \E c \in Conns : PeerClose(c) \/ PeerReset(c)
  <2>1. ~HangUp /\ ~WriteHandler /\ ~WritePost /\ ~WriteFree /\ ~WriteNull /\ ~WriteDec
    BY <1>1 DEF HangUp, WriteHandler, WritePost, WriteFree, WriteNull, WriteDec, Unbroken
  <2>2. UNCHANGED <<fd, MsgSendQueue, wire, accepted, psendbuf, iSendCount, iCurrsequence>>
    BY <1>4, <2>1 DEF MainThread, EpollWait, ReadData, ReadClose, PeerClose, PeerReset,
       queueVars, connVars, history
  <2>3. pc'[Sender] = pc[Sender] /\ arg'[Sender] = arg[Sender]
    BY <1>1, <1>4, <2>1, MemTypes
    DEF MainThread, EpollWait, ReadData, ReadClose, NextBranch, Leave, PeerClose, PeerReset,
        threadVars
  <2>4. \A c \in Conns : peer[c] = "reset" => peer'[c] = "reset"
    BY <1>1, <1>4, <2>1, MemTypes DEF MainThread, EpollWait, ReadData, ReadClose,
       PeerClose, PeerReset, peerVars
  <2>5. ASSUME NEW c \in Conns, Live(c)'
        PROVE  InLine(c, Taken(c))'
    <3>1. InLine(c, Taken(c)) /\ Taken(c)' = Taken(c)
      BY <1>1, <2>2, <2>3, <2>4, <2>5 DEF Live, Lines, Taken
    <3>2. QED
      BY <1>1, <2>2, <3>1, LineStays
  <2>6. QED
    BY <2>5 DEF Lines
<1>5. ASSUME NEW k \in Conns, ProcPingTimeOutChecking(k)
      PROVE  Lines'
  <2>1. /\ UNCHANGED <<fd, peer, MsgSendQueue, wire, accepted, psendbuf, iSendCount, iCurrsequence>>
        /\ pc'[Sender] = pc[Sender] /\ arg'[Sender] = arg[Sender]
    BY <1>1, <1>5, KickCalm DEF queueVars, connVars, peerVars, history
  <2>2. ASSUME NEW c \in Conns, Live(c)'
        PROVE  InLine(c, Taken(c))'
    <3>1. InLine(c, Taken(c)) /\ Taken(c)' = Taken(c)
      BY <1>1, <2>1, <2>2 DEF Live, Lines, Taken
    <3>2. QED
      BY <1>1, <2>1, <3>1, LineStays
  <2>3. QED
    BY <2>2 DEF Lines
<1>6. QED
  BY <1>2, <1>3, <1>4, <1>5

(* An object that is released or given to the next client.                 *)
LEMMA ReuseLines ==
  ASSUME LineInv, NEW c \in Conns, Release(c) \/ Reuse(c)
  PROVE  Lines'
<1>1. Inv /\ Hung /\ LivesInv /\ Lines /\ MsgLen \in Nat
  BY StreamTypes DEF LineInv
<1>2. UNCHANGED <<MsgSendQueue, pc, arg, psendbuf>>
  BY DEF Release, Reuse, queueVars, threadVars
<1>3. ASSUME NEW d \in Conns, d # c, Live(d)'
      PROVE  InLine(d, Taken(d))'
  <2>1. CASE Release(c)
    <3>1. /\ wire'[d] = wire[d] /\ accepted'[d] = accepted[d] /\ iSendCount'[d] = iSendCount[d]
          /\ iCurrsequence'[d] = iCurrsequence[d] /\ fd'[d] = fd[d] /\ peer'[d] = peer[d]
      BY <1>1, <1>3, <2>1, LifeTypes DEF Release, peerVars, history
    <3>2. InLine(d, Taken(d)) /\ Taken(d)' = Taken(d)
      BY <1>1, <1>2, <1>3, <3>1 DEF Live, Lines, Taken
    <3>3. QED
      BY <1>1, <1>2, <3>1, <3>2, LineStays
  <2>2. CASE Reuse(c)
    <3>1. /\ wire'[d] = wire[d] /\ accepted'[d] = accepted[d] /\ iSendCount'[d] = iSendCount[d]
          /\ iCurrsequence'[d] = iCurrsequence[d] /\ fd'[d] = fd[d] /\ peer'[d] = peer[d]
      BY <1>1, <1>3, <2>2, MemTypes, LifeTypes, StreamTypes DEF Reuse, NewSequence
    <3>2. InLine(d, Taken(d)) /\ Taken(d)' = Taken(d)
      BY <1>1, <1>2, <1>3, <3>1 DEF Live, Lines, Taken
    <3>3. QED
      BY <1>1, <1>2, <3>1, <3>2, LineStays
  <2>3. QED
    BY <2>1, <2>2
<1>4. ASSUME Live(c)'
      PROVE  InLine(c, Taken(c))'
  <2>1. Reuse(c)
    BY <1>1, <1>4 DEF Release, Hung, Live
  <2>2. arg'[Sender] # c
    BY <1>1, <1>2, <2>1, MemTypes DEF Reuse, Hung, Quiet
  <2>3. accepted'[c] = << >> /\ wire'[c] = << >> /\ iSendCount'[c] = 0
    BY <1>1, <2>1, LifeTypes, StreamTypes DEF Reuse
  <2>4. \A i \in 1..Len(MsgSendQueue) : ~(IsFor(MsgSendQueue[i], c)')
    <3>1. slot' = [slot EXCEPT ![c] = "used"] /\ iCurrsequence' = [iCurrsequence EXCEPT ![c] = @ + 1]
      BY <2>1 DEF Reuse, NewSequence
    <3>2. QED
      BY <1>1, <1>2, <3>1, LifeEnds, LifeTypes DEF LivesInv, QueuedOK, IsFor
  <2>5. \A i \in 1..Len(MsgSendQueue') : ~(IsFor(MsgSendQueue[i], c)')
    BY <1>2, <2>4
  <2>6. Len(accepted'[c]) = 0 /\ Len(wire'[c]) = 0 /\ Left(c)' = 0
    BY <2>3 DEF Left
  <2>7. OnWire(c, 0)'
    <3>1. MsgLen * (0 - 0) = 0 /\ 0 \in 0..0
      BY <1>1
    <3>2. QED
      BY <2>6, <3>1 DEF OnWire
  <2>8. (NoneTwice(c) /\ NoneEarly(c) /\ NoneMissing(c) /\ NonePasses(c))'
    BY <2>5, <2>6 DEF NoneTwice, NoneEarly, NoneMissing, NonePasses
  <2>9. Taken(c)' = 0
    BY <2>2 DEF Taken
  <2>10. QED
    BY <2>7, <2>8, <2>9 DEF InLine
<1>5. QED
  BY <1>3, <1>4 DEF Lines

(* All of them.                                                            *)
LEMMA LineInvStep ==
  ASSUME LineInv, [Next]_vars
  PROVE  LineInv'
<1>1. Inv /\ MutexInv /\ LivesInv /\ Hung /\ Fresh /\ Unbroken /\ Lines /\ ~event.out
  BY DEF LineInv, Unbroken
<1>2. Inv' /\ MutexInv' /\ LivesInv' /\ Hung' /\ Fresh' /\ Unbroken' /\ Roomy'
  BY <1>1, InvStep, MutexStep, LivesStep, HungStep, FreshStep, UnbrokenStep DEF LineInv, Roomy
<1>3. Lines'
  <2>1. CASE UNCHANGED vars
    <3>1. UNCHANGED <<fd, peer, MsgSendQueue, pc, arg, wire, accepted, psendbuf, iSendCount,
                      iCurrsequence>>
      BY <2>1 DEF vars, queueVars, connVars, threadVars, peerVars, history
    <3>2. ASSUME NEW c \in Conns, Live(c)'
          PROVE  InLine(c, Taken(c))'
      <4>1. InLine(c, Taken(c)) /\ Taken(c)' = Taken(c)
        BY <1>1, <3>1, <3>2 DEF Lines, Live, Taken
      <4>2. QED
        BY <1>1, <3>1, <4>1, LineStays
    <3>3. QED
      BY <3>2 DEF Lines
  <2>2. CASE Next
    BY <2>2, SenderLines, OtherLines, ReuseLines DEF Next
  <2>3. QED
    BY <2>1, <2>2
<1>4. QED
  BY <1>2, <1>3 DEF LineInv

(* It holds at the start.                                                  *)
LEMMA LineInvInit ==
  ASSUME Roomy, Init
  PROVE  LineInv
<1>1. Inv /\ MutexInv /\ LivesInv /\ Hung /\ Fresh
  BY StreamStarts
<1>2. /\ pc[Sender] = "wait" /\ pc[Main] = "idle" /\ \A t \in Closers : pc[t] = "idle"
      /\ \A t \in Threads : arg[t] = Null
  BY SendQueueAssumption DEF Init, Threads, Closers
<1>3. Unbroken
  BY <1>2 DEF Init, Unbroken, NoEvent
<1>4. ASSUME NEW c \in Conns
      PROVE  InLine(c, Taken(c))
  <2>1. /\ Len(MsgSendQueue) = 0 /\ Len(accepted[c]) = 0 /\ Len(wire[c]) = 0 /\ Left(c) = 0
        /\ Taken(c) = 0 /\ MsgLen * (0 - 0) = 0 /\ 0 \in 0..0
    BY <1>2, SendQueueAssumption DEF Init, Left, Taken
  <2>2. OnWire(c, 0)
    BY <2>1 DEF OnWire
  <2>3. NoneTwice(c) /\ NoneEarly(c) /\ NoneMissing(c) /\ NonePasses(c)
    BY <2>1 DEF NoneTwice, NoneEarly, NoneMissing, NonePasses
  <2>4. QED
    BY <2>1, <2>2, <2>3 DEF InLine
<1>5. QED
  BY <1>1, <1>3, <1>4 DEF LineInv, Lines

(* Each send puts the next packet on the wire, or nothing.                 *)
LEMMA LineStep ==
  ASSUME LineInv, [Next]_vars
  PROVE  [FifoStream!Next]_FifoStream!vars
<1> USE DEF At, Goto
<1>1. Inv /\ Fresh /\ Unbroken /\ MsgLen \in Nat \ {0} /\ MsgLen \in 1..MsgLen
  BY StreamTypes DEF LineInv
<1>2. ASSUME SendProc
      PROVE  UNCHANGED history \/ FifoStream!Next
  <2>1. PICK c \in Conns : c = arg[Sender]
    BY <1>1, <1>2, MemTypes DEF SendProc, Busy
  <2>2. CASE Live(c)
    BY <1>1, <1>2, <2>1, <2>2, SentLine DEF FifoStream!Next
  <2>3. CASE ~Live(c)
    <3>1. PICK r \in SendResults(c) : Put(c, r)
      BY <1>2, <2>1 DEF SendProc
    <3>2. r = -2
      BY <2>3, <3>1, WholeSends
    <3>3. -2 \in Int /\ -2 =< 0 /\ Put(c, -2)
      BY <3>1, <3>2
    <3>4. wire' = wire
      BY <1>1, <3>3, UnitsPut
    <3>5. QED
      BY <1>2, <3>4 DEF SendProc, history
  <2>4. QED
    BY <2>2, <2>3
<1>3. ~WriteHandler
  BY <1>1 DEF WriteHandler, Unbroken
<1>4. UNCHANGED history \/ FifoStream!Next
  <2>1. ASSUME NEW w \in Workers, MsgSendPush(w)
        PROVE  UNCHANGED history \/ FifoStream!Next
    BY <1>1, <2>1, Submitted DEF FifoStream!Next
  <2>2. (\E c \in Conns : FifoStream!NewLife(c)) => FifoStream!Next
    BY DEF FifoStream!Next
  <2>3. QED
    BY <1>1, <1>2, <1>3, <2>1, <2>2, Told
<1>5. QED
  BY <1>4 DEF history, FifoStream!vars

(* As long as the socket buffers never fill up, each client also receives  *)
(* its packets in the order in which msgSend queued them, whatever clients *)
(* do and whoever closes connections: the send thread then skips none.     *)
THEOREM SendsInOrder == Roomy /\ Spec => FifoStreamSpec
<1>1. Roomy /\ Init => LineInv /\ FifoStream!Init
  BY LineInvInit DEF Init, FifoStream!Init
<1>2. LineInv /\ [Next]_vars => LineInv' /\ [FifoStream!Next]_FifoStream!vars
  BY LineInvStep, LineStep
<1>3. QED
  BY <1>1, <1>2, PTL DEF Spec, FifoStreamSpec, FifoStream!Spec

-----------------------------------------------------------------------------
(* The wake-ups of the send thread.                                        *)

\* While a packet waits and the send thread sleeps, its wake-up is there or about to come.
Woken ==
  \/ MsgSendQueue = <<>> \/ semaphore > 0 \/ pc[Sender] # "wait"
  \/ \E w \in Workers : pc[w] = "post"

(* Every push is followed by a post, and a scan ends at an empty queue.    *)
LEMMA WokenStep ==
  ASSUME LineInv, Woken, [Next]_vars
  PROVE  Woken'
<1> USE DEF At, Goto
<1>1. /\ Inv /\ Unbroken /\ semaphore \in Nat /\ Len(MsgSendQueue) \in Nat
      /\ Len(MsgSendQueue) = 0 <=> MsgSendQueue = <<>>
  BY LenProperties, EmptySeq DEF LineInv, Inv, TypeOK, QueueTypeOK
<1>2. ASSUME NEW w \in Workers, MsgSend(w) \/ \E c \in Conns : BeginReply(w, c)
      PROVE  Woken'
  <2>1. w \in Threads /\ Sender \in Threads /\ w # Sender
    BY <1>1, MemTypes
  <2>2. CASE MsgSendPush(w)
    BY <1>1, <2>1, <2>2, MemTypes DEF MsgSendPush, Woken
  <2>3. CASE MsgSendPost(w)
    BY <1>1, <2>3 DEF MsgSendPost, PostSend, Woken
  <2>4. CASE ~MsgSendPush(w) /\ ~MsgSendPost(w)
    <3>1. /\ UNCHANGED <<MsgSendQueue, semaphore>> /\ pc[w] # "post"
          /\ \A t \in Threads : t # w => pc'[t] = pc[t]
      BY <1>1, <1>2, <2>4, MemTypes
      DEF MsgSend, BeginReply, MsgSendLock, MsgSendDiscard, MsgSendKick, MsgSendAdmit,
          MsgSendUnlock, Leave, queueVars
    <3>2. \A u \in Workers : u \in Threads
      BY <1>1, MemTypes
    <3>3. QED
      BY <2>1, <3>1, <3>2 DEF Woken
  <2>5. QED
    BY <2>2, <2>3, <2>4
<1>3. ASSUME ServerSendQueueThread \/ SemInterrupted
      PROVE  Woken'
  <2>1. CASE SemWait
    BY <1>1, <2>1, MemTypes DEF SemWait, CanProceed, Woken
  <2>2. CASE EndOfQueue
    <3>1. pos = 1 /\ Len(MsgSendQueue) < pos /\ UNCHANGED MsgSendQueue
      BY <1>1, <2>2 DEF EndOfQueue, Unbroken
    <3>2. QED
      BY <1>1, <3>1 DEF Woken
  <2>3. CASE ~SemWait /\ ~EndOfQueue
    <3>1. pc'[Sender] # "wait"
      BY <1>1, <1>3, <2>3, MemTypes
      DEF ServerSendQueueThread, SemInterrupted, LockQueue, DropExpired, KeepFresh,
          SkipUnfinished, TakePacket, SendProc, SentAll, ClearSent, SentPart, ArmWrite, Leave,
          threadVars
    <3>2. QED
      BY <3>1 DEF Woken
  <2>4. QED
    BY <2>1, <2>2, <2>3
<1>4. ASSUME NEW t \in Closers, ZdClosesocketProc(t)
      PROVE  Woken'
  <2>1. /\ UNCHANGED <<MsgSendQueue, semaphore>> /\ pc[t] # "post"
        /\ t \in Threads /\ t # Sender /\ \A u \in Threads : u # t => pc'[u] = pc[u]
    BY <1>1, <1>4, MemTypes, CloserTypes
    DEF ZdClosesocketProc, CloseFd, DecTest, Dec, InRecyConnectQueue, Leave, queueVars
  <2>2. Sender \in Threads /\ \A u \in Workers : u \in Threads
    BY <1>1, MemTypes
  <2>3. QED
    BY <2>1, <2>2 DEF Woken
<1>5. ASSUME MainThread
      PROVE  Woken'
  <2>1. ~WritePost
    BY <1>1 DEF WritePost, Unbroken
  <2>2. /\ UNCHANGED <<MsgSendQueue, semaphore>>
        /\ \A u \in Threads : u # Main => pc'[u] = pc[u]
    BY <1>1, <1>5, <2>1, MemTypes
    DEF MainThread, EpollWait, ReadData, ReadClose, HangUp, WriteHandler, WriteFree, WriteNull,
        WriteDec, NextBranch, Leave, queueVars
  <2>3. Sender \in Threads /\ Sender # Main /\ \A u \in Workers : u \in Threads /\ u # Main
    BY <1>1, MemTypes
  <2>4. QED
    BY <2>2, <2>3 DEF Woken
<1>6. ASSUME NEW c \in Conns, PeerClose(c) \/ PeerReset(c) \/ Release(c) \/ Reuse(c)
      PROVE  Woken'
  BY <1>6 DEF PeerClose, PeerReset, Release, Reuse, queueVars, threadVars, Woken
<1>7. CASE UNCHANGED vars
  BY <1>7 DEF vars, queueVars, threadVars, Woken
<1>8. ASSUME NEW c \in Conns, ProcPingTimeOutChecking(c)
      PROVE  Woken'
  BY <1>1, <1>8, KickCalm, MemTypes DEF queueVars, Woken
<1>9. QED
  BY <1>2, <1>3, <1>4, <1>5, <1>6, <1>7, <1>8 DEF Next

(* As long as the socket buffers never fill up, the semaphore wakes the    *)
(* send thread for every reply: it sleeps only while the queue is empty or *)
(* the pool thread that put a reply there is about to post (sem_wait,      *)
(* sem_post).  With a write that epoll has to finish this is not so: the   *)
(* run SendQueue_stranded.                                                 *)
THEOREM SleepsOnlyWhenDone ==
  Roomy /\ Spec => [](/\ NoneStranded
                      /\ (/\ At(Sender, "wait") /\ semaphore = 0
                          /\ \A w \in Workers : ~At(w, "post")) => MsgSendQueue = <<>>)
<1>1. Roomy /\ Init => LineInv /\ Woken
  BY LineInvInit DEF Init, Woken
<1>2. LineInv /\ Woken /\ [Next]_vars => LineInv' /\ Woken'
  BY LineInvStep, WokenStep
<1>3. Woken => ((/\ At(Sender, "wait") /\ semaphore = 0
                 /\ \A w \in Workers : ~At(w, "post")) => MsgSendQueue = <<>>)
  BY DEF Woken, At
<1>4. Woken => NoneStranded
  <2>1. SUFFICES ASSUME Woken, At(Sender, "wait"), semaphore = 0,
                        \A w \in Workers : At(w, "idle"), NEW i \in 1..Len(MsgSendQueue)
                 PROVE  FALSE
    BY DEF NoneStranded
  <2>2. MsgSendQueue = <<>>
    BY <2>1 DEF Woken, At
  <2>3. QED
    BY <2>1, <2>2
<1>5. QED
  BY <1>1, <1>2, <1>3, <1>4, PTL DEF Spec
=============================================================================
