--------------------------- MODULE ConnPoolProofs ---------------------------
(***************************************************************************)
(* Theorems of ConnPool for any number of objects, clients and threads,    *)
(* and any delays with 2 * MaxStall + MaxDelay < RecyWait: its types, that *)
(* every object is in one place, that no object changes hands while it is  *)
(* in use, what the sequence number tells, that the count of clients is    *)
(* exact, and the bound of the pool.                                       *)
(***************************************************************************)
EXTENDS ConnPool, DataLemmas

Free == ToSet(m_freeconnectionList)
Recycled == ToSet(m_recyconnectionList)

\* Which list an object is in is told by its client, and nothing is twice in a list.
Lists ==
  /\ IsInjective(m_freeconnectionList) /\ IsInjective(m_recyconnectionList)
  /\ \A o \in Objects : o \in Free <=> o =< m_total_connection_n /\ client[o] = Nobody
  /\ \A o \in Objects : client[o] # Nobody => o =< m_total_connection_n
  /\ \A o \in Recycled : client[o] \in Clients /\ ~fdOpen[o] /\ o # newc
  /\ \A o \in ripe : o \in Recycled /\ recyAge[o] = RecyWait

\* Where the threads are and what they hold there.
Control ==
  /\ newc # 0 <=> pc[Main] = "epollAdd"
  /\ newc # 0 => client[newc] \in Clients /\ m_onlineUserCount < WorkerConnections
  /\ \A t \in Closers : pc[t] # "epollAdd"
  /\ \A t \in Threads : hold[t] # NoCall <=> pc[t] \in {"call", "recycle"}
  /\ \A t \in Threads : pc[t] = "recycle" => ~fdOpen[hold[t].conn]

\* SequenceTells, with what makes it inductive: a number is never one to come, and an
\* entry of the timer queue has lost its number by the time its object is recycled.
Numbers ==
  /\ \A r \in requests \cup stamps :
       /\ r.seq =< iCurrsequence[r.conn]
       /\ ~Stale(r) => client[r.conn] = r.client /\ r.conn # newc
  /\ \A r \in stamps : ~Stale(r) => r.conn \notin Recycled

\* CallKeepsObject, with the ages that explain it: an object can have been recycled no
\* longer than the call on it has lasted, and the message that led to the call has
\* waited, and the call of the main thread that queued the message has lasted.
Allowance(t) == IF t = Main THEN 0 ELSE MaxStall + MaxDelay
Kept ==
  /\ \A t \in Threads : hold[t] # NoCall =>
       /\ client[hold[t].conn] = hold[t].client /\ hold[t].conn # newc
       /\ hold[t].conn \in Recycled => recyAge[hold[t].conn] =< hold[t].age + Allowance(t)
  /\ \A r \in requests : ~Stale(r) /\ r.conn \in Recycled =>
       recyAge[r.conn] =< r.age + MaxStall

Inv == TypeOK /\ Lists /\ Control /\ Numbers /\ Kept /\ OnlineExact

-----------------------------------------------------------------------------
(* What the types say of the parts of records and lists.                   *)

LEMMA Shape ==
  ASSUME TypeOK
  PROVE  /\ \A t \in Threads : hold[t] # NoCall =>
              /\ hold[t] \in Call /\ hold[t].conn \in Objects /\ hold[t].client \in Clients
              /\ hold[t].age \in 0..MaxStall
         /\ \A r \in requests : /\ r \in Request /\ r.conn \in Objects /\ r.client \in Clients
                                /\ r.seq \in Nat /\ r.age \in 0..MaxDelay
         /\ \A r \in stamps : r \in Stamp /\ r.conn \in Objects /\ r.client \in Clients
                              /\ r.seq \in Nat
         /\ Free \subseteq Objects /\ Recycled \subseteq Objects
         /\ \A o \in Objects : InRecyList(o) <=> o \in Recycled
<1>1. \A t \in Threads : hold[t] # NoCall => hold[t] \in Call
  BY DEF TypeOK
<1>2. \A c \in Call : c.conn \in Objects /\ c.client \in Clients /\ c.age \in 0..MaxStall
  BY DEF Call
<1>3. \A r \in Request : r.conn \in Objects /\ r.client \in Clients /\ r.seq \in Nat
                         /\ r.age \in 0..MaxDelay
  BY DEF Request
<1>4. \A r \in Stamp : r.conn \in Objects /\ r.client \in Clients /\ r.seq \in Nat
  BY DEF Stamp
<1>5. Free \subseteq Objects /\ Recycled \subseteq Objects
  BY ElementsTyped DEF TypeOK, Free, Recycled
<1>6. \A o \in Objects : InRecyList(o) <=> o \in Recycled
  BY LenProperties DEF TypeOK, Recycled, InRecyList, Contains, ToSet
<1>7. QED
  BY <1>1, <1>2, <1>3, <1>4, <1>5, <1>6 DEF TypeOK

LEMMA OnlineFinite ==
  ASSUME TypeOK
  PROVE  IsFiniteSet(Online) /\ Cardinality(Online) \in Nat
<1>1. IsFiniteSet(1..m_total_connection_n)
  BY FS_Interval DEF TypeOK, Objects
<1>2. QED
  BY <1>1, FS_Subset, FS_CardinalityType DEF Online

LEMMA Constants ==
  /\ WorkerConnections \in Nat /\ WorkerConnections >= 1 /\ Listeners \in Nat
  /\ RecyWait \in Nat /\ MaxStall \in Nat /\ MaxDelay \in Nat /\ MaxObjects \in Nat
  /\ MaxClients \in Nat /\ MaxRequests \in Nat
  /\ 2 * MaxStall + MaxDelay < RecyWait
  /\ 0 \notin Objects /\ 0 \notin Clients /\ -1 \notin Clients
  /\ \A t \in Threads : Allowance(t) \in Nat /\ Allowance(t) =< MaxStall + MaxDelay
  /\ Main \in Threads
  BY ConnPoolAssumption DEF Objects, Clients, Allowance, Threads

-----------------------------------------------------------------------------
(* Threads that begin and end calls.                                       *)

\* A thread enters a call on an object that is kept for the client it serves.
LEMMA EnterKeeps ==
  ASSUME Inv, NEW t \in Threads, At(t, "idle"), NEW o \in Objects, NEW k \in Clients,
         Enter(t, o, k), client[o] = k, o # newc,
         o \in Recycled => recyAge[o] =< Allowance(t),
         requests' \subseteq requests,
         UNCHANGED <<poolVars, recyVars, objectVars, m_onlineUserCount, stamps, newc,
                     nextClient>>
  PROVE  Inv'
<1> USE DEF poolVars, recyVars, objectVars
<1> DEFINE call == [conn |-> o, client |-> k, age |-> 0]
<1>1. call \in Call /\ call.conn = o /\ call.client = k /\ call.age = 0 /\ call # NoCall
  BY Constants DEF Call, NoCall
<1>2. /\ pc' = [pc EXCEPT ![t] = "call"] /\ hold' = [hold EXCEPT ![t] = call]
      /\ pc[t] = "idle"
  BY DEF Enter, Goto, At
<1> HIDE DEF call
<1>3. TypeOK'
  BY <1>1, <1>2 DEF TypeOK, Inv
<1>4. Lists'
  BY DEF Lists, Inv, Free, Recycled
<1>5. Control'
  BY <1>1, <1>2, Constants DEF Control, TypeOK, Inv, Threads
<1>6. Numbers'
  BY DEF Numbers, Stale, Inv, Recycled
<1>7. Kept'
  <2>1. ASSUME NEW u \in Threads, hold'[u] # NoCall
        PROVE  /\ client[hold'[u].conn] = hold'[u].client /\ hold'[u].conn # newc
               /\ hold'[u].conn \in Recycled =>
                    recyAge[hold'[u].conn] =< hold'[u].age + Allowance(u)
    BY <1>1, <1>2, <2>1, Constants DEF Kept, TypeOK, Inv
  <2>2. QED
    BY <2>1 DEF Kept, Stale, Inv, Recycled
<1>8. OnlineExact'
  BY DEF OnlineExact, Online, Inv, InRecyList
<1>9. QED
  BY <1>3, <1>4, <1>5, <1>6, <1>7, <1>8 DEF Inv

\* A thread leaves its call; a request may be left behind.
LEMMA ReturnKeeps ==
  ASSUME Inv, NEW t \in Threads, pc[t] \in {"call", "recycle"}, Return(t),
         NEW new \in SUBSET Request, requests' = requests \cup new,
         \A r \in new : /\ r.seq = iCurrsequence[r.conn] /\ client[r.conn] = r.client
                        /\ r.conn # newc
                        /\ r.conn \in Recycled => recyAge[r.conn] =< r.age + MaxStall,
         UNCHANGED <<poolVars, recyVars, objectVars, m_onlineUserCount, stamps, newc,
                     nextClient>>
  PROVE  Inv'
<1> USE DEF poolVars, recyVars, objectVars
<1>1. pc' = [pc EXCEPT ![t] = "idle"] /\ hold' = [hold EXCEPT ![t] = NoCall]
  BY DEF Return, Goto
<1>2. TypeOK'
  BY <1>1 DEF TypeOK, Inv
<1>3. Lists'
  BY DEF Lists, Inv, Free, Recycled
<1>4. Control'
  BY <1>1, Constants DEF Control, TypeOK, Inv, Threads
<1>5. Numbers'
  <2>1. \A r \in new : r.conn \in Objects /\ r.seq \in Nat
    BY DEF Request
  <2>2. \A r \in new : r.seq =< iCurrsequence[r.conn]
    BY <2>1 DEF TypeOK, Inv
  <2>3. QED
    BY <2>2 DEF Numbers, Stale, Inv, Recycled
<1>6. Kept'
  BY <1>1 DEF Kept, Stale, Inv, Recycled, TypeOK
<1>7. OnlineExact'
  BY DEF OnlineExact, Online, Inv, InRecyList
<1>8. QED
  BY <1>2, <1>3, <1>4, <1>5, <1>6, <1>7 DEF Inv

LEMMA EventKeeps ==
  ASSUME Inv, NEW o \in Objects, Event(o)
  PROVE  Inv'
<1>1. o # newc
  BY Constants DEF Event, At, Inv, Control
<1>2. o \notin Recycled
  BY DEF Event, Inv, Lists
<1>3. QED
  BY <1>1, <1>2, EnterKeeps, Constants DEF Event

LEMMA ReceivedKeeps ==
  ASSUME Inv, Received
  PROVE  Inv'
<1> DEFINE o == hold[Main].conn
           r == [conn |-> o, client |-> hold[Main].client, seq |-> iCurrsequence[o],
                 age |-> 0]
<1>1. hold[Main] # NoCall /\ Main \in Threads
  BY Constants DEF Received, At, Inv, Control
<1>2. /\ o \in Objects /\ hold[Main].client \in Clients /\ hold[Main].age \in 0..MaxStall
      /\ iCurrsequence[o] \in Nat /\ MaxDelay \in Nat
  BY <1>1, Shape, Constants DEF Inv, TypeOK
<1>3. r \in Request
  BY <1>2 DEF Request
<1>4. /\ client[o] = hold[Main].client /\ o # newc
      /\ o \in Recycled => recyAge[o] =< MaxStall
  <2>1. o \in Recycled => recyAge[o] =< hold[Main].age + 0
    BY <1>1 DEF Inv, Kept, Allowance
  <2>2. recyAge[o] \in Nat
    BY <1>2 DEF Inv, TypeOK
  <2>3. QED
    BY <1>1, <1>2, <2>1, <2>2, Constants DEF Inv, Kept
<1>5. requests' = requests \cup {r}
  BY DEF Received
<1>6. /\ r.conn = o /\ r.client = hold[Main].client /\ r.seq = iCurrsequence[o] /\ r.age = 0
  OBVIOUS
<1> HIDE DEF r
<1>7. \A q \in {r} : /\ q.seq = iCurrsequence[q.conn] /\ client[q.conn] = q.client
                     /\ q.conn # newc
                     /\ q.conn \in Recycled => recyAge[q.conn] =< q.age + MaxStall
  BY <1>4, <1>6, Constants
<1>8. {r} \in SUBSET Request
  BY <1>3
<1>9. QED
  BY <1>1, <1>5, <1>7, <1>8, ReturnKeeps DEF Received, At

LEMMA DropKeeps ==
  ASSUME Inv, NEW r \in requests, Drop(r)
  PROVE  Inv'
<1> USE DEF poolVars, recyVars, objectVars, threadVars, Drop
<1>1. requests' \subseteq requests
  OBVIOUS
<1>2. TypeOK'
  BY DEF TypeOK, Inv
<1>3. Lists' /\ Control'
  BY DEF Lists, Control, Inv, Free, Recycled
<1>4. Numbers'
  BY <1>1 DEF Numbers, Stale, Inv, Recycled
<1>5. Kept'
  BY <1>1 DEF Kept, Stale, Inv, Recycled
<1>6. OnlineExact'
  BY DEF OnlineExact, Online, Inv, InRecyList
<1>7. QED
  BY <1>2, <1>3, <1>4, <1>5, <1>6 DEF Inv

\* A message that is not stale is of the client its object is kept for, and has not
\* been overtaken by the recycling.
LEMMA Fresh ==
  ASSUME Inv, NEW t \in Closers, NEW r \in requests \cup stamps, ~Stale(r)
  PROVE  /\ t \in Threads /\ r.conn \in Objects /\ r.client \in Clients
         /\ client[r.conn] = r.client /\ r.conn # newc
         /\ r.conn \in Recycled => recyAge[r.conn] =< Allowance(t)
<1>1. r.conn \in Objects /\ r.client \in Clients /\ t \in Threads
  BY Shape DEF Inv, Threads
<1>2. client[r.conn] = r.client /\ r.conn # newc
  BY DEF Inv, Numbers
<1>3. CASE r \in stamps
  BY <1>1, <1>2, <1>3 DEF Inv, Numbers
<1>4. CASE r \in requests
  <2>1. r.age \in 0..MaxDelay
    BY <1>4, Shape DEF Inv
  <2>2. r.conn \in Recycled => recyAge[r.conn] =< r.age + MaxStall
    BY <1>4 DEF Inv, Kept
  <2>3. Allowance(t) = MaxStall + MaxDelay
    BY ConnPoolAssumption DEF Allowance
  <2>4. recyAge[r.conn] \in Nat
    BY <1>1 DEF Inv, TypeOK
  <2>5. QED
    BY <1>1, <1>2, <2>1, <2>2, <2>3, <2>4, Constants
<1>5. QED
  BY <1>3, <1>4

LEMMA CallsKeep ==
  ASSUME Inv, NEW t \in Closers
  PROVE  /\ \A r \in requests : Handle(t, r) \/ Answer(t, r) => Inv'
         /\ \A r \in stamps : CheckConnection(t, r) => Inv'
<1>1. ASSUME NEW r \in requests, Handle(t, r) PROVE Inv'
  BY <1>1, Fresh, EnterKeeps DEF Handle
<1>2. ASSUME NEW r \in requests, Answer(t, r) PROVE Inv'
  BY <1>2, Fresh, EnterKeeps DEF Answer
<1>3. ASSUME NEW r \in stamps, CheckConnection(t, r) PROVE Inv'
  BY <1>3, Fresh, EnterKeeps DEF CheckConnection
<1>4. QED
  BY <1>1, <1>2, <1>3

LEMMA DoneKeeps ==
  ASSUME Inv, NEW t \in Threads, Done(t)
  PROVE  Inv'
<1>1. {} \in SUBSET Request /\ requests' = requests \cup {}
  BY DEF Done
<1>2. QED
  BY <1>1, ReturnKeeps DEF Done, At

LEMMA CloseKeeps ==
  ASSUME Inv, NEW t \in Threads, CloseSocket(t)
  PROVE  Inv'
<1> USE DEF poolVars, recyVars
<1>1. /\ pc[t] = "call" /\ pc' = [pc EXCEPT ![t] = "recycle"]
      /\ fdOpen' = [fdOpen EXCEPT ![hold[t].conn] = FALSE]
      /\ UNCHANGED <<poolVars, recyVars, iCurrsequence, client, hold, m_onlineUserCount,
                     requests, stamps, newc, nextClient>>
  BY DEF CloseSocket, At, Goto
<1>2. hold[t] # NoCall /\ hold[t].conn \in Objects
  BY <1>1, Shape DEF Inv, Control
<1>3. \A o \in Objects : fdOpen'[o] => fdOpen[o]
  BY <1>1 DEF Inv, TypeOK
<1>4. TypeOK'
  BY <1>1 DEF Inv, TypeOK
<1>5. Lists'
  BY <1>1, <1>3, Shape DEF Lists, Inv, Free, Recycled
<1>6. Control'
  <2>1. ASSUME NEW u \in Threads, pc'[u] = "recycle" PROVE ~fdOpen'[hold[u].conn]
    <3>1. hold[u] # NoCall /\ hold[u].conn \in Objects
      BY <1>1, <1>2, <2>1, Shape DEF Inv, Control, TypeOK
    <3>2. QED
      BY <1>1, <1>3, <2>1, <3>1 DEF Inv, Control, TypeOK
  <2>2. QED
    BY <1>1, <1>2, <2>1, Constants DEF Inv, Control, TypeOK, Threads
<1>7. Numbers' /\ Kept'
  BY <1>1 DEF Numbers, Kept, Stale, Inv, Recycled
<1>8. OnlineExact'
  BY <1>1 DEF OnlineExact, Online, Inv, InRecyList
<1>9. QED
  BY <1>4, <1>5, <1>6, <1>7, <1>8 DEF Inv


\* zdClosesocketProc puts the object into the recycle list, if it is not there.
LEMMA RecycleKeeps ==
  ASSUME Inv, NEW t \in Threads, InRecyConnectQueue(t)
  PROVE  Inv'
<1> DEFINE o == hold[t].conn
<1>1. /\ pc[t] = "recycle" /\ ripe = {} /\ Return(t)
      /\ UNCHANGED <<poolVars, ripe, fdOpen, client, requests, stamps, newc, nextClient>>
  BY DEF InRecyConnectQueue, At
<1>2. hold[t] # NoCall /\ o \in Objects /\ hold[t].client \in Clients /\ ~fdOpen[o]
  BY <1>1, Shape DEF Inv, Control
<1>3. client[o] \in Clients /\ o # newc /\ o =< m_total_connection_n
  BY <1>2, Constants DEF Inv, Kept, Lists, Nobody
<1>4. CASE AlreadyIn(o)
  <2>1. {} \in SUBSET Request /\ requests' = requests \cup {}
    BY <1>1
  <2>2. UNCHANGED <<poolVars, recyVars, objectVars, m_onlineUserCount, stamps, newc,
                    nextClient>>
    BY <1>1, <1>4 DEF InRecyConnectQueue, recyVars, objectVars
  <2>3. QED
    BY <1>1, <2>1, <2>2, ReturnKeeps
<1>5. CASE ~AlreadyIn(o)
  <2>1. /\ recyAge' = [recyAge EXCEPT ![o] = 0]
        /\ iCurrsequence' = [iCurrsequence EXCEPT ![o] = @ + 1]
        /\ m_recyconnectionList' = Append(m_recyconnectionList, o)
        /\ m_onlineUserCount' = m_onlineUserCount - 1
        /\ pc' = [pc EXCEPT ![t] = "idle"] /\ hold' = [hold EXCEPT ![t] = NoCall]
    BY <1>1, <1>5 DEF InRecyConnectQueue, CountOffline, Return, Goto
  <2>2. UNCHANGED <<m_total_connection_n, m_freeconnectionList, ripe, fdOpen, client,
                    requests, stamps, newc, nextClient>>
    BY <1>1 DEF poolVars
  <2>3. o \notin Recycled
    BY <1>2, <1>5, Shape DEF AlreadyIn, Inv
  <2>4. /\ m_recyconnectionList' \in Seq(Objects) /\ Recycled' = Recycled \cup {o}
        /\ IsInjective(m_recyconnectionList')
    BY <1>2, <2>1, <2>3, Enqueued DEF Recycled, Inv, TypeOK, Lists
  <2>5. OnlineExact' /\ m_onlineUserCount' \in Nat
    <3>1. o \in Online
      BY <1>2, <1>3, <1>5 DEF Online, AlreadyIn, Objects
    <3>2. \A x \in Objects : InRecyList(x)' <=> InRecyList(x) \/ x = o
      <4>1. \A x \in Objects : InRecyList(x) <=> x \in Recycled
        BY Shape DEF Inv
      <4>2. \A x \in Objects : InRecyList(x)' <=> x \in Recycled'
        BY <2>4, LenProperties DEF Recycled, InRecyList, Contains, ToSet
      <4>3. QED
        BY <2>4, <4>1, <4>2
    <3>3. 1..m_total_connection_n \subseteq Objects
      BY Constants DEF Inv, TypeOK, Objects
    <3>4. Online' = Online \ {o}
      BY <2>2, <3>2, <3>3 DEF Online
    <3>5. /\ Cardinality(Online') = Cardinality(Online) - 1
          /\ Cardinality(Online') \in Nat
      BY <3>1, <3>4, OnlineFinite, OneLess, FS_CardinalityType DEF Inv
    <3>6. m_onlineUserCount = Cardinality(Online) /\ m_onlineUserCount \in Nat
          /\ m_onlineUserCount =< WorkerConnections
      BY DEF Inv, TypeOK, OnlineExact
    <3>7. m_onlineUserCount' = Cardinality(Online') /\ m_onlineUserCount' \in Nat
          /\ m_onlineUserCount' =< WorkerConnections
      BY <2>1, <3>5, <3>6, Constants
    <3>8. QED
      BY <3>7 DEF OnlineExact
  <2>6. TypeOK'
    BY <1>2, <2>1, <2>2, <2>4, <2>5, Constants DEF TypeOK, Inv
  <2>7. Lists'
    <3>1. \A x \in Recycled' : client[x] \in Clients /\ ~fdOpen[x] /\ x # newc
      BY <1>2, <1>3, <2>4 DEF Inv, Lists
    <3>2. QED
      BY <1>1, <2>2, <2>4, <3>1 DEF Inv, Lists, Free
  <2>8. Control'
    BY <1>1, <2>1, <2>2, Constants DEF Inv, Control, TypeOK, Threads
  <2>9. Numbers'
    <3>1. \A r \in requests \cup stamps : r.conn \in Objects /\ r.seq \in Nat
      BY Shape DEF Inv
    <3>2. ASSUME NEW r \in requests \cup stamps
          PROVE  /\ r.seq =< iCurrsequence'[r.conn]
                 /\ iCurrsequence'[r.conn] = r.seq => ~Stale(r) /\ r.conn # o
      <4>1. r.seq =< iCurrsequence[r.conn] /\ iCurrsequence[o] \in Nat
            /\ iCurrsequence[r.conn] \in Nat
        BY <1>2, <3>1 DEF Inv, Numbers, TypeOK
      <4>2. CASE r.conn = o
        BY <1>2, <2>1, <3>1, <4>1, <4>2 DEF Inv, TypeOK
      <4>3. CASE r.conn # o
        BY <2>1, <3>1, <4>1, <4>3 DEF Inv, TypeOK, Stale
      <4>4. QED
        BY <4>2, <4>3
    <3>3. QED
      BY <2>2, <2>4, <3>2 DEF Inv, Numbers, Stale
  <2>10. Kept'
    <3>1. ASSUME NEW u \in Threads, hold'[u] # NoCall
          PROVE  /\ client[hold'[u].conn] = hold'[u].client /\ hold'[u].conn # newc
                 /\ hold'[u].conn \in Recycled' =>
                      recyAge'[hold'[u].conn] =< hold'[u].age + Allowance(u)
      <4>1. hold'[u] = hold[u] /\ hold[u] # NoCall
        BY <2>1, <3>1 DEF Inv, TypeOK
      <4>2. hold[u].conn \in Objects /\ hold[u].age \in 0..MaxStall
        BY <4>1, Shape DEF Inv
      <4>3. CASE hold[u].conn = o
        <5>1. recyAge'[o] = 0
          BY <1>2, <2>1 DEF Inv, TypeOK
        <5>2. 0 =< hold[u].age + Allowance(u)
          BY <4>2, Constants
        <5>3. QED
          BY <4>1, <4>3, <5>1, <5>2 DEF Inv, Kept
      <4>4. CASE hold[u].conn # o
        BY <2>1, <2>4, <4>1, <4>2, <4>4 DEF Inv, TypeOK, Kept
      <4>5. QED
        BY <4>3, <4>4
    <3>2. ASSUME NEW r \in requests, ~Stale(r)', r.conn \in Recycled'
          PROVE  recyAge'[r.conn] =< r.age + MaxStall
      <4>1. r.conn \in Objects /\ r.age \in 0..MaxDelay /\ r.seq \in Nat
        BY Shape DEF Inv
      <4>2. CASE r.conn = o
        <5>1. recyAge'[o] = 0
          BY <1>2, <2>1 DEF Inv, TypeOK
        <5>2. QED
          BY <4>1, <4>2, <5>1, Constants
      <4>3. CASE r.conn # o
        BY <2>1, <2>4, <3>2, <4>1, <4>3 DEF Inv, TypeOK, Kept, Stale
      <4>4. QED
        BY <4>2, <4>3
    <3>3. QED
      BY <2>2, <3>1, <3>2 DEF Kept, Stale
  <2>11. QED
    BY <2>5, <2>6, <2>7, <2>8, <2>9, <2>10 DEF Inv
<1>6. QED
  BY <1>4, <1>5

-----------------------------------------------------------------------------
(* The accept handler.                                                     *)

LEMMA AcceptKeeps ==
  ASSUME Inv, Accept
  PROVE  Inv'
<1>1. /\ pc[Main] = "idle" /\ nextClient \in Clients /\ m_onlineUserCount < WorkerConnections
      /\ nextClient' = nextClient + 1 /\ pc' = [pc EXCEPT ![Main] = "epollAdd"]
      /\ UNCHANGED <<m_recyconnectionList, recyAge, ripe, hold, m_onlineUserCount, requests,
                     stamps>>
  <2>1. m_onlineUserCount < WorkerConnections
    BY Constants DEF Accept, TooManyOnline, Inv, TypeOK
  <2>2. nextClient \in Clients
    BY Constants DEF Accept, Inv, TypeOK, Clients
  <2>3. QED
    BY <2>1, <2>2 DEF Accept, At, Goto, recyVars
<1>2. PICK o \in Objects :
        /\ GetConnection(o)
        /\ iCurrsequence' = [iCurrsequence EXCEPT ![o] = @ + 1]
        /\ fdOpen' = [fdOpen EXCEPT ![o] = TRUE]
        /\ client' = [client EXCEPT ![o] = nextClient]
        /\ newc' = o
  BY DEF Accept, GetOneToUse
<1>3. newc = 0
  BY <1>1 DEF Inv, Control
<1>4. /\ client[o] = Nobody
      /\ m_total_connection_n' \in Objects /\ m_freeconnectionList' \in Seq(Objects)
      /\ IsInjective(m_freeconnectionList')
      /\ m_total_connection_n' >= m_total_connection_n /\ o =< m_total_connection_n'
      /\ \A x \in Objects : x =< m_total_connection_n' => x =< m_total_connection_n \/ x = o
      /\ Free' = Free \ {o}
  <2>1. CASE /\ m_freeconnectionList # <<>> /\ o = Head(m_freeconnectionList)
             /\ m_freeconnectionList' = Tail(m_freeconnectionList)
             /\ UNCHANGED m_total_connection_n
    <3>1. /\ o \in Free /\ Tail(m_freeconnectionList) \in Seq(Objects)
          /\ Free = Free' \cup {o} /\ IsInjective(Tail(m_freeconnectionList))
          /\ o \notin Free'
      BY <2>1, Dequeued DEF Free, Inv, TypeOK, Lists
    <3>2. QED
      BY <2>1, <3>1 DEF Inv, TypeOK, Lists, Objects
  <2>2. CASE /\ m_freeconnectionList = <<>> /\ o = m_total_connection_n + 1
             /\ m_total_connection_n' = o
             /\ UNCHANGED m_freeconnectionList
    <3>1. o \notin Free
      BY <2>2, EmptySeq DEF Free, ToSet
    <3>2. client[o] = Nobody
      BY <2>2 DEF Inv, Lists, TypeOK, Objects
    <3>3. QED
      BY <2>2, <3>1, <3>2 DEF Inv, Lists, TypeOK, Objects, Free
  <2>3. QED
    BY <1>2, <2>1, <2>2 DEF GetConnection
<1>5. o \notin Recycled /\ \A t \in Threads : hold[t] # NoCall => hold[t].conn # o
  BY <1>4, Constants, Shape DEF Inv, Lists, Kept, Nobody
<1>6. \A x \in Objects : x # o => /\ iCurrsequence'[x] = iCurrsequence[x]
                                  /\ fdOpen'[x] = fdOpen[x] /\ client'[x] = client[x]
  BY <1>2 DEF Inv, TypeOK
<1>7. client'[o] = nextClient /\ iCurrsequence'[o] = iCurrsequence[o] + 1
  BY <1>2 DEF Inv, TypeOK
<1>8. TypeOK'
  <2>1. nextClient' \in 1..(MaxClients + 1)
    BY <1>1, Constants DEF Clients
  <2>2. /\ iCurrsequence' \in [Objects -> Nat] /\ fdOpen' \in [Objects -> BOOLEAN]
        /\ client' \in [Objects -> Clients \cup {Listening, Nobody}]
    BY <1>1, <1>2 DEF Inv, TypeOK
  <2>3. pc' \in [Threads -> {"idle", "call", "recycle", "epollAdd"}]
    BY <1>1, Constants DEF Inv, TypeOK
  <2>4. QED
    BY <1>1, <1>2, <1>4, <2>1, <2>2, <2>3 DEF Inv, TypeOK
<1>9. Lists'
  <2>1. \A x \in Objects : x \in Free' <=> x =< m_total_connection_n' /\ client'[x] = Nobody
    <3>1. nextClient # Nobody
      BY <1>1, Constants DEF Nobody
    <3>2. ASSUME NEW x \in Objects, x # o
          PROVE  x =< m_total_connection_n' <=> x =< m_total_connection_n
      BY <1>4, <3>2 DEF Inv, TypeOK, Objects
    <3>3. QED
      BY <1>4, <1>6, <1>7, <3>1, <3>2 DEF Inv, Lists
  <2>2. \A x \in Objects : client'[x] # Nobody => x =< m_total_connection_n'
    BY <1>4, <1>6 DEF Inv, Lists, TypeOK, Objects
  <2>3. \A x \in Recycled : client'[x] \in Clients /\ ~fdOpen'[x] /\ x # o
    BY <1>5, <1>6, Shape DEF Inv, Lists
  <2>4. Recycled' = Recycled
    BY <1>1 DEF Recycled
  <2>5. QED
    BY <1>1, <1>2, <1>4, <2>1, <2>2, <2>3, <2>4 DEF Inv, Lists
<1>10. Control'
  <2>1. \A t \in Threads : hold[t] # NoCall => fdOpen'[hold[t].conn] = fdOpen[hold[t].conn]
    BY <1>5, <1>6, Shape DEF Inv
  <2>2. newc' # 0 /\ client'[newc'] \in Clients
    BY <1>1, <1>2, <1>7, Constants
  <2>3. pc' \in [Threads -> {"idle", "call", "recycle", "epollAdd"}] /\ pc'[Main] = "epollAdd"
        /\ \A t \in Threads : t # Main => pc'[t] = pc[t]
    BY <1>1, <1>8, Constants DEF Inv, TypeOK
  <2>4. \A t \in Closers : t \in Threads /\ t # Main
    BY ConnPoolAssumption DEF Threads
  <2>5. QED
    BY <1>1, <2>1, <2>2, <2>3, <2>4 DEF Inv, Control
<1>11. Numbers'
  <2>1. ASSUME NEW r \in requests \cup stamps
        PROVE  /\ r.seq =< iCurrsequence'[r.conn]
               /\ iCurrsequence'[r.conn] = r.seq => ~Stale(r) /\ r.conn # o
    <3>1. r.conn \in Objects /\ r.seq \in Nat
      BY Shape DEF Inv
    <3>2. r.seq =< iCurrsequence[r.conn] /\ iCurrsequence[r.conn] \in Nat
      BY <3>1 DEF Inv, Numbers, TypeOK
    <3>3. QED
      BY <1>6, <1>7, <3>1, <3>2 DEF Stale
  <2>2. \A r \in requests \cup stamps : r.conn \in Objects
    BY Shape DEF Inv
  <2>3. QED
    BY <1>1, <1>2, <1>6, <2>1, <2>2 DEF Inv, Numbers, Stale, Recycled
<1>12. Kept'
  <2>1. \A t \in Threads : hold[t] # NoCall => hold[t].conn \in Objects
    BY Shape DEF Inv
  <2>2. \A r \in requests : r.conn \in Recycled => r.conn \in Objects /\ r.conn # o
    BY <1>5, Shape DEF Inv
  <2>3. QED
    BY <1>1, <1>2, <1>5, <1>6, <2>1, <2>2 DEF Inv, Kept, Stale, Recycled
<1>13. OnlineExact'
  <2>1. o \notin Online
    BY <1>4, Constants DEF Online, Nobody
  <2>2. 1..m_total_connection_n \subseteq Objects /\ 1..m_total_connection_n' \subseteq Objects
    BY <1>4, Constants DEF Inv, TypeOK, Objects
  <2>3. \A x \in Objects : InRecyList(x)' <=> InRecyList(x)
    BY <1>1 DEF InRecyList
  <2>4. \A x \in Objects : x \in Online' <=> x \in Online
    <3>1. ASSUME NEW x \in Objects, x # o
          PROVE  x \in 1..m_total_connection_n' <=> x \in 1..m_total_connection_n
      BY <1>4, <3>1 DEF Inv, TypeOK, Objects
    <3>2. ASSUME NEW x \in Objects, x # o PROVE x \in Online' <=> x \in Online
      BY <1>2, <1>3, <1>6, <2>3, <3>1, <3>2, Constants DEF Online
    <3>3. o \notin Online'
      BY <1>2 DEF Online
    <3>4. QED
      BY <2>1, <3>2, <3>3
  <2>5. Online' = Online
    BY <2>2, <2>4 DEF Online
  <2>6. QED
    BY <1>1, <2>5 DEF OnlineExact, Inv
<1>14. QED
  BY <1>8, <1>9, <1>10, <1>11, <1>12, <1>13 DEF Inv

LEMMA EpollAddKeeps ==
  ASSUME Inv, EpollAdd
  PROVE  Inv'
<1> USE DEF poolVars, recyVars, objectVars
<1> DEFINE s == [conn |-> newc, client |-> client[newc], seq |-> iCurrsequence[newc]]
<1>1. /\ pc[Main] = "epollAdd" /\ pc' = [pc EXCEPT ![Main] = "idle"]
      /\ stamps' = stamps \cup {s} /\ m_onlineUserCount' = m_onlineUserCount + 1
      /\ newc' = 0
      /\ UNCHANGED <<poolVars, recyVars, objectVars, hold, requests, nextClient>>
  BY DEF EpollAdd, At, Goto
<1>2. /\ newc \in Objects /\ client[newc] \in Clients /\ m_onlineUserCount < WorkerConnections
      /\ newc \notin Recycled /\ iCurrsequence[newc] \in Nat
  BY <1>1 DEF Inv, Control, TypeOK, Lists
<1>3. /\ s \in Stamp /\ s.conn = newc /\ s.client = client[newc]
      /\ s.seq = iCurrsequence[newc]
  BY <1>2 DEF Stamp
<1> HIDE DEF s
<1>4. TypeOK'
  <2>1. pc' \in [Threads -> {"idle", "call", "recycle", "epollAdd"}]
    BY <1>1, Constants DEF Inv, TypeOK
  <2>2. m_onlineUserCount' \in Nat /\ stamps' \subseteq Stamp
    BY <1>1, <1>3 DEF Inv, TypeOK
  <2>3. QED
    BY <1>1, <2>1, <2>2 DEF Inv, TypeOK
<1>5. Lists'
  BY <1>1, Shape, Constants DEF Inv, Lists, Free, Recycled
<1>6. Control'
  BY <1>1, Constants DEF Inv, Control, TypeOK, Threads
<1>7. Numbers'
  <2>1. \A r \in requests \cup stamps : r.conn # 0
    BY Shape, Constants DEF Inv
  <2>2. newc # 0
    BY <1>2, Constants
  <2>3. QED
    BY <1>1, <1>2, <1>3, <2>1, <2>2 DEF Inv, Numbers, Stale, Recycled
<1>8. Kept'
  <2>1. \A t \in Threads : hold[t] # NoCall => hold[t].conn # 0
    BY Shape, Constants DEF Inv
  <2>2. QED
    BY <1>1, <2>1 DEF Inv, Kept, Stale, Recycled
<1>9. OnlineExact'
  <2>1. newc \notin Online
    BY DEF Online
  <2>2. newc \in 1..m_total_connection_n /\ ~InRecyList(newc)
    <3>1. client[newc] # Nobody
      BY <1>2, Constants DEF Nobody
    <3>2. newc \in Nat /\ newc >= 1
      BY <1>2 DEF Objects
    <3>3. QED
      BY <1>2, <3>1, <3>2, Shape DEF Inv, Lists, TypeOK, Objects
  <2>3. Online' = Online \cup {newc}
    <3>1. \A x \in 1..m_total_connection_n : InRecyList(x)' <=> InRecyList(x)
      BY <1>1 DEF InRecyList
    <3>2. 0 \notin 1..m_total_connection_n
      BY DEF Inv, TypeOK, Objects
    <3>3. QED
      BY <1>1, <1>2, <2>2, <3>1, <3>2 DEF Online
  <2>4. Cardinality(Online') = Cardinality(Online) + 1
    BY <2>1, <2>3, OnlineFinite, OneMore DEF Inv
  <2>5. QED
    <3>1. m_onlineUserCount \in Nat
      BY DEF Inv, TypeOK
    <3>2. QED
      BY <1>1, <1>2, <2>4, <3>1, Constants DEF OnlineExact, Inv
<1>10. QED
  BY <1>4, <1>5, <1>6, <1>7, <1>8, <1>9 DEF Inv

\* PutOneToFree and the free list, for an object no thread is in a call on.
LEMMA FreeKeeps ==
  ASSUME Inv, NEW o \in Objects, FreeConnection(o), client[o] \in Clients,
         o \in Recycled \/ o = newc,
         \A t \in Threads : hold[t] # NoCall => hold[t].conn # o,
         m_recyconnectionList' \in Seq(Objects), IsInjective(m_recyconnectionList'),
         Recycled' = Recycled \ {o}, ripe' = ripe \ {o},
         newc' = IF o = newc THEN 0 ELSE newc,
         fdOpen' \in [Objects -> BOOLEAN], \A x \in Objects : fdOpen'[x] => fdOpen[x],
         pc' \in [Threads -> {"idle", "call", "recycle", "epollAdd"}],
         UNCHANGED <<m_total_connection_n, recyAge, hold, m_onlineUserCount, requests, stamps,
                     nextClient>>
  PROVE  TypeOK' /\ Lists' /\ Numbers' /\ Kept' /\ OnlineExact'
<1>1. /\ iCurrsequence' = [iCurrsequence EXCEPT ![o] = @ + 1]
      /\ m_freeconnectionList' = Append(m_freeconnectionList, o)
      /\ client' = [client EXCEPT ![o] = Nobody]
  BY DEF FreeConnection
<1>2. \A x \in Objects : x # o => iCurrsequence'[x] = iCurrsequence[x] /\ client'[x] = client[x]
  BY <1>1 DEF Inv, TypeOK
<1>3. client'[o] = Nobody /\ iCurrsequence'[o] = iCurrsequence[o] + 1
  BY <1>1 DEF Inv, TypeOK
<1>4. o \notin Free /\ o =< m_total_connection_n
  BY Constants DEF Inv, Lists, Nobody
<1>5. /\ m_freeconnectionList' \in Seq(Objects) /\ IsInjective(m_freeconnectionList')
      /\ Free' = Free \cup {o}
  BY <1>1, <1>4, Enqueued DEF Free, Inv, TypeOK, Lists
<1>6. TypeOK'
  <2>1. /\ iCurrsequence' \in [Objects -> Nat]
        /\ client' \in [Objects -> Clients \cup {Listening, Nobody}]
    BY <1>1 DEF Inv, TypeOK
  <2>2. newc' \in Objects \cup {0} /\ ripe' \subseteq Objects
    BY DEF Inv, TypeOK
  <2>3. QED
    BY <1>5, <2>1, <2>2 DEF Inv, TypeOK
<1>7. Lists'
  <2>1. \A x \in Objects : x \in Free' <=> x =< m_total_connection_n /\ client'[x] = Nobody
    BY <1>2, <1>3, <1>4, <1>5 DEF Inv, Lists
  <2>2. \A x \in Objects : client'[x] # Nobody => x =< m_total_connection_n
    BY <1>2, <1>3 DEF Inv, Lists
  <2>3. \A x \in Recycled' : client'[x] \in Clients /\ ~fdOpen'[x] /\ x # newc'
    <3>1. \A x \in Recycled' : x \in Objects /\ x \in Recycled /\ x # o /\ x # 0
      BY Shape, Constants DEF Inv
    <3>2. QED
      BY <1>2, <3>1 DEF Inv, Lists
  <2>4. QED
    BY <1>5, <2>1, <2>2, <2>3 DEF Inv, Lists
<1>8. Numbers'
  <2>1. ASSUME NEW r \in requests \cup stamps
        PROVE  /\ r.seq =< iCurrsequence'[r.conn]
               /\ iCurrsequence'[r.conn] = r.seq =>
                    ~Stale(r) /\ client'[r.conn] = client[r.conn] /\ r.conn # newc'
    <3>1. r.conn \in Objects /\ r.seq \in Nat
      BY Shape DEF Inv
    <3>2. r.seq =< iCurrsequence[r.conn] /\ iCurrsequence[r.conn] \in Nat
      BY <3>1 DEF Inv, Numbers, TypeOK
    <3>3. ~Stale(r) => r.conn # newc
      BY DEF Inv, Numbers
    <3>4. QED
      BY <1>2, <1>3, <3>1, <3>2, <3>3, Constants DEF Stale
  <2>2. QED
    BY <2>1 DEF Inv, Numbers, Stale
<1>9. Kept'
  <2>1. ASSUME NEW t \in Threads, hold[t] # NoCall
        PROVE  client'[hold[t].conn] = hold[t].client /\ hold[t].conn # newc'
    <3>1. hold[t].conn \in Objects /\ hold[t].conn # o /\ hold[t].conn # 0
      BY <2>1, Shape, Constants DEF Inv
    <3>2. QED
      BY <1>2, <2>1, <3>1 DEF Inv, Kept
  <2>2. \A r \in requests : ~Stale(r)' /\ r.conn \in Recycled' =>
          ~Stale(r) /\ r.conn \in Recycled
    BY <1>2, Shape DEF Inv, Stale
  <2>3. QED
    BY <2>1, <2>2 DEF Inv, Kept
<1>10. OnlineExact'
  <2>1. 1..m_total_connection_n \subseteq Objects /\ 0 \notin Objects
    BY Constants DEF Inv, TypeOK, Objects
  <2>2. \A x \in Objects : InRecyList(x) <=> x \in Recycled
    BY Shape DEF Inv
  <2>3. \A x \in Objects : InRecyList(x)' <=> x \in Recycled'
    BY LenProperties DEF Recycled, InRecyList, Contains, ToSet
  <2>4. o \notin Online /\ o \notin Online'
    <3>1. o \notin Online'
      BY <1>3, Constants DEF Online, Nobody
    <3>2. o \notin Online
      BY <2>2 DEF Online
    <3>3. QED
      BY <3>1, <3>2
  <2>5. ASSUME NEW x \in Objects, x # o PROVE x \in Online' <=> x \in Online
    <3>1. (x # newc') <=> (x # newc)
      BY <2>1, <2>5
    <3>2. InRecyList(x)' <=> InRecyList(x)
      BY <2>2, <2>3, <2>5
    <3>3. QED
      BY <1>2, <2>5, <3>1, <3>2 DEF Online
  <2>6. Online' = Online
    BY <2>1, <2>4, <2>5 DEF Online
  <2>7. QED
    BY <2>6 DEF OnlineExact, Inv
<1>11. QED
  BY <1>6, <1>7, <1>8, <1>9, <1>10

LEMMA EpollAddFailsKeeps ==
  ASSUME Inv, EpollAddFails
  PROVE  Inv'
<1>1. /\ pc[Main] = "epollAdd" /\ pc' = [pc EXCEPT ![Main] = "idle"]
      /\ FreeConnection(newc) /\ fdOpen' = [fdOpen EXCEPT ![newc] = FALSE]
      /\ newc' = 0
      /\ UNCHANGED <<m_total_connection_n, m_recyconnectionList, recyAge, ripe, hold,
                     m_onlineUserCount, requests, stamps, nextClient>>
  BY DEF EpollAddFails, At, Goto, recyVars
<1>2. newc \in Objects /\ client[newc] \in Clients /\ newc \notin Recycled
  BY <1>1 DEF Inv, Control, TypeOK, Lists
<1>3. \A t \in Threads : hold[t] # NoCall => hold[t].conn # newc
  BY DEF Inv, Kept
<1>4. /\ fdOpen' \in [Objects -> BOOLEAN] /\ \A x \in Objects : fdOpen'[x] => fdOpen[x]
      /\ pc' \in [Threads -> {"idle", "call", "recycle", "epollAdd"}]
  BY <1>1, <1>2 DEF Inv, TypeOK
<1>5. Recycled' = Recycled \ {newc} /\ ripe' = ripe \ {newc}
  BY <1>1, <1>2 DEF Inv, Lists, Recycled
<1>6. /\ m_recyconnectionList' \in Seq(Objects) /\ IsInjective(m_recyconnectionList')
  BY <1>1 DEF Inv, TypeOK, Lists
<1>7. TypeOK' /\ Lists' /\ Numbers' /\ Kept' /\ OnlineExact'
  BY <1>1, <1>2, <1>3, <1>4, <1>5, <1>6, FreeKeeps
<1>8. Control'
  <2>1. \A t \in Threads : t # Main => pc'[t] = pc[t]
    BY <1>1 DEF Inv, TypeOK
  <2>2. pc'[Main] = "idle"
    BY <1>1, Constants DEF Inv, TypeOK
  <2>3. \A t \in Threads : hold[t] # NoCall => hold[t].conn \in Objects
    BY Shape DEF Inv
  <2>4. QED
    BY <1>1, <1>4, <2>1, <2>2, <2>3 DEF Inv, Control, Threads
<1>9. QED
  BY <1>7, <1>8 DEF Inv

-----------------------------------------------------------------------------
(* ServerRecyConnectionThread.                                             *)

\* What is due was recycled too long ago for anyone to be in a call on it.
LEMMA RecyScanKeeps ==
  ASSUME Inv, RecyScan
  PROVE  Inv'
<1> USE DEF poolVars, objectVars, threadVars
<1>1. /\ ripe' = {o \in Objects : InRecyList(o) /\ Due(o)}
      /\ UNCHANGED <<poolVars, m_recyconnectionList, recyAge, objectVars, threadVars,
                     m_onlineUserCount, requests, stamps, newc, nextClient>>
  BY DEF RecyScan
<1>2. TypeOK'
  BY <1>1 DEF Inv, TypeOK
<1>3. Lists'
  <2>1. \A o \in ripe' : o \in Recycled /\ recyAge[o] >= RecyWait /\ recyAge[o] \in 0..RecyWait
    BY <1>1, Shape DEF Inv, TypeOK, Due
  <2>2. \A o \in ripe' : o \in Recycled /\ recyAge[o] = RecyWait
    BY <2>1, Constants
  <2>3. QED
    BY <1>1, <2>2 DEF Inv, Lists, Free, Recycled
<1>4. Control' /\ Numbers' /\ Kept'
  BY <1>1 DEF Inv, Control, Numbers, Kept, Stale, Recycled
<1>5. OnlineExact'
  BY <1>1 DEF OnlineExact, Online, Inv, InRecyList
<1>6. QED
  BY <1>2, <1>3, <1>4, <1>5 DEF Inv

LEMMA RecyFreeKeeps ==
  ASSUME Inv, RecyFree
  PROVE  Inv'
<1>1. PICK i \in 1..Len(m_recyconnectionList) :
        /\ m_recyconnectionList[i] \in ripe
        /\ m_recyconnectionList' = RemoveAt(m_recyconnectionList, i)
        /\ FreeConnection(m_recyconnectionList[i])
        /\ ripe' = ripe \ {m_recyconnectionList[i]}
  BY DEF RecyFree
<1> DEFINE o == m_recyconnectionList[i]
<1>2. UNCHANGED <<m_total_connection_n, recyAge, fdOpen, pc, hold, m_onlineUserCount,
                  requests, stamps, newc, nextClient>>
  BY DEF RecyFree, threadVars
<1>3. /\ o \in Objects /\ o \in Recycled /\ recyAge[o] = RecyWait
      /\ client[o] \in Clients /\ o # newc
  BY <1>1, Shape DEF Inv, Lists
<1>4. ASSUME NEW t \in Threads, hold[t] # NoCall PROVE hold[t].conn # o
  <2>1. hold[t].age \in 0..MaxStall
    BY <1>4, Shape DEF Inv
  <2>2. o = hold[t].conn => RecyWait =< hold[t].age + Allowance(t)
    BY <1>3, <1>4 DEF Inv, Kept
  <2>3. QED
    BY <2>1, <2>2, Constants
<1>5. /\ m_recyconnectionList' \in Seq(Objects) /\ IsInjective(m_recyconnectionList')
      /\ Recycled' = Recycled \ {o}
  BY <1>1, Removed DEF Inv, TypeOK, Lists, Recycled
<1>6. /\ fdOpen' \in [Objects -> BOOLEAN] /\ \A x \in Objects : fdOpen'[x] => fdOpen[x]
      /\ pc' \in [Threads -> {"idle", "call", "recycle", "epollAdd"}]
  BY <1>2 DEF Inv, TypeOK
<1> HIDE DEF o
<1>7. TypeOK' /\ Lists' /\ Numbers' /\ Kept' /\ OnlineExact'
  <2>1. newc' = IF o = newc THEN 0 ELSE newc
    BY <1>2, <1>3
  <2>2. FreeConnection(o) /\ ripe' = ripe \ {o}
    BY <1>1 DEF o
  <2>3. QED
    BY <1>2, <1>3, <1>4, <1>5, <1>6, <2>1, <2>2, FreeKeeps
<1>8. Control'
  <2>1. newc # 0 => client'[newc] = client[newc]
    <3>1. client' = [client EXCEPT ![o] = Nobody]
      BY <1>1 DEF FreeConnection, o
    <3>2. QED
      BY <1>3, <3>1 DEF Inv, TypeOK
  <2>2. QED
    BY <1>2, <2>1 DEF Inv, Control
<1>9. QED
  BY <1>7, <1>8 DEF Inv

-----------------------------------------------------------------------------
(* A second passes, a client is refused, or nothing happens.               *)

LEMMA TickKeeps ==
  ASSUME Inv, Tick
  PROVE  Inv'
<1> USE DEF poolVars, objectVars
<1>1. /\ \A t \in Threads : pc[t] # "idle" => hold[t].age < MaxStall
      /\ \A r \in requests : r.age < MaxDelay
      /\ recyAge' = [o \in Objects |-> IF InRecyList(o) THEN Older(recyAge[o], RecyWait)
                                                        ELSE recyAge[o]]
      /\ hold' = [t \in Threads |-> IF hold[t] = NoCall THEN NoCall
                                    ELSE [hold[t] EXCEPT !.age = @ + 1]]
      /\ requests' = {[r EXCEPT !.age = @ + 1] : r \in requests}
      /\ UNCHANGED <<poolVars, m_recyconnectionList, ripe, objectVars, pc, m_onlineUserCount,
                     stamps, newc, nextClient>>
  BY DEF Tick
<1>2. ASSUME NEW o \in Objects
      PROVE  /\ recyAge'[o] \in 0..RecyWait /\ recyAge'[o] =< recyAge[o] + 1
             /\ recyAge[o] = RecyWait => recyAge'[o] = RecyWait
  <2>1. recyAge[o] \in 0..RecyWait
    BY DEF Inv, TypeOK
  <2>2. recyAge'[o] \in {recyAge[o], Older(recyAge[o], RecyWait)}
    BY <1>1
  <2>3. QED
    BY <2>1, <2>2, Constants DEF Older
<1>3. ASSUME NEW t \in Threads, hold[t] # NoCall
      PROVE  /\ hold'[t] \in Call /\ hold'[t] # NoCall
             /\ hold'[t].conn = hold[t].conn /\ hold'[t].client = hold[t].client
             /\ hold'[t].age = hold[t].age + 1
  <2>1. hold[t] \in Call /\ hold[t].age < MaxStall
    BY <1>1, <1>3, Shape DEF Inv, Control
  <2>2. hold'[t] = [conn |-> hold[t].conn, client |-> hold[t].client, age |-> hold[t].age + 1]
    BY <1>1, <1>3, <2>1 DEF Call
  <2>3. hold[t].conn \in Objects /\ hold[t].client \in Clients /\ hold[t].age + 1 \in 0..MaxStall
    BY <2>1, Constants DEF Call
  <2>4. hold'[t] \in Call
    BY <2>2, <2>3 DEF Call
  <2>5. hold'[t].conn = hold[t].conn /\ hold[t].conn # 0
    BY <2>2, <2>3, Constants
  <2>6. hold'[t] # NoCall
    BY <2>5 DEF NoCall
  <2>7. QED
    BY <2>2, <2>4, <2>5, <2>6
<1>4. ASSUME NEW t \in Threads, hold[t] = NoCall PROVE hold'[t] = NoCall
  BY <1>1, <1>4
<1>5. ASSUME NEW q \in requests'
      PROVE  /\ q \in Request
             /\ \E r \in requests : q.conn = r.conn /\ q.client = r.client /\ q.seq = r.seq
                                    /\ q.age = r.age + 1
  <2>1. PICK r \in requests : q = [r EXCEPT !.age = @ + 1]
    BY <1>1
  <2>2. r \in Request /\ r.age < MaxDelay
    BY <1>1 DEF Inv, TypeOK
  <2>3. q = [conn |-> r.conn, client |-> r.client, seq |-> r.seq, age |-> r.age + 1]
    BY <2>1, <2>2 DEF Request
  <2>4. r.age + 1 \in 0..MaxDelay
    BY <2>2, Constants DEF Request
  <2>5. q \in Request
    BY <2>2, <2>3, <2>4 DEF Request
  <2>6. QED
    BY <2>3, <2>5
<1>6. TypeOK'
  <2>1. recyAge' \in [Objects -> 0..RecyWait]
    BY <1>1, <1>2
  <2>2. hold' \in [Threads -> Call \cup {NoCall}]
    BY <1>1, <1>3, <1>4
  <2>3. requests' \subseteq Request
    BY <1>5
  <2>4. QED
    BY <1>1, <2>1, <2>2, <2>3 DEF Inv, TypeOK
<1>7. Lists'
  <2>1. \A o \in ripe : recyAge'[o] = RecyWait
    BY <1>2 DEF Inv, Lists, TypeOK
  <2>2. QED
    BY <1>1, <2>1 DEF Inv, Lists, Free, Recycled
<1>8. Control'
  <2>1. \A t \in Threads : hold'[t] # NoCall <=> hold[t] # NoCall
    BY <1>3, <1>4
  <2>2. \A t \in Threads : pc[t] = "recycle" => hold'[t].conn = hold[t].conn
    BY <1>3 DEF Inv, Control
  <2>3. QED
    BY <1>1, <2>1, <2>2 DEF Inv, Control
<1>9. Numbers'
  BY <1>1, <1>5 DEF Inv, Numbers, Stale, Recycled
<1>10. Kept'
  <2>1. ASSUME NEW t \in Threads, hold'[t] # NoCall
        PROVE  /\ client[hold'[t].conn] = hold'[t].client /\ hold'[t].conn # newc
               /\ hold'[t].conn \in Recycled =>
                    recyAge'[hold'[t].conn] =< hold'[t].age + Allowance(t)
    <3>1. hold[t] # NoCall
      BY <1>4, <2>1
    <3>2. /\ client[hold[t].conn] = hold[t].client /\ hold[t].conn # newc
          /\ hold[t].conn \in Recycled => recyAge[hold[t].conn] =< hold[t].age + Allowance(t)
      BY <3>1 DEF Inv, Kept
    <3>3. hold[t].conn \in Objects /\ hold[t].age \in 0..MaxStall
      BY <3>1, Shape DEF Inv
    <3>4. recyAge[hold[t].conn] \in Nat
      BY <3>3 DEF Inv, TypeOK
    <3>5. recyAge'[hold[t].conn] =< recyAge[hold[t].conn] + 1
          /\ recyAge'[hold[t].conn] \in Nat
      BY <1>2, <3>3
    <3>6. hold[t].conn \in Recycled => recyAge'[hold[t].conn] =< hold[t].age + 1 + Allowance(t)
      BY <3>2, <3>3, <3>4, <3>5, Constants
    <3>7. QED
      BY <1>3, <3>1, <3>2, <3>6
  <2>2. ASSUME NEW q \in requests', ~Stale(q)', q.conn \in Recycled
        PROVE  recyAge'[q.conn] =< q.age + MaxStall
    <3>1. PICK r \in requests : q.conn = r.conn /\ q.seq = r.seq /\ q.age = r.age + 1
      BY <1>5
    <3>2. r.conn \in Objects /\ r.age \in 0..MaxDelay
      BY Shape DEF Inv
    <3>3. recyAge[r.conn] =< r.age + MaxStall
      BY <1>1, <2>2, <3>1 DEF Inv, Kept, Stale
    <3>4. recyAge'[r.conn] =< recyAge[r.conn] + 1 /\ recyAge'[r.conn] \in Nat
      BY <1>2, <3>2
    <3>5. recyAge[r.conn] \in Nat
      BY <3>2 DEF Inv, TypeOK
    <3>6. recyAge'[r.conn] =< r.age + 1 + MaxStall
      BY <3>2, <3>3, <3>4, <3>5, Constants
    <3>7. QED
      BY <3>1, <3>6
  <2>3. QED
    BY <1>1, <2>1, <2>2 DEF Kept, Recycled
<1>11. OnlineExact'
  BY <1>1 DEF OnlineExact, Online, Inv, InRecyList
<1>12. QED
  BY <1>6, <1>7, <1>8, <1>9, <1>10, <1>11 DEF Inv

LEMMA RefuseKeeps ==
  ASSUME Inv, Refuse
  PROVE  Inv'
<1> USE DEF poolVars, recyVars, objectVars, threadVars, Refuse
<1>1. nextClient' \in 1..(MaxClients + 1)
  BY Constants DEF Inv, TypeOK
<1>2. TypeOK'
  BY <1>1 DEF TypeOK, Inv
<1>3. Lists' /\ Control' /\ Numbers' /\ Kept'
  BY DEF Lists, Control, Numbers, Kept, Stale, Inv, Free, Recycled
<1>4. OnlineExact'
  BY DEF OnlineExact, Online, Inv, InRecyList
<1>5. QED
  BY <1>2, <1>3, <1>4 DEF Inv

LEMMA StutterKeeps ==
  ASSUME Inv, UNCHANGED vars
  PROVE  Inv'
<1> USE DEF vars, poolVars, recyVars, objectVars, threadVars
<1>1. TypeOK'
  BY DEF TypeOK, Inv
<1>2. Lists' /\ Control' /\ Numbers' /\ Kept'
  BY DEF Lists, Control, Numbers, Kept, Stale, Inv, Free, Recycled
<1>3. OnlineExact'
  BY DEF OnlineExact, Online, Inv, InRecyList
<1>4. QED
  BY <1>1, <1>2, <1>3 DEF Inv

LEMMA StepKeeps ==
  ASSUME Inv, [Next]_vars
  PROVE  Inv'
<1>1. CASE AcceptHandler
  BY <1>1, RefuseKeeps, AcceptKeeps, EpollAddKeeps, EpollAddFailsKeeps DEF AcceptHandler
<1>2. CASE Received
  BY <1>2, ReceivedKeeps
<1>3. CASE RecycleThread
  BY <1>3, RecyScanKeeps, RecyFreeKeeps DEF RecycleThread
<1>4. CASE Tick
  BY <1>4, TickKeeps
<1>5. CASE \E o \in Objects : Event(o)
  BY <1>5, EventKeeps
<1>6. CASE \E r \in stamps : \E t \in Closers : CheckConnection(t, r)
  BY <1>6, CallsKeep
<1>7. CASE \E r \in requests : Drop(r) \/ \E t \in Closers : Handle(t, r) \/ Answer(t, r)
  BY <1>7, CallsKeep, DropKeeps
<1>8. CASE \E t \in Threads : Done(t) \/ CloseSocket(t) \/ InRecyConnectQueue(t)
  BY <1>8, DoneKeeps, CloseKeeps, RecycleKeeps
<1>9. CASE UNCHANGED vars
  BY <1>9, StutterKeeps
<1>10. QED
  BY <1>1, <1>2, <1>3, <1>4, <1>5, <1>6, <1>7, <1>8, <1>9 DEF Next

LEMMA InitHolds == Init => Inv
<1> SUFFICES ASSUME Init PROVE Inv
  OBVIOUS
<1> DEFINE n == WorkerConnections - Listeners
<1>1. /\ Listeners \in Nat /\ 1 =< Listeners /\ Listeners =< WorkerConnections
      /\ WorkerConnections \in Nat /\ MaxObjects \in Nat /\ WorkerConnections < MaxObjects
      /\ n \in Nat
  BY ConnPoolAssumption
<1>2. m_freeconnectionList = [i \in 1..n |-> i + Listeners]
  BY DEF Init
<1>3. \A i \in 1..n : i + Listeners \in Objects
  BY <1>1 DEF Objects
<1>4. m_freeconnectionList \in Seq(Objects)
  BY <1>1, <1>2, <1>3, IsASeq
<1>5. DOMAIN m_freeconnectionList = 1..n /\ \A i \in 1..n : m_freeconnectionList[i] = i + Listeners
  BY <1>2
<1>6. IsInjective(m_freeconnectionList)
  BY <1>1, <1>5 DEF IsInjective
<1>7. ASSUME NEW o \in Objects
      PROVE  o \in Free <=> Listeners < o /\ o =< WorkerConnections
  <2>1. o \in Free <=> \E i \in 1..n : o = i + Listeners
    BY <1>5 DEF Free, ToSet
  <2>2. Listeners < o /\ o =< WorkerConnections => o - Listeners \in 1..n
                                                   /\ o = (o - Listeners) + Listeners
    BY <1>1 DEF Objects
  <2>3. QED
    BY <1>1, <2>1, <2>2 DEF Objects
<1>8. \A o \in Objects : client[o] = IF o =< Listeners THEN Listening ELSE Nobody
  BY DEF Init
<1>9. Recycled = {}
  BY EmptySeq DEF Init, Recycled, ToSet
<1>10. IsInjective(<<>>)
  BY DEF IsInjective
<1>11. TypeOK
  <2>1. /\ iCurrsequence \in [Objects -> Nat] /\ fdOpen \in [Objects -> BOOLEAN]
        /\ client \in [Objects -> Clients \cup {Listening, Nobody}]
        /\ recyAge \in [Objects -> 0..RecyWait]
    BY Constants DEF Init
  <2>2. /\ m_recyconnectionList \in Seq(Objects) /\ m_total_connection_n \in Objects
        /\ nextClient \in 1..(MaxClients + 1)
    BY <1>1, Constants, EmptySeq DEF Init, Objects
  <2>3. /\ pc \in [Threads -> {"idle", "call", "recycle", "epollAdd"}]
        /\ hold \in [Threads -> Call \cup {NoCall}]
    BY DEF Init
  <2>4. QED
    BY <1>4, <2>1, <2>2, <2>3 DEF Init, TypeOK
<1>12. Lists
  <2>1. Listening # Nobody
    BY DEF Listening, Nobody
  <2>2. \A o \in Objects : o \in Free <=> o =< m_total_connection_n /\ client[o] = Nobody
    BY <1>1, <1>7, <1>8, <2>1 DEF Init, Objects
  <2>3. \A o \in Objects : client[o] # Nobody => o =< m_total_connection_n
    BY <1>1, <1>8, <2>1 DEF Init, Objects
  <2>4. QED
    BY <1>6, <1>9, <1>10, <2>2, <2>3 DEF Init, Lists
<1>13. Control
  BY Constants DEF Init, Control, Threads
<1>14. Numbers /\ Kept
  BY <1>9 DEF Init, Numbers, Kept
<1>15. OnlineExact
  <2>1. \A o \in Objects : client[o] \notin Clients
    BY <1>8, Constants DEF Listening, Nobody
  <2>2. 1..m_total_connection_n \subseteq Objects
    BY <1>11, Constants DEF TypeOK, Objects
  <2>3. Online = {}
    BY <2>1, <2>2 DEF Online
  <2>4. QED
    BY <1>1, <2>3, FS_EmptySet DEF OnlineExact, Init
<1>16. QED
  BY <1>11, <1>12, <1>13, <1>14, <1>15 DEF Inv

LEMMA Invariant == Spec => []Inv
<1>1. QED
  BY InitHolds, StepKeeps, PTL DEF Spec

-----------------------------------------------------------------------------
(* The variables of the pool keep their types.                             *)
THEOREM PoolTyped == Spec => []TypeOK
<1>1. Inv => TypeOK
  BY DEF Inv
<1>2. QED
  BY <1>1, Invariant, PTL

(* The count that ngx_event_accept compares with worker_connections is that *)
(* of the clients that are there, and never more.                           *)
THEOREM OnlineIsExact == Spec => []OnlineExact
<1>1. Inv => OnlineExact
  BY DEF Inv
<1>2. QED
  BY <1>1, Invariant, PTL

(* No object is given to another client while a thread is in a call on it,  *)
(* whatever the threads do: Sock_RecyConnectionWaitTime outlasts a call, the *)
(* wait of the message it queued, and the call that handles the message.     *)
THEOREM CallKeepsItsObject == Spec => []CallKeepsObject
<1>1. Inv => CallKeepsObject
  BY DEF Inv, Kept, CallKeepsObject
<1>2. QED
  BY <1>1, Invariant, PTL

(* iCurrsequence of an object is that of a message or of an entry of the    *)
(* timer queue only while the object is kept for the same client.            *)
THEOREM SequenceIsTrusted == Spec => []SequenceTells
<1>1. Inv => SequenceTells
  BY DEF Inv, Numbers, SequenceTells
<1>2. QED
  BY <1>1, Invariant, PTL

\* How often an object occurs in a list without repetitions.
LEMMA OnceOrNever ==
  ASSUME NEW S, NEW s \in Seq(S), IsInjective(s), NEW e
  PROVE  Occurrences(s, e) = IF e \in ToSet(s) THEN 1 ELSE 0
<1>1. DOMAIN s = 1..Len(s)
  BY LenProperties
<1>2. CASE e \in ToSet(s)
  <2>1. PICK i \in 1..Len(s) : s[i] = e
    BY <1>1, <1>2 DEF ToSet
  <2>2. {j \in 1..Len(s) : s[j] = e} = {i}
    BY <1>1, <2>1 DEF IsInjective
  <2>3. QED
    BY <1>2, <2>2, FS_Singleton DEF Occurrences
<1>3. CASE e \notin ToSet(s)
  <2>1. {j \in 1..Len(s) : s[j] = e} = {}
    BY <1>1, <1>3 DEF ToSet
  <2>2. QED
    BY <1>3, <2>1, FS_EmptySet DEF Occurrences
<1>4. QED
  BY <1>2, <1>3

(* Every object the pool has made is in one place: free and nowhere else,   *)
(* or with a socket, or waiting to be given back, and in a list only once.   *)
THEOREM EveryObjectOnce == Spec => []EachObjectOnce
<1>1. ASSUME Inv PROVE EachObjectOnce
  <2>1. SUFFICES ASSUME NEW o \in 1..m_total_connection_n
                 PROVE  IF client[o] = Nobody
                        THEN Occurrences(m_freeconnectionList, o) = 1 /\ ~InRecyList(o)
                        ELSE /\ Occurrences(m_freeconnectionList, o) = 0
                             /\ Occurrences(m_recyconnectionList, o) =< 1
                             /\ client[o] = Listening => ~InRecyList(o)
    BY DEF EachObjectOnce
  <2>2. o \in Objects /\ o =< m_total_connection_n
    BY <1>1, Constants DEF Inv, TypeOK, Objects
  <2>3. InRecyList(o) <=> o \in Recycled
    BY <1>1, <2>2, Shape DEF Inv
  <2>4. InRecyList(o) => client[o] \in Clients
    BY <1>1, <2>3 DEF Inv, Lists
  <2>5. Nobody \notin Clients /\ Listening \notin Clients
    BY Constants DEF Nobody, Listening
  <2>6. /\ Occurrences(m_freeconnectionList, o) = IF o \in Free THEN 1 ELSE 0
        /\ Occurrences(m_recyconnectionList, o) = IF o \in Recycled THEN 1 ELSE 0
    BY <1>1, OnceOrNever DEF Inv, TypeOK, Lists, Free, Recycled
  <2>7. o \in Free <=> client[o] = Nobody
    BY <1>1, <2>2 DEF Inv, Lists
  <2>8. QED
    BY <2>4, <2>5, <2>6, <2>7
<1>2. QED
  BY <1>1, Invariant, PTL

(* The pool never has more than 5 * worker_connections + 1 objects: it is   *)
(* asked to grow only with an empty free list, which the check of            *)
(* ngx_event_accept does not let through beyond that.                        *)
THEOREM PoolIsBounded == Spec => []PoolBounded
<1>1. Init => PoolBounded
  BY Constants DEF Init, PoolBounded
<1>2. ASSUME Inv, PoolBounded, [Next]_vars PROVE PoolBounded'
  <2>1. m_total_connection_n \in Nat
    BY <1>2 DEF Inv, TypeOK, Objects
  <2>2. CASE Accept
    <3>1. CASE m_freeconnectionList = <<>> /\ m_total_connection_n' = m_total_connection_n + 1
      <4>1. Len(m_freeconnectionList) < WorkerConnections
        BY <3>1, EmptySeq, Constants
      <4>2. ~(m_total_connection_n > WorkerConnections * 5)
        BY <2>2, <4>1 DEF Accept, PoolTooLarge
      <4>3. QED
        BY <2>1, <3>1, <4>2, Constants DEF PoolBounded
    <3>2. CASE UNCHANGED m_total_connection_n
      BY <1>2, <3>2 DEF PoolBounded
    <3>3. QED
      BY <2>2, <3>1, <3>2 DEF Accept, GetConnection
  <2>3. CASE ~Accept
    <3>1. UNCHANGED m_total_connection_n
      BY <1>2, <2>3
      DEF Next, vars, AcceptHandler, Refuse, EpollAdd, EpollAddFails, Received, RecycleThread,
          RecyScan, RecyFree, Tick, Event, CheckConnection, Drop, Handle, Answer, Done,
          CloseSocket, InRecyConnectQueue, poolVars
    <3>2. QED
      BY <1>2, <3>1 DEF PoolBounded
  <2>4. QED
    BY <2>2, <2>3
<1>3. QED
  BY <1>1, <1>2, Invariant, PTL DEF Spec
=============================================================================
