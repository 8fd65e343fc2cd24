--------------------------- MODULE TimerQueueProofs ---------------------------
(***************************************************************************)
(* Theorems of TimerQueue for any number of connections and closing        *)
(* threads, in both modes: its types, the agreement of the queue with what *)
(* is cached of it, one entry for every connection, that whoever is thrown *)
(* out is the client the entry was made for, and when at the latest.       *)
(***************************************************************************)
EXTENDS TimerQueue, DataLemmas

\* Where the threads are and what they hold there.
Control ==
  /\ \A t \in Threads : on[t] # Null <=> pc[t] \in {"delete", "close", "recycle"}
  /\ \A t \in Threads \ {Timer} : pc[t] \in {"idle", "delete", "close", "recycle"}
  /\ pc[Timer] \in {"idle", "collect"} => m_lsIdleList = {}
  /\ pc[Timer] \in {"idle", "collect", "next"} <=> tmpmsg = Null
  /\ on[Timer] # Null => on[Timer] = tmpmsg.conn

\* A connection somebody closes is not free, and has no entry once its entry was
\* deleted; only a used one is open or has an entry, and no more than one.
Places ==
  /\ \A c \in Conns : fdOpen[c] => place[c] = "used"
  /\ \A t \in Threads : on[t] # Null => place[on[t]] # "free"
  /\ \A t \in Threads : pc[t] = "recycle" => ~fdOpen[on[t]]
  /\ \A t \in Threads : pc[t] \in {"close", "recycle"} =>
       \A e \in m_timerQueuemap : e.conn # on[t]
  /\ \A e \in m_timerQueuemap : place[e.conn] = "used"
  /\ \A e, f \in m_timerQueuemap : e.conn = f.conn => e = f

\* An entry has a number its connection has had, and the current one only while the
\* connection is used.
Collected == m_lsIdleList \cup ({tmpmsg} \ {Null})
Entries == m_timerQueuemap \cup Collected
Numbers ==
  /\ \A e \in Entries : e.seq =< iCurrsequence[e.conn]
                        /\ (e.seq = iCurrsequence[e.conn] => place[e.conn] = "used")
  /\ on[Timer] # Null =>
       \/ tmpmsg.seq = iCurrsequence[on[Timer]]
       \/ tmpmsg.seq + 1 = iCurrsequence[on[Timer]] /\ place[on[Timer]] = "recy"

\* EntryPerConnection, without the count: there is one entry, and no other.
Sources == IF m_ifTimeOutKick THEN Entries ELSE m_timerQueuemap
Current(e, c) == e.conn = c /\ e.seq = iCurrsequence[c]
Watched ==
  /\ \A c \in Conns : place[c] = "used" /\ (\A t \in Threads : on[t] # c) =>
       \E e \in Sources : Current(e, c)
  /\ m_ifTimeOutKick =>
       \A e, f \in Entries : e.conn = f.conn /\ e.seq = f.seq => e = f

\* QueueExact for finite sets.
Exact == QueueExact /\ IsFiniteSet(m_timerQueuemap) /\ IsFiniteSet(m_lsIdleList)

Inv == TypeOK /\ Control /\ Places /\ Numbers /\ Watched /\ Exact

-----------------------------------------------------------------------------
(* The numbers of the queue: its size and its earliest time.               *)

LEMMA EarliestEntry ==
  ASSUME NEW Q \in SUBSET Entry, Q # {}
  PROVE  GetEarliestTime(Q) \in 0..MaxTime + WaitTime
<1>1. {e.at : e \in Q} \subseteq 0..MaxTime + WaitTime /\ {e.at : e \in Q} # {}
  BY DEF Entry
<1>2. {e.at : e \in Q} \subseteq Nat
  BY <1>1
<1>3. QED
  BY <1>1, <1>2, LeastElement DEF GetEarliestTime

\* Entries that come back under a later time are as many as they were.
LEMMA SameNumber ==
  ASSUME NEW D, IsFiniteSet(D), D \subseteq Entry, NEW at \in 0..MaxTime + WaitTime,
         \A e, f \in D : e.conn = f.conn => e = f
  PROVE  LET again == {[e EXCEPT !.at = at] : e \in D}
         IN  IsFiniteSet(again) /\ Cardinality(again) = Cardinality(D)
<1> DEFINE again == {[e EXCEPT !.at = at] : e \in D}
           later == [e \in D |-> [e EXCEPT !.at = at]]
<1>1. \A e \in D : later[e].conn = e.conn
  BY DEF Entry
<1>2. \A e, f \in D : later[e] = later[f] => e = f
  <2> HIDE DEF later
  <2> QED
    BY <1>1
<1>3. later \in [D -> again] /\ \A g \in again : \E e \in D : later[e] = g
  OBVIOUS
<1>4. later \in Bijection(D, again)
  <2> HIDE DEF later, again
  <2> QED
    BY <1>2, <1>3 DEF Bijection, Injection, Surjection, IsInjective
<1>5. ExistsBijection(D, again)
  BY <1>4 DEF ExistsBijection
<1>6. QED
  BY <1>5, FS_Bijection

-----------------------------------------------------------------------------
(* The threads.                                                            *)

LEMMA StepControl == TypeOK /\ Control /\ [Next]_vars => Control'
<1>1. SUFFICES ASSUME TypeOK, Control, [Next]_vars PROVE Control'
  OBVIOUS
<1>2. /\ on \in [Threads -> Conns \cup {Null}] /\ Null \notin Conns
      /\ pc \in [Threads -> {"idle", "collect", "next", "check", "delete", "close", "recycle"}]
      /\ m_lsIdleList \subseteq Entry /\ Null \notin Entry
      /\ \A e \in Entry : e.conn \in Conns
      /\ Timer \in Threads
  BY <1>1, TimerAssumption DEF TypeOK, Threads, Entry
<1> USE <1>1, <1>2 DEF Control, Goto
<1>3. CASE UNCHANGED <<pc, on, m_lsIdleList, tmpmsg>>
  BY <1>3
<1>4. ASSUME NEW c \in Conns, AddToTimerQueue(c) \/ HandlePing(c) \/ PutOneToFree(c)
      PROVE  Control'
  BY <1>3, <1>4 DEF AddToTimerQueue, HandlePing, PutOneToFree, timerVars
<1>5. ASSUME NEW t \in Threads, NEW c \in Conns, BeginClose(t, c) PROVE Control'
  BY <1>5 DEF BeginClose, timerVars
<1>6. ASSUME NEW t \in Threads, ZdClosesocketProc(t) PROVE Control'
  <2>1. CASE DeleteFromTimerQueue(t)
    BY <2>1 DEF DeleteFromTimerQueue, timerVars
  <2>2. CASE CloseFd(t)
    BY <2>2 DEF CloseFd, timerVars
  <2>3. CASE InRecyConnectQueue(t)
    BY <2>3 DEF InRecyConnectQueue
  <2>4. QED
    BY <1>6, <2>1, <2>2, <2>3 DEF ZdClosesocketProc
<1>7. CASE Look
  BY <1>7 DEF Look
<1>8. CASE GetOverTimeTimers
  BY <1>8 DEF GetOverTimeTimers
<1>9. CASE NextIdle
  BY <1>9 DEF NextIdle
<1>10. CASE ProcPingTimeOutChecking
  BY <1>10 DEF ProcPingTimeOutChecking, TypeOK
<1>11. CASE Tick
  BY <1>3, <1>11 DEF Tick
<1>12. CASE UNCHANGED vars
  BY <1>3, <1>12 DEF vars, timerVars
<1>13. QED
  BY <1>4, <1>5, <1>6, <1>7, <1>8, <1>9, <1>10, <1>11, <1>12 DEF Next, Step, TimerThread

-----------------------------------------------------------------------------
(* The connections.                                                        *)

\* What the following steps need of the types.
Shapes ==
  /\ Null \notin Conns /\ Null \notin Entry /\ Timer \in Threads /\ Main \in Threads
  /\ on \in [Threads -> Conns \cup {Null}]
  /\ pc \in [Threads -> {"idle", "collect", "next", "check", "delete", "close", "recycle"}]
  /\ place \in [Conns -> {"free", "used", "recy"}] /\ fdOpen \in [Conns -> BOOLEAN]
  /\ iCurrsequence \in [Conns -> Nat]
  /\ \A e \in Entry : e.conn \in Conns /\ e.seq \in Nat
  /\ m_timerQueuemap \subseteq Entry /\ m_lsIdleList \subseteq Entry
  /\ tmpmsg \in Entry \cup {Null}

LEMMA Shaped == TypeOK => Shapes
  BY TimerAssumption DEF TypeOK, Shapes, Threads, Entry

\* A collected entry that comes back is the old one under a later time.
LEMMA Returned ==
  ASSUME TypeOK, GetOverTimeTimers
  PROVE  /\ m_timerQueuemap' \subseteq Entry
         /\ \A e \in m_timerQueuemap' : \E f \in m_timerQueuemap :
              e.conn = f.conn /\ e.seq = f.seq
         /\ (\A e, f \in m_timerQueuemap : e.conn = f.conn => e = f) =>
              \A e, f \in m_timerQueuemap' : e.conn = f.conn => e = f
         /\ ~m_ifTimeOutKick =>
              \A f \in m_timerQueuemap : \E e \in m_timerQueuemap' :
                e.conn = f.conn /\ e.seq = f.seq
<1> DEFINE Q == m_timerQueuemap
           due == {e \in Q : e.at =< cur_time}
           at == cur_time + WaitTime
           later(e) == [e EXCEPT !.at = at]
<1>1. Q \subseteq Entry /\ at \in 0..MaxTime + WaitTime
  BY TimerAssumption DEF TypeOK, Times
<1>2. /\ m_timerQueuemap' = (Q \ due) \cup Again(due)
      /\ Again(due) = IF m_ifTimeOutKick THEN {} ELSE {later(e) : e \in due}
  BY DEF GetOverTimeTimers, Again
<1>3. \A e \in Q : later(e) \in Entry /\ later(e).conn = e.conn /\ later(e).seq = e.seq
  BY <1>1 DEF Entry
<1>4. due \subseteq Q
  OBVIOUS
<1> HIDE DEF Q, due, at, later
<1>5. \A g \in Again(due) : \E e \in due : g = later(e) /\ g.conn = e.conn /\ g.seq = e.seq
  BY <1>2, <1>3, <1>4
<1>6. ~m_ifTimeOutKick => \A e \in due : later(e) \in Again(due)
  BY <1>2
<1>7. m_timerQueuemap' \subseteq Entry
  BY <1>1, <1>2, <1>3, <1>5, <1>4
<1>8. \A e \in m_timerQueuemap' : \E f \in Q : e.conn = f.conn /\ e.seq = f.seq
  BY <1>2, <1>5, <1>4
<1>9. ASSUME \A e, f \in Q : e.conn = f.conn => e = f,
             NEW e \in m_timerQueuemap', NEW f \in m_timerQueuemap', e.conn = f.conn
      PROVE  e = f
  <2>1. CASE e \in Q \ due /\ f \in Q \ due
    BY <1>9, <2>1
  <2>2. CASE e \in Again(due) /\ f \in Again(due)
    <3>1. PICK d \in due : e = later(d) /\ e.conn = d.conn
      BY <1>5, <2>2
    <3>2. PICK g \in due : f = later(g) /\ f.conn = g.conn
      BY <1>5, <2>2
    <3>3. d = g
      BY <1>4, <1>9, <3>1, <3>2
    <3>4. QED
      BY <3>1, <3>2, <3>3
  <2>3. CASE e \in Again(due) /\ f \in Q \ due
    <3>1. PICK d \in due : e.conn = d.conn
      BY <1>5, <2>3
    <3>2. d = f
      BY <1>4, <1>9, <2>3, <3>1
    <3>3. QED
      BY <2>3, <3>2
  <2>4. CASE f \in Again(due) /\ e \in Q \ due
    <3>1. PICK d \in due : f.conn = d.conn
      BY <1>5, <2>4
    <3>2. d = e
      BY <1>4, <1>9, <2>4, <3>1
    <3>3. QED
      BY <2>4, <3>2
  <2>5. QED
    BY <1>2, <1>9, <2>1, <2>2, <2>3, <2>4
<1>10. ASSUME ~m_ifTimeOutKick, NEW f \in Q
       PROVE  \E e \in m_timerQueuemap' : e.conn = f.conn /\ e.seq = f.seq
  BY <1>2, <1>3, <1>6, <1>10
<1>11. QED
  BY <1>7, <1>8, <1>9, <1>10 DEF Q

LEMMA StepPlaces == TypeOK /\ Control /\ Places /\ Numbers /\ [Next]_vars => Places'
<1>1. SUFFICES ASSUME TypeOK, Shapes, Control, Places, Numbers, [Next]_vars PROVE Places'
  BY Shaped
<1> USE <1>1 DEF Shapes, Control, Places, Goto
<1>2. CASE /\ UNCHANGED <<on, place, fdOpen, m_timerQueuemap>>
           /\ \A t \in Threads : pc'[t] \in {"close", "recycle"} => pc'[t] = pc[t]
  BY <1>2
<1>3. ASSUME NEW c \in Conns, AddToTimerQueue(c) PROVE Places'
  <2>1. /\ place[c] = "free" /\ place' = [place EXCEPT ![c] = "used"]
        /\ fdOpen' = [fdOpen EXCEPT ![c] = TRUE] /\ UNCHANGED <<pc, on>>
    BY <1>3 DEF AddToTimerQueue
  <2>2. PICK n : m_timerQueuemap' = m_timerQueuemap \cup {n} /\ n.conn = c
    <3>1. m_timerQueuemap' = m_timerQueuemap \cup
            {[at |-> now + WaitTime, conn |-> c, seq |-> iCurrsequence'[c]]}
      BY <1>3 DEF AddToTimerQueue
    <3>2. [at |-> now + WaitTime, conn |-> c, seq |-> iCurrsequence'[c]].conn = c
      OBVIOUS
    <3>3. QED
      BY <3>1, <3>2
  <2>3. \A t \in Threads : on[t] # c
    BY <2>1
  <2>4. \A e \in m_timerQueuemap : e.conn # c
    BY <2>1
  <2>5. \A t \in Threads : pc[t] \in {"close", "recycle"} => on[t] \in Conns
    OBVIOUS
  <2>6. QED
    BY <2>1, <2>2, <2>3, <2>4, <2>5
<1>4. ASSUME NEW c \in Conns, HandlePing(c) PROVE Places'
  BY <1>2, <1>4 DEF HandlePing, queueVars
<1>5. ASSUME NEW c \in Conns, PutOneToFree(c) PROVE Places'
  <2>1. /\ place[c] = "recy" /\ place' = [place EXCEPT ![c] = "free"]
        /\ UNCHANGED <<pc, on, fdOpen, m_timerQueuemap>>
        /\ \A t \in Threads : on[t] # c
    BY <1>5 DEF PutOneToFree, queueVars
  <2>2. QED
    BY <2>1
<1>6. ASSUME NEW t \in Threads, NEW c \in Conns, BeginClose(t, c) PROVE Places'
  BY <1>6 DEF BeginClose, queueVars, connVars
<1>7. ASSUME NEW t \in Threads, DeleteFromTimerQueue(t) PROVE Places'
  BY <1>7 DEF DeleteFromTimerQueue, connVars
<1>8. ASSUME NEW t \in Threads, CloseFd(t) PROVE Places'
  <2>1. on[t] \in Conns
    BY <1>8 DEF CloseFd
  <2>2. QED
    BY <1>8, <2>1 DEF CloseFd, queueVars
<1>9. ASSUME NEW t \in Threads, InRecyConnectQueue(t) PROVE Places'
  <2>1. on[t] \in Conns /\ ~fdOpen[on[t]] /\ \A e \in m_timerQueuemap : e.conn # on[t]
    BY <1>9 DEF InRecyConnectQueue
  <2>2. /\ place' = [place EXCEPT ![on[t]] = "recy"] /\ on' = [on EXCEPT ![t] = Null]
        /\ UNCHANGED <<m_timerQueuemap, fdOpen>>
        /\ pc' = [pc EXCEPT ![t] = "next"] \/ pc' = [pc EXCEPT ![t] = "idle"]
    BY <1>9 DEF InRecyConnectQueue
  <2>3. QED
    BY <2>1, <2>2
<1>10. CASE GetOverTimeTimers
  <2>1. UNCHANGED <<on, place, fdOpen>> /\ pc' = [pc EXCEPT ![Timer] = "next"]
    BY <1>10 DEF GetOverTimeTimers, connVars
  <2>2. QED
    BY <1>10, <2>1, Returned
<1>11. CASE ProcPingTimeOutChecking
  <2>1. /\ UNCHANGED <<place, fdOpen, m_timerQueuemap>> /\ tmpmsg \in Entry
        /\ pc' = [pc EXCEPT ![Timer] = "next"] \/ pc' = [pc EXCEPT ![Timer] = "delete"]
        /\ UNCHANGED on \/ (on' = [on EXCEPT ![Timer] = tmpmsg.conn]
                            /\ tmpmsg.seq = iCurrsequence[tmpmsg.conn])
    BY <1>11 DEF ProcPingTimeOutChecking, connVars, SameClient
  <2>2. tmpmsg.seq = iCurrsequence[tmpmsg.conn] => place[tmpmsg.conn] = "used"
    BY <2>1 DEF Numbers, Entries, Collected
  <2>3. QED
    BY <2>1, <2>2
<1>12. CASE Look \/ NextIdle \/ Tick
  BY <1>2, <1>12 DEF Look, NextIdle, Tick, queueVars, connVars
<1>13. CASE UNCHANGED vars
  BY <1>2, <1>13 DEF vars, queueVars, connVars
<1>14. QED
  BY <1>1, <1>3, <1>4, <1>5, <1>6, <1>7, <1>8, <1>9, <1>10, <1>11, <1>12, <1>13
     DEF Next, Step, TimerThread, ZdClosesocketProc

-----------------------------------------------------------------------------
(* The numbers.                                                            *)

LEMMA StepNumbers == TypeOK /\ Control /\ Places /\ Numbers /\ [Next]_vars => Numbers'
<1>1. SUFFICES ASSUME TypeOK, Shapes, Control, Places, Numbers, [Next]_vars PROVE Numbers'
  BY Shaped
<1> USE <1>1 DEF Shapes, Control, Places, Goto
<1>2. /\ Entries \subseteq Entry /\ m_timerQueuemap \subseteq Entries
      /\ \A e \in Entries : /\ e.conn \in Conns /\ e.seq \in Nat
                            /\ e.seq =< iCurrsequence[e.conn]
                            /\ e.seq = iCurrsequence[e.conn] => place[e.conn] = "used"
  BY DEF Entries, Collected, Numbers
<1>3. /\ tmpmsg # Null => tmpmsg \in Entries
      /\ on[Timer] # Null =>
           /\ tmpmsg # Null /\ on[Timer] = tmpmsg.conn
           /\ \/ tmpmsg.seq = iCurrsequence[on[Timer]]
              \/ tmpmsg.seq + 1 = iCurrsequence[on[Timer]] /\ place[on[Timer]] = "recy"
  BY DEF Entries, Collected, Numbers
<1>4. CASE /\ Entries' \subseteq Entries /\ UNCHANGED <<iCurrsequence, place>>
           /\ on'[Timer] # Null => UNCHANGED <<tmpmsg>> /\ on'[Timer] = on[Timer]
  BY <1>2, <1>3, <1>4 DEF Numbers
<1>5. CASE UNCHANGED <<m_timerQueuemap, m_lsIdleList, tmpmsg, iCurrsequence, place>>
           /\ on'[Timer] = on[Timer]
  BY <1>4, <1>5 DEF Entries, Collected
<1>6. ASSUME NEW c \in Conns, AddToTimerQueue(c) PROVE Numbers'
  <2> DEFINE n == [at |-> now + WaitTime, conn |-> c, seq |-> iCurrsequence'[c]]
  <2>1. /\ place[c] = "free" /\ place' = [place EXCEPT ![c] = "used"]
        /\ iCurrsequence' = [iCurrsequence EXCEPT ![c] = @ + 1]
        /\ UNCHANGED <<on, m_lsIdleList, tmpmsg>>
        /\ m_timerQueuemap' = m_timerQueuemap \cup {n}
    BY <1>6 DEF AddToTimerQueue, timerVars
  <2>2. n.conn = c /\ n.seq = iCurrsequence'[c]
    OBVIOUS
  <2>3. Entries' = Entries \cup {n}
    BY <2>1 DEF Entries, Collected
  <2> HIDE DEF n
  <2>4. on[Timer] # c
    BY <2>1
  <2>5. \A e \in Entries' : e.seq =< iCurrsequence'[e.conn]
                            /\ (e.seq = iCurrsequence'[e.conn] => place'[e.conn] = "used")
    <3>1. SUFFICES ASSUME NEW e \in Entries
                   PROVE  e.seq =< iCurrsequence'[e.conn]
                          /\ (e.seq = iCurrsequence'[e.conn] => place'[e.conn] = "used")
      BY <2>1, <2>2, <2>3
    <3>2. CASE e.conn = c
      BY <1>2, <2>1, <3>2
    <3>3. CASE e.conn # c
      BY <1>2, <2>1, <3>3
    <3>4. QED
      BY <3>2, <3>3
  <2>6. on'[Timer] # Null =>
          \/ tmpmsg'.seq = iCurrsequence'[on'[Timer]]
          \/ tmpmsg'.seq + 1 = iCurrsequence'[on'[Timer]] /\ place'[on'[Timer]] = "recy"
    BY <1>3, <2>1, <2>4
  <2>7. QED
    BY <2>5, <2>6 DEF Numbers
<1>7. ASSUME NEW c \in Conns, PutOneToFree(c) PROVE Numbers'
  <2>1. /\ place[c] = "recy" /\ place' = [place EXCEPT ![c] = "free"]
        /\ iCurrsequence' = [iCurrsequence EXCEPT ![c] = @ + 1]
        /\ UNCHANGED <<on, m_lsIdleList, tmpmsg, m_timerQueuemap>>
        /\ \A t \in Threads : on[t] # c
    BY <1>7 DEF PutOneToFree, timerVars, queueVars
  <2>2. Entries' = Entries
    BY <2>1 DEF Entries, Collected
  <2>3. \A e \in Entries : e.seq =< iCurrsequence'[e.conn]
                           /\ (e.seq = iCurrsequence'[e.conn] => place'[e.conn] = "used")
    <3>1. TAKE e \in Entries
    <3>2. CASE e.conn = c
      BY <1>2, <2>1, <3>2
    <3>3. CASE e.conn # c
      BY <1>2, <2>1, <3>3
    <3>4. QED
      BY <3>2, <3>3
  <2>4. QED
    BY <1>3, <2>1, <2>2, <2>3 DEF Numbers
<1>8. ASSUME NEW c \in Conns, HandlePing(c) PROVE Numbers'
  BY <1>5, <1>8 DEF HandlePing, timerVars, queueVars
<1>9. ASSUME NEW t \in Threads, NEW c \in Conns, BeginClose(t, c) PROVE Numbers'
  BY <1>5, <1>9 DEF BeginClose, timerVars, queueVars, connVars
<1>10. ASSUME NEW t \in Threads, DeleteFromTimerQueue(t) PROVE Numbers'
  <2>1. /\ m_timerQueuemap' \subseteq m_timerQueuemap
        /\ UNCHANGED <<m_lsIdleList, tmpmsg, iCurrsequence, place, on>>
    BY <1>10 DEF DeleteFromTimerQueue, connVars, timerVars
  <2>2. QED
    BY <1>4, <2>1 DEF Entries, Collected
<1>11. ASSUME NEW t \in Threads, CloseFd(t) PROVE Numbers'
  BY <1>5, <1>11 DEF CloseFd, timerVars, queueVars
<1>12. ASSUME NEW t \in Threads, InRecyConnectQueue(t) PROVE Numbers'
  <2> DEFINE c == on[t]
  <2>1. /\ c \in Conns
        /\ place' = [place EXCEPT ![c] = "recy"]
        /\ iCurrsequence' = [iCurrsequence EXCEPT ![c] =
                               IF place[c] = "recy" THEN @ ELSE @ + 1]
        /\ on' = [on EXCEPT ![t] = Null]
        /\ UNCHANGED <<m_timerQueuemap, m_lsIdleList>>
        /\ tmpmsg' = IF t = Timer THEN Null ELSE tmpmsg
    BY <1>12 DEF InRecyConnectQueue
  <2>2. Entries' \subseteq Entries
    BY <2>1 DEF Entries, Collected
  <2> HIDE DEF c
  <2>3. \A e \in Entries : e.seq =< iCurrsequence'[e.conn]
                           /\ (e.seq = iCurrsequence'[e.conn] => place'[e.conn] = "used")
    <3>1. TAKE e \in Entries
    <3>2. CASE e.conn = c
      BY <1>2, <2>1, <3>2
    <3>3. CASE e.conn # c
      BY <1>2, <2>1, <3>3
    <3>4. QED
      BY <3>2, <3>3
  <2>4. ASSUME on'[Timer] # Null
        PROVE  \/ tmpmsg'.seq = iCurrsequence'[on'[Timer]]
               \/ tmpmsg'.seq + 1 = iCurrsequence'[on'[Timer]] /\ place'[on'[Timer]] = "recy"
    <3>1. t # Timer /\ on'[Timer] = on[Timer] /\ tmpmsg' = tmpmsg /\ tmpmsg \in Entries
      BY <1>3, <2>1, <2>4
    <3>2. CASE on[Timer] = c
      BY <1>2, <1>3, <2>1, <3>1, <3>2
    <3>3. CASE on[Timer] # c
      BY <1>3, <2>1, <2>4, <3>1, <3>3
    <3>4. QED
      BY <3>2, <3>3
  <2>5. QED
    BY <2>2, <2>3, <2>4 DEF Numbers
<1>13. CASE GetOverTimeTimers
  <2>1. /\ UNCHANGED <<on, place, iCurrsequence, tmpmsg>> /\ m_lsIdleList' \subseteq m_timerQueuemap
        /\ pc[Timer] = "collect"
    BY <1>13 DEF GetOverTimeTimers, connVars
  <2>2. \A e \in m_timerQueuemap' : \E f \in m_timerQueuemap : e.conn = f.conn /\ e.seq = f.seq
    BY <1>13, Returned
  <2>3. \A e \in Entries' : \E f \in Entries : e.conn = f.conn /\ e.seq = f.seq
    BY <2>1, <2>2 DEF Entries, Collected
  <2>4. on[Timer] = Null
    BY <2>1
  <2>5. QED
    BY <1>2, <2>1, <2>3, <2>4 DEF Numbers
<1>14. CASE NextIdle
  <2>1. /\ UNCHANGED <<m_timerQueuemap, iCurrsequence, place, on>> /\ pc[Timer] = "next"
        /\ m_lsIdleList' \subseteq m_lsIdleList
        /\ tmpmsg' \in m_lsIdleList \cup {tmpmsg}
    BY <1>14 DEF NextIdle, queueVars, connVars
  <2>2. on[Timer] = Null
    BY <2>1
  <2>3. QED
    BY <1>4, <2>1, <2>2 DEF Entries, Collected
<1>15. CASE ProcPingTimeOutChecking
  <2>1. /\ UNCHANGED <<m_timerQueuemap, m_lsIdleList, iCurrsequence, place>>
        /\ tmpmsg' \in {tmpmsg, Null} /\ tmpmsg \in Entries /\ pc[Timer] = "check"
        /\ \/ UNCHANGED on
           \/ /\ on' = [on EXCEPT ![Timer] = tmpmsg.conn] /\ tmpmsg' = tmpmsg
              /\ tmpmsg.seq = iCurrsequence[tmpmsg.conn]
    BY <1>3, <1>15 DEF ProcPingTimeOutChecking, connVars, SameClient
  <2>2. Entries' \subseteq Entries
    BY <2>1 DEF Entries, Collected
  <2>3. on[Timer] = Null
    BY <2>1
  <2>4. QED
    BY <1>2, <2>1, <2>2, <2>3 DEF Numbers
<1>16. CASE Look \/ Tick
  BY <1>5, <1>16 DEF Look, Tick, queueVars, connVars
<1>17. CASE UNCHANGED vars
  BY <1>5, <1>17 DEF vars, queueVars, connVars, timerVars
<1>18. QED
  BY <1>1, <1>6, <1>7, <1>8, <1>9, <1>10, <1>11, <1>12, <1>13, <1>14, <1>15, <1>16, <1>17
     DEF Next, Step, TimerThread, ZdClosesocketProc

-----------------------------------------------------------------------------
(* The entry of every connection.                                          *)

LEMMA StepWatched ==
  TypeOK /\ Control /\ Places /\ Numbers /\ Watched /\ [Next]_vars => Watched'
<1>1. SUFFICES ASSUME TypeOK, Shapes, Control, Places, Numbers, Watched, [Next]_vars
               PROVE  Watched'
  BY Shaped
<1> USE <1>1 DEF Shapes, Control, Places, Goto
<1>2. UNCHANGED m_ifTimeOutKick
  BY DEF Next, vars
<1>3. /\ Entries \subseteq Entry /\ m_timerQueuemap \subseteq Entries
      /\ \A e \in Entries : /\ e.conn \in Conns /\ e.seq \in Nat
                            /\ e.seq =< iCurrsequence[e.conn]
                            /\ e.seq = iCurrsequence[e.conn] => place[e.conn] = "used"
  BY DEF Entries, Collected, Numbers
<1>4. /\ Sources \subseteq Entries
      /\ \A c \in Conns : place[c] = "used" /\ (\A t \in Threads : on[t] # c) =>
           \E e \in Sources : e.conn = c /\ e.seq = iCurrsequence[c]
      /\ m_ifTimeOutKick =>
           \A e, f \in Entries : e.conn = f.conn /\ e.seq = f.seq => e = f
  BY DEF Watched, Sources, Current, Entries
\* Steps after which the entries of the connections that matter are there as before.
<1>5. ASSUME Entries' \subseteq Entries,
             \A c \in Conns : place'[c] = "used" /\ (\A t \in Threads : on'[t] # c) =>
               /\ place[c] = "used" /\ \A t \in Threads : on[t] # c
               /\ iCurrsequence'[c] = iCurrsequence[c]
               /\ \A e \in Sources : e.conn = c /\ e.seq = iCurrsequence[c] => e \in Sources'
      PROVE  Watched'
  <2>1. \A c \in Conns : place'[c] = "used" /\ (\A t \in Threads : on'[t] # c) =>
          \E e \in Sources' : e.conn = c /\ e.seq = iCurrsequence'[c]
    BY <1>4, <1>5
  <2>2. m_ifTimeOutKick' =>
           \A e, f \in Entries' : e.conn = f.conn /\ e.seq = f.seq => e = f
    BY <1>2, <1>4, <1>5
  <2>3. QED
    BY <2>1, <2>2 DEF Watched, Current
<1>6. CASE UNCHANGED <<m_timerQueuemap, m_lsIdleList, tmpmsg, iCurrsequence, place, on>>
  <2>1. Entries' = Entries /\ Sources' = Sources
    BY <1>2, <1>6 DEF Entries, Collected, Sources
  <2>2. QED
    BY <1>5, <1>6, <2>1
<1>7. ASSUME NEW c \in Conns, AddToTimerQueue(c) PROVE Watched'
  <2> DEFINE n == [at |-> now + WaitTime, conn |-> c, seq |-> iCurrsequence'[c]]
  <2>1. /\ place[c] = "free" /\ place' = [place EXCEPT ![c] = "used"]
        /\ iCurrsequence' = [iCurrsequence EXCEPT ![c] = @ + 1]
        /\ UNCHANGED <<on, m_lsIdleList, tmpmsg>>
        /\ m_timerQueuemap' = m_timerQueuemap \cup {n}
    BY <1>7 DEF AddToTimerQueue, timerVars
  <2>2. n.conn = c /\ n.seq = iCurrsequence'[c]
    OBVIOUS
  <2>3. Entries' = Entries \cup {n} /\ Sources' = Sources \cup {n}
    BY <1>2, <2>1 DEF Entries, Collected, Sources
  <2> HIDE DEF n
  <2>4. \A d \in Conns : place'[d] = "used" /\ (\A t \in Threads : on'[t] # d) =>
          \E e \in Sources' : e.conn = d /\ e.seq = iCurrsequence'[d]
    <3>1. SUFFICES ASSUME NEW d \in Conns, d # c, place[d] = "used",
                          \A t \in Threads : on[t] # d
                   PROVE  \E e \in Sources : e.conn = d /\ e.seq = iCurrsequence'[d]
      BY <2>1, <2>2, <2>3
    <3>2. QED
      BY <1>4, <2>1, <3>1
  <2>5. \A e \in Entries : e.conn # c \/ e.seq # n.seq
    BY <1>3, <2>1, <2>2
  <2>6. m_ifTimeOutKick' =>
           \A e, f \in Entries' : e.conn = f.conn /\ e.seq = f.seq => e = f
    BY <1>2, <1>4, <2>2, <2>3, <2>5
  <2>7. QED
    BY <2>4, <2>6 DEF Watched, Current
<1>8. ASSUME NEW c \in Conns, PutOneToFree(c) PROVE Watched'
  <2>1. /\ place' = [place EXCEPT ![c] = "free"]
        /\ iCurrsequence' = [iCurrsequence EXCEPT ![c] = @ + 1]
        /\ UNCHANGED <<on, m_lsIdleList, tmpmsg, m_timerQueuemap>>
    BY <1>8 DEF PutOneToFree, timerVars, queueVars
  <2>2. Entries' = Entries /\ Sources' = Sources
    BY <1>2, <2>1 DEF Entries, Collected, Sources
  <2>3. QED
    BY <1>5, <2>1, <2>2
<1>9. ASSUME NEW c \in Conns, HandlePing(c) PROVE Watched'
  BY <1>6, <1>9 DEF HandlePing, timerVars, queueVars
<1>10. ASSUME NEW t \in Threads, NEW c \in Conns, BeginClose(t, c) PROVE Watched'
  <2>1. /\ UNCHANGED <<m_timerQueuemap, m_lsIdleList, tmpmsg, iCurrsequence, place>>
        /\ on[t] = Null /\ on' = [on EXCEPT ![t] = c]
    BY <1>10 DEF BeginClose, timerVars, queueVars, connVars
  <2>2. Entries' = Entries /\ Sources' = Sources
    BY <1>2, <2>1 DEF Entries, Collected, Sources
  <2>3. QED
    BY <1>5, <2>1, <2>2
<1>11. ASSUME NEW t \in Threads, DeleteFromTimerQueue(t) PROVE Watched'
  <2>1. /\ m_timerQueuemap' = m_timerQueuemap \ {e \in m_timerQueuemap : e.conn = on[t]}
        /\ UNCHANGED <<m_lsIdleList, tmpmsg, iCurrsequence, place, on>>
    BY <1>11 DEF DeleteFromTimerQueue, connVars, timerVars
  <2>2. /\ Entries' \subseteq Entries
        /\ \A e \in Sources : e.conn # on[t] => e \in Sources'
    BY <1>2, <2>1 DEF Entries, Collected, Sources
  <2>3. QED
    BY <1>5, <2>1, <2>2
<1>12. ASSUME NEW t \in Threads, CloseFd(t) PROVE Watched'
  BY <1>6, <1>12 DEF CloseFd, timerVars, queueVars
<1>13. ASSUME NEW t \in Threads, InRecyConnectQueue(t) PROVE Watched'
  <2> DEFINE c == on[t]
  <2>1. /\ c \in Conns
        /\ place' = [place EXCEPT ![c] = "recy"]
        /\ \A d \in Conns \ {c} : iCurrsequence'[d] = iCurrsequence[d]
        /\ on' = [on EXCEPT ![t] = Null]
        /\ UNCHANGED <<m_timerQueuemap, m_lsIdleList>>
        /\ tmpmsg' = tmpmsg \/ (t = Timer /\ tmpmsg' = Null)
    BY <1>13 DEF InRecyConnectQueue
  <2>2. t = Timer => tmpmsg.conn = c
    BY <2>1
  <2>3. /\ Entries' \subseteq Entries
        /\ \A e \in Sources : e.conn # c => e \in Sources'
    BY <1>2, <2>1, <2>2 DEF Entries, Collected, Sources
  <2> HIDE DEF c
  <2>4. ASSUME NEW d \in Conns, place'[d] = "used", \A u \in Threads : on'[u] # d
        PROVE  d # c /\ place[d] = "used" /\ \A u \in Threads : on[u] # d
    <3>1. d # c /\ place[d] = "used"
      BY <2>1, <2>4
    <3>2. on[t] # d
      BY <3>1 DEF c
    <3>3. QED
      BY <2>1, <2>4, <3>1, <3>2
  <2>5. QED
    BY <1>5, <2>1, <2>3, <2>4
<1>14. CASE GetOverTimeTimers
  <2> DEFINE due == {e \in m_timerQueuemap : e.at =< cur_time}
  <2>1. /\ UNCHANGED <<on, place, iCurrsequence, tmpmsg>>
        /\ m_lsIdleList' = due /\ m_lsIdleList = {}
        /\ m_timerQueuemap' = (m_timerQueuemap \ due) \cup Again(due)
    BY <1>14 DEF GetOverTimeTimers, connVars
  <2>2. CASE m_ifTimeOutKick
    <3>1. Again(due) = {} /\ due \subseteq m_timerQueuemap
      BY <2>2 DEF Again
    <3> HIDE DEF due
    <3>2. Entries' = Entries /\ Sources' = Sources
      BY <1>2, <2>1, <2>2, <3>1 DEF Entries, Collected, Sources
    <3>3. QED
      BY <1>5, <2>1, <3>2
  <2>3. CASE ~m_ifTimeOutKick
    <3>1. \A f \in m_timerQueuemap : \E e \in m_timerQueuemap' :
            e.conn = f.conn /\ e.seq = f.seq
      BY <1>14, <2>3, Returned
    <3>2. Sources = m_timerQueuemap /\ Sources' = m_timerQueuemap'
      BY <1>2, <2>3 DEF Sources
    <3>3. \A c \in Conns : place'[c] = "used" /\ (\A t \in Threads : on'[t] # c) =>
            \E e \in Sources' : e.conn = c /\ e.seq = iCurrsequence'[c]
      BY <1>4, <2>1, <3>1, <3>2
    <3>4. QED
      BY <1>2, <2>3, <3>3 DEF Watched, Current
  <2>4. QED
    BY <2>2, <2>3
<1>15. CASE NextIdle
  <2>1. /\ UNCHANGED <<m_timerQueuemap, iCurrsequence, place, on>> /\ tmpmsg = Null
        /\ \/ UNCHANGED <<m_lsIdleList, tmpmsg>>
           \/ \E e \in m_lsIdleList : m_lsIdleList' = m_lsIdleList \ {e} /\ tmpmsg' = e
    BY <1>15 DEF NextIdle, queueVars, connVars
  <2>2. Entries' = Entries
    BY <2>1 DEF Entries, Collected
  <2>3. Sources' = Sources
    BY <1>2, <2>1, <2>2 DEF Sources
  <2>4. QED
    BY <1>5, <2>1, <2>2, <2>3
<1>16. CASE ProcPingTimeOutChecking
  <2>1. /\ UNCHANGED <<m_timerQueuemap, m_lsIdleList, iCurrsequence, place>>
        /\ tmpmsg \in Entry /\ on[Timer] = Null
        /\ \/ UNCHANGED tmpmsg /\ on' = [on EXCEPT ![Timer] = tmpmsg.conn]
           \/ /\ UNCHANGED on /\ tmpmsg' = Null
              /\ m_ifTimeOutKick => tmpmsg.seq # iCurrsequence[tmpmsg.conn]
    BY <1>16 DEF ProcPingTimeOutChecking, connVars, SameClient, MustGo
  <2>2. Entries' \subseteq Entries
    BY <2>1 DEF Entries, Collected
  <2>3. \A e \in Sources : e.seq = iCurrsequence[e.conn] => e \in Sources'
    BY <1>2, <2>1 DEF Entries, Collected, Sources
  <2>4. \A c \in Conns : (\A t \in Threads : on'[t] # c) => \A t \in Threads : on[t] # c
    BY <2>1
  <2>5. QED
    BY <1>5, <2>1, <2>2, <2>3, <2>4
<1>17. CASE Look \/ Tick
  BY <1>6, <1>17 DEF Look, Tick, queueVars, connVars
<1>18. CASE UNCHANGED vars
  BY <1>6, <1>18 DEF vars, queueVars, connVars, timerVars
<1>19. QED
  BY <1>1, <1>7, <1>8, <1>9, <1>10, <1>11, <1>12, <1>13, <1>14, <1>15, <1>16, <1>17, <1>18
     DEF Next, Step, TimerThread, ZdClosesocketProc

-----------------------------------------------------------------------------
(* The numbers that are cached of the queue.                               *)

LEMMA Without ==
  ASSUME NEW Q, IsFiniteSet(Q), NEW D \in SUBSET Q
  PROVE  /\ IsFiniteSet(D) /\ IsFiniteSet(Q \ D)
         /\ Cardinality(Q \ D) = Cardinality(Q) - Cardinality(D)
         /\ Cardinality(D) \in Nat /\ Cardinality(Q) \in Nat /\ Cardinality(Q \ D) \in Nat
<1>1. Q \cap D = D
  OBVIOUS
<1>2. IsFiniteSet(D)
  BY FS_Subset
<1>3. IsFiniteSet(Q \ D) /\ Cardinality(Q \ D) = Cardinality(Q) - Cardinality(D)
  BY <1>1, FS_Difference
<1>4. QED
  BY <1>2, <1>3, FS_CardinalityType

\* GetOverTimeTimers, with the new entries as many as the ones they replace.
LEMMA CollectExact ==
  ASSUME TypeOK, Shapes, Control, Places, Exact, GetOverTimeTimers, UNCHANGED m_ifTimeOutKick
  PROVE  Exact'
<1> DEFINE Q == m_timerQueuemap
           due == {e \in Q : e.at =< cur_time}
           again == Again(due)
<1>1. /\ m_timerQueuemap' = (Q \ due) \cup again
      /\ m_cur_size_' = SizeAfter(due) /\ headers' = headers + Cardinality(again)
      /\ m_lsIdleList' = due /\ UNCHANGED tmpmsg
      /\ IF due = {} THEN UNCHANGED m_timer_value_ ELSE Refresh(m_timerQueuemap')
      /\ m_lsIdleList = {} /\ tmpmsg = Null
  BY DEF GetOverTimeTimers, Control
<1>2. /\ IsFiniteSet(Q) /\ m_cur_size_ = Cardinality(Q)
      /\ Q # {} => m_timer_value_ = GetEarliestTime(Q)
      /\ headers = m_cur_size_
  <2>1. Cardinality(Q) + 0 + 0 = Cardinality(Q)
    BY FS_CardinalityType DEF Exact
  <2>2. QED
    BY <1>1, <2>1, FS_EmptySet DEF Exact, QueueExact
<1>3. due \in SUBSET Q /\ Q \subseteq Entry
  BY DEF Shapes
<1>4. /\ IsFiniteSet(due) /\ IsFiniteSet(Q \ due)
      /\ Cardinality(Q \ due) = Cardinality(Q) - Cardinality(due)
      /\ Cardinality(due) \in Nat /\ Cardinality(Q) \in Nat /\ Cardinality(Q \ due) \in Nat
  <2> HIDE DEF Q, due
  <2> QED
    BY <1>2, <1>3, Without
<1>5. /\ IsFiniteSet(again)
      /\ Cardinality(again) = IF m_ifTimeOutKick THEN 0 ELSE Cardinality(due)
  <2>1. CASE m_ifTimeOutKick
    BY <2>1, FS_EmptySet DEF Again
  <2>2. CASE ~m_ifTimeOutKick
    <3>1. \A e, f \in due : e.conn = f.conn => e = f
      BY DEF Places
    <3>2. cur_time + WaitTime \in 0..MaxTime + WaitTime
      BY TimerAssumption DEF TypeOK, Times
    <3>3. again = {[e EXCEPT !.at = cur_time + WaitTime] : e \in due}
      BY <2>2 DEF Again
    <3> HIDE DEF due, again
    <3>4. due \subseteq Entry
      BY <1>3
    <3>5. QED
      BY <1>4, <2>2, <3>1, <3>2, <3>3, <3>4, SameNumber
  <2>3. QED
    BY <2>1, <2>2
<1>6. (Q \ due) \cap again = {}
  <2>1. ASSUME NEW e \in Q \ due, e \in again PROVE FALSE
    <3>1. ~m_ifTimeOutKick
      BY <2>1 DEF Again
    <3>2. PICK d \in due : e = [d EXCEPT !.at = cur_time + WaitTime]
      BY <2>1, <3>1 DEF Again
    <3>3. e.conn = d.conn
      BY <1>3, <3>2 DEF Entry
    <3>4. e = d
      BY <1>3, <3>3 DEF Places
    <3>5. QED
      BY <2>1, <3>4
  <2>2. QED
    BY <2>1
<1>7. /\ IsFiniteSet(m_timerQueuemap') /\ m_cur_size_' = Cardinality(m_timerQueuemap')
      /\ headers' = m_cur_size_' + Cardinality(m_lsIdleList')
  <2> HIDE DEF Q, due, again
  <2>1. /\ IsFiniteSet((Q \ due) \cup again)
        /\ Cardinality((Q \ due) \cup again)
             = Cardinality(Q \ due) + Cardinality(again) - Cardinality((Q \ due) \cap again)
    BY <1>4, <1>5, FS_Union
  <2>2. Cardinality((Q \ due) \cap again) = 0
    BY <1>6, FS_EmptySet
  <2>3. Cardinality((Q \ due) \cup again)
          = Cardinality(Q) - Cardinality(due)
              + (IF m_ifTimeOutKick THEN 0 ELSE Cardinality(due))
    BY <1>4, <1>5, <2>1, <2>2
  <2>4. QED
    BY <1>1, <1>2, <1>4, <1>5, <2>1, <2>3 DEF SizeAfter
<1>8. m_timerQueuemap' # {} => m_timer_value_' = GetEarliestTime(m_timerQueuemap')
  <2>1. CASE due = {}
    <3>1. again = {}
      BY <2>1 DEF Again
    <3> HIDE DEF Q, due, again
    <3>2. QED
      BY <1>1, <1>2, <2>1, <3>1
  <2>2. CASE due # {}
    BY <1>1, <2>2 DEF Refresh
  <2>3. QED
    BY <2>1, <2>2
<1>9. headers' = m_cur_size_' + Cardinality(m_lsIdleList')
                   + (IF tmpmsg' = Null THEN 0 ELSE 1)
  BY <1>1, <1>2, <1>4, <1>7, FS_CardinalityType
<1>10. QED
  BY <1>1, <1>4, <1>7, <1>8, <1>9 DEF Exact, QueueExact

LEMMA StepExact == TypeOK /\ Control /\ Places /\ Exact /\ [Next]_vars => Exact'
<1>1. SUFFICES ASSUME TypeOK, Shapes, Control, Places, Exact, [Next]_vars PROVE Exact'
  BY Shaped
<1>2. UNCHANGED m_ifTimeOutKick
  BY <1>1 DEF Next, vars
<1>3. /\ IsFiniteSet(m_timerQueuemap) /\ IsFiniteSet(m_lsIdleList)
      /\ Cardinality(m_timerQueuemap) \in Nat /\ Cardinality(m_lsIdleList) \in Nat
      /\ m_cur_size_ = Cardinality(m_timerQueuemap) /\ m_cur_size_ \in Nat
      /\ headers = m_cur_size_ + Cardinality(m_lsIdleList) + (IF tmpmsg = Null THEN 0 ELSE 1)
  BY <1>1, FS_CardinalityType DEF Exact, QueueExact
<1>4. CASE UNCHANGED <<queueVars, m_lsIdleList, tmpmsg>>
  BY <1>1, <1>4 DEF Exact, QueueExact, queueVars
<1>5. ASSUME NEW c \in Conns, AddToTimerQueue(c) PROVE Exact'
  <2> DEFINE n == [at |-> now + WaitTime, conn |-> c, seq |-> iCurrsequence'[c]]
  <2>1. /\ place[c] = "free" /\ UNCHANGED <<m_lsIdleList, tmpmsg>>
        /\ m_timerQueuemap' = m_timerQueuemap \cup {n}
        /\ m_cur_size_' = m_cur_size_ + 1 /\ headers' = headers + 1
        /\ Refresh(m_timerQueuemap')
    BY <1>5 DEF AddToTimerQueue, timerVars
  <2>2. n.conn = c
    OBVIOUS
  <2> HIDE DEF n
  <2>3. n \notin m_timerQueuemap
    BY <1>1, <2>1, <2>2 DEF Places
  <2>4. /\ IsFiniteSet(m_timerQueuemap')
        /\ Cardinality(m_timerQueuemap') = Cardinality(m_timerQueuemap) + 1
    BY <1>3, <2>1, <2>3, OneMore
  <2>5. m_timerQueuemap' # {} => m_timer_value_' = GetEarliestTime(m_timerQueuemap')
    BY <2>1 DEF Refresh
  <2>6. QED
    BY <1>3, <2>1, <2>4, <2>5 DEF Exact, QueueExact
<1>6. ASSUME NEW c \in Conns, HandlePing(c) \/ PutOneToFree(c) PROVE Exact'
  BY <1>4, <1>6 DEF HandlePing, PutOneToFree, timerVars
<1>7. ASSUME NEW t \in Threads, NEW c \in Conns, BeginClose(t, c) PROVE Exact'
  BY <1>4, <1>7 DEF BeginClose, timerVars
<1>8. ASSUME NEW t \in Threads, DeleteFromTimerQueue(t) PROVE Exact'
  <2> DEFINE gone == {e \in m_timerQueuemap : e.conn = on[t]}
  <2>1. /\ m_timerQueuemap' = m_timerQueuemap \ gone
        /\ m_cur_size_' = m_cur_size_ - Cardinality(gone)
        /\ headers' = headers - Cardinality(gone)
        /\ Refresh(m_timerQueuemap') /\ UNCHANGED <<m_lsIdleList, tmpmsg>>
    BY <1>8 DEF DeleteFromTimerQueue, timerVars
  <2>2. gone \in SUBSET m_timerQueuemap
    OBVIOUS
  <2> HIDE DEF gone
  <2>3. /\ IsFiniteSet(m_timerQueuemap') /\ Cardinality(gone) \in Nat
        /\ Cardinality(m_timerQueuemap') = Cardinality(m_timerQueuemap) - Cardinality(gone)
    BY <1>3, <2>1, <2>2, Without
  <2>4. m_timerQueuemap' # {} => m_timer_value_' = GetEarliestTime(m_timerQueuemap')
    BY <2>1 DEF Refresh
  <2>5. QED
    BY <1>3, <2>1, <2>3, <2>4 DEF Exact, QueueExact
<1>9. ASSUME NEW t \in Threads, CloseFd(t) PROVE Exact'
  BY <1>4, <1>9 DEF CloseFd, timerVars
<1>10. ASSUME NEW t \in Threads, InRecyConnectQueue(t) PROVE Exact'
  <2>1. /\ UNCHANGED <<m_timerQueuemap, m_cur_size_, m_timer_value_, m_lsIdleList>>
        /\ \/ tmpmsg # Null /\ tmpmsg' = Null /\ headers' = headers - 1
           \/ UNCHANGED <<tmpmsg, headers>>
    BY <1>1, <1>10 DEF InRecyConnectQueue, Control
  <2>2. QED
    BY <1>1, <1>3, <2>1 DEF Exact, QueueExact
<1>11. CASE GetOverTimeTimers
  BY <1>1, <1>2, <1>11, CollectExact
<1>12. CASE NextIdle
  <2>1. /\ UNCHANGED queueVars /\ tmpmsg = Null
        /\ \/ UNCHANGED <<m_lsIdleList, tmpmsg>>
           \/ \E e \in m_lsIdleList : m_lsIdleList' = m_lsIdleList \ {e} /\ tmpmsg' = e
    BY <1>1, <1>12 DEF NextIdle, Control
  <2>2. ASSUME NEW e \in m_lsIdleList, m_lsIdleList' = m_lsIdleList \ {e}, tmpmsg' = e
        PROVE  Exact'
    <3>1. /\ IsFiniteSet(m_lsIdleList')
          /\ Cardinality(m_lsIdleList') = Cardinality(m_lsIdleList) - 1
          /\ tmpmsg' # Null
      BY <1>1, <1>3, <2>2, OneLess DEF Shapes
    <3>2. QED
      BY <1>1, <1>3, <2>1, <3>1 DEF Exact, QueueExact, queueVars
  <2>3. QED
    BY <1>4, <2>1, <2>2
<1>13. CASE ProcPingTimeOutChecking
  <2>1. /\ UNCHANGED <<m_timerQueuemap, m_cur_size_, m_timer_value_, m_lsIdleList>>
        /\ \/ tmpmsg # Null /\ tmpmsg' = Null /\ headers' = headers - 1
           \/ UNCHANGED <<tmpmsg, headers>>
    BY <1>1, <1>13 DEF ProcPingTimeOutChecking, Control
  <2>2. QED
    BY <1>1, <1>3, <2>1 DEF Exact, QueueExact
<1>14. CASE Look \/ Tick
  BY <1>4, <1>14 DEF Look, Tick
<1>15. CASE UNCHANGED vars
  BY <1>4, <1>15 DEF vars, timerVars
<1>16. QED
  BY <1>1, <1>5, <1>6, <1>7, <1>8, <1>9, <1>10, <1>11, <1>12, <1>13, <1>14, <1>15
     DEF Next, Step, TimerThread, ZdClosesocketProc

-----------------------------------------------------------------------------
(* Types, the initial state, and the theorems.                             *)

LEMMA StepTypes == TypeOK /\ Control /\ Places /\ Exact /\ Exact' /\ [Next]_vars => TypeOK'
<1>1. SUFFICES ASSUME TypeOK, Shapes, Control, Places, Exact', [Next]_vars PROVE TypeOK'
  BY Shaped
<1>2. m_cur_size_' \in Nat /\ headers' \in Nat
  <2>1. /\ IsFiniteSet(m_timerQueuemap') /\ IsFiniteSet(m_lsIdleList')
        /\ m_cur_size_' = Cardinality(m_timerQueuemap')
        /\ headers' = m_cur_size_' + Cardinality(m_lsIdleList')
                        + (IF tmpmsg' = Null THEN 0 ELSE 1)
    BY <1>1 DEF Exact, QueueExact
  <2>2. QED
    BY <2>1, FS_CardinalityType
<1>3. ASSUME m_timerQueuemap' \subseteq Entry, Refresh(m_timerQueuemap')
      PROVE  m_timer_value_' \in 0..MaxTime + WaitTime
  <2>1. CASE m_timerQueuemap' = {}
    BY <1>1, <1>3, <2>1 DEF Refresh, TypeOK
  <2>2. CASE m_timerQueuemap' # {}
    <3>1. GetEarliestTime(m_timerQueuemap') \in 0..MaxTime + WaitTime
      BY <1>3, <2>2, EarliestEntry
    <3>2. QED
      BY <1>3, <2>2, <3>1 DEF Refresh
  <2>3. QED
    BY <2>1, <2>2
<1>4. /\ WaitTime \in Nat /\ MaxTime \in Nat /\ MaxClients \in Nat
      /\ {Main, Timer} \subseteq Threads
  BY TimerAssumption DEF Threads
<1> USE <1>1, <1>2, <1>4 DEF TypeOK, Goto
<1>5. ASSUME NEW c \in Conns, AddToTimerQueue(c) PROVE TypeOK'
  <2> DEFINE n == [at |-> now + WaitTime, conn |-> c, seq |-> iCurrsequence'[c]]
  <2>1. /\ m_timerQueuemap' = m_timerQueuemap \cup {n} /\ Refresh(m_timerQueuemap')
        /\ iCurrsequence' = [iCurrsequence EXCEPT ![c] = @ + 1]
    BY <1>5 DEF AddToTimerQueue
  <2>2. n \in Entry
    BY <2>1 DEF Entry, Times
  <2> HIDE DEF n
  <2>3. m_timerQueuemap' \subseteq Entry
    BY <2>1, <2>2
  <2>4. m_timer_value_' \in 0..MaxTime + WaitTime
    BY <1>3, <2>1, <2>3
  <2>5. clients' \in 0..MaxClients
    BY <1>5 DEF AddToTimerQueue
  <2>6. QED
    BY <1>5, <2>3, <2>4, <2>5 DEF AddToTimerQueue, timerVars, Next, vars
<1>6. ASSUME NEW c \in Conns, HandlePing(c) PROVE TypeOK'
  BY <1>6 DEF HandlePing, queueVars, timerVars, Next, vars
<1>7. ASSUME NEW c \in Conns, PutOneToFree(c) PROVE TypeOK'
  BY <1>7 DEF PutOneToFree, queueVars, timerVars, Next, vars
<1>8. ASSUME NEW t \in Threads, NEW c \in Conns, BeginClose(t, c) PROVE TypeOK'
  BY <1>8 DEF BeginClose, queueVars, connVars, timerVars, Next, vars
<1>9. ASSUME NEW t \in Threads, DeleteFromTimerQueue(t) PROVE TypeOK'
  <2>1. m_timerQueuemap' \subseteq Entry /\ Refresh(m_timerQueuemap')
    BY <1>9 DEF DeleteFromTimerQueue
  <2>2. m_timer_value_' \in 0..MaxTime + WaitTime
    BY <1>3, <2>1
  <2>3. QED
    BY <1>9, <2>1, <2>2 DEF DeleteFromTimerQueue, connVars, timerVars, Next, vars
<1>10. ASSUME NEW t \in Threads, CloseFd(t) PROVE TypeOK'
  BY <1>10 DEF CloseFd, queueVars, timerVars, Next, vars
<1>11. ASSUME NEW t \in Threads, InRecyConnectQueue(t) PROVE TypeOK'
  <2>1. on[t] \in Conns
    BY <1>11 DEF InRecyConnectQueue, Control
  <2>2. /\ pc' = [pc EXCEPT ![t] = "next"] \/ pc' = [pc EXCEPT ![t] = "idle"]
        /\ tmpmsg' \in {tmpmsg, Null}
    BY <1>11 DEF InRecyConnectQueue
  <2>3. iCurrsequence' \in [Conns -> Nat]
    BY <1>11, <2>1 DEF InRecyConnectQueue
  <2>4. QED
    BY <1>11, <2>1, <2>2, <2>3 DEF InRecyConnectQueue, Next, vars
<1>12. CASE Look
  BY <1>12 DEF Look, queueVars, connVars, Next, vars
<1>13. CASE GetOverTimeTimers
  <2>1. m_timerQueuemap' \subseteq Entry /\ m_lsIdleList' \subseteq Entry
    BY <1>13, Returned DEF GetOverTimeTimers
  <2>2. m_timer_value_' = m_timer_value_ \/ Refresh(m_timerQueuemap')
    BY <1>13 DEF GetOverTimeTimers
  <2>3. m_timer_value_' \in 0..MaxTime + WaitTime
    BY <1>3, <2>1, <2>2
  <2>4. QED
    BY <1>13, <2>1, <2>3 DEF GetOverTimeTimers, connVars, Next, vars
<1>14. CASE NextIdle
  BY <1>14 DEF NextIdle, queueVars, connVars, Next, vars
<1>15. CASE ProcPingTimeOutChecking
  <2>1. tmpmsg \in Entry /\ tmpmsg.conn \in Conns
    BY <1>15 DEF ProcPingTimeOutChecking, Shapes, Control
  <2>2. QED
    BY <1>15, <2>1 DEF ProcPingTimeOutChecking, connVars, Next, vars
<1>16. CASE Tick
  <2>1. now' \in Times
    BY <1>16 DEF Tick, Times
  <2>2. QED
    BY <1>16, <2>1 DEF Tick, queueVars, connVars, Next, vars
<1>17. CASE UNCHANGED vars
  BY <1>17 DEF vars, queueVars, connVars, timerVars
<1>18. QED
  BY <1>5, <1>6, <1>7, <1>8, <1>9, <1>10, <1>11, <1>12, <1>13, <1>14, <1>15, <1>16, <1>17
     DEF Next, Step, TimerThread, ZdClosesocketProc

LEMMA InitInv == Init => Inv
<1>1. SUFFICES ASSUME Init PROVE Inv
  OBVIOUS
<1>2. Timer \in Threads /\ Null \notin Conns /\ 0 \in Times /\ 0 \in 0..MaxTime + WaitTime
      /\ 0 \in 0..MaxClients
  BY TimerAssumption DEF Threads, Times
<1>3. TypeOK
  BY <1>1, <1>2 DEF Init, TypeOK
<1>4. Control /\ Places
  BY <1>1, <1>2 DEF Init, Control, Places
<1>5. Numbers /\ Watched
  BY <1>1, <1>2 DEF Init, Numbers, Watched, Sources, Entries, Collected
<1>6. Exact
  BY <1>1, FS_EmptySet DEF Init, Exact, QueueExact
<1>7. QED
  BY <1>3, <1>4, <1>5, <1>6 DEF Inv

LEMMA Invariance == Spec => []Inv
<1>1. Inv /\ [Next]_vars => Inv'
  BY StepControl, StepPlaces, StepNumbers, StepWatched, StepExact, StepTypes DEF Inv
<1>2. QED
  BY InitInv, <1>1, PTL DEF Spec

\* The variables of the timer queue keep their types (CSocekt's members, the objects
\* and the locals of the timer thread).
THEOREM TimerTyped == Spec => []TypeOK
<1>1. Inv => TypeOK
  BY DEF Inv
<1>2. QED
  BY <1>1, Invariance, PTL

\* m_cur_size_ and m_timer_value_, read without the mutex, are those of the queue at
\* any moment, and no header of an entry is lost or freed twice (AddToTimerQueue,
\* DeleteFromTimerQueue, GetOverTimeTimer, procPingTimeOutChecking).
THEOREM QueueIsExact == Spec => []QueueExact
<1>1. Inv => QueueExact
  BY DEF Inv, Exact
<1>2. QED
  BY <1>1, Invariance, PTL

\* Every open connection that nobody closes has exactly one entry, and one that was
\* given up none (AddToTimerQueue, DeleteFromTimerQueue, GetOverTimeTimer).
THEOREM OneEntryEach == Spec => []EntryPerConnection
<1>1. Inv => EntryPerConnection
  <2>1. SUFFICES ASSUME Inv, Shapes, NEW c \in Conns
        PROVE  LET mine == {e \in m_timerQueuemap : e.conn = c}
                   taken == {e \in m_lsIdleList \cup {tmpmsg} : e # Null /\ e.conn = c}
                   watched == {e \in (IF m_ifTimeOutKick THEN mine \cup taken ELSE mine) :
                                 e.seq = iCurrsequence[c]}
               IN IF place[c] = "used"
                  THEN (\A t \in Threads : on[t] # c) => Cardinality(watched) = 1
                  ELSE mine = {}
    BY Shaped DEF Inv, EntryPerConnection
  <2> DEFINE mine == {e \in m_timerQueuemap : e.conn = c}
             taken == {e \in m_lsIdleList \cup {tmpmsg} : e # Null /\ e.conn = c}
             watched == {e \in (IF m_ifTimeOutKick THEN mine \cup taken ELSE mine) :
                           e.seq = iCurrsequence[c]}
  <2>2. watched = {e \in Sources : e.conn = c /\ e.seq = iCurrsequence[c]}
    BY <2>1 DEF Shapes, Sources, Entries, Collected
  <2>3. ASSUME NEW e \in watched, NEW f \in watched PROVE e = f
    <3>1. /\ e \in Sources /\ e.conn = c /\ e.seq = iCurrsequence[c]
          /\ f \in Sources /\ f.conn = c /\ f.seq = iCurrsequence[c]
      BY <2>2, <2>3
    <3>2. CASE m_ifTimeOutKick
      BY <2>1, <3>1, <3>2 DEF Inv, Watched, Sources
    <3>3. CASE ~m_ifTimeOutKick
      BY <2>1, <3>1, <3>3 DEF Inv, Places, Sources
    <3>4. QED
      BY <3>2, <3>3
  <2>4. ASSUME place[c] = "used", \A t \in Threads : on[t] # c
        PROVE  Cardinality(watched) = 1
    <3>1. PICK e \in watched : TRUE
      BY <2>1, <2>2, <2>4 DEF Inv, Watched, Current
    <3> HIDE DEF watched
    <3>2. watched = {e}
      BY <2>3, <3>1
    <3>3. QED
      BY <3>2, FS_Singleton
  <2>5. place[c] # "used" => mine = {}
    BY <2>1 DEF Inv, Places
  <2>6. QED
    BY <2>4, <2>5
<1>2. QED
  BY <1>1, Invariance, PTL

\* Whoever the timer thread throws out is the client of the entry, or one already
\* closed, never the next client of the object (procPingTimeOutChecking).
THEOREM RightClientKicked == Spec => []RightClient
<1>1. Inv => RightClient
  <2>1. SUFFICES ASSUME Inv, Shapes, on[Timer] # Null
                 PROVE  iCurrsequence[on[Timer]] - tmpmsg.seq \in {0, 1}
    BY Shaped DEF Inv, RightClient
  <2>2. tmpmsg \in Entry /\ on[Timer] \in Conns
    BY <2>1 DEF Inv, Control, Shapes
  <2>3. iCurrsequence[on[Timer]] \in Nat /\ tmpmsg.seq \in Nat
    BY <2>1, <2>2 DEF Shapes
  <2>4. QED
    BY <2>1, <2>3 DEF Inv, Numbers
<1>2. QED
  BY <1>1, Invariance, PTL

-----------------------------------------------------------------------------
(* How old an entry can be.                                                *)

\* A pass of the timer thread takes MaxLag at most, and as long as it has not ticked
\* since Look the pass is of this moment.
Clock ==
  /\ cur_time =< now
  /\ \A c \in Conns : lastPingTime[c] =< now
  /\ pc[Timer] # "idle" => now - cur_time =< MaxLag /\ (looked => cur_time = now)

\* What a pass leaves in the queue is not due at its moment, what it takes was overdue
\* by no more than it can be when a pass begins.
OnTime ==
  /\ \A e \in m_timerQueuemap :
       /\ pc[Timer] = "idle" => e.at >= IF looked THEN now ELSE now - Overdue
       /\ pc[Timer] = "collect" => e.at >= cur_time - Overdue
       /\ pc[Timer] \notin {"idle", "collect"} => e.at > cur_time
  /\ \A e \in Collected : e.at >= cur_time - Overdue

\* What the times are numbers for.
LEMMA Numeric ==
  ASSUME TypeOK
  PROVE  /\ Shapes /\ now \in Nat /\ cur_time \in Nat /\ looked \in BOOLEAN
         /\ lastPingTime \in [Conns -> Nat] /\ since \in [Conns -> Nat]
         /\ WaitTime \in Nat \ {0} /\ Grace \in Nat \ {0} /\ MaxLag \in Nat
         /\ Overdue \in Nat \ {0}
         /\ \A e \in Entry : e.at \in Nat
  BY TimerAssumption, Shaped DEF TypeOK, Times, Entry, Overdue

\* The cached earliest time is a lower bound of the queue.
LEMMA NotYetDue ==
  ASSUME TypeOK, Exact
  PROVE  /\ m_cur_size_ = 0 => m_timerQueuemap = {}
         /\ \A e \in m_timerQueuemap : m_timer_value_ =< e.at
<1>1. m_cur_size_ = 0 => m_timerQueuemap = {}
  BY FS_EmptySet DEF Exact, QueueExact
<1>2. ASSUME NEW e \in m_timerQueuemap
      PROVE  m_timer_value_ =< e.at
  <2> DEFINE S == {f.at : f \in m_timerQueuemap}
  <2>1. S \in SUBSET Nat /\ e.at \in S
    BY Numeric DEF Shapes
  <2> HIDE DEF S
  <2>2. Min(S) =< e.at
    BY <2>1, LeastElement
  <2>3. m_timer_value_ = Min(S)
    BY DEF Exact, QueueExact, GetEarliestTime, S
  <2>4. QED
    BY <2>2, <2>3
<1>3. QED
  BY <1>1, <1>2

LEMMA StepClock == TypeOK /\ Control /\ Clock /\ [Next]_vars => Clock'
<1>1. SUFFICES ASSUME TypeOK, Control, Clock, [Next]_vars PROVE Clock'
  OBVIOUS
<1>2. /\ now \in Nat /\ cur_time \in Nat /\ MaxLag \in Nat /\ looked \in BOOLEAN
      /\ lastPingTime \in [Conns -> Nat] /\ Timer \in Threads
      /\ pc \in [Threads -> {"idle", "collect", "next", "check", "delete", "close", "recycle"}]
  BY <1>1, Numeric DEF Shapes
<1> USE <1>1, <1>2 DEF Clock, Goto
<1>3. ASSUME NEW c \in Conns, AddToTimerQueue(c) \/ HandlePing(c) \/ PutOneToFree(c)
      PROVE  Clock'
  <2>1. /\ UNCHANGED <<now, cur_time, looked, pc>>
        /\ lastPingTime' \in {lastPingTime, [lastPingTime EXCEPT ![c] = now]}
    BY <1>3 DEF AddToTimerQueue, HandlePing, PutOneToFree, timerVars
  <2>2. QED
    BY <2>1
<1>4. ASSUME NEW t \in Threads, NEW c \in Conns, BeginClose(t, c) PROVE Clock'
  BY <1>4 DEF BeginClose, connVars, timerVars
<1>5. ASSUME NEW t \in Threads, ZdClosesocketProc(t) PROVE Clock'
  <2>1. /\ UNCHANGED <<now, cur_time, looked, lastPingTime>>
        /\ pc'[Timer] # "idle" => pc[Timer] # "idle"
    BY <1>5
    DEF ZdClosesocketProc, DeleteFromTimerQueue, CloseFd, InRecyConnectQueue, connVars, timerVars
  <2>2. QED
    BY <2>1
<1>6. CASE Look
  BY <1>6 DEF Look, connVars
<1>7. CASE GetOverTimeTimers \/ NextIdle \/ ProcPingTimeOutChecking
  <2>1. /\ UNCHANGED <<now, cur_time, looked, lastPingTime>> /\ pc[Timer] # "idle"
    BY <1>7 DEF GetOverTimeTimers, NextIdle, ProcPingTimeOutChecking, connVars
  <2>2. QED
    BY <2>1
<1>8. CASE Tick
  BY <1>8 DEF Tick, connVars
<1>9. CASE UNCHANGED vars
  BY <1>9 DEF vars, connVars, timerVars
<1>10. QED
  BY <1>3, <1>4, <1>5, <1>6, <1>7, <1>8, <1>9 DEF Next, Step, TimerThread

LEMMA StepOnTime ==
  TypeOK /\ Control /\ Exact /\ Clock /\ OnTime /\ [Next]_vars => OnTime'
<1>1. SUFFICES ASSUME TypeOK, Control, Exact, Clock, OnTime, [Next]_vars PROVE OnTime'
  OBVIOUS
<1>2. /\ now \in Nat /\ cur_time \in Nat /\ MaxLag \in Nat /\ looked \in BOOLEAN
      /\ WaitTime \in Nat \ {0} /\ Overdue \in Nat \ {0} /\ Timer \in Threads
      /\ pc \in [Threads -> {"idle", "collect", "next", "check", "delete", "close", "recycle"}]
      /\ m_timerQueuemap \subseteq Entry /\ Collected \subseteq Entry
      /\ \A e \in Entry : e.at \in Nat
      /\ cur_time =< now
      /\ pc[Timer] # "idle" => now - cur_time =< MaxLag /\ (looked => cur_time = now)
      /\ pc[Timer] \in {"idle", "collect"} => Collected = {}
  BY <1>1, Numeric DEF Shapes, Collected, Clock, Control
<1> USE <1>1, <1>2 DEF Goto
\* Steps that add no entry and leave the timer thread in its pass.
<1>3. ASSUME UNCHANGED <<now, cur_time, looked>>,
             m_timerQueuemap' \subseteq m_timerQueuemap, Collected' \subseteq Collected,
             \/ pc'[Timer] = pc[Timer]
             \/ {pc[Timer], pc'[Timer]} \cap {"idle", "collect"} = {}
      PROVE  OnTime'
  BY <1>3 DEF OnTime
<1>4. ASSUME NEW c \in Conns, AddToTimerQueue(c) PROVE OnTime'
  <2> DEFINE n == [at |-> now + WaitTime, conn |-> c, seq |-> iCurrsequence'[c]]
  <2>1. /\ UNCHANGED <<now, cur_time, looked, pc, m_lsIdleList, tmpmsg>>
        /\ m_timerQueuemap' = m_timerQueuemap \cup {n} /\ n.at = now + WaitTime
    BY <1>4 DEF AddToTimerQueue, timerVars
  <2> HIDE DEF n
  <2>2. Collected' = Collected
    BY <2>1 DEF Collected
  <2>3. QED
    BY <2>1, <2>2 DEF OnTime
<1>5. ASSUME NEW c \in Conns, HandlePing(c) \/ PutOneToFree(c) PROVE OnTime'
  <2>1. UNCHANGED <<now, cur_time, looked, pc, m_timerQueuemap, m_lsIdleList, tmpmsg>>
    BY <1>5 DEF HandlePing, PutOneToFree, timerVars, queueVars
  <2>2. QED
    BY <1>3, <2>1 DEF Collected
<1>6. ASSUME NEW t \in Threads, NEW c \in Conns, BeginClose(t, c) PROVE OnTime'
  <2>1. /\ UNCHANGED <<now, cur_time, looked, m_timerQueuemap, m_lsIdleList, tmpmsg>>
        /\ pc'[Timer] = pc[Timer]
    BY <1>6 DEF BeginClose, timerVars, queueVars
  <2>2. QED
    BY <1>3, <2>1 DEF Collected
<1>7. ASSUME NEW t \in Threads, ZdClosesocketProc(t) PROVE OnTime'
  <2>1. /\ UNCHANGED <<now, cur_time, looked, m_lsIdleList>>
        /\ m_timerQueuemap' \subseteq m_timerQueuemap
        /\ tmpmsg' \in {tmpmsg, Null}
        /\ IF t = Timer THEN {pc[Timer], pc'[Timer]} \cap {"idle", "collect"} = {}
                        ELSE pc'[Timer] = pc[Timer]
    BY <1>7
    DEF ZdClosesocketProc, DeleteFromTimerQueue, CloseFd, InRecyConnectQueue, timerVars,
        queueVars
  <2>2. Collected' \subseteq Collected
    BY <2>1 DEF Collected
  <2>3. QED
    BY <1>3, <2>1, <2>2
<1>8. CASE Look
  <2>1. /\ UNCHANGED <<now, m_timerQueuemap, m_lsIdleList, tmpmsg>> /\ looked' = TRUE
        /\ pc[Timer] = "idle"
        /\ \/ pc'[Timer] = "collect" /\ cur_time' = now
           \/ pc'[Timer] = "idle" /\ ~(m_cur_size_ > 0 /\ m_timer_value_ < now)
    BY <1>8 DEF Look, queueVars
  <2>2. Collected' = {}
    BY <2>1 DEF Collected
  <2>3. CASE pc'[Timer] = "collect" /\ cur_time' = now
    BY <2>1, <2>2, <2>3 DEF OnTime
  <2>4. CASE pc'[Timer] = "idle" /\ ~(m_cur_size_ > 0 /\ m_timer_value_ < now)
    <3>1. m_cur_size_ \in Nat /\ m_timer_value_ \in Nat
      BY TimerAssumption DEF TypeOK
    <3>2. \A e \in m_timerQueuemap : now =< e.at
      BY <2>4, <3>1, NotYetDue
    <3>3. QED
      BY <2>1, <2>2, <2>4, <3>2 DEF OnTime
  <2>5. QED
    BY <2>1, <2>3, <2>4
<1>9. CASE GetOverTimeTimers
  <2> DEFINE due == {e \in m_timerQueuemap : e.at =< cur_time}
  <2>1. /\ UNCHANGED <<now, cur_time, looked, tmpmsg>>
        /\ pc[Timer] = "collect" /\ pc'[Timer] = "next"
        /\ m_lsIdleList' = due
        /\ m_timerQueuemap' = (m_timerQueuemap \ due) \cup Again(due)
    BY <1>9 DEF GetOverTimeTimers
  <2>2. Collected' = due
    BY <2>1 DEF Collected, Control
  <2>3. \A e \in due : e \in m_timerQueuemap
    OBVIOUS
  <2>4. \A e \in m_timerQueuemap \ due : e.at > cur_time
    OBVIOUS
  <2>5. \A e \in Again(due) : e.at = cur_time + WaitTime
    <3>1. \A e \in due : [e EXCEPT !.at = cur_time + WaitTime].at = cur_time + WaitTime
      BY DEF Entry
    <3> HIDE DEF due
    <3>2. QED
      BY <3>1 DEF Again
  <2> HIDE DEF due
  <2>6. QED
    BY <2>1, <2>2, <2>3, <2>4, <2>5 DEF OnTime
<1>10. CASE NextIdle
  <2>1. /\ UNCHANGED <<now, cur_time, looked, m_timerQueuemap>> /\ pc[Timer] = "next"
        /\ \/ pc'[Timer] = "idle" /\ UNCHANGED <<m_lsIdleList, tmpmsg>> /\ m_lsIdleList = {}
           \/ /\ pc'[Timer] = "check"
              /\ \E e \in m_lsIdleList : m_lsIdleList' = m_lsIdleList \ {e} /\ tmpmsg' = e
    BY <1>10 DEF NextIdle, queueVars
  <2>2. Collected' \subseteq Collected
    BY <2>1 DEF Collected
  <2>3. CASE pc'[Timer] = "idle"
    <3>1. Overdue >= 1 /\ Overdue >= MaxLag - 1
      BY DEF Overdue
    <3>2. \A e \in m_timerQueuemap : e.at > cur_time
      BY <2>1 DEF OnTime
    <3>3. QED
      BY <2>1, <2>2, <2>3, <3>1, <3>2 DEF OnTime
  <2>4. CASE pc'[Timer] = "check"
    BY <1>3, <2>1, <2>2, <2>4
  <2>5. QED
    BY <2>1, <2>3, <2>4
<1>11. CASE ProcPingTimeOutChecking
  <2>1. /\ UNCHANGED <<now, cur_time, looked, m_timerQueuemap, m_lsIdleList>>
        /\ tmpmsg' \in {tmpmsg, Null}
        /\ {pc[Timer], pc'[Timer]} \cap {"idle", "collect"} = {}
    BY <1>11 DEF ProcPingTimeOutChecking
  <2>2. Collected' \subseteq Collected
    BY <2>1 DEF Collected
  <2>3. QED
    BY <1>3, <2>1, <2>2
<1>12. CASE Tick
  <2>1. /\ UNCHANGED <<cur_time, pc, m_timerQueuemap, m_lsIdleList, tmpmsg>>
        /\ now' = now + 1 /\ looked' = FALSE /\ (pc[Timer] = "idle" => looked)
    BY <1>12 DEF Tick, queueVars
  <2>2. Collected' = Collected
    BY <2>1 DEF Collected
  <2>3. QED
    BY <2>1, <2>2 DEF OnTime
<1>13. CASE UNCHANGED vars
  BY <1>3, <1>13 DEF vars, queueVars, timerVars, Collected
<1>14. QED
  BY <1>4, <1>5, <1>6, <1>7, <1>8, <1>9, <1>10, <1>11, <1>12, <1>13
     DEF Next, Step, TimerThread

-----------------------------------------------------------------------------
(* What an entry's time says of its client.                                *)

\* Of a server that throws clients out on time: when the client came.
Connected ==
  m_ifTimeOutKick => \A e \in Entries :
    e.seq = iCurrsequence[e.conn] => e.at = since[e.conn] + WaitTime

\* Of one that asks for pings: that the client's last ping is recent enough, or was
\* when the entry was collected and is about to be examined again.
Patience == KickAfter + WaitTime
Pinged ==
  ~m_ifTimeOutKick =>
    /\ \A f \in Collected :
         f.seq = iCurrsequence[f.conn] => f.at =< lastPingTime[f.conn] + Patience
    /\ \A f \in Collected, e \in m_timerQueuemap :
         f.conn = e.conn /\ f.seq = e.seq => e.at =< cur_time + WaitTime
    /\ \A e \in m_timerQueuemap : e.seq = iCurrsequence[e.conn] =>
         \/ e.at =< lastPingTime[e.conn] + Patience
         \/ on[Timer] = e.conn
         \/ \E f \in Collected : f.conn = e.conn /\ f.seq = e.seq

LEMMA StepConnected ==
  TypeOK /\ Control /\ Places /\ Numbers /\ Connected /\ [Next]_vars => Connected'
<1>1. SUFFICES ASSUME TypeOK, Shapes, Control, Places, Numbers, Connected, [Next]_vars,
                      m_ifTimeOutKick
               PROVE  Connected'
  BY Shaped DEF Next, vars, Connected
<1>2. /\ m_timerQueuemap \subseteq Entries /\ Entries \subseteq Entry
      /\ iCurrsequence \in [Conns -> Nat] /\ since \in [Conns -> Nat]
      /\ \A e \in Entries : /\ e.conn \in Conns /\ e.seq \in Nat
                            /\ e.seq =< iCurrsequence[e.conn]
                            /\ e.seq = iCurrsequence[e.conn] => place[e.conn] = "used"
                            /\ e.seq = iCurrsequence[e.conn] => e.at = since[e.conn] + WaitTime
  BY <1>1, Numeric DEF Shapes, Entries, Collected, Numbers, Connected
<1> USE <1>1, <1>2
\* Steps that add no entry and change the time of no client.
<1>3. ASSUME Entries' \subseteq Entries, UNCHANGED since,
             \A c \in Conns : iCurrsequence'[c] >= iCurrsequence[c] /\ iCurrsequence'[c] \in Nat
      PROVE  Connected'
  BY <1>3 DEF Connected
<1>4. ASSUME NEW c \in Conns, AddToTimerQueue(c) PROVE Connected'
  <2> DEFINE n == [at |-> now + WaitTime, conn |-> c, seq |-> iCurrsequence'[c]]
  <2>1. /\ place[c] = "free" /\ UNCHANGED <<m_lsIdleList, tmpmsg>>
        /\ iCurrsequence' = [iCurrsequence EXCEPT ![c] = @ + 1]
        /\ since' = [since EXCEPT ![c] = now]
        /\ m_timerQueuemap' = m_timerQueuemap \cup {n}
        /\ n.conn = c /\ n.at = now + WaitTime
    BY <1>4 DEF AddToTimerQueue, timerVars
  <2> HIDE DEF n
  <2>2. Entries' = Entries \cup {n}
    BY <2>1 DEF Entries, Collected
  <2>3. QED
    BY <2>1, <2>2 DEF Connected
<1>5. ASSUME NEW c \in Conns, HandlePing(c) \/ PutOneToFree(c) PROVE Connected'
  <2>1. /\ UNCHANGED <<m_timerQueuemap, m_lsIdleList, tmpmsg, since>>
        /\ iCurrsequence' \in {iCurrsequence, [iCurrsequence EXCEPT ![c] = @ + 1]}
    BY <1>5 DEF HandlePing, PutOneToFree, timerVars, queueVars
  <2>2. QED
    BY <1>3, <2>1 DEF Entries, Collected
<1>6. ASSUME NEW t \in Threads, NEW c \in Conns, BeginClose(t, c) PROVE Connected'
  BY <1>3, <1>6 DEF BeginClose, timerVars, queueVars, connVars, Entries, Collected
<1>7. ASSUME NEW t \in Threads, DeleteFromTimerQueue(t) \/ CloseFd(t) PROVE Connected'
  <2>1. /\ UNCHANGED <<m_lsIdleList, tmpmsg, since, iCurrsequence>>
        /\ m_timerQueuemap' \subseteq m_timerQueuemap
    BY <1>7 DEF DeleteFromTimerQueue, CloseFd, timerVars, queueVars, connVars
  <2>2. QED
    BY <1>3, <2>1 DEF Entries, Collected
<1>8. ASSUME NEW t \in Threads, InRecyConnectQueue(t) PROVE Connected'
  <2>1. on[t] \in Conns
    BY <1>8 DEF InRecyConnectQueue, Control, Shapes
  <2>2. /\ UNCHANGED <<m_timerQueuemap, m_lsIdleList, since>> /\ tmpmsg' \in {tmpmsg, Null}
        /\ iCurrsequence' \in {iCurrsequence, [iCurrsequence EXCEPT ![on[t]] = @ + 1]}
    BY <1>8 DEF InRecyConnectQueue
  <2>3. Entries' \subseteq Entries
    BY <2>2 DEF Entries, Collected
  <2>4. QED
    BY <1>3, <2>1, <2>2, <2>3
<1>9. CASE GetOverTimeTimers
  <2>1. /\ UNCHANGED <<since, iCurrsequence, tmpmsg>> /\ m_lsIdleList' \subseteq m_timerQueuemap
        /\ m_timerQueuemap' \subseteq m_timerQueuemap
    BY <1>9 DEF GetOverTimeTimers, Again, connVars
  <2>2. QED
    BY <1>3, <2>1 DEF Entries, Collected
<1>10. CASE NextIdle
  <2>1. /\ UNCHANGED <<m_timerQueuemap, iCurrsequence, since>>
        /\ \/ UNCHANGED <<m_lsIdleList, tmpmsg>>
           \/ \E e \in m_lsIdleList : m_lsIdleList' = m_lsIdleList \ {e} /\ tmpmsg' = e
    BY <1>10 DEF NextIdle, queueVars, connVars
  <2>2. Entries' \subseteq Entries
    BY <2>1 DEF Entries, Collected
  <2>3. QED
    BY <1>3, <2>1, <2>2
<1>11. CASE ProcPingTimeOutChecking
  <2>1. /\ UNCHANGED <<m_timerQueuemap, m_lsIdleList, iCurrsequence, since>>
        /\ tmpmsg' \in {tmpmsg, Null}
    BY <1>11 DEF ProcPingTimeOutChecking, connVars
  <2>2. Entries' \subseteq Entries
    BY <2>1 DEF Entries, Collected
  <2>3. QED
    BY <1>3, <2>1, <2>2
<1>12. CASE Look \/ Tick
  BY <1>3, <1>12 DEF Look, Tick, queueVars, connVars, Entries, Collected
<1>13. CASE UNCHANGED vars
  BY <1>3, <1>13 DEF vars, queueVars, connVars, timerVars, Entries, Collected
<1>14. QED
  BY <1>4, <1>5, <1>6, <1>7, <1>8, <1>9, <1>10, <1>11, <1>12, <1>13
     DEF Next, Step, TimerThread, ZdClosesocketProc

LEMMA StepPinged ==
  TypeOK /\ Control /\ Places /\ Numbers /\ Clock /\ Pinged /\ [Next]_vars => Pinged'
<1>1. SUFFICES ASSUME TypeOK, Shapes, Control, Places, Numbers, Clock, Pinged, [Next]_vars,
                      ~m_ifTimeOutKick
               PROVE  Pinged'
  BY Shaped DEF Next, vars, Pinged
<1>2. /\ iCurrsequence \in [Conns -> Nat] /\ lastPingTime \in [Conns -> Nat]
      /\ now \in Nat /\ cur_time \in Nat /\ WaitTime \in Nat
      /\ KickAfter \in Nat /\ Patience = KickAfter + WaitTime /\ Patience \in Nat
      /\ Timer \in Threads /\ Null \notin Conns
      /\ m_timerQueuemap \subseteq Entry /\ Collected \subseteq Entry
      /\ \A e \in Entry : e.conn \in Conns /\ e.seq \in Nat /\ e.at \in Nat
      /\ \A e \in m_timerQueuemap \cup Collected : e.seq =< iCurrsequence[e.conn]
  BY <1>1, Numeric DEF Shapes, Entries, Collected, Numbers, Patience, KickAfter
<1> USE <1>1, <1>2
<1>3. /\ \A f \in Collected :
           f.seq = iCurrsequence[f.conn] => f.at =< lastPingTime[f.conn] + Patience
      /\ \A f \in Collected, e \in m_timerQueuemap :
           f.conn = e.conn /\ f.seq = e.seq => e.at =< cur_time + WaitTime
      /\ \A e \in m_timerQueuemap : e.seq = iCurrsequence[e.conn] =>
           \/ e.at =< lastPingTime[e.conn] + Patience
           \/ on[Timer] = e.conn
           \/ \E f \in Collected : f.conn = e.conn /\ f.seq = e.seq
  BY DEF Pinged
\* Steps that add no entry, and give up an examination only for a reason.
<1>4. ASSUME UNCHANGED cur_time,
             m_timerQueuemap' \subseteq m_timerQueuemap, Collected' \subseteq Collected,
             \A c \in Conns : /\ iCurrsequence'[c] >= iCurrsequence[c]
                              /\ iCurrsequence'[c] \in Nat
                              /\ lastPingTime'[c] >= lastPingTime[c]
                              /\ lastPingTime'[c] \in Nat,
             \A e \in m_timerQueuemap' : on[Timer] = e.conn => on'[Timer] = e.conn,
             \A e \in m_timerQueuemap', f \in Collected :
               f.conn = e.conn /\ f.seq = e.seq /\ e.seq = iCurrsequence[e.conn] =>
                 \/ f \in Collected'
                 \/ on'[Timer] = e.conn
                 \/ e.at =< lastPingTime[e.conn] + Patience
      PROVE  Pinged'
  <2>1. \A f \in Collected' : f.seq = iCurrsequence'[f.conn] =>
          f.at =< lastPingTime'[f.conn] + Patience
    BY <1>3, <1>4
  <2>2. \A f \in Collected', e \in m_timerQueuemap' :
          f.conn = e.conn /\ f.seq = e.seq => e.at =< cur_time' + WaitTime
    BY <1>3, <1>4
  <2>3. ASSUME NEW e \in m_timerQueuemap', e.seq = iCurrsequence'[e.conn]
        PROVE  \/ e.at =< lastPingTime'[e.conn] + Patience
               \/ on'[Timer] = e.conn
               \/ \E f \in Collected' : f.conn = e.conn /\ f.seq = e.seq
    <3>1. /\ e \in m_timerQueuemap /\ e.seq = iCurrsequence[e.conn] /\ e.conn \in Conns
          /\ e.at \in Nat
      BY <1>4, <2>3
    <3>2. e.at =< lastPingTime[e.conn] + Patience => e.at =< lastPingTime'[e.conn] + Patience
      BY <1>4, <3>1
    <3>3. QED
      BY <1>3, <1>4, <2>3, <3>1, <3>2
  <2>4. QED
    BY <2>1, <2>2, <2>3 DEF Pinged, Patience, KickAfter
<1>5. ASSUME NEW c \in Conns, AddToTimerQueue(c) PROVE Pinged'
  <2> DEFINE n == [at |-> now + WaitTime, conn |-> c, seq |-> iCurrsequence'[c]]
  <2>1. /\ UNCHANGED <<on, cur_time, m_lsIdleList, tmpmsg>>
        /\ iCurrsequence' = [iCurrsequence EXCEPT ![c] = @ + 1]
        /\ lastPingTime' = [lastPingTime EXCEPT ![c] = now]
        /\ m_timerQueuemap' = m_timerQueuemap \cup {n}
        /\ n.conn = c /\ n.at = now + WaitTime /\ n.seq = iCurrsequence[c] + 1
    BY <1>5 DEF AddToTimerQueue, timerVars
  <2> HIDE DEF n
  <2>2. Collected' = Collected
    BY <2>1 DEF Collected
  <2>3. \A e \in m_timerQueuemap \cup Collected :
          e.conn = c => e.seq # iCurrsequence'[c] /\ e.seq # n.seq
    BY <2>1
  <2>4. \A f \in Collected' : f.seq = iCurrsequence'[f.conn] =>
          f.at =< lastPingTime'[f.conn] + Patience
    BY <1>3, <2>1, <2>2, <2>3
  <2>5. \A f \in Collected', e \in m_timerQueuemap' :
          f.conn = e.conn /\ f.seq = e.seq => e.at =< cur_time' + WaitTime
    BY <1>3, <2>1, <2>2, <2>3
  <2>6. \A e \in m_timerQueuemap' : e.seq = iCurrsequence'[e.conn] =>
          \/ e.at =< lastPingTime'[e.conn] + Patience
          \/ on'[Timer] = e.conn
          \/ \E f \in Collected' : f.conn = e.conn /\ f.seq = e.seq
    BY <1>3, <2>1, <2>2, <2>3
  <2>7. QED
    BY <2>4, <2>5, <2>6 DEF Pinged, Patience, KickAfter
<1>6. ASSUME NEW c \in Conns, HandlePing(c) \/ PutOneToFree(c) PROVE Pinged'
  <2>1. /\ UNCHANGED <<on, cur_time, m_timerQueuemap, m_lsIdleList, tmpmsg>>
        /\ iCurrsequence' \in {iCurrsequence, [iCurrsequence EXCEPT ![c] = @ + 1]}
        /\ lastPingTime' \in {lastPingTime, [lastPingTime EXCEPT ![c] = now]}
    BY <1>6 DEF HandlePing, PutOneToFree, timerVars, queueVars
  <2>2. Collected' = Collected
    BY <2>1 DEF Collected
  <2>3. QED
    BY <1>4, <2>1, <2>2 DEF Clock
<1>7. ASSUME NEW t \in Threads, NEW c \in Conns, BeginClose(t, c) PROVE Pinged'
  <2>1. /\ UNCHANGED <<cur_time, m_timerQueuemap, m_lsIdleList, tmpmsg, iCurrsequence,
                       lastPingTime>>
        /\ on'[Timer] = on[Timer]
    BY <1>7 DEF BeginClose, timerVars, queueVars, connVars
  <2>2. QED
    BY <1>4, <2>1 DEF Collected
<1>8. ASSUME NEW t \in Threads, DeleteFromTimerQueue(t) \/ CloseFd(t) PROVE Pinged'
  <2>1. /\ UNCHANGED <<on, cur_time, m_lsIdleList, tmpmsg, iCurrsequence, lastPingTime>>
        /\ m_timerQueuemap' \subseteq m_timerQueuemap
    BY <1>8 DEF DeleteFromTimerQueue, CloseFd, timerVars, queueVars, connVars
  <2>2. QED
    BY <1>4, <2>1 DEF Collected
<1>9. ASSUME NEW t \in Threads, InRecyConnectQueue(t) PROVE Pinged'
  <2>1. on[t] \in Conns /\ \A e \in m_timerQueuemap : e.conn # on[t]
    BY <1>9 DEF InRecyConnectQueue, Control, Places, Shapes
  <2>2. /\ UNCHANGED <<cur_time, m_timerQueuemap, m_lsIdleList, lastPingTime>>
        /\ iCurrsequence' \in {iCurrsequence, [iCurrsequence EXCEPT ![on[t]] = @ + 1]}
        /\ on' = [on EXCEPT ![t] = Null]
        /\ IF t = Timer THEN tmpmsg' = Null /\ tmpmsg.conn = on[t] ELSE tmpmsg' = tmpmsg
    BY <1>9, <2>1 DEF InRecyConnectQueue, Control
  <2>3. /\ Collected' \subseteq Collected
        /\ \A f \in Collected : f.conn # on[t] => f \in Collected'
    BY <2>2 DEF Collected
  <2>4. \A e \in m_timerQueuemap' : on[Timer] = e.conn => on'[Timer] = e.conn
    BY <2>1, <2>2 DEF Shapes
  <2>5. \A e \in m_timerQueuemap', f \in Collected : f.conn = e.conn => f \in Collected'
    BY <2>1, <2>2, <2>3
  <2>6. \A c \in Conns : iCurrsequence'[c] >= iCurrsequence[c] /\ iCurrsequence'[c] \in Nat
    BY <2>1, <2>2
  <2>7. QED
    BY <1>4, <2>2, <2>3, <2>4, <2>5, <2>6
<1>10. CASE Look
  <2>1. /\ UNCHANGED <<on, m_timerQueuemap, m_lsIdleList, tmpmsg, iCurrsequence, lastPingTime>>
        /\ pc[Timer] = "idle"
    BY <1>10 DEF Look, queueVars, connVars
  <2>2. Collected = {} /\ Collected' = {} /\ on[Timer] = Null
    BY <2>1 DEF Collected, Control
  <2>3. QED
    BY <1>3, <2>1, <2>2 DEF Pinged, Patience, KickAfter
<1>11. CASE GetOverTimeTimers
  <2> DEFINE due == {e \in m_timerQueuemap : e.at =< cur_time}
  <2>1. /\ UNCHANGED <<on, cur_time, tmpmsg, iCurrsequence, lastPingTime>>
        /\ pc[Timer] = "collect" /\ m_lsIdleList' = due
        /\ m_timerQueuemap' = (m_timerQueuemap \ due) \cup Again(due)
    BY <1>11 DEF GetOverTimeTimers, connVars
  <2>2. Collected = {} /\ Collected' = due /\ on[Timer] = Null
    BY <2>1 DEF Collected, Control
  <2>3. \A g \in Again(due) : /\ g.at = cur_time + WaitTime
                             /\ \E e \in due : g.conn = e.conn /\ g.seq = e.seq
    <3>1. \A e \in due : LET g == [e EXCEPT !.at = cur_time + WaitTime]
                         IN  g.at = cur_time + WaitTime /\ g.conn = e.conn /\ g.seq = e.seq
      BY DEF Entry
    <3> HIDE DEF due
    <3>2. QED
      BY <3>1 DEF Again
  <2>4. due \subseteq m_timerQueuemap
    OBVIOUS
  <2> HIDE DEF due
  <2>5. \A e \in m_timerQueuemap : e.seq = iCurrsequence[e.conn] =>
          e.at =< lastPingTime[e.conn] + Patience
    BY <1>3, <2>2
  <2>6. \A f \in due, e \in m_timerQueuemap \ due : f.conn # e.conn
    BY <2>4 DEF Places
  <2>7. \A f \in Collected', e \in m_timerQueuemap' :
          f.conn = e.conn /\ f.seq = e.seq => e.at =< cur_time' + WaitTime
    BY <2>1, <2>2, <2>3, <2>6
  <2>8. \A e \in m_timerQueuemap' : e.seq = iCurrsequence'[e.conn] =>
          \/ e.at =< lastPingTime'[e.conn] + Patience
          \/ \E f \in Collected' : f.conn = e.conn /\ f.seq = e.seq
    BY <2>1, <2>2, <2>3, <2>5
  <2>9. \A f \in Collected' : f.seq = iCurrsequence'[f.conn] =>
          f.at =< lastPingTime'[f.conn] + Patience
    BY <2>1, <2>2, <2>4, <2>5
  <2>10. QED
    BY <2>7, <2>8, <2>9 DEF Pinged, Patience, KickAfter
<1>12. CASE NextIdle
  <2>1. /\ UNCHANGED <<on, cur_time, m_timerQueuemap, iCurrsequence, lastPingTime>> /\ tmpmsg = Null
        /\ \/ UNCHANGED <<m_lsIdleList, tmpmsg>>
           \/ \E e \in m_lsIdleList : m_lsIdleList' = m_lsIdleList \ {e} /\ tmpmsg' = e
    BY <1>12 DEF NextIdle, queueVars, connVars, Control
  <2>2. Collected' = Collected
    BY <2>1 DEF Collected, Shapes
  <2>3. QED
    BY <1>4, <2>1, <2>2
<1>13. CASE ProcPingTimeOutChecking
  <2>1. /\ UNCHANGED <<cur_time, m_timerQueuemap, m_lsIdleList, iCurrsequence, lastPingTime>>
        /\ tmpmsg \in Collected /\ on[Timer] = Null
        /\ \/ UNCHANGED tmpmsg /\ on' = [on EXCEPT ![Timer] = tmpmsg.conn]
           \/ /\ UNCHANGED on /\ tmpmsg' = Null
              /\ ~(SameClient(tmpmsg) /\ MustGo(tmpmsg))
    BY <1>13 DEF ProcPingTimeOutChecking, connVars, Control, Collected
  <2>2. /\ Collected' \subseteq Collected
        /\ \A f \in Collected : f # tmpmsg => f \in Collected'
    BY <2>1 DEF Collected
  <2>3. \A e \in m_timerQueuemap' : on[Timer] = e.conn => on'[Timer] = e.conn
    BY <2>1
  <2>4. ASSUME NEW e \in m_timerQueuemap, NEW f \in Collected,
               f.conn = e.conn, f.seq = e.seq, e.seq = iCurrsequence[e.conn]
        PROVE  \/ f \in Collected'
               \/ on'[Timer] = e.conn
               \/ e.at =< lastPingTime[e.conn] + Patience
    <3>1. CASE f # tmpmsg
      BY <2>2, <3>1
    <3>2. CASE f = tmpmsg /\ on' = [on EXCEPT ![Timer] = tmpmsg.conn]
      BY <2>4, <3>2 DEF Shapes
    <3>3. CASE f = tmpmsg /\ ~(SameClient(tmpmsg) /\ MustGo(tmpmsg))
      <4>1. cur_time - lastPingTime[e.conn] =< KickAfter
        BY <2>4, <3>3 DEF SameClient, MustGo
      <4>2. e.at =< cur_time + WaitTime
        BY <1>3, <2>4
      <4>3. QED
        BY <4>1, <4>2
    <3>4. QED
      BY <2>1, <3>1, <3>2, <3>3
  <2>5. QED
    BY <1>4, <2>1, <2>2, <2>3, <2>4
<1>14. CASE Tick
  BY <1>4, <1>14 DEF Tick, queueVars, connVars, Collected
<1>15. CASE UNCHANGED vars
  BY <1>4, <1>15 DEF vars, queueVars, connVars, timerVars, Collected
<1>16. QED
  BY <1>5, <1>6, <1>7, <1>8, <1>9, <1>10, <1>11, <1>12, <1>13, <1>14, <1>15
     DEF Next, Step, TimerThread, ZdClosesocketProc

\* A client that has stopped to ping, or whose time is over, is being closed before
\* the delays of the timer thread have passed, whatever the other threads close
\* (ServerTimerQueueMonitorThread, GetOverTimeTimer, procPingTimeOutChecking).
THEOREM SilentIsClosed == Spec => []SilentClosed
<1> DEFINE I == Inv /\ Clock /\ OnTime /\ Connected /\ Pinged
<1>1. Init => I
  <2>1. SUFFICES ASSUME Init PROVE I
    OBVIOUS
  <2>2. Timer \in Threads
    BY DEF Threads
  <2>3. Clock /\ OnTime /\ Connected /\ Pinged
    BY <2>1, <2>2 DEF Init, Clock, OnTime, Connected, Pinged, Entries, Collected
  <2>4. QED
    BY <2>1, <2>3, InitInv
<1>2. Inv /\ [Next]_vars => Inv'
  BY StepControl, StepPlaces, StepNumbers, StepWatched, StepExact, StepTypes DEF Inv
<1>3. I /\ [Next]_vars => I'
  BY <1>2, StepClock, StepOnTime, StepConnected, StepPinged DEF Inv
<1>4. I => SilentClosed
  <2>1. SUFFICES ASSUME I, NEW c \in Conns, fdOpen[c], \A t \in Threads : on[t] # c
                 PROVE  IF m_ifTimeOutKick
                        THEN ~(now - since[c] > WaitTime + Delay)
                        ELSE ~(now - lastPingTime[c] > KickAfter + WaitTime + Delay)
    BY DEF SilentClosed
  <2>2. /\ now \in Nat /\ cur_time \in Nat /\ MaxLag \in Nat /\ looked \in BOOLEAN
        /\ Overdue \in Nat \ {0} /\ Delay = Overdue + MaxLag /\ WaitTime \in Nat
        /\ KickAfter \in Nat /\ since[c] \in Nat /\ lastPingTime[c] \in Nat
        /\ Timer \in Threads /\ Entries \subseteq Entry
        /\ \A e \in Entry : e.at \in Nat
    BY <2>1, Numeric DEF Inv, Shapes, Entries, Collected, KickAfter, Delay
  <2>3. \A e \in Entries : now - e.at =< Delay
    <3>1. SUFFICES ASSUME NEW e \in Entries PROVE now - e.at =< Delay
      OBVIOUS
    <3>2. CASE e \in m_timerQueuemap
      BY <2>1, <2>2, <3>2 DEF Clock, OnTime
    <3>3. CASE e \in Collected
      <4>1. pc[Timer] # "idle"
        BY <2>1, <3>3 DEF Inv, Control, Collected
      <4>2. QED
        BY <2>1, <2>2, <3>3, <4>1 DEF Clock, OnTime
    <3>4. QED
      BY <3>2, <3>3 DEF Entries
  <2>4. PICK e \in Sources : e.conn = c /\ e.seq = iCurrsequence[c]
    BY <2>1 DEF Inv, Places, Watched, Current
  <2>5. e \in Entries
    BY <2>4 DEF Sources, Entries
  <2>6. CASE m_ifTimeOutKick
    <3>1. e.at = since[c] + WaitTime
      BY <2>1, <2>4, <2>5, <2>6 DEF Connected
    <3>2. QED
      BY <2>2, <2>3, <2>5, <2>6, <3>1
  <2>7. CASE ~m_ifTimeOutKick
    <3>1. PICK f \in Entries : f.at =< lastPingTime[c] + Patience
      <4>1. e \in m_timerQueuemap
        BY <2>4, <2>7 DEF Sources
      <4>2. CASE e.at =< lastPingTime[c] + Patience
        BY <2>5, <4>2
      <4>3. CASE \E f \in Collected : f.conn = e.conn /\ f.seq = e.seq
        BY <2>1, <2>4, <2>7, <4>3 DEF Pinged, Entries
      <4>4. QED
        BY <2>1, <2>2, <2>4, <2>7, <4>1, <4>2, <4>3 DEF Pinged
    <3>2. now - f.at =< Delay /\ f.at \in Nat
      BY <2>2, <2>3
    <3>3. QED
      BY <2>2, <2>7, <3>1, <3>2 DEF Patience
  <2>8. QED
    BY <2>6, <2>7
<1>5. QED
  BY <1>1, <1>3, <1>4, PTL DEF Spec
=============================================================================
