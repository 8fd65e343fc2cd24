--------------------------- MODULE ProcessesProofs ---------------------------
(***************************************************************************)
(* Theorems of Processes and of its AcceptLock, for any number of workers  *)
(* and clients, whichever calls fail, signals come and workers die.        *)
(*                                                                         *)
(* First those of AcceptLock alone (LockSpec): its types, that the mutex   *)
(* is held exactly inside the section of a living worker, and that no      *)
(* connection is accepted twice or forgotten.  Then those of the processes *)
(* (Spec): that they implement AcceptLock, so that this holds from main()  *)
(* on; their types, that no zombie is forgotten, and that no worker takes  *)
(* the master's branch of the signal handler.  Last those of ProcTitle, of *)
(* Crc32, of Conf, of Printf and of Log.                                   *)
(***************************************************************************)
EXTENDS Processes, DataLemmas, TLAPS

-----------------------------------------------------------------------------
(* The accept lock.                                                        *)

\* AcceptedOnce as the steps keep it: who waits in the backlog is in no one's hands,
\* who is in a worker's hands is in no other's, and which fates go with each.
Hands ==
  /\ IsInjective(backlog)
  /\ \A c \in ToSet(backlog) : fate[c] = "waiting" /\ \A w \in Workers : newc[w] # c
  /\ \A c \in Clients :
       fate[c] = "waiting" /\ c \notin ToSet(backlog) => \E w \in Workers : newc[w] = c
  /\ \A v, w \in Workers : newc[v] = newc[w] /\ newc[v] # Null => v = w
  /\ \A w \in Workers :
       newc[w] # Null => fate[newc[w]] = IF pc[w] = "setup" THEN "waiting" ELSE "served"
  /\ \A w \in Workers : pc[w] = "setup" => newc[w] # Null

-----------------------------------------------------------------------------
(* Types.                                                                  *)
LEMMA InitTypes == LockInit => LockTypeOK
  BY AcceptAssumption DEF LockInit, LockTypeOK

LEMMA StepTypes == LockTypeOK /\ [LockNext]_lockVars => LockTypeOK'
<1>1. SUFFICES ASSUME LockTypeOK, [LockNext]_lockVars
               PROVE  LockTypeOK'
  OBVIOUS
<1> USE AcceptAssumption
<1>2. ASSUME NEW c \in Clients, Connect(c)
      PROVE  LockTypeOK'
  BY <1>1, <1>2, Enqueued DEF LockTypeOK, Connect
<1>3. ASSUME NEW w \in Workers, Step(w)
      PROVE  LockTypeOK'
  <2>1. CASE EpollWait(w)
    BY <1>1, <2>1 DEF LockTypeOK, EpollWait, Goto
  <2>2. CASE TryLock(w)
    BY <1>1, <2>2 DEF LockTypeOK, TryLock, Goto
  <2>3. CASE Accept4(w)
    BY <1>1, <2>3, Dequeued DEF LockTypeOK, Accept4, Goto
  <2>4. CASE AcceptAborted(w)
    BY <1>1, <2>4, Dequeued DEF LockTypeOK, AcceptAborted, Goto
  <2>5. CASE AcceptFails(w)
    BY <1>1, <2>5 DEF LockTypeOK, AcceptFails, Goto
  <2>6. CASE Refuse(w)
    BY <1>1, <2>6 DEF LockTypeOK, Refuse, Goto
  <2>7. CASE SetUp(w)
    BY <1>1, <2>7 DEF LockTypeOK, SetUp, Goto
  <2>8. CASE Unlock(w)
    BY <1>1, <2>8 DEF LockTypeOK, Unlock, Goto
  <2>9. CASE Count(w)
    BY <1>1, <2>9 DEF LockTypeOK, Count, Goto
  <2>10. QED
    BY <1>3, <2>1, <2>2, <2>3, <2>4, <2>5, <2>6, <2>7, <2>8, <2>9 DEF Step
<1>4. ASSUME NEW w \in Workers, Killed(w)
      PROVE  LockTypeOK'
  BY <1>1, <1>4 DEF LockTypeOK, Killed, Goto
<1>5. CASE UNCHANGED lockVars
  BY <1>1, <1>5 DEF LockTypeOK, lockVars
<1>6. QED
  BY <1>1, <1>2, <1>3, <1>4, <1>5 DEF LockNext

(* The variables keep their types: in particular a worker holds an accepted *)
(* connection only between accept4 and the end of ngx_event_accept.         *)
THEOREM TypeCorrect == LockSpec => []LockTypeOK
<1>1. QED
  BY InitTypes, StepTypes, PTL DEF LockSpec

-----------------------------------------------------------------------------
(* The mutex.                                                              *)
LEMMA StepLock == LockTypeOK /\ LockGivenBack /\ [LockNext]_lockVars => LockGivenBack'
<1>1. SUFFICES ASSUME LockTypeOK, LockGivenBack, [LockNext]_lockVars
               PROVE  LockGivenBack'
  OBVIOUS
<1> USE AcceptAssumption DEF LockGivenBack, InSection, Living
<1>2. ASSUME NEW c \in Clients, Connect(c)
      PROVE  LockGivenBack'
  BY <1>1, <1>2 DEF LockTypeOK, Connect
<1>3. ASSUME NEW w \in Workers, Step(w)
      PROVE  LockGivenBack'
  <2>1. CASE EpollWait(w)
    BY <1>1, <2>1 DEF LockTypeOK, EpollWait, Goto
  <2>2. CASE TryLock(w)
    BY <1>1, <2>2 DEF LockTypeOK, TryLock, Goto
  <2>3. CASE Accept4(w)
    BY <1>1, <2>3 DEF LockTypeOK, Accept4, Goto
  <2>4. CASE AcceptAborted(w)
    BY <1>1, <2>4 DEF LockTypeOK, AcceptAborted, Goto
  <2>5. CASE AcceptFails(w)
    BY <1>1, <2>5 DEF LockTypeOK, AcceptFails, Goto
  <2>6. CASE Refuse(w)
    BY <1>1, <2>6 DEF LockTypeOK, Refuse, Goto
  <2>7. CASE SetUp(w)
    BY <1>1, <2>7 DEF LockTypeOK, SetUp, Goto
  <2>8. CASE Unlock(w)
    BY <1>1, <2>8 DEF LockTypeOK, Unlock, Goto
  <2>9. CASE Count(w)
    BY <1>1, <2>9 DEF LockTypeOK, Count, Goto
  <2>10. QED
    BY <1>3, <2>1, <2>2, <2>3, <2>4, <2>5, <2>6, <2>7, <2>8, <2>9 DEF Step
<1>4. ASSUME NEW w \in Workers, Killed(w)
      PROVE  LockGivenBack'
  BY <1>1, <1>4 DEF LockTypeOK, Killed, Goto
<1>5. CASE UNCHANGED lockVars
  BY <1>1, <1>5 DEF lockVars
<1>6. QED
  BY <1>1, <1>2, <1>3, <1>4, <1>5 DEF LockNext

(* A living worker owns the mutex exactly from a trylock that succeeds to the *)
(* unlock on whichever path it leaves ngx_event_accept by.                    *)
THEOREM LockHandedBack == LockSpec => []LockGivenBack
<1>1. LockInit => LockGivenBack
  BY AcceptAssumption DEF LockInit, LockGivenBack, Living, InSection
<1>2. QED
  BY <1>1, InitTypes, StepTypes, StepLock, PTL DEF LockSpec

-----------------------------------------------------------------------------
(* The connections.                                                        *)
LEMMA StepHands == LockTypeOK /\ Hands /\ [LockNext]_lockVars => Hands'
<1>1. SUFFICES ASSUME LockTypeOK, Hands, [LockNext]_lockVars
               PROVE  Hands'
  OBVIOUS
<1> USE AcceptAssumption
<1>2. ASSUME NEW c \in Clients, Connect(c)
      PROVE  Hands'
  <2>1. c \notin ToSet(backlog)
    BY <1>1, <1>2 DEF Hands, Connect
  <2>2. /\ IsInjective(backlog')
        /\ ToSet(backlog') = ToSet(backlog) \cup {c}
    BY <1>1, <1>2, <2>1, Enqueued DEF LockTypeOK, Hands, Connect
  <2>3. QED
    BY <1>1, <1>2, <2>1, <2>2 DEF LockTypeOK, Hands, Connect
<1>3. ASSUME NEW w \in Workers, Step(w)
      PROVE  Hands'
  <2>1. CASE EpollWait(w)
    BY <1>1, <2>1 DEF LockTypeOK, Hands, EpollWait, Goto
  <2>2. CASE TryLock(w)
    BY <1>1, <2>2 DEF LockTypeOK, Hands, TryLock, Goto
  <2>3. CASE Accept4(w)
    <3>1. newc[w] = Null
      BY <1>1, <2>3 DEF LockTypeOK, Accept4
    <3>2. /\ Head(backlog) \in Clients /\ Head(backlog) \in ToSet(backlog)
          /\ ToSet(backlog) = ToSet(backlog') \cup {Head(backlog)}
          /\ IsInjective(backlog') /\ Head(backlog) \notin ToSet(backlog')
      BY <1>1, <2>3, Dequeued DEF LockTypeOK, Hands, Accept4
    <3>3. QED
      BY <1>1, <2>3, <3>1, <3>2 DEF LockTypeOK, Hands, Accept4, Goto
  <2>4. CASE AcceptAborted(w)
    <3>1. /\ Head(backlog) \in Clients /\ Head(backlog) \in ToSet(backlog)
          /\ ToSet(backlog) = ToSet(backlog') \cup {Head(backlog)}
          /\ IsInjective(backlog') /\ Head(backlog) \notin ToSet(backlog')
      BY <1>1, <2>4, Dequeued DEF LockTypeOK, Hands, AcceptAborted
    <3>2. QED
      BY <1>1, <2>4, <3>1 DEF LockTypeOK, Hands, AcceptAborted, Goto
  <2>5. CASE AcceptFails(w)
    BY <1>1, <2>5 DEF LockTypeOK, Hands, AcceptFails, Goto
  <2>6. CASE Refuse(w)
    <3>1. newc[w] \in Clients /\ newc[w] \notin ToSet(backlog)
      BY <1>1, <2>6 DEF LockTypeOK, Hands, Refuse
    <3>2. \A v \in Workers \ {w} : newc[v] # newc[w]
      BY <1>1, <2>6, <3>1 DEF Hands
    <3>3. /\ backlog' = backlog /\ \A v \in Workers \ {w} : newc'[v] = newc[v] /\ pc'[v] = pc[v]
          /\ newc'[w] = Null /\ pc'[w] # "setup"
      BY <1>1, <2>6 DEF LockTypeOK, Refuse, Goto
    <3>4. \A c \in Clients : c # newc[w] => fate'[c] = fate[c]
      BY <1>1, <2>6 DEF LockTypeOK, Refuse
    <3>5. ToSet(backlog) \subseteq Clients
      BY <1>1, ElementsTyped DEF LockTypeOK
    <3>6. /\ IsInjective(backlog')
          /\ \A c \in ToSet(backlog') : fate'[c] = "waiting" /\ \A v \in Workers : newc'[v] # c
      BY <1>1, <3>1, <3>2, <3>3, <3>4, <3>5 DEF Hands
    <3>7. ASSUME NEW c \in Clients, fate'[c] = "waiting", c \notin ToSet(backlog')
          PROVE  \E v \in Workers : newc'[v] = c
      BY <1>1, <2>6, <3>1, <3>2, <3>3, <3>4, <3>7 DEF LockTypeOK, Hands, Refuse
    <3>8. \A u, v \in Workers : newc'[u] = newc'[v] /\ newc'[u] # Null => u = v
      BY <1>1, <3>3 DEF Hands
    <3>9. ASSUME NEW v \in Workers, newc'[v] # Null
          PROVE  fate'[newc'[v]] = IF pc'[v] = "setup" THEN "waiting" ELSE "served"
      <4>1. v # w /\ newc[v] \in Clients /\ newc[v] # newc[w]
        BY <1>1, <3>2, <3>3, <3>9 DEF LockTypeOK, Hands
      <4>2. QED
        BY <1>1, <3>3, <3>4, <3>9, <4>1 DEF Hands
    <3>10. QED
      BY <1>1, <3>3, <3>6, <3>7, <3>8, <3>9 DEF Hands
  <2>7. CASE SetUp(w)
    BY <1>1, <2>7 DEF LockTypeOK, Hands, SetUp, Goto
  <2>8. CASE Unlock(w)
    BY <1>1, <2>8 DEF LockTypeOK, Hands, Unlock, Goto
  <2>9. CASE Count(w)
    <3>1. newc[w] # Null => fate[newc[w]] = "served"
      BY <1>1, <2>9 DEF Hands, Count
    <3>2. \A c \in Clients : fate[c] = "waiting" => newc[w] # c
      BY <1>1, <3>1, AcceptAssumption
    <3>3. /\ backlog' = backlog /\ \A v \in Workers \ {w} : newc'[v] = newc[v] /\ pc'[v] = pc[v]
          /\ newc'[w] = Null /\ pc'[w] # "setup"
      BY <1>1, <2>9 DEF LockTypeOK, Count, Goto
    <3>4. \A c \in Clients : c # newc[w] => fate'[c] = fate[c]
      BY <1>1, <2>9 DEF LockTypeOK, Count
    <3>5. ToSet(backlog) \subseteq Clients
      BY <1>1, ElementsTyped DEF LockTypeOK
    <3>6. /\ IsInjective(backlog')
          /\ \A c \in ToSet(backlog') : fate'[c] = "waiting" /\ \A v \in Workers : newc'[v] # c
      BY <1>1, <3>1, <3>2, <3>3, <3>4, <3>5 DEF Hands
    <3>7. ASSUME NEW c \in Clients, fate'[c] = "waiting", c \notin ToSet(backlog')
          PROVE  \E v \in Workers : newc'[v] = c
      BY <1>1, <2>9, <3>1, <3>2, <3>3, <3>4, <3>7 DEF LockTypeOK, Hands, Count
    <3>8. \A u, v \in Workers : newc'[u] = newc'[v] /\ newc'[u] # Null => u = v
      BY <1>1, <3>3 DEF Hands
    <3>9. ASSUME NEW v \in Workers, newc'[v] # Null
          PROVE  fate'[newc'[v]] = IF pc'[v] = "setup" THEN "waiting" ELSE "served"
      <4>1. v # w /\ newc[v] \in Clients /\ newc[v] # newc[w]
        BY <1>1, <3>2, <3>3, <3>9 DEF LockTypeOK, Hands
      <4>2. QED
        BY <1>1, <3>3, <3>4, <3>9, <4>1 DEF Hands
    <3>10. QED
      BY <1>1, <3>3, <3>6, <3>7, <3>8, <3>9 DEF Hands
  <2>10. QED
    BY <1>3, <2>1, <2>2, <2>3, <2>4, <2>5, <2>6, <2>7, <2>8, <2>9 DEF Step
<1>4. ASSUME NEW w \in Workers, Killed(w)
      PROVE  Hands'
  <2>1. /\ newc \in [Workers -> Clients \cup {Null}]
        /\ pc \in [Workers -> {"epoll", "handler", "accept", "setup", "unlock", "count",
                               "killed"}]
        /\ backlog' = backlog
        /\ pc' = [pc EXCEPT ![w] = "killed"] /\ newc' = [newc EXCEPT ![w] = Null]
        /\ fate' = [c \in Clients |-> IF c = newc[w] THEN "lost" ELSE fate[c]]
        /\ \A c \in ToSet(backlog) : c \in Clients
    BY <1>1, <1>4, ElementsTyped DEF LockTypeOK, Killed, Goto
  <2>2. QED
    BY <1>1, <2>1 DEF Hands
<1>5. CASE UNCHANGED lockVars
  BY <1>1, <1>5 DEF Hands, lockVars
<1>6. QED
  BY <1>1, <1>2, <1>3, <1>4, <1>5 DEF LockNext

LEMMA InitHands == LockInit => Hands
  BY AcceptAssumption DEF LockInit, Hands, IsInjective, ToSet

LEMMA HandsSuffice == LockTypeOK /\ Hands => AcceptedOnce
<1>1. SUFFICES ASSUME LockTypeOK, Hands, NEW c \in Clients, fate[c] = "waiting",
                      c \notin ToSet(backlog)
               PROVE  \E w \in Workers : {v \in Workers : newc[v] = c} = {w}
  BY DEF Hands, AcceptedOnce
<1>2. PICK w \in Workers : newc[w] = c
  BY <1>1 DEF Hands
<1>3. c # Null
  BY <1>1, AcceptAssumption
<1>4. \A v \in Workers : newc[v] = c => v = w
  BY <1>1, <1>2, <1>3 DEF Hands
<1>5. QED
  BY <1>2, <1>4

(* Whichever workers take, refuse or are killed holding a connection, no two  *)
(* accept the same one and every one that waits is in the backlog or with     *)
(* exactly one worker.                                                        *)
THEOREM NeverForgotten == LockSpec => []AcceptedOnce
<1>1. QED
  BY InitHands, HandsSuffice, InitTypes, StepTypes, StepHands, PTL DEF LockSpec

-----------------------------------------------------------------------------
(* The processes.                                                          *)

\* A worker that lets signals in knows what it is.
WorkerTyped ==
  \A w \in Workers : child[w] \in {"typed", "init", "serving"} => ngx_process[w] = "WORKER"

\* The types of what is not AcceptLock's.
StartTypes ==
  /\ conf \in Confs
  /\ m_ListenSocketList \in Nat /\ forks \in Nat /\ sent \in 0..MaxSent
StateTypes ==
  /\ main \in Start \cup {"sleep", "suspend", "exit1", "exit2"}
  /\ stack \in Seq(Signals \X {"enter", "waitpid"})
  /\ child \in [Workers -> {"unborn", "forked", "typed", "init", "serving", "zombie", "reaped"}]
  /\ pending \in [Processes -> SUBSET Signals]
  /\ ngx_process \in [Processes -> {"MASTER", "WORKER"}]
  /\ ngx_reap \in [Processes -> BOOLEAN]

(* The steps of the workers among each other are AcceptLock's.             *)
LEMMA LockSteps == [Next]_vars => [LockNext]_lockVars
<1>1. SUFFICES ASSUME [Next]_vars PROVE [LockNext]_lockVars
  OBVIOUS
<1>2. CASE MasterStep
  BY <1>2 DEF MasterStep, StartUp, LoadConf, InitSignals, OpenListening, PortsOpened,
     Daemonize, Spawn, SpawnProcess, SpawnFails, Suspend, Deliver, Handle, Reap
<1>3. ASSUME NEW w \in Workers, WorkerStep(w)
      PROVE  [LockNext]_lockVars
  BY <1>3 DEF WorkerStep, BecomeWorker, Unblock, Serve, Work, LockNext
<1>4. ASSUME NEW w \in Workers, Dies(w)
      PROVE  [LockNext]_lockVars
  BY <1>4 DEF Dies, LockNext
<1>5. ASSUME NEW w \in Workers, NEW s \in AdminSignals, SignalWorker(w, s)
      PROVE  [LockNext]_lockVars
  BY <1>5 DEF SignalWorker
<1>6. ASSUME NEW s \in AdminSignals, SignalMaster(s)
      PROVE  [LockNext]_lockVars
  BY <1>6 DEF SignalMaster
<1>7. ASSUME NEW c \in Clients, ClientConnects(c)
      PROVE  [LockNext]_lockVars
  BY <1>7 DEF ClientConnects, LockNext
<1>8. CASE UNCHANGED vars
  BY <1>8 DEF vars
<1>9. QED
  BY <1>1, <1>2, <1>3, <1>4, <1>5, <1>6, <1>7, <1>8 DEF Next

(* The processes implement AcceptLock without its fairness.                *)
THEOREM ImplementsLock == Spec => LockInit /\ [][LockNext]_lockVars
<1>1. Init => LockInit
  BY DEF Init
<1>2. QED
  BY <1>1, LockSteps, PTL DEF Spec

(* A living worker of the running server owns the mutex exactly in its       *)
(* section, wherever the others have died.                                   *)
THEOREM LockHeld == Spec => []LockGivenBack
<1>1. LockInit => LockGivenBack
  BY AcceptAssumption DEF LockInit, LockGivenBack, Living, InSection
<1>2. QED
  BY <1>1, ImplementsLock, InitTypes, StepTypes, StepLock, PTL

(* No connection to the running server is accepted twice or forgotten.       *)
THEOREM ServerForgetsNone == Spec => []AcceptedOnce
<1>1. QED
  BY ImplementsLock, InitHands, HandsSuffice, InitTypes, StepTypes, StepHands, PTL

-----------------------------------------------------------------------------
(* Types.                                                                  *)

LEMMA ProcessesInitTypes == Init => TypeOK
<1>1. SUFFICES ASSUME Init PROVE TypeOK
  OBVIOUS
<1>2. LockTypeOK
  BY <1>1, InitTypes DEF Init
<1>3. QED
  BY <1>1, <1>2, ProcessesAssumption DEF Init, TypeOK, Start, Signals, Processes

LEMMA ProcessesStepTypes == TypeOK /\ [Next]_vars => TypeOK'
<1>1. SUFFICES ASSUME TypeOK, [Next]_vars PROVE TypeOK'
  OBVIOUS
<1>2. LockTypeOK'
  BY <1>1, LockSteps, StepTypes DEF TypeOK
<1> DEFINE Types == StartTypes /\ StateTypes
<1>3. Types /\ (Types' => TypeOK')
  BY <1>1, <1>2 DEF TypeOK, StartTypes, StateTypes
<1> USE <1>3, ProcessesAssumption DEF StartTypes, StateTypes, Start, Processes, startVars, flagVars
<1>4. ASSUME StartUp PROVE Types'
  BY <1>4 DEF StartUp, LoadConf, InitSignals, OpenListening, PortsOpened, Daemonize
<1>5. ASSUME Spawn PROVE Types'
  <2>1. ASSUME NEW w \in Workers, SpawnProcess(w) PROVE Types'
    <3>1. forks' \in Nat
      BY <2>1 DEF SpawnProcess
    <3>2. child' = [child EXCEPT ![w] = "forked"]
      BY <2>1 DEF SpawnProcess
    <3>3. ngx_process' \in [Processes -> {"MASTER", "WORKER"}]
      BY <2>1 DEF SpawnProcess
    <3>4. ngx_reap' \in [Processes -> BOOLEAN]
      BY <2>1 DEF SpawnProcess
    <3>5. UNCHANGED <<conf, m_ListenSocketList, main, stack, pending, sent>>
      BY <2>1 DEF SpawnProcess
    <3>6. QED
      BY <3>1, <3>2, <3>3, <3>4, <3>5
  <2>2. CASE SpawnFails
    BY <2>2 DEF SpawnFails
  <2>3. QED
    BY <1>5, <2>1, <2>2 DEF Spawn
<1>6. ASSUME Suspend PROVE Types'
  BY <1>6 DEF Suspend
<1>7. ASSUME NEW s \in Signals, Deliver(s) PROVE Types'
  <2>1. <<s, "enter">> \in Signals \X {"enter", "waitpid"}
    OBVIOUS
  <2>2. stack' \in Seq(Signals \X {"enter", "waitpid"})
    BY <1>7, <2>1, PushPop DEF Deliver
  <2>3. QED
    BY <1>7, <2>2 DEF Deliver
<1>8. ASSUME Handle PROVE Types'
  <2>1. Tail(stack) \in Seq(Signals \X {"enter", "waitpid"})
    BY <1>8, PushPop DEF Handle
  <2>2. <<"SIGCHLD", "waitpid">> \in Signals \X {"enter", "waitpid"}
    BY DEF Signals
  <2>3. <<<<"SIGCHLD", "waitpid">>>> \o Tail(stack) \in Seq(Signals \X {"enter", "waitpid"})
    BY <2>1, <2>2, PushPop
  <2>4. stack' = <<<<"SIGCHLD", "waitpid">>>> \o Tail(stack) \/ stack' = Tail(stack)
    BY <1>8 DEF Handle, Return
  <2>5. stack' \in Seq(Signals \X {"enter", "waitpid"})
    BY <2>1, <2>3, <2>4
  <2>6. QED
    BY <1>8, <2>5 DEF Handle, Return
<1>9. ASSUME Reap PROVE Types'
  <2>1. Tail(stack) \in Seq(Signals \X {"enter", "waitpid"})
    BY <1>9, PushPop DEF Reap
  <2>2. QED
    BY <1>9, <2>1 DEF Reap, Return
<1>10. ASSUME NEW w \in Workers, WorkerStep(w) \/ Dies(w) PROVE Types'
  <2>1. CASE BecomeWorker(w)
    BY <2>1 DEF BecomeWorker
  <2>2. CASE Unblock(w)
    BY <2>2 DEF Unblock, HandlerRuns
  <2>3. CASE Serve(w)
    BY <2>3 DEF Serve, Send, Signals
  <2>4. CASE Work(w)
    BY <2>4 DEF Work
  <2>5. CASE Dies(w)
    BY <2>5 DEF Dies, Send, Signals
  <2>6. QED
    BY <1>10, <2>1, <2>2, <2>3, <2>4, <2>5 DEF WorkerStep
<1>11. AdminSignals \subseteq Signals
  BY DEF Signals
<1>12. ASSUME NEW w \in Workers, NEW s \in AdminSignals, SignalWorker(w, s) PROVE Types'
  <2>1. sent' \in 0..MaxSent
    BY <1>12 DEF SignalWorker
  <2>2. pending' \in [Processes -> SUBSET Signals]
    BY <1>11, <1>12 DEF SignalWorker, Send
  <2>3. ngx_reap' \in [Processes -> BOOLEAN]
    BY <1>12 DEF SignalWorker, HandlerRuns
  <2>4. QED
    BY <1>12, <2>1, <2>2, <2>3 DEF SignalWorker
<1>13. ASSUME NEW s \in AdminSignals, SignalMaster(s) PROVE Types'
  <2>1. sent' \in 0..MaxSent
    BY <1>13 DEF SignalMaster
  <2>2. pending' \in [Processes -> SUBSET Signals]
    BY <1>11, <1>13 DEF SignalMaster, Send
  <2>3. ngx_reap' \in [Processes -> BOOLEAN]
    BY <1>13 DEF SignalMaster, HandlerRuns
  <2>4. QED
    BY <1>13, <2>1, <2>2, <2>3 DEF SignalMaster
<1>14. ASSUME NEW c \in Clients, ClientConnects(c) PROVE Types'
  BY <1>14 DEF ClientConnects
<1>15. ASSUME UNCHANGED vars PROVE Types'
  BY <1>15 DEF vars
<1>16. QED
  BY <1>1, <1>4, <1>5, <1>6, <1>7, <1>8, <1>9, <1>10, <1>12, <1>13, <1>14, <1>15
     DEF Next, MasterStep

(* Every variable keeps its type, however the start-up fails and whoever     *)
(* dies: in particular the handlers' stack is popped only when one is in it. *)
THEOREM ProcessesTyped == Spec => []TypeOK
<1>1. QED
  BY ProcessesInitTypes, ProcessesStepTypes, PTL DEF Spec

-----------------------------------------------------------------------------
(* Zombies.                                                                *)
LEMMA StepZombies == TypeOK /\ NoZombieForgotten /\ [Next]_vars => NoZombieForgotten'
<1>1. SUFFICES ASSUME TypeOK, NoZombieForgotten, [Next]_vars, Zombies' # {}
               PROVE  "SIGCHLD" \in pending'[Master] \/ Interrupted("SIGCHLD")'
  BY DEF NoZombieForgotten
<1> DEFINE Seen == "SIGCHLD" \in pending[Master] \/ Interrupted("SIGCHLD")
           Handler == Signals \X {"enter", "waitpid"}
<1> USE ProcessesAssumption DEF Zombies
<1>2. stack \in Seq(Handler) /\ Len(stack) \in Nat /\ pending \in [Processes -> SUBSET Signals]
      /\ Master \in Processes /\ \A w \in Workers : w \in Processes /\ w # Master
  BY <1>1, LenProperties DEF TypeOK, Processes
<1>3. Zombies # {} => Seen
  BY <1>1 DEF NoZombieForgotten
<1>4. CASE UNCHANGED stack /\ pending[Master] \subseteq pending'[Master] /\ Zombies' \subseteq Zombies
  BY <1>1, <1>3, <1>4 DEF Interrupted
<1>5. CASE StartUp \/ Spawn \/ Suspend
  BY <1>1, <1>2, <1>4, <1>5 DEF StartUp, LoadConf, InitSignals, OpenListening, PortsOpened,
     Daemonize, Spawn, SpawnProcess, SpawnFails, Suspend, startVars, TypeOK
<1>6. ASSUME NEW s \in Signals, Deliver(s) PROVE Seen'
  <2>1. <<s, "enter">> \in Handler
    OBVIOUS
  <2>2. /\ Len(stack') = Len(stack) + 1 /\ stack'[1] = <<s, "enter">>
        /\ \A i \in 1..Len(stack) : stack'[i + 1] = stack[i]
    BY <1>2, <1>6, <2>1, PushPop DEF Deliver
  <2>3. Interrupted("SIGCHLD") => Interrupted("SIGCHLD")'
    <3>1. SUFFICES ASSUME NEW i \in 1..Len(stack), stack[i][1] = "SIGCHLD"
                   PROVE  \E j \in 1..Len(stack') : stack'[j][1] = "SIGCHLD"
      BY DEF Interrupted
    <3>2. i + 1 \in 1..Len(stack')
      BY <1>2, <2>2
    <3>3. QED
      BY <2>2, <3>1, <3>2
  <2>4. CASE s = "SIGCHLD"
    <3>1. 1 \in 1..Len(stack')
      BY <1>2, <2>2
    <3>2. QED
      BY <2>2, <2>4, <3>1 DEF Interrupted
  <2>5. CASE s # "SIGCHLD"
    BY <1>1, <1>2, <1>3, <1>6, <2>3, <2>5 DEF Deliver
  <2>6. QED
    BY <2>4, <2>5
<1>7. ASSUME Handle PROVE Seen'
  <2>1. /\ Len(stack) > 0 /\ Tail(stack) \in Seq(Handler) /\ Len(Tail(stack)) = Len(stack) - 1
        /\ Head(stack) = stack[1]
        /\ \A i \in 1..(Len(stack) - 1) : Tail(stack)[i] = stack[i + 1]
    BY <1>2, <1>7, PushPop, EmptySeq DEF Handle
  <2>2. CASE Head(stack)[1] = "SIGCHLD"
    <3>1. <<"SIGCHLD", "waitpid">> \in Handler
      BY DEF Signals
    <3>2. stack'[1] = <<"SIGCHLD", "waitpid">> /\ Len(stack') = Len(stack)
      BY <1>2, <1>7, <2>1, <2>2, <3>1, PushPop DEF Handle
    <3>3. 1 \in 1..Len(stack')
      BY <1>2, <2>1, <3>2
    <3>4. QED
      BY <3>2, <3>3 DEF Interrupted
  <2>3. CASE Head(stack)[1] # "SIGCHLD"
    <3>1. stack' = Tail(stack) /\ UNCHANGED <<child, pending>>
      BY <1>7, <2>3 DEF Handle, Return, startVars
    <3>2. ASSUME NEW i \in 1..Len(stack), stack[i][1] = "SIGCHLD"
          PROVE  Interrupted("SIGCHLD")'
      <4>1. i # 1 /\ i - 1 \in 1..(Len(stack) - 1)
        BY <1>2, <2>1, <2>3, <3>2
      <4>2. stack'[i - 1] = stack[i] /\ i - 1 \in 1..Len(stack')
        BY <1>2, <2>1, <3>1, <4>1
      <4>3. QED
        BY <3>2, <4>2 DEF Interrupted
    <3>3. QED
      BY <1>1, <1>3, <3>1, <3>2 DEF Interrupted
  <2>4. QED
    BY <2>2, <2>3
<1>8. ASSUME Reap PROVE Seen'
  <2>1. Zombies # {}
    BY <1>1, <1>8 DEF Reap, TypeOK
  <2>2. UNCHANGED <<stack, pending>>
    BY <1>8, <2>1 DEF Reap
  <2>3. QED
    BY <1>3, <2>1, <2>2 DEF Interrupted
<1>9. ASSUME NEW w \in Workers, WorkerStep(w) PROVE Seen'
  <2>1. UNCHANGED stack /\ pending[Master] \subseteq pending'[Master]
    BY <1>2, <1>9 DEF WorkerStep, BecomeWorker, Unblock, Serve, Work, Send
  <2>2. Zombies' \subseteq Zombies
    BY <1>1, <1>9 DEF WorkerStep, BecomeWorker, Unblock, Serve, Work, TypeOK
  <2>3. QED
    BY <1>4, <2>1, <2>2
<1>10. ASSUME NEW w \in Workers, Dies(w) PROVE Seen'
  BY <1>2, <1>10 DEF Dies, Send
<1>11. ASSUME NEW w \in Workers, NEW s \in AdminSignals, SignalWorker(w, s) PROVE Seen'
  BY <1>2, <1>4, <1>11 DEF SignalWorker, Send, HandlerRuns
<1>12. ASSUME NEW s \in AdminSignals, SignalMaster(s) PROVE Seen'
  BY <1>2, <1>4, <1>12 DEF SignalMaster, Send, HandlerRuns
<1>13. ASSUME NEW c \in Clients, ClientConnects(c) PROVE Seen'
  BY <1>4, <1>13 DEF ClientConnects
<1>14. CASE UNCHANGED vars
  BY <1>4, <1>14 DEF vars
<1>15. QED
  BY <1>1, <1>5, <1>6, <1>7, <1>8, <1>9, <1>10, <1>11, <1>12, <1>13, <1>14
     DEF Next, MasterStep

(* However many workers die, and whenever: as long as one of them is a       *)
(* zombie, a SIGCHLD is pending or a handler will still call waitpid.        *)
THEOREM NoZombieIsForgotten == Spec => []NoZombieForgotten
<1>1. Init => NoZombieForgotten
  BY DEF Init, NoZombieForgotten, Zombies
<1>2. QED
  BY <1>1, ProcessesInitTypes, ProcessesStepTypes, StepZombies, PTL DEF Spec

-----------------------------------------------------------------------------
(* The type of a process.                                                  *)
LEMMA StepWorkerTyped == TypeOK /\ WorkerTyped /\ [Next]_vars => WorkerTyped'
<1>1. SUFFICES ASSUME TypeOK, WorkerTyped, [Next]_vars PROVE WorkerTyped'
  OBVIOUS
<1> USE <1>1, ProcessesAssumption DEF TypeOK, WorkerTyped, Processes
<1>2. CASE MasterStep
  BY <1>2, ZenonT(40) DEF MasterStep, StartUp, LoadConf, InitSignals, OpenListening, PortsOpened,
     Daemonize, Spawn, SpawnProcess, SpawnFails, Suspend, Deliver, Handle, Reap, flagVars
<1>3. ASSUME NEW w \in Workers, WorkerStep(w) PROVE WorkerTyped'
  BY <1>3 DEF WorkerStep, BecomeWorker, Unblock, Serve, Work, flagVars
<1>4. ASSUME NEW w \in Workers, Dies(w) PROVE WorkerTyped'
  BY <1>4 DEF Dies, flagVars
<1>5. ASSUME NEW w \in Workers, NEW s \in AdminSignals, SignalWorker(w, s) PROVE WorkerTyped'
  BY <1>5 DEF SignalWorker
<1>6. ASSUME NEW s \in AdminSignals, SignalMaster(s) PROVE WorkerTyped'
  BY <1>6 DEF SignalMaster
<1>7. ASSUME NEW c \in Clients, ClientConnects(c) PROVE WorkerTyped'
  BY <1>7 DEF ClientConnects, flagVars
<1>8. CASE UNCHANGED vars
  BY <1>8 DEF vars, flagVars
<1>9. QED
  BY <1>2, <1>3, <1>4, <1>5, <1>6, <1>7, <1>8 DEF Next

(* The loop forks every worker once.                                         *)
Born == \A w \in Workers : child[w] # "unborn" => w \in Nat /\ w =< forks

LEMMA StepBorn == TypeOK /\ Born /\ [Next]_vars => Born'
<1>1. SUFFICES ASSUME TypeOK, Born, [Next]_vars PROVE Born'
  OBVIOUS
<1>2. CASE UNCHANGED forks /\ \A w \in Workers : child'[w] # "unborn" => child[w] # "unborn"
  BY <1>1, <1>2 DEF Born
<1>3. ASSUME NEW w \in Workers, SpawnProcess(w) PROVE Born'
  <2>1. forks \in Nat /\ w = forks + 1 /\ forks' = forks + 1
    BY <1>1, <1>3 DEF TypeOK, SpawnProcess
  <2>2. \A v \in Workers : v = w \/ child'[v] = child[v]
    BY <1>1, <1>3 DEF TypeOK, SpawnProcess
  <2>3. QED
    BY <1>1, <2>1, <2>2 DEF Born
<1>4. CASE SpawnFails
  BY <1>1, <1>4 DEF TypeOK, Born, SpawnFails
<1>5. CASE MasterStep
  BY <1>1, <1>2, <1>3, <1>4, <1>5 DEF MasterStep, StartUp, LoadConf, InitSignals,
     OpenListening, PortsOpened, Daemonize, Spawn, Suspend, Deliver, Handle, Reap, Zombies,
     TypeOK, startVars
<1>6. ASSUME NEW w \in Workers, WorkerStep(w) \/ Dies(w) PROVE Born'
  BY <1>1, <1>2, <1>6 DEF WorkerStep, BecomeWorker, Unblock, Serve, Work, Dies, Alive, TypeOK,
     startVars
<1>7. ASSUME NEW w \in Workers, NEW s \in AdminSignals, SignalWorker(w, s) PROVE Born'
  BY <1>2, <1>7 DEF SignalWorker, startVars
<1>8. ASSUME NEW s \in AdminSignals, SignalMaster(s) PROVE Born'
  BY <1>2, <1>8 DEF SignalMaster, startVars
<1>9. ASSUME NEW c \in Clients, ClientConnects(c) PROVE Born'
  BY <1>2, <1>9 DEF ClientConnects, startVars
<1>10. CASE UNCHANGED vars
  BY <1>2, <1>10 DEF vars, startVars
<1>11. QED
  BY <1>1, <1>5, <1>6, <1>7, <1>8, <1>9, <1>10 DEF Next

LEMMA StepReap ==
  TypeOK /\ WorkerTyped /\ Born /\ [Next]_vars =>
    \A w \in Workers : child[w] # "unborn" => ngx_reap'[w] = ngx_reap[w]
<1>1. SUFFICES ASSUME TypeOK, WorkerTyped, Born, [Next]_vars,
                      NEW u \in Workers, child[u] # "unborn"
               PROVE  ngx_reap'[u] = ngx_reap[u]
  OBVIOUS
<1> USE <1>1, ProcessesAssumption DEF TypeOK, WorkerTyped, Processes
<1>2. CASE MasterStep
  <2>1. ASSUME NEW w \in Workers, SpawnProcess(w) PROVE ngx_reap'[u] = ngx_reap[u]
    <3>1. forks \in Nat /\ w = forks + 1
      BY <2>1 DEF SpawnProcess
    <3>2. u # w
      BY <3>1 DEF Born
    <3>3. QED
      BY <2>1, <3>2 DEF SpawnProcess
  <2>2. QED
    BY <1>2, <2>1 DEF MasterStep, StartUp, LoadConf, InitSignals, OpenListening, PortsOpened,
       Daemonize, Spawn, SpawnFails, Suspend, Deliver, Handle, Reap, flagVars
<1>3. ASSUME NEW w \in Workers, WorkerStep(w) PROVE ngx_reap'[u] = ngx_reap[u]
  BY <1>3 DEF WorkerStep, BecomeWorker, Unblock, HandlerRuns, Serve, Work, flagVars
<1>4. ASSUME NEW w \in Workers, Dies(w) PROVE ngx_reap'[u] = ngx_reap[u]
  BY <1>4 DEF Dies, flagVars
<1>5. ASSUME NEW w \in Workers, NEW s \in AdminSignals, SignalWorker(w, s)
      PROVE  ngx_reap'[u] = ngx_reap[u]
  BY <1>5 DEF SignalWorker, HandlerRuns, Alive
<1>6. ASSUME NEW s \in AdminSignals, SignalMaster(s) PROVE ngx_reap'[u] = ngx_reap[u]
  BY <1>6 DEF SignalMaster, HandlerRuns
<1>7. ASSUME NEW c \in Clients, ClientConnects(c) PROVE ngx_reap'[u] = ngx_reap[u]
  BY <1>7 DEF ClientConnects, flagVars
<1>8. CASE UNCHANGED vars
  BY <1>8 DEF vars, flagVars
<1>9. QED
  BY <1>2, <1>3, <1>4, <1>5, <1>6, <1>7, <1>8 DEF Next

(* A worker never takes the master's branch of the signal handler.           *)
THEOREM WorkersAreNoMasters == Spec => WorkerNeverMaster
<1>1. Init => WorkerTyped /\ Born
  BY DEF Init, WorkerTyped, Born
<1>2. TypeOK /\ WorkerTyped /\ Born /\ [Next]_vars =>
        [\A w \in Workers : child[w] # "unborn" => ngx_reap'[w] = ngx_reap[w]]_vars
  BY StepReap
<1>3. QED
  BY <1>1, <1>2, ProcessesInitTypes, ProcessesStepTypes, StepWorkerTyped, StepBorn, PTL
     DEF Spec, WorkerNeverMaster

-----------------------------------------------------------------------------
(* The process title.                                                      *)

\* Memory with texts in it.
Cells == Chars \cup {NUL, "?"}
Texts == Seq(Seq(Chars))

\* text begins at address p of memory, with its NUL.
Lies(memory, p, text) ==
  /\ p \in 1..Len(memory) /\ p + Len(text) \in 1..Len(memory)
  /\ memory[p + Len(text)] = NUL
  /\ \A j \in 1..Len(text) : memory[p + j - 1] = text[j]

\* strlen finds the NUL at the end of a text, as texts have none in them.
LEMMA TextFound ==
  ASSUME NEW memory \in Seq(Cells), NEW text \in Seq(Chars), NEW p, Lies(memory, p, text)
  PROVE  TextAt(memory, p) = text
<1> DEFINE nuls == {i \in p..Len(memory) : memory[i] = NUL}
           end == p + Len(text)
<1>1. p \in Nat \ {0} /\ end \in Nat /\ Len(memory) \in Nat /\ Len(text) \in Nat /\ end =< Len(memory)
  BY DEF Lies
<1>2. end \in nuls
  BY <1>1 DEF Lies
<1>3. ASSUME NEW i \in nuls PROVE end =< i
  <2>1. SUFFICES ASSUME i < end PROVE FALSE
    BY <1>1
  <2>2. PICK j \in 1..Len(text) : j = i - p + 1
    BY <1>1, <2>1
  <2>3. memory[i] = text[j]
    <3>1. p + j - 1 = i
      BY <1>1, <2>2
    <3>2. QED
      BY <3>1 DEF Lies
  <2>4. text[j] \in Chars
    BY ElementOfSeq
  <2>5. QED
    BY <2>3, <2>4, ProcTitleAssumption
<1>4. Min(nuls) = end
  <2>1. \A i \in nuls : i \in Int
    BY <1>1
  <2> HIDE DEF nuls, end
  <2>2. \E x \in nuls : \A y \in nuls : x =< y
    BY <1>2, <1>3
  <2>3. Min(nuls) \in nuls /\ Min(nuls) =< end
    BY <1>2, <2>2 DEF Min
  <2>4. QED
    BY <1>1, <1>3, <2>1, <2>3
<1>5. TextAt(memory, p) = SubSeq(memory, p, end - 1)
  <2>1. SelectInSubSeq(memory, p, Len(memory), LAMBDA c : c = NUL) = Min(nuls)
    BY <1>2 DEF SelectInSubSeq
  <2>2. QED
    BY <1>4, <2>1 DEF TextAt
<1>6. SubSeq(memory, p, end - 1) = text
  <2>1. PICK m \in Nat : m = Len(text)
    BY <1>1
  <2>2. /\ SubSeq(memory, p, end - 1) \in Seq(Cells)
        /\ Len(SubSeq(memory, p, end - 1)) = m
        /\ \A j \in 1..m : SubSeq(memory, p, end - 1)[j] = memory[p + j - 1]
    BY <1>1, <2>1, SubSeqProperties, SMTT(20)
  <2>3. text \in Seq(Cells)
    BY ElementOfSeq, SeqDef DEF Cells
  <2>4. QED
    BY <2>1, <2>2, <2>3, SeqEqual DEF Lies
<1>7. QED
  BY <1>5, <1>6

\* What a block of texts is, and that each is where Begin says.
LEMMA BlockGrows ==
  /\ Block(<<>>) = <<>>
  /\ \A texts \in Texts : Block(texts) \in Seq(Cells)
  /\ \A texts \in Texts, text \in Seq(Chars) :
       Block(Append(texts, text)) = Block(texts) \o Append(text, NUL)
<1> DEFINE ended(texts) == [i \in DOMAIN texts |-> Append(texts[i], NUL)]
<1>1. Block(<<>>) = <<>>
  <2>1. ended(<<>>) = <<>>
    BY EmptySeq
  <2>2. QED
    BY <2>1, EmptySeq DEF Block, FlattenSeq
<1>2. ASSUME NEW text \in Seq(Chars) PROVE Append(text, NUL) \in Seq(Cells)
  BY DEF Cells
<1>3. ASSUME NEW texts \in Texts PROVE ended(texts) \in Seq(Seq(Cells))
  <2>1. PICK n \in Nat : n = Len(texts) /\ DOMAIN texts = 1..n
    BY DEF Texts
  <2>2. \A i \in 1..n : texts[i] \in Seq(Chars)
    BY <2>1 DEF Texts
  <2>3. \A i \in 1..n : Append(texts[i], NUL) \in Seq(Cells)
    BY <1>2, <2>2
  <2>4. QED
    BY <2>1, <2>3, SeqDef
<1>4. ASSUME NEW texts \in Texts, NEW text \in Seq(Chars)
      PROVE  ended(Append(texts, text)) = Append(ended(texts), Append(text, NUL))
  <2>1. PICK n \in Nat : n = Len(texts) /\ DOMAIN texts = 1..n
    BY DEF Texts
  <2> DEFINE more == Append(texts, text)
  <2>2. /\ Len(more) = n + 1 /\ DOMAIN more = 1..n + 1 /\ more[n + 1] = text
        /\ \A i \in 1..n : more[i] = texts[i]
    BY <2>1 DEF Texts
  <2>3. Len(ended(texts)) = n
    BY <1>3, <2>1
  <2> HIDE DEF more
  <2>4. QED
    BY <2>1, <2>2, <2>3
<1>5. ASSUME NEW texts \in Texts PROVE Block(texts) \in Seq(Cells)
  <2>1. <<>> \in Seq(Cells)
    BY EmptySeq
  <2>2. FlattenSeq(ended(texts)) \in Seq(Cells)
    <3> HIDE DEF ended
    <3>1. QED
      BY <1>3, <2>1, Flattened
  <2>3. QED
    BY <2>2 DEF Block
<1>6. ASSUME NEW texts \in Texts, NEW text \in Seq(Chars)
      PROVE  Block(Append(texts, text)) = Block(texts) \o Append(text, NUL)
  <2>1. FlattenSeq(Append(ended(texts), Append(text, NUL)))
          = FlattenSeq(ended(texts)) \o Append(text, NUL)
    <3> HIDE DEF ended
    <3>1. QED
      BY <1>2, <1>3, Flattened
  <2>2. QED
    BY <1>4, <2>1 DEF Block
<1>7. QED
  BY <1>1, <1>5, <1>6

\* A text lies where it lay if what is there has not changed.
LEMMA StillLies ==
  ASSUME NEW text \in Seq(Chars), NEW memory \in Seq(Cells), NEW later \in Seq(Cells), NEW p,
         Lies(memory, p, text), Len(memory) =< Len(later),
         \A i \in 1..Len(memory) : i >= p => later[i] = memory[i]
  PROVE  Lies(later, p, text)
<1>1. PICK n \in Nat, m \in Nat, l \in Nat : n = Len(memory) /\ m = Len(later) /\ l = Len(text)
  OBVIOUS
<1>2. p \in 1..n /\ p + l \in 1..n /\ n =< m
  BY <1>1 DEF Lies
<1>3. later[p + l] = NUL
  BY <1>1, <1>2 DEF Lies
<1>4. ASSUME NEW j \in 1..l PROVE later[p + j - 1] = text[j]
  <2>1. p + j - 1 \in 1..n /\ p + j - 1 >= p
    BY <1>2
  <2>2. QED
    BY <1>1, <2>1 DEF Lies
<1>5. QED
  BY <1>1, <1>2, <1>3, <1>4 DEF Lies

\* Each text of a block is where Begin says; by induction over the texts.
LEMMA LiesInBlock ==
  ASSUME NEW texts \in Texts, NEW i \in 1..Len(texts)
  PROVE  Lies(Block(texts), Begin(texts, i), texts[i])
<1> DEFINE T == {s \in Texts : \A k \in 1..Len(s) : Lies(Block(s), Begin(s, k), s[k])}
<1>1. <<>> \in T
  BY EmptySeq DEF Texts
<1>2. ASSUME NEW s \in Texts, NEW text \in Seq(Chars), s \in T PROVE Append(s, text) \in T
  <2>1. PICK n \in Nat, l \in Nat, b \in Nat : n = Len(s) /\ l = Len(text) /\ b = Len(Block(s))
    BY BlockGrows DEF Texts
  <2>2. PICK more \in Texts : more = Append(s, text)
    <3>1. Append(s, text) \in Texts
      BY DEF Texts
    <3>2. QED
      BY <3>1
  <2>3. Len(more) = n + 1 /\ more[n + 1] = text /\ \A k \in 1..n : more[k] = s[k]
    BY <2>1, <2>2 DEF Texts
  <2>4. PICK old \in Seq(Cells), new \in Seq(Cells) : old = Block(s) /\ new = Block(more)
    BY <2>2, BlockGrows
  <2>5. /\ Len(new) = b + l + 1 /\ Len(old) = b /\ new[b + l + 1] = NUL
        /\ \A k \in 1..b : new[k] = old[k]
        /\ \A k \in 1..l : new[b + k] = text[k]
    <3>1. new = old \o Append(text, NUL)
      BY <2>2, <2>4, BlockGrows
    <3>2. /\ Append(text, NUL) \in Seq(Cells) /\ Len(Append(text, NUL)) = l + 1
          /\ Append(text, NUL)[l + 1] = NUL
          /\ \A k \in 1..l : Append(text, NUL)[k] = text[k]
      BY <2>1 DEF Cells
    <3>3. PICK tail \in Seq(Cells) : tail = Append(text, NUL)
      BY <3>2
    <3>4. QED
      BY <2>1, <2>4, <3>1, <3>2, <3>3, ConcatProperties
  <2>6. ASSUME NEW k \in 1..n PROVE Begin(more, k) = Begin(s, k)
    <3>1. SubSeq(more, 1, k - 1) = SubSeq(s, 1, k - 1)
      BY <2>1, <2>2, <2>3 DEF Texts
    <3>2. QED
      BY <3>1 DEF Begin
  <2>7. Begin(more, n + 1) = b + 1
    <3>1. PICK k \in Nat : k = n + 1 /\ k - 1 = n
      OBVIOUS
    <3>2. SubSeq(more, 1, k - 1) = s
      BY <2>1, <2>2, <2>3, <3>1 DEF Texts
    <3>3. Begin(more, k) = 1 + Len(Block(s))
      BY <3>2 DEF Begin
    <3>4. QED
      BY <2>1, <3>1, <3>3
  <2>8. ASSUME NEW k \in 1..n PROVE Lies(new, Begin(more, k), more[k])
    <3>1. Lies(old, Begin(s, k), s[k]) /\ s[k] \in Seq(Chars)
      BY <1>2, <2>1, <2>4 DEF Texts
    <3>2. Len(old) =< Len(new) /\ \A j \in 1..Len(old) : new[j] = old[j]
      BY <2>1, <2>5
    <3>3. Lies(new, Begin(s, k), s[k])
      BY <3>1, <3>2, StillLies
    <3>4. QED
      BY <2>3, <2>6, <3>3
  <2>9. Lies(new, Begin(more, n + 1), more[n + 1])
    <3>1. Lies(new, b + 1, text)
      <4>1. b + 1 \in 1..b + l + 1 /\ b + 1 + l = b + l + 1 /\ b + l + 1 \in 1..b + l + 1
        OBVIOUS
      <4>2. \A k \in 1..l : b + 1 + k - 1 = b + k
        OBVIOUS
      <4>3. QED
        BY <2>1, <2>5, <4>1, <4>2 DEF Lies
    <3>2. QED
      BY <2>3, <2>7, <3>1
  <2>10. \A k \in 1..n + 1 : k \in 1..n \/ k = n + 1
    OBVIOUS
  <2>11. \A k \in 1..Len(more) : Lies(Block(more), Begin(more, k), more[k])
    BY <2>3, <2>4, <2>8, <2>9, <2>10
  <2>12. QED
    BY <2>2, <2>11
<1>3. texts \in T
  <2>1. Texts \subseteq T
    <3> HIDE DEF T
    <3>1. QED
      BY <1>1, <1>2, SequenceInduction DEF Texts
  <2>2. QED
    BY <2>1
<1>4. QED
  BY <1>3

\* Two blocks one after the other.
LEMMA Joined ==
  ASSUME NEW texts \in Texts, NEW others \in Texts
  PROVE  Block(texts \o others) = Block(texts) \o Block(others)
<1> DEFINE T == {s \in Texts : Block(texts \o s) = Block(texts) \o Block(s)}
<1>1. <<>> \in T
  <2>1. texts \o <<>> = texts /\ Block(texts) \o <<>> = Block(texts) /\ <<>> \in Texts
    BY BlockGrows, ConcatEmptySeq, EmptySeq DEF Texts
  <2>2. QED
    BY <2>1, BlockGrows
<1>2. ASSUME NEW s \in Texts, NEW text \in Seq(Chars), s \in T PROVE Append(s, text) \in T
  <2>1. Append(s, text) \in Texts /\ texts \o s \in Texts
    BY DEF Texts
  <2>2. texts \o Append(s, text) = Append(texts \o s, text)
    BY SMTT(40) DEF Texts
  <2>3. Block(texts \o Append(s, text)) = Block(texts \o s) \o Append(text, NUL)
    BY <2>1, <2>2, BlockGrows
  <2>4. Block(Append(s, text)) = Block(s) \o Append(text, NUL)
    BY BlockGrows
  <2>5. Append(text, NUL) \in Seq(Cells)
    BY DEF Cells
  <2>6. (Block(texts) \o Block(s)) \o Append(text, NUL) = Block(texts) \o (Block(s) \o Append(text, NUL))
    <3>1. PICK x \in Seq(Cells), y \in Seq(Cells), z \in Seq(Cells) :
            x = Block(texts) /\ y = Block(s) /\ z = Append(text, NUL)
      BY <2>5, BlockGrows
    <3>2. (x \o y) \o z = x \o (y \o z)
      BY ConcatAssociative, SMTT(40)
    <3>3. QED
      BY <3>1, <3>2
  <2>7. QED
    BY <1>2, <2>1, <2>3, <2>4, <2>6
<1>3. others \in T
  <2>1. Texts \subseteq T
    <3> HIDE DEF T
    <3>1. QED
      BY <1>1, <1>2, SequenceInduction DEF Texts
  <2>2. QED
    BY <2>1
<1>4. QED
  BY <1>3

-----------------------------------------------------------------------------
\* What the titles leave as it is.
Moved(p, argv, environ) ==
  /\ p.gp_envmem = Block(environ)
  /\ p.environ = [i \in DOMAIN environ |-> <<"gp_envmem", Begin(environ, i)>>]
  /\ p.g_argvneedmem = Len(Block(argv)) /\ p.g_envneedmem = Len(Block(environ))
  /\ p.stack \in Seq(Cells)
  /\ Len(p.stack) = Len(Block(argv)) + Len(Block(environ)) + 2
  /\ SubSeq(p.stack, Len(p.stack) - 1, Len(p.stack)) = Beyond

\* title begins the memory, and what follows it in the block is zeros.
Shown(p, title, size) ==
  /\ p.argc = 1 /\ Len(title) < size
  /\ \A i \in 1..Len(title) : p.stack[i] = title[i]
  /\ \A i \in Len(title) + 1..size : p.stack[i] = NUL

\* What main() is started with: argv[0] and all of environ can be read.
LEMMA StartedTexts ==
  ASSUME NEW argv \in Texts, NEW environ \in Texts
  PROVE  LET p == Started(argv, environ) IN
         /\ \A i \in DOMAIN environ : Getenv(p, i) = environ[i]
         /\ argv # <<>> => TextAt(p.stack, 1) = argv[1]
         /\ p.stack \in Seq(Cells)
         /\ Len(p.stack) = Len(Block(argv)) + Len(Block(environ)) + 2
         /\ SubSeq(p.stack, Len(p.stack) - 1, Len(p.stack)) = Beyond
<1> DEFINE p == Started(argv, environ)
<1>1. PICK a \in Nat, e \in Nat : a = Len(argv) /\ e = Len(environ)
  BY DEF Texts
<1>2. PICK both \in Texts : both = argv \o environ
  <2>1. argv \o environ \in Texts
    BY ConcatProperties DEF Texts
  <2>2. QED
    BY <2>1
<1>3. /\ Len(both) = a + e /\ \A i \in 1..a : both[i] = argv[i]
      /\ \A i \in 1..e : both[a + i] = environ[i]
  BY <1>1, <1>2 DEF Texts
<1>4. PICK m \in Nat, n \in Nat : m = Len(Block(argv)) /\ n = Len(Block(environ))
  BY BlockGrows
<1>5. PICK block \in Seq(Cells) : block = Block(both) /\ Len(block) = m + n
  <2>1. Block(both) \in Seq(Cells) /\ Block(argv) \in Seq(Cells) /\ Block(environ) \in Seq(Cells)
    BY BlockGrows
  <2>2. Block(both) = Block(argv) \o Block(environ)
    BY <1>2, Joined
  <2>3. QED
    BY <1>4, <2>1, <2>2, ConcatProperties
<1>6. PICK memory \in Seq(Cells) :
        /\ memory = p.stack /\ Len(memory) = m + n + 2
        /\ \A i \in 1..m + n : memory[i] = block[i]
        /\ memory[m + n + 1] = "?" /\ memory[m + n + 2] = "?"
  <2>1. p.stack = block \o Beyond
    BY <1>2, <1>5 DEF Started
  <2>2. /\ Beyond \in Seq(Cells) /\ Len(Beyond) = 2 /\ Beyond[1] = "?" /\ Beyond[2] = "?"
    BY DEF Beyond, Cells
  <2>3. PICK beyond \in Seq(Cells) : beyond = Beyond
    BY <2>2
  <2>4. PICK l \in Nat : l = m + n
    OBVIOUS
  <2>5. /\ block \o beyond \in Seq(Cells) /\ Len(block \o beyond) = l + 2
        /\ \A i \in 1..l + 2 :
             (block \o beyond)[i] = IF i <= l THEN block[i] ELSE beyond[i - l]
    <3>1. /\ block \o beyond \in Seq(Cells) /\ Len(block \o beyond) = Len(block) + Len(beyond)
          /\ \A i \in 1..Len(block) + Len(beyond) :
               (block \o beyond)[i] = IF i <= Len(block) THEN block[i] ELSE beyond[i - Len(block)]
      BY ConcatProperties
    <3>2. Len(block) = l /\ Len(beyond) = 2
      BY <1>5, <2>2, <2>3, <2>4
    <3>3. QED
      BY <3>1, <3>2
  <2>6. PICK joined \in Seq(Cells) : joined = block \o beyond
    BY <2>5
  <2>7. /\ \A i \in 1..l : joined[i] = block[i]
        /\ joined[l + 1] = beyond[1] /\ joined[l + 2] = beyond[2]
    BY <2>5, <2>6
  <2>8. QED
    BY <2>1, <2>2, <2>3, <2>4, <2>5, <2>6, <2>7
<1>7. ASSUME NEW i \in 1..a + e PROVE TextAt(memory, Begin(both, i)) = both[i]
  <2>1. both[i] \in Seq(Chars)
    BY <1>3 DEF Texts
  <2>2. Lies(block, Begin(both, i), both[i])
    BY <1>3, <1>5, LiesInBlock
  <2>3. Len(block) =< Len(memory) /\ \A j \in 1..Len(block) : memory[j] = block[j]
    BY <1>5, <1>6
  <2>4. Lies(memory, Begin(both, i), both[i])
    BY <2>1, <2>2, <2>3, StillLies
  <2>5. QED
    BY <2>1, <2>4, TextFound
<1>8. ASSUME NEW i \in 1..e PROVE Getenv(p, i) = environ[i]
  <2>1. p.environ[i] = <<"stack", Begin(both, a + i)>>
    BY <1>1, <1>2 DEF Started, Texts
  <2>2. Getenv(p, i) = TextAt(memory, Begin(both, a + i))
    BY <1>6, <2>1 DEF Getenv
  <2>3. a + i \in 1..a + e
    OBVIOUS
  <2>4. QED
    BY <1>3, <1>7, <2>2, <2>3
<1>9. ASSUME argv # <<>> PROVE TextAt(memory, 1) = argv[1]
  <2>1. 1 \in 1..a
    BY <1>1, <1>9, EmptySeq DEF Texts
  <2>2. Begin(both, 1) = 1
    <3>1. PICK one \in Nat : one = 1 /\ one - 1 = 0
      OBVIOUS
    <3>2. SubSeq(both, 1, one - 1) = <<>>
      BY <3>1, SubSeqEmpty
    <3>3. Begin(both, one) = 1 + Len(Block(<<>>))
      BY <3>2 DEF Begin
    <3>4. Len(Block(<<>>)) = 0
      BY BlockGrows, EmptySeq
    <3>5. QED
      BY <3>1, <3>3, <3>4
  <2>3. 1 \in 1..a + e
    BY <2>1
  <2>4. QED
    BY <1>3, <1>7, <2>1, <2>2, <2>3
<1>10. SubSeq(memory, Len(memory) - 1, Len(memory)) = Beyond
  <2>1. PICK l \in Nat : l = m + n
    OBVIOUS
  <2>2. Len(memory) = l + 2 /\ Len(memory) - 1 = l + 1
    BY <1>6, <2>1
  <2>3. PICK end \in Seq(Cells) : end = SubSeq(memory, l + 1, l + 2)
    <3>1. \A i \in l + 1..l + 2 : memory[i] \in Cells
      BY <2>2
    <3>2. SubSeq(memory, l + 1, l + 2) \in Seq(Cells)
      BY <3>1, SubSeqProperties
    <3>3. QED
      BY <3>2
  <2>4. Len(end) = 2 /\ end[1] = "?" /\ end[2] = "?"
    <3>1. memory[l + 1] = "?" /\ memory[l + 2] = "?"
      BY <1>6, <2>1, <2>2
    <3>2. Len(end) = 2
      BY <2>3, <2>2, SubSeqProperties
    <3>3. end[1] = memory[l + 1] /\ end[2] = memory[l + 2]
      BY <2>3, <2>2, SubSeqProperties
    <3>4. QED
      BY <3>1, <3>2, <3>3
  <2>5. end = Beyond
    BY <2>4 DEF Beyond
  <2>6. QED
    BY <2>2, <2>3, <2>5
<1>11. DOMAIN environ = 1..e
  BY <1>1 DEF Texts
<1>12. QED
  BY <1>4, <1>6, <1>8, <1>9, <1>10, <1>11

\* ngx_init_setproctitle moves the environment and leaves the block alone.
LEMMA InitMoves ==
  ASSUME NEW argv \in Texts, NEW environ \in Texts
  PROVE  LET p == Started(argv, environ)
             q == ngx_init_setproctitle(p)
         IN Moved(q, argv, environ) /\ q.stack = p.stack /\ DOMAIN q = DOMAIN p
<1> DEFINE p == Started(argv, environ)
           q == ngx_init_setproctitle(p)
           texts == [i \in DOMAIN p.environ |-> Getenv(p, i)]
<1>1. DOMAIN p.environ = DOMAIN environ
  BY DEF Started
<1>2. texts = environ
  <2>1. \A i \in DOMAIN environ : Getenv(p, i) = environ[i]
    BY StartedTexts
  <2>2. environ = [i \in DOMAIN environ |-> environ[i]]
    BY DEF Texts
  <2>3. QED
    BY <1>1, <2>1, <2>2
<1>3. /\ q.gp_envmem = Block(texts)
      /\ q.environ = [i \in DOMAIN p.environ |-> <<"gp_envmem", Begin(texts, i)>>]
      /\ q.stack = p.stack /\ DOMAIN q = DOMAIN p
      /\ q.g_argvneedmem = p.g_argvneedmem /\ q.g_envneedmem = p.g_envneedmem
  BY DEF ngx_init_setproctitle, Started
<1>4. p.g_argvneedmem = Len(Block(argv)) /\ p.g_envneedmem = Len(Block(environ))
  BY DEF Started
<1>5. QED
  <2>1. /\ p.stack \in Seq(Cells)
        /\ Len(p.stack) = Len(Block(argv)) + Len(Block(environ)) + 2
        /\ SubSeq(p.stack, Len(p.stack) - 1, Len(p.stack)) = Beyond
    BY StartedTexts
  <2>2. q.environ = [i \in DOMAIN environ |-> <<"gp_envmem", Begin(environ, i)>>]
    <3> HIDE DEF p, q, texts
    <3>1. QED
      BY <1>1, <1>2, <1>3
  <2> HIDE DEF p, q, texts
  <2>3. /\ q.stack \in Seq(Cells)
        /\ Len(q.stack) = Len(Block(argv)) + Len(Block(environ)) + 2
        /\ SubSeq(q.stack, Len(q.stack) - 1, Len(q.stack)) = Beyond
    BY <1>3, <2>1, Zenon
  <2>4. /\ q.gp_envmem = Block(environ)
        /\ q.g_argvneedmem = Len(Block(argv)) /\ q.g_envneedmem = Len(Block(environ))
    BY <1>2, <1>3, <1>4
  <2>5. Moved(q, argv, environ)
    BY <2>2, <2>3, <2>4, Zenon DEF Moved
  <2>6. QED
    BY <1>3, <2>5 DEF p, q

\* The environment is found where it was moved to.
LEMMA EnvironmentKept ==
  ASSUME NEW argv \in Texts, NEW environ \in Texts, NEW p, Moved(p, argv, environ)
  PROVE  \A i \in DOMAIN environ : Getenv(p, i) = environ[i]
<1>1. SUFFICES ASSUME NEW i \in DOMAIN environ PROVE Getenv(p, i) = environ[i]
  OBVIOUS
<1>2. i \in 1..Len(environ) /\ environ[i] \in Seq(Chars)
  BY DEF Texts
<1>3. Lies(Block(environ), Begin(environ, i), environ[i])
  BY <1>2, LiesInBlock
<1>4. Block(environ) \in Seq(Cells)
  BY BlockGrows
<1>5. p.environ[i] = <<"gp_envmem", Begin(environ, i)>> /\ p.gp_envmem = Block(environ)
  BY DEF Moved
<1>6. Getenv(p, i) = TextAt(Block(environ), Begin(environ, i))
  BY <1>5 DEF Getenv
<1>7. QED
  BY <1>2, <1>3, <1>4, <1>6, TextFound

\* A title is shown if there is room, and nothing changes if there is none.
LEMMA TitleSet ==
  ASSUME NEW argv \in Texts, NEW environ \in Texts, NEW p, Moved(p, argv, environ),
         NEW title \in Seq(Chars), {"stack", "argc"} \subseteq DOMAIN p
  PROVE  LET q == ngx_setproctitle(p, title)
             size == Len(Block(argv)) + Len(Block(environ))
         IN /\ Moved(q, argv, environ) /\ DOMAIN q = DOMAIN p
            /\ size =< Len(title) => q = p
            /\ Len(title) < size => Shown(q, title, size) /\ TextAt(q.stack, 1) = title
<1> DEFINE q == ngx_setproctitle(p, title)
           size == Len(Block(argv)) + Len(Block(environ))
<1>1. PICK n \in Nat, l \in Nat : n = size /\ l = Len(title)
  <2>1. Block(argv) \in Seq(Cells) /\ Block(environ) \in Seq(Cells)
    BY BlockGrows
  <2>2. QED
    BY <2>1
<1>2. /\ p.stack \in Seq(Cells) /\ Len(p.stack) = n + 2
      /\ p.g_argvneedmem + p.g_envneedmem = n
      /\ SubSeq(p.stack, n + 1, n + 2) = Beyond
  <2>1. n + 2 - 1 = n + 1
    OBVIOUS
  <2>2. QED
    BY <1>1, <2>1 DEF Moved
<1>3. CASE n =< l
  <2>1. q = p
    BY <1>1, <1>2, <1>3 DEF ngx_setproctitle
  <2>2. QED
    BY <1>1, <1>3, <2>1
<1>4. CASE l < n
  <2> DEFINE esy == p.g_argvneedmem + p.g_envneedmem
             written == [i \in DOMAIN p.stack |->
                           IF i =< Len(title) THEN title[i]
                           ELSE IF i =< esy THEN NUL ELSE p.stack[i]]
  <2>1. q = [p EXCEPT !.argc = 1, !.stack = written]
    <3>1. ~(esy =< Len(title))
      BY <1>1, <1>2, <1>4
    <3>2. QED
      BY <3>1, Zenon DEF ngx_setproctitle
  <2>2. /\ written \in Seq(Cells) /\ Len(written) = n + 2
        /\ \A i \in 1..n + 2 :
             written[i] = IF i =< l THEN title[i] ELSE IF i =< n THEN NUL ELSE p.stack[i]
    <3>1. DOMAIN p.stack = 1..n + 2 /\ \A i \in 1..n + 2 : p.stack[i] \in Cells
      BY <1>2
    <3>2. \A i \in 1..l : title[i] \in Cells
      BY <1>1 DEF Cells
    <3>3. NUL \in Cells
      BY DEF Cells
    <3>4. \A i \in 1..n + 2 : i =< l => i \in 1..l
      OBVIOUS
    <3>5. Len(title) = l /\ esy = n
      BY <1>1, <1>2
    <3> HIDE DEF esy
    <3>6. written \in [1..n + 2 -> Cells]
      BY <3>1, <3>2, <3>3, <3>4, <3>5
    <3>7. QED
      BY <3>1, <3>5, <3>6, SeqDef, SMTT(40)
  <2> HIDE DEF written
  <2>3. /\ q.argc = 1 /\ q.stack = written /\ DOMAIN q = DOMAIN p
        /\ q.gp_envmem = p.gp_envmem /\ q.environ = p.environ
        /\ q.g_argvneedmem = p.g_argvneedmem /\ q.g_envneedmem = p.g_envneedmem
    BY <2>1
  <2>4. SubSeq(written, n + 1, n + 2) = Beyond
    <3>1. /\ \A i \in n + 1..n + 2 : p.stack[i] \in Cells
          /\ \A i \in n + 1..n + 2 : written[i] \in Cells
          /\ written[n + 1] = p.stack[n + 1] /\ written[n + 2] = p.stack[n + 2]
      BY <1>2, <1>4, <2>2
    <3>2. /\ SubSeq(p.stack, n + 1, n + 2) \in Seq(Cells)
          /\ SubSeq(written, n + 1, n + 2) \in Seq(Cells)
      BY <3>1, SubSeqProperties
    <3>3. PICK x \in Seq(Cells), y \in Seq(Cells) :
            x = SubSeq(p.stack, n + 1, n + 2) /\ y = SubSeq(written, n + 1, n + 2)
      BY <3>2
    <3>4. Len(x) = 2 /\ x[1] = p.stack[n + 1] /\ x[2] = p.stack[n + 2]
      <4>1. PICK s \in Seq(Cells) : s = p.stack
        BY <1>2
      <4>2. Len(s) = n + 2
        BY <1>2, <4>1
      <4>3. PICK k \in Nat : k = n + 1 /\ k + 1 = n + 2
        OBVIOUS
      <4>4. x = SubSeq(s, k, k + 1)
        BY <3>3, <4>1, <4>3
      <4>5. Len(x) = 2 /\ x[1] = s[k] /\ x[2] = s[k + 1]
        BY <4>2, <4>3, <4>4
      <4>6. QED
        BY <4>1, <4>3, <4>5
    <3>5. Len(y) = 2 /\ y[1] = written[n + 1] /\ y[2] = written[n + 2]
      BY <2>2, <3>3
    <3>6. x = y
      BY <3>1, <3>4, <3>5
    <3>7. QED
      BY <1>2, <3>3, <3>6
  <2>5. Moved(q, argv, environ)
    <3>1. n + 2 - 1 = n + 1
      OBVIOUS
    <3>2. /\ q.gp_envmem = Block(environ)
          /\ q.environ = [i \in DOMAIN environ |-> <<"gp_envmem", Begin(environ, i)>>]
          /\ q.g_argvneedmem = Len(Block(argv)) /\ q.g_envneedmem = Len(Block(environ))
      BY <2>3 DEF Moved
    <3>3. /\ q.stack \in Seq(Cells) /\ Len(q.stack) = n + 2
          /\ SubSeq(q.stack, n + 1, n + 2) = Beyond
      BY <2>2, <2>3, <2>4
    <3> HIDE DEF q
    <3>4. QED
      BY <1>1, <3>1, <3>2, <3>3 DEF Moved
  <2>6. Shown(q, title, size)
    BY <1>1, <1>4, <2>2, <2>3 DEF Shown
  <2>7. TextAt(written, 1) = title
    <3>1. Lies(written, 1, title)
      BY <1>1, <1>4, <2>2 DEF Lies
    <3>2. QED
      BY <2>2, <3>1, TextFound
  <2>8. QED
    BY <1>1, <1>4, <2>3, <2>5, <2>6, <2>7
<1>5. QED
  BY <1>3, <1>4

(* Whatever the sizes: first the master's title, from the state after the
   environment was moved, then the worker's, each shown or without room.     *)
LEMMA TitlesKeepEnv == TitleKeepsEnv
<1>1. SUFFICES ASSUME NEW argv \in Arguments, NEW environ \in Environments,
                      NEW master \in Titles, NEW worker \in Titles
      PROVE  LET start == Started(argv, environ)
                 first == MasterTitle(ngx_init_setproctitle(start), master, argv)
                 end == ngx_setproctitle(first, worker)
                 size == Len(Block(argv \o environ))
                 before == TextAt(first.stack, 1)
                 title == IF Len(worker) < size THEN worker ELSE before
             IN /\ \A i \in DOMAIN environ : Getenv(end, i) = environ[i]
                /\ SubSeq(end.stack, size + 1, Len(end.stack)) = Beyond
                /\ before \in {argv[1], master \o <<" ">> \o FlattenSeq(argv)}
                /\ TextAt(end.stack, 1) = title
                /\ end.stack # start.stack =>
                     end.argc = 1 /\ \A i \in (Len(title) + 1)..size : end.stack[i] = NUL
  BY DEF TitleKeepsEnv
<1> DEFINE start == Started(argv, environ)
           moved == ngx_init_setproctitle(start)
           full == master \o <<" ">> \o FlattenSeq(argv)
           first == MasterTitle(moved, master, argv)
           end == ngx_setproctitle(first, worker)
           size == Len(Block(argv)) + Len(Block(environ))
           before == TextAt(first.stack, 1)
           title == IF Len(worker) < size THEN worker ELSE before
           set == {"stack", "argc"}
<1>2. /\ argv \in Texts /\ argv # <<>> /\ environ \in Texts
      /\ master \in Seq(Chars) /\ worker \in Seq(Chars)
  BY ProcTitleAssumption DEF Texts
<1>3. Len(Block(argv \o environ)) = size /\ size \in Nat
  <2>1. Block(argv) \in Seq(Cells) /\ Block(environ) \in Seq(Cells)
    BY <1>2, BlockGrows
  <2>2. Block(argv \o environ) = Block(argv) \o Block(environ)
    BY <1>2, Joined
  <2>3. QED
    BY <2>1, <2>2, ConcatProperties
<1>4. full \in Seq(Chars)
  <2>1. FlattenSeq(argv) \in Seq(Chars)
    BY <1>2, Flattened DEF Texts
  <2>2. PICK c \in Chars : c = " "
    BY ProcTitleAssumption
  <2>3. <<c>> \in Seq(Chars)
    OBVIOUS
  <2>4. QED
    BY <1>2, <2>1, <2>2, <2>3, ConcatProperties
<1>5. /\ Moved(moved, argv, environ) /\ moved.stack = start.stack /\ set \subseteq DOMAIN moved
      /\ TextAt(start.stack, 1) = argv[1]
  <2>1. set \subseteq DOMAIN start
    BY DEF Started
  <2>2. QED
    BY <1>2, <2>1, InitMoves, StartedTexts
<1>6. /\ Moved(first, argv, environ) /\ set \subseteq DOMAIN first
      /\ \/ first = moved
         \/ Shown(first, full, size) /\ TextAt(first.stack, 1) = full
  <2>1. first = ngx_setproctitle(moved, full) \/ first = moved
    BY DEF MasterTitle
  <2> HIDE DEF moved, full, first
  <2>2. CASE first = moved
    BY <1>5, <2>2
  <2>3. CASE first = ngx_setproctitle(moved, full)
    <3>1. Len(full) < size \/ size =< Len(full)
      BY <1>3, <1>4
    <3>2. QED
      BY <1>2, <1>4, <1>5, <2>3, <3>1, TitleSet
  <2>4. QED
    BY <2>1, <2>2, <2>3
<1>7. /\ Moved(end, argv, environ)
      /\ \/ end = first /\ ~(Len(worker) < size)
         \/ Shown(end, worker, size) /\ TextAt(end.stack, 1) = worker /\ Len(worker) < size
  <2>1. Len(worker) < size \/ size =< Len(worker)
    BY <1>2, <1>3
  <2>2. size =< Len(worker) => ~(Len(worker) < size)
    BY <1>2, <1>3
  <2> HIDE DEF first
  <2>3. /\ Moved(end, argv, environ)
        /\ size =< Len(worker) => end = first
        /\ Len(worker) < size => Shown(end, worker, size) /\ TextAt(end.stack, 1) = worker
    <3>1. PICK p : p = first
      OBVIOUS
    <3>2. Moved(p, argv, environ) /\ {"stack", "argc"} \subseteq DOMAIN p
      BY <1>6, <3>1
    <3>3. LET q == ngx_setproctitle(p, worker) IN
          /\ Moved(q, argv, environ)
          /\ size =< Len(worker) => q = p
          /\ Len(worker) < size => Shown(q, worker, size) /\ TextAt(q.stack, 1) = worker
      BY <1>2, <3>2, TitleSet
    <3>4. QED
      BY <3>1, <3>3
  <2> HIDE DEF end, size
  <2>4. QED
    BY <2>1, <2>2, <2>3
<1> HIDE DEF start, moved, full, first, end, size
<1>8. \A i \in DOMAIN environ : Getenv(end, i) = environ[i]
  BY <1>2, <1>7, EnvironmentKept
<1>9. SubSeq(end.stack, size + 1, Len(end.stack)) = Beyond
  <2>1. Len(end.stack) = size + 2 /\ Len(end.stack) - 1 = size + 1
    BY <1>3, <1>7 DEF Moved, size
  <2>2. QED
    BY <1>7, <2>1 DEF Moved
<1>10. before \in {argv[1], full}
  BY <1>5, <1>6
<1>11. TextAt(end.stack, 1) = title
  BY <1>7
<1>12. ASSUME end.stack # start.stack
       PROVE  end.argc = 1 /\ \A i \in (Len(title) + 1)..size : end.stack[i] = NUL
  <2>1. CASE Len(worker) < size
    BY <1>7, <2>1 DEF Shown
  <2>2. CASE ~(Len(worker) < size)
    <3>1. end = first /\ first # moved
      BY <1>5, <1>7, <1>12, <2>2
    <3>2. Shown(first, full, size) /\ title = full
      BY <1>6, <2>2, <3>1
    <3> HIDE DEF title
    <3>3. QED
      BY <3>1, <3>2 DEF Shown
  <2>3. QED
    BY <2>1, <2>2
<1>13. QED
  BY <1>3, <1>8, <1>9, <1>10, <1>11, <1>12 DEF start, moved, full, first, end, size

(* See TitleKeepsEnv of ProcTitle: for any arguments, environment and titles. *)
THEOREM TitlesKeepEnvironment == Spec => []TitleKeepsEnvAtStart
<1>1. TitleKeepsEnvAtStart
  BY TitlesKeepEnv DEF TitleKeepsEnvAtStart
<1>2. QED
  BY <1>1, PTL

-----------------------------------------------------------------------------
(* Checksums.  What is in a word, bit by bit.                              *)

LEMMA XorAt ==
  ASSUME NEW a, NEW b, NEW k
  PROVE  k \in Xor(a, b) <=> (k \in a /\ k \notin b) \/ (k \notin a /\ k \in b)
BY DEF Xor, SymDiff

LEMMA ShiftAt ==
  ASSUME NEW a \in SUBSET Int, NEW n \in Nat, NEW k \in Int
  PROVE  /\ k \in ShiftLeft(a, n) <=> k \in Word /\ k - n \in a
         /\ k \in ShiftRight(a, n) <=> k \in Word /\ k + n \in a
<1>1. k - n \in a => k \in {b + n : b \in a}
  <2>1. (k - n) + n = k
    OBVIOUS
  <2>2. QED
    BY <2>1
<1>2. k + n \in a => k \in {b - n : b \in a}
  <2>1. (k + n) - n = k
    OBVIOUS
  <2>2. QED
    BY <2>1
<1>3. \A b \in a : (b + n = k => b = k - n) /\ (b - n = k => b = k + n)
  OBVIOUS
<1>4. QED
  BY <1>1, <1>2, <1>3 DEF ShiftLeft, ShiftRight

LEMMA ReflectAt ==
  ASSUME NEW a \in SUBSET Int, NEW n \in Nat, NEW k \in Int
  PROVE  k \in Reflect(a, n) <=> k \in 0..(n - 1) /\ n - 1 - k \in a
<1>1. ASSUME k \in Reflect(a, n) PROVE k \in 0..(n - 1) /\ n - 1 - k \in a
  <2>1. PICK b \in a \cap 0..(n - 1) : k = n - 1 - b
    BY <1>1 DEF Reflect
  <2>2. b \in Int /\ n - 1 - k = b
    BY <2>1
  <2>3. QED
    BY <2>1, <2>2
<1>2. ASSUME k \in 0..(n - 1), n - 1 - k \in a PROVE k \in Reflect(a, n)
  <2>1. PICK b \in a \cap 0..(n - 1) : b = n - 1 - k
    BY <1>2
  <2>2. k = n - 1 - b
    BY <2>1
  <2>3. QED
    BY <2>1, <2>2 DEF Reflect
<1>3. QED
  BY <1>1, <1>2

LEMMA Typed ==
  ASSUME NEW a, NEW n
  PROVE  ShiftLeft(a, n) \in SUBSET Word /\ ShiftRight(a, n) \in SUBSET Word
BY DEF ShiftLeft, ShiftRight

LEMMA TurnAt ==
  ASSUME NEW w \in SUBSET Word
  PROVE  /\ Turn(w) \in SUBSET Word
         /\ \A k \in Word :
              k \in Turn(w) <=> \/ k - 1 \in w /\ ~(31 \in w /\ k \in ulPolynomial)
                                \/ k - 1 \notin w /\ 31 \in w /\ k \in ulPolynomial
<1>1. w \in SUBSET Int /\ ulPolynomial \in SUBSET Word
  BY DEF Word, ulPolynomial
<1> DEFINE carry == IF 31 \in w THEN ulPolynomial ELSE {}
<1>2. \A k \in Word : k \in ShiftLeft(w, 1) <=> k - 1 \in w
  BY <1>1, ShiftAt DEF Word
<1>3. \A k : k \in carry <=> 31 \in w /\ k \in ulPolynomial
  OBVIOUS
<1>4. Turn(w) = Xor(ShiftLeft(w, 1), carry)
  BY DEF Turn
<1> HIDE DEF carry
<1>5. \A k : k \in Turn(w) <=> \/ k \in ShiftLeft(w, 1) /\ k \notin carry
                               \/ k \notin ShiftLeft(w, 1) /\ k \in carry
  BY <1>4, XorAt
<1>6. ShiftLeft(w, 1) \in SUBSET Word
  BY Typed
<1>7. QED
  BY <1>1, <1>2, <1>3, <1>5, <1>6

\* A turn is linear, and so are eight.
LEMMA TurnXor ==
  ASSUME NEW a \in SUBSET Word, NEW b \in SUBSET Word
  PROVE  Turn(Xor(a, b)) = Xor(Turn(a), Turn(b))
<1>1. Xor(a, b) \in SUBSET Word
  BY XorAt
<1>2. /\ Turn(a) \in SUBSET Word /\ Turn(b) \in SUBSET Word
      /\ Turn(Xor(a, b)) \in SUBSET Word
  BY <1>1, TurnAt
<1>3. Xor(Turn(a), Turn(b)) \in SUBSET Word
  BY <1>2, XorAt
<1>4. ASSUME NEW k \in Word PROVE k \in Turn(Xor(a, b)) <=> k \in Xor(Turn(a), Turn(b))
  <2>1. k \in Turn(Xor(a, b)) <=>
          \/ k - 1 \in Xor(a, b) /\ ~(31 \in Xor(a, b) /\ k \in ulPolynomial)
          \/ k - 1 \notin Xor(a, b) /\ 31 \in Xor(a, b) /\ k \in ulPolynomial
    BY <1>1, TurnAt
  <2>2. /\ k - 1 \in Xor(a, b) <=> (k - 1 \in a /\ k - 1 \notin b) \/ (k - 1 \notin a /\ k - 1 \in b)
        /\ 31 \in Xor(a, b) <=> (31 \in a /\ 31 \notin b) \/ (31 \notin a /\ 31 \in b)
    BY XorAt
  <2>3. /\ k \in Turn(a) <=> \/ k - 1 \in a /\ ~(31 \in a /\ k \in ulPolynomial)
                             \/ k - 1 \notin a /\ 31 \in a /\ k \in ulPolynomial
        /\ k \in Turn(b) <=> \/ k - 1 \in b /\ ~(31 \in b /\ k \in ulPolynomial)
                             \/ k - 1 \notin b /\ 31 \in b /\ k \in ulPolynomial
    BY TurnAt
  <2>4. k \in Xor(Turn(a), Turn(b)) <=>
          (k \in Turn(a) /\ k \notin Turn(b)) \/ (k \notin Turn(a) /\ k \in Turn(b))
    BY XorAt
  <2>5. QED
    BY <2>1, <2>2, <2>3, <2>4
<1>5. QED
  BY <1>2, <1>3, <1>4

\* The eight turns one by one.
LEMMA TurnedBy ==
  ASSUME NEW w \in SUBSET Word
  PROVE  \E f \in [0..8 -> SUBSET Word] :
           f[0] = w /\ Turned(w) = f[8] /\ \A k \in 1..8 : f[k] = Turn(f[k - 1])
<1> DEFINE S == SUBSET Word
           Body(f, k) == IF k = 0 THEN w ELSE Turn(f[k - 1])
           g == [p \in (1..8) \X S |-> Turn(p[2])]
<1>1. \A v \in S : Turn(v) \in S
  BY TurnAt
<1>2. g \in [(1..8) \X S -> S]
  BY <1>1
<1>3. PICK f \in [0..8 -> S] : f[0] = w /\ \A k \in 1..8 : f[k] = g[<<k, f[k - 1]>>]
  <2> HIDE DEF g, S
  <2>1. w \in S
    BY DEF S
  <2>2. PICK n \in Nat : n = 8
    OBVIOUS
  <2>3. g \in [(1..n) \X S -> S]
    BY <1>2, <2>2
  <2>4. \E f \in [0..n -> S] : Repeats(f, g, w, n)
    BY <2>1, <2>3, Repeated
  <2>5. QED
    BY <2>2, <2>4 DEF Repeats
<1>4. ASSUME NEW k \in 1..8 PROVE f[k] = Turn(f[k - 1])
  <2>1. k - 1 \in 0..8
    OBVIOUS
  <2>2. <<k, f[k - 1]>> \in (1..8) \X S
    BY <2>1
  <2>3. QED
    BY <1>3, <2>2
<1> DEFINE h == CHOOSE e : e = [k \in 0..8 |-> Body(e, k)]
<1>5. Turned(w) = h[8]
  BY DEF Turned
<1>6. h = [k \in 0..8 |-> Body(h, k)]
  <2>1. \A k \in 0..8 : f[k] = Body(f, k)
    BY <1>3, <1>4
  <2>2. f = [k \in 0..8 |-> Body(f, k)]
    BY <2>1
  <2>3. QED
    BY <2>2
<1> HIDE DEF h
<1>7. h[0] = w /\ \A k \in 1..8 : h[k] = Turn(h[k - 1])
  BY <1>6
<1>8. /\ h[1] = f[1] /\ h[2] = f[2] /\ h[3] = f[3] /\ h[4] = f[4]
      /\ h[5] = f[5] /\ h[6] = f[6] /\ h[7] = f[7] /\ h[8] = f[8]
  BY <1>3, <1>4, <1>7
<1>9. QED
  BY <1>3, <1>4, <1>5, <1>8

LEMMA TurnedXor ==
  ASSUME NEW a \in SUBSET Word, NEW b \in SUBSET Word
  PROVE  Turned(a) \in SUBSET Word /\ Turned(Xor(a, b)) = Xor(Turned(a), Turned(b))
<1>1. Xor(a, b) \in SUBSET Word
  BY XorAt
<1>2. PICK f \in [0..8 -> SUBSET Word] :
        f[0] = a /\ Turned(a) = f[8] /\ \A k \in 1..8 : f[k] = Turn(f[k - 1])
  BY TurnedBy
<1>3. PICK g \in [0..8 -> SUBSET Word] :
        g[0] = b /\ Turned(b) = g[8] /\ \A k \in 1..8 : g[k] = Turn(g[k - 1])
  BY TurnedBy
<1>4. PICK h \in [0..8 -> SUBSET Word] :
        h[0] = Xor(a, b) /\ Turned(Xor(a, b)) = h[8] /\ \A k \in 1..8 : h[k] = Turn(h[k - 1])
  BY <1>1, TurnedBy
<1> DEFINE good == {k \in Nat : k =< 8 => h[k] = Xor(f[k], g[k])}
<1>5. 0 \in good
  BY <1>2, <1>3, <1>4
<1>6. ASSUME NEW k \in Nat, k \in good PROVE k + 1 \in good
  <2>1. SUFFICES ASSUME k + 1 =< 8 PROVE h[k + 1] = Xor(f[k + 1], g[k + 1])
    OBVIOUS
  <2>2. k \in 0..8 /\ k + 1 \in 1..8 /\ (k + 1) - 1 = k
    BY <2>1
  <2>3. /\ h[k + 1] = Turn(h[k]) /\ f[k + 1] = Turn(f[k]) /\ g[k + 1] = Turn(g[k])
    BY <1>2, <1>3, <1>4, <2>2
  <2>4. h[k] = Xor(f[k], g[k])
    BY <1>6, <2>2
  <2>5. f[k] \in SUBSET Word /\ g[k] \in SUBSET Word
    BY <2>2
  <2>6. QED
    BY <2>3, <2>4, <2>5, TurnXor
<1>7. 8 \in good
  <2> HIDE DEF good
  <2>1. Nat \subseteq good
    BY <1>5, <1>6, Induction
  <2>2. QED
    BY <2>1
<1>8. QED
  BY <1>2, <1>3, <1>4, <1>7

\* Nothing is carried while the upper byte is empty.
LEMMA TurnedLow ==
  ASSUME NEW a \in SUBSET (0..23)
  PROVE  Turned(a) = ShiftLeft(a, 8)
<1>1. a \in SUBSET Word /\ a \in SUBSET Int
  BY DEF Word
<1>2. PICK f \in [0..8 -> SUBSET Word] :
        f[0] = a /\ Turned(a) = f[8] /\ \A k \in 1..8 : f[k] = Turn(f[k - 1])
  BY <1>1, TurnedBy
<1> DEFINE good == {k \in Nat : k =< 8 => \A i \in Word : i \in f[k] <=> i - k \in a}
<1>3. 0 \in good
  BY <1>2 DEF Word
<1>4. ASSUME NEW k \in Nat, k \in good PROVE k + 1 \in good
  <2>1. SUFFICES ASSUME k + 1 =< 8, NEW i \in Word PROVE i \in f[k + 1] <=> i - (k + 1) \in a
    OBVIOUS
  <2>2. k \in 0..8 /\ k + 1 \in 1..8 /\ (k + 1) - 1 = k /\ 31 \in Word
    BY <2>1 DEF Word
  <2>3. f[k + 1] = Turn(f[k]) /\ f[k] \in SUBSET Word
    BY <1>2, <2>2
  <2>4. \A j \in Word : j \in f[k] <=> j - k \in a
    BY <1>4, <2>2
  <2>5. 31 \notin f[k]
    <3>1. 31 - k \notin a
      BY <2>2
    <3>2. QED
      BY <2>2, <2>4, <3>1
  <2>6. i \in f[k + 1] <=> i - 1 \in f[k]
    BY <2>3, <2>5, TurnAt
  <2>7. i - 1 \in f[k] <=> i - (k + 1) \in a
    <3>1. CASE i - 1 \in Word
      <4>1. (i - 1) - k = i - (k + 1)
        BY DEF Word
      <4>2. QED
        BY <2>4, <3>1, <4>1
    <3>2. CASE i - 1 \notin Word
      <4>1. i = 0
        BY <3>2 DEF Word
      <4>2. i - (k + 1) \notin a
        BY <4>1
      <4>3. QED
        BY <2>3, <3>2, <4>2
    <3>3. QED
      BY <3>1, <3>2
  <2>8. QED
    BY <2>6, <2>7
<1>5. 8 \in good
  <2> HIDE DEF good
  <2>1. Nat \subseteq good
    BY <1>3, <1>4, Induction
  <2>2. QED
    BY <2>1
<1>6. \A i \in Word : i \in Turned(a) <=> i - 8 \in a
  BY <1>2, <1>5
<1>7. \A i \in Word : i \in ShiftLeft(a, 8) <=> i - 8 \in a
  BY <1>1, ShiftAt DEF Word
<1>8. Turned(a) \in SUBSET Word /\ ShiftLeft(a, 8) \in SUBSET Word
  BY <1>2, Typed
<1>9. QED
  BY <1>6, <1>7, <1>8

\* The upper byte of a remainder with the coefficients of a byte added.
High(c) == {31 - b : b \in c}

LEMMA HighAt ==
  ASSUME NEW c \in Byte
  PROVE  /\ High(c) \in SUBSET (24..31)
         /\ \A k \in Int : k \in High(c) <=> 31 - k \in c
<1>1. \A b \in c : b \in 0..7
  BY DEF Byte
<1>2. ASSUME NEW k \in Int, 31 - k \in c PROVE k \in High(c)
  <2>1. PICK b \in c : b = 31 - k
    BY <1>2
  <2>2. k = 31 - b
    BY <2>1
  <2>3. QED
    BY <2>2 DEF High
<1>3. ASSUME NEW k \in Int, k \in High(c) PROVE 31 - k \in c
  <2>1. PICK b \in c : k = 31 - b
    BY <1>3 DEF High
  <2>2. 31 - k = b
    BY <1>1, <2>1
  <2>3. QED
    BY <2>2
<1>4. High(c) \in SUBSET (24..31)
  BY <1>1 DEF High
<1>5. QED
  BY <1>2, <1>3, <1>4

\* A byte changes the register as eight turns change the remainder.
LEMMA CrcByte ==
  ASSUME NEW r \in SUBSET Word, NEW c \in Byte
  PROVE  LET crc == Reflect(r, 32)
         IN Xor(ShiftRight(crc, 8), crc32_table[Xor(crc \cap 0..7, c)])
              = Reflect(Turned(Xor(r, High(c))), 32)
<1> DEFINE crc == Reflect(r, 32)
           low == {k \in r : k =< 23}
           high == {k \in r : k >= 24}
           i == Xor(crc \cap 0..7, c)
           entry == Xor(high, High(c))
<1>1. r \in SUBSET Int /\ c \in SUBSET Int
  BY DEF Word, Byte
<1>2. \A k \in Int : k \in crc <=> k \in Word /\ 31 - k \in r
  BY <1>1, ReflectAt DEF Word
<1>3. crc \in SUBSET Word
  BY DEF Reflect, Word
<1>4. i \in Byte
  <2>1. c \in SUBSET (0..7) /\ \A k : k \in i => k \in crc \cap 0..7 \/ k \in c
    BY XorAt DEF Byte
  <2> HIDE DEF i, crc
  <2>2. QED
    BY <2>1 DEF Byte
<1>5. low \in SUBSET (0..23) /\ low \in SUBSET Word /\ high \in SUBSET (24..31) /\ high \in SUBSET Word
  <2>1. \A k \in r : k \in 0..31 /\ k \in Word
    BY DEF Word
  <2>2. \A k \in low : k \in r /\ k =< 23
    OBVIOUS
  <2>3. \A k \in high : k \in r /\ k >= 24
    OBVIOUS
  <2> HIDE DEF low, high
  <2>4. QED
    BY <2>1, <2>2, <2>3
<1>6. entry \in SUBSET (24..31) /\ entry \in SUBSET Word
  <2>1. entry \in SUBSET (24..31)
    BY <1>5, HighAt, XorAt
  <2>2. QED
    BY <2>1 DEF Word
<1>7. ShiftLeft(Reflect(i, 8), 24) = entry
  <2>1. i \in SUBSET Int /\ Reflect(i, 8) \in SUBSET Int
    <3> HIDE DEF i
    <3>1. i \in SUBSET Int
      BY <1>4 DEF Byte
    <3>2. QED
      BY <3>1 DEF Reflect
  <2>2. ASSUME NEW k \in Word PROVE k \in ShiftLeft(Reflect(i, 8), 24) <=> k \in entry
    <3>1. k \in ShiftLeft(Reflect(i, 8), 24) <=> k - 24 \in Reflect(i, 8)
      BY <2>1, ShiftAt DEF Word
    <3>2. k - 24 \in Reflect(i, 8) <=> k - 24 \in 0..7 /\ 31 - k \in i
      <4>1. PICK j \in Int, n \in Nat : j = k - 24 /\ n = 8 /\ n - 1 - j = 31 - k /\ n - 1 = 7
        BY DEF Word
      <4> HIDE DEF i
      <4>2. j \in Reflect(i, n) <=> j \in 0..(n - 1) /\ n - 1 - j \in i
        BY <2>1, ReflectAt
      <4>3. QED
        BY <4>1, <4>2
    <3>3. 31 - k \in i <=> \/ 31 - k \in crc \cap 0..7 /\ 31 - k \notin c
                           \/ 31 - k \notin crc \cap 0..7 /\ 31 - k \in c
      BY XorAt
    <3>4. 31 - k \in crc \cap 0..7 <=> k \in high
      <4>1. 31 - k \in Word /\ 31 - (31 - k) = k /\ (31 - k \in 0..7 <=> k >= 24)
        BY DEF Word
      <4>2. 31 - k \in crc <=> k \in r
        BY <1>2, <4>1 DEF Word
      <4>3. QED
        BY <4>1, <4>2
    <3>5. 31 - k \in c <=> k \in High(c)
      BY HighAt DEF Word
    <3>6. k \in entry <=> (k \in high /\ k \notin High(c)) \/ (k \notin high /\ k \in High(c))
      BY XorAt
    <3>7. k \in entry => k - 24 \in 0..7
      BY <1>6
    <3>8. QED
      BY <3>1, <3>2, <3>3, <3>4, <3>5, <3>6, <3>7
  <2>3. ShiftLeft(Reflect(i, 8), 24) \in SUBSET Word
    BY Typed
  <2>4. QED
    BY <1>6, <2>2, <2>3
<1>8. crc32_table[i] = Reflect(Turned(entry), 32)
  BY <1>4, <1>7 DEF crc32_table
<1>9. Turned(Xor(r, High(c))) = Xor(ShiftLeft(low, 8), Turned(entry))
  <2>1. Xor(r, High(c)) = Xor(low, entry)
    <3>1. ASSUME NEW k PROVE k \in Xor(r, High(c)) <=> k \in Xor(low, entry)
      <4>1. k \in r <=> k \in low \/ k \in high
        <5>1. k \in r => k =< 23 \/ k >= 24
          BY <1>1
        <5>2. QED
          BY <5>1
      <4>2. k \in low => k \notin high /\ k \notin High(c)
        BY <1>5, HighAt
      <4>3. k \in entry <=> (k \in high /\ k \notin High(c)) \/ (k \notin high /\ k \in High(c))
        BY XorAt
      <4>4. /\ k \in Xor(r, High(c)) <=> (k \in r /\ k \notin High(c)) \/ (k \notin r /\ k \in High(c))
            /\ k \in Xor(low, entry) <=> (k \in low /\ k \notin entry) \/ (k \notin low /\ k \in entry)
        BY XorAt
      <4> HIDE DEF low, high, entry
      <4>5. QED
        BY <4>1, <4>2, <4>3, <4>4
    <3> HIDE DEF low, entry
    <3>2. QED
      BY <3>1 DEF Xor, SymDiff
  <2>2. QED
    BY <1>5, <1>6, <2>1, TurnedXor, TurnedLow
<1>10. ASSUME NEW k \in Word
       PROVE  k \in Xor(ShiftRight(crc, 8), crc32_table[i]) <=> k \in Reflect(Turned(Xor(r, High(c))), 32)
  <2> DEFINE t == Turned(entry)
  <2>1. t \in SUBSET Word /\ t \in SUBSET Int /\ Turned(Xor(r, High(c))) \in SUBSET Int
    <3>1. ShiftLeft(low, 8) \in SUBSET Word /\ t \in SUBSET Word
      BY <1>6, Typed, TurnedXor
    <3>2. QED
      BY <1>9, <3>1, XorAt DEF Word
  <2> HIDE DEF t
  <2>2. 31 - k \in Word /\ k \in Int /\ 31 - k \in Int /\ 32 - 1 = 31
    BY DEF Word
  <2>3. k \in ShiftRight(crc, 8) <=> k + 8 \in crc
    BY <1>3, ShiftAt DEF Word
  <2>4. k + 8 \in crc <=> k + 8 \in Word /\ 23 - k \in r
    <3>1. 31 - (k + 8) = 23 - k /\ k + 8 \in Int
      BY DEF Word
    <3>2. QED
      BY <1>2, <3>1
  <2>5. k \in crc32_table[i] <=> 31 - k \in t
    <3>1. k \in Reflect(t, 32) <=> 31 - k \in t
      BY <2>1, <2>2, ReflectAt DEF Word
    <3>2. QED
      BY <1>8, <3>1 DEF t
  <2>6. k \in Reflect(Turned(Xor(r, High(c))), 32) <=> 31 - k \in Turned(Xor(r, High(c)))
    BY <2>1, <2>2, ReflectAt DEF Word
  <2>7. 31 - k \in ShiftLeft(low, 8) <=> 23 - k \in low
    <3>1. low \in SUBSET Int /\ (31 - k) - 8 = 23 - k
      BY <1>5, <2>2
    <3> HIDE DEF low
    <3>2. QED
      BY <2>2, <3>1, ShiftAt
  <2>8. 23 - k \in low <=> k + 8 \in Word /\ 23 - k \in r
    BY <1>1 DEF Word
  <2>9. 31 - k \in Turned(Xor(r, High(c))) <=>
          \/ 31 - k \in ShiftLeft(low, 8) /\ 31 - k \notin t
          \/ 31 - k \notin ShiftLeft(low, 8) /\ 31 - k \in t
    BY <1>9, XorAt DEF t
  <2>10. k \in Xor(ShiftRight(crc, 8), crc32_table[i]) <=>
           \/ k \in ShiftRight(crc, 8) /\ k \notin crc32_table[i]
           \/ k \notin ShiftRight(crc, 8) /\ k \in crc32_table[i]
    BY XorAt
  <2> HIDE DEF crc, low, i
  <2>11. QED
    BY <2>3, <2>4, <2>5, <2>6, <2>7, <2>8, <2>9, <2>10
<1>11. /\ Xor(ShiftRight(crc, 8), crc32_table[i]) \in SUBSET Word
       /\ Reflect(Turned(Xor(r, High(c))), 32) \in SUBSET Word
  <2>1. \A a : Reflect(a, 32) \in SUBSET Word
    BY DEF Reflect, Word
  <2>2. QED
    BY <1>8, <2>1, Typed, XorAt
<1>12. QED
  BY <1>10, <1>11

-----------------------------------------------------------------------------
(* Long division.                                                          *)

LEMMA LessAt ==
  ASSUME NEW p \in SUBSET Int, NEW x \in Nat
  PROVE  /\ Less(p, x) \in SUBSET Int
         /\ x + 32 \notin p => Less(p, x) = p
         /\ x + 32 \in p => \A e \in Int :
              e \in Less(p, x) <=> \/ e \in p /\ ~(e = x + 32 \/ e - x \in ulPolynomial)
                                   \/ e \notin p /\ (e = x + 32 \/ e - x \in ulPolynomial)
<1> DEFINE d == {x + 32} \cup {x + b : b \in ulPolynomial}
<1>1. ulPolynomial \in SUBSET Int
  BY DEF ulPolynomial
<1>2. d \in SUBSET Int
  BY <1>1
<1>3. ASSUME NEW e \in Int PROVE e \in d <=> e = x + 32 \/ e - x \in ulPolynomial
  <2>1. ASSUME e - x \in ulPolynomial PROVE e \in d
    <3>1. e = x + (e - x)
      OBVIOUS
    <3>2. QED
      BY <2>1, <3>1
  <2>2. \A b \in ulPolynomial : e = x + b => e - x = b
    BY <1>1
  <2>3. QED
    BY <2>1, <2>2
<1> HIDE DEF d
<1>4. CASE x + 32 \notin p
  BY <1>4 DEF Less
<1>5. CASE x + 32 \in p
  <2>1. Less(p, x) = Xor(p, d)
    BY <1>5 DEF Less, d
  <2>2. \A e : e \in Less(p, x) <=> (e \in p /\ e \notin d) \/ (e \notin p /\ e \in d)
    BY <2>1, XorAt
  <2>3. QED
    BY <1>2, <1>3, <1>5, <2>2
<1>6. QED
  BY <1>4, <1>5

\* The steps of the division one by one.
LEMMA DividedBy ==
  ASSUME NEW p \in SUBSET Int, NEW n \in Nat
  PROVE  \E f \in [0..n -> SUBSET Int] :
           f[0] = p /\ Remainder(p, n) = f[n] /\ \A k \in 1..n : f[k] = Less(f[k - 1], n - k)
<1> DEFINE S == SUBSET Int
           Body(f, k) == IF k = 0 THEN p ELSE Less(f[k - 1], n - k)
           g == [q \in (1..n) \X S |-> Less(q[2], n - q[1])]
<1>1. \A k \in 1..n, v \in S : Less(v, n - k) \in S
  <2>1. \A k \in 1..n : n - k \in Nat
    OBVIOUS
  <2>2. QED
    BY <2>1, LessAt
<1>2. g \in [(1..n) \X S -> S]
  BY <1>1
<1>3. PICK f \in [0..n -> S] : f[0] = p /\ \A k \in 1..n : f[k] = g[<<k, f[k - 1]>>]
  <2> HIDE DEF g, S
  <2>1. p \in S
    BY DEF S
  <2>2. \E f \in [0..n -> S] : Repeats(f, g, p, n)
    BY <1>2, <2>1, Repeated
  <2>3. QED
    BY <2>2 DEF Repeats
<1>4. ASSUME NEW k \in 1..n PROVE f[k] = Less(f[k - 1], n - k)
  <2>1. k - 1 \in 0..n
    OBVIOUS
  <2>2. <<k, f[k - 1]>> \in (1..n) \X S
    BY <2>1
  <2>3. QED
    BY <1>3, <2>2
<1> DEFINE h == CHOOSE e : e = [k \in 0..n |-> Body(e, k)]
<1>5. Remainder(p, n) = h[n]
  BY DEF Remainder
<1>6. h = [k \in 0..n |-> Body(h, k)]
  <2>1. \A k \in 0..n : f[k] = Body(f, k)
    BY <1>3, <1>4
  <2>2. f = [k \in 0..n |-> Body(f, k)]
    BY <2>1
  <2>3. QED
    BY <2>2
<1> HIDE DEF h
<1>7. h[0] = p
  BY <1>6
<1>8. ASSUME NEW k \in 1..n PROVE h[k] = Less(h[k - 1], n - k)
  <2>1. k \in 0..n /\ k # 0
    OBVIOUS
  <2>2. h[k] = Body(h, k)
    BY <1>6, <2>1
  <2>3. QED
    BY <2>1, <2>2
<1> DEFINE good == {k \in Nat : k =< n => h[k] = f[k]}
<1>9. 0 \in good
  BY <1>3, <1>7
<1>10. ASSUME NEW k \in Nat, k \in good PROVE k + 1 \in good
  <2>1. SUFFICES ASSUME k + 1 =< n PROVE h[k + 1] = f[k + 1]
    OBVIOUS
  <2>2. PICK j \in 1..n : j = k + 1 /\ j - 1 = k
    BY <2>1
  <2>3. h[k] = f[k]
    BY <1>10, <2>1
  <2>4. h[j] = Less(h[j - 1], n - j) /\ f[j] = Less(f[j - 1], n - j)
    BY <1>4, <1>8
  <2>5. QED
    BY <2>2, <2>3, <2>4
<1>11. n \in good
  <2> HIDE DEF good
  <2>1. Nat \subseteq good
    BY <1>9, <1>10, Induction
  <2>2. QED
    BY <2>1
<1>12. QED
  BY <1>3, <1>4, <1>5, <1>11

LEMMA RemainderWord ==
  ASSUME NEW n \in Nat, NEW p \in SUBSET (0..(n + 31))
  PROVE  Remainder(p, n) \in SUBSET Word
<1>1. p \in SUBSET Int
  OBVIOUS
<1>2. PICK f \in [0..n -> SUBSET Int] :
        f[0] = p /\ Remainder(p, n) = f[n] /\ \A k \in 1..n : f[k] = Less(f[k - 1], n - k)
  BY <1>1, DividedBy
<1> DEFINE good == {k \in Nat : k =< n => \A e \in f[k] : 0 =< e /\ e =< n - k + 31}
<1>3. 0 \in good
  BY <1>2
<1>4. ASSUME NEW k \in Nat, k \in good PROVE k + 1 \in good
  <2>1. SUFFICES ASSUME k + 1 =< n, NEW e \in f[k + 1] PROVE 0 =< e /\ e =< n - (k + 1) + 31
    OBVIOUS
  <2>2. PICK j \in 1..n, x \in Nat : j = k + 1 /\ j - 1 = k /\ x = n - j
    BY <2>1
  <2>3. PICK q \in SUBSET Int : q = f[k] /\ f[j] = Less(q, x)
    <3>1. k \in 0..n
      BY <2>1
    <3>2. f[j] = Less(f[j - 1], n - j)
      BY <1>2
    <3>3. QED
      BY <2>2, <3>1, <3>2
  <2>4. \A i \in q : 0 =< i /\ i =< x + 32
    BY <1>4, <2>1, <2>2, <2>3
  <2>5. ulPolynomial \in SUBSET (0..31)
    BY DEF ulPolynomial
  <2>6. e \in Less(q, x) /\ e \in Int
    BY <2>1, <2>2, <2>3, LessAt
  <2>7. 0 =< e /\ e =< x + 31
    <3>1. CASE x + 32 \in q
      BY <2>4, <2>5, <2>6, <3>1, LessAt
    <3>2. CASE x + 32 \notin q
      <4>1. e \in q /\ e # x + 32
        BY <2>6, <3>2, LessAt
      <4>2. QED
        BY <2>4, <2>6, <4>1
    <3>3. QED
      BY <3>1, <3>2
  <2>8. QED
    BY <2>2, <2>6, <2>7
<1>5. n \in good
  <2> HIDE DEF good
  <2>1. Nat \subseteq good
    BY <1>3, <1>4, Induction
  <2>2. QED
    BY <2>1
<1>6. \A e \in f[n] : e \in Int /\ 0 =< e /\ e =< 31
  BY <1>5
<1>7. \A e \in f[n] : e \in Word
  BY <1>6 DEF Word
<1>8. QED
  BY <1>2, <1>7

\* Eight more coefficients of the message are eight turns of the remainder.
LEMMA RemainderByte ==
  ASSUME NEW n \in Nat, NEW p \in SUBSET (0..(n + 31)), NEW c \in Byte, NEW q \in SUBSET Int,
         \A e \in Int : e \in q <=> \/ e - 8 \in p /\ 39 - e \notin c
                                    \/ e - 8 \notin p /\ 39 - e \in c
  PROVE  Remainder(q, n + 8) = Turned(Xor(Remainder(p, n), High(c)))
<1>1. p \in SUBSET Int /\ c \in SUBSET (0..7)
  BY DEF Byte
<1>2. PICK f \in [0..n -> SUBSET Int] :
        f[0] = p /\ Remainder(p, n) = f[n] /\ \A k \in 1..n : f[k] = Less(f[k - 1], n - k)
  BY <1>1, DividedBy
<1>3. PICK m \in Nat : m = n + 8
  OBVIOUS
<1>4. PICK g \in [0..m -> SUBSET Int] :
        g[0] = q /\ Remainder(q, m) = g[m] /\ \A k \in 1..m : g[k] = Less(g[k - 1], m - k)
  BY DividedBy
<1> DEFINE first == {k \in Nat : k =< n =>
                       \A e \in Int : e \in g[k] <=> \/ e - 8 \in f[k] /\ 39 - e \notin c
                                                     \/ e - 8 \notin f[k] /\ 39 - e \in c}
<1>5. 0 \in first
  BY <1>2, <1>4
<1>6. ASSUME NEW k \in Nat, k \in first PROVE k + 1 \in first
  <2>1. SUFFICES ASSUME k + 1 =< n, NEW e \in Int
                 PROVE  e \in g[k + 1] <=> \/ e - 8 \in f[k + 1] /\ 39 - e \notin c
                                           \/ e - 8 \notin f[k + 1] /\ 39 - e \in c
    OBVIOUS
  <2>2. PICK j \in 1..n, x \in Nat, y \in Nat :
          j = k + 1 /\ j - 1 = k /\ x = n - j /\ y = m - j /\ y = x + 8 /\ j \in 1..m
    BY <1>3, <2>1
  <2>3. PICK a \in SUBSET Int, b \in SUBSET Int :
          a = f[k] /\ b = g[k] /\ f[j] = Less(a, x) /\ g[j] = Less(b, y)
    <3>1. k \in 0..n /\ k \in 0..m
      BY <1>3, <2>1
    <3>2. f[j] = Less(f[j - 1], n - j) /\ g[j] = Less(g[j - 1], m - j)
      BY <1>2, <1>4, <2>2
    <3>3. QED
      BY <2>2, <3>1, <3>2
  <2>4. \A i \in Int : i \in b <=> \/ i - 8 \in a /\ 39 - i \notin c
                                   \/ i - 8 \notin a /\ 39 - i \in c
    BY <1>6, <2>1, <2>3
  <2>5. y + 32 \in b <=> x + 32 \in a
    <3>1. 39 - (y + 32) \notin c /\ (y + 32) - 8 = x + 32 /\ y + 32 \in Int
      BY <1>1, <2>2
    <3>2. QED
      BY <2>4, <3>1
  <2>6. /\ e \in b <=> \/ e - 8 \in a /\ 39 - e \notin c
                       \/ e - 8 \notin a /\ 39 - e \in c
        /\ e - 8 = x + 32 <=> e = y + 32
        /\ (e - 8) - x = e - y
        /\ e - 8 \in Int
    BY <2>2, <2>4
  <2>7. e \in Less(b, y) <=> \/ e - 8 \in Less(a, x) /\ 39 - e \notin c
                             \/ e - 8 \notin Less(a, x) /\ 39 - e \in c
    <3>1. CASE x + 32 \notin a
      <4>1. Less(a, x) = a /\ Less(b, y) = b
        BY <2>5, <3>1, LessAt
      <4>2. QED
        BY <2>6, <4>1
    <3>2. CASE x + 32 \in a
      <4>1. e \in Less(b, y) <=> \/ e \in b /\ ~(e = y + 32 \/ e - y \in ulPolynomial)
                                 \/ e \notin b /\ (e = y + 32 \/ e - y \in ulPolynomial)
        BY <2>5, <3>2, LessAt
      <4>2. PICK i \in Int : i = e - 8
        BY <2>6
      <4>3. i \in Less(a, x) <=> \/ i \in a /\ ~(i = x + 32 \/ i - x \in ulPolynomial)
                                 \/ i \notin a /\ (i = x + 32 \/ i - x \in ulPolynomial)
        BY <3>2, LessAt
      <4>4. QED
        BY <2>6, <4>1, <4>2, <4>3, Zenon
    <3>3. QED
      BY <3>1, <3>2
  <2>8. QED
    BY <2>2, <2>3, <2>7
<1>7. \A e \in Int : e \in g[n] <=> \/ e - 8 \in f[n] /\ 39 - e \notin c
                                    \/ e - 8 \notin f[n] /\ 39 - e \in c
  <2>1. n \in first
    <3> HIDE DEF first
    <3>1. Nat \subseteq first
      BY <1>5, <1>6, Induction
    <3>2. QED
      BY <3>1
  <2>2. QED
    BY <2>1
<1>8. PICK r \in SUBSET Word : r = Remainder(p, n) /\ r = f[n]
  BY <1>2, RemainderWord
<1>9. PICK w \in SUBSET Word : w = Xor(r, High(c))
  <2>1. Xor(r, High(c)) \in SUBSET Word
    <3>1. High(c) \in SUBSET (24..31)
      BY HighAt
    <3>2. \A e \in High(c) : e \in Word
      BY <3>1 DEF Word
    <3>3. QED
      BY <3>2, XorAt
  <2>2. QED
    BY <2>1
<1>10. PICK h \in [0..8 -> SUBSET Word] :
         h[0] = w /\ Turned(w) = h[8] /\ \A k \in 1..8 : h[k] = Turn(h[k - 1])
  BY TurnedBy
<1> DEFINE second == {k \in Nat : k =< 8 =>
                        \A e \in Int : e \in g[n + k] <=> e - (8 - k) \in h[k]}
<1>11. 0 \in second
  <2>1. SUFFICES ASSUME NEW e \in Int PROVE e \in g[n + 0] <=> e - (8 - 0) \in h[0]
    OBVIOUS
  <2>2. n + 0 = n /\ e - (8 - 0) = e - 8 /\ 31 - (e - 8) = 39 - e /\ e - 8 \in Int
    OBVIOUS
  <2>3. e - 8 \in w <=> (e - 8 \in r /\ e - 8 \notin High(c)) \/ (e - 8 \notin r /\ e - 8 \in High(c))
    BY <1>9, XorAt
  <2>4. e - 8 \in High(c) <=> 39 - e \in c
    BY <2>2, HighAt
  <2>5. e \in g[n] <=> \/ e - 8 \in r /\ 39 - e \notin c
                       \/ e - 8 \notin r /\ 39 - e \in c
    BY <1>7, <1>8
  <2>6. QED
    BY <1>10, <2>2, <2>3, <2>4, <2>5
<1>12. ASSUME NEW k \in Nat, k \in second PROVE k + 1 \in second
  <2>1. SUFFICES ASSUME k + 1 =< 8, NEW e \in Int
                 PROVE  e \in g[n + (k + 1)] <=> e - (8 - (k + 1)) \in h[k + 1]
    OBVIOUS
  <2>2. PICK j \in 1..m, x \in Nat, i \in Int :
          /\ j = n + (k + 1) /\ j - 1 = n + k /\ x = m - j /\ x = 8 - (k + 1)
          /\ i = e - x /\ i - 1 = e - (8 - k) /\ (x + 32) - (8 - k) = 31
    BY <1>3, <2>1
  <2>3. PICK b \in SUBSET Int, v \in SUBSET Word :
          b = g[n + k] /\ v = h[k] /\ g[j] = Less(b, x) /\ h[k + 1] = Turn(v)
    <3>1. n + k \in 0..m /\ k \in 0..8 /\ k + 1 \in 1..8 /\ (k + 1) - 1 = k
      BY <1>3, <2>1
    <3>2. g[j] = Less(g[j - 1], m - j) /\ h[k + 1] = Turn(h[k])
      BY <1>4, <1>10, <3>1
    <3>3. QED
      BY <2>2, <3>1, <3>2
  <2>4. \A d \in Int : d \in b <=> d - (8 - k) \in v
    <3>1. k =< 8
      BY <2>1
    <3>2. \A d \in Int : d \in g[n + k] <=> d - (8 - k) \in h[k]
      BY <1>12, <3>1
    <3>3. QED
      BY <2>3, <3>2
  <2>5. (x + 32 \in b <=> 31 \in v) /\ (e \in b <=> i - 1 \in v)
    <3>1. x + 32 \in Int
      OBVIOUS
    <3>2. QED
      BY <2>2, <2>4, <3>1
  <2>6. /\ Turn(v) \in SUBSET Word
        /\ i \in Word => (i \in Turn(v) <=> \/ i - 1 \in v /\ ~(31 \in v /\ i \in ulPolynomial)
                                            \/ i - 1 \notin v /\ 31 \in v /\ i \in ulPolynomial)
    BY TurnAt
  <2>7. /\ i \notin Word => i \notin ulPolynomial /\ (i # 32 => i - 1 \notin v)
        /\ i \in Word => i # 32
        /\ i = 32 => i - 1 = 31
        /\ e = x + 32 <=> i = 32
    BY <2>2 DEF Word, ulPolynomial
  <2>8. e \in Less(b, x) <=> i \in Turn(v)
    <3>1. CASE x + 32 \notin b
      <4>1. Less(b, x) = b /\ 31 \notin v
        BY <2>5, <3>1, LessAt
      <4>2. QED
        BY <2>5, <2>6, <2>7, <4>1
    <3>2. CASE x + 32 \in b
      <4>1. e \in Less(b, x) <=> \/ e \in b /\ ~(e = x + 32 \/ i \in ulPolynomial)
                                 \/ e \notin b /\ (e = x + 32 \/ i \in ulPolynomial)
        BY <2>2, <3>2, LessAt
      <4>2. 31 \in v
        BY <2>5, <3>2
      <4>3. QED
        BY <2>5, <2>6, <2>7, <4>1, <4>2
    <3>3. QED
      BY <3>1, <3>2
  <2>9. QED
    BY <2>2, <2>3, <2>8
<1>13. \A e \in Int : e \in g[m] <=> e \in h[8]
  <2>1. 8 \in second
    <3> HIDE DEF second
    <3>1. Nat \subseteq second
      BY <1>11, <1>12, Induction
    <3>2. QED
      BY <3>1
  <2>2. \A e \in Int : e - (8 - 8) = e
    OBVIOUS
  <2>3. QED
    BY <1>3, <2>1, <2>2
<1>14. g[m] \in SUBSET Int /\ h[8] \in SUBSET Int
  <2>1. m \in 0..m /\ 8 \in 0..8
    OBVIOUS
  <2>2. g[m] \in SUBSET Int /\ h[8] \in SUBSET Word
    BY <2>1
  <2>3. \A e \in Word : e \in Int
    BY DEF Word
  <2>4. QED
    BY <2>2, <2>3
<1>15. g[m] = h[8]
  BY <1>13, <1>14
<1>16. QED
  BY <1>3, <1>4, <1>8, <1>9, <1>10, <1>15

-----------------------------------------------------------------------------
LEMMA PolynomialAt ==
  ASSUME NEW m \in Seq(Byte), NEW n \in Nat, n = Len(m)
  PROVE  /\ Polynomial(m) \in SUBSET (0..(8 * n + 31))
         /\ \A e \in Int :
              LET bit == \E i \in 1..n : 8 * (n - i) + 39 - e \in m[i]
                  inverted == 8 * n =< e /\ e =< 8 * n + 31
              IN e \in Polynomial(m) <=> (bit /\ ~inverted) \/ (~bit /\ inverted)
<1> DEFINE bits == UNION {{8 * (Len(m) - i) + 39 - b : b \in m[i]} : i \in 1..Len(m)}
           ones == 8 * (Len(m) - 0)..(8 * (Len(m) - 0) + 31)
<1>1. Polynomial(m) = Xor(bits, ones)
  BY DEF Polynomial
<1>2. \A e \in Int : e \in ones <=> 8 * n =< e /\ e =< 8 * n + 31
  OBVIOUS
<1>3. \A i \in 1..n : m[i] \in SUBSET (0..7)
  BY DEF Byte
<1>4. ASSUME NEW e \in bits PROVE e \in 0..(8 * n + 31)
  <2>1. PICK i \in 1..n : \E b \in m[i] : e = 8 * (n - i) + 39 - b
    OBVIOUS
  <2>2. PICK b \in m[i] : e = 8 * (n - i) + 39 - b
    BY <2>1
  <2>3. b \in 0..7
    BY <1>3
  <2>4. QED
    BY <2>2, <2>3
<1>5. ones \in SUBSET (0..(8 * n + 31))
  OBVIOUS
<1>6. ASSUME NEW e \in Int PROVE e \in bits <=> \E i \in 1..n : 8 * (n - i) + 39 - e \in m[i]
  <2>1. ASSUME e \in bits PROVE \E i \in 1..n : 8 * (n - i) + 39 - e \in m[i]
    <3>1. PICK i \in 1..n : \E b \in m[i] : e = 8 * (n - i) + 39 - b
      BY <2>1
    <3>2. PICK b \in m[i] : e = 8 * (n - i) + 39 - b
      BY <3>1
    <3>3. b \in 0..7
      BY <1>3
    <3>4. b = 8 * (n - i) + 39 - e
      BY <3>2, <3>3
    <3>5. QED
      BY <3>4
  <2>2. ASSUME NEW i \in 1..n, 8 * (n - i) + 39 - e \in m[i] PROVE e \in bits
    <3>1. PICK b \in m[i] : b = 8 * (n - i) + 39 - e
      BY <2>2
    <3>2. e = 8 * (n - i) + 39 - b
      BY <1>3, <3>1
    <3>3. e \in {8 * (Len(m) - i) + 39 - d : d \in m[i]}
      BY <3>2
    <3>4. QED
      BY <3>3
  <2>3. QED
    BY <2>1, <2>2
<1> HIDE DEF bits, ones
<1>7. \A e : e \in Polynomial(m) <=> (e \in bits /\ e \notin ones) \/ (e \notin bits /\ e \in ones)
  BY <1>1, XorAt
<1>8. Polynomial(m) \in SUBSET (0..(8 * n + 31))
  BY <1>4, <1>5, <1>7
<1>9. QED
  BY <1>2, <1>6, <1>7, <1>8

\* One byte more: the polynomial so far times x^8, and the bits of the byte.
LEMMA PolynomialByte ==
  ASSUME NEW m \in Seq(Byte), NEW c \in Byte, NEW e \in Int
  PROVE  e \in Polynomial(Append(m, c)) <=>
           \/ e - 8 \in Polynomial(m) /\ 39 - e \notin c
           \/ e - 8 \notin Polynomial(m) /\ 39 - e \in c
<1>1. PICK n \in Nat, o \in Nat : n = Len(m) /\ o = n + 1
  OBVIOUS
<1>2. PICK more \in Seq(Byte) : more = Append(m, c)
  <2>1. Append(m, c) \in Seq(Byte)
    OBVIOUS
  <2>2. QED
    BY <2>1
<1>3. o = Len(more) /\ more[o] = c /\ \A i \in 1..n : more[i] = m[i]
  BY <1>1, <1>2
<1>4. PICK d \in Int : d = e - 8
  OBVIOUS
<1> DEFINE old == \E i \in 1..n : 8 * (n - i) + 39 - d \in m[i]
           new == \E i \in 1..o : 8 * (o - i) + 39 - e \in more[i]
<1>5. d \in Polynomial(m) <=> \/ old /\ ~(8 * n =< d /\ d =< 8 * n + 31)
                              \/ ~old /\ 8 * n =< d /\ d =< 8 * n + 31
  BY <1>1, PolynomialAt
<1>6. e \in Polynomial(more) <=> \/ new /\ ~(8 * o =< e /\ e =< 8 * o + 31)
                                 \/ ~new /\ 8 * o =< e /\ e =< 8 * o + 31
  BY <1>3, PolynomialAt
<1>7. /\ 8 * o =< e <=> 8 * n =< d
      /\ e =< 8 * o + 31 <=> d =< 8 * n + 31
  BY <1>1, <1>4
<1>8. new <=> old \/ 39 - e \in c
  <2>1. ASSUME NEW i \in 1..n PROVE 8 * (o - i) + 39 - e = 8 * (n - i) + 39 - d
    BY <1>1, <1>4
  <2>2. 8 * (o - o) + 39 - e = 39 - e
    OBVIOUS
  <2>3. \A i \in 1..o : i \in 1..n \/ i = o
    BY <1>1
  <2>4. o \in 1..o /\ \A i \in 1..n : i \in 1..o
    BY <1>1
  <2>5. new => old \/ 39 - e \in c
    BY <1>3, <2>1, <2>2, <2>3
  <2>6. old => new
    BY <1>3, <2>1, <2>4
  <2>7. 39 - e \in c => new
    BY <1>3, <2>2, <2>4
  <2>8. QED
    BY <2>5, <2>6, <2>7
<1>9. ~(old /\ 39 - e \in c)
  <2>1. SUFFICES ASSUME NEW i \in 1..n, 8 * (n - i) + 39 - d \in m[i], 39 - e \in c PROVE FALSE
    OBVIOUS
  <2>2. m[i] \in SUBSET (0..7) /\ c \in SUBSET (0..7)
    BY <1>1 DEF Byte
  <2>3. 8 * (n - i) + 39 - d \in 0..7 /\ 39 - e \in 0..7
    BY <2>1, <2>2
  <2>4. n - i \in Nat
    OBVIOUS
  <2>5. QED
    BY <1>4, <2>3, <2>4
<1> HIDE DEF old, new
<1>10. QED
  BY <1>2, <1>4, <1>5, <1>6, <1>7, <1>8, <1>9

-----------------------------------------------------------------------------
\* The register of Get_CRC is the reflected remainder of what has been read.
LEMMA CrcReads ==
  ASSUME NEW m \in Seq(Byte)
  PROVE  Get_CRC(m) = Xor(Reflect(Remainder(Polynomial(m), 8 * Len(m)), 32), Word)
<1>1. PICK n \in Nat : n = Len(m)
  OBVIOUS
<1> DEFINE Rest(i) == Remainder(Polynomial(SubSeq(m, 1, i)), 8 * i)
           Reading(before, c) == Xor(ShiftRight(before, 8), crc32_table[Xor(before \cap 0..7, c)])
           Body(f, i) == IF i = 0 THEN Word ELSE Reading(f[i - 1], m[i])
           f == [i \in 0..n |-> Reflect(Rest(i), 32)]
           h == CHOOSE e : e = [i \in 0..n |-> Body(e, i)]
<1>2. ASSUME NEW i \in 0..n
      PROVE  /\ SubSeq(m, 1, i) \in Seq(Byte) /\ Len(SubSeq(m, 1, i)) = i
             /\ Polynomial(SubSeq(m, 1, i)) \in SUBSET (0..(8 * i + 31))
             /\ Rest(i) \in SUBSET Word
  <2>1. PICK s \in Seq(Byte) : s = SubSeq(m, 1, i) /\ Len(s) = i
    <3>1. \A k \in 1..i : m[k] \in Byte
      BY <1>1
    <3>2. SubSeq(m, 1, i) \in Seq(Byte)
      BY <3>1, SubSeqProperties
    <3>3. Len(SubSeq(m, 1, i)) = i
      BY <1>1
    <3>4. QED
      BY <3>2, <3>3
  <2>2. PICK k \in Nat : k = 8 * i
    OBVIOUS
  <2>3. Polynomial(s) \in SUBSET (0..(8 * i + 31))
    <3>1. i \in Nat
      OBVIOUS
    <3>2. QED
      BY <2>1, <3>1, PolynomialAt
  <2>4. Remainder(Polynomial(s), k) \in SUBSET Word
    BY <2>2, <2>3, RemainderWord
  <2>5. QED
    BY <2>1, <2>2, <2>3, <2>4
<1>3. Rest(0) = Word
  <2>1. SubSeq(m, 1, 0) = <<>>
    BY SubSeqEmpty
  <2>2. PICK s \in Seq(Byte) : s = <<>> /\ Len(s) = 0
    BY EmptySeq
  <2>3. Polynomial(s) = Word
    <3>1. PICK z \in Nat : z = 0 /\ 8 * z = 0
      OBVIOUS
    <3>2. \A i : i \notin 1..z
      BY <3>1
    <3>3. /\ Polynomial(s) \in SUBSET (0..(8 * z + 31))
          /\ \A e \in Int : e \in Polynomial(s) <=> 8 * z =< e /\ e =< 8 * z + 31
      BY <2>2, <3>1, <3>2, PolynomialAt
    <3>4. \A e \in Polynomial(s) : e \in Word
      BY <3>1, <3>3 DEF Word
    <3>5. \A e \in Word : e \in Polynomial(s)
      <4>1. \A e \in Word : e \in Int /\ 8 * z =< e /\ e =< 8 * z + 31
        BY <3>1 DEF Word
      <4>2. QED
        BY <3>3, <4>1
    <3>6. QED
      BY <3>4, <3>5
  <2>4. Remainder(Word, 0) = Word
    <3>1. Word \in SUBSET Int /\ 0 \in Nat
      BY DEF Word
    <3>2. QED
      BY <3>1, DividedBy
  <2>5. PICK z \in Nat : z = 8 * 0 /\ z = 0
    OBVIOUS
  <2>6. Rest(0) = Remainder(Polynomial(s), z)
    BY <2>1, <2>2, <2>5
  <2>7. QED
    BY <2>3, <2>4, <2>5, <2>6
<1>4. Reflect(Word, 32) = Word
  <2>1. PICK n32 \in Nat : n32 = 32 /\ n32 - 1 = 31
    OBVIOUS
  <2>2. Word \in SUBSET Int /\ \A k \in Word : k \in 0..31 /\ 31 - k \in Word
    BY DEF Word
  <2>3. \A k \in Word : k \in Reflect(Word, n32)
    BY <2>1, <2>2, ReflectAt
  <2>4. QED
    BY <2>1, <2>3 DEF Reflect, Word
<1>5. ASSUME NEW i \in 1..n PROVE f[i] = Reading(f[i - 1], m[i])
  <2>1. PICK j \in 0..n : j = i - 1 /\ i = j + 1
    OBVIOUS
  <2>2. PICK s \in Seq(Byte), c \in Byte : s = SubSeq(m, 1, j) /\ c = m[i]
    <3>1. m[i] \in Byte
      BY <1>1
    <3>2. SubSeq(m, 1, j) \in Seq(Byte)
      BY <1>2
    <3>3. QED
      BY <3>1, <3>2
  <2>3. SubSeq(m, 1, i) = Append(s, c)
    BY <1>1, <2>1, <2>2
  <2>4. Rest(i) = Turned(Xor(Rest(j), High(c)))
    <3>1. PICK k \in Nat : k = 8 * j /\ k + 8 = 8 * i
      BY <2>1
    <3>2. PICK p \in SUBSET (0..(k + 31)) : p = Polynomial(s)
      BY <1>2, <2>2, <3>1
    <3>3. PICK q \in SUBSET Int : q = Polynomial(Append(s, c))
      <4>1. i \in 0..n
        OBVIOUS
      <4>2. Polynomial(SubSeq(m, 1, i)) \in SUBSET (0..(8 * i + 31))
        BY <1>2, <4>1
      <4>3. QED
        BY <2>3, <4>2
    <3>4. \A e \in Int : e \in q <=> \/ e - 8 \in p /\ 39 - e \notin c
                                     \/ e - 8 \notin p /\ 39 - e \in c
      BY <3>2, <3>3, PolynomialByte
    <3>5. Remainder(q, k + 8) = Turned(Xor(Remainder(p, k), High(c)))
      BY <3>4, RemainderByte
    <3>6. QED
      BY <2>2, <2>3, <3>1, <3>2, <3>3, <3>5
  <2>5. Rest(j) \in SUBSET Word
    BY <1>2
  <2>6. f[i] = Reflect(Rest(i), 32) /\ f[j] = Reflect(Rest(j), 32)
    OBVIOUS
  <2> HIDE DEF Rest, f
  <2>7. Reading(f[j], c) = Reflect(Turned(Xor(Rest(j), High(c))), 32)
    BY <2>5, <2>6, CrcByte
  <2>8. QED
    BY <2>1, <2>2, <2>4, <2>6, <2>7
<1>6. Get_CRC(m) = Xor(h[n], Word)
  BY <1>1 DEF Get_CRC
<1>7. f[0] = Word
  BY <1>3, <1>4, SMTT(40)
<1>8. h = [i \in 0..n |-> Body(h, i)]
  <2>1. f = [i \in 0..n |-> f[i]]
    OBVIOUS
  <2> HIDE DEF f
  <2>2. \A i \in 0..n : f[i] = Body(f, i)
    <3> HIDE DEF Reading
    <3>1. QED
      BY <1>5, <1>7
  <2>3. f = [i \in 0..n |-> Body(f, i)]
    <3> HIDE DEF Body
    <3>1. QED
      BY <2>1, <2>2
  <2>4. QED
    BY <2>3
<1> HIDE DEF f, h
<1>9. h[0] = Word
  BY <1>8
<1>10. ASSUME NEW i \in 1..n PROVE h[i] = Reading(h[i - 1], m[i])
  <2>1. i \in 0..n /\ i # 0
    OBVIOUS
  <2>2. h[i] = Body(h, i)
    BY <1>8, <2>1
  <2>3. QED
    BY <2>1, <2>2
<1> DEFINE good == {k \in Nat : k =< n => h[k] = f[k]}
<1>11. 0 \in good
  BY <1>7, <1>9
<1>12. ASSUME NEW k \in Nat, k \in good PROVE k + 1 \in good
  <2>1. SUFFICES ASSUME k + 1 =< n PROVE h[k + 1] = f[k + 1]
    OBVIOUS
  <2>2. PICK j \in 1..n : j = k + 1 /\ j - 1 = k
    BY <2>1
  <2>3. h[k] = f[k]
    BY <1>12, <2>1
  <2>4. h[j] = Reading(h[j - 1], m[j]) /\ f[j] = Reading(f[j - 1], m[j])
    BY <1>5, <1>10
  <2> HIDE DEF Reading
  <2>5. QED
    BY <2>2, <2>3, <2>4
<1>13. h[n] = f[n]
  <2>1. n \in good
    <3> HIDE DEF good
    <3>1. Nat \subseteq good
      BY <1>11, <1>12, Induction
    <3>2. QED
      BY <3>1
  <2>2. QED
    BY <2>1
<1>14. f[n] = Reflect(Rest(n), 32) /\ SubSeq(m, 1, n) = m
  BY <1>1, SubSeqFull DEF f
<1>15. QED
  BY <1>1, <1>6, <1>13, <1>14

(* See CrcIsRemainder of Crc32: for any message.                              *)
THEOREM ChecksumsAreRemainders == Spec => []CrcAtStart
<1>1. CrcAtStart
  BY CrcReads, CrcAssumption DEF CrcAtStart, CrcIsRemainder
<1>2. QED
  BY <1>1, PTL

-----------------------------------------------------------------------------
\* Conf.  What is cut off a text, and what is found in it.
\* strchr: the character behind a piece without it, or none.
LEMMA CharacterFound ==
  ASSUME NEW s \in Seq(Alphabet), NEW t \in Seq(Alphabet), NEW c \in Alphabet, c \notin ToSet(s)
  PROVE  /\ strchr(s \o (<<c>> \o t), c) = Len(s) + 1
         /\ strchr(s, c) = 0
<1>1. PICK m \in Nat, n \in Nat : m = Len(s) /\ n = Len(t)
  BY LenProperties
<1>2. <<c>> \in Seq(Alphabet) /\ Len(<<c>>) = 1 /\ <<c>>[1] = c
  OBVIOUS
<1>3. <<c>> \o t \in Seq(Alphabet) /\ Len(<<c>> \o t) = 1 + n /\ (<<c>> \o t)[1] = c
  <2>1. <<c>> \o t \in Seq(Alphabet) /\ Pieces(<<c>> \o t, <<c>>, t)
    BY <1>2, InPieces
  <2>2. 1 \in 1..Len(<<c>>)
    BY <1>2
  <2>3. QED
    BY <1>1, <1>2, <2>1, <2>2 DEF Pieces
<1>4. PICK u \in Seq(Alphabet) : /\ u = s \o (<<c>> \o t) /\ Len(u) = m + (1 + n) /\ u[m + 1] = c
                                 /\ \A i \in 1..m : u[i] = s[i]
  <2>1. 1 \in 1..Len(<<c>> \o t)
    BY <1>3
  <2>2. QED
    <3>1. PICK v \in Seq(Alphabet) : v = <<c>> \o t /\ Len(v) = 1 + n /\ v[1] = c /\ 1 \in 1..Len(v)
      BY <1>3, <2>1
    <3>2. s \o v \in Seq(Alphabet) /\ Pieces(s \o v, s, v)
      BY InPieces
    <3>3. QED
      BY <1>1, <3>1, <3>2, ZenonT(40) DEF Pieces
<1>5. \A i \in 1..m : s[i] # c
  BY <1>1, LenProperties DEF ToSet
<1> DEFINE I == {i \in 1..Len(u) : u[i] = c}
           J == {i \in 1..Len(s) : s[i] = c}
<1>6. m + 1 \in I /\ \A i \in I : m + 1 =< i
  BY <1>1, <1>4, <1>5
<1>7. I \in SUBSET Nat /\ J = {}
  BY <1>1, <1>4, <1>5
<1>8. strchr(u, c) = IF I # {} THEN Min(I) ELSE 0
  BY DEF strchr, SelectInSeq
<1>9. strchr(s, c) = IF J # {} THEN Min(J) ELSE 0
  BY DEF strchr, SelectInSeq
<1> HIDE DEF I, J
<1>10. Min(I) \in I /\ \A y \in I : Min(I) =< y
  BY <1>6, <1>7, LeastElement
<1>11. Min(I) = m + 1
  <2>1. Min(I) \in Nat
    BY <1>7, <1>10
  <2>2. QED
    BY <1>6, <1>10, <2>1
<1>12. QED
  BY <1>1, <1>4, <1>6, <1>7, <1>8, <1>9, <1>11

\* Leading characters of cs, and trailing ones, are cut off and nothing else.
LEMMA FrontCut ==
  ASSUME NEW cs, NEW s \in Seq(Alphabet), NEW t \in Seq(Alphabet), ToSet(s) \subseteq cs,
         t # <<>> => Head(t) \notin cs
  PROVE  CutFront(s \o t, cs) = t
<1>1. PICK m \in Nat, n \in Nat : m = Len(s) /\ n = Len(t)
  BY LenProperties
<1>2. PICK u \in Seq(Alphabet) : /\ u = s \o t /\ Len(u) = m + n
                                 /\ \A i \in 1..m : u[i] = s[i]
                                 /\ \A i \in 1..n : u[m + i] = t[i]
                                 /\ SubSeq(u, m + 1, m + n) = t
  <2>1. s \o t \in Seq(Alphabet) /\ Pieces(s \o t, s, t)
    BY InPieces
  <2>2. QED
    BY <1>1, <2>1 DEF Pieces
<1>3. \A i \in 1..m : u[i] \in cs
  BY <1>1, <1>2, LenProperties DEF ToSet
<1> DEFINE I == {i \in 1..Len(u) : u[i] \notin cs}
<1>4. I \in SUBSET Nat /\ \A i \in I : i >= m + 1 /\ i =< m + n
  BY <1>2, <1>3
<1>5. CutFront(u, cs) = LET i == IF I # {} THEN Min(I) ELSE 0
                        IN IF i = 0 THEN <<>> ELSE SubSeq(u, i, Len(u))
  BY DEF CutFront, SelectInSeq
<1> HIDE DEF I
<1>6. CASE t = <<>>
  <2>1. n = 0
    BY <1>1, <1>6, EmptySeq
  <2>2. I = {}
    BY <1>4, <2>1
  <2>3. QED
    BY <1>2, <1>5, <1>6, <2>2
<1>7. CASE t # <<>>
  <2>1. n # 0 /\ 1 \in 1..n /\ t[1] \notin cs
    <3>1. n # 0
      BY <1>1, <1>7, EmptySeq
    <3>2. Head(t) = t[1]
      BY <1>7, Ends2
    <3>3. QED
      BY <1>7, <3>1, <3>2
  <2>2. m + 1 \in I
    <3>1. u[m + 1] = t[1] /\ m + 1 \in 1..Len(u)
      <4>1. m + 1 \in 1..m + n
        BY <2>1
      <4>2. QED
        BY <1>2, <2>1, <4>1
    <3>2. QED
      BY <2>1, <3>1 DEF I
  <2>3. Min(I) \in I /\ \A y \in I : Min(I) =< y
    BY <1>4, <2>2, LeastElement
  <2>4. Min(I) = m + 1
    <3>1. Min(I) \in Nat /\ Min(I) >= m + 1 /\ Min(I) =< m + 1
      BY <1>4, <2>2, <2>3
    <3>2. QED
      BY <3>1
  <2>5. CutFront(u, cs) = SubSeq(u, m + 1, Len(u))
    <3>1. m + 1 # 0 /\ I # {}
      BY <2>2
    <3>2. QED
      BY <1>5, <2>4, <3>1
  <2>6. SubSeq(u, m + 1, Len(u)) = t
    BY <1>2
  <2>7. QED
    BY <1>2, <2>5, <2>6, Zenon
<1>8. QED
  BY <1>6, <1>7

\* The same at the end.
LEMMA BackCut ==
  ASSUME NEW cs, NEW s \in Seq(Alphabet), NEW t \in Seq(Alphabet), ToSet(t) \subseteq cs,
         s # <<>> => Last(s) \notin cs
  PROVE  CutBack(s \o t, cs) = s
<1>1. PICK m \in Nat, n \in Nat : m = Len(s) /\ n = Len(t)
  BY LenProperties
<1>2. PICK u \in Seq(Alphabet) : /\ u = s \o t /\ Len(u) = m + n
                                 /\ \A i \in 1..m : u[i] = s[i]
                                 /\ \A i \in 1..n : u[m + i] = t[i]
                                 /\ SubSeq(u, 1, m) = s
  <2>1. s \o t \in Seq(Alphabet) /\ Pieces(s \o t, s, t)
    BY InPieces
  <2>2. QED
    BY <1>1, <2>1 DEF Pieces
<1> DEFINE I == {i \in 1..Len(u) : u[i] \notin cs}
<1>3. \A i \in I : i \in Nat \ {0} /\ i =< m
  <2>1. SUFFICES ASSUME NEW i \in 1..m + n, u[i] \notin cs, ~(i =< m) PROVE FALSE
    BY <1>2
  <2>2. PICK j \in 1..n : m + j = i
    <3>1. i - m \in 1..n /\ m + (i - m) = i
      BY <2>1
    <3>2. QED
      BY <3>1
  <2>3. u[i] = t[j]
    BY <1>2, <2>2
  <2>4. t[j] \in cs
    BY <1>1, <2>2, LenProperties DEF ToSet
  <2>5. QED
    BY <2>1, <2>3, <2>4
<1>4. CutBack(u, cs) = SubSeq(u, 1, IF I # {} THEN Max(I) ELSE 0)
  BY DEF CutBack, SelectLastInSeq
<1>5. CASE s = <<>>
  <2>1. m = 0
    BY <1>1, <1>5, EmptySeq
  <2> HIDE DEF I
  <2>2. I = {}
    BY <1>3, <2>1
  <2>3. CutBack(u, cs) = SubSeq(u, 1, m)
    BY <1>4, <2>1, <2>2
  <2>4. QED
    BY <1>2, <2>3, Zenon
<1>6. CASE s # <<>>
  <2>1. m # 0 /\ m \in 1..m /\ m \in 1..m + n
    BY <1>1, <1>6, EmptySeq
  <2>2. s[m] \notin cs
    BY <1>1, <1>6, Ends2
  <2>3. m \in I
    BY <1>2, <2>1, <2>2
  <2> HIDE DEF I
  <2>4. \E x \in I : \A y \in I : x >= y
    BY <1>3, <2>3
  <2>5. Max(I) \in I /\ \A y \in I : Max(I) >= y
    BY <2>4 DEF Max
  <2>6. Max(I) = m
    <3>1. Max(I) \in Nat /\ Max(I) =< m /\ Max(I) >= m
      BY <1>3, <2>3, <2>5
    <3>2. QED
      BY <3>1
  <2>7. CutBack(u, cs) = SubSeq(u, 1, m)
    BY <1>4, <2>3, <2>6
  <2>8. QED
    BY <1>2, <2>7, Zenon
<1>7. QED
  BY <1>5, <1>6

-----------------------------------------------------------------------------

\* Where strchr finds a character, and that it finds one that is there.
LEMMA FirstAt ==
  ASSUME NEW S, NEW s \in Seq(S), NEW c, NEW k \in 1..Len(s), s[k] = c,
         \A j \in 1..k - 1 : s[j] # c
  PROVE  strchr(s, c) = k
<1>1. PICK n \in Nat : n = Len(s)
  BY LenProperties
<1> DEFINE I == {i \in 1..Len(s) : s[i] = c}
<1>2. k \in I /\ k \in Nat /\ I \in SUBSET Nat /\ \A i \in I : k =< i
  BY <1>1
<1>3. strchr(s, c) = IF I # {} THEN Min(I) ELSE 0
  BY DEF strchr, SelectInSeq
<1> HIDE DEF I
<1>4. Min(I) \in I /\ \A y \in I : Min(I) =< y
  BY <1>2, LeastElement
<1>5. Min(I) \in Nat /\ Min(I) =< k /\ k =< Min(I)
  BY <1>2, <1>4
<1>6. QED
  BY <1>2, <1>3, <1>5

LEMMA StrchrFinds ==
  ASSUME NEW S, NEW s \in Seq(S), NEW c, c \in ToSet(s)
  PROVE  /\ strchr(s, c) \in 1..Len(s) /\ s[strchr(s, c)] = c
         /\ \A j \in 1..strchr(s, c) - 1 : s[j] # c
<1>1. PICK n \in Nat : n = Len(s) /\ DOMAIN s = 1..n
  BY LenProperties
<1> DEFINE I == {i \in 1..Len(s) : s[i] = c}
<1>2. I # {} /\ I \in SUBSET Nat
  BY <1>1 DEF ToSet
<1>3. strchr(s, c) = IF I # {} THEN Min(I) ELSE 0
  BY DEF strchr, SelectInSeq
<1>4. PICK k \in Nat : k = Min(I) /\ k \in I /\ \A y \in I : k =< y
  <2> HIDE DEF I
  <2>1. Min(I) \in I /\ \A y \in I : Min(I) =< y
    BY <1>2, LeastElement
  <2>2. QED
    BY <1>2, <2>1
<1>5. k \in 1..n /\ s[k] = c
  BY <1>1, <1>4
<1>6. ASSUME NEW j \in 1..k - 1 PROVE s[j] # c
  <2>1. j \in 1..n /\ ~(k =< j)
    BY <1>5
  <2>2. j \notin I
    BY <1>4, <2>1
  <2>3. QED
    BY <1>1, <2>1, <2>2
<1>7. strchr(s, c) = k
  BY <1>2, <1>3, <1>4
<1>8. QED
  BY <1>1, <1>5, <1>6, <1>7

LEMMA Taken ==
  ASSUME LineMax \in Nat, LineMax > 1, NEW text \in Seq(Alphabet), text # <<>>
  PROVE  \E n \in 1..Len(text) :
           /\ fgets(text) = SubSeq(text, 1, n) /\ fgets(text) \in Seq(Alphabet)
           /\ Len(fgets(text)) = n
           /\ IF "\n" \in ToSet(text)
              THEN n = IF LineMax - 1 =< strchr(text, "\n") THEN LineMax - 1 ELSE strchr(text, "\n")
              ELSE n = IF LineMax - 1 =< Len(text) THEN LineMax - 1 ELSE Len(text)
<1>1. PICK l \in Nat : l = Len(text) /\ l # 0
  BY LenProperties, EmptySeq
<1> DEFINE k == strchr(text, "\n")
           T == {LineMax - 1, Len(text)} \cup ({k} \ {0})
           n == Min(T)
<1>2. PICK m \in 1..l : /\ n = m
                        /\ IF "\n" \in ToSet(text)
                           THEN m = IF LineMax - 1 =< k THEN LineMax - 1 ELSE k
                           ELSE m = IF LineMax - 1 =< Len(text) THEN LineMax - 1 ELSE Len(text)
  <2>1. CASE "\n" \in ToSet(text)
    <3>1. k \in 1..l
      BY <1>1, <2>1, StrchrFinds
    <3> HIDE DEF k
    <3> DEFINE m == IF LineMax - 1 =< k THEN LineMax - 1 ELSE k
    <3>2. T \in SUBSET Int /\ m \in T /\ (\A x \in T : m =< x) /\ m \in 1..l
      BY <1>1, <3>1
    <3> HIDE DEF T, m
    <3>3. Min(T) = m
      BY <3>2, MinIs
    <3>4. QED
      BY <2>1, <3>2, <3>3 DEF m
  <2>2. CASE "\n" \notin ToSet(text)
    <3>1. k = 0
      <4>1. \A i \in 1..Len(text) : text[i] # "\n"
        BY <2>2, LenProperties DEF ToSet
      <4>2. QED
        BY <4>1 DEF strchr, SelectInSeq
    <3> HIDE DEF k
    <3> DEFINE m == IF LineMax - 1 =< l THEN LineMax - 1 ELSE l
    <3>2. T \in SUBSET Int /\ m \in T /\ (\A x \in T : m =< x) /\ m \in 1..l
      BY <1>1, <3>1
    <3> HIDE DEF T, m
    <3>3. Min(T) = m
      BY <3>2, MinIs
    <3>4. QED
      BY <1>1, <2>2, <3>2, <3>3 DEF m
  <2>3. QED
    BY <2>1, <2>2
<1>3. fgets(text) = SubSeq(text, 1, m)
  BY <1>2 DEF fgets
<1>4. SubSeq(text, 1, m) \in Seq(Alphabet) /\ Len(SubSeq(text, 1, m)) = m
  <2>1. \A i \in 1..m : text[i] \in Alphabet
    BY <1>1, <1>2, ElementOfSeq
  <2>2. QED
    BY <2>1, SubSeqProperties
<1>5. QED
  BY <1>1, <1>2, <1>3, <1>4

\* A line that fits is read whole, whatever comes after it; the last one also without
\* a newline.
LEMMA WholeLine ==
  ASSUME LineMax \in Nat, NEW line \in Seq(Alphabet), IsLine(line), Len(line) < LineMax,
         NEW more \in Seq(Alphabet)
  PROVE  fgets(line \o more) = line
<1>1. PICK u \in Seq(Alphabet) : u = line \o more /\ Pieces(u, line, more)
  BY InPieces
<1>2. PICK l \in Nat : l = Len(line) /\ l # 0 /\ line[l] = "\n" /\ l \in 1..l
  BY LenProperties, EmptySeq DEF IsLine, Last
<1>3. u # <<>> /\ Len(u) >= l /\ u[l] = "\n" /\ l \in 1..Len(u) /\ LineMax > 1
  <2>1. Len(u) >= l /\ Len(u) \in Nat /\ u[l] = "\n"
    BY <1>1, <1>2 DEF Pieces
  <2>2. QED
    BY <1>2, <2>1, EmptySeq
<1>4. \A j \in 1..l - 1 : u[j] # "\n"
  <2>1. SUFFICES ASSUME NEW j \in 1..l - 1 PROVE u[j] # "\n"
    OBVIOUS
  <2>2. j \in 1..l /\ u[j] = line[j]
    BY <1>1, <1>2 DEF Pieces
  <2>3. Front(line)[j] = line[j] /\ j \in DOMAIN Front(line)
    BY <1>2 DEF Front
  <2>4. QED
    BY <2>2, <2>3 DEF IsLine, ToSet
<1>5. strchr(u, "\n") = l
  BY <1>3, <1>4, FirstAt
<1>6. "\n" \in ToSet(u)
  BY <1>3, LenProperties DEF ToSet
<1>7. fgets(u) = SubSeq(u, 1, l)
  BY <1>2, <1>3, <1>5, <1>6, Taken
<1>8. QED
  BY <1>1, <1>2, <1>7 DEF Pieces

\* A last line without a newline is read whole too.
LEMMA LastLine ==
  ASSUME LineMax \in Nat, NEW line \in Seq(Alphabet), line # <<>>, "\n" \notin ToSet(line),
         Len(line) < LineMax
  PROVE  fgets(line) = line
<1>1. Len(line) \in Nat \ {0}
  BY LenProperties, EmptySeq
<1>2. fgets(line) = SubSeq(line, 1, Len(line))
  BY <1>1, Taken
<1>3. QED
  BY <1>2, SubSeqFull

-----------------------------------------------------------------------------

\* What a turn of Load works on.
Items == {Item(line) : line \in Seq(Alphabet)}
Reads == [items : Seq(Items), rest : Seq(Alphabet)]

\* What is left of a line has the characters of the line.
LEMMA StrippedTyped ==
  ASSUME NEW S, NEW line \in Seq(S)
  PROVE  Stripped(line) \in Seq(S)
<1> DEFINE cs == {"\n", "\r", " "}
           I == {i \in 1..Len(line) : line[i] \notin cs}
           k == IF I # {} THEN Max(I) ELSE 0
<1>1. PICK l \in Nat : l = Len(line)
  BY LenProperties
<1>0. I \in SUBSET (1..l)
  BY <1>1
<1>3. Stripped(line) = SubSeq(line, 1, k)
  BY DEF Stripped, CutBack, SelectLastInSeq
<1> HIDE DEF I
<1>2. k \in 0..l
  <2>1. CASE I = {}
    BY <2>1
  <2>2. CASE I # {}
    <3>1. \E x \in I : \A y \in I : x >= y
      <4> DEFINE J == {l - i : i \in I}
      <4>1. J \in SUBSET Nat /\ J # {}
        <5>1. ASSUME NEW i \in I PROVE l - i \in Nat
          <6>1. i \in 1..l
            BY <1>0
          <6>2. QED
            BY <6>1
        <5>2. QED
          BY <2>2, <5>1
      <4>2. PICK z \in J : \A y \in J : z =< y
        <5> HIDE DEF J
        <5>1. QED
          BY <4>1, LeastElement
      <4>3. PICK x \in I : z = l - x
        BY <4>2
      <4>4. ASSUME NEW y \in I PROVE x >= y
        <5>1. l - y \in J
          OBVIOUS
        <5>2. l - x =< l - y
          BY <4>2, <4>3, <5>1
        <5>3. x \in Int /\ y \in Int
          BY <1>0
        <5> HIDE DEF J
        <5>4. QED
          BY <5>2, <5>3
      <4>5. QED
        BY <4>4
    <3>2. Max(I) \in I
      BY <3>1 DEF Max
    <3>3. Max(I) \in 0..l
      <4>1. PICK m \in I : m = Max(I)
        BY <3>2
      <4>2. m \in 1..l
        BY <1>0
      <4>3. m \in 0..l
        BY <4>2
      <4>4. QED
        BY <4>1, <4>3
    <3>4. QED
      BY <2>2, <3>3
  <2>3. QED
    BY <2>1, <2>2
<1> HIDE DEF k
<1>4. \A i \in 1..k : line[i] \in S
  BY <1>1, <1>2, ElementOfSeq
<1>5. QED
  BY <1>2, <1>3, <1>4, SubSeqProperties

\* A turn takes a line, and leaves what is behind it.
LEMMA LineLoaded ==
  ASSUME LineMax \in Nat, LineMax > 1, NEW p \in Reads, p.rest # <<>>
  PROVE  /\ LoadLine(p) \in Reads /\ Len(LoadLine(p).rest) < Len(p.rest)
         /\ LoadLine(p).rest # <<>> => Last(LoadLine(p).rest) = Last(p.rest)
<1> DEFINE text == p.rest
           line == fgets(text)
<1>1. text \in Seq(Alphabet) /\ text # <<>> /\ p.items \in Seq(Items)
  BY DEF Reads
<1>0. PICK l \in Nat : l = Len(text)
  BY <1>1
<1>2. PICK n \in 1..l : l = Len(text) /\ Len(line) = n /\ line \in Seq(Alphabet)
  <2> HIDE DEF text
  <2>2. QED
    BY <1>0, <1>1, Taken
<1> HIDE DEF text, line
<1>3. /\ SubSeq(text, n + 1, l) \in Seq(Alphabet)
      /\ Len(SubSeq(text, n + 1, l)) = l - n
      /\ \A i \in 1..l - n : SubSeq(text, n + 1, l)[i] = text[n + i]
  <2>1. \A i \in n + 1..l : text[i] \in Alphabet
    <3>1. \A i \in n + 1..l : i \in 1..Len(text)
      BY <1>2
    <3>2. QED
      BY <1>1, <3>1, ElementOfSeq
  <2>2. PICK a \in Int : a = n + 1
    BY <1>2
  <2>3. /\ SubSeq(text, a, l) \in Seq(Alphabet)
        /\ Len(SubSeq(text, a, l)) = IF a =< l THEN l - a + 1 ELSE 0
        /\ \A i \in 1..l - a + 1 : SubSeq(text, a, l)[i] = text[a + i - 1]
    BY <2>1, <2>2, SubSeqProperties
  <2>4. l - a + 1 = l - n /\ (IF a =< l THEN l - a + 1 ELSE 0) = l - n
        /\ \A i \in 1..l - n : a + i - 1 = n + i
    BY <1>2, <2>2
  <2>5. QED
    BY <2>2, <2>3, <2>4
<1> DEFINE items == IF Skipped(line) THEN p.items ELSE Append(p.items, Item(Stripped(line)))
           rest == SubSeq(text, n + 1, l)
<1>4. LoadLine(p) = [items |-> items, rest |-> rest]
  BY <1>1, <1>2 DEF LoadLine, text, line
<1>5. items \in Seq(Items)
  <2>1. Item(Stripped(line)) \in Items
    BY <1>2, StrippedTyped DEF Items
  <2>2. QED
    BY <1>1, <2>1
<1>6. rest # <<>> => Last(rest) = Last(text)
  <2>1. SUFFICES ASSUME rest # <<>> PROVE Last(rest) = Last(text)
    OBVIOUS
  <2>2. l - n # 0
    BY <1>2, <1>3, <2>1, EmptySeq
  <2>3. rest[l - n] = text[l]
    <3>1. l - n \in 1..l - n /\ n + (l - n) = l
      BY <1>2, <2>2
    <3>2. QED
      BY <1>3, <3>1
  <2>4. QED
    BY <1>2, <1>3, <2>3 DEF Last
<1> HIDE DEF items, rest
<1>7. QED
  BY <1>2, <1>3, <1>4, <1>5, <1>6 DEF Reads, rest, text

\* The turns of Load on a text.
Turns(f, text) ==
  /\ f \in [0..Len(text) -> Reads]
  /\ f[0] = [items |-> <<>>, rest |-> text]
  /\ \A k \in 1..Len(text) : f[k] = LoadLine(f[k - 1])
  /\ f[Len(text)].rest = <<>>

\* Load is made of them, and they come to the end of the text.
LEMMA Loaded ==
  ASSUME LineMax \in Nat, LineMax > 1, NEW text \in Seq(Alphabet)
  PROVE  \E f : Turns(f, text) /\ Load(text) = f[Len(text)].items
<1>1. PICK n \in Nat : n = Len(text)
  BY LenProperties
<1> DEFINE base == [items |-> <<>>, rest |-> text]
           Body(f, k) == IF k = 0 THEN base ELSE LoadLine(f[k - 1])
           g == [x \in (1..n) \X Reads |-> LoadLine(x[2])]
<1>2. base \in Reads
  BY EmptySeq DEF Reads
<1>3. ASSUME NEW p \in Reads PROVE LoadLine(p) \in Reads
  <2>1. CASE p.rest = <<>>
    BY <2>1 DEF LoadLine
  <2>2. CASE p.rest # <<>>
    BY <2>2, LineLoaded
  <2>3. QED
    BY <2>1, <2>2
<1>4. g \in [(1..n) \X Reads -> Reads]
  BY <1>3
<1>5. PICK f \in [0..n -> Reads] : f[0] = base /\ \A k \in 1..n : f[k] = LoadLine(f[k - 1])
  <2> HIDE DEF base
  <2>1. PICK f \in [0..n -> Reads] : Repeats(f, g, base, n)
    <3> HIDE DEF g
    <3>1. QED
      BY <1>2, <1>4, Repeated
  <2>2. ASSUME NEW k \in 1..n PROVE g[<<k, f[k - 1]>>] = LoadLine(f[k - 1])
    <3>1. f[k - 1] \in Reads
      BY <2>1
    <3>2. QED
      BY <3>1
  <2>3. QED
    BY <2>1, <2>2 DEF Repeats
<1>6. f = [k \in 0..n |-> Body(f, k)]
  <2>1. ASSUME NEW k \in 0..n PROVE f[k] = Body(f, k)
    <3>1. k # 0 => k \in 1..n
      OBVIOUS
    <3>2. QED
      BY <1>5, <3>1
  <2> HIDE DEF Body
  <2>2. QED
    BY <1>5, <2>1
<1> DEFINE h == CHOOSE e : e = [k \in 0..n |-> Body(e, k)]
<1>7. h = [k \in 0..n |-> Body(h, k)]
  <2> HIDE DEF Body
  <2>1. QED
    BY <1>6
<1>8. Load(text) = h[n].items
  BY <1>1 DEF Load
<1> HIDE DEF h
<1>9. h[0] = base /\ \A k \in 1..n : h[k] = LoadLine(h[k - 1])
  BY <1>7
<1> DEFINE good == {k \in Nat : k =< n => h[k] = f[k] /\ Len(h[k].rest) \in Nat /\ Len(h[k].rest) =< n - k}
<1>10. 0 \in good
  BY <1>1, <1>5, <1>9
<1>11. ASSUME NEW k \in Nat, k \in good PROVE k + 1 \in good
  <2>1. SUFFICES ASSUME k + 1 =< n
        PROVE  h[k + 1] = f[k + 1] /\ Len(h[k + 1].rest) \in Nat /\ Len(h[k + 1].rest) =< n - (k + 1)
    OBVIOUS
  <2>2. PICK j \in 1..n : j = k + 1 /\ j - 1 = k /\ k \in 0..n
    BY <2>1
  <2>3. h[k] = f[k] /\ h[j] = LoadLine(h[k]) /\ f[j] = LoadLine(f[k]) /\ h[k] \in Reads
        /\ Len(h[k].rest) \in Nat /\ Len(h[k].rest) =< n - k
    <3>1. k =< n
      BY <2>2
    <3>2. h[k] = f[k] /\ Len(h[k].rest) \in Nat /\ Len(h[k].rest) =< n - k
      BY <1>11, <3>1
    <3>3. h[j] = LoadLine(h[k]) /\ f[j] = LoadLine(f[k]) /\ f[k] \in Reads
      BY <1>5, <1>9, <2>2
    <3>4. QED
      BY <3>2, <3>3
  <2>4. h[j] = f[j] /\ h[j] \in Reads /\ Len(h[j].rest) \in Nat
    BY <1>3, <2>3, LenProperties DEF Reads
  <2>5. Len(h[j].rest) =< n - j
    <3>1. CASE h[k].rest = <<>>
      BY <2>2, <2>3, <3>1, EmptySeq DEF LoadLine
    <3>2. CASE h[k].rest # <<>>
      <4>1. Len(h[j].rest) < Len(h[k].rest)
        BY <2>3, <3>2, LineLoaded
      <4>2. QED
        BY <2>2, <2>3, <2>4, <4>1
    <3>3. QED
      BY <3>1, <3>2
  <2>6. QED
    BY <2>2, <2>4, <2>5
<1>12. n \in good
  <2> HIDE DEF good
  <2>1. Nat \subseteq good
    BY <1>10, <1>11, Induction
  <2>2. QED
    BY <2>1
<1>13. h[n] = f[n] /\ f[n].rest = <<>>
  <2>1. h[n] = f[n] /\ Len(f[n].rest) = 0 /\ f[n] \in Reads
    BY <1>5, <1>12
  <2>2. QED
    BY <2>1, EmptySeq DEF Reads
<1>14. QED
  BY <1>1, <1>5, <1>8, <1>13 DEF Turns

Closed(text) == text # <<>> => Last(text) = "\n"

\* The first line of what is closed is the same whatever comes after it.
LEMMA LinesBefore ==
  ASSUME LineMax \in Nat, LineMax > 1, NEW text \in Seq(Alphabet), text # <<>>, Closed(text),
         NEW more \in Seq(Alphabet)
  PROVE  fgets(text \o more) = fgets(text)
<1>1. PICK u \in Seq(Alphabet) : u = text \o more /\ Pieces(u, text, more)
  BY InPieces
<1>2. PICK l \in Nat : l = Len(text) /\ l # 0 /\ text[l] = "\n" /\ l \in 1..l
  BY LenProperties, EmptySeq DEF Closed, Last
<1>3. Len(u) >= l /\ Len(u) \in Nat /\ u # <<>> /\ \A i \in 1..l : u[i] = text[i]
  <2>1. Len(u) >= l /\ Len(u) \in Nat /\ \A i \in 1..l : u[i] = text[i]
    BY <1>1, <1>2 DEF Pieces
  <2>2. QED
    BY <1>2, <2>1, EmptySeq
<1>4. "\n" \in ToSet(text) /\ "\n" \in ToSet(u)
  <2>1. l \in DOMAIN text /\ l \in DOMAIN u /\ u[l] = "\n"
    BY <1>2, <1>3, LenProperties
  <2>2. QED
    BY <1>2, <2>1 DEF ToSet
<1>5. PICK k \in 1..l : k = strchr(text, "\n") /\ text[k] = "\n" /\ \A j \in 1..k - 1 : text[j] # "\n"
  BY <1>2, <1>4, StrchrFinds, ZenonT(40)
<1>6. strchr(u, "\n") = k
  <2>1. k \in 1..Len(u) /\ u[k] = "\n"
    BY <1>3, <1>5
  <2>2. \A j \in 1..k - 1 : j \in 1..l
    BY <1>5
  <2>3. \A j \in 1..k - 1 : u[j] # "\n"
    BY <1>3, <1>5, <2>2
  <2>4. QED
    BY <2>1, <2>3, FirstAt
<1>7. PICK m \in 1..l : m = (IF LineMax - 1 =< k THEN LineMax - 1 ELSE k) /\ fgets(text) = SubSeq(text, 1, m)
  BY <1>2, <1>4, <1>5, Taken
<1>8. fgets(u) = SubSeq(u, 1, m)
  BY <1>3, <1>4, <1>6, <1>7, Taken
<1>9. SubSeq(u, 1, m) = SubSeq(text, 1, m)
  <2>1. \A i \in 1..m : i \in 1..l /\ i \in 1..Len(u)
    BY <1>3, <1>7
  <2>2. \A i \in 1..m : u[i] \in Alphabet /\ text[i] \in Alphabet /\ u[i] = text[i]
    BY <1>2, <1>3, <2>1, ElementOfSeq
  <2>3. /\ SubSeq(u, 1, m) \in Seq(Alphabet) /\ Len(SubSeq(u, 1, m)) = m
        /\ \A i \in 1..m : SubSeq(u, 1, m)[i] = u[i]
    BY <2>2, SubSeqProperties
  <2>4. /\ SubSeq(text, 1, m) \in Seq(Alphabet) /\ Len(SubSeq(text, 1, m)) = m
        /\ \A i \in 1..m : SubSeq(text, 1, m)[i] = text[i]
    BY <2>2, SubSeqProperties
  <2>5. QED
    BY <2>2, <2>3, <2>4, SeqEqual
<1>10. QED
  BY <1>1, <1>7, <1>8, <1>9

\* With more behind it a turn does the same and keeps what is behind.
LEMMA TurnBefore ==
  ASSUME LineMax \in Nat, LineMax > 1, NEW p \in Reads, p.rest # <<>>, Closed(p.rest),
         NEW more \in Seq(Alphabet)
  PROVE  LoadLine([items |-> p.items, rest |-> p.rest \o more])
           = [items |-> LoadLine(p).items, rest |-> LoadLine(p).rest \o more]
<1> DEFINE text == p.rest
           line == fgets(text)
<1>1. text \in Seq(Alphabet) /\ text # <<>> /\ Closed(text)
  BY DEF Reads
<1>2. PICK l \in Nat : l = Len(text)
  BY <1>1, LenProperties
<1>3. PICK n \in 1..l : Len(line) = n /\ line \in Seq(Alphabet)
  <2> HIDE DEF text
  <2>1. QED
    BY <1>1, <1>2, Taken
<1>4. PICK u \in Seq(Alphabet) : u = text \o more /\ Pieces(u, text, more)
  <2> HIDE DEF text
  <2>1. QED
    BY <1>1, InPieces
<1>5. fgets(u) = line
  <2> HIDE DEF text
  <2>1. QED
    BY <1>1, <1>4, LinesBefore DEF line
<1> HIDE DEF text, line
<1>6. PICK k \in Nat : k = Len(more) /\ Len(u) = l + k /\ u # <<>>
  <2>1. PICK k \in Nat : k = Len(more) /\ Len(u) = l + k
    BY <1>2, <1>4 DEF Pieces
  <2>2. l # 0
    BY <1>3
  <2>3. Len(u) # 0
    BY <2>1, <2>2
  <2>4. u # <<>>
    BY <2>3
  <2>5. QED
    BY <2>1, <2>4
<1>7. SubSeq(u, n + 1, l + k) = SubSeq(text, n + 1, l) \o more
  <2>1. n + 1 \in 1..Len(u) + 1 /\ l \in n + 1 - 1..Len(u) /\ l + k \in l..Len(u)
    BY <1>3, <1>6
  <2>2. SubSeq(u, n + 1, l) \o SubSeq(u, l + 1, l + k) = SubSeq(u, n + 1, l + k)
    BY <2>1, ConcatAdjacentSubSeq
  <2>3. SubSeq(u, l + 1, l + k) = more
    BY <1>2, <1>4, <1>6 DEF Pieces
  <2>4. SubSeq(u, n + 1, l) = SubSeq(text, n + 1, l)
    <3>1. CASE n = l
      <4>1. n + 1 > l /\ n + 1 \in Int
        BY <3>1
      <4>2. QED
        BY <4>1, SubSeqEmpty
    <3>2. CASE n # l
      <4>1. n + 1 \in 1..Len(text) /\ l \in 1..Len(text)
        BY <1>2, <1>3, <3>2
      <4>2. QED
        BY <1>1, <1>4, <4>1, SubSeqOfConcat1
    <3>3. QED
      BY <3>1, <3>2
  <2>5. QED
    BY <2>2, <2>3, <2>4
<1> DEFINE items == IF Skipped(line) THEN p.items ELSE Append(p.items, Item(Stripped(line)))
           q == [items |-> p.items, rest |-> u]
<1>8. LoadLine(p) = [items |-> items, rest |-> SubSeq(text, n + 1, l)]
  BY <1>1, <1>2, <1>3 DEF LoadLine, text, line
<1>9. LoadLine(q) = [items |-> items, rest |-> SubSeq(u, n + 1, l + k)]
  <2>1. q.rest = u /\ q.items = p.items
    OBVIOUS
  <2> HIDE DEF q
  <2>2. LoadLine(q) = [items |-> IF Skipped(fgets(u)) THEN p.items ELSE Append(p.items, Item(Stripped(fgets(u)))),
                       rest |-> SubSeq(u, Len(fgets(u)) + 1, Len(u))]
    BY <1>6, <2>1 DEF LoadLine
  <2>3. QED
    BY <1>3, <1>5, <1>6, <2>2
<1> HIDE DEF items
<1>10. LoadLine(q) = [items |-> LoadLine(p).items, rest |-> LoadLine(p).rest \o more]
  <2>1. LoadLine(p).items = items /\ LoadLine(p).rest = SubSeq(text, n + 1, l)
    BY <1>8
  <2>2. LoadLine(q) = [items |-> items, rest |-> SubSeq(text, n + 1, l) \o more]
    BY <1>7, <1>9, Zenon
  <2> HIDE DEF q
  <2>3. QED
    BY <2>1, <2>2, Zenon
<1>11. QED
  BY <1>4, <1>10 DEF text

\* A line put behind a closed text is read after it.
LEMMA LoadAppends ==
  ASSUME LineMax \in Nat, LineMax > 1, NEW text \in Seq(Alphabet), Closed(text),
         NEW line \in Seq(Alphabet), line # <<>>, fgets(line) = line
  PROVE  Load(text \o line) = IF Skipped(line) THEN Load(text)
                              ELSE Append(Load(text), Item(Stripped(line)))
<1>1. PICK u \in Seq(Alphabet) : u = text \o line /\ Pieces(u, text, line)
  BY InPieces
<1>2. PICK n \in Nat, l \in Nat : n = Len(text) /\ l = Len(line) /\ l # 0
  BY LenProperties, EmptySeq
<1>3. Len(u) = n + l
  BY <1>1, <1>2 DEF Pieces
<1>4. PICK f : Turns(f, text) /\ Load(text) = f[n].items
  BY <1>2, Loaded
<1>5. PICK g : Turns(g, u) /\ Load(u) = g[n + l].items
  BY <1>3, Loaded
<1>6. PICK m \in 0..n : f[m].rest = <<>> /\ \A k \in 0..n : k < m => f[k].rest # <<>>
  <2> DEFINE J == {k \in 0..n : f[k].rest = <<>>}
  <2>1. n \in J /\ J \in SUBSET Nat
    BY <1>2, <1>4 DEF Turns
  <2>2. PICK m \in J : \A y \in J : m =< y
    <3> HIDE DEF J
    <3>1. QED
      BY <2>1, LeastElement
  <2>3. \A k \in 0..n : k < m => k \notin J
    <3>1. m \in Nat
      BY <2>1
    <3> HIDE DEF J
    <3>2. QED
      BY <2>2, <3>1
  <2>4. QED
    BY <2>2, <2>3
<1>7. \A k \in 0..n : f[k] \in Reads
  BY <1>2, <1>4 DEF Turns
<1> DEFINE Ahead(p) == [items |-> p.items, rest |-> p.rest \o line]
           good == {k \in Nat : k =< m => g[k] = Ahead(f[k]) /\ Closed(f[k].rest)}
<1>8. 0 \in good
  <2>1. f[0] = [items |-> <<>>, rest |-> text] /\ g[0] = [items |-> <<>>, rest |-> u]
    BY <1>4, <1>5 DEF Turns
  <2>2. f[0].rest = text /\ f[0].items = <<>>
    BY <2>1
  <2>3. g[0] = Ahead(f[0])
    BY <1>1, <2>1, <2>2, Zenon
  <2> HIDE DEF Ahead
  <2>4. QED
    BY <2>2, <2>3
<1>9. ASSUME NEW k \in Nat, k \in good PROVE k + 1 \in good
  <2>1. SUFFICES ASSUME k + 1 =< m PROVE g[k + 1] = Ahead(f[k + 1]) /\ Closed(f[k + 1].rest)
    OBVIOUS
  <2>2. PICK j \in 1..n : j = k + 1 /\ j - 1 = k /\ k \in 0..n /\ k < m /\ j \in 1..n + l
    BY <2>1
  <2>3. g[k] = Ahead(f[k]) /\ Closed(f[k].rest) /\ f[k].rest # <<>> /\ f[k] \in Reads
    BY <1>6, <1>7, <1>9, <2>2
  <2>4. f[j] = LoadLine(f[k]) /\ g[j] = LoadLine(g[k])
    BY <1>2, <1>3, <1>4, <1>5, <2>2 DEF Turns
  <2>5. LoadLine(Ahead(f[k])) = Ahead(LoadLine(f[k]))
    BY <2>3, TurnBefore
  <2>6. Closed(LoadLine(f[k]).rest)
    BY <2>3, LineLoaded DEF Closed
  <2> HIDE DEF Ahead
  <2>7. QED
    BY <2>2, <2>3, <2>4, <2>5, <2>6
<1>10. g[m] = Ahead(f[m])
  <2>1. Nat \subseteq good
    <3> HIDE DEF good
    <3>1. QED
      BY <1>8, <1>9, Induction
  <2>2. m \in Nat /\ m =< m
    OBVIOUS
  <2>3. m \in good
    <3> HIDE DEF good
    <3>1. QED
      BY <2>1, <2>2
  <2> HIDE DEF Ahead
  <2>4. QED
    BY <2>2, <2>3
<1>11. f[m].rest = <<>> /\ <<>> \o line = line
  BY <1>6, ConcatEmptySeq
<1>12. g[m] = [items |-> f[m].items, rest |-> line]
  BY <1>10, <1>11
<1>13. PICK j \in 1..n + l : j = m + 1 /\ j - 1 = m
  BY <1>2
<1> DEFINE items == IF Skipped(line) THEN f[m].items ELSE Append(f[m].items, Item(Stripped(line)))
<1>14. g[j].rest = <<>> /\ g[j].items = items
  <2>1. g[j] = LoadLine(g[m])
    BY <1>3, <1>5, <1>13 DEF Turns
  <2>2. g[m].rest = line /\ g[m].items = f[m].items
    BY <1>12
  <2>3. SubSeq(line, l + 1, l) = <<>>
    BY SubSeqEmpty
  <2>4. LoadLine(g[m]) = [items |-> items, rest |-> SubSeq(line, l + 1, l)]
    BY <1>2, <2>2 DEF LoadLine
  <2> HIDE DEF items
  <2>5. QED
    BY <2>1, <2>3, <2>4
<1> HIDE DEF items
<1> DEFINE still == {k \in Nat : k >= m /\ k =< n => f[k] = f[m]}
           over == {k \in Nat : k >= j /\ k =< n + l => g[k] = g[j]}
<1>15. 0 \in still /\ 0 \in over
  <2>1. 0 >= m => m = 0
    OBVIOUS
  <2>2. ~(0 >= j)
    OBVIOUS
  <2>3. QED
    BY <2>1, <2>2
<1>16. ASSUME NEW k \in Nat, k \in still PROVE k + 1 \in still
  <2>1. SUFFICES ASSUME k + 1 >= m, k + 1 =< n PROVE f[k + 1] = f[m]
    OBVIOUS
  <2>2. CASE k + 1 = m
    BY <2>2
  <2>3. CASE k + 1 # m
    <3>1. PICK i \in 1..n : i = k + 1 /\ i - 1 = k /\ k >= m /\ k =< n
      BY <2>1, <2>3
    <3>2. f[i] = LoadLine(f[k]) /\ f[k] = f[m]
      BY <1>2, <1>4, <1>16, <3>1 DEF Turns
    <3>3. QED
      BY <1>6, <3>1, <3>2 DEF LoadLine
  <2>4. QED
    BY <2>2, <2>3
<1>17. ASSUME NEW k \in Nat, k \in over PROVE k + 1 \in over
  <2>1. SUFFICES ASSUME k + 1 >= j, k + 1 =< n + l PROVE g[k + 1] = g[j]
    OBVIOUS
  <2>2. CASE k + 1 = j
    BY <2>2
  <2>3. CASE k + 1 # j
    <3>1. PICK i \in 1..n + l : i = k + 1 /\ i - 1 = k /\ k >= j /\ k =< n + l
      BY <2>1, <2>3
    <3>2. g[i] = LoadLine(g[k]) /\ g[k] = g[j]
      BY <1>3, <1>5, <1>17, <3>1 DEF Turns
    <3>3. QED
      BY <1>14, <3>1, <3>2 DEF LoadLine
  <2>4. QED
    BY <2>2, <2>3
<1>18. f[n] = f[m] /\ g[n + l] = g[j]
  <2>1. Nat \subseteq still /\ Nat \subseteq over
    <3> HIDE DEF still, over
    <3>1. QED
      BY <1>15, <1>16, <1>17, Induction
  <2>2. n \in still /\ n + l \in over /\ n >= m /\ n =< n /\ n + l >= j /\ n + l =< n + l
    BY <2>1
  <2>3. QED
    BY <2>2
<1>19. QED
  BY <1>1, <1>4, <1>5, <1>14, <1>18 DEF items

-----------------------------------------------------------------------------

\* The characters of one piece and of none.
LEMMA OneCharacter ==
  ASSUME NEW c \in Alphabet
  PROVE  /\ <<c>> \in Seq(Alphabet) /\ <<c>> # <<>> /\ ToSet(<<c>>) = {c}
         /\ Head(<<c>>) = c /\ Last(<<c>>) = c /\ ToSet(<<>>) = {} /\ <<>> \in Seq(Alphabet)
  BY DEF ToSet, Last

\* What is said of two pieces, here for the characters of a file.
LEMMA Glue ==
  ASSUME NEW s \in Seq(Alphabet), NEW t \in Seq(Alphabet)
  PROVE  /\ s \o t \in Seq(Alphabet) /\ ToSet(s \o t) = ToSet(s) \cup ToSet(t)
         /\ s # <<>> => (Head(s \o t) = Head(s) /\ s \o t # <<>>)
         /\ t # <<>> => (Last(s \o t) = Last(t) /\ s \o t # <<>>)
         /\ Len(s \o t) = Len(s) + Len(t)
         /\ SubSeq(s \o t, 1, Len(s)) = s
         /\ SubSeq(s \o t, Len(s) + 1, Len(s \o t)) = t
<1>1. s \o t \in Seq(Alphabet) /\ Pieces(s \o t, s, t)
  BY InPieces
<1>2. /\ ToSet(s \o t) = ToSet(s) \cup ToSet(t)
      /\ s # <<>> => (Head(s \o t) = Head(s) /\ s \o t # <<>>)
      /\ t # <<>> => (Last(s \o t) = Last(t) /\ s \o t # <<>>)
  BY Ends2
<1>3. QED
  BY <1>1, <1>2 DEF Pieces

\* Pieces may be put together in any order.
LEMMA Glue3 ==
  ASSUME NEW s \in Seq(Alphabet), NEW t \in Seq(Alphabet), NEW u \in Seq(Alphabet)
  PROVE  (s \o t) \o u = s \o (t \o u)
  BY ConcatAssociative

\* The first and the last of some characters.
LEMMA EndsOf ==
  ASSUME NEW s \in Seq(Alphabet), s # <<>>
  PROVE  Head(s) = s[1] /\ Head(s) \in ToSet(s) /\ Last(s) \in ToSet(s)
<1>1. Head(s) = s[1] /\ Last(s) = s[Len(s)] /\ Len(s) \in Nat \ {0}
  BY Ends2
<1>2. DOMAIN s = 1..Len(s) /\ 1 \in 1..Len(s) /\ Len(s) \in 1..Len(s)
  BY <1>1, LenProperties
<1>3. QED
  BY <1>1, <1>2 DEF ToSet

\* Nothing put to it changes a text.
LEMMA GlueNothing ==
  ASSUME NEW s \in Seq(Alphabet)
  PROVE  s \o <<>> = s /\ <<>> \o s = s
  BY ConcatEmptySeq

\* What is read in the line of a setting, whatever blanks there are around the '=' and
\* at its end.
Told(s) == [ItemName |-> s[1], ItemContent |-> s[2]]

\* Which characters are blank, which begin no name, and which a file needs.
Gap == {" "}
Blank == {"\n", "\r", " "}
NoFirst == {";", " ", "#", "\t", "["}
HasMarks == {"=", " ", "\r", "\n"} \subseteq Alphabet

LEMMA Marks ==
  /\ HasMarks => "=" \in Alphabet /\ "\n" \in Alphabet /\ Gap \subseteq Alphabet
                 /\ {"\r"} \cup Gap \subseteq Alphabet
  /\ Gap \subseteq Blank /\ "=" \notin Blank /\ "=" \notin Gap /\ "\n" \notin Gap /\ Gap \subseteq NoFirst
  BY Zenon DEF Gap, Blank, NoFirst, HasMarks

LEMMA SettingRead ==
  ASSUME HasMarks,
         NEW n, NEW v, IsName(n), IsValue(v), NEW sp \in Seq(Gap), Len(n \o sp) < ItemNameSize,
         NEW end \in Seq(Alphabet), ToSet(end) \subseteq Blank
  PROVE  LET line == n \o sp \o <<"=">> \o sp \o v \o end
         IN /\ line \in Seq(Alphabet) /\ line # <<>> /\ ~Skipped(line)
            /\ Item(Stripped(line)) = [ItemName |-> n, ItemContent |-> v]
<1> DEFINE eq == <<"=">>
           w == IF v = <<>> THEN <<>> ELSE sp \o v
           x == (n \o sp) \o (eq \o w)
           tail == IF v = <<>> THEN sp \o end ELSE end
           line == n \o sp \o eq \o sp \o v \o end
<1>1. /\ n \in Seq(Alphabet) /\ n # <<>> /\ v \in Seq(Alphabet) /\ sp \in Seq(Alphabet)
      /\ "=" \notin ToSet(n) /\ "\n" \notin ToSet(n) /\ "\n" \notin ToSet(v)
      /\ Head(n) \notin NoFirst /\ Last(n) \notin Gap
      /\ v # <<>> => (Head(v) \notin Gap /\ Last(v) \notin {"\r"} \cup Gap)
      /\ ToSet(sp) \subseteq Gap
  <2>1. /\ n \in Seq(Alphabet) /\ n # <<>> /\ "=" \notin ToSet(n) /\ "\n" \notin ToSet(n)
        /\ Head(n) \notin NoFirst /\ Last(n) \notin Gap
    BY DEF IsName, Gap, NoFirst
  <2>2. /\ v \in Seq(Alphabet) /\ "\n" \notin ToSet(v)
        /\ v # <<>> => (Head(v) \notin Gap /\ Last(v) \notin {"\r"} \cup Gap)
    BY DEF IsValue, Gap
  <2>3. sp \in Seq(Alphabet) /\ ToSet(sp) \subseteq Gap
    <3>1. ToSet(sp) \subseteq Gap /\ \A i \in 1..Len(sp) : sp[i] \in Gap
      BY OfSet, ElementOfSeq
    <3>2. sp = [i \in 1..Len(sp) |-> sp[i]] /\ Len(sp) \in Nat /\ Gap \subseteq Alphabet
      BY LenProperties, Marks
    <3>3. sp \in [1..Len(sp) -> Alphabet]
      BY <3>1, <3>2
    <3>4. QED
      BY <3>1, <3>2, <3>3, SeqDef
  <2>4. QED
    BY <2>1, <2>2, <2>3
<1>2. /\ eq \in Seq(Alphabet) /\ eq # <<>> /\ ToSet(eq) = {"="} /\ Head(eq) = "=" /\ Last(eq) = "="
      /\ <<>> \in Seq(Alphabet) /\ ToSet(<<>>) = {}
  BY OneCharacter, Marks
<1> HIDE DEF eq
<1>3. /\ n \o sp \in Seq(Alphabet) /\ ToSet(n \o sp) = ToSet(n) \cup ToSet(sp) /\ n \o sp # <<>>
      /\ Head(n \o sp) = Head(n) /\ Head(n) = n[1] /\ Head(n) \in ToSet(n)
  BY <1>1, Glue, EndsOf
<1>4. w \in Seq(Alphabet) /\ (w # <<>> => v # <<>> /\ Last(w) = Last(v))
  <2>1. v # <<>> => (sp \o v \in Seq(Alphabet) /\ Last(sp \o v) = Last(v))
    BY <1>1, Glue
  <2>2. QED
    BY <1>2, <2>1
<1>5. w = <<>> => v = <<>>
  <2>1. v # <<>> => sp \o v # <<>>
    BY <1>1, Glue
  <2>2. QED
    BY <2>1
<1>6. tail \in Seq(Alphabet) /\ ToSet(tail) \subseteq Blank
  <2>1. sp \o end \in Seq(Alphabet) /\ ToSet(sp \o end) = ToSet(sp) \cup ToSet(end)
    BY <1>1, Glue
  <2>2. QED
    BY <1>1, <2>1, Marks
<1>7. /\ eq \o w \in Seq(Alphabet) /\ eq \o w # <<>> /\ "=" \in ToSet(eq \o w)
      /\ w # <<>> => Last(eq \o w) = Last(w)
  <2> HIDE DEF w
  <2>1. QED
    BY <1>2, <1>4, Glue
<1>8. w = <<>> => Last(eq \o w) = "="
  BY <1>2, GlueNothing
<1>9. Last(eq \o w) \notin Blank
  <2>1. CASE w = <<>>
    BY <1>8, <2>1, Marks
  <2>2. CASE w # <<>>
    <3>1. Last(v) # "\n"
      <4>1. Last(v) \in ToSet(v)
        BY <1>1, <1>4, <2>2, EndsOf
      <4>2. QED
        BY <1>1, <4>1
    <3>2. QED
      BY <1>1, <1>4, <1>7, <2>2, <3>1 DEF Blank, Gap
  <2>3. QED
    BY <2>1, <2>2
<1>10. /\ x \in Seq(Alphabet) /\ x # <<>> /\ Last(x) \notin Blank /\ Head(x) = Head(n) /\ "=" \in ToSet(x)
  <2> DEFINE y == eq \o w
             z == n \o sp
  <2>1. y \in Seq(Alphabet) /\ y # <<>> /\ z \in Seq(Alphabet) /\ z # <<>> /\ Head(z) = Head(n)
        /\ Last(y) \notin Blank /\ "=" \in ToSet(y)
    BY <1>3, <1>7, <1>9
  <2> HIDE DEF y, z
  <2>2. z \o y \in Seq(Alphabet) /\ z \o y # <<>> /\ Last(z \o y) = Last(y) /\ Head(z \o y) = Head(z)
        /\ ToSet(z \o y) = ToSet(z) \cup ToSet(y)
    BY <2>1, Glue
  <2>3. z \o y \in Seq(Alphabet) /\ z \o y # <<>> /\ Last(z \o y) \notin Blank /\ Head(z \o y) = Head(n)
        /\ "=" \in ToSet(z \o y)
    BY <2>1, <2>2
  <2>4. QED
    BY <2>3 DEF y, z
<1>11. line = x \o tail
  <2>1. /\ n \o sp \o eq = (n \o sp) \o eq /\ (n \o sp) \o eq \in Seq(Alphabet)
    BY <1>2, <1>3, Glue
  <2>2. CASE v = <<>>
    <3>1. (n \o sp \o eq \o sp) \in Seq(Alphabet)
      BY <1>1, <2>1, Glue
    <3>2. line = (((n \o sp) \o eq) \o sp) \o end
      BY <2>2, <3>1, GlueNothing
    <3>3. (((n \o sp) \o eq) \o sp) \o end = ((n \o sp) \o eq) \o (sp \o end)
      BY <1>1, <2>1, Glue3, ZenonT(40)
    <3>4. x = (n \o sp) \o eq
      BY <1>2, <2>2, GlueNothing
    <3>5. QED
      BY <2>2, <3>2, <3>3, <3>4
  <2>3. CASE v # <<>>
    <3>1. (((n \o sp) \o eq) \o sp) \o v = ((n \o sp) \o eq) \o (sp \o v)
      BY <1>1, <2>1, Glue3, ZenonT(40)
    <3>2. ((n \o sp) \o eq) \o (sp \o v) = (n \o sp) \o (eq \o (sp \o v))
      <4>1. sp \o v \in Seq(Alphabet)
        BY <1>1, Glue
      <4>2. QED
        BY <1>2, <1>3, <4>1, Glue3, ZenonT(40)
    <3>3. QED
      BY <2>3, <3>1, <3>2
  <2>4. QED
    BY <2>2, <2>3
<1> HIDE DEF w, x, tail, line
<1>12. Stripped(line) = x
  BY <1>6, <1>10, <1>11, BackCut DEF Stripped, Blank
<1>13. line \in Seq(Alphabet) /\ line # <<>> /\ Head(line) = Head(n) /\ line[1] = Head(line)
  BY <1>6, <1>10, <1>11, Glue, EndsOf
<1>14. ~Skipped(line)
  <2>1. Head(n) # "\n"
    BY <1>1, <1>3
  <2>2. QED
    BY <1>1, <1>10, <1>12, <1>13, <2>1 DEF Skipped, Comment, NoFirst
<1>15. strchr(x, "=") = Len(n \o sp) + 1
  <2>1. "=" \notin ToSet(n \o sp) /\ "=" \in Alphabet
    BY <1>1, <1>3, Marks
  <2>2. strchr((n \o sp) \o (eq \o w), "=") = Len(n \o sp) + 1
    BY <1>3, <1>4, <2>1, CharacterFound DEF eq
  <2>3. QED
    BY <2>2 DEF x
<1>16. PICK k \in Nat : k = Len(n \o sp)
  BY <1>3, LenProperties
<1>17. SubSeq(x, 1, (k + 1) - 1) = n \o sp
  <2>1. SubSeq(x, 1, k) = n \o sp
    BY <1>3, <1>7, <1>16, Glue DEF x
  <2>2. (k + 1) - 1 = k
    BY <1>16
  <2>3. QED
    BY <2>1, <2>2
<1>18. SubSeq(x, (k + 1) + 1, Len(x)) = w
  <2>1. (n \o sp) \o eq \in Seq(Alphabet) /\ Len((n \o sp) \o eq) = k + 1
    <3>1. Len(eq) = 1
      BY DEF eq
    <3>2. Len((n \o sp) \o eq) = Len(n \o sp) + Len(eq) /\ (n \o sp) \o eq \in Seq(Alphabet)
      BY <1>2, <1>3, Glue
    <3>3. QED
      BY <1>16, <3>1, <3>2
  <2>2. x = ((n \o sp) \o eq) \o w
    BY <1>2, <1>3, <1>4, Glue3, ZenonT(40) DEF x
  <2>3. QED
    <3>1. PICK u \in Seq(Alphabet) : u = (n \o sp) \o eq /\ Len(u) = k + 1
      BY <2>1
    <3>2. SubSeq(u \o w, Len(u) + 1, Len(u \o w)) = w
      BY <1>4, Glue
    <3>3. QED
      BY <2>2, <3>1, <3>2
<1>19. Ltrim(Rtrim(n \o sp)) = n
  <2>1. Rtrim(n \o sp) = n
    BY <1>1, BackCut DEF Rtrim, Gap
  <2>2. <<>> \o n = n
    BY <1>1, GlueNothing
  <2>3. CutFront(<<>> \o n, Gap) = n
    <3>1. Head(n) \notin Gap
      BY <1>1, Marks
    <3>2. QED
      BY <1>1, <1>2, <3>1, FrontCut
  <2>4. QED
    BY <2>1, <2>2, <2>3 DEF Ltrim, Gap
<1>20. Ltrim(Rtrim(w)) = v
  <2>1. w \o <<>> = w
    BY <1>4, GlueNothing
  <2>2. w # <<>> => Last(w) \notin Gap
    BY <1>1, <1>4
  <2>3. Rtrim(w) = w
    <3>1. CutBack(w \o <<>>, Gap) = w
      BY <1>2, <1>4, <2>2, BackCut
    <3>2. QED
      BY <2>1, <3>1 DEF Rtrim, Gap
  <2>4. CASE v = <<>>
    <3>1. w = <<>> /\ <<>> \o <<>> = <<>>
      BY <1>2, <2>4, GlueNothing DEF w
    <3>2. CutFront(<<>> \o <<>>, Gap) = <<>>
      BY <1>2, FrontCut
    <3>3. QED
      BY <2>3, <2>4, <3>1, <3>2 DEF Ltrim, Gap
  <2>5. CASE v # <<>>
    <3>1. CutFront(sp \o v, Gap) = v
      BY <1>1, <2>5, FrontCut
    <3>2. QED
      BY <2>3, <2>5, <3>1 DEF Ltrim, Gap, w
  <2>6. QED
    BY <2>4, <2>5
<1>21. Item(x) = [ItemName |-> n, ItemContent |-> v]
  <2>1. strchr(x, "=") = k + 1
    BY <1>15, <1>16
  <2>2. Stored(n \o sp, v) = n \o sp
    BY DEF Stored
  <2>3. QED
    BY <1>17, <1>18, <1>19, <1>20, <2>1, <2>2 DEF Item
<1>22. QED
  BY <1>12, <1>13, <1>14, <1>21 DEF line, eq

\* A line without its end, and with it.
LEMMA LineEnded ==
  ASSUME NEW y \in Seq(Alphabet), "\n" \notin ToSet(y), NEW end \in Seq(Alphabet), IsLine(end)
  PROVE  IsLine(y \o end)
<1>1. end # <<>> /\ Last(end) = "\n" /\ "\n" \notin ToSet(Front(end))
  BY DEF IsLine
<1>2. PICK m \in Nat, n \in Nat : m = Len(y) /\ n = Len(end) /\ n # 0
  BY <1>1, LenProperties, EmptySeq
<1>3. PICK u \in Seq(Alphabet) : u = y \o end /\ Pieces(u, y, end) /\ Len(u) = m + n
  <2>1. y \o end \in Seq(Alphabet) /\ Pieces(y \o end, y, end)
    BY InPieces
  <2>2. QED
    BY <1>2, <2>1 DEF Pieces
<1>4. u # <<>> /\ Last(u) = "\n"
  BY <1>1, <1>3, Glue
<1>5. ASSUME NEW j \in 1..m + n - 1 PROVE u[j] # "\n"
  <2>1. CASE j =< m
    <3>1. j \in 1..m /\ DOMAIN y = 1..m
      BY <1>2, <2>1, LenProperties
    <3>2. u[j] = y[j] /\ y[j] \in ToSet(y)
      BY <1>2, <1>3, <3>1 DEF Pieces, ToSet
    <3>3. QED
      BY <3>2
  <2>2. CASE ~(j =< m)
    <3>1. PICK i \in 1..n - 1 : j = m + i /\ i \in 1..n
      <4>1. j - m \in 1..n - 1 /\ j = m + (j - m) /\ j - m \in 1..n
        BY <1>2, <2>2
      <4>2. QED
        BY <4>1
    <3>2. u[j] = end[i]
      BY <1>2, <1>3, <3>1 DEF Pieces
    <3>3. Front(end)[i] = end[i] /\ i \in DOMAIN Front(end)
      BY <1>2, <3>1 DEF Front
    <3>4. end[i] \in ToSet(Front(end))
      BY <3>3 DEF ToSet
    <3>5. QED
      BY <1>1, <3>2, <3>4
  <2>3. QED
    BY <2>1, <2>2
<1>6. "\n" \notin ToSet(Front(u))
  <2>1. DOMAIN Front(u) = 1..m + n - 1 /\ \A j \in 1..m + n - 1 : Front(u)[j] = u[j]
    BY <1>2, <1>3 DEF Front
  <2>2. QED
    BY <1>5, <2>1 DEF ToSet
<1>7. QED
  BY <1>3, <1>4, <1>6 DEF IsLine

\* No newline in the pieces, none in the whole.
LEMMA StillOneLine ==
  ASSUME NEW s \in Seq(Alphabet), NEW t \in Seq(Alphabet),
         "\n" \notin ToSet(s), "\n" \notin ToSet(t)
  PROVE  s \o t \in Seq(Alphabet) /\ "\n" \notin ToSet(s \o t)
  BY Glue

\* What a setting's line adds to what is read, with its end or without.
Reading(text, line, items) ==
  /\ line \in Seq(Alphabet) /\ text \o line \in Seq(Alphabet)
  /\ Load(text \o line) = items

LEMMA SettingLoaded ==
  ASSUME NEW s \in Settings, NEW sp \in Spaces, NEW end \in Ends,
         NEW text \in Seq(Alphabet), Closed(text)
  PROVE  /\ LineMax > 1
         /\ Reading(text, LineOf(s, sp, end), Append(Load(text), Told(s)))
         /\ Reading(text, LineOf(s, sp, <<>>), Append(Load(text), Told(s)))
         /\ Closed(text \o LineOf(s, sp, end))
         /\ text \o LineOf(s, sp, end) = (text \o LineOf(s, sp, <<>>)) \o end
         /\ end \in Seq(Alphabet)
<1> DEFINE n == s[1]
           v == s[2]
           eq == <<"=">>
           y == n \o sp \o eq \o sp \o v
<1>1. LineMax \in Nat /\ HasMarks
  BY ConfAssumption, Zenon DEF HasMarks
<1>2. IsName(n) /\ IsValue(v) /\ sp \in Seq(Gap) /\ end \in Seq(Blank) /\ IsLine(end)
      /\ Len(LineOf(s, sp, end)) < LineMax /\ Len(n \o sp) < ItemNameSize
  <2>1. sp \in Seq(Gap) /\ IsName(n) /\ IsValue(v) /\ Len(n \o sp) < ItemNameSize
    BY ConfAssumption, Zenon DEF Gap
  <2>2. end \in Seq({" ", "\r", "\n"}) /\ IsLine(end) /\ Len(LineOf(s, sp, end)) < LineMax
    BY ConfAssumption, Zenon
  <2>3. Blank = {" ", "\r", "\n"}
    BY Zenon DEF Blank
  <2>4. QED
    BY <2>1, <2>2, <2>3, Zenon
<1>3. end \in Seq(Alphabet) /\ ToSet(end) \subseteq Blank /\ <<>> \in Seq(Alphabet) /\ ToSet(<<>>) \subseteq Blank
  <2>1. Blank \subseteq Alphabet
    BY <1>1, Zenon DEF HasMarks, Blank
  <2>2. <<>> \in Seq(Alphabet) /\ ToSet(<<>>) = {}
    BY <1>1, Marks, OneCharacter
  <2>3. QED
    BY <1>2, <2>1, <2>2, OfSet, TypedIn
<1>4. LineOf(s, sp, end) = y \o end /\ LineOf(s, sp, <<>>) = y \o <<>>
  BY DEF LineOf
<1>5. /\ y \o end \in Seq(Alphabet) /\ y \o end # <<>> /\ ~Skipped(y \o end)
      /\ Item(Stripped(y \o end)) = Told(s)
  BY <1>1, <1>2, <1>3, SettingRead DEF Told
<1>6. /\ y \o <<>> \in Seq(Alphabet) /\ y \o <<>> # <<>> /\ ~Skipped(y \o <<>>)
      /\ Item(Stripped(y \o <<>>)) = Told(s)
  BY <1>1, <1>2, <1>3, SettingRead DEF Told
<1>7. y \in Seq(Alphabet) /\ "\n" \notin ToSet(y)
  <2>1. n \in Seq(Alphabet) /\ v \in Seq(Alphabet) /\ "\n" \notin ToSet(n) /\ "\n" \notin ToSet(v)
    <3>1. n \in Seq(Alphabet) /\ "\n" \notin ToSet(n)
      BY <1>2, Zenon DEF IsName
    <3>2. v \in Seq(Alphabet) /\ "\n" \notin ToSet(v)
      BY <1>2, Zenon DEF IsValue
    <3>3. QED
      BY <3>1, <3>2
  <2>2. sp \in Seq(Alphabet) /\ "\n" \notin ToSet(sp)
    BY <1>1, <1>2, Marks, OfSet, TypedIn
  <2>3. eq \in Seq(Alphabet) /\ "\n" \notin ToSet(eq)
    BY <1>1, Marks, OneCharacter
  <2> HIDE DEF n, v, eq
  <2>4. n \o sp \in Seq(Alphabet) /\ "\n" \notin ToSet(n \o sp)
    BY <2>1, <2>2, StillOneLine
  <2>5. n \o sp \o eq \in Seq(Alphabet) /\ "\n" \notin ToSet(n \o sp \o eq)
    BY <2>3, <2>4, StillOneLine
  <2>6. n \o sp \o eq \o sp \in Seq(Alphabet) /\ "\n" \notin ToSet(n \o sp \o eq \o sp)
    BY <2>2, <2>5, StillOneLine
  <2>7. QED
    BY <2>1, <2>6, StillOneLine
<1> HIDE DEF n, v, eq, y
<1>8. y \o <<>> = y
  BY <1>7, GlueNothing
<1>9. Len(y \o end) = Len(y) + Len(end) /\ Len(y) \in Nat \ {0} /\ Len(end) \in Nat
  <2>1. y # <<>>
    BY <1>6, <1>8
  <2>2. QED
    BY <1>3, <1>7, <2>1, Glue, LenProperties, EmptySeq
<1>10. Len(y \o end) < LineMax /\ Len(y) < LineMax /\ LineMax > 1
  BY <1>1, <1>2, <1>4, <1>9
<1>11. IsLine(y \o end)
  BY <1>2, <1>3, <1>7, LineEnded
<1>12. fgets(y \o end) = y \o end /\ fgets(y) = y
  <2>1. fgets(y) = y
    BY <1>1, <1>6, <1>7, <1>8, <1>10, LastLine
  <2>2. fgets((y \o end) \o <<>>) = y \o end
    BY <1>1, <1>3, <1>5, <1>10, <1>11, WholeLine
  <2>3. QED
    BY <1>5, <2>1, <2>2, GlueNothing
<1>13. Load(text \o (y \o end)) = Append(Load(text), Told(s))
  BY <1>1, <1>5, <1>10, <1>12, LoadAppends
<1>14. Load(text \o y) = Append(Load(text), Told(s))
  BY <1>1, <1>6, <1>7, <1>8, <1>10, <1>12, LoadAppends
<1>15. text \o (y \o end) \in Seq(Alphabet) /\ text \o y \in Seq(Alphabet)
  BY <1>5, <1>7, Glue
<1>16. Closed(text \o (y \o end))
  <2>1. Last(y \o end) = "\n"
    BY <1>11 DEF IsLine
  <2>2. QED
    BY <1>5, <2>1, Glue DEF Closed
<1>17. text \o (y \o end) = (text \o y) \o end
  BY <1>3, <1>7, Glue3
<1>18. QED
  BY <1>3, <1>4, <1>5, <1>7, <1>8, <1>10, <1>13, <1>14, <1>15, <1>16, <1>17, Zenon DEF Reading

\* What says nothing adds nothing.
LEMMA NoiseLoaded ==
  ASSUME NEW noise \in Noise, NEW text \in Seq(Alphabet), Closed(text), LineMax > 1
  PROVE  Reading(text, noise, Load(text)) /\ Closed(text \o noise)
<1>1. LineMax \in Nat
  BY ConfAssumption, Zenon
<1>2. CASE noise = <<>>
  <2>1. text \o noise = text
    BY <1>2, GlueNothing
  <2>2. noise \in Seq(Alphabet)
    BY <1>2, EmptySeq
  <2>3. QED
    BY <2>1, <2>2 DEF Reading
<1>3. CASE noise # <<>>
  <2>1. noise \in Seq(Alphabet) /\ IsLine(noise) /\ SaysNothing(noise) /\ Len(noise) < LineMax
    BY <1>3, ConfAssumption, Zenon
  <2>2. Skipped(noise)
    <3>1. CASE Comment(noise)
      BY <3>1, Zenon DEF Skipped
    <3>2. CASE Head(noise) = "[" /\ Last(Stripped(noise)) = "]"
      <4>1. noise[1] = "["
        BY <1>3, <2>1, <3>2, EndsOf
      <4>2. QED
        BY <3>2, <4>1, Zenon DEF Skipped
    <3>3. CASE "=" \notin ToSet(noise)
      <4>1. noise \in Seq(ToSet(noise))
        BY <2>1, OfSet
      <4>2. Stripped(noise) \in Seq(ToSet(noise))
        BY <4>1, StrippedTyped
      <4>3. ToSet(Stripped(noise)) \subseteq ToSet(noise)
        BY <4>2, OfSet
      <4>4. QED
        BY <3>3, <4>3, Zenon DEF Skipped
    <3>4. QED
      BY <2>1, <3>1, <3>2, <3>3, Zenon DEF SaysNothing, Comment
  <2>3. fgets(noise) = noise
    <3>1. noise \o <<>> = noise /\ <<>> \in Seq(Alphabet)
      BY <2>1, GlueNothing, EmptySeq
    <3>2. fgets(noise \o <<>>) = noise
      BY <1>1, <2>1, <3>1, WholeLine
    <3>3. QED
      BY <3>1, <3>2
  <2>4. Load(text \o noise) = Load(text)
    BY <1>1, <1>3, <2>1, <2>2, <2>3, LoadAppends
  <2>5. Last(noise) = "\n"
    BY <2>1 DEF IsLine
  <2>6. text \o noise \in Seq(Alphabet) /\ Last(text \o noise) = Last(noise)
    BY <1>3, <2>1, Glue
  <2>7. QED
    BY <2>1, <2>4, <2>5, <2>6 DEF Reading, Closed
<1>4. QED
  BY <1>2, <1>3

\* The first of two items of a name is the one found.
LEMMA FirstOfTwo ==
  ASSUME NEW s, NEW t, NEW name
  PROVE  GetString(<<Told(s), Told(t)>>, name)
           = IF SameName(s[1], name) THEN s[2] ELSE IF SameName(t[1], name) THEN t[2] ELSE Nullptr
<1> DEFINE items == <<Told(s), Told(t)>>
           I == {i \in 1..Len(items) : SameName(items[i].ItemName, name)}
           i == IF I # {} THEN Min(I) ELSE 0
<1>1. GetString(items, name) = IF i = 0 THEN Nullptr ELSE items[i].ItemContent
  BY DEF GetString, SelectInSeq
<1>2. /\ Len(items) = 2
      /\ items[1].ItemName = s[1] /\ items[1].ItemContent = s[2]
      /\ items[2].ItemName = t[1] /\ items[2].ItemContent = t[2]
  BY DEF Told
<1> HIDE DEF items
<1>3. I \subseteq {1, 2} /\ (1 \in I <=> SameName(s[1], name)) /\ (2 \in I <=> SameName(t[1], name))
  <2>1. 1..2 = {1, 2}
    OBVIOUS
  <2>2. QED
    BY <1>2, <2>1
<1> HIDE DEF I
<1>4. CASE SameName(s[1], name)
  <2>1. I \in SUBSET Int /\ 1 \in I /\ \A x \in I : 1 =< x
    BY <1>3, <1>4
  <2>2. i = 1
    BY <2>1, MinIs
  <2> HIDE DEF i
  <2>3. QED
    BY <1>1, <1>2, <1>4, <2>2 DEF items
<1>5. CASE ~SameName(s[1], name) /\ SameName(t[1], name)
  <2>1. I = {2}
    BY <1>3, <1>5
  <2>2. I \in SUBSET Int /\ 2 \in I /\ \A x \in I : 2 =< x
    BY <2>1
  <2>3. i = 2
    BY <2>2, MinIs
  <2> HIDE DEF i
  <2>4. QED
    BY <1>1, <1>2, <1>5, <2>3 DEF items
<1>6. CASE ~SameName(s[1], name) /\ ~SameName(t[1], name)
  <2>1. I = {}
    BY <1>3, <1>6
  <2>2. i = 0
    BY <2>1
  <2> HIDE DEF i
  <2>3. QED
    BY <1>1, <1>6, <2>2 DEF items
<1>7. QED
  BY <1>4, <1>5, <1>6

\* See ConfRead of Conf: one of the lines after the other, and then the names.
LEMMA ConfReadHolds == ConfRead
<1> SUFFICES ASSUME NEW s \in Settings, NEW t \in Settings, NEW space \in Spaces,
                    NEW end \in Ends, NEW noise \in Noise
             PROVE  LET text == noise \o LineOf(s, space, end) \o noise \o LineOf(t, space, end)
                        value(name) == IF SameName(s[1], name) THEN s[2]
                                       ELSE IF SameName(t[1], name) THEN t[2] ELSE Nullptr
                    IN \A items \in {Load(text), Load(SubSeq(text, 1, Len(text) - Len(end)))} :
                         \A u \in Settings : GetString(items, u[1]) = value(u[1])
  BY DEF ConfRead
<1> DEFINE L == LineOf(s, space, end)
           M == LineOf(t, space, end)
           text == noise \o L \o noise \o M
<1>1. <<>> \in Seq(Alphabet) /\ Closed(<<>>) /\ LineMax \in Nat
  BY EmptySeq, ConfAssumption, Zenon DEF Closed
<1>2. LineMax > 1
  BY <1>1, SettingLoaded
<1>3. Load(<<>>) = <<>>
  <2>1. PICK f : Turns(f, <<>>) /\ Load(<<>>) = f[Len(<<>>)].items
    BY <1>1, <1>2, Loaded
  <2>2. Len(<<>>) = 0
    OBVIOUS
  <2>3. QED
    BY <2>1, <2>2 DEF Turns
<1>4. noise \in Seq(Alphabet) /\ Load(noise) = <<>> /\ Closed(noise)
  <2>1. Reading(<<>>, noise, Load(<<>>)) /\ Closed(<<>> \o noise)
    BY <1>1, <1>2, NoiseLoaded
  <2>2. noise \in Seq(Alphabet)
    BY <2>1 DEF Reading
  <2>3. <<>> \o noise = noise
    BY <2>2, GlueNothing
  <2>4. QED
    BY <1>3, <2>1, <2>2, <2>3 DEF Reading
<1>5. noise \o L \in Seq(Alphabet) /\ Load(noise \o L) = <<Told(s)>> /\ Closed(noise \o L)
  <2>1. Reading(noise, L, Append(Load(noise), Told(s))) /\ Closed(noise \o L)
    BY <1>4, SettingLoaded
  <2>2. QED
    BY <1>4, <2>1 DEF Reading
<1>6. noise \o L \o noise \in Seq(Alphabet) /\ Load(noise \o L \o noise) = <<Told(s)>> /\ Closed(noise \o L \o noise)
  <2> HIDE DEF L
  <2>1. Reading(noise \o L, noise, Load(noise \o L)) /\ Closed(noise \o L \o noise)
    BY <1>2, <1>5, NoiseLoaded
  <2>2. QED
    BY <1>5, <2>1 DEF Reading
<1>7. PICK more \in Seq(Alphabet) : more = noise \o L \o noise /\ Load(more) = <<Told(s)>> /\ Closed(more)
  BY <1>6
<1> DEFINE N == LineOf(t, space, <<>>)
<1>8. /\ Reading(more, M, Append(Load(more), Told(t)))
      /\ Reading(more, N, Append(Load(more), Told(t)))
      /\ more \o M = (more \o N) \o end
      /\ end \in Seq(Alphabet)
  BY <1>7, SettingLoaded, ZenonT(40)
<1> HIDE DEF L, M, N
<1>9. /\ Load(more \o M) = <<Told(s), Told(t)>> /\ Load(more \o N) = <<Told(s), Told(t)>>
      /\ more \o N \in Seq(Alphabet)
  BY <1>7, <1>8, SecondItem DEF Reading
<1>10. SubSeq(more \o M, 1, Len(more \o M) - Len(end)) = more \o N
  <2>1. PICK u \in Seq(Alphabet) : u = more \o N
    BY <1>9
  <2>2. Len(u \o end) = Len(u) + Len(end) /\ SubSeq(u \o end, 1, Len(u)) = u
    BY <1>8, <2>1, Glue
  <2>3. Len(u) \in Nat /\ Len(end) \in Nat
    BY <1>8, LenProperties
  <2>4. Len(u \o end) - Len(end) = Len(u)
    BY <2>2, <2>3
  <2>5. QED
    BY <1>8, <2>1, <2>2, <2>4
<1>11. \A items \in {Load(text), Load(SubSeq(text, 1, Len(text) - Len(end)))} : items = <<Told(s), Told(t)>>
  BY <1>7, <1>9, <1>10
<1>12. QED
  BY <1>11, FirstOfTwo DEF L, M

(* See ConfRead of Conf: for any settings, blanks and lines that say nothing   *)
(* that ConfAssumption admits, so for names that ItemName has room for: one of *)
(* 50 characters or more runs on into ItemContent, and is not read as itself.  *)
THEOREM SettingsAreRead == Spec => []ConfReadAtStart
<1>1. ConfReadAtStart
  BY ConfReadHolds DEF ConfReadAtStart
<1>2. QED
  BY <1>1, PTL

-----------------------------------------------------------------------------
(* ngx_vslprintf.                                                          *)

\* What Take takes is as long as there is room and text for, and is the front of the text.
LEMMA TakeIs ==
  ASSUME NEW S, NEW t \in Seq(S), NEW n \in Nat
  PROVE  /\ Take(t, n) \in Seq(S)
         /\ Len(Take(t, n)) = IF n =< Len(t) THEN n ELSE Len(t)
         /\ \A i \in 1..Len(Take(t, n)) : Take(t, n)[i] = t[i]
         /\ Len(t) =< n => Take(t, n) = t
<1>1. PICK k \in Nat : k = Len(t)
  BY LenProperties
<1>2. PICK m \in Nat : m = (IF n =< k THEN n ELSE k)
  OBVIOUS
<1>3. Min({n, Len(t)}) = m
  <2>1. {n, k} \in SUBSET Int /\ m \in {n, k} /\ \A x \in {n, k} : m =< x
    BY <1>2
  <2>2. Min({n, k}) = m
    BY <2>1, MinIs
  <2>3. QED
    BY <1>1, <2>2
<1>4. \A i \in 1..m : t[i] \in S
  <2>1. \A i \in 1..m : i \in 1..k
    BY <1>2
  <2>2. QED
    BY <1>1, <2>1, ElementOfSeq
<1>5. PICK u \in Seq(S) : u = SubSeq(t, 1, m) /\ Len(u) = m /\ \A i \in 1..m : u[i] = t[i]
  <2>1. /\ SubSeq(t, 1, m) \in Seq(S)
        /\ Len(SubSeq(t, 1, m)) = IF 1 =< m THEN m - 1 + 1 ELSE 0
        /\ \A i \in 1..m - 1 + 1 : SubSeq(t, 1, m)[i] = t[1 + i - 1]
    BY <1>4, SubSeqProperties
  <2>2. m - 1 + 1 = m /\ \A i \in 1..m : 1 + i - 1 = i
    OBVIOUS
  <2>3. (IF 1 =< m THEN m ELSE 0) = m
    OBVIOUS
  <2>4. QED
    BY <2>1, <2>2, <2>3
<1>6. Take(t, n) = u
  BY <1>3, <1>5 DEF Take
<1>7. k =< n => m = k
  BY <1>2
<1>8. k =< n => u = t
  BY <1>1, <1>5, <1>7, SeqEqual
<1>9. QED
  BY <1>1, <1>2, <1>5, <1>6, <1>8

\* Two texts of which the same is taken.
LEMMA TakeSame ==
  ASSUME NEW S, NEW s \in Seq(S), NEW t \in Seq(S), NEW n \in Nat, n =< Len(s), n =< Len(t),
         \A i \in 1..n : s[i] = t[i]
  PROVE  Take(s, n) = Take(t, n)
<1>1. PICK u \in Seq(S) : u = Take(s, n) /\ Len(u) = n /\ \A i \in 1..n : u[i] = s[i]
  BY TakeIs
<1>2. PICK v \in Seq(S) : v = Take(t, n) /\ Len(v) = n /\ \A i \in 1..n : v[i] = t[i]
  BY TakeIs
<1>3. QED
  BY <1>1, <1>2, SeqEqual

\* What the rest of the room takes of a text.
LEMMA TakeGlue ==
  ASSUME NEW S, NEW b \in Seq(S), NEW t \in Seq(S), NEW max \in Nat, Len(b) =< max
  PROVE  b \o Take(t, max - Len(b)) = Take(b \o t, max)
<1>1. PICK m \in Nat, k \in Nat, r \in Nat :
        m = Len(b) /\ k = Len(t) /\ r = max - m /\ max = m + r
  <2>1. Len(b) \in Nat /\ Len(t) \in Nat /\ max - Len(b) \in Nat /\ max = Len(b) + (max - Len(b))
    BY LenProperties
  <2>2. QED
    BY <2>1
<1>2. PICK u \in Seq(S) : /\ u = Take(t, r) /\ Len(u) = (IF r =< k THEN r ELSE k)
                          /\ \A i \in 1..Len(u) : u[i] = t[i]
                          /\ k =< r => u = t
  BY <1>1, TakeIs
<1>3. PICK w \in Seq(S) : w = b \o t /\ Len(w) = m + k
                          /\ \A i \in 1..m + k : w[i] = IF i =< m THEN b[i] ELSE t[i - m]
  <2>1. /\ b \o t \in Seq(S) /\ Len(b \o t) = m + k
        /\ \A i \in 1..m + k : (b \o t)[i] = IF i =< m THEN b[i] ELSE t[i - m]
    BY <1>1, Glued
  <2>2. QED
    BY <2>1
<1>4. CASE k =< r
  <2>1. Len(w) =< max
    BY <1>1, <1>3, <1>4
  <2>2. Take(w, max) = w
    BY <2>1, TakeIs
  <2>3. QED
    BY <1>1, <1>2, <1>3, <1>4, <2>2
<1>5. CASE ~(k =< r)
  <2>1. Len(u) = r /\ \A i \in 1..r : u[i] = t[i]
    BY <1>2, <1>5
  <2>2. PICK v \in Seq(S) : v = b \o u /\ Len(v) = m + r
                            /\ \A i \in 1..m + r : v[i] = IF i =< m THEN b[i] ELSE u[i - m]
    <3>0. m = Len(b) /\ r = Len(u)
      BY <1>1, <2>1
    <3>1. /\ b \o u \in Seq(S) /\ Len(b \o u) = m + r
          /\ \A i \in 1..m + r : (b \o u)[i] = IF i =< m THEN b[i] ELSE u[i - m]
      BY <3>0, Glued
    <3>2. QED
      BY <3>1
  <2>3. max =< Len(v) /\ max =< Len(w) /\ Len(v) =< max
    BY <1>1, <1>3, <1>5, <2>2
  <2>4. ASSUME NEW i \in 1..max PROVE v[i] = w[i]
    <3>1. i \in 1..m + r /\ i \in 1..m + k /\ (~(i =< m) => i - m \in 1..r)
      BY <1>1, <1>5
    <3>2. QED
      BY <1>3, <2>1, <2>2, <3>1
  <2>5. Take(v, max) = Take(w, max) /\ Take(v, max) = v
    BY <2>3, <2>4, TakeSame, TakeIs
  <2>6. QED
    BY <1>1, <1>2, <1>3, <2>2, <2>5
<1>6. QED
  BY <1>4, <1>5

\* What is cut once is cut the same after more has been put behind it.
LEMMA TakeTwice ==
  ASSUME NEW S, NEW a \in Seq(S), NEW b \in Seq(S), NEW max \in Nat
  PROVE  Take(Take(a, max) \o b, max) = Take(a \o b, max)
<1>1. PICK m \in Nat, k \in Nat : m = Len(a) /\ k = Len(b)
  BY LenProperties
<1>2. CASE m =< max
  BY <1>1, <1>2, TakeIs
<1>3. CASE ~(m =< max)
  <2>1. PICK u \in Seq(S) : u = Take(a, max) /\ Len(u) = max /\ \A i \in 1..max : u[i] = a[i]
    BY <1>1, <1>3, TakeIs
  <2>2. PICK v \in Seq(S) : v = u \o b /\ Len(v) = max + k
                            /\ \A i \in 1..max + k : v[i] = IF i =< max THEN u[i] ELSE b[i - max]
    <3>0. max = Len(u) /\ k = Len(b)
      BY <1>1, <2>1
    <3>1. /\ u \o b \in Seq(S) /\ Len(u \o b) = max + k
          /\ \A i \in 1..max + k : (u \o b)[i] = IF i =< max THEN u[i] ELSE b[i - max]
      BY <3>0, Glued
    <3>2. QED
      BY <3>1
  <2>3. PICK w \in Seq(S) : w = a \o b /\ Len(w) = m + k
                            /\ \A i \in 1..m + k : w[i] = IF i =< m THEN a[i] ELSE b[i - m]
    <3>1. /\ a \o b \in Seq(S) /\ Len(a \o b) = m + k
          /\ \A i \in 1..m + k : (a \o b)[i] = IF i =< m THEN a[i] ELSE b[i - m]
      BY <1>1, Glued
    <3>2. QED
      BY <3>1
  <2>4. max =< Len(v) /\ max =< Len(w)
    BY <1>3, <2>2, <2>3
  <2>5. \A i \in 1..max : i \in 1..max + k /\ i \in 1..m + k /\ i =< max /\ i =< m
    BY <1>3
  <2>6. \A i \in 1..max : v[i] = w[i]
    BY <2>1, <2>2, <2>3, <2>5
  <2>7. QED
    BY <2>1, <2>2, <2>3, <2>4, <2>6, TakeSame
<1>4. QED
  BY <1>2, <1>3

\* One text put behind another, both cut where the room ends.
LEMMA PutBehind ==
  ASSUME NEW S, NEW buf \in Seq(S), NEW a \in Seq(S), NEW b \in Seq(S), NEW max \in Nat
  PROVE  Take(Take(buf \o a, max) \o b, max) = Take(buf \o (a \o b), max)
<1>1. buf \o a \in Seq(S) /\ (buf \o a) \o b = buf \o (a \o b)
  BY ConcatProperties, ConcatAssociative
<1>2. Take(Take(buf \o a, max) \o b, max) = Take((buf \o a) \o b, max)
  BY <1>1, TakeTwice
<1>3. QED
  BY <1>1, <1>2

\* The padding in front of digits.
Pads(zero, k) == [i \in 1..k |-> zero]
Padding(temp, zero, width) ==
  Pads(zero, IF width > Len(temp) THEN width - Len(temp) ELSE 0)

\* What padding consists of.
LEMMA PadsAre ==
  ASSUME NEW S, NEW zero \in S, NEW k \in Nat
  PROVE  /\ Pads(zero, k) \in Seq(S) /\ Len(Pads(zero, k)) = k
         /\ \A i \in 1..k : Pads(zero, k)[i] = zero
<1>1. Pads(zero, k) \in [1..k -> S] /\ \A i \in 1..k : Pads(zero, k)[i] = zero
  BY DEF Pads
<1>2. Pads(zero, k) \in Seq(S)
  BY <1>1, SeqDef
<1>3. Len(Pads(zero, k)) = k
  BY <1>1, <1>2, LenProperties
<1>4. QED
  BY <1>1, <1>2, <1>3

\* Padding that is cut is padding.
LEMMA PadsCut ==
  ASSUME NEW S, NEW zero \in S, NEW k \in Nat, NEW n \in Nat, NEW m \in Nat,
         m = IF n =< k THEN n ELSE k
  PROVE  Take(Pads(zero, k), n) = Pads(zero, m)
<1>1. PICK s \in Seq(S) : s = Pads(zero, k) /\ Len(s) = k /\ \A i \in 1..k : s[i] = zero
  BY PadsAre
<1>2. PICK t \in Seq(S) : t = Pads(zero, m) /\ Len(t) = m /\ \A i \in 1..m : t[i] = zero
  <2>1. /\ Pads(zero, m) \in Seq(S) /\ Len(Pads(zero, m)) = m
        /\ \A i \in 1..m : Pads(zero, m)[i] = zero
    BY PadsAre
  <2>2. QED
    BY <2>1
<1>3. PICK u \in Seq(S) : u = Take(s, n) /\ Len(u) = m /\ \A i \in 1..m : u[i] = s[i]
  BY <1>1, TakeIs
<1>4. \A i \in 1..m : i \in 1..k
  OBVIOUS
<1>5. \A i \in 1..m : u[i] = t[i]
  BY <1>1, <1>2, <1>3, <1>4
<1>6. QED
  BY <1>1, <1>2, <1>3, <1>5, SeqEqual

\* The padding and the digits are put into what room there is.
LEMMA DigitsPut ==
  ASSUME NEW S, NEW buf \in Seq(S), NEW max \in Nat, NEW temp \in Seq(S), NEW zero \in S,
         NEW width \in Int, Len(buf) =< max
  PROVE  /\ Padding(temp, zero, width) \in Seq(S)
         /\ PutDigits(buf, max, temp, zero, width)
              = Take(buf \o (Padding(temp, zero, width) \o temp), max)
<1>1. PICK l \in Nat, n \in Nat, r \in Nat : l = Len(temp) /\ n = Len(buf) /\ r = max - n
  <2>1. Len(buf) \in Nat /\ Len(temp) \in Nat /\ max - Len(buf) \in Nat
    BY LenProperties
  <2>2. QED
    BY <2>1
<1>2. PICK k \in Nat : k = IF width > l THEN width - l ELSE 0
  <2>1. (IF width > l THEN width - l ELSE 0) \in Nat
    OBVIOUS
  <2>2. QED
    BY <2>1
<1>3. PICK m \in Nat : m = IF r =< k THEN r ELSE k
  <2>1. (IF r =< k THEN r ELSE k) \in Nat
    OBVIOUS
  <2>2. QED
    BY <2>1
<1>4. Max({0, Min({width - l, r})}) = m
  <2>1. PICK a \in Int : a = IF width - l =< r THEN width - l ELSE r
    <3>1. (IF width - l =< r THEN width - l ELSE r) \in Int
      OBVIOUS
    <3>2. QED
      BY <3>1
  <2>2. Min({width - l, r}) = a
    <3>1. {width - l, r} \in SUBSET Int /\ a \in {width - l, r} /\ \A x \in {width - l, r} : a =< x
      BY <2>1
    <3>2. QED
      BY <3>1, MinIs
  <2>3. Max({0, a}) = m
    <3>1. {0, a} \in SUBSET Int /\ m \in {0, a} /\ \A x \in {0, a} : x =< m
      BY <1>2, <1>3, <2>1
    <3>2. QED
      BY <3>1, MaxIs
  <2>4. QED
    BY <2>2, <2>3
<1>5. PICK p \in Seq(S) : p = Padding(temp, zero, width) /\ p = Pads(zero, k)
  BY <1>1, <1>2, PadsAre DEF Padding
<1>6. PICK b \in Seq(S) : b = Padded(buf, max, temp, zero, width) /\ b = Take(buf \o p, max)
  <2>1. Padded(buf, max, temp, zero, width) = buf \o Pads(zero, m)
    BY <1>1, <1>4 DEF Padded, Pads
  <2>2. Pads(zero, m) = Take(p, r)
    BY <1>3, <1>5, PadsCut
  <2>3. buf \o Take(p, max - Len(buf)) = Take(buf \o p, max)
    BY TakeGlue
  <2>4. Take(buf \o p, max) \in Seq(S)
    BY ConcatProperties, TakeIs
  <2>5. QED
    BY <1>1, <2>1, <2>2, <2>3, <2>4
<1>7. Len(b) \in Nat /\ Len(b) =< max
  <2>1. PICK w \in Seq(S) : w = buf \o p
    BY ConcatProperties
  <2>2. Len(w) \in Nat /\ Len(Take(w, max)) = IF max =< Len(w) THEN max ELSE Len(w)
    BY TakeIs, LenProperties
  <2>3. QED
    BY <1>6, <2>1, <2>2
<1>8. CutAtEnd(b, max, temp) = Take(b \o temp, max)
  <2>1. PICK q \in Nat : q = max - Len(b)
    <3>1. max - Len(b) \in Nat
      BY <1>7
    <3>2. QED
      BY <3>1
  <2>2. Take(temp, IF Len(b) + l >= max THEN max - Len(b) ELSE l) = Take(temp, q)
    <3>1. CASE Len(b) + l >= max
      BY <2>1, <3>1
    <3>2. CASE ~(Len(b) + l >= max)
      <4>1. l =< q /\ l =< l
        BY <1>7, <2>1, <3>2
      <4>2. Take(temp, q) = temp /\ Take(temp, l) = temp
        BY <1>1, <4>1, TakeIs
      <4>3. QED
        BY <3>2, <4>2
    <3>3. QED
      BY <3>1, <3>2
  <2>3. b \o Take(temp, q) = Take(b \o temp, max)
    BY <1>7, <2>1, TakeGlue, SMTT(40)
  <2>4. QED
    BY <1>1, <2>2, <2>3 DEF CutAtEnd
<1>9. Take(b \o temp, max) = Take(buf \o (p \o temp), max)
  BY <1>6, PutBehind
<1>10. QED
  BY <1>5, <1>6, <1>8, <1>9 DEF PutDigits

-----------------------------------------------------------------------------

\* The figures that temp gets.
Figuring(h, n, figures, S) ==
  /\ h \in [0..NGX_INT64_LEN -> [left : Nat, text : Seq(S)]]
  /\ h[0].left = n /\ h[0].text = <<>>
  /\ \A k \in 1..NGX_INT64_LEN : h[k] = PutFigure(h[k - 1], figures)
  /\ InBase(n, figures) = h[NGX_INT64_LEN].text

LEMMA FiguresPut ==
  ASSUME NGX_INT64_LEN \in Nat, NEW S, NEW figures \in Seq(S), figures # <<>>, NEW n \in Nat
  PROVE  \E h : Figuring(h, n, figures, S)
<1> DEFINE T == [left : Nat, text : Seq(S)]
           base == [left |-> n, text |-> <<>>]
           N == NGX_INT64_LEN
           Body(f, k) == IF k = 0 THEN base ELSE PutFigure(f[k - 1], figures)
           g == [x \in (1..N) \X T |-> PutFigure(x[2], figures)]
           h == CHOOSE e : e = [k \in 0..N |-> Body(e, k)]
<1>0. PICK l \in Nat \ {0} : l = Len(figures)
  BY EmptySeq
<1>1. base \in T
  BY EmptySeq
<1>2. ASSUME NEW t \in T PROVE PutFigure(t, figures) \in T
  <2>1. CASE t.left = 0 /\ t.text # <<>>
    BY <2>1 DEF PutFigure
  <2>2. CASE ~(t.left = 0 /\ t.text # <<>>)
    <3>1. PICK a \in Nat, s \in Seq(S) : a = t.left /\ s = t.text
      OBVIOUS
    <3>2. a \div l \in Nat /\ (a % l) + 1 \in 1..l
      <4>1. a % l \in 0..l - 1 /\ a \div l \in Nat
        BY SMTT(40)
      <4>2. QED
        BY <4>1
    <3>3. figures[(a % l) + 1] \in S
      BY <1>0, <3>2, ElementOfSeq
    <3>4. <<figures[(a % l) + 1]>> \in Seq(S)
      BY <3>3
    <3>5. <<figures[(a % l) + 1]>> \o s \in Seq(S)
      BY <3>4, ConcatProperties
    <3>6. PutFigure(t, figures) = [left |-> a \div l, text |-> <<figures[(a % l) + 1]>> \o s]
      BY <1>0, <2>2, <3>1 DEF PutFigure
    <3>7. QED
      BY <3>2, <3>5, <3>6
  <2>3. QED
    BY <2>1, <2>2
<1>3. g \in [(1..N) \X T -> T]
  BY <1>2
<1> HIDE DEF base, T
<1>4. PICK f \in [0..N -> T] : f[0] = base /\ \A k \in 1..N : f[k] = PutFigure(f[k - 1], figures)
  <2>1. PICK f \in [0..N -> T] : Repeats(f, g, base, N)
    <3> HIDE DEF g
    <3>1. QED
      BY <1>1, <1>3, Repeated
  <2>2. ASSUME NEW k \in 1..N PROVE g[<<k, f[k - 1]>>] = PutFigure(f[k - 1], figures)
    <3>1. f[k - 1] \in T
      BY <2>1
    <3>2. QED
      BY <3>1
  <2>3. QED
    BY <2>1, <2>2 DEF Repeats
<1>5. f = [k \in 0..N |-> Body(f, k)]
  <2>1. ASSUME NEW k \in 0..N PROVE f[k] = Body(f, k)
    <3>1. k # 0 => k \in 1..N
      OBVIOUS
    <3>2. QED
      BY <1>4, <3>1
  <2> HIDE DEF Body
  <2>2. QED
    BY <1>4, <2>1
<1>6. h = [k \in 0..N |-> Body(h, k)]
  <2> HIDE DEF Body
  <2>1. QED
    BY <1>5
<1>7. InBase(n, figures) = h[N].text
  BY DEF InBase, base
<1> HIDE DEF h
<1>8. h[0] = base /\ \A k \in 1..N : h[k] = PutFigure(h[k - 1], figures)
  BY <1>6
<1> DEFINE G == {k \in Int : h[k] \in T}
<1>9. 0..N \subseteq G
  <2>1. 0 \in G
    BY <1>1, <1>8
  <2>2. ASSUME NEW k \in 1..N, k - 1 \in G PROVE k \in G
    BY <1>2, <1>8, <2>2
  <2> HIDE DEF G
  <2>3. QED
    BY <2>1, <2>2, UpTo
<1>10. h \in [0..N -> T]
  <2>1. \A k \in 0..N : h[k] \in T
    BY <1>9
  <2>2. PICK H : H = h /\ H = [k \in 0..N |-> Body(H, k)]
    BY <1>6
  <2> HIDE DEF Body
  <2>3. QED
    BY <2>1, <2>2
<1>11. h[0].left = n /\ h[0].text = <<>>
  BY <1>8 DEF base
<1>12. Figuring(h, n, figures, S)
  BY <1>7, <1>8, <1>10, <1>11 DEF Figuring, T
<1>13. QED
  BY <1>12

LEMMA Figured ==
  ASSUME NGX_INT64_LEN \in Nat, NEW S, NEW figures \in Seq(S), figures # <<>>, NEW n \in Nat
  PROVE  InBase(n, figures) \in Seq(S)
<1>1. PICK h : Figuring(h, n, figures, S)
  BY FiguresPut
<1>2. QED
  BY <1>1 DEF Figuring

\* A number becomes figures, in any of the three sets of them.
LEMMA NumeralTyped ==
  ASSUME NEW n \in Nat, NEW hex \in 0..2, NEW S,
         \A i \in 1..16 : Figures[i] \in S /\ FIGURES[i] \in S
  PROVE  Numeral(n, hex) \in Seq(S)
<1>1. NGX_INT64_LEN \in Nat /\ \A i \in 1..16 : Figures[i] \in S /\ FIGURES[i] \in S
  BY PrintfAssumption, Zenon
<1>2. Figures \in Seq(S) /\ FIGURES \in Seq(S) /\ Len(Figures) = 16 /\ Len(FIGURES) = 16
  BY <1>1 DEF Figures, FIGURES
<1>3. SubSeq(Figures, 1, 10) \in Seq(S) /\ SubSeq(Figures, 1, 10) # <<>>
  <2>1. SubSeq(Figures, 1, 10) \in Seq(S) /\ Len(SubSeq(Figures, 1, 10)) = 10
    BY <1>1, SubSeqProperties
  <2>2. Len(SubSeq(Figures, 1, 10)) # Len(<<>>)
    BY <2>1, EmptySeq
  <2>3. QED
    BY <2>1, <2>2
<1> DEFINE figures == CASE hex = 0 -> SubSeq(Figures, 1, 10) [] hex = 1 -> Figures [] hex = 2 -> FIGURES
<1>4. figures \in Seq(S) /\ figures # <<>>
  <2>1. CASE hex = 0
    BY <1>3, <2>1
  <2>2. CASE hex = 1
    <3>1. Len(Figures) # Len(<<>>)
      BY <1>2, EmptySeq
    <3>2. Figures # <<>>
      BY <3>1
    <3>3. QED
      BY <1>2, <2>2, <3>2
  <2>3. CASE hex = 2
    <3>1. Len(FIGURES) # Len(<<>>)
      BY <1>2, EmptySeq
    <3>2. FIGURES # <<>>
      BY <3>1
    <3>3. QED
      BY <1>2, <2>3, <3>2
  <2>4. QED
    BY <2>1, <2>2, <2>3
<1>5. Numeral(n, hex) = InBase(n, figures)
  BY DEF Numeral
<1> HIDE DEF figures
<1>6. QED
  BY <1>1, <1>4, <1>5, Figured

-----------------------------------------------------------------------------
\* What a directive stands for: a text that is put behind buf as far as there is room.
Known(d) ==
  d.zero \in Characters /\ d.hex \in 0..2 /\ d.width \in Int /\ d.frac_width \in Nat
Stands(d, args, t) ==
  /\ t \in Seq(Characters)
  /\ \A buf \in Seq(Characters), max \in Nat :
       Len(buf) < max => Put(buf, max, d, args) = Take(buf \o t, max)

\* %s stands for its text.
LEMMA TextStands ==
  ASSUME NEW d, NEW args, d.conv = "s", args[1] \in Seq(Characters)
  PROVE  Stands(d, args, args[1])
<1>1. ASSUME NEW buf \in Seq(Characters), NEW max \in Nat, Len(buf) < max
      PROVE  Put(buf, max, d, args) = Take(buf \o args[1], max)
  <2>1. Put(buf, max, d, args) = buf \o Take(args[1], max - Len(buf))
    BY DEF Put
  <2>2. Len(buf) =< max
    BY <1>1, LenProperties
  <2>3. QED
    BY <2>1, <2>2, TakeGlue
<1>2. QED
  BY <1>1 DEF Stands

\* A character that is no conversion stands for itself.
LEMMA OtherStands ==
  ASSUME NEW d, NEW args, d.conv \in Characters,
         d.conv \notin {"s", "d", "i", "L", "P", "p", "f"}
  PROVE  Stands(d, args, <<d.conv>>)
<1>1. ASSUME NEW buf \in Seq(Characters), NEW max \in Nat, Len(buf) < max
      PROVE  Put(buf, max, d, args) = Take(buf \o <<d.conv>>, max)
  <2>1. Put(buf, max, d, args) = Append(buf, d.conv)
    BY DEF Put
  <2>2. Append(buf, d.conv) = buf \o <<d.conv>>
    BY AppendIsConcat
  <2>3. PICK u \in Seq(Characters) : u = Append(buf, d.conv) /\ Len(u) = Len(buf) + 1
    BY AppendProperties, ZenonT(40)
  <2>4. Len(u) =< max
    BY <1>1, <2>3, LenProperties
  <2>5. Take(u, max) = u
    BY <2>4, TakeIs
  <2>6. QED
    BY <2>1, <2>2, <2>3, <2>5
<1>2. <<d.conv>> \in Seq(Characters)
  OBVIOUS
<1>3. QED
  BY <1>1, <1>2 DEF Stands

\* A sign, if there is one.
SignOf(n) == IF n < 0 THEN <<"-">> ELSE <<>>

\* The sign is put where there is room for it.
LEMMA SignPut ==
  ASSUME NEW n \in Int, NEW buf \in Seq(Characters), NEW max \in Nat, Len(buf) < max
  PROVE  /\ SignOf(n) \in Seq(Characters)
         /\ PutSign(buf, n) = Take(buf \o SignOf(n), max)
<1>0. "-" \in Characters /\ Len(buf) \in Nat
  BY PrintfAssumption, LenProperties, Zenon
<1>1. CASE n < 0
  <2>1. Append(buf, "-") = buf \o <<"-">> /\ <<"-">> \in Seq(Characters)
    BY <1>0, AppendIsConcat
  <2>2. PICK u \in Seq(Characters) : u = Append(buf, "-") /\ Len(u) = Len(buf) + 1
    BY <1>0, AppendProperties
  <2>3. Len(u) =< max
    BY <1>0, <2>2
  <2>4. Take(u, max) = u
    BY <2>3, TakeIs
  <2>5. QED
    BY <1>1, <2>1, <2>2, <2>4 DEF PutSign, SignOf
<1>2. CASE ~(n < 0)
  <2>1. buf \o <<>> = buf /\ <<>> \in Seq(Characters)
    BY ConcatEmptySeq, EmptySeq
  <2>2. Take(buf, max) = buf
    BY <1>0, TakeIs
  <2>3. QED
    BY <1>2, <2>1, <2>2 DEF PutSign, SignOf
<1>3. QED
  BY <1>1, <1>2

\* A number behind what is there already.
Digits(n, hex, zero, width) == Padding(Numeral(n, hex), zero, width) \o Numeral(n, hex)

\* What is cut fits.
LEMMA Fits ==
  ASSUME NEW S, NEW buf \in Seq(S), NEW a \in Seq(S), NEW max \in Nat
  PROVE  /\ Take(buf \o a, max) \in Seq(S) /\ Len(Take(buf \o a, max)) \in Nat
         /\ Len(Take(buf \o a, max)) =< max
<1>1. PICK w \in Seq(S) : w = buf \o a
  BY ConcatProperties
<1>2. Take(w, max) \in Seq(S) /\ Len(Take(w, max)) =< max
  BY TakeIs, LenProperties
<1>3. QED
  BY <1>1, <1>2, LenProperties

NumberPuts(n, hex, zero, width) ==
  /\ Digits(n, hex, zero, width) \in Seq(Characters)
  /\ \A b \in Seq(Characters), max \in Nat :
       Len(b) =< max =>
         ngx_sprintf_num(b, max, n, zero, hex, width) = Take(b \o Digits(n, hex, zero, width), max)

\* A number is padded and put as far as there is room.
LEMMA NumeralPut ==
  ASSUME NEW n \in Nat, NEW hex \in 0..2, NEW zero \in Characters, NEW width \in Int
  PROVE  NumberPuts(n, hex, zero, width)
<1>1. PICK temp \in Seq(Characters) : temp = Numeral(n, hex)
  <2>1. \A i \in 1..16 : Figures[i] \in Characters /\ FIGURES[i] \in Characters
    BY PrintfAssumption, Zenon
  <2>2. QED
    BY <2>1, NumeralTyped
<1>2. ASSUME NEW b \in Seq(Characters), NEW max \in Nat, Len(b) =< max
      PROVE  ngx_sprintf_num(b, max, n, zero, hex, width) = Take(b \o Digits(n, hex, zero, width), max)
  <2>1. PutDigits(b, max, temp, zero, width) = Take(b \o (Padding(temp, zero, width) \o temp), max)
    BY <1>2, DigitsPut
  <2>2. QED
    BY <1>1, <2>1 DEF ngx_sprintf_num, Digits
<1>3. Digits(n, hex, zero, width) \in Seq(Characters)
  <2>1. <<>> \in Seq(Characters) /\ Len(<<>>) =< 0
    BY EmptySeq
  <2>2. Padding(temp, zero, width) \in Seq(Characters)
    BY <2>1, DigitsPut
  <2>3. Padding(temp, zero, width) \o temp \in Seq(Characters)
    BY <2>2, ConcatProperties
  <2>4. QED
    BY <1>1, <2>3 DEF Digits
<1>4. QED
  BY <1>2, <1>3 DEF NumberPuts

\* What a number is printed as.
ValueIn(d, n) == IF Signed(d) THEN Abs(n) ELSE n % UnsignedRange(d)
ZeroIn(d) == IF d.conv = "p" THEN "0" ELSE d.zero
HexIn(d) == IF d.conv = "p" THEN 2 ELSE d.hex
WidthIn(d) == IF d.conv = "p" THEN PointerLen ELSE d.width
SignIn(d, n) == IF Signed(d) THEN SignOf(n) ELSE <<>>
NumberText(d, n) == SignIn(d, n) \o Digits(ValueIn(d, n), HexIn(d), ZeroIn(d), WidthIn(d))

\* What an unsigned directive takes is a number of a type that temp has room for.
LEMMA RangeTyped ==
  ASSUME NEW d
  PROVE  UnsignedRange(d) \in Nat \ {0} /\ UnsignedRange(d) =< Power(10, NGX_INT64_LEN)
<1>1. UIntRange \in Nat \ {0} /\ UInt64Range \in Nat \ {0}
  BY PrintfAssumption, Zenon
<1>2. UIntRange =< Power(10, NGX_INT64_LEN) /\ UInt64Range =< Power(10, NGX_INT64_LEN)
  BY PrintfAssumption, Zenon
<1>3. QED
  BY <1>1, <1>2, Zenon DEF UnsignedRange

\* %d, %i, %L, %P and %p stand for a sign, padding and figures.
LEMMA NumberStands ==
  ASSUME NEW d, NEW args, Known(d), d.conv \in {"d", "i", "L", "P", "p"}, args[1] \in Int
  PROVE  Stands(d, args, NumberText(d, args[1]))
<1>0. PICK n \in Int : n = args[1]
  OBVIOUS
<1>1. "0" \in Characters /\ UnsignedRange(d) \in Nat \ {0} /\ PointerLen \in Nat
  <2>1. Figures[1] \in Characters
    <3>1. 1 \in 1..16
      OBVIOUS
    <3>2. QED
      BY <3>1, PrintfAssumption, Zenon
  <2>2. Figures[1] = "0"
    BY DEF Figures
  <2>3. QED
    BY <2>1, <2>2, RangeTyped, PrintfAssumption, Zenon
<1>2. n % UnsignedRange(d) \in Nat /\ Abs(n) \in Nat
  BY <1>1 DEF Abs
<1>9. d.conv = "p" => ~Signed(d)
  BY DEF Signed
<1> DEFINE value == ValueIn(d, n)
           sign == SignIn(d, n)
           zero == ZeroIn(d)
           hex == HexIn(d)
           width == WidthIn(d)
           t == Digits(value, hex, zero, width)
<1>3. value \in Nat /\ zero \in Characters /\ hex \in 0..2 /\ width \in Int
  BY <1>1, <1>2 DEF Known, ValueIn, ZeroIn, HexIn, WidthIn
<1>4. ASSUME NEW buf \in Seq(Characters), NEW max \in Nat, Len(buf) < max
      PROVE  /\ sign \in Seq(Characters) /\ t \in Seq(Characters)
             /\ Put(buf, max, d, args) = Take(buf \o (sign \o t), max)
  <2>1. Put(buf, max, d, args) = PutNumber(buf, max, d, n)
    BY <1>0 DEF Put
  <2>2. /\ sign \in Seq(Characters)
        /\ (IF d.conv # "p" /\ Signed(d) THEN PutSign(buf, n) ELSE buf) = Take(buf \o sign, max)
    <3>1. CASE d.conv # "p" /\ Signed(d)
      BY <1>4, <1>9, <3>1, SignPut DEF SignIn
    <3>2. CASE ~(d.conv # "p" /\ Signed(d))
      <4>1. buf \o <<>> = buf /\ <<>> \in Seq(Characters) /\ Take(buf, max) = buf
        BY <1>4, ConcatEmptySeq, EmptySeq, TakeIs, LenProperties
      <4>2. QED
        BY <1>9, <3>2, <4>1 DEF SignIn
    <3>3. QED
      BY <3>1, <3>2
  <2>3. PutNumber(buf, max, d, n) = ngx_sprintf_num(Take(buf \o sign, max), max, value, zero, hex, width)
    BY <1>9, <2>2 DEF PutNumber, ValueIn, ZeroIn, HexIn, WidthIn
  <2>4. PICK v \in Nat, z \in Characters, h \in 0..2, w \in Int :
          v = value /\ z = zero /\ h = hex /\ w = width
    BY <1>3
  <2> HIDE DEF sign, value, zero, hex, width
  <2>5. PICK u \in Seq(Characters) :
          /\ u = t
          /\ \A b \in Seq(Characters) : Len(b) =< max => ngx_sprintf_num(b, max, v, z, h, w) = Take(b \o u, max)
    <3>1. NumberPuts(v, h, z, w)
      BY NumeralPut
    <3>2. QED
      BY <2>4, <3>1 DEF NumberPuts
  <2>6. PICK b \in Seq(Characters) : b = Take(buf \o sign, max) /\ Len(b) =< max
    BY <2>2, Fits
  <2>7. ngx_sprintf_num(b, max, v, z, h, w) = Take(b \o u, max)
    BY <2>5, <2>6
  <2>8. Take(b \o u, max) = Take(buf \o (sign \o u), max)
    BY <2>2, <2>6, PutBehind
  <2> HIDE DEF t
  <2>9. QED
    BY <2>1, <2>2, <2>3, <2>4, <2>5, <2>6, <2>7, <2>8
<1> HIDE DEF sign, t
<1>5. <<>> \in Seq(Characters) /\ Len(<<>>) < 1
  BY EmptySeq
<1>6. PICK w \in Seq(Characters) : w = sign \o t
  BY <1>4, <1>5, ConcatProperties
<1>7. w = NumberText(d, n)
  BY <1>6 DEF NumberText, sign, t
<1>8. QED
  BY <1>0, <1>4, <1>6, <1>7 DEF Stands

\* Where there is no room left nothing is put.
LEMMA FullPut ==
  ASSUME NEW S, NEW b \in Seq(S), NEW x \in Seq(S), NEW max \in Nat, Len(b) = max
  PROVE  Take(b \o x, max) = b
<1>1. Len(b) =< max /\ max - Len(b) = 0
  OBVIOUS
<1>2. b \o Take(x, 0) = Take(b \o x, max)
  BY <1>1, TakeGlue
<1>3. Take(x, 0) \in Seq(S) /\ Len(Take(x, 0)) = 0
  BY TakeIs, LenProperties
<1>4. Take(x, 0) = <<>>
  BY <1>3, EmptySeq
<1>5. QED
  BY <1>2, <1>4, ConcatEmptySeq

\* The point is put where there is room for it.
LEMMA DotPut ==
  ASSUME NEW b \in Seq(Characters), NEW max \in Nat, Len(b) =< max
  PROVE  /\ <<".">> \in Seq(Characters)
         /\ Dotted(b, max) = Take(b \o <<".">>, max)
<1>0. "." \in Characters /\ Len(b) \in Nat
  BY PrintfAssumption, LenProperties, Zenon
<1>1. <<".">> \in Seq(Characters)
  BY <1>0
<1>2. CASE Len(b) < max
  <2>1. Append(b, ".") = b \o <<".">>
    BY <1>0, AppendIsConcat
  <2>2. PICK u \in Seq(Characters) : u = Append(b, ".") /\ Len(u) = Len(b) + 1
    BY <1>0, AppendProperties
  <2>3. Len(u) =< max
    BY <1>0, <1>2, <2>2
  <2>4. Take(u, max) = u
    BY <2>3, TakeIs
  <2>5. QED
    BY <1>1, <1>2, <2>1, <2>2, <2>4 DEF Dotted
<1>3. CASE ~(Len(b) < max)
  <2>1. Len(b) = max
    BY <1>0, <1>3
  <2>2. Take(b \o <<".">>, max) = b
    BY <1>1, <2>1, FullPut
  <2>3. QED
    BY <1>1, <1>3, <2>2 DEF Dotted
<1>4. QED
  BY <1>2, <1>3

\* The powers of a base.
LEMMA PowerIs ==
  ASSUME NEW base \in Nat, NEW n \in Nat
  PROVE  /\ Power(base, n) \in Nat /\ Power(base, 0) = 1
         /\ Power(base, n + 1) = base * Power(base, n)
<1> DEFINE Body(f, k) == IF k = 0 THEN 1 ELSE base * f[k - 1]
           h(m) == CHOOSE e : e = [k \in 0..m |-> Body(e, k)]
<1>1. ASSUME NEW m \in Nat
      PROVE  h(m)[0] = 1 /\ \A k \in 1..m : h(m)[k] = base * h(m)[k - 1]
  <2> DEFINE g == [x \in (1..m) \X Nat |-> base * x[2]]
  <2>1. g \in [(1..m) \X Nat -> Nat]
    OBVIOUS
  <2>2. PICK f \in [0..m -> Nat] : f[0] = 1 /\ \A k \in 1..m : f[k] = base * f[k - 1]
    <3>1. PICK f \in [0..m -> Nat] : Repeats(f, g, 1, m)
      <4> HIDE DEF g
      <4>1. QED
        BY <2>1, Repeated
    <3>2. ASSUME NEW k \in 1..m PROVE g[<<k, f[k - 1]>>] = base * f[k - 1]
      <4>1. f[k - 1] \in Nat
        BY <3>1
      <4>2. QED
        BY <4>1
    <3> HIDE DEF g
    <3>3. QED
      BY <3>1, <3>2 DEF Repeats
  <2>3. f = [k \in 0..m |-> Body(f, k)]
    <3>1. ASSUME NEW k \in 0..m PROVE f[k] = Body(f, k)
      <4>1. k # 0 => k \in 1..m
        OBVIOUS
      <4>2. QED
        BY <2>2, <4>1
    <3> HIDE DEF Body
    <3>2. QED
      BY <2>2, <3>1
  <2>4. h(m) = [k \in 0..m |-> Body(h(m), k)]
    <3> HIDE DEF Body
    <3>1. QED
      BY <2>3
  <2> HIDE DEF h
  <2>5. QED
    BY <2>4
<1>2. ASSUME NEW m \in Nat PROVE Power(base, m) = h(m)[m]
  BY DEF Power
<1> HIDE DEF h
<1>3. ASSUME NEW m \in Nat, NEW l \in Nat, l =< m
      PROVE  h(m)[l] = h(l)[l] /\ h(l)[l] \in Nat
  <2> DEFINE G == {k \in Int : h(m)[k] = h(l)[k] /\ h(l)[k] \in Nat}
  <2>1. 0 \in G
    BY <1>1
  <2>2. ASSUME NEW k \in 1..l, k - 1 \in G PROVE k \in G
    <3>1. k \in 1..m /\ k \in Int
      BY <1>3
    <3>2. h(m)[k] = base * h(m)[k - 1] /\ h(l)[k] = base * h(l)[k - 1]
      BY <1>1, <3>1
    <3>3. QED
      BY <2>2, <3>1, <3>2
  <2>3. 0..l \subseteq G
    <3> HIDE DEF G
    <3>1. QED
      BY <2>1, <2>2, UpTo
  <2>4. QED
    BY <2>3
<1>4. h(n + 1)[n + 1] = base * h(n + 1)[n]
  BY <1>1
<1>5. QED
  BY <1>1, <1>2, <1>3, <1>4

\* %f stands for a sign, a whole number and, if places are asked for, a point and them.
Halves(m) == (m * 2 + 1000) \div 2000
FracIn(d, n) == Halves((Abs(n) % 1000) * Power(10, d.frac_width))
CarryIn(d, n) == Carry(d, FracIn(d, n) = Power(10, d.frac_width))
WholeIn(d, n) == (Abs(n) \div 1000) + (IF CarryIn(d, n) THEN 1 ELSE 0)
RestIn(d, n) == IF CarryIn(d, n) THEN 0 ELSE FracIn(d, n)
WholeText(d, n) == SignOf(n) \o Digits(WholeIn(d, n), 0, d.zero, d.width)
FloatText(d, n) ==
  IF d.frac_width = 0 THEN WholeText(d, n)
  ELSE (WholeText(d, n) \o <<".">>) \o Digits(RestIn(d, n), 0, "0", d.frac_width)
LEMMA FloatStands ==
  ASSUME NEW d, NEW args, Known(d), d.conv = "f", args[1] \in Int
  PROVE  Stands(d, args, FloatText(d, args[1]))
<1>0. PICK arg \in Int, n \in Nat : arg = args[1] /\ n = Abs(arg)
  BY DEF Abs
<1>1. PICK ten \in Nat : ten = Power(10, d.frac_width)
  BY PowerIs DEF Known
<1>2. PICK frac \in Nat : frac = FracIn(d, arg)
  <2>1. PICK r \in Nat : r = n % 1000
    OBVIOUS
  <2>2. PICK m \in Nat : m = r * ten
    OBVIOUS
  <2>3. (m * 2 + 1000) \div 2000 \in Nat
    BY SMT
  <2>4. QED
    BY <1>0, <1>1, <2>1, <2>2, <2>3 DEF FracIn, Halves
<1>3. PICK whole \in Nat, rest \in Nat :
        /\ whole = WholeIn(d, arg) /\ rest = RestIn(d, arg)
        /\ \A b, max : PutRounded(b, max, d, n, frac)
                         = PutFraction(ngx_sprintf_num(b, max, whole, d.zero, 0, d.width), max, d, rest)
  <2>1. WholeIn(d, arg) \in Nat /\ RestIn(d, arg) \in Nat
    <3>1. n \div 1000 \in Nat
      BY SMT
    <3>2. QED
      BY <1>0, <1>2, <3>1 DEF WholeIn, RestIn
  <2>2. \A b, max : PutRounded(b, max, d, n, frac)
                      = PutFraction(ngx_sprintf_num(b, max, WholeIn(d, arg), d.zero, 0, d.width), max, d, RestIn(d, arg))
    BY <1>0, <1>1, <1>2 DEF PutRounded, PutCarried, WholeIn, RestIn, CarryIn
  <2>3. QED
    BY <2>1, <2>2
<1>4. PICK z \in Characters, o \in Characters, width \in Int, fw \in Nat :
        z = d.zero /\ o = "0" /\ width = d.width /\ fw = d.frac_width
  <2>1. 1 \in 1..16 /\ Figures[1] = "0"
    BY DEF Figures
  <2>2. "0" \in Characters
    BY <2>1, PrintfAssumption, Zenon
  <2>3. QED
    BY <2>2 DEF Known
<1>5. PICK u \in Seq(Characters) :
        /\ u = Digits(whole, 0, z, width)
        /\ \A b \in Seq(Characters), max \in Nat :
             Len(b) =< max => ngx_sprintf_num(b, max, whole, z, 0, width) = Take(b \o u, max)
  <2>1. NumberPuts(whole, 0, z, width)
    BY NumeralPut
  <2>2. QED
    BY <2>1 DEF NumberPuts
<1>6. PICK v \in Seq(Characters) :
        /\ v = Digits(rest, 0, o, fw)
        /\ \A b \in Seq(Characters), max \in Nat :
             Len(b) =< max => ngx_sprintf_num(b, max, rest, o, 0, fw) = Take(b \o v, max)
  <2>1. NumberPuts(rest, 0, o, fw)
    BY NumeralPut
  <2>2. QED
    BY <2>1 DEF NumberPuts
<1>7. PICK s \in Seq(Characters), dot \in Seq(Characters) : s = SignOf(arg) /\ dot = <<".">>
  <2>1. <<>> \in Seq(Characters) /\ Len(<<>>) < 1 /\ Len(<<>>) =< 1
    BY EmptySeq
  <2>2. QED
    BY <2>1, SignPut, DotPut
<1>8. PICK t \in Seq(Characters), t3 \in Seq(Characters) : t = s \o u /\ t3 = (t \o dot) \o v
  BY ConcatProperties
<1>9. ASSUME NEW buf \in Seq(Characters), NEW max \in Nat, Len(buf) < max
      PROVE  Put(buf, max, d, args) = Take(buf \o (IF fw = 0 THEN t ELSE t3), max)
  <2>1. PICK b1 \in Seq(Characters) : b1 = Take(buf \o s, max) /\ Len(b1) =< max
    BY Fits
  <2>2. PICK b2 \in Seq(Characters) : b2 = Take(buf \o t, max) /\ Len(b2) =< max
    BY Fits
  <2>3. ngx_sprintf_num(b1, max, whole, z, 0, width) = b2
    <3>1. ngx_sprintf_num(b1, max, whole, z, 0, width) = Take(b1 \o u, max)
      BY <1>5, <2>1
    <3>2. QED
      BY <1>8, <2>1, <2>2, <3>1, PutBehind
  <2>4. Put(buf, max, d, args) = PutFraction(b2, max, d, rest)
    <3>1. Put(buf, max, d, args) = PutFloat(buf, max, d, arg)
      BY <1>0 DEF Put
    <3>2. PutSign(buf, arg) = b1
      BY <1>7, <1>9, <2>1, SignPut
    <3>3. PutFloat(buf, max, d, arg) = PutRounded(b1, max, d, n, frac)
      BY <1>0, <1>1, <1>2, <3>2 DEF PutFloat, FracIn, Halves
    <3>4. QED
      BY <1>3, <1>4, <2>3, <3>1, <3>3
  <2>5. CASE fw = 0
    BY <1>4, <2>2, <2>4, <2>5 DEF PutFraction
  <2>6. CASE fw # 0
    <3>1. PICK td \in Seq(Characters) : td = t \o dot
      BY ConcatProperties
    <3>2. PICK b3 \in Seq(Characters) : b3 = Take(buf \o td, max) /\ Len(b3) =< max
      BY Fits
    <3>3. Dotted(b2, max) = b3
      <4>1. Dotted(b2, max) = Take(b2 \o dot, max)
        BY <1>7, <2>2, DotPut
      <4>2. Take(b2 \o dot, max) = Take(buf \o (t \o dot), max)
        BY <2>2, PutBehind
      <4>3. QED
        BY <3>1, <3>2, <4>1, <4>2
    <3>4. PutFraction(b2, max, d, rest) = ngx_sprintf_num(b3, max, rest, o, 0, fw)
      BY <1>4, <2>6, <3>3 DEF PutFraction
    <3>5. ngx_sprintf_num(b3, max, rest, o, 0, fw) = Take(b3 \o v, max)
      BY <1>6, <3>2
    <3>6. Take(b3 \o v, max) = Take(buf \o (td \o v), max)
      BY <3>2, PutBehind
    <3>7. QED
      BY <1>8, <2>4, <2>6, <3>1, <3>4, <3>5, <3>6
  <2>7. QED
    BY <2>5, <2>6
<1>10. (IF fw = 0 THEN t ELSE t3) = FloatText(d, arg)
  BY <1>3, <1>4, <1>5, <1>6, <1>7, <1>8 DEF FloatText, WholeText
<1>11. (IF fw = 0 THEN t ELSE t3) \in Seq(Characters)
  BY <1>8
<1>12. QED
  BY <1>0, <1>9, <1>10, <1>11 DEF Stands

-----------------------------------------------------------------------------
\* What a turn of the loop stands for.
TurnSays(p, t) ==
  /\ t \in Seq(Characters)
  /\ \A buf \in Seq(Characters), max \in Nat :
       Len(buf) < max => PutNext(buf, max, p) = Take(buf \o t, max)

\* What the flags of a directive can be.
LEMMA Converted ==
  ASSUME NEW fmt
  PROVE  /\ Directive(fmt).zero \in Characters /\ Directive(fmt).hex \in 0..2
         /\ Directive(fmt).zero = "0" \/ Directive(fmt).zero = Fill
<1>1. "0" \in Characters /\ Fill \in Characters
  <2>1. 1 \in 1..16 /\ Figures[1] = "0"
    BY DEF Figures
  <2>2. QED
    BY <2>1, PrintfAssumption, Zenon
<1>2. ASSUME NEW w, NEW b, NEW s, NEW m, NEW f
      PROVE  /\ Conversion(fmt, w, b, s, m, f).zero \in Characters
             /\ Conversion(fmt, w, b, s, m, f).hex \in 0..2
             /\ \/ Conversion(fmt, w, b, s, m, f).zero = "0"
                \/ Conversion(fmt, w, b, s, m, f).zero = Fill
  BY <1>1 DEF Conversion
<1>3. QED
  BY <1>2 DEF Directive, Wide, Flagged, Marked

\* A character outside a directive stands for itself.
LEMMA CharacterSaid ==
  ASSUME NEW p, p.fmt \in Seq(Characters), p.fmt # <<>>, Head(p.fmt) # "%"
  PROVE  TurnSays(p, <<Head(p.fmt)>>)
<1>1. PICK c \in Characters : c = Head(p.fmt)
  BY HeadTailProperties
<1>2. ASSUME NEW buf \in Seq(Characters), NEW max \in Nat, Len(buf) < max
      PROVE  PutNext(buf, max, p) = Take(buf \o <<c>>, max)
  <2>1. PICK u \in Seq(Characters) : u = Append(buf, c) /\ u = buf \o <<c>> /\ Len(u) = Len(buf) + 1
    <3>1. Append(buf, c) = buf \o <<c>>
      BY AppendIsConcat
    <3>2. Append(buf, c) \in Seq(Characters) /\ Len(Append(buf, c)) = Len(buf) + 1
      BY AppendProperties
    <3>3. QED
      BY <3>1, <3>2
  <2>2. Len(u) =< max
    BY <1>2, <2>1, LenProperties
  <2>3. Take(u, max) = u
    BY <2>2, TakeIs
  <2>4. QED
    BY <1>1, <2>1, <2>3 DEF PutNext
<1>3. <<c>> \in Seq(Characters)
  OBVIOUS
<1>4. QED
  BY <1>1, <1>2, <1>3 DEF TurnSays

\* A turn on a directive.
LEMMA DirectiveSaid ==
  ASSUME NEW p, Head(p.fmt) = "%", NEW t, Stands(Directive(Tail(p.fmt)), p.args, t)
  PROVE  TurnSays(p, t)
BY DEF Stands, TurnSays, PutNext

\* Each turn stands for some text.
LEMMA PieceSaid ==
  ASSUME NEW p, p.fmt \in Seq(Characters), p.fmt # <<>>,
         Head(p.fmt) = "%" => Suits(Directive(Tail(p.fmt)), p.args)
  PROVE  \E t : TurnSays(p, t)
<1>1. CASE Head(p.fmt) # "%"
  BY <1>1, CharacterSaid
<1>2. CASE Head(p.fmt) = "%"
  <2>1. PICK d : d = Directive(Tail(p.fmt))
    OBVIOUS
  <2>2. Suits(d, p.args)
    BY <1>2, <2>1
  <2>3. \E t : Stands(d, p.args, t)
    <3>1. CASE d.conv = "s"
      BY <2>2, <3>1, TextStands DEF Suits
    <3>2. CASE d.conv \in {"d", "i", "L", "P", "p"}
      <4>1. Known(d) /\ p.args[1] \in Int
        BY <2>1, <2>2, <3>2, Converted DEF Known, Suits, Numbers
      <4>2. QED
        BY <3>2, <4>1, NumberStands
    <3>3. CASE d.conv = "f"
      <4>1. Known(d) /\ p.args[1] \in Int
        BY <2>1, <2>2, <3>3, Converted DEF Known, Suits, Numbers
      <4>2. QED
        BY <3>3, <4>1, FloatStands
    <3>4. CASE d.conv \notin {"s", "d", "i", "L", "P", "p", "f"}
      BY <2>2, <3>4, OtherStands DEF Suits
    <3>5. QED
      BY <3>1, <3>2, <3>3, <3>4
  <2>4. QED
    BY <1>2, <2>1, <2>3, DirectiveSaid
<1>3. QED
  BY <1>1, <1>2

\* Prints that stay among themselves.
Printable(P) ==
  \A p \in P :
    /\ p.fmt \in Seq(Characters)
    /\ p.fmt # <<>> =>
         /\ Following(p) \in P
         /\ Head(p.fmt) = "%" => Suits(Directive(Tail(p.fmt)), p.args)

\* The turns on p, and the text that they stand for.
Saying(s, t) ==
  IF s.p.fmt = <<>> THEN t = s
  ELSE /\ t.p = Following(s.p)
       /\ \E piece : TurnSays(s.p, piece) /\ t.text = s.text \o piece
Sayings(f, n, p, P) ==
  /\ f \in [0..n -> [p : P, text : Seq(Characters)]]
  /\ f[0] = [p |-> p, text |-> <<>>]
  /\ \A k \in 1..n : Saying(f[k - 1], f[k])

\* The turns of any print.
LEMMA Said ==
  ASSUME NEW P, Printable(P), NEW p \in P, NEW n \in Nat
  PROVE  \E f : Sayings(f, n, p, P)
<1> DEFINE T == [p : P, text : Seq(Characters)]
           base == [p |-> p, text |-> <<>>]
           step(s) == CHOOSE t \in T : Saying(s, t)
           g == [x \in (1..n) \X T |-> step(x[2])]
<1>1. base \in T
  BY EmptySeq
<1>2. ASSUME NEW s \in T PROVE \E t \in T : Saying(s, t)
  <2>1. CASE s.p.fmt = <<>>
    BY <2>1 DEF Saying
  <2>2. CASE s.p.fmt # <<>>
    <3>1. PICK piece : TurnSays(s.p, piece)
      <4>1. s.p \in P
        OBVIOUS
      <4>2. QED
        BY <2>2, <4>1, PieceSaid DEF Printable
    <3>2. PICK q \in P : q = Following(s.p)
      BY <2>2 DEF Printable
    <3>3. PICK u \in Seq(Characters) : u = s.text \o piece
      BY <3>1, ConcatProperties DEF TurnSays
    <3> DEFINE t == [p |-> q, text |-> u]
    <3>4. t \in T /\ t.p = q /\ t.text = u
      OBVIOUS
    <3> HIDE DEF t, T
    <3>5. Saying(s, t)
      BY <2>2, <3>1, <3>2, <3>3, <3>4 DEF Saying
    <3>6. QED
      BY <3>4, <3>5
  <2>3. QED
    BY <2>1, <2>2
<1> HIDE DEF T, base
<1>3. ASSUME NEW s \in T PROVE step(s) \in T /\ Saying(s, step(s))
  BY <1>2
<1> HIDE DEF step
<1>4. g \in [(1..n) \X T -> T]
  BY <1>3
<1>5. PICK f \in [0..n -> T] : Repeats(f, g, base, n)
  <2> HIDE DEF g
  <2>1. QED
    BY <1>1, <1>4, Repeated
<1>6. ASSUME NEW k \in 1..n PROVE Saying(f[k - 1], f[k])
  <2>1. PICK s \in T : s = f[k - 1]
    BY <1>5
  <2>2. g[<<k, s>>] = step(s)
    OBVIOUS
  <2> HIDE DEF g
  <2>3. f[k] = step(s)
    BY <1>5, <2>1, <2>2 DEF Repeats
  <2>4. QED
    BY <1>3, <2>1, <2>3
<1>7. f[0] = base
  BY <1>5 DEF Repeats
<1>8. QED
  BY <1>5, <1>6, <1>7 DEF Sayings, T, base

\* ngx_vslprintf puts text behind buf, as far as there is room.
PrintsText(fmt, args, text) ==
  /\ text \in Seq(Characters)
  /\ \A buf \in Seq(Characters), max \in Nat :
       Len(buf) =< max => ngx_vslprintf(buf, max, fmt, args) = Take(buf \o text, max)

\* By induction over the turns; when there is no room left, nothing more is put.
LEMMA PutTogether ==
  ASSUME NEW P, Printable(P), NEW fmt \in Seq(Characters), NEW args, [fmt |-> fmt, args |-> args] \in P,
         NEW f, Sayings(f, Len(fmt), [fmt |-> fmt, args |-> args], P)
  PROVE  PrintsText(fmt, args, f[Len(fmt)].text)
<1>0. SUFFICES ASSUME NEW buf \in Seq(Characters), NEW max \in Nat, Len(buf) =< max
               PROVE  /\ f[Len(fmt)].text \in Seq(Characters)
                      /\ ngx_vslprintf(buf, max, fmt, args) = Take(buf \o f[Len(fmt)].text, max)
  <2>1. <<>> \in Seq(Characters) /\ Len(<<>>) =< 0
    BY EmptySeq
  <2>2. QED
    BY <2>1 DEF PrintsText
<1>1. PICK n \in Nat : n = Len(fmt)
  BY LenProperties
<1> DEFINE T == [buf : Seq(Characters), p : P]
           base == [buf |-> buf, p |-> [fmt |-> fmt, args |-> args]]
           Body(e, k) == IF k = 0 THEN base ELSE PutTurn(e[k - 1], max)
           g == [x \in (1..n) \X T |-> PutTurn(x[2], max)]
           h == CHOOSE e : e = [k \in 0..n |-> Body(e, k)]
<1>2. base \in T
  OBVIOUS
<1>3. ASSUME NEW t \in T, t.p.fmt # <<>>, Len(t.buf) < max, NEW piece, TurnSays(t.p, piece)
      PROVE  /\ PutTurn(t, max) \in T /\ PutTurn(t, max).p = Following(t.p)
             /\ PutTurn(t, max).buf = Take(t.buf \o piece, max)
             /\ Len(PutTurn(t, max).buf) =< max
  <2>1. PICK b \in Seq(Characters), q \in P : b = t.buf /\ q = t.p
    OBVIOUS
  <2>2. PICK c \in Seq(Characters) : c = Take(b \o piece, max) /\ Len(c) =< max
    BY <1>3, Fits DEF TurnSays
  <2>3. PutNext(b, max, q) = c
    BY <1>3, <2>1, <2>2 DEF TurnSays
  <2>4. PICK r \in P : r = Following(q)
    BY <1>3, <2>1 DEF Printable
  <2>5. ~(Len(b) >= max)
    BY <1>3, <2>1, LenProperties
  <2>6. PutTurn(t, max) = [buf |-> c, p |-> r]
    BY <1>3, <2>1, <2>3, <2>4, <2>5 DEF PutTurn
  <2>7. QED
    BY <2>1, <2>2, <2>4, <2>6
<1>4. ASSUME NEW t \in T PROVE PutTurn(t, max) \in T
  <2>1. CASE t.p.fmt = <<>> \/ Len(t.buf) >= max
    BY <2>1 DEF PutTurn
  <2>2. CASE ~(t.p.fmt = <<>> \/ Len(t.buf) >= max)
    <3>1. \E piece : TurnSays(t.p, piece)
      <4>1. t.p \in P
        OBVIOUS
      <4>2. QED
        BY <2>2, <4>1, PieceSaid DEF Printable
    <3>2. Len(t.buf) < max
      <4>1. t.buf \in Seq(Characters)
        OBVIOUS
      <4>2. QED
        BY <2>2, <4>1, LenProperties
    <3>3. QED
      BY <1>3, <2>2, <3>1, <3>2
  <2>3. QED
    BY <2>1, <2>2
<1>5. g \in [(1..n) \X T -> T]
  BY <1>4
<1> HIDE DEF T
<1>6. PICK e \in [0..n -> T] : e[0] = base /\ \A k \in 1..n : e[k] = PutTurn(e[k - 1], max)
  <2> HIDE DEF base
  <2>1. PICK e \in [0..n -> T] : Repeats(e, g, base, n)
    <3> HIDE DEF g
    <3>1. QED
      BY <1>2, <1>5, Repeated
  <2>2. ASSUME NEW k \in 1..n PROVE g[<<k, e[k - 1]>>] = PutTurn(e[k - 1], max)
    <3>1. e[k - 1] \in T
      BY <2>1
    <3>2. QED
      BY <3>1
  <2> HIDE DEF g
  <2>3. QED
    BY <2>1, <2>2 DEF Repeats
<1>7. e = [k \in 0..n |-> Body(e, k)]
  <2>1. ASSUME NEW k \in 0..n PROVE e[k] = Body(e, k)
    <3>1. k # 0 => k \in 1..n
      OBVIOUS
    <3> HIDE DEF base
    <3>2. QED
      BY <1>6, <3>1
  <2> HIDE DEF Body
  <2>2. QED
    BY <1>6, <2>1
<1>8. h = [k \in 0..n |-> Body(h, k)]
  <2> HIDE DEF Body
  <2>1. QED
    BY <1>7
<1>9. ngx_vslprintf(buf, max, fmt, args) = h[n].buf
  BY <1>1 DEF ngx_vslprintf
<1> HIDE DEF h
<1>10. h[0] = base /\ \A k \in 1..n : h[k] = PutTurn(h[k - 1], max)
  BY <1>8
<1>11. PICK F \in [0..n -> [p : P, text : Seq(Characters)]] :
         /\ F = f /\ F[0] = [p |-> [fmt |-> fmt, args |-> args], text |-> <<>>]
         /\ \A k \in 1..n : Saying(F[k - 1], F[k])
  BY <1>1 DEF Sayings
<1> DEFINE Follows(t, s) ==
             /\ t \in T /\ Len(t.buf) =< max
             /\ t.buf = Take(buf \o s.text, max)
             /\ t.p = s.p \/ Len(t.buf) >= max
           G == {k \in Int : Follows(h[k], F[k])}
<1>12. Follows(h[0], F[0])
  <2>1. buf \o <<>> = buf /\ Take(buf, max) = buf
    BY <1>0, ConcatEmptySeq, TakeIs
  <2>2. h[0].buf = buf /\ h[0].p = F[0].p /\ F[0].text = <<>> /\ h[0] \in T
    BY <1>2, <1>10, <1>11
  <2>3. QED
    BY <1>0, <2>1, <2>2
<1>13. ASSUME NEW k \in 1..n, Follows(h[k - 1], F[k - 1]) PROVE Follows(h[k], F[k])
  <2>1. PICK t, s : t = h[k - 1] /\ s = F[k - 1] /\ t \in T
    BY <1>13
  <2>2. PICK b \in Seq(Characters), x \in Seq(Characters) : b = t.buf /\ x = s.text
    <3>1. k - 1 \in 0..n
      OBVIOUS
    <3>2. s.text \in Seq(Characters)
      BY <1>11, <2>1, <3>1
    <3>3. t.buf \in Seq(Characters)
      BY <2>1 DEF T
    <3>4. QED
      BY <3>2, <3>3
  <2>3. /\ Len(b) \in Nat /\ Len(b) =< max /\ b = Take(buf \o x, max)
        /\ t.p = s.p \/ Len(b) >= max
    BY <1>13, <2>1, <2>2, LenProperties
  <2>4. h[k] = PutTurn(t, max) /\ Saying(s, F[k])
    BY <1>10, <1>11, <2>1
  <2>5. CASE Len(b) >= max
    <3>1. h[k] = t
      BY <2>2, <2>4, <2>5 DEF PutTurn
    <3>2. F[k].text = x \/ \E piece \in Seq(Characters) : F[k].text = x \o piece
      BY <2>2, <2>4 DEF Saying, TurnSays
    <3>3. b = Take(buf \o F[k].text, max)
      <4>1. CASE F[k].text = x
        BY <2>3, <4>1
      <4>2. ASSUME NEW piece \in Seq(Characters), F[k].text = x \o piece
            PROVE  b = Take(buf \o F[k].text, max)
        <5>1. Len(b) = max
          BY <2>3, <2>5
        <5>2. Take(b \o piece, max) = b
          BY <5>1, FullPut
        <5>3. Take(b \o piece, max) = Take(buf \o (x \o piece), max)
          BY <2>3, PutBehind
        <5>4. QED
          BY <4>2, <5>2, <5>3
      <4>3. QED
        BY <3>2, <4>1, <4>2
    <3>4. QED
      BY <2>1, <2>2, <2>3, <2>5, <3>1, <3>3
  <2>6. CASE Len(b) < max /\ s.p.fmt = <<>>
    <3>1. t.p = s.p /\ F[k] = s
      BY <2>3, <2>4, <2>6 DEF Saying
    <3>2. h[k] = t
      BY <2>4, <2>6, <3>1 DEF PutTurn
    <3>3. QED
      BY <2>1, <2>2, <2>3, <3>1, <3>2
  <2>7. CASE Len(b) < max /\ s.p.fmt # <<>>
    <3>1. t.p = s.p
      BY <2>3, <2>7
    <3>2. PICK piece \in Seq(Characters) :
            TurnSays(s.p, piece) /\ F[k].text = x \o piece /\ F[k].p = Following(s.p)
      BY <2>2, <2>4, <2>7 DEF Saying, TurnSays
    <3>3. /\ h[k] \in T /\ h[k].p = F[k].p /\ h[k].buf = Take(b \o piece, max)
          /\ Len(h[k].buf) =< max
      BY <1>3, <2>1, <2>2, <2>4, <2>7, <3>1, <3>2, ZenonT(40) DEF T
    <3>4. Take(b \o piece, max) = Take(buf \o (x \o piece), max)
      BY <2>3, PutBehind
    <3>5. QED
      BY <3>2, <3>3, <3>4
  <2>8. QED
    BY <2>3, <2>5, <2>6, <2>7
<1>14. 0..n \subseteq G
  <2> HIDE DEF Follows
  <2>1. 0 \in G
    BY <1>12
  <2>2. ASSUME NEW k \in 1..n, k - 1 \in G PROVE k \in G
    BY <1>13, <2>2
  <2> HIDE DEF G
  <2>3. QED
    BY <2>1, <2>2, UpTo
<1>15. h[n].buf = Take(buf \o F[n].text, max)
  BY <1>14
<1>16. F[n].text \in Seq(Characters)
  BY <1>11
<1>17. QED
  BY <1>1, <1>9, <1>11, <1>15, <1>16

\* Every print stands for a text.
LEMMA HasText ==
  ASSUME NEW p \in Prints
  PROVE  \E text : PrintsText(p.fmt, p.args, text)
<1>1. Printable(Prints)
  BY PrintfAssumption, Zenon DEF Printable
<1>2. PICK args : args = p.args
  OBVIOUS
<1>3. PICK fmt \in Seq(Characters) : fmt = p.fmt /\ p = [fmt |-> fmt, args |-> args]
  BY <1>2, PrintfAssumption, Zenon
<1>4. PICK f : Sayings(f, Len(fmt), p, Prints)
  BY <1>1, Said, LenProperties
<1>5. PrintsText(fmt, args, f[Len(fmt)].text)
  BY <1>1, <1>3, <1>4, PutTogether
<1>6. QED
  BY <1>2, <1>3, <1>5

\* However little room there is, what ngx_vslprintf writes is the beginning of what it
\* writes with room enough.
LEMMA PrintsBounded == Bounded
<1>2. Endless \in Nat
  BY PrintfAssumption, Zenon
<1>3. SUFFICES ASSUME NEW p \in Prints,
                      Len(ngx_vslprintf(<<>>, Endless, p.fmt, p.args)) < Endless,
                      NEW max \in 0..Len(ngx_vslprintf(<<>>, Endless, p.fmt, p.args)) + 1
               PROVE  ngx_vslprintf(<<>>, max, p.fmt, p.args)
                        = Take(ngx_vslprintf(<<>>, Endless, p.fmt, p.args), max)
  BY DEF Bounded
<1>4. PICK args : args = p.args
  OBVIOUS
<1>5. PICK fmt \in Seq(Characters) : fmt = p.fmt /\ p = [fmt |-> fmt, args |-> args]
  BY <1>4, PrintfAssumption, Zenon
<1>6. PICK text : PrintsText(fmt, args, text)
  BY <1>4, <1>5, HasText
<1>7. ASSUME NEW m \in Nat
      PROVE  text \in Seq(Characters) /\ ngx_vslprintf(<<>>, m, fmt, args) = Take(text, m)
  <2>1. <<>> \in Seq(Characters) /\ Len(<<>>) =< m
    <3>1. <<>> \in Seq(Characters) /\ Len(<<>>) = 0
      BY EmptySeq
    <3>2. QED
      BY <3>1
  <2>2. text \in Seq(Characters) /\ ngx_vslprintf(<<>>, m, fmt, args) = Take(<<>> \o text, m)
    BY <1>6, <2>1 DEF PrintsText
  <2>3. <<>> \o text = text
    BY <2>2, ConcatEmptySeq
  <2>4. QED
    BY <2>2, <2>3
<1>8. Take(text, Endless) = text
  <2>1. Len(Take(text, Endless)) < Endless
    BY <1>2, <1>3, <1>4, <1>5, <1>7
  <2>2. text \in Seq(Characters) /\ Len(text) \in Nat
    BY <1>2, <1>7, LenProperties
  <2>3. Len(text) =< Endless
    BY <1>2, <2>1, <2>2, TakeIs
  <2>4. QED
    BY <1>2, <2>2, <2>3, TakeIs
<1>9. max \in Nat
  OBVIOUS
<1>10. QED
  BY <1>2, <1>4, <1>5, <1>7, <1>8, <1>9

-----------------------------------------------------------------------------
\* A front of no characters of cs.
LEMMA SpanNone ==
  ASSUME NEW S, NEW s \in Seq(S), NEW cs, s # <<>>, s[1] \notin cs
  PROVE  Span(s, cs) = 0
<1> DEFINE I == {i \in 1..Len(s) : s[i] \notin cs}
<1>1. Len(s) \in Nat \ {0}
  BY EmptySeq
<1>2. 1 \in I /\ I \in SUBSET Int /\ \A i \in I : 1 =< i
  BY <1>1
<1>3. I # {}
  BY <1>2
<1>4. SelectInSeq(s, LAMBDA c : c \notin cs) = IF I # {} THEN Min(I) ELSE 0
  BY DEF SelectInSeq
<1> HIDE DEF I
<1>5. Min(I) = 1
  BY <1>2, MinIs
<1>6. QED
  BY <1>3, <1>4, <1>5 DEF Span

\* "%s".
LEMMA DirectiveText ==
  /\ Directive(<<"s">>).conv = "s" /\ Directive(<<"s">>).rest = <<>>
<1> DEFINE fmt == <<"s">>
           C == {"s"}
<1>1. fmt \in Seq(C) /\ Len(fmt) = 1 /\ fmt[1] = "s" /\ fmt # <<>>
  OBVIOUS
<1>2. "s" \notin Decimal /\ "s" \notin {"u", "X", "x"} /\ "s" # "."
  <2>1. \A i \in 1..10 : Figures[i] # "s"
    <3>1. \A i \in 1..10 : i = 1 \/ i = 2 \/ i = 3 \/ i = 4 \/ i = 5 \/ i = 6 \/ i = 7 \/ i = 8 \/ i = 9 \/ i = 10
      OBVIOUS
    <3>2. QED
      BY <3>1 DEF Figures
  <2>2. QED
    BY <2>1 DEF Decimal
<1> HIDE DEF fmt, C
<1>3. Skip(fmt, 0) = fmt
  <2>1. SubSeq(fmt, 1, Len(fmt)) = fmt
    BY <1>1, SubSeqFull
  <2>2. QED
    BY <2>1 DEF Skip
<1>4. Skip(fmt, 1) = <<>>
  <2>1. SubSeq(fmt, 2, 1) = <<>>
    BY SubSeqEmpty
  <2>2. QED
    BY <1>1, <2>1 DEF Skip
<1>5. Span(fmt, Decimal) = 0 /\ Span(fmt, {"u", "X", "x"}) = 0
  BY <1>1, <1>2, SpanNone
<1>6. Precision(fmt) = 0
  BY <1>1, <1>2 DEF Precision
<1>7. PICK flags : Directive(fmt) = Marked(fmt, 0, flags, fmt)
  <2>1. Directive(fmt) = Wide(fmt, 0)
    BY <1>5 DEF Directive
  <2>2. Wide(fmt, 0) = Flagged(fmt, 0, 0)
    BY <1>3, <1>5 DEF Wide
  <2>3. Flagged(fmt, 0, 0) = Marked(fmt, 0, SubSeq(fmt, 1, 0), fmt)
    BY <1>3 DEF Flagged
  <2>4. QED
    BY <2>1, <2>2, <2>3
<1>8. Marked(fmt, 0, flags, fmt) = Conversion(fmt, 0, SelectSeq(flags, LAMBDA c : c # "u"), flags = <<>>, fmt, 0)
  BY <1>6 DEF Marked
<1>9. \A b, g : Conversion(fmt, 0, b, g, fmt, 0).conv = "s" /\ Conversion(fmt, 0, b, g, fmt, 0).rest = <<>>
  BY <1>1, <1>4 DEF Conversion
<1>10. Directive(fmt).conv = "s" /\ Directive(fmt).rest = <<>>
  BY <1>7, <1>8, <1>9
<1>11. QED
  BY <1>10 DEF fmt

\* A directive with nothing behind it prints what it stands for.
LEMMA DirectivePrints ==
  ASSUME NEW fmt \in Seq(Characters), NEW args, fmt # <<>>, Head(fmt) = "%",
         Directive(Tail(fmt)).rest = <<>>, Suits(Directive(Tail(fmt)), args),
         NEW t \in Seq(Characters), Stands(Directive(Tail(fmt)), args, t)
  PROVE  PrintsText(fmt, args, t)
<1> DEFINE p == [fmt |-> fmt, args |-> args]
           q == Following(p)
           P == {p, q}
<1>1. PICK n \in Nat \ {0} : n = Len(fmt)
  BY EmptySeq, LenProperties
<1>2. p.fmt = fmt /\ p.args = args
  OBVIOUS
<1>3. q.fmt = <<>>
  BY <1>2 DEF Following
<1>4. p \in P /\ q \in P /\ \A x \in P : x = p \/ x = q
  OBVIOUS
<1> HIDE DEF p, q, P
<1>5. Printable(P)
  <2>1. <<>> \in Seq(Characters)
    BY EmptySeq
  <2>2. Following(p) \in P
    BY <1>4 DEF q
  <2>3. QED
    BY <1>2, <1>3, <1>4, <2>1, <2>2 DEF Printable
<1>6. TurnSays(p, t)
  BY <1>2, DirectiveSaid
<1> DEFINE f == [k \in 0..n |-> IF k = 0 THEN [p |-> p, text |-> <<>>] ELSE [p |-> q, text |-> t]]
<1>7. Sayings(f, n, p, P)
  <2>1. f \in [0..n -> [p : P, text : Seq(Characters)]]
    <3>1. <<>> \in Seq(Characters)
      BY EmptySeq
    <3>2. QED
      BY <1>4, <3>1
  <2>2. f[0] = [p |-> p, text |-> <<>>] /\ \A k \in 1..n : f[k] = [p |-> q, text |-> t]
    OBVIOUS
  <2> HIDE DEF f
  <2>3. Saying(f[0], f[1])
    <3>1. 1 \in 1..n
      OBVIOUS
    <3>2. f[0].p = p /\ f[0].text = <<>> /\ f[1].p = Following(p) /\ f[1].text = t
      BY <2>2, <3>1 DEF q
    <3>3. <<>> \o t = t
      BY ConcatEmptySeq
    <3>4. QED
      BY <1>2, <1>6, <3>2, <3>3 DEF Saying
  <2>4. ASSUME NEW k \in 1..n PROVE Saying(f[k - 1], f[k])
    <3>1. CASE k = 1
      BY <2>3, <3>1
    <3>2. CASE k # 1
      <4>1. k - 1 \in 1..n
        BY <3>2
      <4>2. f[k - 1] = f[k] /\ f[k - 1].p = q
        BY <2>2, <4>1
      <4>3. QED
        BY <1>3, <4>2 DEF Saying
    <3>3. QED
      BY <3>1, <3>2
  <2>5. QED
    BY <2>1, <2>2, <2>4 DEF Sayings
<1>8. f[n].text = t
  OBVIOUS
<1> HIDE DEF f
<1>9. [fmt |-> fmt, args |-> args] \in P /\ Sayings(f, Len(fmt), [fmt |-> fmt, args |-> args], P)
  BY <1>1, <1>4, <1>7 DEF p
<1>10. PrintsText(fmt, args, f[Len(fmt)].text)
  BY <1>5, <1>9, PutTogether
<1>11. QED
  BY <1>1, <1>8, <1>10

\* "%s" prints its text.
LEMMA TextPrints ==
  ASSUME NEW s \in Seq(Characters)
  PROVE  PrintsText(<<"%", "s">>, <<s>>, s)
<1>0. "%" \in Characters /\ "s" \in Characters
  BY LogAssumption, Zenon
<1>1. PICK fmt \in Seq(Characters) : /\ fmt = <<"%", "s">> /\ fmt # <<>>
                                     /\ Head(fmt) = "%" /\ Tail(fmt) = <<"s">>
  <2>1. <<"%", "s">> \in Seq(Characters)
    BY <1>0
  <2>2. <<"%", "s">> # <<>>
    OBVIOUS
  <2>3. Head(<<"%", "s">>) = "%"
    OBVIOUS
  <2>4. Tail(<<"%", "s">>) = <<"s">>
    OBVIOUS
  <2>5. QED
    BY <2>1, <2>2, <2>3, <2>4
<1>2. PICK args : args = <<s>> /\ args[1] = s
  <2>1. <<s>>[1] = s
    OBVIOUS
  <2>2. QED
    BY <2>1
<1>3. PICK d : d = Directive(Tail(fmt))
  OBVIOUS
<1>4. d.conv = "s" /\ d.rest = <<>>
  BY <1>1, <1>3, DirectiveText
<1>5. Suits(d, args) /\ Stands(d, args, s)
  BY <1>0, <1>2, <1>4, TextStands DEF Suits, Numbers
<1>6. PrintsText(fmt, args, s)
  BY <1>1, <1>3, <1>4, <1>5, DirectivePrints
<1>7. QED
  BY <1>1, <1>2, <1>6

\* A text without a '%' is its own format.
LEMMA PlainPrints ==
  ASSUME NEW line \in Seq(Plain)
  PROVE  PrintsText(line, <<>>, line)
<1>0. PICK n \in Nat : n = Len(line)
  BY LenProperties
<1>1. Plain \subseteq Characters /\ \A c \in Plain : c # "%"
  BY DEF Plain
<1>2. \A t \in Seq(Plain) : t \in Seq(Characters)
  BY <1>1, TypedIn
<1> DEFINE On(t) == [fmt |-> t, args |-> <<>>]
           P == {On(t) : t \in Seq(Plain)}
<1>3. ASSUME NEW t \in Seq(Plain), t # <<>>
      PROVE  /\ Tail(t) \in Seq(Plain) /\ Head(t) # "%"
             /\ Following(On(t)) = On(Tail(t)) /\ TurnSays(On(t), <<Head(t)>>)
  <2>1. Tail(t) \in Seq(Plain) /\ Head(t) \in Plain
    BY <1>3, HeadTailProperties
  <2>2. Head(t) # "%"
    BY <1>1, <2>1
  <2>3. On(t).fmt = t /\ [On(t) EXCEPT !.fmt = Tail(@)] = On(Tail(t))
    <3>1. PICK u : u = Tail(t)
      OBVIOUS
    <3>2. On(t).fmt = t
      OBVIOUS
    <3>3. [On(t) EXCEPT !.fmt = u] = [fmt |-> u, args |-> <<>>]
      OBVIOUS
    <3>4. [On(t) EXCEPT !.fmt = Tail(@)] = [On(t) EXCEPT !.fmt = u]
      <4> HIDE DEF On
      <4>1. QED
        BY <3>1, <3>2
    <3>5. QED
      BY <3>1, <3>2, <3>3, <3>4
  <2> HIDE DEF On
  <2>4. Following(On(t)) = On(Tail(t))
    BY <2>2, <2>3 DEF Following
  <2>5. TurnSays(On(t), <<Head(t)>>)
    BY <1>2, <1>3, <2>2, <2>3, CharacterSaid
  <2>6. QED
    BY <2>1, <2>2, <2>4, <2>5
<1>4. Printable(P)
  <2>1. ASSUME NEW t \in Seq(Plain)
        PROVE  /\ On(t).fmt \in Seq(Characters)
               /\ On(t).fmt # <<>> => Following(On(t)) \in P /\ Head(On(t).fmt) # "%"
    <3>1. On(t).fmt = t
      OBVIOUS
    <3> HIDE DEF On
    <3>2. QED
      BY <1>2, <1>3, <3>1
  <2> HIDE DEF On
  <2>2. QED
    BY <2>1 DEF Printable
<1> DEFINE f == [k \in 0..n |-> [p |-> On(SubSeq(line, k + 1, n)), text |-> SubSeq(line, 1, k)]]
<1>5. ASSUME NEW k \in 0..n
      PROVE  /\ SubSeq(line, k + 1, n) \in Seq(Plain) /\ SubSeq(line, 1, k) \in Seq(Plain)
  <2>1. \A i \in k + 1..n : i \in 1..n
    OBVIOUS
  <2>2. \A i \in 1..k : i \in 1..n
    OBVIOUS
  <2>3. \A i \in 1..n : line[i] \in Plain
    BY <1>0, ElementOfSeq
  <2>4. k \in Int /\ k + 1 \in Int /\ n \in Int
    OBVIOUS
  <2>5. \A i \in k + 1..n : line[i] \in Plain
    BY <2>1, <2>3
  <2>6. \A i \in 1..k : line[i] \in Plain
    BY <2>2, <2>3
  <2>7. SubSeq(line, k + 1, n) \in Seq(Plain)
    BY <2>4, <2>5, SubSeqProperties
  <2>8. SubSeq(line, 1, k) \in Seq(Plain)
    BY <2>4, <2>6, SubSeqProperties
  <2>9. QED
    BY <2>7, <2>8
<1>6. /\ f \in [0..n -> [p : P, text : Seq(Characters)]]
      /\ f[0] = [p |-> On(line), text |-> <<>>]
      /\ f[n].text = line
  <2>1. ASSUME NEW k \in 0..n
        PROVE  [p |-> On(SubSeq(line, k + 1, n)), text |-> SubSeq(line, 1, k)] \in [p : P, text : Seq(Characters)]
    <3>1. On(SubSeq(line, k + 1, n)) \in P /\ SubSeq(line, 1, k) \in Seq(Characters)
      BY <1>2, <1>5
    <3> HIDE DEF On, P
    <3>2. QED
      BY <3>1
  <2>2. SubSeq(line, 1, n) = line /\ SubSeq(line, 1, 0) = <<>> /\ 0 + 1 = 1
    BY <1>0, SubSeqFull, SubSeqEmpty
  <2> HIDE DEF On, P
  <2>3. f[0] = [p |-> On(SubSeq(line, 0 + 1, n)), text |-> SubSeq(line, 1, 0)] /\ f[n].text = SubSeq(line, 1, n)
    OBVIOUS
  <2>4. f \in [0..n -> [p : P, text : Seq(Characters)]]
    BY <2>1
  <2> HIDE DEF f
  <2>5. QED
    BY <2>2, <2>3, <2>4
<1>7. ASSUME NEW k \in 1..n PROVE Saying(f[k - 1], f[k])
  <2>1. k - 1 \in 0..n /\ k \in 0..n /\ k - 1 + 1 = k /\ k \in 1..Len(line) /\ n \in k..Len(line) /\ k \in Int /\ n >= k
    BY <1>0
  <2>2. PICK t \in Seq(Plain) : t = SubSeq(line, k, n) /\ t # <<>>
    <3>1. SubSeq(line, k - 1 + 1, n) \in Seq(Plain)
      BY <1>5, <2>1
    <3>2. SubSeq(line, k, n) = <<line[k]>> \o SubSeq(line, k + 1, n)
      BY <2>1, SubSeqRecursiveFirst
    <3>3. SubSeq(line, k, n) # <<>>
      <4>1. <<line[k]>> \in Seq(Plain) /\ <<line[k]>> # <<>>
        BY <2>1, ElementOfSeq
      <4>2. SubSeq(line, k + 1, n) \in Seq(Plain)
        BY <1>5, <2>1
      <4>3. QED
        BY <3>2, <4>1, <4>2, ConcatEqualIffEmpty
    <3>4. QED
      BY <2>1, <3>1, <3>3
  <2>3. Head(t) = line[k] /\ Tail(t) = SubSeq(line, k + 1, n)
    BY <2>1, <2>2, HeadTailOfSubSeq
  <2>4. SubSeq(line, 1, k) = SubSeq(line, 1, k - 1) \o <<line[k]>>
    <3>1. 1 \in 1..Len(line) /\ k \in 1..Len(line)
      BY <2>1
    <3>2. QED
      BY <3>1, SubSeqRecursiveSecond
  <2>5. /\ f[k - 1].p = On(t) /\ f[k - 1].text = SubSeq(line, 1, k - 1)
        /\ f[k].p = On(Tail(t)) /\ f[k].text = SubSeq(line, 1, k)
    <3> HIDE DEF On
    <3>1. QED
      BY <2>1, <2>2, <2>3
  <2>6. On(t).fmt # <<>>
    BY <2>2
  <2>7. Following(On(t)) = On(Tail(t)) /\ TurnSays(On(t), <<line[k]>>)
    BY <1>3, <2>2, <2>3
  <2> HIDE DEF f, On
  <2>8. QED
    BY <2>4, <2>5, <2>6, <2>7 DEF Saying
<1>8. On(line) \in P /\ line \in Seq(Characters)
  BY <1>2
<1> HIDE DEF f, P
<1>9. Sayings(f, n, On(line), P)
  BY <1>6, <1>7 DEF Sayings
<1>10. PrintsText(line, <<>>, f[n].text)
  BY <1>0, <1>4, <1>8, <1>9, PutTogether
<1>11. QED
  BY <1>6, <1>10

-----------------------------------------------------------------------------

(* What is printed, read again.                                            *)

\* A text is read from v on as w.
ReadsTo(v, text, base, w) ==
  \E f \in [0..Len(text) -> Nat] :
    /\ f[0] = v /\ f[Len(text)] = w
    /\ \A k \in 1..Len(text) : f[k] = ReadNext(f[k - 1], text[k], base)

\* One text is read, and then the one behind it.
LEMMA ReadOn ==
  ASSUME NEW S, NEW s \in Seq(S), NEW t \in Seq(S), NEW base, NEW v, NEW w, NEW x,
         ReadsTo(v, s, base, w), ReadsTo(w, t, base, x)
  PROVE  s \o t \in Seq(S) /\ ReadsTo(v, s \o t, base, x)
<1>1. PICK m \in Nat, n \in Nat : m = Len(s) /\ n = Len(t)
  BY LenProperties
<1>2. PICK u \in Seq(S) : /\ u = s \o t /\ Len(u) = m + n
                          /\ \A i \in 1..m + n : u[i] = IF i =< m THEN s[i] ELSE t[i - m]
  <2>1. s \o t \in Seq(S) /\ Len(s \o t) = m + n
    BY <1>1, Glued
  <2>2. \A i \in 1..m + n : (s \o t)[i] = IF i =< m THEN s[i] ELSE t[i - m]
    BY <1>1, Glued
  <2>3. QED
    BY <2>1, <2>2
<1>3. PICK f \in [0..m -> Nat] : /\ f[0] = v /\ f[m] = w
                                 /\ \A k \in 1..m : f[k] = ReadNext(f[k - 1], s[k], base)
  BY <1>1 DEF ReadsTo
<1>4. PICK g \in [0..n -> Nat] : /\ g[0] = w /\ g[n] = x
                                 /\ \A k \in 1..n : g[k] = ReadNext(g[k - 1], t[k], base)
  BY <1>1 DEF ReadsTo
<1> DEFINE h == [k \in 0..m + n |-> IF k =< m THEN f[k] ELSE g[k - m]]
<1>5. h \in [0..m + n -> Nat]
  <2>1. \A k \in 0..m + n : (k =< m => k \in 0..m) /\ (~(k =< m) => k - m \in 0..n)
    OBVIOUS
  <2>2. QED
    BY <2>1
<1>6. /\ \A k \in 0..m : h[k] = f[k]
      /\ \A k \in 0..n : h[m + k] = g[k]
  <2>1. \A k \in 0..m : k \in 0..m + n /\ k =< m
    OBVIOUS
  <2>2. ASSUME NEW k \in 0..n PROVE h[m + k] = g[k]
    <3>1. m + k \in 0..m + n /\ (m + k) - m = k
      OBVIOUS
    <3>2. CASE k = 0
      <4>1. h[m + k] = f[m] /\ m + k = m
        BY <3>1, <3>2
      <4>2. QED
        BY <1>3, <1>4, <3>2, <4>1
    <3>3. CASE k # 0
      <4>1. ~(m + k =< m)
        BY <3>3
      <4>2. QED
        BY <3>1, <4>1
    <3>4. QED
      BY <3>2, <3>3
  <2>3. QED
    BY <2>1, <2>2
<1> HIDE DEF h
<1>7. ASSUME NEW k \in 1..m + n PROVE h[k] = ReadNext(h[k - 1], u[k], base)
  <2>1. CASE k =< m
    <3>1. k \in 0..m /\ k - 1 \in 0..m /\ k \in 1..m
      BY <2>1
    <3>2. QED
      BY <1>2, <1>3, <1>6, <2>1, <3>1
  <2>2. CASE ~(k =< m)
    <3>1. PICK j \in 1..n : j = k - m /\ k = m + j /\ k - 1 = m + (j - 1)
      <4>1. k - m \in 1..n /\ k = m + (k - m) /\ k - 1 = m + ((k - m) - 1)
        BY <2>2
      <4>2. QED
        BY <4>1
    <3>2. j \in 0..n /\ j - 1 \in 0..n
      OBVIOUS
    <3>3. h[k] = g[j] /\ h[k - 1] = g[j - 1] /\ u[k] = t[j]
      BY <1>2, <1>6, <2>2, <3>1, <3>2
    <3>4. QED
      BY <1>4, <3>3
  <2>3. QED
    BY <2>1, <2>2
<1>8. h[0] = v /\ h[m + n] = x
  BY <1>3, <1>4, <1>6
<1>9. ReadsTo(v, u, base, x)
  BY <1>2, <1>5, <1>7, <1>8, ZenonT(40) DEF ReadsTo
<1>10. QED
  BY <1>2, <1>9

\* Nothing, and one character.
LEMMA ReadShort ==
  ASSUME NEW v \in Nat, NEW base
  PROVE  /\ ReadsTo(v, <<>>, base, v)
         /\ \A c : ReadNext(v, c, base) \in Nat => ReadsTo(v, <<c>>, base, ReadNext(v, c, base))
<1>1. ReadsTo(v, <<>>, base, v)
  <2> DEFINE f == [k \in 0..0 |-> v]
  <2>1. f \in [0..0 -> Nat] /\ f[0] = v
    OBVIOUS
  <2> HIDE DEF f
  <2>2. Len(<<>>) = 0
    BY EmptySeq
  <2>3. \A k \in 1..0 : FALSE
    OBVIOUS
  <2>4. QED
    BY <2>1, <2>2, <2>3 DEF ReadsTo
<1>2. ASSUME NEW c, ReadNext(v, c, base) \in Nat PROVE ReadsTo(v, <<c>>, base, ReadNext(v, c, base))
  <2>1. PICK w \in Nat : w = ReadNext(v, c, base)
    BY <1>2
  <2> DEFINE f == [k \in 0..1 |-> IF k = 0 THEN v ELSE w]
  <2>2. f \in [0..1 -> Nat] /\ f[0] = v /\ f[1] = w
    OBVIOUS
  <2> HIDE DEF f
  <2>3. PICK t : t = <<c>> /\ Len(t) = 1 /\ t[1] = c
    <3>1. Len(<<c>>) = 1 /\ <<c>>[1] = c
      OBVIOUS
    <3>2. QED
      BY <3>1
  <2>4. \A k \in 1..1 : k = 1 /\ k - 1 = 0
    OBVIOUS
  <2>5. ReadsTo(v, t, base, w)
    BY <2>1, <2>2, <2>3, <2>4 DEF ReadsTo
  <2>6. QED
    BY <2>1, <2>3, <2>5
<1>3. QED
  BY <1>1, <1>2

\* What a text is read as.
LEMMA WholeRead ==
  ASSUME NEW S, NEW text \in Seq(S), NEW base, NEW w, ReadsTo(0, text, base, w)
  PROVE  Read(text, base) = w
<1>1. PICK n \in Nat : n = Len(text)
  BY LenProperties
<1>2. PICK f \in [0..n -> Nat] : /\ f[0] = 0 /\ f[n] = w
                                 /\ \A k \in 1..n : f[k] = ReadNext(f[k - 1], text[k], base)
  BY <1>1 DEF ReadsTo
<1> DEFINE Body(e, k) == IF k = 0 THEN 0 ELSE ReadNext(e[k - 1], text[k], base)
           h == CHOOSE e : e = [k \in 0..n |-> Body(e, k)]
<1>3. f = [k \in 0..n |-> Body(f, k)]
  <2>1. ASSUME NEW k \in 0..n PROVE f[k] = Body(f, k)
    <3>1. k # 0 => k \in 1..n
      OBVIOUS
    <3>2. QED
      BY <1>2, <3>1
  <2> HIDE DEF Body
  <2>2. QED
    BY <1>2, <2>1
<1>4. h = [k \in 0..n |-> Body(h, k)]
  <2> HIDE DEF Body
  <2>1. QED
    BY <1>3
<1>5. Read(text, base) = h[n]
  BY <1>1 DEF Read
<1> HIDE DEF h
<1>6. h[0] = 0 /\ \A k \in 1..n : h[k] = ReadNext(h[k - 1], text[k], base)
  BY <1>4
<1> DEFINE G == {k \in Int : h[k] = f[k]}
<1>7. 0..n \subseteq G
  <2>1. 0 \in G
    BY <1>2, <1>6
  <2>2. ASSUME NEW k \in 1..n, k - 1 \in G PROVE k \in G
    BY <1>2, <1>6, <2>2
  <2> HIDE DEF G
  <2>3. QED
    BY <2>1, <2>2, UpTo
<1>8. QED
  BY <1>2, <1>5, <1>7

-----------------------------------------------------------------------------
\* Powers grow with the exponent and with the base.
LEMMA PowerGrows ==
  ASSUME NEW base \in Nat, base > 0, NEW m \in Nat, NEW l \in Nat, m =< l
  PROVE  Power(base, m) =< Power(base, l) /\ Power(base, m) > 0
<1> DEFINE G == {k \in Nat : Power(base, k) > 0 /\ \A j \in 0..k : Power(base, j) =< Power(base, k)}
<1>1. 0 \in G
  <2>1. Power(base, 0) = 1 /\ \A j \in 0..0 : j = 0
    BY PowerIs
  <2>2. QED
    BY <2>1
<1>2. ASSUME NEW k \in Nat, k \in G PROVE k + 1 \in G
  <2>1. PICK p \in Nat, q \in Nat : p = Power(base, k) /\ q = Power(base, k + 1) /\ q = base * p
    <3>1. Power(base, k) \in Nat /\ Power(base, k + 1) = base * Power(base, k)
      BY PowerIs
    <3>2. Power(base, k + 1) \in Nat
      BY PowerIs
    <3>3. QED
      BY <3>1, <3>2
  <2>2. p > 0
    BY <1>2, <2>1
  <2>3. q >= p
    BY <2>1, <2>2, SMT
  <2>4. ASSUME NEW j \in 0..k + 1 PROVE Power(base, j) =< q
    <3>1. CASE j = k + 1
      BY <2>1, <3>1
    <3>2. CASE j # k + 1
      <4>1. j \in 0..k
        BY <3>2
      <4>2. Power(base, j) =< p /\ Power(base, j) \in Nat
        <5>1. j \in Nat
          BY <4>1
        <5>2. Power(base, j) \in Nat
          BY <5>1, PowerIs
        <5>3. QED
          BY <1>2, <2>1, <4>1, <5>2
      <4>3. QED
        BY <2>3, <4>2
    <3>3. QED
      BY <3>1, <3>2
  <2>5. QED
    BY <2>1, <2>2, <2>3, <2>4
<1>3. Nat \subseteq G
  <2> HIDE DEF G
  <2>1. QED
    BY <1>1, <1>2, Induction
<1>4. m \in G /\ l \in G /\ m \in 0..l
  BY <1>3
<1>5. QED
  BY <1>4

LEMMA PowerOf16 ==
  ASSUME NEW m \in Nat
  PROVE  Power(10, m) =< Power(16, m)
<1> DEFINE G == {k \in Nat : Power(10, k) =< Power(16, k)}
<1>1. 0 \in G
  <2>1. Power(10, 0) = 1 /\ Power(16, 0) = 1
    BY PowerIs
  <2>2. QED
    BY <2>1
<1>2. ASSUME NEW k \in Nat, k \in G PROVE k + 1 \in G
  <2>1. PICK p \in Nat, q \in Nat : /\ p = Power(10, k) /\ q = Power(16, k)
                                    /\ Power(10, k + 1) = 10 * p /\ Power(16, k + 1) = 16 * q
    <3>1. Power(10, k) \in Nat /\ Power(10, k + 1) = 10 * Power(10, k)
      BY PowerIs
    <3>2. Power(16, k) \in Nat /\ Power(16, k + 1) = 16 * Power(16, k)
      BY PowerIs
    <3>3. QED
      BY <3>1, <3>2
  <2>2. p =< q
    BY <1>2, <2>1
  <2>3. 10 * p =< 16 * q
    BY <2>2
  <2>4. QED
    BY <2>1, <2>3
<1>3. Nat \subseteq G
  <2> HIDE DEF G
  <2>1. QED
    BY <1>1, <1>2, Induction
<1>4. QED
  BY <1>3

LEMMA PowerSum ==
  ASSUME NEW base \in Nat, NEW m \in Nat, NEW l \in Nat
  PROVE  Power(base, m + l) = Power(base, m) * Power(base, l)
<1> DEFINE G == {k \in Nat : Power(base, m + k) = Power(base, m) * Power(base, k)}
<1>0. PICK a \in Nat : a = Power(base, m)
  BY PowerIs
<1>1. 0 \in G
  <2>1. Power(base, 0) = 1 /\ m + 0 = m
    BY PowerIs
  <2>2. QED
    BY <1>0, <2>1
<1>2. ASSUME NEW k \in Nat, k \in G PROVE k + 1 \in G
  <2>1. PICK p \in Nat, q \in Nat : /\ p = Power(base, k) /\ q = Power(base, m + k)
                                    /\ Power(base, k + 1) = base * p
                                    /\ Power(base, (m + k) + 1) = base * q
    <3>1. m + k \in Nat
      OBVIOUS
    <3>2. Power(base, k) \in Nat /\ Power(base, k + 1) = base * Power(base, k)
      BY PowerIs
    <3>3. /\ Power(base, m + k) \in Nat
          /\ Power(base, (m + k) + 1) = base * Power(base, m + k)
      BY <3>1, PowerIs
    <3>4. QED
      BY <3>2, <3>3
  <2>2. q = a * p
    BY <1>0, <1>2, <2>1
  <2>3. base * q = a * (base * p)
    BY <2>2, SMT
  <2>4. m + (k + 1) = (m + k) + 1
    OBVIOUS
  <2>5. QED
    BY <1>0, <2>1, <2>3, <2>4
<1>3. Nat \subseteq G
  <2> HIDE DEF G
  <2>1. QED
    BY <1>1, <1>2, Induction
<1>4. QED
  BY <1>3

-----------------------------------------------------------------------------
\* What a figure is worth.
LEMMA FigureIs ==
  ASSUME NEW i \in 1..16
  PROVE  /\ Figure(Figures[i]) = i - 1 /\ Figure(FIGURES[i]) = i - 1
         /\ Figures[i] \notin {Fill, "-", "."} /\ FIGURES[i] \notin {Fill, "-", "."}
<1>1. \/ i = 1 \/ i = 2 \/ i = 3 \/ i = 4 \/ i = 5 \/ i = 6 \/ i = 7 \/ i = 8
      \/ i = 9 \/ i = 10 \/ i = 11 \/ i = 12 \/ i = 13 \/ i = 14 \/ i = 15 \/ i = 16
  OBVIOUS
<1>2. ASSUME NEW v \in 0..15, Figures[i] \in {Figures[v + 1], FIGURES[v + 1]} PROVE v = i - 1
  BY <1>1, <1>2 DEF Figures, FIGURES
<1>3. ASSUME NEW v \in 0..15, FIGURES[i] \in {Figures[v + 1], FIGURES[v + 1]} PROVE v = i - 1
  BY <1>1, <1>3 DEF Figures, FIGURES
<1>4. i - 1 \in 0..15 /\ (i - 1) + 1 = i
  OBVIOUS
<1>5. Figure(Figures[i]) = i - 1 /\ Figure(FIGURES[i]) = i - 1
  BY <1>2, <1>3, <1>4 DEF Figure
<1> DEFINE Words == {"0", "1", "2", "3", "4", "5", "6", "7", "8", "9",
                     "a", "b", "c", "d", "e", "f", "A", "B", "C", "D", "E", "F"}
<1>6. Figures[i] \in Words /\ FIGURES[i] \in Words
  BY <1>1 DEF Figures, FIGURES
<1>7. \A c \in Words : c \notin {Fill, "-", "."}
  BY Zenon DEF Fill
<1> HIDE DEF Words
<1>8. QED
  BY <1>5, <1>6, <1>7

\* The figures of a base.
FiguresOf(figures, base) ==
  /\ base \in {10, 16} /\ figures \in Seq(Characters) /\ Len(figures) = base
  /\ \A i \in 1..base : /\ figures[i] \in Characters /\ Figure(figures[i]) = i - 1
                        /\ figures[i] \notin {Fill, "-", "."}

LEMMA FigureRead ==
  ASSUME NEW figures, NEW base, FiguresOf(figures, base), NEW r \in 0..base - 1, NEW v \in Nat
  PROVE  ReadsTo(v, <<figures[r + 1]>>, base, base * v + r)
<1>1. base \in Nat /\ r + 1 \in 1..base
  BY DEF FiguresOf
<1>2. PICK c : c = figures[r + 1] /\ Figure(c) = r /\ c \notin {Fill, "-", "."}
  <2>1. Figure(figures[r + 1]) = (r + 1) - 1 /\ figures[r + 1] \notin {Fill, "-", "."}
    BY <1>1 DEF FiguresOf
  <2>2. (r + 1) - 1 = r
    BY <1>1
  <2>3. QED
    BY <2>1, <2>2
<1>3. ReadNext(v, c, base) = base * v + r
  BY <1>2 DEF ReadNext
<1>4. base * v + r \in Nat
  BY <1>1
<1>5. QED
  BY <1>2, <1>3, <1>4, ReadShort

\* Padding is passed over, or zeros in front or behind.
LEMMA PadsRead ==
  ASSUME NEW base \in Nat, NEW zero \in Characters, NEW k \in Nat, NEW v \in Nat
  PROVE  /\ zero = Fill => ReadsTo(v, Pads(zero, k), base, v)
         /\ zero = "0" => ReadsTo(v, Pads(zero, k), base, v * Power(base, k))
<1>1. PICK s \in Seq(Characters) : s = Pads(zero, k) /\ Len(s) = k /\ \A i \in 1..k : s[i] = zero
  <2>1. /\ Pads(zero, k) \in Seq(Characters) /\ Len(Pads(zero, k)) = k
        /\ \A i \in 1..k : Pads(zero, k)[i] = zero
    BY PadsAre
  <2>2. QED
    BY <2>1
<1>2. ASSUME zero = Fill PROVE ReadsTo(v, s, base, v)
  <2> DEFINE f == [i \in 0..k |-> v]
  <2>1. f \in [0..k -> Nat] /\ f[0] = v /\ f[k] = v /\ \A i \in 1..k : f[i] = v /\ f[i - 1] = v
    OBVIOUS
  <2> HIDE DEF f
  <2>2. ReadNext(v, zero, base) = v
    BY <1>2 DEF ReadNext
  <2>3. QED
    BY <1>1, <2>1, <2>2 DEF ReadsTo
<1>3. ASSUME zero = "0" PROVE ReadsTo(v, s, base, v * Power(base, k))
  <2> DEFINE f == [i \in 0..k |-> v * Power(base, i)]
  <2>1. ASSUME NEW i \in 0..k PROVE Power(base, i) \in Nat
    <3>1. i \in Nat
      OBVIOUS
    <3>2. QED
      BY <3>1, PowerIs
  <2>2. f \in [0..k -> Nat]
    BY <2>1
  <2>3. Power(base, 0) = 1
    BY PowerIs
  <2>4. f[0] = v /\ f[k] = v * Power(base, k)
    BY <2>3
  <2>5. ASSUME NEW i \in 1..k PROVE f[i] = base * f[i - 1]
    <3>1. i - 1 \in Nat /\ (i - 1) + 1 = i
      OBVIOUS
    <3>2. Power(base, (i - 1) + 1) = base * Power(base, i - 1) /\ Power(base, i - 1) \in Nat
      BY <3>1, PowerIs
    <3>3. PICK p \in Nat : p = Power(base, i - 1) /\ Power(base, i) = base * p
      BY <3>1, <3>2
    <3>4. f[i] = v * (base * p) /\ f[i - 1] = v * p
      BY <3>3
    <3>5. v * (base * p) = base * (v * p)
      BY SMT
    <3>6. QED
      BY <3>4, <3>5
  <2> HIDE DEF f
  <2>6. \A x \in Nat : ReadNext(x, zero, base) = base * x
    <3>1. Figures[1] = "0" /\ 1 \in 1..16
      BY DEF Figures
    <3>2. Figure("0") = 0 /\ "0" \notin {Fill, "-", "."}
      BY <3>1, FigureIs
    <3>3. QED
      BY <1>3, <3>2 DEF ReadNext
  <2>7. \A i \in 1..k : f[i] = ReadNext(f[i - 1], s[i], base)
    <3>1. \A i \in 1..k : f[i - 1] \in Nat
      BY <2>2
    <3>2. QED
      BY <1>1, <2>5, <2>6, <3>1
  <2>8. QED
    BY <1>1, <2>2, <2>4, <2>7 DEF ReadsTo
<1>4. QED
  BY <1>1, <1>2, <1>3

\* What is in temp: so much of the number n.
Partly(t, k, n, base, m) ==
  /\ t.text \in Seq(Characters) /\ t.left \in Nat
  /\ Len(t.text) =< k /\ Len(t.text) =< m
  /\ k > 0 => Len(t.text) > 0
  /\ t.left # 0 => Len(t.text) = k
  /\ \E val \in Nat :
       /\ n = t.left * Power(base, Len(t.text)) + val
       /\ \A v \in Nat : ReadsTo(v, t.text, base, v * Power(base, Len(t.text)) + val)

\* A product, a factor of which is taken apart.
LEMMA Spread ==
  ASSUME NEW q \in Nat, NEW b \in Nat, NEW r \in Nat, NEW p \in Nat, NEW a, a = q * b + r
  PROVE  a * p = q * (b * p) + r * p
<1>1. (q * b + r) * p = (q * b) * p + r * p
  BY SMT
<1>2. (q * b) * p = q * (b * p)
  BY SMT
<1>3. QED
  BY <1>1, <1>2

\* One figure more.
LEMMA FigurePut ==
  ASSUME NEW figures, NEW base, FiguresOf(figures, base), NEW n \in Nat, NEW m \in Nat \ {0},
         n < Power(base, m), NEW t, NEW k \in Nat, Partly(t, k, n, base, m)
  PROVE  Partly(PutFigure(t, figures), k + 1, n, base, m)
<1>0. base \in Nat /\ base > 1 /\ Len(figures) = base
  BY DEF FiguresOf
<1>1. PICK s \in Seq(Characters), a \in Nat, l \in Nat :
        s = t.text /\ a = t.left /\ l = Len(s) /\ l =< k /\ l =< m
  BY LenProperties DEF Partly
<1>2. (k > 0 => l > 0) /\ (a # 0 => l = k)
  BY <1>1 DEF Partly
<1>3. CASE a = 0 /\ s # <<>>
  <2>1. PutFigure(t, figures) = t
    BY <1>1, <1>3 DEF PutFigure
  <2>2. l # 0
    BY <1>1, <1>3, EmptySeq
  <2>3. l =< k + 1 /\ l > 0
    BY <1>1, <2>2
  <2>4. QED
    BY <1>1, <1>3, <2>1, <2>3 DEF Partly
<1>4. CASE ~(a = 0 /\ s # <<>>)
  <2>1. l = k
    <3>1. CASE a = 0
      <4>1. l = 0
        BY <1>1, <1>4, <3>1, EmptySeq
      <4>2. QED
        BY <1>2, <4>1
    <3>2. QED
      BY <1>2, <3>1
  <2>2. PICK r \in 0..base - 1, q \in Nat : r = a % base /\ q = a \div base /\ a = q * base + r
    <3>1. a % base \in 0..base - 1 /\ a \div base \in Nat /\ a = (a \div base) * base + (a % base)
      BY <1>0, SMT
    <3>2. QED
      BY <3>1
  <2>3. PICK p \in Nat : p = Power(base, l) /\ Power(base, l + 1) = base * p
    <3>1. Power(base, l) \in Nat /\ Power(base, l + 1) = base * Power(base, l)
      BY <1>0, PowerIs
    <3>2. QED
      BY <3>1
  <2>4. PICK val \in Nat : /\ n = a * p + val
                           /\ \A v \in Nat : ReadsTo(v, s, base, v * p + val)
    BY <1>1, <2>3 DEF Partly
  <2>5. l + 1 =< m
    <3>1. CASE l = 0
      BY <3>1
    <3>2. CASE l # 0
      <4>1. a # 0
        BY <1>1, <1>4, <3>2, EmptySeq
      <4>2. a * p >= p
        BY <4>1, SMT
      <4>3. n >= p
        <5>1. n = a * p + val
          BY <2>4
        <5>2. PICK x \in Nat : x = a * p
          OBVIOUS
        <5>3. QED
          BY <4>2, <5>1, <5>2
      <4>4. ~(m =< l)
        <5>1. SUFFICES ASSUME m =< l PROVE FALSE
          OBVIOUS
        <5>2. Power(base, m) =< p
          BY <1>0, <2>3, <5>1, PowerGrows
        <5>3. Power(base, m) \in Nat
          BY <1>0, PowerIs
        <5>4. QED
          BY <4>3, <5>2, <5>3
      <4>5. QED
        BY <4>4
    <3>3. QED
      BY <3>1, <3>2
  <2>6. PICK c \in Characters : c = figures[r + 1]
    <3>1. r + 1 \in 1..base
      BY <1>0
    <3>2. QED
      BY <3>1 DEF FiguresOf
  <2>7. PICK u \in Seq(Characters) : u = <<c>> \o s /\ Len(u) = l + 1
    <3>1. <<c>> \o s \in Seq(Characters) /\ Len(<<c>> \o s) = Len(s) + 1
      BY PushPop
    <3>2. QED
      BY <1>1, <3>1
  <2>8. PICK b \in Nat : b = r * p + val
    <3>1. r * p + val \in Nat
      <4>1. r \in Nat
        BY <1>0
      <4>2. QED
        BY <4>1
    <3>2. QED
      BY <3>1
  <2>9. n = q * (base * p) + b
    <3>1. r \in Nat
      BY <1>0
    <3>2. a * p = q * (base * p) + r * p
      <4>1. a = q * base + r
        BY <2>2
      <4>2. QED
        BY <1>0, <3>1, <4>1, Spread
    <3>3. PICK x \in Nat, y \in Nat : x = q * (base * p) /\ y = r * p
      BY <1>0, <3>1
    <3>4. n = a * p + val
      BY <2>4
    <3>5. n = (x + y) + val /\ b = y + val
      BY <2>8, <3>2, <3>3, <3>4, Zenon
    <3>6. n = x + b
      BY <3>5
    <3>7. QED
      BY <3>3, <3>6, Zenon
  <2>10. ASSUME NEW v \in Nat PROVE ReadsTo(v, u, base, v * (base * p) + b)
    <3>1. PICK w \in Nat : w = base * v + r
      <4>1. base * v + r \in Nat
        BY <1>0
      <4>2. QED
        BY <4>1
    <3>2. ReadsTo(v, <<c>>, base, w)
      BY <2>6, <3>1, FigureRead
    <3>3. ReadsTo(w, s, base, w * p + val)
      BY <2>4
    <3>4. w * p + val = v * (base * p) + b
      <4>1. r \in Nat /\ v * base + r = base * v + r
        BY <1>0
      <4>2. w * p = v * (base * p) + r * p
        BY <1>0, <3>1, <4>1, Spread
      <4>3. PICK x \in Nat, y \in Nat : x = v * (base * p) /\ y = r * p
        BY <1>0, <4>1
      <4>4. w * p + val = (x + y) + val /\ b = y + val
        BY <2>8, <4>2, <4>3, Zenon
      <4>5. w * p + val = x + b
        BY <4>4
      <4>6. QED
        BY <4>3, <4>5, Zenon
    <3>5. <<c>> \in Seq(Characters)
      OBVIOUS
    <3>6. ReadsTo(v, <<c>> \o s, base, w * p + val)
      BY <3>2, <3>3, <3>5, ReadOn
    <3>7. QED
      BY <2>7, <3>4, <3>6
  <2>11. PutFigure(t, figures) = [left |-> q, text |-> u]
    BY <1>0, <1>1, <1>4, <2>2, <2>6, <2>7 DEF PutFigure
  <2>12. PICK z : z = [left |-> q, text |-> u] /\ z.left = q /\ z.text = u
    <3>1. [left |-> q, text |-> u].left = q /\ [left |-> q, text |-> u].text = u
      OBVIOUS
    <3>2. QED
      BY <3>1
  <2>13. l + 1 =< k + 1 /\ l + 1 > 0 /\ l + 1 = k + 1
    BY <2>1
  <2>14. Partly(z, k + 1, n, base, m)
    BY <2>3, <2>5, <2>7, <2>8, <2>9, <2>10, <2>12, <2>13 DEF Partly
  <2>15. QED
    BY <2>11, <2>12, <2>14
<1>5. QED
  BY <1>3, <1>4

\* The figures of a number below base^m are at most m and read as the number.
Spelt(text, n, base, m) ==
  /\ text \in Seq(Characters) /\ Len(text) \in 1..m
  /\ \A v \in Nat : ReadsTo(v, text, base, v * Power(base, Len(text)) + n)

LEMMA InBaseSpelt ==
  ASSUME NGX_INT64_LEN \in Nat, NEW figures, NEW base, FiguresOf(figures, base), NEW n \in Nat,
         NEW m \in 1..NGX_INT64_LEN, n < Power(base, m)
  PROVE  Spelt(InBase(n, figures), n, base, m)
<1>0. base \in Nat /\ base > 1 /\ figures \in Seq(Characters) /\ Len(figures) = base /\ m \in Nat \ {0}
  BY DEF FiguresOf
<1>1. PICK N \in Nat : N = NGX_INT64_LEN /\ m =< N
  OBVIOUS
<1>2. figures # <<>>
  BY <1>0, EmptySeq
<1>3. PICK h : Figuring(h, n, figures, Characters)
  BY <1>0, <1>2, FiguresPut
<1> DEFINE G == {k \in Nat : Partly(h[k], k, n, base, m)}
<1>4. 0 \in G
  <2>1. PICK t : t = h[0] /\ t.left = n /\ t.text = <<>>
    BY <1>3 DEF Figuring
  <2>2. <<>> \in Seq(Characters) /\ Len(<<>>) = 0
    BY EmptySeq
  <2>3. Power(base, 0) = 1
    BY <1>0, PowerIs
  <2>4. n = n * 1 + 0 /\ 0 \in Nat /\ \A v \in Nat : v * 1 + 0 = v
    OBVIOUS
  <2>5. \A v \in Nat : ReadsTo(v, <<>>, base, v)
    BY ReadShort
  <2>6. ~(0 > 0) /\ 0 =< 0 /\ 0 =< m
    BY <1>0
  <2>7. Partly(t, 0, n, base, m)
    BY <2>1, <2>2, <2>3, <2>4, <2>5, <2>6 DEF Partly
  <2>8. QED
    BY <2>1, <2>7
<1>5. ASSUME NEW k \in 1..N, k - 1 \in G PROVE k \in G
  <2>1. PICK j \in Nat : j = k - 1 /\ k = j + 1
    <3>1. k - 1 \in Nat /\ k = (k - 1) + 1
      OBVIOUS
    <3>2. QED
      BY <3>1
  <2>2. h[k] = PutFigure(h[j], figures)
    BY <1>1, <1>3, <2>1 DEF Figuring
  <2>3. Partly(PutFigure(h[j], figures), j + 1, n, base, m)
    BY <1>0, <1>5, <2>1, FigurePut
  <2>4. k \in Nat
    OBVIOUS
  <2>5. QED
    BY <2>1, <2>2, <2>3, <2>4
<1>6. 0..N \subseteq G
  <2> HIDE DEF G
  <2>1. QED
    BY <1>4, <1>5, UpTo
<1>7. Partly(h[N], N, n, base, m)
  BY <1>6
<1>8. PICK text \in Seq(Characters), a \in Nat, l \in Nat, p \in Nat, val \in Nat :
        /\ text = h[N].text /\ a = h[N].left /\ l = Len(text) /\ p = Power(base, l)
        /\ n = a * p + val /\ \A v \in Nat : ReadsTo(v, text, base, v * p + val)
        /\ l =< m /\ l > 0 /\ (a # 0 => l = N)
  <2>1. Len(h[N].text) \in Nat /\ N > 0
    BY <1>0, <1>1, <1>7, LenProperties DEF Partly
  <2>2. Power(base, Len(h[N].text)) \in Nat
    BY <1>0, <2>1, PowerIs
  <2>3. QED
    BY <1>7, <2>1, <2>2 DEF Partly
<1>9. n = a * p + val /\ l =< m /\ l > 0 /\ (a # 0 => l = N) /\ p = Power(base, l)
  BY <1>8
<1>10. a = 0
  <2>1. SUFFICES ASSUME a # 0 PROVE FALSE
    OBVIOUS
  <2>2. l = m
    BY <1>0, <1>1, <1>9, <2>1
  <2>3. PICK x \in Nat : x = a * p /\ x >= p
    <3>1. a * p \in Nat /\ a * p >= p
      BY <2>1, SMT
    <3>2. QED
      BY <3>1
  <2>4. n >= p
    BY <1>9, <2>3
  <2>5. QED
    BY <1>9, <2>2, <2>4
<1>11. n = val
  BY <1>9, <1>10
<1>12. InBase(n, figures) = text
  BY <1>1, <1>3, <1>8 DEF Figuring
<1>13. l \in 1..m
  BY <1>0, <1>9
<1>14. QED
  BY <1>8, <1>11, <1>12, <1>13 DEF Spelt

-----------------------------------------------------------------------------
BaseOf(hex) == IF hex = 0 THEN 10 ELSE 16

\* The figures of a number are those of its base.
LEMMA NumeralSpelt ==
  ASSUME NEW n \in Nat, NEW hex \in 0..2, NEW m \in 1..NGX_INT64_LEN, n < Power(10, m)
  PROVE  Spelt(Numeral(n, hex), n, BaseOf(hex), m)
<1>1. \A i \in 1..16 : Figures[i] \in Characters /\ FIGURES[i] \in Characters
  BY PrintfAssumption, Zenon
<1>2. Figures \in Seq(Characters) /\ FIGURES \in Seq(Characters) /\ Len(Figures) = 16 /\ Len(FIGURES) = 16
  BY <1>1 DEF Figures, FIGURES
<1>3. FiguresOf(Figures, 16) /\ FiguresOf(FIGURES, 16)
  BY <1>1, <1>2, FigureIs DEF FiguresOf
<1>4. FiguresOf(SubSeq(Figures, 1, 10), 10)
  <2>1. PICK s \in Seq(Characters) : /\ s = SubSeq(Figures, 1, 10) /\ Len(s) = 10
                                     /\ \A i \in 1..10 : s[i] = Figures[i]
    <3>1. \A i \in 1..10 : Figures[i] \in Characters
      BY <1>1
    <3>2. /\ SubSeq(Figures, 1, 10) \in Seq(Characters)
          /\ Len(SubSeq(Figures, 1, 10)) = IF 1 =< 10 THEN 10 - 1 + 1 ELSE 0
          /\ \A i \in 1..10 - 1 + 1 : SubSeq(Figures, 1, 10)[i] = Figures[1 + i - 1]
      BY <3>1, SubSeqProperties
    <3>3. \A i \in 1..10 : SubSeq(Figures, 1, 10)[i] = Figures[i]
      BY <3>2
    <3>4. Len(SubSeq(Figures, 1, 10)) = 10
      BY <3>2
    <3>5. QED
      BY <3>2, <3>3, <3>4
  <2>2. ASSUME NEW i \in 1..10
        PROVE  s[i] \in Characters /\ Figure(s[i]) = i - 1 /\ s[i] \notin {Fill, "-", "."}
    <3>1. i \in 1..16
      OBVIOUS
    <3>2. QED
      BY <1>1, <2>1, <3>1, FigureIs
  <2>3. QED
    BY <2>1, <2>2 DEF FiguresOf
<1>5. NGX_INT64_LEN \in Nat /\ m \in Nat
  <2>1. NGX_INT64_LEN \in Nat
    BY PrintfAssumption, Zenon
  <2>2. QED
    BY <2>1
<1>6. n < Power(16, m)
  BY <1>5, PowerOf16, PowerIs
<1>7. CASE hex = 0
  BY <1>4, <1>5, <1>7, InBaseSpelt DEF Numeral, BaseOf
<1>8. CASE hex = 1
  BY <1>3, <1>5, <1>6, <1>8, InBaseSpelt DEF Numeral, BaseOf
<1>9. CASE hex = 2
  BY <1>3, <1>5, <1>6, <1>9, InBaseSpelt DEF Numeral, BaseOf
<1>10. QED
  BY <1>7, <1>8, <1>9

\* What digits and their padding consist of.
DigitCharacters == {Figures[i] : i \in 1..16} \cup {FIGURES[i] : i \in 1..16} \cup {Fill}

\* A number with its padding.
LEMMA DigitsRead ==
  ASSUME NEW n \in Nat, NEW hex \in 0..2, NEW m \in 1..NGX_INT64_LEN, n < Power(10, m),
         NEW zero \in {"0", Fill}, NEW width \in Int
  PROVE  /\ Digits(n, hex, zero, width) \in Seq(Characters)
         /\ Digits(n, hex, zero, width) # <<>> /\ Head(Digits(n, hex, zero, width)) # "-"
         /\ Len(Digits(n, hex, zero, width)) >= width
         /\ ReadsTo(0, Digits(n, hex, zero, width), BaseOf(hex), n)
         /\ zero = "0" /\ width = m =>
              /\ Len(Digits(n, hex, zero, width)) = m
              /\ \A v \in Nat : ReadsTo(v, Digits(n, hex, zero, width), BaseOf(hex),
                                        v * Power(BaseOf(hex), m) + n)
<1>0. BaseOf(hex) \in Nat
  BY DEF BaseOf
<1>1. PICK base \in Nat : base = BaseOf(hex)
  BY <1>0
<1>2. PICK text \in Seq(Characters), l \in Nat :
        /\ text = Numeral(n, hex) /\ l = Len(text) /\ l \in 1..m
        /\ \A v \in Nat : ReadsTo(v, text, base, v * Power(base, l) + n)
  <2>1. Spelt(Numeral(n, hex), n, base, m)
    BY <1>1, NumeralSpelt
  <2>2. Len(Numeral(n, hex)) \in Nat
    BY <2>1, LenProperties DEF Spelt
  <2>3. QED
    BY <2>1, <2>2 DEF Spelt
<1>3. PICK k \in Nat : k = IF width > l THEN width - l ELSE 0
  <2>1. (IF width > l THEN width - l ELSE 0) \in Nat
    OBVIOUS
  <2>2. QED
    BY <2>1
<1>4. "0" \in DigitCharacters /\ Fill \in DigitCharacters /\ zero \in DigitCharacters
  <2>1. 1 \in 1..16 /\ Figures[1] = "0"
    BY DEF Figures
  <2>2. QED
    BY <2>1 DEF DigitCharacters
<1>5. DigitCharacters \subseteq Characters /\ "-" \notin DigitCharacters
  <2>1. "-" # Fill
    BY Zenon DEF Fill
  <2>2. \A i \in 1..16 : Figures[i] # "-" /\ FIGURES[i] # "-"
    BY FigureIs
  <2>3. (\A i \in 1..16 : Figures[i] \in Characters /\ FIGURES[i] \in Characters) /\ Fill \in Characters
    BY PrintfAssumption, Zenon
  <2>4. QED
    BY <2>1, <2>2, <2>3 DEF DigitCharacters
<1>6. PICK pads \in Seq(DigitCharacters) : pads = Pads(zero, k) /\ Len(pads) = k
  <2>1. Pads(zero, k) \in Seq(DigitCharacters) /\ Len(Pads(zero, k)) = k
    BY <1>4, PadsAre
  <2>2. QED
    BY <2>1
<1>7. PICK temp \in Seq(DigitCharacters) : temp = text
  <2>1. \A i \in 1..16 : Figures[i] \in DigitCharacters /\ FIGURES[i] \in DigitCharacters
    BY DEF DigitCharacters
  <2>2. QED
    BY <1>2, <2>1, NumeralTyped
<1>8. PICK u \in Seq(DigitCharacters) : u = pads \o temp /\ Len(u) = k + l
  <2>1. pads \o temp \in Seq(DigitCharacters) /\ Len(pads \o temp) = Len(pads) + Len(temp)
    BY ConcatProperties
  <2>2. QED
    BY <1>2, <1>6, <1>7, <2>1
<1>9. Digits(n, hex, zero, width) = u
  BY <1>2, <1>3, <1>6, <1>7, <1>8 DEF Digits, Padding
<1>10. Len(u) > 0 /\ Len(u) >= width
  BY <1>2, <1>3, <1>8
<1>11. u # <<>> /\ Head(u) \in DigitCharacters
  <2>1. u # <<>>
    BY <1>10, EmptySeq
  <2>2. QED
    BY <2>1, HeadTailProperties
<1>12. u \in Seq(Characters) /\ pads \in Seq(Characters)
  BY <1>5, TypedIn
<1>13. zero \in Characters
  BY <1>4, <1>5
<1>14. PICK p \in Nat : p = Power(base, l)
  BY PowerIs
<1>15. ASSUME NEW v \in Nat, NEW w \in Nat, ReadsTo(v, pads, base, w)
       PROVE  ReadsTo(v, u, base, w * p + n)
  <2>1. ReadsTo(w, text, base, w * p + n)
    BY <1>2, <1>14
  <2>2. ReadsTo(v, pads \o text, base, w * p + n)
    BY <1>12, <1>15, <2>1, ReadOn
  <2>3. QED
    BY <1>7, <1>8, <2>2
<1>16. ReadsTo(0, u, base, n)
  <2>1. ReadsTo(0, pads, base, 0)
    <3>1. CASE zero = Fill
      BY <1>6, <1>13, <3>1, PadsRead
    <3>2. CASE zero = "0"
      <4>1. ReadsTo(0, pads, base, 0 * Power(base, k))
        BY <1>6, <1>13, <3>2, PadsRead
      <4>2. 0 * Power(base, k) = 0
        <5>1. Power(base, k) \in Nat
          BY PowerIs
        <5>2. QED
          BY <5>1
      <4>3. QED
        BY <4>1, <4>2
    <3>3. QED
      BY <3>1, <3>2
  <2>2. ReadsTo(0, u, base, 0 * p + n)
    BY <1>15, <2>1
  <2>3. 0 * p + n = n
    OBVIOUS
  <2>4. QED
    BY <2>2, <2>3
<1>17. ASSUME zero = "0", width = m, NEW v \in Nat
       PROVE  Len(u) = m /\ ReadsTo(v, u, base, v * Power(base, m) + n)
  <2>1. k + l = m /\ m \in Nat
    BY <1>2, <1>3, <1>17
  <2>2. PICK q \in Nat : q = Power(base, k) /\ Power(base, m) = q * p
    <3>1. Power(base, k) \in Nat
      BY PowerIs
    <3>2. Power(base, k + l) = Power(base, k) * Power(base, l)
      BY PowerSum
    <3>3. QED
      BY <1>14, <2>1, <3>1, <3>2
  <2>3. ReadsTo(v, pads, base, v * q)
    BY <1>6, <1>13, <1>17, <2>2, PadsRead
  <2>4. v * q \in Nat
    OBVIOUS
  <2>5. ReadsTo(v, u, base, (v * q) * p + n)
    BY <1>15, <2>3, <2>4
  <2>6. (v * q) * p = v * (q * p)
    BY SMT
  <2>7. QED
    BY <1>8, <2>1, <2>2, <2>5, <2>6
<1>18. QED
  BY <1>1, <1>5, <1>9, <1>10, <1>11, <1>12, <1>16, <1>17

\* What two texts together begin with.
LEMMA FirstOf ==
  ASSUME NEW S, NEW s \in Seq(S), NEW t \in Seq(S)
  PROVE  /\ s = <<>> => s \o t = t
         /\ s # <<>> => s \o t # <<>> /\ Head(s \o t) = Head(s)
         /\ Len(s \o t) >= Len(s) /\ Len(s \o t) >= Len(t)
<1>1. PICK m \in Nat, k \in Nat : m = Len(s) /\ k = Len(t)
  BY LenProperties
<1>2. PICK u \in Seq(S) : /\ u = s \o t /\ Len(u) = m + k
                          /\ \A i \in 1..m + k : u[i] = IF i =< m THEN s[i] ELSE t[i - m]
  <2>1. s \o t \in Seq(S) /\ Len(s \o t) = m + k
    BY <1>1, Glued
  <2>2. \A i \in 1..m + k : (s \o t)[i] = IF i =< m THEN s[i] ELSE t[i - m]
    BY <1>1, Glued
  <2>3. QED
    BY <2>1, <2>2
<1>3. ASSUME s # <<>> PROVE u # <<>> /\ Head(u) = Head(s)
  <2>1. m > 0
    BY <1>1, <1>3, EmptySeq
  <2>2. u # <<>> /\ 1 \in 1..m + k /\ 1 =< m
    <3>1. Len(u) # 0
      BY <1>2, <2>1
    <3>2. QED
      BY <2>1, <3>1, EmptySeq
  <2>3. u[1] = s[1]
    BY <1>2, <2>2
  <2>4. Head(u) = u[1] /\ Head(s) = s[1]
    OBVIOUS
  <2>5. QED
    BY <2>2, <2>3, <2>4
<1>4. s = <<>> => s \o t = t
  BY ConcatEmptySeq
<1>5. Len(u) >= m /\ Len(u) >= k
  BY <1>2
<1>6. QED
  BY <1>1, <1>2, <1>3, <1>4, <1>5

\* A sign in front of digits says whether the number is negative, and is passed over.
LEMMA SignedRead ==
  ASSUME NEW n \in Int, NEW t \in Seq(Characters), t # <<>>, Head(t) # "-",
         NEW base \in Nat, NEW v \in Nat, ReadsTo(0, t, base, v)
  PROVE  /\ SignOf(n) \o t \in Seq(Characters) /\ SignOf(n) \o t # <<>>
         /\ (Head(SignOf(n) \o t) = "-") = (n < 0)
         /\ Len(SignOf(n) \o t) >= Len(t)
         /\ ReadsTo(0, SignOf(n) \o t, base, v)
<1>1. CASE n < 0
  <2>1. "-" \in Characters
    BY PrintfAssumption, Zenon
  <2>2. PICK s \in Seq(Characters) : s = SignOf(n) /\ s # <<>> /\ Head(s) = "-" /\ s = <<"-">>
    <3>1. <<"-">> \in Seq(Characters)
      BY <2>1
    <3>2. <<"-">> # <<>> /\ Head(<<"-">>) = "-"
      OBVIOUS
    <3>3. QED
      BY <1>1, <3>1, <3>2 DEF SignOf
  <2>3. ReadNext(0, "-", base) = 0
    BY Zenon DEF ReadNext
  <2>4. ReadsTo(0, s, base, 0)
    <3>1. 0 \in Nat
      OBVIOUS
    <3>2. ReadsTo(0, <<"-">>, base, 0)
      BY <2>3, <3>1, ReadShort
    <3>3. QED
      BY <2>2, <3>2
  <2>5. s \o t \in Seq(Characters) /\ ReadsTo(0, s \o t, base, v)
    BY <2>4, ReadOn
  <2>6. s \o t # <<>> /\ Head(s \o t) = "-" /\ Len(s \o t) >= Len(t)
    BY <2>2, FirstOf
  <2>7. QED
    BY <1>1, <2>2, <2>5, <2>6
<1>2. CASE ~(n < 0)
  <2>1. SignOf(n) \o t = t
    BY <1>2, ConcatEmptySeq DEF SignOf
  <2>2. Len(t) >= Len(t)
    BY LenProperties
  <2>3. QED
    BY <1>2, <2>1, <2>2
<1>3. QED
  BY <1>1, <1>2

\* An integer, signed or not.
LEMMA NumberRead ==
  ASSUME NEW d, Known(d), d.zero = "0" \/ d.zero = Fill, d.conv \in {"d", "i", "L", "P", "p"},
         NEW n \in Int, Abs(n) < Power(10, NGX_INT64_LEN)
  PROVE  NumberText(d, n) \in Seq(Characters) /\ Printed(d, NumberText(d, n), n)
<1>1. NGX_INT64_LEN \in Nat \ {0} /\ UnsignedRange(d) \in Nat \ {0} /\ PointerLen \in Nat
  BY RangeTyped, PrintfAssumption, Zenon
<1>2. UnsignedRange(d) =< Power(10, NGX_INT64_LEN)
  BY RangeTyped
<1>3. PICK m \in 1..NGX_INT64_LEN : m = NGX_INT64_LEN
  <2>1. NGX_INT64_LEN \in 1..NGX_INT64_LEN
    BY <1>1
  <2>2. QED
    BY <2>1
<1>4. PICK value \in Nat : value = ValueIn(d, n) /\ value < Power(10, m)
  <2>1. Abs(n) \in Nat /\ n % UnsignedRange(d) \in Nat /\ n % UnsignedRange(d) < UnsignedRange(d)
    BY <1>1 DEF Abs
  <2>2. Power(10, NGX_INT64_LEN) \in Nat
    BY <1>1, PowerIs
  <2>3. n % UnsignedRange(d) < Power(10, NGX_INT64_LEN)
    BY <1>1, <1>2, <2>1, <2>2
  <2>4. QED
    BY <1>3, <2>1, <2>3 DEF ValueIn
<1>5. PICK hex \in 0..2, width \in Int, zero \in {"0", Fill} :
        hex = HexIn(d) /\ width = WidthIn(d) /\ zero = ZeroIn(d)
  BY <1>1 DEF Known, HexIn, WidthIn, ZeroIn
<1>6. PICK base \in Nat : base = BaseOf(hex) /\ base = Base(d)
  <2>1. BaseOf(hex) \in Nat /\ BaseOf(hex) = Base(d)
    BY <1>5 DEF BaseOf, Base, HexIn
  <2>2. QED
    BY <2>1
<1>7. PICK t : t = Digits(value, hex, zero, width)
  OBVIOUS
<1>8. /\ t \in Seq(Characters) /\ t # <<>> /\ Head(t) # "-" /\ Len(t) >= width
      /\ ReadsTo(0, t, base, value)
  <2>1. /\ Digits(value, hex, zero, width) \in Seq(Characters)
        /\ Digits(value, hex, zero, width) # <<>> /\ Head(Digits(value, hex, zero, width)) # "-"
    BY <1>4, <1>5, DigitsRead, ZenonT(40)
  <2>2. Len(Digits(value, hex, zero, width)) >= width
    BY <1>4, <1>5, DigitsRead
  <2>3. ReadsTo(0, Digits(value, hex, zero, width), BaseOf(hex), value)
    BY <1>4, <1>5, DigitsRead
  <2>4. QED
    BY <1>6, <1>7, <2>1, <2>2, <2>3
<1>9. PICK s \in Int : SignIn(d, n) = SignOf(s) /\ (s < 0) = (Signed(d) /\ n < 0)
  <2>1. CASE Signed(d)
    BY <2>1 DEF SignIn
  <2>2. CASE ~Signed(d)
    BY <2>2 DEF SignIn, SignOf
  <2>3. QED
    BY <2>1, <2>2
<1>10. PICK u \in Seq(Characters) :
         /\ u = SignOf(s) \o t /\ (Head(u) = "-") = (s < 0)
         /\ Len(u) >= Len(t) /\ ReadsTo(0, u, base, value)
  <2>1. SignOf(s) \o t \in Seq(Characters) /\ (Head(SignOf(s) \o t) = "-") = (s < 0)
    BY <1>8, SignedRead
  <2>2. Len(SignOf(s) \o t) >= Len(t) /\ ReadsTo(0, SignOf(s) \o t, base, value)
    BY <1>8, SignedRead
  <2>3. QED
    BY <2>1, <2>2
<1>11. u = NumberText(d, n)
  BY <1>4, <1>5, <1>7, <1>9, <1>10 DEF NumberText
<1>12. Read(u, Base(d)) = value
  BY <1>6, <1>10, WholeRead
<1>13. Len(u) >= IF d.conv = "p" THEN PointerLen ELSE d.width
  <2>1. Len(u) >= width
    BY <1>8, <1>10, LenProperties
  <2>2. QED
    BY <1>5, <2>1 DEF WidthIn
<1>14. ReadAs(d, Read(u, Base(d)), n)
  <2>1. d.conv # "f"
    OBVIOUS
  <2>2. QED
    BY <1>4, <1>12, <2>1 DEF ReadAs, ValueIn, UnsignedRange
<1>15. QED
  BY <1>9, <1>10, <1>11, <1>13, <1>14 DEF Printed

-----------------------------------------------------------------------------
\* How the thousandths are rounded, and carried.
LEMMA Rounding ==
  ASSUME NEW d, d.frac_width \in Nat, NEW n \in Int, NEW ten \in Nat, ten = Power(10, d.frac_width)
  PROVE  /\ ten > 0 /\ Abs(n) \in Nat /\ Abs(n) \div 1000 \in Nat
         /\ WholeIn(d, n) \in Nat /\ WholeIn(d, n) =< (Abs(n) \div 1000) + 1
         /\ d.frac_width = 0 => WholeIn(d, n) = Abs(n) \div 1000
         /\ d.frac_width > 0 =>
              /\ RestIn(d, n) \in Nat /\ RestIn(d, n) < ten
              /\ \E y \in Nat, z \in Nat : /\ y = WholeIn(d, n) * ten + RestIn(d, n) /\ z = Abs(n) * ten
                                         /\ 2 * Abs(1000 * y - z) =< 1000
<1>1. PICK a \in Nat : a = Abs(n)
  BY DEF Abs
<1>2. ten > 0
  <2>1. Power(10, 0) = 1
    BY PowerIs
  <2>2. Power(10, 0) =< Power(10, d.frac_width)
    <3>1. PICK w \in Nat : w = d.frac_width
      OBVIOUS
    <3>2. 10 \in Nat /\ 10 > 0 /\ 0 \in Nat /\ 0 =< w
      OBVIOUS
    <3>3. QED
      BY <3>1, <3>2, PowerGrows
  <2>3. QED
    BY <2>1, <2>2
<1>3. PICK q \in Nat, r \in Nat : q = a \div 1000 /\ r = a % 1000 /\ a = q * 1000 + r /\ r =< 999
  <2>1. a \div 1000 \in Nat /\ a % 1000 \in 0..999
    BY SMTT(40)
  <2>2. a = (a \div 1000) * 1000 + (a % 1000)
    BY SMTT(40)
  <2>3. QED
    BY <2>1, <2>2
<1>4. PICK p \in Nat : p = r * ten
  OBVIOUS
<1>5. p =< 999 * ten
  <2>1. r * ten =< 999 * ten
    BY <1>3, SMTT(40)
  <2>2. QED
    BY <1>4, <2>1
<1>6. PICK frac \in Nat : /\ frac = FracIn(d, n)
                          /\ 2000 * frac =< 2 * p + 1000 /\ 2 * p + 1000 < 2000 * frac + 2000
  <2>1. FracIn(d, n) = Halves(p)
    <3>1. Abs(n) % 1000 = r
      BY <1>1, <1>3
    <3>2. FracIn(d, n) = Halves((Abs(n) % 1000) * Power(10, d.frac_width))
      BY Zenon DEF FracIn
    <3>3. (Abs(n) % 1000) * Power(10, d.frac_width) = p
      <4>1. \A b : b = r => b * ten = p
        BY <1>4, Zenon
      <4>2. QED
        BY <3>1, <4>1
    <3>4. QED
      BY <3>2, <3>3
  <2>2. PICK f \in Nat : f = Halves(p) /\ f = (p * 2 + 1000) \div 2000
    <3>1. (p * 2 + 1000) \div 2000 \in Nat
      BY SMT
    <3>2. QED
      BY <3>1 DEF Halves
  <2>3. 2000 * f =< p * 2 + 1000 /\ p * 2 + 1000 < 2000 * f + 2000
    BY <2>2, SMT
  <2>4. QED
    BY <2>1, <2>2, <2>3
<1>7. frac =< ten
  BY <1>5, <1>6
<1>8. CarryIn(d, n) <=> (d.frac_width > 0 /\ frac = ten)
  BY <1>6 DEF CarryIn, Carry
<1>9. /\ CarryIn(d, n) => WholeIn(d, n) = q + 1 /\ RestIn(d, n) = 0
      /\ ~CarryIn(d, n) => WholeIn(d, n) = q /\ RestIn(d, n) = frac
  <2>1. Abs(n) \div 1000 = q
    BY <1>1, <1>3
  <2>2. WholeIn(d, n) = q + (IF CarryIn(d, n) THEN 1 ELSE 0)
    BY <2>1 DEF WholeIn
  <2>3. RestIn(d, n) = IF CarryIn(d, n) THEN 0 ELSE frac
    BY <1>6 DEF RestIn
  <2>4. QED
    BY <2>2, <2>3
<1>10. d.frac_width = 0 => WholeIn(d, n) = q
  <2>1. SUFFICES ASSUME d.frac_width = 0 PROVE WholeIn(d, n) = q
    OBVIOUS
  <2>2. ~(d.frac_width > 0)
    BY <2>1
  <2>3. QED
    BY <1>8, <1>9, <2>2, Zenon
<1>11. ASSUME d.frac_width > 0
       PROVE  /\ RestIn(d, n) \in Nat /\ RestIn(d, n) < ten
              /\ \E y \in Nat, z \in Nat : /\ y = WholeIn(d, n) * ten + RestIn(d, n) /\ z = a * ten
                                         /\ 2 * Abs(1000 * y - z) =< 1000
  <2>1. PICK x \in Nat : x = q * ten
    OBVIOUS
  <2>2. /\ RestIn(d, n) \in Nat /\ RestIn(d, n) < ten
        /\ WholeIn(d, n) * ten + RestIn(d, n) = x + frac
    <3>1. CASE CarryIn(d, n)
      <4>1. WholeIn(d, n) = q + 1 /\ RestIn(d, n) = 0 /\ frac = ten
        BY <1>8, <1>9, <3>1, Zenon
      <4>2. (q + 1) * ten + 0 = q * ten + ten
        BY SMT
      <4>3. QED
        BY <1>2, <2>1, <4>1, <4>2
    <3>2. CASE ~CarryIn(d, n)
      <4>1. WholeIn(d, n) = q /\ RestIn(d, n) = frac /\ frac # ten
        BY <1>8, <1>9, <1>11, <3>2, Zenon
      <4>2. QED
        BY <1>7, <2>1, <4>1
    <3>3. QED
      BY <3>1, <3>2
  <2>3. a * ten = 1000 * x + p
    <3>1. PICK k \in Nat : k = 1000
      OBVIOUS
    <3>2. r \in Nat /\ a = q * k + r
      BY <1>3, <3>1
    <3>3. a * ten = q * (k * ten) + r * ten
      BY <3>2, Spread
    <3>4. q * (k * ten) = k * (q * ten)
      BY SMT
    <3>5. PICK w \in Nat : w = q * (k * ten) /\ w = k * x
      <4>1. q * (k * ten) \in Nat
        OBVIOUS
      <4>2. QED
        BY <2>1, <3>4, <4>1
    <3>6. a * ten = w + p
      BY <1>4, <3>3, <3>5, Zenon
    <3>7. QED
      BY <3>1, <3>5, <3>6
  <2>4. PICK y \in Nat, z \in Nat : /\ y = WholeIn(d, n) * ten + RestIn(d, n) /\ z = a * ten
                                  /\ y = x + frac /\ z = 1000 * x + p
    <3>1. x + frac \in Nat /\ 1000 * x + p \in Nat
      OBVIOUS
    <3>2. QED
      BY <2>2, <2>3, <3>1
  <2>5. 2 * Abs(1000 * y - z) =< 1000
    BY <1>6, <2>4 DEF Abs
  <2>6. QED
    BY <2>2, <2>4, <2>5
<1>12. WholeIn(d, n) \in Nat /\ WholeIn(d, n) =< q + 1
  BY <1>9
<1>13. Abs(n) = a /\ Abs(n) \div 1000 = q
  BY <1>1, <1>3
<1>14. QED
  BY <1>2, <1>10, <1>11, <1>12, <1>13

\* The places behind the point are read on from the whole number.
LEMMA PlacesRead ==
  ASSUME NEW s \in Seq(Characters), s # <<>>, NEW whole \in Nat, ReadsTo(0, s, 10, whole),
         NEW rest \in Nat, NEW m \in 1..NGX_INT64_LEN, rest < Power(10, m)
  PROVE  \E u \in Seq(Characters) :
           /\ u = (s \o <<".">>) \o Digits(rest, 0, "0", m)
           /\ Head(u) = Head(s) /\ Len(u) >= Len(s)
           /\ ReadsTo(0, u, 10, whole * Power(10, m) + rest)
<1>1. PICK dot \in Seq(Characters) : dot = <<".">> /\ ReadsTo(whole, dot, 10, whole)
  <2>1. "." \in Characters
    BY PrintfAssumption, Zenon
  <2>2. ReadNext(whole, ".", 10) = whole
    BY Zenon DEF ReadNext
  <2>3. ReadsTo(whole, <<".">>, 10, whole)
    BY <2>2, ReadShort
  <2>4. <<".">> \in Seq(Characters)
    BY <2>1
  <2>5. QED
    BY <2>3, <2>4
<1>2. PICK b \in Seq(Characters) : /\ b = s \o dot /\ b # <<>> /\ Head(b) = Head(s)
                                   /\ Len(b) >= Len(s) /\ ReadsTo(0, b, 10, whole)
  <2>1. s \o dot \in Seq(Characters) /\ ReadsTo(0, s \o dot, 10, whole)
    BY <1>1, ReadOn
  <2>2. s \o dot # <<>> /\ Head(s \o dot) = Head(s) /\ Len(s \o dot) >= Len(s)
    BY FirstOf
  <2>3. QED
    BY <2>1, <2>2
<1>3. PICK t \in Seq(Characters) : /\ t = Digits(rest, 0, "0", m)
                                   /\ ReadsTo(whole, t, 10, whole * Power(10, m) + rest)
  <2>1. 0 \in 0..2 /\ "0" \in {"0", Fill} /\ m \in Int /\ BaseOf(0) = 10
    BY DEF BaseOf
  <2>2. Digits(rest, 0, "0", m) \in Seq(Characters)
    BY <2>1, DigitsRead
  <2>3. \A v \in Nat : ReadsTo(v, Digits(rest, 0, "0", m), BaseOf(0), v * Power(BaseOf(0), m) + rest)
    BY <2>1, DigitsRead
  <2>4. QED
    BY <2>1, <2>2, <2>3
<1>4. PICK u \in Seq(Characters) : u = b \o t /\ ReadsTo(0, u, 10, whole * Power(10, m) + rest)
  <2>1. PICK x : x = whole * Power(10, m) + rest
    OBVIOUS
  <2>2. ReadsTo(0, b, 10, whole) /\ ReadsTo(whole, t, 10, x)
    BY <1>2, <1>3, <2>1
  <2>3. b \o t \in Seq(Characters) /\ ReadsTo(0, b \o t, 10, x)
    BY <2>2, ReadOn
  <2>4. QED
    BY <2>1, <2>3
<1>5. Head(u) = Head(s) /\ Len(u) >= Len(s)
  <2>1. Head(b \o t) = Head(b) /\ Len(b \o t) >= Len(b)
    BY <1>2, FirstOf
  <2>2. QED
    BY <1>2, <1>4, <2>1, LenProperties
<1>6. QED
  BY <1>1, <1>2, <1>3, <1>4, <1>5

\* A number of thousandths.
LEMMA FloatRead ==
  ASSUME NEW d, Known(d), d.zero = "0" \/ d.zero = Fill, d.conv = "f",
         d.frac_width =< NGX_INT64_LEN, NEW n \in Int, Abs(n) < Power(10, NGX_INT64_LEN)
  PROVE  FloatText(d, n) \in Seq(Characters) /\ Printed(d, FloatText(d, n), n)
<1>1. PICK L \in Nat \ {0} : L = NGX_INT64_LEN
  BY PrintfAssumption, Zenon
<1>2. PICK fw \in Nat, ten \in Nat : fw = d.frac_width /\ ten = Power(10, d.frac_width)
  BY PowerIs DEF Known
<1>3. PICK whole \in Nat : whole = WholeIn(d, n) /\ whole =< (Abs(n) \div 1000) + 1
  BY <1>2, Rounding
<1>4. whole < Power(10, L)
  <2>1. PICK a \in Nat : a = Abs(n) /\ a < Power(10, L)
    BY <1>1 DEF Abs
  <2>2. Power(10, 1) = 10
    <3>1. Power(10, 0) = 1 /\ Power(10, 0 + 1) = 10 * Power(10, 0)
      BY PowerIs
    <3>2. QED
      BY <3>1
  <2>3. Power(10, 1) =< Power(10, L) /\ Power(10, L) \in Nat
    BY <1>1, PowerGrows, PowerIs
  <2>4. a \div 1000 < a \/ a \div 1000 = 0
    BY SMT
  <2>5. whole =< (a \div 1000) + 1 /\ a \div 1000 \in Nat
    BY <1>3, <2>1, SMT
  <2>6. QED
    BY <2>1, <2>2, <2>3, <2>4, <2>5
<1>5. PICK width \in Int, zero \in {"0", Fill}, m \in 1..NGX_INT64_LEN :
        width = d.width /\ zero = d.zero /\ m = L
  <2>1. L \in 1..NGX_INT64_LEN /\ d.width \in Int
    BY <1>1 DEF Known
  <2>2. QED
    BY <2>1
<1>6. PICK t : t = Digits(whole, 0, zero, width)
  OBVIOUS
<1>7. /\ t \in Seq(Characters) /\ t # <<>> /\ Head(t) # "-" /\ Len(t) >= width
      /\ ReadsTo(0, t, 10, whole)
  <2>1. whole < Power(10, m) /\ 0 \in 0..2 /\ BaseOf(0) = 10
    BY <1>4, <1>5 DEF BaseOf
  <2>2. /\ Digits(whole, 0, zero, width) \in Seq(Characters)
        /\ Digits(whole, 0, zero, width) # <<>> /\ Head(Digits(whole, 0, zero, width)) # "-"
    BY <2>1, DigitsRead
  <2>3. Len(Digits(whole, 0, zero, width)) >= width
    BY <2>1, DigitsRead
  <2>4. ReadsTo(0, Digits(whole, 0, zero, width), BaseOf(0), whole)
    BY <2>1, DigitsRead
  <2>5. QED
    BY <1>6, <2>1, <2>2, <2>3, <2>4
<1>8. PICK s \in Seq(Characters) :
        /\ s = WholeText(d, n) /\ s # <<>> /\ (Head(s) = "-") = (n < 0)
        /\ Len(s) >= width /\ ReadsTo(0, s, 10, whole)
  <2>1. SignOf(n) \o t \in Seq(Characters) /\ SignOf(n) \o t # <<>>
    BY <1>7, SignedRead
  <2>2. (Head(SignOf(n) \o t) = "-") = (n < 0)
    BY <1>7, SignedRead
  <2>3. Len(SignOf(n) \o t) >= Len(t) /\ ReadsTo(0, SignOf(n) \o t, 10, whole)
    BY <1>7, SignedRead
  <2>4. SignOf(n) \o t = WholeText(d, n)
    BY <1>3, <1>5, <1>6 DEF WholeText
  <2>5. Len(SignOf(n) \o t) >= width
    BY <1>7, <2>1, <2>3, LenProperties
  <2>6. QED
    BY <2>1, <2>2, <2>3, <2>4, <2>5
<1>9. Signed(d) /\ Base(d) = 10 /\ d.conv = "f" /\ d.conv # "p"
  BY DEF Signed, Base
<1>10. CASE fw = 0
  <2>1. FloatText(d, n) = s
    BY <1>2, <1>8, <1>10 DEF FloatText
  <2>2. Read(s, 10) = whole
    BY <1>8, WholeRead
  <2>3. whole = Abs(n) \div 1000
    <3>1. d.frac_width = 0 => WholeIn(d, n) = Abs(n) \div 1000
      BY <1>2, Rounding
    <3>2. QED
      BY <1>2, <1>3, <1>10, <3>1
  <2>4. ReadAs(d, Read(s, Base(d)), n)
    BY <1>2, <1>9, <1>10, <2>2, <2>3 DEF ReadAs
  <2>5. Len(s) >= d.width /\ (Head(s) = "-") = (Signed(d) /\ n < 0)
    BY <1>5, <1>8, <1>9
  <2>6. QED
    BY <1>9, <2>1, <2>4, <2>5 DEF Printed
<1>11. CASE fw # 0
  <2>1. d.frac_width > 0 /\ d.frac_width \in Nat
    BY <1>2, <1>11
  <2>2. PICK rest \in Nat : rest = RestIn(d, n) /\ rest < ten
    <3>1. RestIn(d, n) \in Nat /\ RestIn(d, n) < ten
      BY <1>2, <2>1, Rounding
    <3>2. QED
      BY <3>1
  <2>3. PICK y \in Nat, z \in Nat : /\ y = WholeIn(d, n) * ten + RestIn(d, n) /\ z = Abs(n) * ten
                                   /\ 2 * Abs(1000 * y - z) =< 1000
    BY <1>2, <2>1, Rounding, SMTT(40)
  <2>4. y = whole * ten + rest
    BY <1>3, <2>2, <2>3
  <2>5. PICK k \in 1..NGX_INT64_LEN : k = fw
    <3>1. fw \in 1..NGX_INT64_LEN
      BY <1>1, <1>2, <1>11
    <3>2. QED
      BY <3>1
  <2>6. PICK u \in Seq(Characters) :
          /\ u = (s \o <<".">>) \o Digits(rest, 0, "0", k)
          /\ Head(u) = Head(s) /\ Len(u) >= Len(s)
          /\ ReadsTo(0, u, 10, whole * Power(10, k) + rest)
    <3>1. rest < Power(10, k)
      BY <1>2, <2>2, <2>5
    <3>2. QED
      BY <1>8, <3>1, PlacesRead
  <2>7. FloatText(d, n) = u
    <3>1. FloatText(d, n) = (WholeText(d, n) \o <<".">>) \o Digits(RestIn(d, n), 0, "0", d.frac_width)
      BY <1>2, <1>11 DEF FloatText
    <3>2. RestIn(d, n) = rest /\ d.frac_width = k
      BY <1>2, <2>2, <2>5
    <3>3. QED
      BY <1>8, <2>6, <3>1, <3>2, Zenon
  <2>8. Read(u, 10) = y
    <3>1. Power(10, k) = ten
      BY <1>2, <2>5
    <3>2. ReadsTo(0, u, 10, whole * Power(10, k) + rest)
      BY <2>6
    <3>3. ReadsTo(0, u, 10, y)
      BY <2>4, <3>1, <3>2, Zenon
    <3>4. QED
      BY <3>3, WholeRead
  <2>9. ReadAs(d, Read(u, Base(d)), n)
    <3>1. ReadAs(d, Read(u, Base(d)), n)
            <=> 2 * Abs(1000 * Read(u, Base(d)) - Abs(n) * Power(10, d.frac_width)) =< 1000
      BY <1>2, <1>9, <1>11 DEF ReadAs
    <3>2. Read(u, Base(d)) = y /\ Abs(n) * Power(10, d.frac_width) = z
      BY <1>2, <1>9, <2>3, <2>8
    <3>3. QED
      BY <2>3, <3>1, <3>2
  <2>10. Len(u) >= d.width /\ (Head(u) = "-") = (Signed(d) /\ n < 0)
    <3>1. Len(u) >= d.width
      BY <1>5, <1>8, <2>6, LenProperties
    <3>2. QED
      BY <1>8, <1>9, <2>6, <3>1
  <2>11. QED
    BY <1>9, <2>7, <2>9, <2>10 DEF Printed
<1>12. QED
  BY <1>10, <1>11

\* What ngx_vslprintf prints for a number is read as that number.
LEMMA ReadBack == ReadsBack
<1>1. SUFFICES
        ASSUME NEW p \in Prints, p.fmt # <<>>, Head(p.fmt) = "%",
               Directive(Tail(p.fmt)).conv \in Numbers, Directive(Tail(p.fmt)).rest = <<>>,
               Len(ngx_vslprintf(<<>>, Endless, p.fmt, p.args)) < Endless
        PROVE  Printed(Directive(Tail(p.fmt)), ngx_vslprintf(<<>>, Endless, p.fmt, p.args), p.args[1])
  BY Zenon DEF ReadsBack
<1>2. PICK d : d = Directive(Tail(p.fmt))
  OBVIOUS
<1>3. PICK args : args = p.args
  OBVIOUS
<1>4. PICK fmt \in Seq(Characters) : fmt = p.fmt /\ Suits(d, args)
  <2>1. p.fmt \in Seq(Characters)
    BY PrintfAssumption, Zenon
  <2>2. Suits(Directive(Tail(p.fmt)), p.args)
    BY <1>1, PrintfAssumption, Zenon
  <2>3. QED
    BY <1>2, <1>3, <2>1, <2>2
<1>5. /\ Known(d)
      /\ d.zero = "0" \/ d.zero = Fill
      /\ args[1] \in Int /\ Abs(args[1]) < Power(10, NGX_INT64_LEN)
      /\ d.frac_width =< NGX_INT64_LEN
  <2>1. /\ d.zero \in Characters /\ d.hex \in 0..2
        /\ (d.zero = "0" \/ d.zero = Fill)
    BY <1>2, Converted
  <2>2. d.conv \in Numbers
    BY <1>1, <1>2
  <2>3. QED
    BY <1>3, <1>4, <2>1, <2>2 DEF Known, Suits
<1>6. PICK n \in Int : n = args[1]
  BY <1>5
<1>7. PICK t \in Seq(Characters) : Stands(d, args, t) /\ Printed(d, t, n)
  <2>1. CASE d.conv \in {"d", "i", "L", "P", "p"}
    <3>1. NumberText(d, n) \in Seq(Characters) /\ Printed(d, NumberText(d, n), n)
      BY <1>5, <1>6, <2>1, NumberRead
    <3>2. Stands(d, args, NumberText(d, n))
      BY <1>5, <1>6, <2>1, NumberStands
    <3>3. QED
      BY <3>1, <3>2
  <2>2. CASE d.conv = "f"
    <3>1. FloatText(d, n) \in Seq(Characters) /\ Printed(d, FloatText(d, n), n)
      BY <1>5, <1>6, <2>2, FloatRead
    <3>2. Stands(d, args, FloatText(d, n))
      BY <1>5, <1>6, <2>2, FloatStands
    <3>3. QED
      BY <3>1, <3>2
  <2>3. d.conv \in {"d", "i", "L", "P", "p"} \/ d.conv = "f"
    BY <1>1, <1>2 DEF Numbers
  <2>4. QED
    BY <2>1, <2>2, <2>3
<1>8. PrintsText(fmt, args, t)
  BY <1>1, <1>2, <1>3, <1>4, <1>7, DirectivePrints
<1>9. Endless \in Nat
  BY PrintfAssumption, Zenon
<1>10. ngx_vslprintf(<<>>, Endless, fmt, args) = t
  <2>1. <<>> \in Seq(Characters) /\ Len(<<>>) =< Endless
    BY <1>9, EmptySeq
  <2>2. ngx_vslprintf(<<>>, Endless, fmt, args) = Take(<<>> \o t, Endless)
    BY <1>8, <1>9, <2>1 DEF PrintsText
  <2>3. <<>> \o t = t
    BY ConcatEmptySeq
  <2>4. Len(Take(t, Endless)) < Endless
    BY <1>1, <1>3, <1>4, <2>2, <2>3
  <2>5. Len(t) =< Endless
    BY <1>9, <2>4, TakeIs, LenProperties
  <2>6. Take(t, Endless) = t
    BY <1>9, <2>5, TakeIs
  <2>7. QED
    BY <2>2, <2>3, <2>6
<1>11. QED
  BY <1>2, <1>3, <1>4, <1>6, <1>7, <1>10

-----------------------------------------------------------------------------
(* The lines of the log.                                                   *)

\* All but the last character.
LEMMA AllButLast ==
  ASSUME NEW S, NEW x \in Seq(S), NEW n \in Nat, Len(x) = n + 1
  PROVE  Take(x, n) = Front(x)
<1>1. {n, n + 1} \in SUBSET Int /\ n \in {n, n + 1} /\ \A i \in {n, n + 1} : n =< i
  OBVIOUS
<1>2. Min({n, n + 1}) = n
  BY <1>1, MinIs
<1>3. n + 1 - 1 = n
  OBVIOUS
<1>4. Take(x, n) = SubSeq(x, 1, n)
  BY <1>2 DEF Take
<1>5. Front(x) = SubSeq(x, 1, n)
  BY <1>3 DEF Front
<1>6. QED
  BY <1>4, <1>5

\* What has been cut is cut once more.
LEMMA CutAgain ==
  ASSUME NEW S, NEW m \in Seq(S), NEW n \in Nat, NEW k \in Nat, k =< n
  PROVE  Take(Take(m, n), k) = Take(m, k)
<1>1. PICK l \in Nat : l = Len(m)
  BY LenProperties
<1>2. CASE l =< n
  BY <1>1, <1>2, TakeIs
<1>3. CASE ~(l =< n)
  <2>1. PICK u \in Seq(S) : u = Take(m, n) /\ Len(u) = n /\ \A i \in 1..n : u[i] = m[i]
    BY <1>1, <1>3, TakeIs
  <2>2. k =< Len(u) /\ k =< Len(m) /\ \A i \in 1..k : i \in 1..n
    BY <1>1, <1>3, <2>1
  <2>3. \A i \in 1..k : u[i] = m[i]
    BY <2>1, <2>2
  <2>4. Take(u, k) = Take(m, k)
    BY <2>2, <2>3, TakeSame
  <2>5. QED
    BY <2>1, <2>4
<1>4. QED
  BY <1>2, <1>3

\* The line of a message cut where the room ends, and of its error.
LineOfBoth(m, error) ==
  Line(ngx_log_errno(Take(m, NGX_MAX_ERROR_STR), NGX_MAX_ERROR_STR, error), NGX_MAX_ERROR_STR)

\* By the lengths of the message and of its error.
LEMMA LineComplete ==
  ASSUME NEW S, "\n" \in S, NEW m \in Seq(S), NEW error \in Seq(S)
  PROVE  LineOfBoth(m, error) \in Seq(S) /\ Complete(LineOfBoth(m, error), m, error)
<1>1. PICK N \in Nat : N = NGX_MAX_ERROR_STR /\ N > 2
  BY LogAssumption, Zenon
<1>2. PICK l \in Nat, k \in Nat : l = Len(m) /\ k = Len(error)
  BY LenProperties
<1>3. PICK both \in Seq(S) : both = m \o error /\ Len(both) = l + k
  <2>1. m \o error \in Seq(S) /\ Len(m \o error) = Len(m) + Len(error)
    BY ConcatProperties
  <2>2. QED
    BY <1>2, <2>1
<1>4. PICK v \in Seq(S) : v = Take(m, N) /\ Len(v) = IF N =< l THEN N ELSE l
  <2>1. Take(m, N) \in Seq(S) /\ Len(Take(m, N)) = IF N =< Len(m) THEN N ELSE Len(m)
    BY TakeIs
  <2>2. QED
    BY <1>2, <2>1
<1>5. PICK r \in Nat : r = N - 2
  BY <1>1
<1> DEFINE line == LineOfBoth(m, error)
<1>6. SUFFICES \E x \in Seq(S) : /\ line = x \o <<"\n">> /\ Len(x) =< r
                                /\ IF l + k =< r THEN x = both
                                   ELSE x = Take(m, r) \/ x = Front(both)
  <2>1. PICK x \in Seq(S) : /\ line = x \o <<"\n">> /\ Len(x) =< r
                            /\ IF l + k =< r THEN x = both
                               ELSE x = Take(m, r) \/ x = Front(both)
    BY <1>6
  <2>2. /\ line \in Seq(S) /\ Len(line) = Len(x) + 1 /\ Len(x) \in Nat
        /\ Front(line) = x /\ Last(line) = "\n"
    <3>1. /\ x \o <<"\n">> \in Seq(S) /\ Len(x \o <<"\n">>) = Len(x) + 1 /\ Len(x) \in Nat
          /\ Front(x \o <<"\n">>) = x /\ Last(x \o <<"\n">>) = "\n"
      BY OneBehind
    <3> HIDE DEF line
    <3>2. QED
      BY <2>1, <3>1
  <2>3. Len(line) < N
    BY <1>1, <1>5, <2>1, <2>2
  <2> HIDE DEF line
  <2>4. IF Len(both) =< N - 2 THEN Front(line) = both ELSE Front(line) \in {Take(m, N - 2), Front(both)}
    BY <1>3, <1>5, <2>1, <2>2
  <2>5. Complete(line, m, error)
    BY <1>1, <1>3, <2>2, <2>3, <2>4 DEF Complete
  <2>6. QED
    BY <2>2, <2>5 DEF line
<1>7. CASE l + k =< r + 1
  <2>1. Len(v) = l /\ v = m /\ l + k < N
    <3>1. l =< N /\ l + k < N
      BY <1>1, <1>5, <1>7
    <3>2. v = m
      BY <1>2, <1>4, <3>1, TakeIs
    <3>3. QED
      BY <1>2, <3>1, <3>2
  <2>2. ngx_log_errno(v, N, error) = both
    BY <1>2, <1>3, <2>1 DEF ngx_log_errno
  <2>3. CASE l + k =< r
    <3>1. ~(Len(both) >= N - 1)
      BY <1>1, <1>3, <1>5, <2>3
    <3>2. line = both \o <<"\n">>
      BY <1>1, <1>4, <2>2, <3>1 DEF Line, LineOfBoth
    <3>3. QED
      BY <1>3, <2>3, <3>2
  <2>4. CASE l + k = r + 1
    <3>1. Len(both) >= N - 1 /\ Len(both) = r + 1
      BY <1>1, <1>3, <1>5, <2>4
    <3>2. line = Take(both, r) \o <<"\n">>
      BY <1>1, <1>4, <1>5, <2>2, <3>1 DEF Line, LineOfBoth
    <3>3. PICK x \in Seq(S) : x = Take(both, r) /\ Len(x) =< r
      BY <3>1, TakeIs
    <3>4. x = Front(both)
      BY <3>1, <3>3, AllButLast
    <3>5. ~(l + k =< r)
      BY <2>4
    <3>6. QED
      BY <3>2, <3>3, <3>4, <3>5
  <2>5. l + k =< r \/ l + k = r + 1
    BY <1>7
  <2> HIDE DEF line
  <2>6. QED
    BY <2>3, <2>4, <2>5
<1>8. CASE ~(l + k =< r + 1)
  <2>1. ~(Len(v) + k < N)
    BY <1>1, <1>4, <1>5, <1>8
  <2>2. ngx_log_errno(v, N, error) = v
    BY <1>2, <2>1 DEF ngx_log_errno
  <2>3. PICK x \in Seq(S) : x = Take(m, r) /\ Len(x) =< r
    <3>1. Take(m, r) \in Seq(S) /\ Len(Take(m, r)) = IF r =< Len(m) THEN r ELSE Len(m)
      BY TakeIs
    <3>2. Len(Take(m, r)) =< r
      BY <1>2, <3>1
    <3>3. QED
      BY <3>1, <3>2
  <2>4. line = x \o <<"\n">>
    <3>1. CASE Len(v) >= N - 1
      <4>1. Take(v, r) = x
        BY <1>1, <1>4, <1>5, <2>3, CutAgain
      <4>2. QED
        BY <1>1, <1>4, <1>5, <2>2, <3>1, <4>1 DEF Line, LineOfBoth
    <3>2. CASE ~(Len(v) >= N - 1)
      <4>1. l =< r /\ l =< N
        BY <1>1, <1>4, <1>5, <3>2
      <4>2. Take(m, r) = m /\ v = m
        BY <1>2, <1>4, <4>1, TakeIs
      <4>3. QED
        BY <1>1, <1>4, <2>2, <2>3, <3>2, <4>2 DEF Line, LineOfBoth
    <3>3. QED
      BY <3>1, <3>2
  <2>5. ~(l + k =< r)
    BY <1>8
  <2>6. QED
    BY <2>3, <2>4, <2>5
<1>9. QED
  BY <1>7, <1>8

\* What stands in front of a line of the log.
LEMMA PrefixIs ==
  ASSUME NEW level \in 0..8
  PROVE  Prefix(level) \in Seq(Characters) /\ Len(Prefix(level)) =< NGX_MAX_ERROR_STR
<1>1. /\ NGX_MAX_ERROR_STR \in Nat /\ Endless \in Nat /\ TimePrint \in Prints /\ LevelPrint(level) \in Prints
      /\ Len(strcurrtime) =< NGX_MAX_ERROR_STR
  BY LogAssumption, PrintfAssumption, Zenon
<1>2. <<>> \in Seq(Characters) /\ Len(<<>>) =< Endless
  BY <1>1, EmptySeq
<1>3. strcurrtime \in Seq(Characters)
  <2>1. PICK t : PrintsText(TimePrint.fmt, TimePrint.args, t)
    BY <1>1, HasText
  <2>2. t \in Seq(Characters) /\ strcurrtime = Take(<<>> \o t, Endless)
    BY <1>1, <1>2, <2>1 DEF PrintsText, strcurrtime
  <2>3. QED
    BY <1>1, <1>2, <2>2, Fits
<1>4. PICK t : PrintsText(LevelPrint(level).fmt, LevelPrint(level).args, t)
  BY <1>1, HasText
<1>5. t \in Seq(Characters) /\ Prefix(level) = Take(strcurrtime \o t, NGX_MAX_ERROR_STR)
  BY <1>1, <1>3, <1>4 DEF PrintsText, Prefix
<1>6. QED
  BY <1>1, <1>3, <1>5, Fits

\* The words of an error hold no '%'.
LEMMA ErrorTyped ==
  ASSUME NEW err \in DOMAIN Strerror
  PROVE  ErrorText(err) \in Seq(Plain)
<1>0. err \in Nat /\ Strerror[err] \in Seq(Plain)
  BY LogAssumption, Zenon
<1>1. " " \in Plain /\ "(" \in Plain /\ ":" \in Plain /\ ")" \in Plain
  BY LogAssumption, Zenon
<1>2. Numeral(err, 0) \in Seq(Plain)
  <2>1. \A i \in 1..16 : Figures[i] \in Characters /\ FIGURES[i] \in Characters
    BY PrintfAssumption, Zenon
  <2>2. \A i \in 1..16 : Figures[i] # "%" /\ FIGURES[i] # "%"
    BY DEF Figures, FIGURES
  <2>3. \A i \in 1..16 : Figures[i] \in Plain /\ FIGURES[i] \in Plain
    BY <2>1, <2>2 DEF Plain
  <2>4. QED
    BY <1>0, <2>3, 0 \in 0..2, NumeralTyped
<1>3. ASSUME NEW a \in Plain, NEW b \in Plain PROVE <<a, b>> \in Seq(Plain)
  OBVIOUS
<1>4. <<" ", "(">> \in Seq(Plain) /\ <<":", " ">> \in Seq(Plain) /\ <<")", " ">> \in Seq(Plain)
  BY <1>1, <1>3, Zenon
<1>5. ASSUME NEW a \in Seq(Plain), NEW b \in Seq(Plain), NEW c \in Seq(Plain), NEW d \in Seq(Plain),
             NEW e \in Seq(Plain)
      PROVE  a \o b \o c \o d \o e \in Seq(Plain)
  BY ConcatProperties
<1>6. QED
  BY <1>0, <1>2, <1>4, <1>5, Zenon DEF ErrorText

\* The error behind a message, if there is one.
ErrorOf(err) == IF err # 0 THEN ErrorText(err) ELSE <<>>

\* A message is such a line.
LEMMA MessageIs ==
  ASSUME NEW buf \in Seq(Characters), Len(buf) =< NGX_MAX_ERROR_STR, NEW err, NEW fmt, NEW args,
         NEW t, PrintsText(fmt, args, t)
  PROVE  Message(buf, err, fmt, args) = LineOfBoth(buf \o t, ErrorOf(err))
<1>1. NGX_MAX_ERROR_STR \in Nat
  BY LogAssumption, Zenon
<1>2. ngx_vslprintf(buf, NGX_MAX_ERROR_STR, fmt, args) = Take(buf \o t, NGX_MAX_ERROR_STR)
  BY <1>1 DEF PrintsText
<1>3. QED
  BY <1>2 DEF Message, LineOfBoth, ErrorOf

\* What is written to the log is one line or none.
OneLine(written, message, error) ==
  /\ written = <<>> \/ \E x : written = <<x>>
  /\ CoreLines(written, message, error)

\* By LineComplete, behind the prefix.
LEMMA CoreIs ==
  ASSUME NEW log, NEW level \in 0..8, NEW err, NEW fmt, NEW args, NEW o \in Outcomes,
         NEW t, PrintsText(fmt, args, t), ErrorOf(err) \in Seq(Characters)
  PROVE  OneLine(ngx_log_error_core(log, level, err, fmt, args, o), Prefix(level) \o t, ErrorOf(err))
<1> DEFINE written == ngx_log_error_core(log, level, err, fmt, args, o)
           line == Message(Prefix(level), err, fmt, args)
<1>1. "\n" \in Characters
  <2>1. "\n" \in Plain
    BY LogAssumption, Zenon
  <2>2. QED
    BY <2>1 DEF Plain
<1>2. Complete(line, Prefix(level) \o t, ErrorOf(err))
  <2>1. Prefix(level) \in Seq(Characters) /\ Len(Prefix(level)) =< NGX_MAX_ERROR_STR
    BY PrefixIs
  <2>2. Prefix(level) \o t \in Seq(Characters)
    BY <2>1, ConcatProperties DEF PrintsText
  <2>3. line = LineOfBoth(Prefix(level) \o t, ErrorOf(err))
    BY <2>1, MessageIs
  <2>4. QED
    BY <1>1, <2>2, <2>3, LineComplete
<1> HIDE DEF line
<1>3. written = <<>> \/ written = <<<<log.fd, line>>>> \/ written = <<<<STDERR, line>>>>
  BY DEF ngx_log_error_core, WriteLog, Outcomes, line
<1> HIDE DEF written
<1>4. ASSUME NEW fd, written = <<<<fd, line>>>>
      PROVE  CoreLines(written, Prefix(level) \o t, ErrorOf(err))
  <2>1. DOMAIN written = 1..1 /\ written[1][2] = line
    BY <1>4
  <2>2. QED
    BY <1>2, <2>1 DEF CoreLines
<1>5. ASSUME written = <<>> PROVE CoreLines(written, Prefix(level) \o t, ErrorOf(err))
  <2>1. \A i : i \notin DOMAIN <<>>
    OBVIOUS
  <2>2. QED
    BY <1>5, <2>1 DEF CoreLines
<1>6. QED
  BY <1>3, <1>4, <1>5 DEF written, OneLine

\* Any message and its error.
LEMMA LinesLogged == LogLines
<1>1. SUFFICES ASSUME NEW log \in Logs, NEW err \in {0} \cup DOMAIN Strerror, NEW s \in LogTexts,
                      NEW o \in Outcomes
      PROVE  /\ \A level \in 0..8 :
                  CoreLines(ngx_log_error_core(log, level, err, <<"%", "s">>, <<s>>, o),
                            Prefix(level) \o s, ErrorOf(err))
             /\ StderrLines(ngx_log_stderr(log, err, <<"%", "s">>, <<s>>, o), Banner \o s, ErrorOf(err))
  <2>1. \A e : (IF e = 0 THEN <<>> ELSE ErrorText(e)) = ErrorOf(e)
    BY DEF ErrorOf
  <2>2. QED
    BY <2>1, ZenonT(40) DEF LogLines
<1>2. Plain \subseteq Characters
  BY DEF Plain
<1>3. s \in Seq(Plain) /\ s \in Seq(Characters)
  <2>1. s \in Seq(Plain)
    BY LogAssumption, Zenon
  <2>2. QED
    BY <1>2, <2>1, TypedIn
<1>4. ErrorOf(err) \in Seq(Plain) /\ ErrorOf(err) \in Seq(Characters)
  <2>1. ErrorOf(err) \in Seq(Plain)
    <3>1. CASE err = 0
      BY <3>1, EmptySeq DEF ErrorOf
    <3>2. CASE err # 0
      BY <3>2, ErrorTyped DEF ErrorOf
    <3>3. QED
      BY <3>1, <3>2
  <2>2. QED
    BY <1>2, <2>1, TypedIn
<1>5. PrintsText(<<"%", "s">>, <<s>>, s)
  BY <1>3, TextPrints
<1>6. ASSUME NEW level \in 0..8
      PROVE  CoreLines(ngx_log_error_core(log, level, err, <<"%", "s">>, <<s>>, o),
                       Prefix(level) \o s, ErrorOf(err))
  BY <1>4, <1>5, CoreIs DEF OneLine
<1>7. StderrLines(ngx_log_stderr(log, err, <<"%", "s">>, <<s>>, o), Banner \o s, ErrorOf(err))
  <2>1. Banner \in Seq(Plain) /\ Banner \in Seq(Characters) /\ "\n" \in Plain
    <3>1. "nginx: " \in Plain /\ "\n" \in Plain
      BY LogAssumption, Zenon
    <3>2. Banner \in Seq(Plain)
      <4>1. \A c \in Plain : <<c>> \in Seq(Plain)
        OBVIOUS
      <4>2. QED
        BY <3>1, <4>1, Zenon DEF Banner
    <3>3. QED
      BY <1>2, <3>1, <3>2, TypedIn
  <2>2. Len(Banner) =< NGX_MAX_ERROR_STR
    <3>1. PICK N \in Nat : N = NGX_MAX_ERROR_STR /\ N > 2
      BY LogAssumption, Zenon
    <3>2. Len(Banner) = 1
      BY DEF Banner
    <3>3. QED
      BY <3>1, <3>2
  <2>3. Banner \o s \in Seq(Plain)
    BY <1>3, <2>1, ConcatProperties
  <2>4. PICK line \in Seq(Plain) : /\ line = Message(Banner, err, <<"%", "s">>, <<s>>)
                                   /\ Complete(line, Banner \o s, ErrorOf(err))
    <3>1. Message(Banner, err, <<"%", "s">>, <<s>>) = LineOfBoth(Banner \o s, ErrorOf(err))
      BY <1>5, <2>1, <2>2, MessageIs
    <3>2. /\ LineOfBoth(Banner \o s, ErrorOf(err)) \in Seq(Plain)
          /\ Complete(LineOfBoth(Banner \o s, ErrorOf(err)), Banner \o s, ErrorOf(err))
      BY <1>4, <2>1, <2>3, LineComplete
    <3>3. QED
      BY <3>1, <3>2
  <2>5. PrintsText(line, <<>>, line)
    BY PlainPrints
  <2>6. PICK core : core = IF log.fd > STDERR THEN ngx_log_error_core(log, 0, err, line, <<>>, o) ELSE <<>>
    OBVIOUS
  <2>7. OneLine(core, Prefix(0) \o line, ErrorOf(err))
    <3>1. CASE log.fd > STDERR
      <4>1. 0 \in 0..8
        OBVIOUS
      <4>2. QED
        <5>1. core = ngx_log_error_core(log, 0, err, line, <<>>, o)
          BY <2>6, <3>1
        <5>2. QED
          BY <1>4, <2>5, <4>1, <5>1, CoreIs
    <3>2. CASE ~(log.fd > STDERR)
      <4>1. core = <<>>
        BY <2>6, <3>2
      <4>2. QED
        <5>1. \A i : i \notin DOMAIN <<>>
          OBVIOUS
        <5>2. QED
          BY <4>1, <5>1 DEF CoreLines, OneLine
    <3>3. QED
      BY <3>1, <3>2
  <2>8. ngx_log_stderr(log, err, <<"%", "s">>, <<s>>, o) = <<<<STDERR, line>>>> \o core
    BY <2>4, <2>6 DEF ngx_log_stderr, WriteStderr
  <2>9. PICK written : written = <<<<STDERR, line>>>> \o core
    OBVIOUS
  <2>10. written[1][2] = line /\ Tail(written) = core
    <3>1. CASE core = <<>>
      <4>1. <<<<STDERR, line>>>> \o <<>> = <<<<STDERR, line>>>>
        OBVIOUS
      <4>2. QED
        BY <2>9, <3>1, <4>1
    <3>2. ASSUME NEW x, core = <<x>> PROVE written[1][2] = line /\ Tail(written) = core
      BY <2>9, <3>2, TwoWritten
    <3>3. QED
      BY <2>7, <3>1, <3>2 DEF OneLine
  <2>11. QED
    BY <2>4, <2>7, <2>8, <2>9, <2>10 DEF StderrLines, OneLine
<1>8. QED
  BY <1>6, <1>7

(* See Bounded and ReadsBack of Printf: whatever is printed, in a buffer of    *)
(* any size, and any number that has figures in temp.  Without a sign it is    *)
(* printed as its C type holds it: 32 bits of it for %ud and %xd, 64 for %ui,  *)
(* %uL, %xi, %xL and %p.                                                       *)
THEOREM PrintfIsExact == Spec => []PrintfExactAtStart
<1>1. PrintfExactAtStart
  BY PrintsBounded, ReadBack DEF PrintfExactAtStart, PrintfExact
<1>2. QED
  BY <1>1, PTL

(* See LogLines of Log: for a buffer of any size, any message and any error.   *)
THEOREM LogLinesAreWhole == Spec => []LogLinesAtStart
<1>1. LogLinesAtStart
  BY LinesLogged DEF LogLinesAtStart
<1>2. QED
  BY <1>1, PTL
=============================================================================
