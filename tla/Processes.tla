------------------------------ MODULE Processes ------------------------------
(***************************************************************************)
(* The processes: main() with its configuration, listening sockets and     *)
(* optional daemon, the master that forks the workers and then lives in    *)
(* sigsuspend, the signal handler of both, and the workers' initialisation.*)
(* A worker that serves runs AcceptLock; one that dies leaves it there.    *)
(* The process titles are in ProcTitle, the checksums in Crc32, nginx.conf *)
(* and what is read from it in Conf, the lines of the log in Log.          *)
(*                                                                         *)
(* Each process has its own ngx_process and ngx_reap.  Signals of one kind *)
(* that are pending together are one, and none is pending in a new child.  *)
(***************************************************************************)
EXTENDS AcceptLock, ProcTitle, Crc32, Conf, Log, Integers

CONSTANTS
  Master,
  Confs,        \* what nginx.conf may say: records, or NoFile
  NoFile,
  AdminSignals, \* the kinds of signals that the administrator sends
  MaxSent       \* bound: how many of them

ASSUME ProcessesAssumption ==
  /\ Master \notin Workers
  /\ NoFile \notin [WorkerProcesses : Int, Daemon : BOOLEAN, ListenPortCount : Int]
  /\ Confs \subseteq [WorkerProcesses : Int, Daemon : BOOLEAN, ListenPortCount : Int]
                       \cup {NoFile}
  /\ MaxSent \in Nat /\ AdminSignals \subseteq {"SIGCHLD", "SIGUSR1"}

VARIABLES
  conf,       \* the configuration file
  m_ListenSocketList,  \* how many ports are listened on
  main,       \* where the main process is; after ngx_daemon this is the child
  forks,      \* turns of the loop of ngx_start_worker_processes
  stack,      \* handlers the master is in, innermost first: <<signal, place>>
  child,      \* where each worker is
  pending,    \* signals of each process not delivered yet
  ngx_process, ngx_reap,
  sent        \* signals sent by the administrator so far

startVars == <<conf, m_ListenSocketList, forks>>
flagVars == <<ngx_process, ngx_reap>>
vars == <<startVars, main, stack, child, pending, flagVars, sent, lockVars>>

Processes == Workers \cup {Master}
Signals == {"SIGCHLD", "SIGUSR1"}   \* SIGUSR1 stands for all the handler only logs
Start == {"load", "signals", "sockets", "daemon", "fork"}

TypeOK ==
  /\ conf \in Confs
  /\ m_ListenSocketList \in Nat /\ forks \in Nat /\ sent \in 0..MaxSent
  /\ main \in Start \cup {"sleep", "suspend", "exit1", "exit2"}
  /\ stack \in Seq(Signals \X {"enter", "waitpid"})
  /\ child \in [Workers -> {"unborn", "forked", "typed", "init", "serving", "zombie", "reaped"}]
  /\ pending \in [Processes -> SUBSET Signals]
  /\ ngx_process \in [Processes -> {"MASTER", "WORKER"}]
  /\ ngx_reap \in [Processes -> BOOLEAN]
  /\ LockTypeOK

Init ==
  /\ conf \in Confs
  /\ m_ListenSocketList = 0 /\ forks = 0 /\ sent = 0
  /\ main = "load" /\ stack = <<>>
  /\ child = [w \in Workers |-> "unborn"]
  /\ pending = [p \in Processes |-> {}]
  /\ ngx_process = [p \in Processes |-> "MASTER"]
  /\ ngx_reap = [p \in Processes |-> FALSE]
  /\ LockInit

-----------------------------------------------------------------------------
(* main(), until the workers are there.                                    *)

\* CConfig::Load, then the log, CMemory and CCRC32.
LoadConf ==
  /\ main = "load"
  /\ main' = IF conf = NoFile THEN "exit2" ELSE "signals"
  /\ UNCHANGED <<startVars, stack, child, pending, flagVars, sent, lockVars>>

\* ngx_init_signals: sigaction for every entry of signals[], or the end.
InitSignals ==
  /\ main = "signals"
  /\ main' \in {"sockets", "exit1"}
  /\ UNCHANGED <<startVars, stack, child, pending, flagVars, sent, lockVars>>

\* One turn of ngx_open_listening_sockets; any of its five calls may fail.
OpenListening ==
  /\ main = "sockets" /\ m_ListenSocketList < conf.ListenPortCount
  /\ \/ m_ListenSocketList' = m_ListenSocketList + 1 /\ UNCHANGED main
     \/ main' = "exit1" /\ UNCHANGED m_ListenSocketList
  /\ UNCHANGED <<conf, forks, stack, child, pending, flagVars, sent, lockVars>>

PortsOpened ==
  /\ main = "sockets" /\ m_ListenSocketList >= conf.ListenPortCount
  /\ main' = IF m_ListenSocketList = 0 THEN "exit1" ELSE "daemon"
  /\ UNCHANGED <<startVars, stack, child, pending, flagVars, sent, lockVars>>

\* ngx_daemon: the parent returns and leaves; what goes on is the child.
Daemonize ==
  /\ main = "daemon"
  /\ \/ main' = "fork"
     \/ conf.Daemon /\ main' = "exit1"
  /\ UNCHANGED <<startVars, stack, child, pending, flagVars, sent, lockVars>>

-----------------------------------------------------------------------------
(* ngx_master_process_cycle: the ten signals are blocked, workers forked.  *)

SpawnProcess(w) ==
  /\ main = "fork" /\ forks < conf.WorkerProcesses /\ w = forks + 1
  /\ child' = [child EXCEPT ![w] = "forked"]
  /\ ngx_process' = [ngx_process EXCEPT ![w] = ngx_process[Master]]
  /\ ngx_reap' = [ngx_reap EXCEPT ![w] = ngx_reap[Master]]
  /\ forks' = forks + 1
  /\ UNCHANGED <<conf, m_ListenSocketList, main, stack, pending, sent, lockVars>>

\* fork() fails: logged, and the loop goes on with the next.
SpawnFails ==
  /\ main = "fork" /\ forks < conf.WorkerProcesses
  /\ forks' = forks + 1
  /\ UNCHANGED <<conf, m_ListenSocketList, main, stack, child, pending, flagVars, sent,
                 lockVars>>

\* The loop of the master: sigsuspend, printf, sleep(1) with everything blocked.
Suspend ==
  /\ \/ main = "fork" /\ forks >= conf.WorkerProcesses
     \/ main = "sleep"
  /\ main' = "suspend"
  /\ UNCHANGED <<startVars, stack, child, pending, flagVars, sent, lockVars>>

-----------------------------------------------------------------------------
(* The handler, in the master.  It blocks no signal but its own, so one    *)
(* may interrupt another; sigsuspend returns when the last has returned.   *)

Interrupted(s) == \E i \in 1..Len(stack) : stack[i][1] = s

Deliver(s) ==
  /\ main = "suspend" /\ s \in pending[Master] /\ ~Interrupted(s)
  /\ pending' = [pending EXCEPT ![Master] = @ \ {s}]
  /\ stack' = <<<<s, "enter">>>> \o stack
  /\ UNCHANGED <<startVars, main, child, flagVars, sent, lockVars>>

\* The innermost handler returns.
Return ==
  /\ stack' = Tail(stack)
  /\ main' = IF Len(stack) = 1 THEN "sleep" ELSE main

\* ngx_signal_handler: the flag, a line in the log, and for SIGCHLD on to waitpid.
\* SIGUSR1 does nothing but that: the branch of it that counts in a shared segment
\* lies behind the break of the master's case.
Handle ==
  /\ stack # <<>> /\ Head(stack)[2] = "enter"
  /\ IF Head(stack)[1] = "SIGCHLD"
     THEN /\ ngx_reap' = [ngx_reap EXCEPT ![Master] = ngx_process[Master] = "MASTER"]
          /\ stack' = <<<<"SIGCHLD", "waitpid">>>> \o Tail(stack)
          /\ UNCHANGED main
     ELSE Return /\ UNCHANGED ngx_reap
  /\ UNCHANGED <<startVars, child, pending, ngx_process, sent, lockVars>>

Zombies == {w \in Workers : child[w] = "zombie"}

\* mutant: one child for each SIGCHLD
ReapOne ==
  /\ stack # <<>> /\ Head(stack)[2] = "waitpid"
  /\ IF Zombies = {} THEN UNCHANGED child
     ELSE child' = [child EXCEPT ![CHOOSE w \in Zombies : TRUE] = "reaped"]
  /\ Return
  /\ UNCHANGED <<startVars, pending, flagVars, sent, lockVars>>

\* One turn of ngx_process_get_status: waitpid(-1, WNOHANG) gives any zombie, or 0
\* or ECHILD, which end the loop.
Reap ==
  /\ stack # <<>> /\ Head(stack)[2] = "waitpid"
  /\ \/ /\ \E w \in Zombies : child' = [child EXCEPT ![w] = "reaped"]
        /\ UNCHANGED <<stack, main>>
     \/ Zombies = {} /\ Return /\ UNCHANGED child
  /\ UNCHANGED <<startVars, pending, flagVars, sent, lockVars>>

-----------------------------------------------------------------------------
(* A worker.                                                               *)

\* ngx_worker_process_cycle
BecomeWorker(w) ==
  /\ child[w] = "forked"
  /\ child' = [child EXCEPT ![w] = "typed"]
  /\ ngx_process' = [ngx_process EXCEPT ![w] = "WORKER"]
  /\ UNCHANGED <<startVars, main, stack, pending, ngx_reap, sent, lockVars>>

\* The handler in a worker, in one step: it looks at nothing of another process,
\* and waitpid answers ECHILD.
HandlerRuns(p, signals) ==
  ngx_reap' = [ngx_reap EXCEPT ![p] =
                 @ \/ ("SIGCHLD" \in signals /\ ngx_process[p] = "MASTER")]

\* mutant: the signals are let in before the process knows what it is
UnblockFirst(w) ==
  /\ child[w] = "forked"
  /\ child' = [child EXCEPT ![w] = "init"]
  /\ ngx_process' = [ngx_process EXCEPT ![w] = "WORKER"]
  /\ HandlerRuns(w, pending[w])
  /\ pending' = [pending EXCEPT ![w] = {}]
  /\ UNCHANGED <<startVars, main, stack, sent, lockVars>>

\* ngx_worker_process_init begins: no signal is blocked any more.
Unblock(w) ==
  /\ child[w] = "typed"
  /\ child' = [child EXCEPT ![w] = "init"]
  /\ HandlerRuns(w, pending[w])
  /\ pending' = [pending EXCEPT ![w] = {}]
  /\ UNCHANGED <<startVars, main, stack, ngx_process, sent, lockVars>>

Send(p, s) == pending' = [pending EXCEPT ![p] = @ \cup {s}]

\* The pool's threads, the worker's own, epoll with all listening sockets; then
\* kill(getppid(), SIGUSR1).
Serve(w) ==
  /\ child[w] = "init"
  /\ child' = [child EXCEPT ![w] = "serving"]
  /\ Send(Master, "SIGUSR1")
  /\ UNCHANGED <<startVars, main, stack, flagVars, sent, lockVars>>

Alive == {w \in Workers : child[w] \in {"forked", "typed", "init", "serving"}}

\* exit(-2) or exit(2) when something of that fails, or kill -9 at any moment.
Dies(w) ==
  /\ w \in Alive
  /\ child' = [child EXCEPT ![w] = "zombie"]
  /\ Send(Master, "SIGCHLD")
  /\ Killed(w)
  /\ UNCHANGED <<startVars, main, stack, flagVars, sent>>

\* The administrator's signals; those that are not blocked in a worker are handled.
SignalWorker(w, s) ==
  /\ w \in Alive /\ sent < MaxSent
  /\ sent' = sent + 1
  /\ IF child[w] \in {"forked", "typed"}
     THEN Send(w, s) /\ UNCHANGED ngx_reap
     ELSE HandlerRuns(w, {s}) /\ UNCHANGED pending
  /\ UNCHANGED <<startVars, main, stack, child, ngx_process, lockVars>>

\* Between ngx_init_signals and the mask the handler runs at once, without children.
SignalMaster(s) ==
  /\ main \in {"sockets", "daemon", "fork", "sleep", "suspend"} /\ sent < MaxSent
  /\ sent' = sent + 1
  /\ IF main \in {"sockets", "daemon"}
     THEN HandlerRuns(Master, {s}) /\ UNCHANGED pending
     ELSE Send(Master, s) /\ UNCHANGED ngx_reap
  /\ UNCHANGED <<startVars, main, stack, child, ngx_process, lockVars>>

\* ngx_process_events_and_timers: the epoll loop, as far as the other processes
\* see it.  Clients may come as soon as the ports are listened on.
Work(w) ==
  /\ child[w] = "serving" /\ Step(w)
  /\ UNCHANGED <<startVars, main, stack, child, pending, flagVars, sent>>

ClientConnects(c) ==
  /\ main \in {"daemon", "fork", "sleep", "suspend"} /\ Connect(c)
  /\ UNCHANGED <<startVars, main, stack, child, pending, flagVars, sent>>

-----------------------------------------------------------------------------
StartUp == LoadConf \/ InitSignals \/ OpenListening \/ PortsOpened \/ Daemonize
Spawn == (\E w \in Workers : SpawnProcess(w)) \/ SpawnFails
MasterStep ==
  StartUp \/ Spawn \/ Suspend \/ (\E s \in Signals : Deliver(s)) \/ Handle \/ Reap
WorkerStep(w) == BecomeWorker(w) \/ Unblock(w) \/ Serve(w) \/ Work(w)

Next ==
  \/ MasterStep
  \/ \E w \in Workers : WorkerStep(w) \/ Dies(w) \/ \E s \in AdminSignals : SignalWorker(w, s)
  \/ \E s \in AdminSignals : SignalMaster(s)
  \/ \E c \in Clients : ClientConnects(c)

\* Master and workers run; for accept4 see AcceptLock.
Fairness ==
  /\ WF_vars(MasterStep)
  /\ \A w \in Workers :
       /\ WF_vars(WorkerStep(w))
       /\ SF_vars(child[w] = "serving" /\ (Accept4(w) \/ AcceptAborted(w))
                  /\ UNCHANGED <<startVars, main, stack, child, pending, flagVars, sent>>)

Spec == Init /\ [][Next]_vars /\ Fairness

-----------------------------------------------------------------------------
(* Properties.                                                             *)

\* A worker that has died and is not reaped is on the master's way: its SIGCHLD
\* is pending, or a handler that will still call waitpid is running.  Several
\* deaths may share one SIGCHLD, and one may come between the last waitpid and the
\* return of the handler.
NoZombieForgotten ==
  Zombies # {} => "SIGCHLD" \in pending[Master] \/ Interrupted("SIGCHLD")

\* Every dead worker is reaped in the end, whatever signals come in between: again and
\* again there is no zombie (one stays a zombie until it is reaped).
EveryDeathReaped == []<>(Zombies = {})

\* Only the master takes the master's branch of the handler, which raises ngx_reap:
\* a child inherits ngx_process = MASTER, and has changed it before it lets signals in.
WorkerNeverMaster ==
  [][\A w \in Workers : child[w] # "unborn" => ngx_reap'[w] = ngx_reap[w]]_vars

\* See AcceptLock; here also workers must be left that serve.
TakenWhileServed ==
  \A c \in Clients :
    c \in ToSet(backlog) ~>
      \/ c \notin ToSet(backlog)
      \/ g_mptr # Null /\ g_mptr \notin Alive
      \/ \A w \in Workers : child[w] # "serving"

\* What is computed without regard to the state (see ProcTitle, Crc32, Conf, Printf and
\* Log) is looked at once, where main() begins.
TitleKeepsEnvAtStart == main = "load" => TitleKeepsEnv
ConfReadAtStart == main = "load" => ConfRead
CrcAtStart == main = "load" => CrcIsRemainder
PrintfExactAtStart == main = "load" => PrintfExact
LogLinesAtStart == main = "load" => LogLines
=============================================================================
