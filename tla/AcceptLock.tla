----------------------------- MODULE AcceptLock -----------------------------
(***************************************************************************)
(* The workers share the listening socket, whose backlog the kernel keeps, *)
(* and the mutex in shared memory that ngx_event_accept tries before it    *)
(* calls accept4.  The mutex is process-shared but not robust: one whose   *)
(* owner was killed answers EBUSY for ever.  The limits of a worker are    *)
(* ConnPool's; here a worker may refuse any connection.  Processes says    *)
(* when a worker begins to take part.                                      *)
(***************************************************************************)
EXTENDS Naturals, Sequences, SequencesExt, FiniteSets

CONSTANTS
  Workers,
  Clients,    \* numbered in the order in which they connect
  Null,
  MaxKilled   \* bound: workers killed; the master starts no others

ASSUME AcceptAssumption ==
  /\ IsFiniteSet(Workers) /\ Workers # {}
  /\ Null \notin Workers \cup Clients
  /\ MaxKilled \in Nat

ASSUME ClientsNumbered == Clients \subseteq Nat

VARIABLES
  backlog,  \* connections the kernel has completed and nobody has accepted
  g_mptr,   \* owner of the mutex, or Null
  pc,       \* of every worker
  newc,     \* the client whose connection a worker is setting up, or Null
  fate      \* of every client

lockVars == <<backlog, g_mptr, pc, newc, fate>>

\* Type invariant.
LockTypeOK ==
  /\ backlog \in Seq(Clients)
  /\ g_mptr \in Workers \cup {Null}
  /\ pc \in [Workers -> {"epoll", "handler", "accept", "setup", "unlock", "count",
                         "killed"}]
  /\ newc \in [Workers -> Clients \cup {Null}]
  /\ fate \in [Clients -> {"away", "waiting", "refused", "served", "lost"}]
  /\ \A w \in Workers :
       newc[w] \in Clients => pc[w] \in {"setup", "unlock", "count"}

\* mmap_lock_create, and workers that have not been in the handler yet.
LockInit ==
  /\ backlog = <<>> /\ g_mptr = Null
  /\ pc = [w \in Workers |-> "epoll"]
  /\ newc = [w \in Workers |-> Null]
  /\ fate = [c \in Clients |-> "away"]

Goto(w, label) == pc' = [pc EXCEPT ![w] = label]

\* The kernel completes a client's connection.
Connect(c) ==
  /\ fate[c] = "away" /\ \A k \in Clients : k < c => fate[k] # "away"
  /\ fate' = [fate EXCEPT ![c] = "waiting"]
  /\ backlog' = Append(backlog, c)
  /\ UNCHANGED <<g_mptr, pc, newc>>

\* The listening socket is level-triggered: while the backlog is not empty,
\* epoll_wait returns in every worker that calls it.
EpollWait(w) ==
  /\ pc[w] = "epoll" /\ backlog # <<>>
  /\ Goto(w, "handler")
  /\ UNCHANGED <<backlog, g_mptr, newc, fate>>

----------------------------------------------------------------------------
\* ngx_event_accept.

\* mutant: the lock is not kept
UnlockedAtOnce(w) ==
  /\ pc[w] = "handler"
  /\ Goto(w, IF g_mptr = Null THEN "accept" ELSE "epoll")
  /\ UNCHANGED <<g_mptr, backlog, newc, fate>>

\* pthread_mutex_trylock: 0, or EBUSY, on which the handler returns.
TryLock(w) ==
  /\ pc[w] = "handler"
  /\ \/ /\ g_mptr = Null
        /\ g_mptr' = w /\ Goto(w, "accept")
     \/ /\ g_mptr # Null
        /\ Goto(w, "epoll") /\ UNCHANGED g_mptr
  /\ UNCHANGED <<backlog, newc, fate>>

\* The first connection of the backlog is taken.
Accept4(w) ==
  /\ pc[w] = "accept" /\ backlog # <<>>
  /\ newc' = [newc EXCEPT ![w] = Head(backlog)]
  /\ backlog' = Tail(backlog)
  /\ Goto(w, "setup")
  /\ UNCHANGED <<g_mptr, fate>>

\* ECONNABORTED: the first connection is gone.
AcceptAborted(w) ==
  /\ pc[w] = "accept" /\ backlog # <<>>
  /\ fate' = [fate EXCEPT ![Head(backlog)] = "lost"]
  /\ backlog' = Tail(backlog)
  /\ Goto(w, "unlock")
  /\ UNCHANGED <<g_mptr, newc>>

\* mutant: this return does not unlock
ReturnsLocked(w) ==
  /\ pc[w] = "accept"
  /\ Goto(w, "epoll")
  /\ UNCHANGED <<backlog, g_mptr, newc, fate>>

\* EAGAIN on an empty backlog; EMFILE or ENFILE may come on any.
AcceptFails(w) ==
  /\ pc[w] = "accept"
  /\ Goto(w, "unlock")
  /\ UNCHANGED <<backlog, g_mptr, newc, fate>>

\* mutant: the refused socket is left open
NotClosed(w) ==
  /\ pc[w] = "setup"
  /\ newc' = [newc EXCEPT ![w] = Null]
  /\ Goto(w, "unlock")
  /\ UNCHANGED <<backlog, g_mptr, fate>>

\* A limit, no connection object or a failing epoll_ctl: the socket is closed.
Refuse(w) ==
  /\ pc[w] = "setup"
  /\ fate' = [fate EXCEPT ![newc[w]] = "refused"]
  /\ newc' = [newc EXCEPT ![w] = Null]
  /\ Goto(w, "unlock")
  /\ UNCHANGED <<backlog, g_mptr>>

\* The connection is in the worker's epoll.
SetUp(w) ==
  /\ pc[w] = "setup"
  /\ fate' = [fate EXCEPT ![newc[w]] = "served"]
  /\ Goto(w, "unlock")
  /\ UNCHANGED <<backlog, g_mptr, newc>>

Unlock(w) ==
  /\ pc[w] = "unlock"
  /\ g_mptr' = Null
  /\ Goto(w, IF newc[w] = Null THEN "epoll" ELSE "count")
  /\ UNCHANGED <<backlog, newc, fate>>

\* AddToTimerQueue and ++m_onlineUserCount, without the lock.
Count(w) ==
  /\ pc[w] = "count"
  /\ newc' = [newc EXCEPT ![w] = Null]
  /\ Goto(w, "epoll")
  /\ UNCHANGED <<backlog, g_mptr, fate>>

----------------------------------------------------------------------------
Living == {w \in Workers : pc[w] # "killed"}

\* A worker is killed: its sockets are closed, its lock stays taken.
Killed(w) ==
  /\ w \in Living /\ Cardinality(Workers \ Living) < MaxKilled
  /\ Goto(w, "killed")
  /\ fate' = [c \in Clients |-> IF c = newc[w] THEN "lost" ELSE fate[c]]
  /\ newc' = [newc EXCEPT ![w] = Null]
  /\ UNCHANGED <<backlog, g_mptr>>

Step(w) ==
  EpollWait(w) \/ TryLock(w) \/ Accept4(w) \/ AcceptAborted(w) \/ AcceptFails(w)
    \/ Refuse(w) \/ SetUp(w) \/ Unlock(w) \/ Count(w)

LockNext ==
  \/ \E c \in Clients : Connect(c)
  \/ \E w \in Workers : Step(w) \/ Killed(w)

\* Every worker runs, and a worker that reaches accept4 again and again is not
\* out of descriptors every time.
LockFairness ==
  \A w \in Workers : WF_lockVars(Step(w)) /\ SF_lockVars(Accept4(w) \/ AcceptAborted(w))

LockSpec == LockInit /\ [][LockNext]_lockVars /\ LockFairness

----------------------------------------------------------------------------
InSection == {"accept", "setup", "unlock"}

\* A worker that lives owns the mutex exactly while it is between trylock and one
\* of the unlocks of ngx_event_accept; so no path out of the handler keeps the
\* lock, and no two workers are in between at once.
LockGivenBack ==
  \A w \in Living : g_mptr = w <=> pc[w] \in InSection

\* A connection is accepted at most once and never forgotten: it is in the backlog,
\* in the hands of one worker, or its fate is settled.
AcceptedOnce ==
  /\ IsInjective(backlog)
  /\ \A c \in Clients : fate[c] = "waiting" =>
       \/ c \in ToSet(backlog) /\ \A w \in Workers : newc[w] # c
       \/ c \notin ToSet(backlog) /\ \E w \in Workers : {v \in Workers : newc[v] = c} = {w}
=============================================================================
