# A verification of net_server

TLA+ modules of the server in `src/nginx` (C++11: one master process, N worker processes,
each with an epoll thread, a pool of threads and a send, a recycle and a timer thread), the TLC
configurations that model-check them, and theorems that TLAPS proves. `PROJECT.json` maps every
definition to the lines it models and lists runs, mutants, hazards, findings and theorems.

## The system

    client bytes
      -> epoll thread: ngx_event_accept, ngx_read_request_handler (framing, flood)
      -> m_MsgRecvQueue -> pool threads: threadRecvProcFunc, handlers
      -> m_MsgSendQueue -> send thread: send(); what does not fit the socket buffer
      -> epoll thread: ngx_write_request_handler -> client bytes

    zdClosesocketProc, from any of these threads and the timer thread
      -> timer queue (entry removed), socket closed, recycle list
      -> recycle thread, RecyConnectionWaitTime later -> free list -> next client

What the threads share is a *connection object* (`ngx_connection_t`). It is never deleted; the pool
lends it to one client after another, and `iCurrsequence`, raised at each change of hands, is how a
thread that kept a pointer recognises that its client is gone.

| Component | State | Operations | What is hard | Correct means |
|---|---|---|---|---|
| Send path (`ngx_c_socket.cxx`, `ngx_c_socket_request.cxx`) | `m_MsgSendQueue`, semaphore, mutex; per connection `iThrowsendCount`, `iSendCount`, `psendMemPointer`, `psendbuf`, `isendlen`, EPOLLOUT | `msgSend`, `ServerSendQueueThread`, `ngx_write_request_handler`, the two branches of `ngx_epoll_process_events`, `zdClosesocketProc` | only the queue is under a mutex; the fields of a connection are passed between two threads by a counter | a client gets whole packets of its own, each once; nothing leaks or is freed early; no reply is stranded |
| Thread pool (`ngx_c_threadpool.cxx`) | `m_MsgRecvQueue`, mutex, condition, `m_shutdown`, `m_iRunningThreadNum`, `ifrunning` | `Create`, `inMsgRecvQueueAndSignal`, `Call`, `ThreadFunc`, `StopAll`, `clearMsgRecvQueue` | signals after the unlock, spurious wakeups, a shutdown flag outside the mutex | FIFO start, each message once, no lost wakeup |
| Connection pool (`ngx_c_socket_conn.cxx`, `ngx_c_socket_accept.cxx`) | connection, free and recycle lists, `iCurrsequence`, `m_onlineUserCount` | `ngx_get_connection`, `ngx_free_connection`, `inRecyConnectQueue`, `ServerRecyConnectionThread`, the limits of `ngx_event_accept` | several closers of one connection, pointers that outlive a client, growth | each object in one place, exact count, bounded pool |
| Receive framing (`ngx_c_socket_request.cxx`) | `curStat`, `precvbuf`, `irecvlen`, `dataHeadInfo`, `precvMemPointer` | `recvproc`, `ngx_read_request_handler`, `..._proc_p1`, `..._proc_plast` | reads cut anywhere, lengths chosen by the client, an object that is used again | messages are the packets of the stream |
| Flood detection (`TestFlood`) | `FloodkickLastTime`, `FloodAttackCount` | `TestFlood` and its caller's answer | unsigned difference of a clock that may go back | thrown out at exactly the configured packet |
| Accept lock (`ngx_c_socket_accept.cxx`, `ngx_process_cycle.cxx`) | backlog of the shared socket, `g_mptr` | trylock, `accept4`, every return of `ngx_event_accept` | many processes, many exits, a mutex that is not robust | lock given back, no connection forgotten |
| Timer queue (`ngx_c_socket_time.cxx`, `ngx_c_slogic.cxx`) | `m_timerQueuemap`, `m_cur_size_`, `m_timer_value_`, `lastPingTime` | `AddToTimerQueue`, `DeleteFromTimerQueue`, `GetOverTimeTimer`, `procPingTimeOutChecking`, `_HandlePing` | unlocked look at two cached values, examination after the mutex was left | one entry per client, silent clients go in bounded time |
| Business logic (`ngx_c_slogic.cxx`) | `logicPorcMutex` of a connection | register, login, ping | stale messages; a mutex held over `msgSend` | the sequence test drops them; no circle of mutexes |
| Master and workers (`app/nginx.cxx`, `proc/`) | child processes, the signal mask, `ngx_process` | start-up, daemon, fork, `sigsuspend` loop, a worker's initialisation | a failure of any call, a worker that dies anywhere | every worker serves until it dies, and is then reaped |
| Signals (`signal/`) | pending signals, `ngx_reap` | the handler, `ngx_process_get_status` | several deaths in one SIGCHLD, a handler that interrupts another, what a child inherits | no zombie is forgotten; a worker never acts as master |
| Listening sockets (`ngx_c_socket.cxx`) | `m_ListenSocketList` | `ngx_open_listening_sockets` | any call may fail | opened before anyone is forked, or the program ends |
| Configuration (`ngx_c_conf.cxx`, `ngx_string.cxx`) | `m_configItemList` | `Load`, `GetString`, `GetIntDefault` | ends of lines and of words | the items are those of the file |
| CRC32 (`ngx_c_crc32.cxx`) | a table | `Init_CRC32_Table`, `Get_CRC` | reflected bits | remainder of the polynomial division |
| Formatted output, log (`ngx_printf.cxx`, `ngx_log.cxx`) | a buffer | `ngx_vslprintf`, `ngx_log_stderr`, `ngx_log_error_core` | the end of the buffer, anywhere in a directive | never beyond it, nothing lost that had room |
| Process title (`ngx_setproctitle.cxx`) | arguments and environment of the process | `ngx_init_setproctitle`, `ngx_setproctitle` | one block of memory with two users | the environment survives |
| Memory, addresses, statistics | - | allocation, `ngx_sock_ntop`, `printTDInfo` | - | see *Not modelled* |

`src/test_utils` is a Windows program that loads the server and no part of it.
The worker's loop has no exit and `g_stopEvent` is never set, so `Shutdown_subproc` and the clearing
of the queues after it (`ngx_process_cycle.cxx:254-257`) cannot be reached today.

## The modules

    ByteStream (abstract) <- SendQueue   <- MCSendQueue, SendQueueProofs
    WorkQueue (abstract)  <- ThreadPool  <- ThreadPoolProofs
                             ConnPool    <- MCConnPool, ConnPoolProofs
                             RecvFraming <- RecvFramingProofs
                             TimerQueue  <- TimerQueueProofs
                             Worker      <- MCWorker, WorkerProofs
    Printf, Conf <- Log
    AcceptLock, ProcTitle, Crc32, Conf, Log <- Processes <- MCProcesses, ProcessesProofs

`DataLemmas` holds what the proofs share: lists and finite sets, induction over numbers and over
sequences, and that the recursive functions of the models have a solution. Names are the source's: an
action is named for the function, or the part of it, that it models. A definition with the comment
*mutant* is not part of a specification: it is what a plausible slip in the code would make of the
definition after it, and `PROJECT.json` lists the property that notices.

**SendQueue.** Threads: pool threads (`msgSend`), the send thread, the epoll thread and the timer thread. Three kinds
of them run `zdClosesocketProc`: a pool thread, with the send mutex held, on a client that reads too slowly; the epoll thread
(`ReadClose`, `ReadData`'s flood) and the timer thread (`ProcPingTimeOutChecking`) without it. Where another
thread may look in between, an access to a field of a connection is a step of its own: `SentPart`
and `ArmWrite`; `WritePost`, `WriteFree`, `WriteNull`, `WriteDec` in the order the code writes them.
The kernel is `SendResults` (all, part, EAGAIN, or an error once the socket is closed or reset),
`EpollWait` and the client's `PeerClose` and `PeerReset`. A packet is a number and `MsgLen` units.
`m_iSendMsgQueueCount` is the queue's length. `send()` does not return 0 for a positive length.
A `sem_wait` ended by a signal is `SemInterrupted`: the code goes on and looks at the queue.
`Release` waits until no thread is in a call on the connection; ConnPool's `CallKeepsObject` shows
that the recycling delay gives that.
`ByteStream` says what a client is owed: `wire` grows by units of one queued packet at a time, each
packet once, none of an earlier life of the object; with `Fifo`, in queue order.

**ThreadPool.** One step per access to shared state of `ThreadFunc`, `StopAll` and `Create`;
`pthread_cond_wait` gives up the mutex and blocks in one step and may end without a signal.
`m_iRecvMsgQueueCount` is the queue's length outside the mutex. A `pthread_create` that fails ends
the process (`worker_init`, `exit(-2)`) and is left out. `WorkQueue` is the promise: messages start
in order, once each, at most as many together as there are threads.

**ConnPool.** Objects are numbered by their creation. Time is kept as ages. Anything that keeps a
pointer to a connection with the sequence number it had (messages, replies, timer entries) is a
`Request` or a `Stamp`; stamps are never removed, so every later look is covered. An epoll batch
is taken one event at a time. The objects of the listening sockets belong to the client `Listening`.
The machine is assumed to bound two times: a call on a connection (`MaxStall`) and the wait of a
message together with its reply (`MaxDelay`), with `2 * MaxStall + MaxDelay < RecyWait` (150 s in
`nginx.conf`). The branch of the recycle thread on `g_stopEvent` and `clearconnection` are left out.

**RecvFraming.** A stream is a sequence of units; a header is `LenPkgHeader` units, the first of
which is the length the client claims. A handler is one step since only the epoll thread touches
the receive state. A read delivers any number of units up to `irecvlen`. Flood detection may be
configured or not; the readings of the clock come in any order, and their difference is taken
modulo `ClockRange` as `uint64_t` does. `TakenByPool` empties the receive queue once the client is
gone (taking messages earlier changes nothing the module looks at); that they are gone before the
object is used again is ConnPool's `MaxDelay`.

**AcceptLock.** Workers and the kernel's backlog of the shared listening socket. The System V
variant is compiled out and the fallback to `accept()` on ENOSYS is omitted. The mutex is not robust, so EOWNERDEAD
and ENOTRECOVERABLE never come; a killed worker leaves it locked and the master starts no other.

**Processes** composes it: the same variables and steps, run by workers that the master has forked
and that may die between any two of them. `main` is where the main process is; after `ngx_daemon` it
is the child. Each process has its own copies of `ngx_process` and `ngx_reap`, taken over at `fork`.
`stack` holds the handlers the master is in: a handler blocks only its own signal. Signals of one kind
that are pending together are one. Between `ngx_init_signals` and the mask the handler of the main
process runs at once, having no children. In a worker the handler is one step, since it shares
nothing. The order in which workers get their connections is AcceptLock's.

**TimerQueue.** Entries by time and sequence number; the timer thread's unlocked look, its
collection under the mutex with the re-insertion, and the examination afterwards, step by step
against closes by other threads. A tick is a second; the thread looks once per tick and a pass
takes at most `MaxLag` ticks. `m_iWaitTime` is at least 5 in the code (`ngx_c_socket.cxx:220`).
The order of the entries collected in one pass is left open. An object is released at any time once no thread
is in `zdClosesocketProc` on it, which is more than ConnPool allows.

**Worker.** What all threads of one worker do with mutexes and descriptors. A piece of code is the
sequence of its steps (`zdClosesocketProc == DeleteFromTimerQueue \o CloseFd \o inRecyConnectQueue`),
written by the operators of the same names, so the nesting of locks is that of the calls; a thread
chooses a way through when it begins. `accept4` gives the smallest free number, as the kernel does, so
a number closed twice is soon another client's; a thread closes the number it has seen, or the one
that `fd` has by then, because `fd` is read again at `close`. The recycling delay is taken from ConnPool.

**Conf, Crc32, Printf, Log, ProcTitle** are functions without a state. Texts are sequences of
characters or, where letters do not matter, of words. In `Crc32` a word or a byte is the set of the positions of its bits. `Printf` follows
`ngx_vslprintf` directive by directive with the room that is left in the buffer; a double is a number of
thousandths, so the rounding of doubles is left out. `Log` puts together the line of
both entry points and what `write` makes of it. `ProcTitle` is a block of memory and addresses in it.
They take what they are asked of (`Settings`, `Spaces`, `Ends`, `Noise`; `Messages`; `Prints`; `LogTexts`, `Strerror`; `Arguments`,
`Environments`, `Titles`) as constants and are proved for all values; `MCProcesses` gives them small sets.
`ConfAssumption` says what a setting is: a name that `Load` does not take for a comment or a group and that `ItemName` has room
for (`ItemNameSize`), on a line that `fgets` has room for. `Item` models what happens to a longer name (`Stored`): `strncpy` at
`ngx_c_conf.cxx:77` writes over into `ItemContent`, and the name runs on into the value. `nginx.conf:3` asks for 40
characters at most, well below the 50 of the array; `PrintfAssumption` what a print is: every directive that is met has its argument, and with
a print its rest behind any turn of the loop is one. An unsigned number
has 32 bits for `%ud` and `%xd`, and 64 for the other directives (`UnsignedRange`). A number has no more figures than `temp` has room for (`NGX_INT64_LEN`, enough for
any 64 bits) and no more places behind the point; at that many
`scale` overflows, which the model leaves out. `LogAssumption`: no '%' in what is logged. TLC evaluates all five at the first state of `Processes_life`.

## The runs

All cfgs but `Worker_threads` say `CHECK_DEADLOCK FALSE`: clients, messages and time are bounded, and when
they are used up the model stops where the server would wait for more. In `Worker_threads` nothing is
used up, and TLC also checks that the threads as a whole never stop. Each module's `TypeOK` is a theorem
for every instance; Worker's types are part of `FdInv` in `WorkerProofs`. The pure functions have no state.

| Run | Instance | Shows |
|---|---|---|
| `SendQueue_stream` | one connection through several lives (`MaxSeq` 4), two pool threads, two packets, partial sends, closes, resets, kicks for floods, slow reading (`SendCap` 0) and timeouts by the three threads that do so | `iSendCount` is exact (so a client is cut when it reads too slowly and not otherwise); `ByteStream` is implemented |
| `SendQueue_memory` | two connections, a queue and a share of it that are full at once (`QueueCap` 1, `SendCap` 0), partial sends, clients that neither hang up nor are thrown out by the read handler or the timer thread | a packet is freed once and neither lost nor used after that; send thread and write handler never work on one connection together; the limits hold |
| `SendQueue_drains` | fair, socket buffer never full, clients leave | every queued reply is sent or found expired; replies are in order |
| `SendQueue_stranded` | violation | see *Disagreements* 1 |
| `SendQueue_hangup` | violation | see *Disagreements* 2 |
| `ThreadPool_life` | three threads, three messages, `StopAll` at any moment, fair | `WorkQueue` is implemented; no wakeup is lost; memory is freed once; while `StopAll` waits for the threads at most one of them is asleep; every message is handled unless the pool is stopped |
| `ConnPool_objects` | three clients, two closers beside the epoll thread | an object is in one place; the online count is exact; no call outlives its client; a current number means the same client |
| `ConnPool_growth` | fair, seven clients, room for seven objects | the pool stops one object past `5 * worker_connections`, and accepts again after that |
| `RecvFraming_packets` | two clients after each other, all streams of eight units from {too short, header only, two more units, too long}, all cuts, three clock readings | the messages are the packets; `recv` never gets more room than there is; blocks are accounted for; a client is thrown out at exactly the right packet |
| `TimerQueue_clients` | two clients on two objects, both modes, eight ticks | queue, size and earliest time agree; one entry per open connection; a silent client, or in the other mode any client, goes within a tight bound; never the object of another client |
| `Worker_threads` | two connections, two descriptors, one pool thread beside the epoll, send, timer and recycle threads | no circle of threads that wait for each other's mutexes; no descriptor is left open by any order of closes; a number belongs to one connection, until two threads close one connection at once |
| `Processes_life` | from `main()` on, any call failing; two workers, both of which may die anywhere, two clients, one SIGCHLD of the administrator; fair | every dead worker is reaped, and none is off the master's way in between; no worker takes the master's branch of the handler; the lock is held exactly in its section; no connection is accepted twice or forgotten, nor left in the backlog while a worker serves, unless the lock's owner was killed; configuration, CRC, formatted output, log lines and title are what they should be |

Why the bounds are enough. *SendQueue*: two packets make one that waits behind an unfinished one, and meets a limit
of 0 when the first was not taken yet (`SendQueue_stream`); where the first is to be taken and the second to wait,
a third meets the limits (`SendQueue_memory`); two units make a packet that can be cut; four sequence numbers give
a second life and a close of it; two pool threads contend for the mutex, and the other connections of
a worker only meet in the queue, for which the second one of `SendQueue_memory` stands. There a second reply that is
waiting makes `msgSend` throw its client out, so that connections are closed in the middle of what the other threads do. *ThreadPool*:
three threads against fewer signals, spurious wakeups included. *ConnPool*: with one
connection configured the growth limit is 5, so seven objects hold one more than may exist.
*RecvFraming*: two units of header and two of body are the least that can be cut inside; four
header-only packets contain a run that is broken off and begun again. *Worker*: two connections
let a number that was closed for one be given to the other; the threads of the pool run the same code and a
second one only takes a place in a queue for a mutex. The two connections are alike, and so are those and the pool threads of
*SendQueue* (`SYMMETRY`; never in a run with a liveness property). *Processes*: two workers make one SIGCHLD stand for two deaths,
and one that gives up the lock on the other's account; workers are numbered in the order of their fork and clients in
the order they connect, which loses nothing as they do not differ otherwise. Three workers and three clients have been checked on
`AcceptLock` alone, and its safety is proved for any number. The texts of the pure functions cover each character class and
each room of the buffer from none to enough. Numbers are printed at four widths by eleven kinds of directive
(`Widths`, `Kinds`, `Values` of `MCProcesses`), with temp's figures, `UIntRange` and `UInt64Range` small enough for TLC's integers and a number
between the two ranges, for which `%ud` and `%uL` differ. The longest name with its spaces just fits `ItemName`. *TimerQueue*: `KickAfter + WaitTime + Delay`
is 7 of the 8 ticks; one second less and TLC finds `SilentClosed` violated, so the bound is tight. Passes of more than two
ticks, in which an entry can also be due just after a pass began and has to wait for the next, would need 12 ticks; they
have been checked with one client for `MaxLag` up to 4, and are proved for all.
The main thread and the timer thread are the two closers there; a third adds nothing but the same
idempotent delete.

Fairness. Every thread that can run does (WF), and a thread that asks for a mutex which is free again
and again gets it (SF on the lock steps): the scheduler and glibc give that in practice, and no
property here would hold on a machine without. No client, signal or spurious wakeup is ever owed.
*ConnPool*: time passes, messages are handled. *Processes*: the master and each worker run
(WF); SF on `accept4` finding the connection: a worker that reaches it again and again is not short of
descriptors every time. `EveryDeathReaped` says that again and again there is no zombie, which with a
bounded number of workers and none reborn is that each dead one is reaped. A signal handler is assumed to
finish: that it logs, with `localtime_r` among the calls and other handlers nested in it, is left out. A close the
timer thread of *SendQueue* has begun is finished (WF).

`SendQueue_stream` has `MaxUnread = 0` because of disagreement 2, and `SendQueue_memory` has no hang-ups, no floods and no kicks by
the timer thread because of disagreement 2 and of closes made without the send mutex (the first bullet below the disagreements);
`SendQueue_drains` has no partial sends because of disagreement 1. What holds there
is what the code does once the cause is set aside. The theorems about these properties have the same hypotheses.

## Disagreements between code and comments

With a run:

1. `SendQueue_stranded`: `ngx_write_request_handler` posts the semaphore (`:384`) before it lowers
   `iThrowsendCount` (`:389`). The send thread may look in between, skip the client's next reply and
   sleep; nothing wakes it for that reply until another is queued.
2. `SendQueue_hangup`: the hang-up branch (`ngx_c_socket.cxx:869`) lowers `iThrowsendCount` although the close
   in the same event has done so. The counter then no longer marks an unfinished packet. Two consequences
   that the model also shows: with `MaxUnread = 1` a reply starts in the middle of another on a half-closed socket
   (`wire[c][k] # wire[c][k+1] => k % MsgLen = 0` fails), and `psendMemPointer` is overwritten
   while it is the only pointer to a half-sent packet (`EachPacketOnce` fails with `PeerCloses = TRUE`).

Seen in the models, or while reading for them, and not kept as runs:

- The timer thread closes a connection without the send mutex (`ngx_c_slogic.cxx:159`, `:165`) and lowers `iThrowsendCount`
  (`ngx_c_socket.cxx:431`) before it raises the sequence number. A pass of the send thread that looks in between takes
  the client's next reply, against the comment at `ngx_c_socket.cxx:947`, and `psendMemPointer`, kept to free the
  packet after sending (`:955`), loses the unfinished one: its memory leaks. A close of the epoll thread, for a flood
  say, does the same, and `OneWriter` fails with it. In `SendQueue_memory` with `TimerKicks` or `Floods` set to TRUE, TLC finds
  `EachPacketOnce` violated, its first conjunct `NoLeak`. `msgSend` closes with the mutex held and does no such harm.
- `StopAll` sets its flag and broadcasts outside the mutex (`ngx_c_threadpool.cxx:202`): a thread
  that has just seen the flag clear goes to sleep after the broadcast and is joined for ever, where the comments
  (`:194`, `:204`) have all threads woken and ended. In ThreadPool `m_shutdown ~> AllEnded` fails under `FairSpec`.
  `OneLeftAsleep` says that it is one thread at most. Nothing that can be reached calls `StopAll` today.
- The header of a message takes the number the connection has when the header is complete. If another thread
  has closed the connection since the epoll event, the message carries the raised number and is handled for a
  client that is gone (`ngx_c_socket_request.cxx:233`, `ngx_c_slogic.cxx:120`).
- Two threads that close one connection at once may both find `fd` open (`ngx_c_socket.cxx:425`); the second `close`
  then hits a number that may be another client's by now. `FdOwned` says what holds until that happens (`clash`).
- The comment at `ngx_c_slogic.cxx:163` has the timer thread throw out the wrong client when the socket of the right one was
  closed and reused just then. Of the connection object this is not so: the recycling delay keeps it from the next
  client until the timer thread is done with it (`RightClient`, `CallKeepsObject`). Of the socket's number it is, in the way of the
  bullet before: two threads close the connection at once, both find `fd` open, and the number is given to a new client in
  between. TimerQueue closes in one step and does not show it; Worker does, where `FdOwned` holds only without a `clash`.
- Replies overtake each other when the write handler finishes between two looks of one
  pass of the send thread (`ngx_c_socket.cxx:948`); this is why `ByteStream` has `Fifo`.
- A connection closed between a partial `send()` and `++iThrowsendCount` is released with a positive
  count, which the comment at `ngx_c_socket_conn.cxx:303` excludes. The release resets it.
- A refused packet is dropped only up to its header: the rest is read as headers
  (`ngx_c_socket_request.cxx:219`). `Framed` describes this.
- `worker_connections` clients are admitted beside the listening sockets, where `nginx.conf:40` says fewer.
- The lock does not keep all but one of the woken workers from `accept4`
  (`ngx_c_socket.cxx:731`): one that tries late enough gets the lock and finds the backlog empty.
- A `fork` that fails and a worker that dies are logged, and no other worker is started
  (`ngx_process_cycle.cxx`); with all of them gone the master sleeps on.
- The comment at `ngx_process_cycle.cxx:63` doubts that `pthread_mutex_trylock` works between processes; on a mutex with
  `PTHREAD_PROCESS_SHARED`, which this one has, it does, and AcceptLock models it so. Being non-blocking it does not
  stop the woken workers from falling through one after the other, as said above of `ngx_c_socket.cxx:731`.
- SIGUSR1, with which a worker reports to the master, is only logged: what would count the workers and make a
  segment for the lock (`ngx_signal.cxx:129-149`) lies behind the `break` at line 127 and cannot be reached.
- The comment at `ngx_c_conf.cxx:58` has a tab removed from the end of a line; the code removes
  newline, carriage return and space. A line longer than the buffer goes on as a line of its own, a comment too.
- The table of examples at `ngx_log.cxx:50` has `%xd` of 1678 give `68E`; the code gives `68e`.

## The theorems

All are about the specifications above, for every value of the constants that satisfies the named
assumption of the module; TLC evaluates each assumption. Nothing else is assumed but in five theorems of SendQueueProofs,
which name a hypothesis (`Patient`, `Prompt`, `Roomy`): without it they are false, as *Disagreements* tells of each. Every proof module has one lemma per action,
or one per group of actions with the same effect, and the theorems follow from the invariant.

**SendQueueProofs**: `TypeCorrect`, `Limits` (`LimitsHold`) and `CountExact` (`SendCountExact`). `TypeOK` needs to know what a thread's locals
hold at each place (`Inv`: a pool thread outside *idle* has a packet, a thread in a close has a connection, the send
thread's position is inside the queue when it erases). The limits are tested in one step and used in another,
`MsgSendAdmit` and `MsgSendPush`; that the test still holds at the push (`Admitted`) rests on
mutual exclusion (`MutexInv`: who is between lock and unlock is the owner), which is proved first. The count is exact
because `iCurrsequence` tells lives apart (`LivesInv`): a packet in somebody's hands is of the life that goes on or its connection is
being recycled, one in the queue is of that life or of an earlier one, and only those of an earlier one are dropped without a count.

Under `Patient` (no client hangs up, and neither the read handler nor the timer thread throws one out; all else happens, kicks by `msgSend` included):
`PacketsOnce` (`EachPacketOnce`) and `OneWriterAtOnce` (`OneWriter`). `Open` says that an open connection is then closed by `msgSend` only,
which holds the mutex that the send thread holds from its look at `fd` to EPOLLOUT, so that a pass never loses its connection.
`Phase` is the protocol that stands in for a lock: `iThrowsendCount` is 1 exactly from the decision to use
EPOLLOUT to the end of the write handler, and in each phase one thread has the packet of `psendMemPointer`. `Apart`: a packet is
with one pool thread, or in the queue once, or with one connection.

Two refinements, for every step a lemma that it is one of ByteStream's or none. `SendsStreams` (`StreamSpec`), under `Prompt` (`MaxUnread = 0`: the end of
file of a client that closes is met by the first read; resets, floods, kicks and any other close may come at any moment).
`Hung` says that a hang-up reported with an event is followed by a close in the same event. `Turn` is the protocol of
`Phase` for connections whose socket still sends, the only ones of which a client sees anything, and `InOrder` the
arithmetic: units on the wire and units to go are those of the packets accepted and no longer queued, and what is
to go belongs to the packet that the wire ends with. `Fresh`: a packet is nowhere before it is queued.
`SendsInOrder` (`FifoStreamSpec`), under `Roomy` (no partial sends), for any hang-up. `Unbroken`: EPOLLOUT is never
armed, `iThrowsendCount` stays 0 and the scan stays at the head of the queue. `InLine`: a client's packets in the queue
are the last that were accepted, in that order, and the wire ends before them.
`SleepsOnlyWhenDone`, under `Roomy` too, is the safety half of `QueueDrains`: the send thread sleeps on a semaphore of 0 only when the queue is
empty or a pool thread is between its push and its post. `Woken`: a post follows
every push, and a pass ends only at an empty queue. Without `Roomy` it is false, which `SendQueue_stranded` shows.

**ThreadPoolProofs**: `PoolTyped`, `OneSleeperLeft` (`OneLeftAsleep`), `EveryMessageOwned` (`NoLeak`), `NoWakeupIsLost`
(`NoLostWakeup`) and the refinement `PoolIsWorkQueue` (`QueueSpec`). `Control` says who owns the mutex where and who has a
message; `Stopping` that whoever looks at `m_shutdown` after the broadcast finds it set; `Counted` that `m_iRunningThreadNum` is the number of threads between its two updates; `Unique` that a
message is in the queue once, with one thread, or done; `Kept` that the heap is just that. `NoLostWakeup` counts: the
threads on their way to the queue, and the signal that is owed, are at least the messages while someone sleeps. For
`WorkQueue` the bound on messages together follows from the map from threads to messages being an injection.

**ConnPoolProofs**: `PoolTyped`, `EveryObjectOnce` (`EachObjectOnce`), `OnlineIsExact` (`OnlineExact`), `CallKeepsItsObject`
(`CallKeepsObject`), `SequenceIsTrusted` (`SequenceTells`), `PoolIsBounded` (`PoolBounded`). None is inductive alone, and all but the last
lean on each other: the count is exact because an object that is put into the recycle list is one of a client, which
is so because no call outlives its client, which is a matter of time. `Kept` has the ages: an object has been recycled
no longer than the call on it has lasted and, for a call a message led to, than the message has waited and the epoll
thread's call that queued it may have lasted. With `2 * MaxStall + MaxDelay < RecyWait` nobody is left when the
recycle thread comes.

**RecvFramingProofs**: `RecvTyped`, `NothingBeyondBuffer` (`WithinBuffer`), `EveryBlockAccounted` (`BlocksAccounted`), `FloodKickedExactly`
(`KickedExactly`). `Position`: what has been read and what is awaited add up to a header, or to the length that the header
announced. `Counted`: `FloodAttackCount` is the number of short gaps at the end of the arrivals and
`FloodkickLastTime` the last of them; the lemma `UnsignedGap` says what the difference modulo `ClockRange` makes of a clock set back.
`StreamFramed` (`Framed`): the messages are the packets of the stream, however it is cut. The invariant `PacketsSoFar`
says so of what has been read followed by anything that may still come, so that no step needs an induction over
the stream. `Unfolded`, that the recursion which cuts a stream into packets has a solution for every stream, is
shown once, by the least length without one; `AfterClose` and `Numbered` tell the packets of one client from the next.

**TimerQueueProofs**: `TimerTyped`, `QueueIsExact` (`QueueExact`), `OneEntryEach` (`EntryPerConnection`), `RightClientKicked` (`RightClient`). `Places` says
that a connection somebody closes has no entry once it was deleted, `Numbers` that no entry has a number to come, `Watched`
that a used connection nobody works on has its entry in the queue or in the timer thread's list, `Exact` that the
cached size and time are those of the queue. `SilentIsClosed` (`SilentClosed`) adds the time: what a pass leaves is not due at its moment
(`OnTime`), so that nothing lies longer than `Delay`; and an entry's time is that of its client's connection or, where pings
count, no later than the last ping allows, unless the entry was collected and its examination is yet to come (`Pinged`: it
is put back before its client is examined).

**ProcessesProofs**, first of AcceptLock: `TypeCorrect`, `LockHandedBack` (`LockGivenBack`), `NeverForgotten` (`AcceptedOnce`). `LockGivenBack`
is inductive together with the types. `AcceptedOnce` is not: it says nothing of a connection whose fate is settled, so a
step could forget one that a worker still holds. `Hands` adds that no two workers hold the same connection, that who
waits in the backlog is in no one's hands, and that a held connection is *waiting* before it is set up and *served* after.
Then of Processes: `ImplementsLock` shows that every step of the processes is one of AcceptLock's or leaves its variables
alone, so that the lemmas on AcceptLock give `LockHeld` and `ServerForgetsNone` for the whole server. `ProcessesTyped`;
`NoZombieIsForgotten` (`NoZombieForgotten`), which is inductive with the types; `WorkersAreNoMasters` (`WorkerNeverMaster`), an action
property, from the invariant that a child past its first step is of type WORKER (`WorkerTyped`) and that each worker is
forked once (`Born`). Three theorems are about functions that the processes call. `TitlesKeepEnvironment` (`TitleKeepsEnvAtStart`):
for any arguments, environment and names. By induction over the texts of a block each lies where `Begin` says
(`LiesInBlock`), so a pointer to the copy gives the text it gave (`Moved`), whatever is written over the block (`Shown`).
`ChecksumsAreRemainders` (`CrcAtStart`): for any message. A turn of the table's loop is a step of the long division and linear, so the
eight turns of a table entry can be taken of the whole register; by induction over the bytes, the register is the reflected
remainder of what was read (`RemainderByte`). `SettingsAreRead` (`ConfReadAtStart`): for any settings with names that `ItemName` has room for, blanks and lines that say
nothing. A turn of `Load` takes the same line whatever comes behind (`LinesBefore`, `TurnBefore`), so by induction over the turns
a line put behind a text that ends with a newline adds its item to those of the text (`LoadAppends`); `SettingRead` says which item.
`PrintfIsExact` (`PrintfExactAtStart`) and `LogLinesAreWhole` (`LogLinesAtStart`): for any print, message,
error and room. `Stands` says of a directive that it stands for a text of which it writes as much as there is
room for; it is shown of padding, digits, sign, fraction and one after the other, hence of a turn (`TurnSays`), and by induction
of the loop (`PutTogether`). What is cut is then the beginning of what is not (`Bounded`). For `ReadsBack`, `ReadsTo` says that a text
takes a reader from one value to another, and such texts compose (`ReadOn`). `Partly` is what `temp` holds after each figure:
the number is what is left of it, times the base as often as there are figures, plus what the figures read as; nothing is left of it behind the last, so
a numeral reads as its number (`Spelt`). Blanks of the padding are passed over and its zeros read as zeros
(`PadsRead`), and `Rounding` is the arithmetic of the fraction and of its carry. A line of the log is such a text with a
prefix, an error of which there is all or nothing, and a newline; `LineComplete` goes through its lengths.

**WorkerProofs**: `NoCircleOfLocks` (`NoDeadlock`), `NoDescriptorLeaks` (`NoFdLeak`), `DescriptorsOwned` (`FdOwned`). What a thread will do is a sequence
of steps, so the proof is about sequences: `Held` is what such a sequence gives back without having taken it, and `Disciplined` that it
takes mutexes in the order of `Rank` only: `logicPorcMutex`, `m_sendMessageQueueMutex`, `m_timequeueMutex`,
`m_recyconnqueueMutex`, `m_connectionMutex`. Both are shown for each piece of code and for one piece after or around
another, thus for every way through. `CodeInv`: what a thread has still to do is disciplined, and it holds what it
will give back. In a circle of waiting threads each would wait for a mutex of higher rank than the thread before it does, and
the one that waits for the highest (`LeastElement` of DataLemmas) has none to wait for. `FdInv` adds the descriptors: in which place a
connection is (free, in hand, in use, recycled) and which steps may then still be to come for it in any thread (`Flow`
orders the steps within a thread), that a number in some `fd` is open and no one else's unless a `close` has just been done
(`Exclusive`, until two threads close one connection at once), and that an open number is in some `fd`.

Only model-checked, and why: everything under fairness (`QueueDrains`, `AllHandled`, `AcceptsAgain`, `EveryDeathReaped`,
`TakenWhileServed`) is out of this prover's reach, having no liveness and no ENABLED. The prover's library has induction only
for operators as parameters, which no installed prover can instantiate; where a proof needs induction (`Framed`, `CrcIsRemainder`,
`TitleKeepsEnv`, `ConfRead`, `PrintfExact`), it is over the set of numbers or sequences for which the claim holds. All other properties of the passing runs are theorems.

## Not modelled

Shutdown: `Shutdown_subproc`, `clearconnection`, `clearMsgSendQueue` and `clearAllFromTimerQueue` cannot be reached. Statistics: counters that are read and printed,
without effect. The test client: not part of the server. Registration and login bodies: only the reply they
send. Memory: `new` and `delete`, as sets or counts of blocks. `ngx_sock_ntop`: in `Printf`, but nothing
calls it and no run does. The options of the listening sockets. A batch of `epoll_wait` is taken one event at a time, so what an event finds
that an earlier one of the same batch has closed is not covered; an object closed so lately is still in the recycle
list (`CallKeepsObject`). The value of a double beyond thousandths.

## Plan

Done: all modules above, and the theorems listed. What is left:

1. A batch of several events in one call of `epoll_wait`, over the connections of `Worker`.
