----------------------------- MODULE ProcTitle -----------------------------
(***************************************************************************)
(* The process title: a block of memory that the kernel filled with the    *)
(* arguments, then the environment, each text with a NUL at its end.       *)
(* ngx_init_setproctitle moves the environment elsewhere, so that          *)
(* ngx_setproctitle may write over all of the block.                       *)
(***************************************************************************)
EXTENDS Integers, Sequences, SequencesExt

CONSTANTS
  MasterTitleMax,  \* the master's title is not set from here on, 1000
  Chars,           \* what texts are made of
  Arguments,       \* what the program may be started with: argv and
  Environments,    \* environ, sequences of texts, and
  Titles           \* the names of master and worker processes

NUL == "NUL"

ASSUME ProcTitleAssumption ==
  /\ NUL \notin Chars /\ " " \in Chars
  /\ \A argv \in Arguments : argv \in Seq(Seq(Chars)) /\ argv # <<>>
  /\ \A environ \in Environments : environ \in Seq(Seq(Chars))
  /\ \A title \in Titles : title \in Seq(Chars)

\* Texts one after the other, and where the one with number i begins.
Block(texts) == FlattenSeq([i \in DOMAIN texts |-> Append(texts[i], NUL)])
Begin(texts, i) == 1 + Len(Block(SubSeq(texts, 1, i - 1)))

\* strlen and the text at an address
TextAt(memory, p) ==
  LET end == SelectInSubSeq(memory, p, Len(memory), LAMBDA c : c = NUL)
  IN SubSeq(memory, p, end - 1)

\* main, with the argument and environment texts: the sizes are counted.  An address
\* is the area it is in and an index; what comes after the block is not this program's.
Beyond == <<"?", "?">>
Started(argv, environ) ==
  [stack         |-> Block(argv \o environ) \o Beyond,
   gp_envmem     |-> <<>>,
   g_argvneedmem |-> Len(Block(argv)),
   g_envneedmem  |-> Len(Block(environ)),
   argc          |-> Len(argv),
   environ       |-> [i \in DOMAIN environ |->
                        <<"stack", Begin(argv \o environ, Len(argv) + i)>>]]

Getenv(p, i) ==
  TextAt(IF p.environ[i][1] = "stack" THEN p.stack ELSE p.gp_envmem, p.environ[i][2])

\* mutant: the texts are copied, the pointers stay
CopiedOnly(p) ==
  [p EXCEPT !.gp_envmem = Block([i \in DOMAIN p.environ |-> Getenv(p, i)])]

ngx_init_setproctitle(p) ==
  LET texts == [i \in DOMAIN p.environ |-> Getenv(p, i)]
  IN [p EXCEPT !.gp_envmem = Block(texts),
               !.environ = [i \in DOMAIN p.environ |-> <<"gp_envmem", Begin(texts, i)>>]]

\* The title, and zeros to the end of the block; nothing if there is no room.
ngx_setproctitle(p, title) ==
  LET esy == p.g_argvneedmem + p.g_envneedmem
  IN IF esy =< Len(title) THEN p
     ELSE [p EXCEPT !.argc = 1,
                    !.stack = [i \in DOMAIN p.stack |->
                                 IF i =< Len(title) THEN title[i]
                                 ELSE IF i =< esy THEN NUL ELSE p.stack[i]]]

\* The title of the master: its name, a space and all arguments, if not too long.
MasterTitle(p, name, argv) ==
  IF Len(name) + 1 + p.g_argvneedmem < MasterTitleMax
  THEN ngx_setproctitle(p, name \o <<" ">> \o FlattenSeq(argv)) ELSE p

-----------------------------------------------------------------------------
\* Whatever the sizes, after the master and then a worker have set their titles the
\* environment is what it was, the title is the last one that there was room for, no
\* rest of an older one shows behind it, and nothing beyond the block has been touched.
TitleKeepsEnv ==
  \A argv \in Arguments, environ \in Environments, master, worker \in Titles :
    LET start == Started(argv, environ)
        first == MasterTitle(ngx_init_setproctitle(start), master, argv)
        end == ngx_setproctitle(first, worker)
        size == Len(Block(argv \o environ))
        before == TextAt(first.stack, 1)
        title == IF Len(worker) < size THEN worker ELSE before
    IN /\ \A i \in DOMAIN environ : Getenv(end, i) = environ[i]
       /\ SubSeq(end.stack, size + 1, Len(end.stack)) = Beyond
       /\ before \in {argv[1], master \o <<" ">> \o FlattenSeq(argv)}
       /\ TextAt(end.stack, 1) = title
       /\ end.stack # start.stack =>
            end.argc = 1 /\ \A i \in (Len(title) + 1)..size : end.stack[i] = NUL
=============================================================================
