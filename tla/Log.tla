-------------------------------- MODULE Log --------------------------------
(***************************************************************************)
(* ngx_log_stderr and ngx_log_error_core: one line put together in a       *)
(* buffer of NGX_MAX_ERROR_STR characters and written with one write(), as *)
(* a sequence of writes: <<descriptor, line>>.  A message holds no '%' and *)
(* no newline of its own.                                                  *)
(***************************************************************************)
EXTENDS Printf, Conf

CONSTANTS
  NGX_MAX_ERROR_STR,
  Strerror,   \* the words of each error
  LogTexts    \* what is logged

STDERR == 2
LogFile == 3         \* the descriptor that open() gives
Levels == <<"stderr", "emerg", "alert", "crit", "error", "warn", "notice", "info", "debug">>
Now == <<2026, 1, 2, 3, 4, 5>>
Pid == 31

ErrorText(err) == <<" ", "(">> \o Numeral(err, 0) \o <<":", " ">> \o Strerror[err] \o <<")", " ">>

\* mutant: the error is cut where the room ends
ErrnoCut(buf, last, text) == Take(buf \o text, last)

\* All of the error, or nothing of it.
ngx_log_errno(buf, last, text) == IF Len(buf) + Len(text) < last THEN buf \o text ELSE buf

\* The newline, over the last character when there is no room for it.
Line(text, last) ==
  (IF Len(text) >= last - 1 THEN Take(text, last - 2) ELSE text) \o <<"\n">>

\* A line: what was asked for behind buf, and the error if there is one.
Message(buf, err, fmt, args) ==
  Line(ngx_log_errno(ngx_vslprintf(buf, NGX_MAX_ERROR_STR, fmt, args), NGX_MAX_ERROR_STR,
                     IF err # 0 THEN ErrorText(err) ELSE <<>>),
       NGX_MAX_ERROR_STR)

TimePrint ==
  [fmt  |-> <<"%", "4", "d", "/", "%", "0", "2", "d", "/", "%", "0", "2", "d", " ",
              "%", "0", "2", "d", ":", "%", "0", "2", "d", ":", "%", "0", "2", "d">>,
   args |-> Now]
LevelPrint(level) ==
  [fmt  |-> <<" ", "[", "%", "s", "]", " ", "%", "P", ":", " ">>,
   args |-> <<<<Levels[level + 1]>>, Pid>>]
strcurrtime == ngx_vslprintf(<<>>, Endless, TimePrint.fmt, TimePrint.args)
Prefix(level) ==
  ngx_vslprintf(strcurrtime, NGX_MAX_ERROR_STR, LevelPrint(level).fmt, LevelPrint(level).args)

\* write() to the log may fail, for want of space or otherwise.
WriteLog(fd, line, outcome) ==
  CASE outcome = "written" -> <<<<fd, line>>>>
    [] outcome = "ENOSPC" -> <<>>
    [] outcome = "failed" -> IF fd # STDERR THEN <<<<STDERR, line>>>> ELSE <<>>
ngx_log_error_core(ngx_log, level, err, fmt, args, outcome) ==
  IF level > ngx_log.log_level THEN <<>>
  ELSE WriteLog(ngx_log.fd, Message(Prefix(level), err, fmt, args), outcome)

\* The line on the terminal is the message for the log.
WriteStderr(ngx_log, err, line, outcome) ==
  <<<<STDERR, line>>>>
    \o IF ngx_log.fd > STDERR
       THEN ngx_log_error_core(ngx_log, 0, err, line, <<>>, outcome) ELSE <<>>
Banner == <<"nginx: ">>
ngx_log_stderr(ngx_log, err, fmt, args, outcome) ==
  WriteStderr(ngx_log, err, Message(Banner, err, fmt, args), outcome)

\* ngx_log.fd after ngx_log_init, and its level.
ngx_log_init(items, opened) ==
  [fd        |-> IF opened THEN LogFile ELSE STDERR,
   log_level |-> GetIntDefault(items, <<"LogLevel">>, 6)]

-----------------------------------------------------------------------------
Logs == {ngx_log_init(items, opened) :
           items \in {Load(<<>>), Load(<<"LogLevel", "=", "3">>)}, opened \in BOOLEAN}
Outcomes == {"written", "ENOSPC", "failed"}
Plain == Characters \ {"%"}

ASSUME LogAssumption ==
  /\ NGX_MAX_ERROR_STR \in Nat /\ NGX_MAX_ERROR_STR > 2
  /\ LogTexts \subseteq Seq(Plain)
  /\ \A err \in DOMAIN Strerror : err \in Nat /\ Strerror[err] \in Seq(Plain)
  /\ {" ", "(", ":", ")", "\n", "nginx: "} \subseteq Plain /\ {"%", "s"} \subseteq Characters
  /\ TimePrint \in Prints /\ \A level \in 0..8 : LevelPrint(level) \in Prints
  /\ Len(strcurrtime) =< NGX_MAX_ERROR_STR

\* All of the message and the error if there is room for both; else as much of the
\* message as there is room for, and of the error nothing but perhaps all of its words.
Complete(line, message, error) ==
  /\ Last(line) = "\n" /\ Len(line) < NGX_MAX_ERROR_STR
  /\ IF Len(message \o error) =< NGX_MAX_ERROR_STR - 2 THEN Front(line) = message \o error
     ELSE Front(line) \in {Take(message, NGX_MAX_ERROR_STR - 2), Front(message \o error)}

CoreLines(written, message, error) ==
  \A i \in DOMAIN written : Complete(written[i][2], message, error)
StderrLines(written, message, error) ==
  /\ Complete(written[1][2], message, error)
  /\ CoreLines(Tail(written), Prefix(0) \o written[1][2], error)

\* Whatever the lengths of a message and of its error, the line that is written stays
\* inside the buffer, ends with its newline and is complete if there is room; on its
\* way to the terminal the message also goes to the log file, with the prefix of the log.
LogLines ==
  \A log \in Logs, err \in {0} \cup DOMAIN Strerror, s \in LogTexts, o \in Outcomes :
    \A error \in {IF err = 0 THEN <<>> ELSE ErrorText(err)} :
      /\ \A level \in 0..8 :
           CoreLines(ngx_log_error_core(log, level, err, <<"%", "s">>, <<s>>, o),
                     Prefix(level) \o s, error)
      /\ StderrLines(ngx_log_stderr(log, err, <<"%", "s">>, <<s>>, o),
                     Banner \o s, error)
=============================================================================
