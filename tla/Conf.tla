-------------------------------- MODULE Conf --------------------------------
(***************************************************************************)
(* CConfig: nginx.conf read line by line into a list of items, and the     *)
(* questions the program puts to the list.  A text is a sequence of        *)
(* characters; where its letters do not matter, a word is one character.   *)
(***************************************************************************)
EXTENDS Integers, Sequences, SequencesExt, FiniteSetsExt

CONSTANTS
  LineMax,       \* the size that fgets is given
  ItemNameSize,  \* the size of CConfItem.ItemName
  Alphabet,      \* the characters of a file
  Settings,      \* what an administrator may write: names with their values,
  Spaces,        \* the spaces around the '=', the ends of lines,
  Ends,
  Noise          \* and the lines between that say nothing

Nullptr == "nullptr"

\* From the first character that is not in cs, up to the last one that is not in cs.
CutFront(string, cs) ==
  LET i == SelectInSeq(string, LAMBDA c : c \notin cs)
  IN IF i = 0 THEN <<>> ELSE SubSeq(string, i, Len(string))
CutBack(string, cs) ==
  SubSeq(string, 1, SelectLastInSeq(string, LAMBDA c : c \notin cs))

\* Where c is first, or 0.
strchr(string, c) == SelectInSeq(string, LAMBDA x : x = c)

\* mutant: one space only
RtrimOne(string) ==
  IF string # <<>> /\ Last(string) = " " THEN Front(string) ELSE string

Rtrim(string) == CutBack(string, {" "})
Ltrim(string) == CutFront(string, {" "})

\* A line with its newline, or as much of a longer one as there is room for; the rest
\* is the next line then.
fgets(text) ==
  SubSeq(text, 1, Min({LineMax - 1, Len(text)} \cup ({strchr(text, "\n")} \ {0})))

Comment(line) == Head(line) \in {";", " ", "#", "\t", "\n"}

\* Without newline, carriage return and space at its end.
Stripped(line) == CutBack(line, {"\n", "\r", " "})

Skipped(line) ==
  \/ Comment(line) \/ Stripped(line) = <<>>
  \/ line[1] = "[" /\ Last(Stripped(line)) = "]"
  \/ "=" \notin ToSet(Stripped(line))

\* A name that leaves no room for its 0 in ItemName goes on, as a string, with what
\* is written behind it: ItemContent.
Stored(name, content) ==
  IF Len(name) < ItemNameSize THEN name ELSE SubSeq(name, 1, ItemNameSize) \o content

\* What is left and right of the first '='.
Item(line) ==
  LET ptmp    == strchr(line, "=")
      content == Ltrim(Rtrim(SubSeq(line, ptmp + 1, Len(line))))
  IN [ItemName    |-> Ltrim(Rtrim(Stored(SubSeq(line, 1, ptmp - 1), content))),
      ItemContent |-> content]

\* A turn of the loop, and m_configItemList after as many as a text can have.
LoadLine(p) ==
  LET line == fgets(p.rest)
  IN IF p.rest = <<>> THEN p
     ELSE [items |-> IF Skipped(line) THEN p.items ELSE Append(p.items, Item(Stripped(line))),
           rest  |-> SubSeq(p.rest, Len(line) + 1, Len(p.rest))]
Load(text) ==
  LET after[n \in 0..Len(text)] ==
        IF n = 0 THEN [items |-> <<>>, rest |-> text] ELSE LoadLine(after[n - 1])
  IN after[Len(text)].items

\* strcasecmp
Lower(c) == IF c = "K" THEN "k" ELSE c
SameName(a, b) == Len(a) = Len(b) /\ \A i \in DOMAIN a : Lower(a[i]) = Lower(b[i])

\* mutant: the last item of that name
LastString(items, name) ==
  LET i == SelectLastInSeq(items, LAMBDA item : SameName(item.ItemName, name))
  IN IF i = 0 THEN Nullptr ELSE items[i].ItemContent

GetString(items, name) ==
  LET i == SelectInSeq(items, LAMBDA item : SameName(item.ItemName, name))
  IN IF i = 0 THEN Nullptr ELSE items[i].ItemContent

\* atoi: the number made of the leading digits, 0 without any.
Digit == [c \in {"0", "1", "2", "3"} |->
            CASE c = "0" -> 0 [] c = "1" -> 1 [] c = "2" -> 2 [] c = "3" -> 3]
Atoi(string) ==
  LET stop == SelectInSeq(string, LAMBDA c : c \notin DOMAIN Digit)
      digits == IF stop = 0 THEN string ELSE SubSeq(string, 1, stop - 1)
  IN FoldLeft(LAMBDA n, c : 10 * n + Digit[c], 0, digits)

GetIntDefault(items, name, def) ==
  LET string == GetString(items, name)
  IN IF string = Nullptr THEN def ELSE Atoi(string)

\* CSocekt::ReadConf; a period below five seconds is raised to five.
ReadConf(items) ==
  [m_ListenPortCount        |-> GetIntDefault(items, <<"ListenPortCount">>, 1),
   m_worker_connections     |-> GetIntDefault(items, <<"worker_connections">>, 1),
   m_RecyConnectionWaitTime |-> GetIntDefault(items, <<"Sock_RecyConnectionWaitTime">>, 60),
   m_ifkickTimeCount        |-> GetIntDefault(items, <<"Sock_WaitTimeEnable">>, 0),
   m_iWaitTime              |-> Max({GetIntDefault(items, <<"Sock_MaxWaitTime">>, 5), 5}),
   m_ifTimeOutKick          |-> GetIntDefault(items, <<"Sock_TimeOutKick">>, 0),
   m_floodAkEnable          |-> GetIntDefault(items, <<"Sock_FloodAttackKickEnable">>, 0),
   m_floodTimeInterval      |-> GetIntDefault(items, <<"Sock_FloodTimeInterval">>, 100),
   m_floodKickCount         |-> GetIntDefault(items, <<"Sock_FloodKickCounter">>, 10)]

\* What the start-up of the processes depends on.
StartConf(text) ==
  LET items == Load(text)
  IN [WorkerProcesses |-> GetIntDefault(items, <<"WorkerProcesses">>, 1),
      Daemon          |-> GetIntDefault(items, <<"Daemon">>, 0) = 1,
      ListenPortCount |-> ReadConf(items).m_ListenPortCount]

-----------------------------------------------------------------------------
LineOf(setting, space, end) == setting[1] \o space \o <<"=">> \o space \o setting[2] \o end

\* A setting has a name, and ends of lines are blank but for the newline.  A line that
\* says nothing is a comment, a group or without '='.  No line is too long for fgets,
\* and no name, with the spaces behind it, for ItemName: nginx.conf:3 asks for 40
\* characters at most.
IsName(name) ==
  /\ name \in Seq(Alphabet) /\ name # <<>>
  /\ {"=", "\n"} \cap ToSet(name) = {}
  /\ Head(name) \notin {";", " ", "#", "\t", "["} /\ Last(name) # " "
IsValue(value) ==
  /\ value \in Seq(Alphabet) /\ "\n" \notin ToSet(value)
  /\ value # <<>> => Head(value) # " " /\ Last(value) \notin {" ", "\r"}
IsLine(line) == line # <<>> /\ Last(line) = "\n" /\ "\n" \notin ToSet(Front(line))
SaysNothing(line) ==
  \/ Head(line) \in {";", " ", "#", "\t"}
  \/ Head(line) = "[" /\ Last(Stripped(line)) = "]"
  \/ "=" \notin ToSet(line)

ASSUME ConfAssumption ==
  /\ LineMax \in Nat /\ ItemNameSize \in Nat /\ {"=", " ", "\r", "\n"} \subseteq Alphabet
  /\ \A s \in Settings : IsName(s[1]) /\ IsValue(s[2])
  /\ \A space \in Spaces : space \in Seq({" "})
  /\ \A end \in Ends : end \in Seq({" ", "\r", "\n"}) /\ IsLine(end)
  /\ \A s \in Settings, space \in Spaces : Len(s[1] \o space) < ItemNameSize
  /\ \A s \in Settings, space \in Spaces, end \in Ends :
       Len(LineOf(s, space, end)) < LineMax
  /\ \A noise \in Noise \ {<<>>} :
       /\ noise \in Seq(Alphabet) /\ IsLine(noise) /\ SaysNothing(noise)
       /\ Len(noise) < LineMax

\* What is written is what is read: a name has the value of the first setting of that
\* name, in whatever case it is written, without the spaces around it and with those
\* inside it, and no comment, group or unfinished line counts; also when the file
\* does not end with a newline.
ConfRead ==
  \A s, t \in Settings, space \in Spaces, end \in Ends, noise \in Noise :
    LET text == noise \o LineOf(s, space, end) \o noise \o LineOf(t, space, end)
        value(name) == IF SameName(s[1], name) THEN s[2]
                       ELSE IF SameName(t[1], name) THEN t[2] ELSE Nullptr
    IN \A items \in {Load(text), Load(SubSeq(text, 1, Len(text) - Len(end)))} :
         \A u \in Settings : GetString(items, u[1]) = value(u[1])
=============================================================================
