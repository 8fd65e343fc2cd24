---------------------------- MODULE MCProcesses ----------------------------
(***************************************************************************)
(* Processes with what main() reads nginx.conf to be, and the functions    *)
(* without a state of their own that main() runs at its start.  What is    *)
(* said of those is a constant, looked at once, where main() begins.       *)
(***************************************************************************)
EXTENDS Processes

Files ==
  {<<"[", "Proc", "]", "\n", "WorkerProcesses", " ", "=", " ", "2", "\n",
     "# a comment", "\n", "Daemon", "=", "1", "\n">>}

TextsUpTo(n, c) == {[i \in 1..k |-> c] : k \in 0..n}
MCChars == {"a", "b", "e", "f", "m", " "}
MCArguments ==
  {<<a>> : a \in TextsUpTo(3, "a")} \cup (TextsUpTo(3, "a") \X TextsUpTo(1, "b"))
MCEnvironments == {<<>>} \cup (TextsUpTo(2, "e") \X TextsUpTo(1, "f"))
MCTitles == TextsUpTo(6, "m") \ {<<>>}

Bits(n) == {b \in 0..7 : (n \div 2^b) % 2 = 1}
Bytes(numbers) == [i \in DOMAIN numbers |-> Bits(numbers[i])]
MCMessages ==
  {Bytes(m) : m \in {<<>>} \cup {<<c>> : c \in 0..255} \cup [1..4 -> {0, 1, 128, 255}]}

MCSettings ==
  {<<"k">>, <<"K">>, <<"j">>, <<"k", "2">>}
    \X {<<>>, <<"1">>, <<"a", " ", "b">>, <<"[", "a", "=", "b", "]">>}
MCSpaces == {<<>>, <<" ", " ">>}
MCEnds == {<<"\n">>, <<" ", " ", "\n">>, <<" ", "\r", "\n">>}
MCNoise ==
  {<<>>, <<"\n">>, <<"#", "k", "=", "0", "\n">>, <<";", "k", "=", "0", "\n">>,
   <<" ", "k", "=", "0", "\n">>, <<"[", "k", "=", "0", "]", " ", "\n">>,
   <<"k", "\n">>, <<"\r", "\n">>}
MCAlphabet ==
  {"k", "K", "j", "2", "0", "1", "a", "b", "[", "]", "=", "#", ";", " ", "\r", "\n"}

MCCharacters ==
  ToSet(Figures \o FIGURES) \cup ToSet(Levels)
    \cup {" ", "-", ".", "%", "u", "X", "x", "d", "i", "L", "P", "p", "s", "/", ":", "[", "]",
          "(", ")", "\n", "nginx: ", "n", "o", "w", "t"}
MCStrerror == [e \in {2, 15} |-> IF e = 2 THEN <<"n", "o">> ELSE <<"w", "a", "n", "t">>]
MCLogTexts == TextsUpTo(NGX_MAX_ERROR_STR, "x")
Widths == {<<>>, <<"3">>, <<"0", "4">>, <<"1", "0">>}
Kinds == {<<"d">>, <<"u", "d">>, <<"x", "d">>, <<"X", "i">>, <<"u", "L">>, <<"P">>, <<"p">>,
          <<"f">>, <<".", "1", "f">>, <<".", "2", "f">>, <<".", "4", "f">>}
Values == {0, 7, -7, 31, 94, 127, 128, -128, 999, 12996, -12999, 40000}
MCPrints0 ==
  LET first ==
        {[fmt |-> <<"%">> \o w \o k, args |-> <<n>>] : w \in Widths, k \in Kinds, n \in Values}
        \cup
        {[fmt |-> <<"a", "%">> \o w \o k \o <<"%", "%", "%", "s">>, args |-> <<n, s>>] :
           w \in Widths, k \in Kinds, n \in Values, s \in {<<>>, <<"b", "c">>}}
        \cup {TimePrint} \cup {LevelPrint(level) : level \in 0..8}
      left[n \in 0..30] ==
        IF n = 0 THEN first
        ELSE {Following(p) : p \in {q \in left[n - 1] : q.fmt # <<>>}}
  IN UNION {left[n] : n \in 0..30}
MCPrints == MCPrints0   \* with a name of its own it is put together once

MCConfs == {StartConf(text) : text \in Files} \cup {NoFile}
=============================================================================
