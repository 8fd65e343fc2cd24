------------------------------- MODULE Printf -------------------------------
(***************************************************************************)
(* ngx_vslprintf: text put together in a buffer that has room for max      *)
(* characters.  An argument is an integer, a text, or for %f a number of   *)
(* thousandths; how a double rounds is left out.  A format does not end    *)
(* inside a directive, and has an argument for each.                       *)
(***************************************************************************)
EXTENDS Integers, Sequences, SequencesExt, FiniteSetsExt

CONSTANTS
  UIntRange,     \* an unsigned int holds less than this, 2^32,
  UInt64Range,   \* and a uintptr_t, a uint64_t or a pointer less than this, 2^64
  PointerLen,    \* 2 * sizeof(void *)
  NGX_INT64_LEN, \* the figures that temp has room for
  Endless,       \* room that is never used up: last = (u_char *)-1
  Characters,
  Prints         \* what is printed: [fmt, args], with what is left of it behind each turn

Figures == <<"0", "1", "2", "3", "4", "5", "6", "7", "8", "9",
             "a", "b", "c", "d", "e", "f">>
FIGURES == <<"0", "1", "2", "3", "4", "5", "6", "7", "8", "9",
             "A", "B", "C", "D", "E", "F">>
Decimal == {Figures[i] : i \in 1..10}
Fill == " "

Take(text, n) == SubSeq(text, 1, Min({n, Len(text)}))
Skip(text, n) == SubSeq(text, n + 1, Len(text))
Span(text, cs) ==   \* how many characters at the front are in cs
  LET i == SelectInSeq(text, LAMBDA c : c \notin cs) IN IF i = 0 THEN Len(text) ELSE i - 1
ValueOf(digits) ==
  FoldLeft(LAMBDA n, c : 10 * n + SelectInSeq(Figures, LAMBDA d : d = c) - 1, 0, digits)
Power(base, n) ==
  LET scale[i \in 0..n] == IF i = 0 THEN 1 ELSE base * scale[i - 1] IN scale[n]

\* What follows a '%': the width, u, X and x in any order, a precision, the conversion.
Conversion(fmt, width, bases, sign, mark, frac) ==
  [zero       |-> IF fmt[1] = "0" THEN "0" ELSE Fill,
   width      |-> ValueOf(Take(fmt, width)),
   sign       |-> sign,
   hex        |-> IF bases = <<>> THEN 0 ELSE IF Last(bases) = "X" THEN 2 ELSE 1,
   frac_width |-> ValueOf(SubSeq(mark, 2, frac)),
   conv       |-> mark[frac + 1],
   rest       |-> Skip(mark, frac + 1)]
Precision(mark) == IF mark[1] = "." THEN 1 + Span(Tail(mark), Decimal) ELSE 0
Marked(fmt, width, flags, mark) ==
  Conversion(fmt, width, SelectSeq(flags, LAMBDA c : c # "u"), flags = <<>>, mark,
             Precision(mark))
Flagged(fmt, width, flags) ==
  Marked(fmt, width, SubSeq(fmt, width + 1, width + flags), Skip(fmt, width + flags))
Wide(fmt, width) == Flagged(fmt, width, Span(Skip(fmt, width), {"u", "X", "x"}))
Directive(fmt) == Wide(fmt, Span(fmt, Decimal))

\* The figures of a number in temp, the last one first: do .. while there is more of it.
PutFigure(temp, figures) ==
  IF temp.left = 0 /\ temp.text # <<>> THEN temp
  ELSE [left |-> temp.left \div Len(figures),
        text |-> <<figures[(temp.left % Len(figures)) + 1]>> \o temp.text]
InBase(n, figures) ==
  LET temp[i \in 0..NGX_INT64_LEN] ==
        IF i = 0 THEN [left |-> n, text |-> <<>>] ELSE PutFigure(temp[i - 1], figures)
  IN temp[NGX_INT64_LEN].text
Numeral(n, hex) ==
  InBase(n, CASE hex = 0 -> SubSeq(Figures, 1, 10) [] hex = 1 -> Figures [] hex = 2 -> FIGURES)

Padded(buf, max, temp, zero, width) ==
  buf \o [i \in 1..Max({0, Min({width - Len(temp), max - Len(buf)})}) |-> zero]

\* mutant: the end of the buffer is only looked at for the padding
CutNowhere(padded, max, temp) == padded \o temp

\* Of the digits what the rest of the buffer holds.
CutAtEnd(padded, max, temp) ==
  padded \o Take(temp, IF Len(padded) + Len(temp) >= max THEN max - Len(padded) ELSE Len(temp))

\* The padding as far as there is room, then the digits.
PutDigits(buf, max, temp, zero, width) ==
  CutAtEnd(Padded(buf, max, temp, zero, width), max, temp)
ngx_sprintf_num(buf, max, ui64, zero, hex, width) ==
  PutDigits(buf, max, Numeral(ui64, hex), zero, width)

\* What va_arg takes for an unsigned number: a u_int for %ud, 64 bits for the others.
UnsignedRange(d) == IF d.conv = "d" THEN UIntRange ELSE UInt64Range

Signed(d) == d.conv \in {"P", "f"} \/ (d.sign /\ d.conv # "p")
Abs(n) == IF n < 0 THEN -n ELSE n
PutSign(buf, n) == IF n < 0 THEN Append(buf, "-") ELSE buf

\* %d, %i, %L, %P and %p; a negative number has its sign before the padding.
PutNumber(buf, max, d, arg) ==
  IF d.conv = "p" THEN ngx_sprintf_num(buf, max, arg % UnsignedRange(d), "0", 2, PointerLen)
  ELSE ngx_sprintf_num(IF Signed(d) THEN PutSign(buf, arg) ELSE buf, max,
                       IF Signed(d) THEN Abs(arg) ELSE arg % UnsignedRange(d),
                       d.zero, d.hex, d.width)

Carry(d, full) == d.frac_width > 0 /\ full

Dotted(whole, max) == IF Len(whole) < max THEN Append(whole, ".") ELSE whole
PutFraction(whole, max, d, frac) ==
  IF d.frac_width = 0 THEN whole
  ELSE ngx_sprintf_num(Dotted(whole, max), max, frac, "0", 0, d.frac_width)
PutCarried(buf, max, d, n, frac, carry) ==
  PutFraction(ngx_sprintf_num(buf, max, (n \div 1000) + (IF carry THEN 1 ELSE 0),
                              d.zero, 0, d.width),
              max, d, IF carry THEN 0 ELSE frac)
PutRounded(buf, max, d, n, frac) ==
  PutCarried(buf, max, d, n, frac, Carry(d, frac = Power(10, d.frac_width)))

\* %f: the fraction is rounded, and carries into the integer part.
PutFloat(buf, max, d, arg) ==
  PutRounded(PutSign(buf, arg), max, d, Abs(arg),
             ((Abs(arg) % 1000) * Power(10, d.frac_width) * 2 + 1000) \div 2000)

Put(buf, max, d, args) ==
  CASE d.conv = "s" -> buf \o Take(args[1], max - Len(buf))
    [] d.conv \in {"d", "i", "L", "P", "p"} -> PutNumber(buf, max, d, args[1])
    [] d.conv = "f" -> PutFloat(buf, max, d, args[1])
    [] OTHER -> Append(buf, d.conv)
Used(d) == IF d.conv \in {"s", "d", "i", "L", "P", "p", "f"} THEN 1 ELSE 0

\* What is left behind a turn of the loop, and a turn: a character or a directive.
Following(p) ==
  LET d == Directive(Tail(p.fmt))
  IN IF Head(p.fmt) # "%" THEN [p EXCEPT !.fmt = Tail(@)]
     ELSE [fmt |-> d.rest, args |-> Skip(p.args, Used(d))]
PutNext(buf, max, p) ==
  IF Head(p.fmt) # "%" THEN Append(buf, Head(p.fmt))
  ELSE Put(buf, max, Directive(Tail(p.fmt)), p.args)
PutTurn(t, max) ==
  IF t.p.fmt = <<>> \/ Len(t.buf) >= max THEN t
  ELSE [buf |-> PutNext(t.buf, max, t.p), p |-> Following(t.p)]
ngx_vslprintf(buf, max, fmt, args) ==
  LET after[n \in 0..Len(fmt)] ==
        IF n = 0 THEN [buf |-> buf, p |-> [fmt |-> fmt, args |-> args]]
        ELSE PutTurn(after[n - 1], max)
  IN after[Len(fmt)].buf

\* ngx_sock_ntop, of the four bytes of an address and a port.
ngx_sock_ntop(addr, port, withPort, len) ==
  LET byte == <<"%", "u", "d">>
      four == byte \o <<".">> \o byte \o <<".">> \o byte \o <<".">> \o byte
  IN ngx_vslprintf(<<>>, len, IF withPort THEN four \o <<":", "%", "d">> ELSE four,
                   Append(addr, port))

-----------------------------------------------------------------------------
\* A format does not end inside a directive, and has an argument for each; a number has
\* its width, its places behind the point, and figures that temp has room for.
Numbers == {"d", "i", "L", "P", "p", "f"}
Suits(d, args) ==
  /\ d.conv \in Characters
  /\ d.conv \in Numbers =>
       /\ args[1] \in Int /\ Abs(args[1]) < Power(10, NGX_INT64_LEN)
       /\ d.width \in Int /\ d.frac_width \in Nat /\ d.frac_width =< NGX_INT64_LEN
  /\ d.conv = "s" => args[1] \in Seq(Characters)

ASSUME PrintfAssumption ==
  /\ {UIntRange, UInt64Range, NGX_INT64_LEN} \subseteq Nat \ {0}
  /\ {PointerLen, Endless} \subseteq Nat
  /\ \A range \in {UIntRange, UInt64Range} : range =< Power(10, NGX_INT64_LEN)
  /\ {Fill, "-", "."} \subseteq Characters
  /\ \A i \in 1..16 : {Figures[i], FIGURES[i]} \subseteq Characters
  /\ \A p \in Prints :
       /\ p = [fmt |-> p.fmt, args |-> p.args] /\ p.fmt \in Seq(Characters)
       /\ p.fmt # <<>> =>
            /\ Following(p) \in Prints
            /\ Head(p.fmt) = "%" => Suits(Directive(Tail(p.fmt)), p.args)

\* However little room there is, what is written is the beginning of what would be
\* written with room enough, and fills the room.
Bounded ==
  \A p \in Prints :
    LET full == ngx_vslprintf(<<>>, Endless, p.fmt, p.args)
    IN Len(full) < Endless =>
         \A max \in 0..(Len(full) + 1) : ngx_vslprintf(<<>>, max, p.fmt, p.args) = Take(full, max)

\* The number that figures are read as; signs, points and spaces are passed over.
Figure(c) == CHOOSE v \in 0..15 : c \in {Figures[v + 1], FIGURES[v + 1]}
ReadNext(v, c, base) == IF c \in {Fill, "-", "."} THEN v ELSE base * v + Figure(c)
Read(text, base) ==
  LET v[i \in 0..Len(text)] == IF i = 0 THEN 0 ELSE ReadNext(v[i - 1], text[i], base)
  IN v[Len(text)]

\* What is printed is read as the number that was given, to half a unit of the last
\* place that was asked for, with its sign, and is as wide as was asked for.  A number
\* printed without a sign is the one its C type holds: 32 bits of it for %ud and %xd,
\* all 64 for %ui, %uL, %xi, %xL and %p.
ReadAs(d, value, n) ==
  CASE d.conv # "f" ->
         value = IF Signed(d) THEN Abs(n)
                 ELSE IF d.conv = "d" THEN n % UIntRange ELSE n % UInt64Range
    [] d.conv = "f" /\ d.frac_width = 0 -> value = Abs(n) \div 1000
    [] OTHER -> 2 * Abs(1000 * value - Abs(n) * Power(10, d.frac_width)) =< 1000
Base(d) == IF d.conv = "p" \/ (d.conv # "f" /\ d.hex > 0) THEN 16 ELSE 10
Printed(d, text, n) ==
  /\ Len(text) >= IF d.conv = "p" THEN PointerLen ELSE d.width
  /\ (Head(text) = "-") = (Signed(d) /\ n < 0)
  /\ ReadAs(d, Read(text, Base(d)), n)

\* A directive for a number, with nothing behind it.
ReadsBack ==
  \A p \in Prints :
    LET d == Directive(Tail(p.fmt))
        text == ngx_vslprintf(<<>>, Endless, p.fmt, p.args)
    IN /\ p.fmt # <<>> /\ Head(p.fmt) = "%"
       /\ d.conv \in Numbers /\ d.rest = <<>> /\ Len(text) < Endless
       => Printed(d, text, p.args[1])

\* ngx_vslprintf prints what was asked for, in full or cut where the room ends.
PrintfExact == Bounded /\ ReadsBack
=============================================================================
