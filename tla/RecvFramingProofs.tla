-------------------------- MODULE RecvFramingProofs --------------------------
(***************************************************************************)
(* Theorems of RecvFraming for any lengths of header and packet, any       *)
(* interval and count of the flood detection and any clock: its types, the *)
(* place recv writes to, the blocks of memory, who is thrown out, and that *)
(* the messages are the packets of the stream.                             *)
(***************************************************************************)
EXTENDS RecvFraming, DataLemmas

Header == {"HD_INIT", "HD_RECVING"}
Body == {"BD_INIT", "BD_RECVING"}

\* What is awaited, and that what precedes it in the header has been written; of a
\* connection that was given back only the state is left.
Position ==
  /\ fd = "free" => precvMemPointer = Null
  /\ curStat = "HD_INIT" => precvbuf.at = 0
  /\ curStat \in Header =>
       /\ precvbuf.mem = "dataHeadInfo" /\ precvbuf.at + irecvlen = LenPkgHeader
       /\ precvMemPointer = Null
       /\ \A i \in 1..precvbuf.at : dataHeadInfo[i] \in Units
  /\ curStat \in Body =>
       /\ precvbuf.mem = "block" /\ precvbuf.at >= LenPkgHeader
       /\ fd # "free" => /\ precvMemPointer # Null
                         /\ precvbuf.at + irecvlen = Len(precvMemPointer)
                         /\ precvMemPointer[1] = Len(precvMemPointer)

\* FloodAttackCount is the number of short gaps at the end of the arrivals.
ShortGap(s, i) == s[i] - s[i - 1] \in 0..FloodTimeInterval - 1
Counted ==
  /\ IF arrivals = <<>> THEN FloodAttackCount = 0 /\ FloodkickLastTime = 0
     ELSE /\ FloodAttackCount < Len(arrivals)
          /\ FloodkickLastTime = arrivals[Len(arrivals)]
  /\ \A i \in Len(arrivals) - FloodAttackCount + 1..Len(arrivals) : ShortGap(arrivals, i)
  /\ FloodAttackCount + 1 < Len(arrivals) =>
       ~ShortGap(arrivals, Len(arrivals) - FloodAttackCount)
  /\ flooded <=> FloodAttackCount >= FloodKickCount
  /\ flooded => fd # "open"
  /\ ~m_floodAkEnable => arrivals = <<>>

Inv == TypeOK /\ Position /\ BlocksAccounted /\ Counted

-----------------------------------------------------------------------------
(* Memory and clock.                                                       *)

LEMMA Memory ==
  ASSUME NEW S, NEW n \in Nat, NEW f \in [1..n -> S]
  PROVE  f \in Seq(S) /\ Len(f) = n /\ DOMAIN f = 1..n
  OBVIOUS

\* recv writes what it got from precvbuf on, and nothing else.
LEMMA Stored ==
  ASSUME NEW mem \in Content, NEW n \in Nat, NEW data \in [1..n -> Units],
         precvbuf.at \in Nat
  PROVE  /\ Store(mem, data) \in Content /\ Len(Store(mem, data)) = Len(mem)
         /\ \A i \in 1..Len(mem) :
              /\ i =< precvbuf.at => Store(mem, data)[i] = mem[i]
              /\ i > precvbuf.at /\ i =< precvbuf.at + n => Store(mem, data)[i] \in Units
<1> DEFINE at == precvbuf.at
           S == Units \cup {Null}
<1>1. Len(mem) \in Nat /\ DOMAIN mem = 1..Len(mem) /\ \A i \in 1..Len(mem) : mem[i] \in S
  BY LenProperties, ElementOfSeq DEF Content
<1>2. DOMAIN data = 1..n
  OBVIOUS
<1>3. Store(mem, data)
        = [i \in 1..Len(mem) |-> IF i - at \in 1..n THEN data[i - at] ELSE mem[i]]
  BY <1>1, <1>2 DEF Store
<1>4. \A i \in 1..Len(mem) : i - at \in 1..n => data[i - at] \in Units
  OBVIOUS
<1>5. Store(mem, data) \in [1..Len(mem) -> S]
  BY <1>1, <1>3, <1>4
<1>6. Store(mem, data) \in Content /\ Len(Store(mem, data)) = Len(mem)
  BY <1>1, <1>5, Memory DEF Content
<1>7. ASSUME NEW i \in 1..Len(mem)
      PROVE  /\ i =< at => Store(mem, data)[i] = mem[i]
             /\ i > at /\ i =< at + n => Store(mem, data)[i] \in Units
  <2>1. i =< at => i - at \notin 1..n
    BY <1>1
  <2>2. i > at /\ i =< at + n => i - at \in 1..n
    BY <1>1
  <2>3. QED
    BY <1>3, <1>4, <2>1, <2>2
<1>8. QED
  BY <1>6, <1>7

\* A block for a packet: its header, and room for the rest.
LEMMA NewBlock ==
  ASSUME NEW head \in Content, NEW n \in Nat, Len(head) > 0
  PROVE  /\ head \o Blank(n) \in Content /\ Len(head \o Blank(n)) = Len(head) + n
         /\ (head \o Blank(n))[1] = head[1]
<1>1. Blank(n) \in [1..n -> Units \cup {Null}]
  BY DEF Blank
<1>2. Blank(n) \in Content /\ Len(Blank(n)) = n
  BY <1>1, Memory DEF Content
<1>3. Len(head) \in Nat
  BY LenProperties DEF Content
<1> HIDE DEF Content
<1>4. /\ head \o Blank(n) \in Content /\ Len(head \o Blank(n)) = Len(head) + Len(Blank(n))
      /\ \A i \in 1..Len(head) + Len(Blank(n)) :
           (head \o Blank(n))[i] = IF i <= Len(head) THEN head[i]
                                  ELSE Blank(n)[i - Len(head)]
  <2> HIDE DEF Blank
  <2>1. QED
    BY <1>2, ConcatProperties DEF Content
<1>5. 1 \in 1..Len(head) + Len(Blank(n)) /\ 1 =< Len(head)
  BY <1>2, <1>3
<1>6. QED
  BY <1>2, <1>4, <1>5

\* The unsigned difference is short only when the signed one is: a clock that was set
\* back gives a long gap, as the first packet does.
LEMMA UnsignedGap ==
  ASSUME NEW t \in Times, FloodkickLastTime \in Times \cup {0}
  PROVE  Apart(t) < FloodTimeInterval <=>
           FloodkickLastTime # 0 /\ t - FloodkickLastTime \in 0..FloodTimeInterval - 1
<1> DEFINE last == FloodkickLastTime
<1>1. /\ t \in Nat /\ last \in Nat /\ FloodTimeInterval \in Nat /\ FloodTimeInterval > 0
      /\ FloodTimeInterval =< t /\ t + FloodTimeInterval < ClockRange
      /\ last # 0 => FloodTimeInterval =< last /\ last + FloodTimeInterval < ClockRange
  BY RecvAssumption
<1>2. ClockRange \in Nat
  BY RecvAssumption
<1>3. CASE t >= last
  BY <1>1, <1>2, <1>3 DEF Apart
<1>4. CASE t < last
  BY <1>1, <1>2, <1>4 DEF Apart
<1>5. QED
  BY <1>1, <1>3, <1>4

-----------------------------------------------------------------------------
(* A packet is complete.                                                   *)

LEMMA Shaped ==
  TypeOK => /\ Null \notin Units /\ Null \notin Content
            /\ LenPkgHeader \in Nat \ {0} /\ MaxPkgLen \in Nat \ {0}
            /\ FloodKickCount \in Nat \ {0} /\ LenPkgHeader =< MaxPkgLen
            /\ precvbuf.at \in Nat /\ irecvlen \in Nat \ {0} /\ irecvlen =< MaxPkgLen
            /\ arrivals \in Seq(Times) /\ Len(arrivals) \in Nat
            /\ Len(m_MsgRecvQueue) \in Nat
  BY RecvAssumption, LenProperties DEF TypeOK

\* TestFlood counts the gap that has just ended.
LEMMA CountedOn ==
  ASSUME TypeOK, Counted, fd = "open", NEW t \in Times, m_floodAkEnable,
         arrivals' = Append(arrivals, t), FloodkickLastTime' = t,
         FloodAttackCount' = CountAt(t), flooded' = TestFlood(t),
         TestFlood(t) => fd' # "open", UNCHANGED m_floodAkEnable
  PROVE  Counted' /\ FloodAttackCount' \in Nat
<1> DEFINE n == Len(arrivals)
           k == FloodAttackCount
<1>1. /\ n \in Nat /\ arrivals \in Seq(Times) /\ Len(arrivals') = n + 1
      /\ arrivals' # <<>> /\ arrivals'[n + 1] = t
      /\ \A i \in 1..n : arrivals'[i] = arrivals[i]
  BY AppendProperties, LenProperties DEF TypeOK
<1>2. k \in Nat /\ FloodKickCount \in Nat \ {0}
  BY RecvAssumption DEF TypeOK
<1>3. \A i \in 2..n : ShortGap(arrivals', i) <=> ShortGap(arrivals, i)
  BY <1>1 DEF ShortGap
<1>4. k' = IF Apart(t) < FloodTimeInterval THEN k + 1 ELSE 0
  BY DEF CountAt
<1>5. /\ flooded' <=> k' >= FloodKickCount
      /\ flooded' => fd' # "open"
      /\ k' \in Nat
  <2>1. k' \in Nat
    BY <1>2, <1>4
  <2>2. TestFlood(t) <=> k' >= FloodKickCount
    BY DEF TestFlood
  <2>3. flooded' <=> TestFlood(t)
    OBVIOUS
  <2>4. QED
    BY <2>1, <2>2, <2>3
<1>6. n > 0 => FloodkickLastTime = arrivals[n] /\ k < n
  BY <1>1, EmptySeq DEF Counted
<1>7. n = 0 => FloodkickLastTime = 0 /\ k = 0
  BY <1>1, EmptySeq DEF Counted
<1>8. Apart(t) < FloodTimeInterval <=> n > 0 /\ ShortGap(arrivals', n + 1)
  <2>1. CASE n = 0
    BY <1>7, <2>1, UnsignedGap
  <2>2. CASE n > 0
    <3>1. arrivals[n] \in Times /\ arrivals'[n + 1 - 1] = arrivals[n]
      BY <1>1, <2>2, ElementOfSeq
    <3>2. FloodkickLastTime \in Times /\ FloodkickLastTime # 0
      BY <1>6, <2>2, <3>1, RecvAssumption
    <3>3. QED
      BY <1>1, <1>6, <2>2, <3>1, <3>2, UnsignedGap DEF ShortGap
  <2>3. QED
    BY <1>1, <2>1, <2>2
<1>9. k' < n + 1
  BY <1>1, <1>2, <1>4, <1>6, <1>8
<1>10. /\ \A i \in n - k + 1..n : ShortGap(arrivals, i)
       /\ k + 1 < n => ~ShortGap(arrivals, n - k)
  BY DEF Counted
<1>11. ASSUME NEW i \in n + 1 - k' + 1..n + 1 PROVE ShortGap(arrivals', i)
  <2>1. k' = k + 1 /\ n > 0 /\ ShortGap(arrivals', n + 1)
    BY <1>1, <1>4, <1>8, <1>11
  <2>2. i = n + 1 \/ (i \in n - k + 1..n /\ i \in 2..n)
    BY <1>1, <1>2, <1>6, <1>11, <2>1
  <2>3. QED
    BY <1>3, <1>10, <2>1, <2>2
<1>12. ASSUME k' + 1 < n + 1 PROVE ~ShortGap(arrivals', n + 1 - k')
  <2>1. CASE k' = k + 1
    <3>1. n - k \in 2..n /\ k + 1 < n /\ n + 1 - k' = n - k
      BY <1>1, <1>2, <1>12, <2>1
    <3>2. QED
      BY <1>3, <1>10, <3>1
  <2>2. CASE k' = 0
    <3>1. n > 0 /\ n + 1 - k' = n + 1
      BY <1>1, <1>12, <2>2
    <3>2. k + 1 # 0
      BY <1>2
    <3>3. QED
      BY <1>4, <1>8, <2>2, <3>1, <3>2
  <2>3. QED
    BY <1>4, <2>1, <2>2
<1>13. FloodkickLastTime' = arrivals'[Len(arrivals')]
  BY <1>1
<1>14. m_floodAkEnable'
  OBVIOUS
<1>15. QED
  BY <1>1, <1>5, <1>9, <1>11, <1>12, <1>13, <1>14 DEF Counted

LEMMA CompleteKeeps ==
  ASSUME Inv, fd = "open", NEW block \in Content, NEW blocks \in Nat,
         blocks = Len(m_MsgRecvQueue) + 1, Complete(block, blocks),
         dataHeadInfo' \in Content, Len(dataHeadInfo') = LenPkgHeader,
         received' \in Seq(Units), UNCHANGED m_floodAkEnable
  PROVE  Inv'
<1>1. PICK isflood \in BOOLEAN : /\ Plast(block, blocks, isflood)
                                 /\ Counted' /\ FloodAttackCount' \in Nat
                                 /\ FloodkickLastTime' \in Times \cup {0}
                                 /\ arrivals' \in Seq(Times) /\ flooded' \in BOOLEAN
  <2>1. CASE ~m_floodAkEnable /\ Plast(block, blocks, FALSE) /\ UNCHANGED floodVars
    BY <2>1 DEF Plast, floodVars, Inv, TypeOK, Counted
  <2>2. ASSUME NEW t \in Times, m_floodAkEnable,
               arrivals' = Append(arrivals, t), FloodkickLastTime' = t,
               FloodAttackCount' = CountAt(t), flooded' = TestFlood(t),
               Plast(block, blocks, TestFlood(t))
        PROVE  /\ Counted' /\ FloodAttackCount' \in Nat
               /\ arrivals' \in Seq(Times) /\ TestFlood(t) \in BOOLEAN
    <3>1. TestFlood(t) => fd' # "open"
      BY <2>2 DEF Plast, Close
    <3>2. TestFlood(t) \in BOOLEAN
      BY DEF TestFlood
    <3>3. arrivals' \in Seq(Times)
      BY <2>2, AppendProperties DEF Inv, TypeOK
    <3>4. QED
      BY <2>2, <3>1, <3>2, <3>3, CountedOn DEF Inv
  <2>3. QED
    BY <2>1, <2>2 DEF Complete
<1>2. /\ m_MsgRecvQueue' \in Seq(Message) /\ iCurrsequence' \in Nat
      /\ fd' \in {"open", "closed"} /\ allocated' \in Nat
      /\ allocated' = Len(m_MsgRecvQueue')
  <2>1. /\ m_MsgRecvQueue \in Seq(Message) /\ iCurrsequence \in Nat
        /\ Len(m_MsgRecvQueue) \in Nat
    BY LenProperties DEF Inv, TypeOK
  <2>2. CASE isflood
    BY <1>1, <2>1, <2>2 DEF Plast, Close, QueueWith, BlocksLeft
  <2>3. CASE ~isflood
    <3> DEFINE m == [iCurrsequence |-> iCurrsequence, pkg |-> block]
    <3>1. m \in Message
      BY <2>1 DEF Message
    <3>2. m_MsgRecvQueue' = Append(m_MsgRecvQueue, m)
      BY <1>1, <2>3 DEF Plast, QueueWith
    <3> HIDE DEF m
    <3>3. m_MsgRecvQueue' \in Seq(Message) /\ Len(m_MsgRecvQueue') = Len(m_MsgRecvQueue) + 1
      BY <2>1, <3>1, <3>2, AppendProperties
    <3>4. QED
      BY <1>1, <2>1, <2>3, <3>3 DEF Plast, BlocksLeft
  <2>4. QED
    BY <2>2, <2>3
<1>3. /\ curStat' = "HD_INIT" /\ precvMemPointer' = Null
      /\ precvbuf' = [mem |-> "dataHeadInfo", at |-> 0] /\ irecvlen' = LenPkgHeader
  BY <1>1 DEF Plast, ResetBuffer
<1>4. LenPkgHeader \in 1..MaxPkgLen
  BY RecvAssumption
<1>5. TypeOK'
  BY <1>1, <1>2, <1>3, <1>4 DEF TypeOK, Inv
<1>6. Position'
  BY <1>2, <1>3, <1>4 DEF Position, Header, Body
<1>7. BlocksAccounted'
  BY <1>2, <1>3 DEF BlocksAccounted
<1>8. QED
  BY <1>1, <1>5, <1>6, <1>7 DEF Inv

-----------------------------------------------------------------------------
(* The receive handler.                                                    *)

\* The part that is awaited has not all come yet.
LEMMA MoreKeeps ==
  ASSUME Inv, fd = "open", NEW n \in Nat, n > 0, n < irecvlen, NEW stat, More(stat, n),
         received' \in Seq(Units), UNCHANGED m_floodAkEnable,
         \/ /\ stat = "HD_RECVING" /\ curStat \in Header /\ UNCHANGED precvMemPointer
            /\ dataHeadInfo' \in Content /\ Len(dataHeadInfo') = LenPkgHeader
            /\ \A i \in 1..precvbuf.at + n : dataHeadInfo'[i] \in Units
         \/ /\ stat = "BD_RECVING" /\ curStat \in Body /\ UNCHANGED dataHeadInfo
            /\ precvMemPointer' \in Content
            /\ Len(precvMemPointer') = Len(precvMemPointer)
            /\ precvMemPointer'[1] = precvMemPointer[1]
  PROVE  Inv'
<1>1. /\ curStat' = stat /\ precvbuf' = [precvbuf EXCEPT !.at = @ + n]
      /\ irecvlen' = irecvlen - n
      /\ UNCHANGED <<allocated, floodVars, fd, iCurrsequence, m_MsgRecvQueue>>
  BY DEF More
<1>2. /\ precvbuf \in [mem : {"dataHeadInfo", "block"}, at : Nat]
      /\ irecvlen \in Nat /\ irecvlen =< MaxPkgLen /\ MaxPkgLen \in Nat
      /\ Null \notin Content
  BY Shaped DEF Inv, TypeOK
<1>3. /\ precvbuf' \in [mem : {"dataHeadInfo", "block"}, at : Nat]
      /\ precvbuf'.mem = precvbuf.mem /\ precvbuf'.at = precvbuf.at + n
      /\ irecvlen' \in 1..MaxPkgLen
      /\ precvbuf'.at + irecvlen' = precvbuf.at + irecvlen
      /\ precvbuf.at \in Nat
  <2>1. precvbuf.at \in Nat /\ precvbuf.at + n \in Nat
    BY <1>2
  <2>2. /\ precvbuf' \in [mem : {"dataHeadInfo", "block"}, at : Nat]
        /\ precvbuf'.mem = precvbuf.mem /\ precvbuf'.at = precvbuf.at + n
    <3>1. precvbuf' = [mem |-> precvbuf.mem, at |-> precvbuf.at + n]
      BY <1>1, <1>2
    <3>2. QED
      BY <1>2, <2>1, <3>1
  <2>3. irecvlen' \in 1..MaxPkgLen /\ precvbuf.at + n + irecvlen' = precvbuf.at + irecvlen
    <3>1. /\ irecvlen - n \in 1..MaxPkgLen
          /\ precvbuf.at + n + (irecvlen - n) = precvbuf.at + irecvlen
      BY <1>2, <2>1
    <3>2. QED
      BY <1>1, <3>1
  <2>4. QED
    BY <2>1, <2>2, <2>3
<1>4. TypeOK'
  BY <1>1, <1>3 DEF Inv, TypeOK, floodVars, Header, Body
<1>5. Counted'
  BY <1>1 DEF Inv, Counted, floodVars
<1>6. Position' /\ BlocksAccounted'
  <2>1. CASE stat = "HD_RECVING"
    BY <1>1, <1>3, <2>1 DEF Inv, Position, BlocksAccounted, Header, Body
  <2>2. CASE stat = "BD_RECVING"
    <3>1. /\ curStat \in Body /\ precvMemPointer' \in Content
          /\ Len(precvMemPointer') = Len(precvMemPointer)
          /\ precvMemPointer'[1] = precvMemPointer[1]
      BY <2>2
    <3>2. precvMemPointer # Null /\ precvMemPointer' # Null /\ LenPkgHeader \in Nat
      BY <1>2, <3>1, Shaped DEF Inv, Position
    <3>3. BlocksAccounted'
      BY <1>1, <3>2 DEF Inv, BlocksAccounted
    <3>4. /\ precvbuf.mem = "block" /\ precvbuf.at >= LenPkgHeader
          /\ precvbuf.at + irecvlen = Len(precvMemPointer)
          /\ precvMemPointer[1] = Len(precvMemPointer)
      BY <3>1 DEF Inv, Position
    <3>5. Position'
      BY <1>1, <1>3, <2>2, <3>1, <3>2, <3>4 DEF Position, Header, Body
    <3>6. QED
      BY <3>3, <3>5
  <2>3. QED
    BY <2>1, <2>2
<1>7. QED
  BY <1>4, <1>5, <1>6 DEF Inv

LEMMA HeaderKeeps ==
  ASSUME Inv, fd = "open", NEW n \in 1..irecvlen, NEW data \in [1..n -> Units],
         ReadHeader(data), received' \in Seq(Units), UNCHANGED m_floodAkEnable
  PROVE  Inv'
<1>1. /\ Null \notin Units /\ Null \notin Content /\ Units \subseteq Nat
      /\ LenPkgHeader \in Nat \ {0} /\ MaxPkgLen \in Nat \ {0} /\ LenPkgHeader =< MaxPkgLen
      /\ precvbuf.at \in Nat /\ irecvlen \in Nat \ {0} /\ n \in Nat /\ Len(data) = n
      /\ dataHeadInfo \in Content /\ Len(dataHeadInfo) = LenPkgHeader
      /\ Len(m_MsgRecvQueue) \in Nat
  BY RecvAssumption, Shaped, Memory DEF Inv, TypeOK
<1>2. /\ curStat \in Header /\ dataHeadInfo' = Store(dataHeadInfo, data)
      /\ precvbuf.at + irecvlen = LenPkgHeader /\ precvMemPointer = Null
      /\ \A i \in 1..precvbuf.at : dataHeadInfo[i] \in Units
      /\ curStat = "HD_INIT" => precvbuf.at = 0
  BY DEF ReadHeader, Inv, Position, Header
<1>3. /\ dataHeadInfo' \in Content /\ Len(dataHeadInfo') = LenPkgHeader
      /\ \A i \in 1..LenPkgHeader :
           /\ i =< precvbuf.at => dataHeadInfo'[i] = dataHeadInfo[i]
           /\ i > precvbuf.at /\ i =< precvbuf.at + n => dataHeadInfo'[i] \in Units
  <2>1. /\ Store(dataHeadInfo, data) \in Content
        /\ Len(Store(dataHeadInfo, data)) = Len(dataHeadInfo)
        /\ \A i \in 1..Len(dataHeadInfo) :
             /\ i =< precvbuf.at => Store(dataHeadInfo, data)[i] = dataHeadInfo[i]
             /\ i > precvbuf.at /\ i =< precvbuf.at + n =>
                  Store(dataHeadInfo, data)[i] \in Units
    BY <1>1, Stored
  <2>2. QED
    BY <1>1, <1>2, <2>1
<1>4. \A i \in 1..precvbuf.at + n : dataHeadInfo'[i] \in Units
  <2>1. TAKE i \in 1..precvbuf.at + n
  <2>2. i \in 1..LenPkgHeader
    BY <1>1, <1>2
  <2>3. CASE i =< precvbuf.at
    BY <1>1, <1>2, <1>3, <2>2, <2>3
  <2>4. CASE i > precvbuf.at
    BY <1>1, <1>3, <2>2, <2>4
  <2>5. QED
    BY <1>1, <2>3, <2>4
<1>5. HeaderComplete(n) <=> n = irecvlen
  BY <1>1, <1>2 DEF HeaderComplete, Header
<1>6. CASE n < irecvlen
  <2>1. More("HD_RECVING", n) /\ UNCHANGED precvMemPointer
    BY <1>1, <1>5, <1>6 DEF ReadHeader
  <2>2. QED
    BY <1>1, <1>2, <1>3, <1>4, <1>6, <2>1, MoreKeeps
<1>7. CASE n = irecvlen
  <2> DEFINE head == dataHeadInfo'
             pkgLen == head[1]
             block == head \o Blank(pkgLen - LenPkgHeader)
  <2>1. ProcP1(head)
    BY <1>1, <1>5, <1>7 DEF ReadHeader
  <2>2. \A i \in 1..LenPkgHeader : head[i] \in Units
    BY <1>1, <1>2, <1>4, <1>7
  <2>3. pkgLen \in Nat
    <3>1. 1 \in 1..LenPkgHeader
      BY <1>1
    <3>2. QED
      BY <1>1, <2>2, <3>1
  <2>4. CASE Refused(pkgLen)
    <3>1. /\ ResetBuffer
          /\ UNCHANGED <<precvMemPointer, allocated, floodVars, fd, iCurrsequence,
                         m_MsgRecvQueue>>
      BY <1>1, <2>1, <2>3, <2>4 DEF ProcP1, Refused
    <3>2. LenPkgHeader \in 1..MaxPkgLen
      BY <1>1
    <3>3. TypeOK'
      BY <1>3, <3>1, <3>2 DEF ResetBuffer, Inv, TypeOK, floodVars
    <3>4. Position' /\ BlocksAccounted'
      BY <1>1, <1>2, <3>1 DEF ResetBuffer, Inv, Position, BlocksAccounted, Header, Body
    <3>5. Counted'
      BY <3>1 DEF Inv, Counted, floodVars
    <3>6. QED
      BY <3>3, <3>4, <3>5 DEF Inv
  <2>5. CASE ~Refused(pkgLen)
    <3>1. pkgLen >= LenPkgHeader /\ pkgLen =< MaxPkgLen
      BY <1>1, <2>3, <2>5 DEF Refused
    <3> DEFINE rest == pkgLen - LenPkgHeader
    <3>2. rest \in Nat /\ LenPkgHeader + rest = pkgLen
      BY <1>1, <2>3, <3>1
    <3>3. block \in Content /\ Len(block) = pkgLen /\ block[1] = pkgLen
      <4>0. head \in Content /\ Len(head) = LenPkgHeader /\ Len(head) > 0
        BY <1>1, <1>3
      <4> HIDE DEF rest, head
      <4>1. /\ head \o Blank(rest) \in Content /\ Len(head \o Blank(rest)) = Len(head) + rest
            /\ (head \o Blank(rest))[1] = head[1]
        BY <3>2, <4>0, NewBlock
      <4>2. QED
        BY <3>2, <4>0, <4>1 DEF rest
    <3>4. allocated = Len(m_MsgRecvQueue) /\ allocated + 1 \in Nat
      BY <1>1, <1>2 DEF Inv, BlocksAccounted
    <3> HIDE DEF block, rest
    <3>5. CASE Complete(block, allocated + 1)
      BY <1>3, <3>3, <3>4, <3>5, CompleteKeeps
    <3>6. CASE /\ pkgLen > LenPkgHeader
               /\ precvMemPointer' = block
               /\ allocated' = allocated + 1
               /\ curStat' = "BD_INIT"
               /\ precvbuf' = [mem |-> "block", at |-> LenPkgHeader]
               /\ irecvlen' = pkgLen - LenPkgHeader
               /\ UNCHANGED <<floodVars, fd, iCurrsequence, m_MsgRecvQueue>>
      <4>1. irecvlen' \in 1..MaxPkgLen /\ LenPkgHeader + irecvlen' = pkgLen
        BY <1>1, <2>3, <3>1, <3>6
      <4>2. TypeOK'
        BY <1>1, <1>3, <3>3, <3>4, <3>6, <4>1 DEF Inv, TypeOK, floodVars
      <4>3. precvMemPointer' # Null
        BY <1>1, <3>3, <3>6
      <4>4. Position'
        BY <1>1, <3>3, <3>6, <4>1, <4>3 DEF Position, Header, Body
      <4>5. BlocksAccounted'
        BY <1>1, <3>4, <3>6, <4>3 DEF BlocksAccounted
      <4>6. Counted'
        BY <3>6 DEF Inv, Counted, floodVars
      <4>7. QED
        BY <4>2, <4>4, <4>5, <4>6 DEF Inv
    <3>7. QED
      BY <2>1, <2>5, <3>5, <3>6 DEF ProcP1, block
  <2>6. QED
    BY <2>4, <2>5
<1>8. QED
  BY <1>1, <1>6, <1>7

LEMMA BodyKeeps ==
  ASSUME Inv, fd = "open", NEW n \in 1..irecvlen, NEW data \in [1..n -> Units],
         ReadBody(data), received' \in Seq(Units), UNCHANGED m_floodAkEnable
  PROVE  Inv'
<1> DEFINE block == Store(precvMemPointer, data)
<1>1. /\ Null \notin Content /\ LenPkgHeader \in Nat \ {0}
      /\ precvbuf.at \in Nat /\ irecvlen \in Nat \ {0} /\ n \in Nat /\ Len(data) = n
      /\ dataHeadInfo \in Content /\ Len(dataHeadInfo) = LenPkgHeader
      /\ Len(m_MsgRecvQueue) \in Nat
  BY Shaped, Memory DEF Inv, TypeOK
<1>2. /\ curStat \in Body /\ UNCHANGED dataHeadInfo
      /\ precvMemPointer # Null /\ precvMemPointer \in Content
      /\ precvbuf.at >= LenPkgHeader
      /\ precvbuf.at + irecvlen = Len(precvMemPointer)
  BY DEF ReadBody, Inv, TypeOK, Position, Body
<1>3. block \in Content /\ Len(block) = Len(precvMemPointer)
      /\ block[1] = precvMemPointer[1]
  <2>1. 1 \in 1..Len(precvMemPointer) /\ 1 =< precvbuf.at
    BY <1>1, <1>2
  <2>2. QED
    BY <1>1, <1>2, <2>1, Stored
<1>4. \/ n = irecvlen /\ Complete(block, allocated)
      \/ n < irecvlen /\ More("BD_RECVING", n) /\ precvMemPointer' = block
  BY <1>1 DEF ReadBody
<1>5. allocated = Len(m_MsgRecvQueue) + 1 /\ allocated \in Nat
  BY <1>1, <1>2 DEF Inv, BlocksAccounted
<1> HIDE DEF block
<1>6. CASE Complete(block, allocated)
  BY <1>1, <1>2, <1>3, <1>5, <1>6, CompleteKeeps
<1>7. CASE n < irecvlen /\ More("BD_RECVING", n) /\ precvMemPointer' = block
  BY <1>1, <1>2, <1>3, <1>7, MoreKeeps
<1>8. QED
  BY <1>4, <1>6, <1>7

-----------------------------------------------------------------------------
(* The other steps, and the theorems.                                      *)

LEMMA InitInv == Init => Inv
<1>1. SUFFICES ASSUME Init PROVE Inv
  OBVIOUS
<1>2. /\ LenPkgHeader \in 1..MaxPkgLen /\ LenPkgHeader \in Nat /\ FloodKickCount > 0
      /\ FloodKickCount \in Nat
  BY RecvAssumption
<1>3. Blank(LenPkgHeader) \in [1..LenPkgHeader -> Units \cup {Null}]
  BY DEF Blank
<1>4. Blank(LenPkgHeader) \in Content /\ Len(Blank(LenPkgHeader)) = LenPkgHeader
  BY <1>2, <1>3, Memory DEF Content
<1>5. TypeOK
  <2>1. <<>> \in Seq(Message) /\ <<>> \in Seq(Units) /\ <<>> \in Seq(Times)
    BY EmptySeq
  <2>2. [mem |-> "dataHeadInfo", at |-> 0] \in [mem : {"dataHeadInfo", "block"}, at : Nat]
    OBVIOUS
  <2> HIDE DEF Content
  <2>3. QED
    BY <1>1, <1>2, <1>4, <2>1, <2>2 DEF Init, TypeOK
<1>6. Position /\ BlocksAccounted /\ Counted
  BY <1>1, <1>2 DEF Init, Position, BlocksAccounted, Counted, Header, Body
<1>7. QED
  BY <1>5, <1>6 DEF Inv

LEMMA StepInv == Inv /\ [Next]_vars => Inv'
<1>1. SUFFICES ASSUME Inv, [Next]_vars PROVE Inv'
  OBVIOUS
<1>2. UNCHANGED m_floodAkEnable
  BY <1>1 DEF Next, vars
<1>3. /\ Null \notin Content /\ LenPkgHeader \in 1..MaxPkgLen /\ LenPkgHeader \in Nat
      /\ FloodKickCount > 0 /\ FloodKickCount \in Nat
      /\ allocated \in Nat /\ iCurrsequence \in Nat /\ Len(m_MsgRecvQueue) \in Nat
      /\ iCurrsequence + 1 \in Nat
      /\ allocated = Len(m_MsgRecvQueue) + (IF precvMemPointer = Null THEN 0 ELSE 1)
  BY <1>1, RecvAssumption, Shaped DEF Inv, TypeOK, BlocksAccounted
<1>4. CASE GetOneToUse
  <2>1. /\ fd = "free" /\ fd' = "open" /\ iCurrsequence' = iCurrsequence + 1
        /\ curStat' = "HD_INIT" /\ irecvlen' = LenPkgHeader
        /\ precvbuf' = [mem |-> "dataHeadInfo", at |-> 0]
        /\ precvMemPointer' = Null /\ FloodkickLastTime' = 0 /\ FloodAttackCount' = 0
        /\ received' = <<>> /\ arrivals' = <<>> /\ flooded' = FALSE
        /\ UNCHANGED <<dataHeadInfo, allocated, m_MsgRecvQueue>>
    BY <1>4 DEF GetOneToUse, ResetBuffer
  <2>2. precvMemPointer = Null
    BY <1>1, <2>1 DEF Inv, Position
  <2>3. TypeOK'
    <3>1. <<>> \in Seq(Units) /\ <<>> \in Seq(Times)
      BY EmptySeq
    <3>2. precvbuf' \in [mem : {"dataHeadInfo", "block"}, at : Nat]
      BY <2>1
    <3>3. QED
      BY <1>1, <1>2, <1>3, <2>1, <3>1, <3>2 DEF Inv, TypeOK
  <2>4. Position' /\ BlocksAccounted' /\ Counted'
    BY <1>3, <2>1, <2>2 DEF Position, BlocksAccounted, Counted, Header, Body
  <2>5. QED
    BY <2>3, <2>4 DEF Inv
<1>5. CASE TakenByPool
  <2>1. /\ fd = "closed" /\ m_MsgRecvQueue' = <<>>
        /\ allocated' = allocated - Len(m_MsgRecvQueue)
        /\ UNCHANGED <<bufVars, dataHeadInfo, precvMemPointer, floodVars, iCurrsequence, fd,
                       received>>
    BY <1>5 DEF TakenByPool
  <2>2. allocated' = Len(m_MsgRecvQueue') + (IF precvMemPointer' = Null THEN 0 ELSE 1)
    BY <1>3, <2>1
  <2>3. allocated' \in Nat
    BY <2>1, <2>2
  <2>4. TypeOK'
    BY <1>1, <1>2, <2>1, <2>3 DEF Inv, TypeOK, bufVars, floodVars
  <2>5. Position' /\ Counted'
    BY <1>1, <1>2, <2>1 DEF Inv, Position, Counted, bufVars, floodVars, Header, Body
  <2>6. QED
    BY <2>2, <2>4, <2>5 DEF Inv, BlocksAccounted
<1>6. CASE PutOneToFree
  <2>1. /\ fd = "closed" /\ m_MsgRecvQueue = <<>> /\ fd' = "free"
        /\ iCurrsequence' = iCurrsequence + 1
        /\ precvMemPointer' = Null
        /\ allocated' = IF precvMemPointer = Null THEN allocated ELSE allocated - 1
        /\ UNCHANGED <<bufVars, dataHeadInfo, floodVars, m_MsgRecvQueue, received>>
    BY <1>6 DEF PutOneToFree, Freed
  <2>2. allocated' = Len(m_MsgRecvQueue') /\ allocated' \in Nat
    BY <1>3, <2>1
  <2>3. TypeOK'
    BY <1>1, <1>2, <1>3, <2>1, <2>2 DEF Inv, TypeOK, bufVars, floodVars
  <2>4. Position' /\ Counted'
    BY <1>1, <1>2, <2>1 DEF Inv, Position, Counted, bufVars, floodVars, Header, Body
  <2>5. BlocksAccounted'
    BY <2>1, <2>2 DEF BlocksAccounted
  <2>6. QED
    BY <2>3, <2>4, <2>5 DEF Inv
<1>7. CASE CloseElsewhere \/ RecvCloses
  <2>1. /\ fd = "open" /\ fd' = "closed" /\ iCurrsequence' = iCurrsequence + 1
        /\ UNCHANGED <<bufVars, memVars, floodVars, m_MsgRecvQueue, received>>
    BY <1>7 DEF CloseElsewhere, RecvCloses, Close
  <2>2. TypeOK'
    BY <1>1, <1>2, <1>3, <2>1 DEF Inv, TypeOK, bufVars, memVars, floodVars
  <2>3. Position' /\ BlocksAccounted' /\ Counted'
    BY <1>1, <1>2, <2>1
       DEF Inv, Position, BlocksAccounted, Counted, bufVars, memVars, floodVars, Header, Body
  <2>4. QED
    BY <2>2, <2>3 DEF Inv
<1>8. CASE ReadRequestHandler
  <2>1. PICK n \in 1..irecvlen : \E data \in [1..n -> Units] :
          received' = received \o data /\ (ReadHeader(data) \/ ReadBody(data))
    BY <1>8 DEF ReadRequestHandler
  <2>2. PICK data \in [1..n -> Units] :
          received' = received \o data /\ (ReadHeader(data) \/ ReadBody(data))
    BY <2>1
  <2>3. n \in Nat /\ fd = "open" /\ received \in Seq(Units)
    BY <1>1, <1>8, Shaped DEF ReadRequestHandler, Inv, TypeOK
  <2>4. received' \in Seq(Units)
    BY <2>2, <2>3, Memory, ConcatProperties
  <2>5. QED
    BY <1>1, <1>2, <2>2, <2>3, <2>4, HeaderKeeps, BodyKeeps
<1>9. CASE UNCHANGED vars
  <2>1. TypeOK'
    BY <1>1, <1>9 DEF Inv, TypeOK, vars, bufVars, memVars, floodVars
  <2>2. Position' /\ BlocksAccounted' /\ Counted'
    BY <1>1, <1>9 DEF Inv, Position, BlocksAccounted, Counted, vars, bufVars, memVars,
                      floodVars, Header, Body
  <2>3. QED
    BY <2>1, <2>2 DEF Inv
<1>10. QED
  BY <1>1, <1>4, <1>5, <1>6, <1>7, <1>8, <1>9 DEF Next, Step

LEMMA Invariance == Spec => []Inv
  BY InitInv, StepInv, PTL DEF Spec

\* The receive state of a connection keeps its types: the length awaited is never
\* zero or beyond a packet, and what is read as a length was sent by the client
\* (ngx_connection_s, ngx_read_request_handler).
THEOREM RecvTyped == Spec => []TypeOK
<1>1. Inv => TypeOK
  BY DEF Inv
<1>2. QED
  BY <1>1, Invariance, PTL

\* However recv cuts the stream, it is given the rest of the header or of the block
\* that was allocated for the packet, never more (precvbuf, irecvlen).
THEOREM NothingBeyondBuffer == Spec => []WithinBuffer
<1>1. Inv => WithinBuffer
  <2>1. SUFFICES ASSUME Inv, fd = "open"
                 PROVE  IF precvbuf.mem = "dataHeadInfo"
                        THEN precvbuf.at + irecvlen = LenPkgHeader
                        ELSE /\ precvMemPointer # Null
                             /\ precvbuf.at + irecvlen = Len(precvMemPointer)
                             /\ precvMemPointer[1] = Len(precvMemPointer)
    BY DEF WithinBuffer
  <2>2. curStat \in Header \/ curStat \in Body
    BY <2>1 DEF Inv, TypeOK, Header, Body
  <2>3. QED
    BY <2>1, <2>2 DEF Inv, Position
<1>2. QED
  BY <1>1, Invariance, PTL

\* No block of a packet is lost or freed twice, whenever the client leaves and
\* whenever the flood detection drops a packet (AllocMemory, FreeMemory).
THEOREM EveryBlockAccounted == Spec => []BlocksAccounted
<1>1. Inv => BlocksAccounted
  BY DEF Inv
<1>2. QED
  BY <1>1, Invariance, PTL

\* A client is thrown out at the packet that ends FloodKickCount short gaps in a row,
\* and at no other, although the gap is an unsigned difference of clock readings that
\* may go back (TestFlood).
THEOREM FloodKickedExactly == Spec => []KickedExactly
<1>1. Inv => KickedExactly
  <2> DEFINE n == Len(arrivals)
             k == FloodAttackCount
  <2>1. SUFFICES ASSUME Inv PROVE flooded <=> m_floodAkEnable /\ Burst
    BY DEF KickedExactly
  <2>2. n \in Nat /\ k \in Nat /\ FloodKickCount \in Nat /\ FloodKickCount > 0
    BY <2>1, Shaped DEF Inv, TypeOK
  <2>3. /\ n = 0 => k = 0
        /\ n > 0 => k < n
        /\ \A i \in n - k + 1..n : ShortGap(arrivals, i)
        /\ k + 1 < n => ~ShortGap(arrivals, n - k)
        /\ flooded <=> k >= FloodKickCount
        /\ ~m_floodAkEnable => n = 0
    <3>1. arrivals = <<>> <=> n = 0
      BY <2>1, EmptySeq DEF Inv, TypeOK
    <3>2. QED
      BY <2>1, <2>2, <3>1 DEF Inv, Counted
  <2>4. Burst <=> n > FloodKickCount
                  /\ \A i \in n - FloodKickCount + 1..n : ShortGap(arrivals, i)
    BY DEF Burst, ShortGap
  <2> HIDE DEF n, k
  <2>5. ASSUME k >= FloodKickCount PROVE m_floodAkEnable /\ Burst
    <3>1. n > 0 /\ n > FloodKickCount
      BY <2>2, <2>3, <2>5
    <3>2. \A i \in n - FloodKickCount + 1..n : i \in n - k + 1..n
      BY <2>2, <2>5
    <3>3. QED
      BY <2>3, <2>4, <3>1, <3>2
  <2>6. ASSUME Burst PROVE k >= FloodKickCount
    <3>1. SUFFICES ASSUME k < FloodKickCount PROVE FALSE
      BY <2>2
    <3>2. k + 1 < n /\ n - k \in n - FloodKickCount + 1..n
      BY <2>2, <2>4, <2>6, <3>1
    <3>3. QED
      BY <2>3, <2>4, <2>6, <3>2
  <2>7. QED
    BY <2>3, <2>5, <2>6
<1>2. QED
  BY <1>1, Invariance, PTL

-----------------------------------------------------------------------------
(* The packets of a stream.                                                *)

\* One unfolding of PacketsFrom, with f for what is cut from the later units.
Following(stream, i) == i + (IF Refused(stream[i]) THEN LenPkgHeader ELSE stream[i])
Cut(stream, f, i) ==
  IF i + LenPkgHeader > Len(stream) + 1 \/ Following(stream, i) > Len(stream) + 1 THEN <<>>
  ELSE (IF Refused(stream[i]) THEN <<>> ELSE <<SubSeq(stream, i, Following(stream, i) - 1)>>)
       \o f[Following(stream, i)]

\* The next packet begins later, and f is looked at nowhere else.
LEMMA CutTyped ==
  ASSUME NEW stream \in Seq(Units), NEW i \in 1..Len(stream) + 1,
         NEW f \in [1..Len(stream) + 1 -> Seq(Content)]
  PROVE  /\ Cut(stream, f, i) \in Seq(Content)
         /\ \A g : (\A j \in i + 1..Len(stream) + 1 : g[j] = f[j]) =>
                     Cut(stream, g, i) = Cut(stream, f, i)
<1> DEFINE after == Len(stream) + 1
           next == Following(stream, i)
           first == IF Refused(stream[i]) THEN <<>> ELSE <<SubSeq(stream, i, next - 1)>>
<1>1. after \in Nat /\ LenPkgHeader \in Nat \ {0} /\ Units \subseteq Nat /\ i \in Nat
  BY RecvAssumption, LenProperties
<1>2. CASE i + LenPkgHeader > after \/ next > after
  BY <1>2, EmptySeq DEF Cut
<1>3. CASE ~(i + LenPkgHeader > after \/ next > after)
  <2>1. stream[i] \in Nat
    <3>1. i \in 1..Len(stream)
      BY <1>1, <1>3
    <3>2. QED
      BY <1>1, <3>1, ElementOfSeq
  <2>2. next \in i + 1..after
    BY <1>1, <1>3, <2>1 DEF Following, Refused
  <2>3. first \in Seq(Content)
    <3>1. \A j \in i..next - 1 : stream[j] \in Units \cup {Null}
      <4>1. \A j \in i..next - 1 : j \in 1..Len(stream)
        BY <1>1, <2>2
      <4>2. QED
        BY <4>1, ElementOfSeq
    <3>2. i \in Int /\ next - 1 \in Int
      BY <1>1, <2>2
    <3>3. SubSeq(stream, i, next - 1) \in Content
      <4> HIDE DEF next
      <4>1. QED
        BY <3>1, <3>2, SubSeqProperties DEF Content
    <3>4. QED
      BY <3>3, EmptySeq
  <2>4. \A g : Cut(stream, g, i) = first \o g[next]
    BY <1>3 DEF Cut
  <2>5. f[next] \in Seq(Content)
    BY <1>1, <2>2
  <2> HIDE DEF first, next
  <2>6. first \o f[next] \in Seq(Content)
    BY <2>3, <2>5, ConcatProperties
  <2>7. QED
    BY <2>2, <2>4, <2>6
<1>4. QED
  BY <1>2, <1>3

\* The recursion of PacketsFrom has a solution, as it goes from the end of the stream
\* to its beginning; so it is one.
LEMMA Unfolded ==
  ASSUME NEW stream \in Seq(Units)
  PROVE  /\ PacketsFrom(stream) \in [1..Len(stream) + 1 -> Seq(Content)]
         /\ \A i \in 1..Len(stream) + 1 :
              PacketsFrom(stream)[i] = Cut(stream, PacketsFrom(stream), i)
<1> DEFINE after == Len(stream) + 1
           Cuts == [1..after -> Seq(Content)]
           solved == {k \in Nat : \E f \in Cuts : \A i \in 1..after :
                                    i > after - k => f[i] = Cut(stream, f, i)}
<1>1. after \in Nat
  BY LenProperties
<1>2. 0 \in solved
  <2>1. [i \in 1..after |-> <<>>] \in Cuts
    BY EmptySeq
  <2>2. \A i \in 1..after : ~(i > after - 0)
    BY <1>1
  <2>3. QED
    BY <2>1, <2>2
<1>3. ASSUME NEW k \in Nat, k \in solved PROVE k + 1 \in solved
  <2>1. PICK f \in Cuts : \A i \in 1..after : i > after - k => f[i] = Cut(stream, f, i)
    BY <1>3
  <2>2. CASE after - k \notin 1..after
    BY <1>1, <2>1, <2>2
  <2>3. CASE after - k \in 1..after
    <3>1. PICK m \in 1..after : m = after - k
      BY <2>3
    <3> DEFINE g == [f EXCEPT ![m] = Cut(stream, f, m)]
    <3>2. Cut(stream, f, m) \in Seq(Content)
      BY <2>1, <3>1, CutTyped
    <3>3. /\ g \in Cuts /\ g[m] = Cut(stream, f, m)
          /\ \A j \in 1..after : j # m => g[j] = f[j]
      BY <2>1, <3>1, <3>2
    <3> HIDE DEF g
    <3>4. ASSUME NEW i \in 1..after, i > after - (k + 1) PROVE g[i] = Cut(stream, g, i)
      <4>1. i >= m /\ \A j \in i + 1..after : j \in 1..after /\ j # m
        BY <1>1, <3>1, <3>4
      <4>2. Cut(stream, g, i) = Cut(stream, f, i)
        BY <2>1, <3>3, <4>1, CutTyped
      <4>3. i # m => i > after - k
        <5>1. i \in Nat /\ m \in Nat /\ i >= m /\ m = after - k
          BY <3>1, <4>1
        <5> HIDE DEF after
        <5>2. QED
          BY <1>1, <5>1
      <4>4. QED
        BY <2>1, <3>3, <4>2, <4>3
    <3>5. QED
      BY <3>3, <3>4
  <2>4. QED
    BY <2>2, <2>3
<1>4. after \in solved
  <2> HIDE DEF solved
  <2>1. Nat \subseteq solved
    BY <1>2, <1>3, Induction
  <2>2. QED
    BY <1>1, <2>1
<1>5. PICK f \in Cuts : \A i \in 1..after : f[i] = Cut(stream, f, i)
  <2>1. \A i \in 1..after : i > after - after
    BY <1>1
  <2>2. QED
    BY <1>4, <2>1
<1>6. f = [i \in 1..after |-> Cut(stream, f, i)]
  BY <1>5
<1>7. PacketsFrom(stream) = CHOOSE g : g = [i \in 1..after |-> Cut(stream, g, i)]
  BY DEF PacketsFrom, Cut, Following
<1>8. PacketsFrom(stream) = [i \in 1..after |-> Cut(stream, PacketsFrom(stream), i)]
  BY <1>6, <1>7
<1> DEFINE from == PacketsFrom(stream)
           equal == {k \in Nat : \A i \in 1..after : i > after - k => from[i] = f[i]}
<1>9. 0 \in equal
  BY <1>1
<1>10. ASSUME NEW k \in Nat, k \in equal PROVE k + 1 \in equal
  <2>1. SUFFICES ASSUME NEW i \in 1..after, i > after - (k + 1) PROVE from[i] = f[i]
    OBVIOUS
  <2>2. \A j \in i + 1..after : j \in 1..after /\ j > after - k
    BY <1>1, <2>1
  <2>3. \A j \in i + 1..after : from[j] = f[j]
    BY <1>10, <2>2
  <2> HIDE DEF from
  <2>4. Cut(stream, from, i) = Cut(stream, f, i)
    BY <2>3, CutTyped
  <2>5. QED
    BY <1>5, <1>8, <2>4 DEF from
<1>11. from = f
  <2>1. after \in equal
    <3> HIDE DEF equal
    <3>1. Nat \subseteq equal
      BY <1>9, <1>10, Induction
    <3>2. QED
      BY <1>1, <3>1
  <2>2. \A i \in 1..after : i > after - after
    BY <1>1
  <2>3. \A i \in 1..after : from[i] = f[i]
    BY <2>1, <2>2
  <2>4. DOMAIN from = 1..after /\ from = [i \in 1..after |-> from[i]]
    BY <1>8
  <2> HIDE DEF from
  <2>5. QED
    BY <2>3, <2>4
<1>12. QED
  BY <1>5, <1>11

\* Nothing is cut from a place from which on no whole packet has come.
LEMMA Incomplete ==
  ASSUME NEW stream \in Seq(Units), NEW i \in 1..Len(stream) + 1,
         \/ i + LenPkgHeader > Len(stream) + 1
         \/ ~Refused(stream[i]) /\ i + stream[i] > Len(stream) + 1
  PROVE  PacketsFrom(stream)[i] = <<>>
<1>1. Following(stream, i) = i + stream[i] \/ i + LenPkgHeader > Len(stream) + 1
  BY DEF Following
<1>2. Cut(stream, PacketsFrom(stream), i) = <<>>
  BY <1>1 DEF Cut
<1>3. QED
  BY <1>2, Unfolded

\* Of a packet of impossible length the header is dropped, whatever comes after it.
LEMMA Dropped ==
  ASSUME NEW stream \in Seq(Units), NEW more \in Seq(Units), NEW i \in 1..Len(stream),
         i + LenPkgHeader = Len(stream) + 1, Refused(stream[i])
  PROVE  PacketsFrom(stream \o more)[i] = PacketsFrom(stream \o more)[Len(stream) + 1]
<1> DEFINE all == stream \o more
           rest == PacketsFrom(all)[Len(stream) + 1]
<1>1. /\ Len(stream) \in Nat /\ Len(more) \in Nat /\ i \in Nat /\ all \in Seq(Units)
      /\ Len(all) = Len(stream) + Len(more) /\ all[i] = stream[i]
  BY LenProperties, ConcatProperties
<1> HIDE DEF all
<1>2. Following(all, i) = Len(stream) + 1 /\ Refused(all[i])
  BY <1>1 DEF Following
<1>3. ~(i + LenPkgHeader > Len(all) + 1 \/ Following(all, i) > Len(all) + 1)
  BY <1>1, <1>2
<1>4. Cut(all, PacketsFrom(all), i) = <<>> \o rest
  BY <1>2, <1>3 DEF Cut
<1>5. i \in 1..Len(all) + 1 /\ Len(stream) + 1 \in 1..Len(all) + 1
  BY <1>1
<1>6. rest \in Seq(Content)
  BY <1>1, <1>5, Unfolded
<1> HIDE DEF rest
<1>7. <<>> \o rest = rest
  BY <1>6, ConcatEmptySeq
<1>8. PacketsFrom(all)[i] = Cut(all, PacketsFrom(all), i)
  BY <1>1, <1>5, Unfolded
<1>9. QED
  BY <1>4, <1>7, <1>8 DEF rest, all

\* A block that holds what has come from a place on, as long as its first unit says,
\* is the packet at that place, whatever comes after it.
LEMMA Completed ==
  ASSUME NEW stream \in Seq(Units), NEW more \in Seq(Units), NEW i \in 1..Len(stream),
         NEW block \in Content, ~Refused(stream[i]), Len(block) = stream[i],
         i + stream[i] = Len(stream) + 1,
         \A j \in 1..Len(block) : block[j] = stream[i - 1 + j]
  PROVE  PacketsFrom(stream \o more)[i]
           = <<block>> \o PacketsFrom(stream \o more)[Len(stream) + 1]
<1> DEFINE all == stream \o more
           n == Len(block)
           last == Len(stream)
           rest == PacketsFrom(all)[last + 1]
<1>1. /\ last \in Nat /\ Len(more) \in Nat /\ i \in Nat /\ n \in Nat
      /\ all \in Seq(Units) /\ Len(all) = last + Len(more)
      /\ \A j \in 1..last : all[j] = stream[j]
  BY LenProperties, ConcatProperties DEF Content
<1>2. all[i] = stream[i] /\ n = stream[i] /\ i + n = last + 1 /\ n >= LenPkgHeader
  <2>1. LenPkgHeader \in Nat
    BY RecvAssumption
  <2>2. stream[i] \in Nat /\ stream[i] >= LenPkgHeader
    BY <1>1, <2>1 DEF Refused
  <2>3. QED
    BY <1>1, <2>2
<1>0. LenPkgHeader \in Nat \ {0}
  BY RecvAssumption
<1> HIDE DEF all, n, last
<1>3. Following(all, i) = last + 1 /\ ~Refused(all[i])
  BY <1>2 DEF Following
<1>4. ~(i + LenPkgHeader > Len(all) + 1 \/ Following(all, i) > Len(all) + 1)
  BY <1>0, <1>1, <1>2, <1>3
<1>5. SubSeq(all, i, last) = block
  <2>1. i \in Int /\ last \in Int /\ last - i + 1 = n
    BY <1>1, <1>2
  <2>2. \A j \in i..last : all[j] \in Units \cup {Null}
    <3>1. \A j \in i..last : j \in 1..Len(all)
      BY <1>1
    <3>2. QED
      BY <1>1, <3>1, ElementOfSeq
  <2>3. /\ SubSeq(all, i, last) \in Content /\ Len(SubSeq(all, i, last)) = n
        /\ \A j \in 1..n : SubSeq(all, i, last)[j] = all[i + j - 1]
    <3>1. i =< last
      BY <1>1, <1>2, RecvAssumption
    <3>2. QED
      BY <2>1, <2>2, <3>1, SubSeqProperties DEF Content
  <2>4. \A j \in 1..n : all[i + j - 1] = block[j]
    <3>1. TAKE j \in 1..n
    <3>2. i + j - 1 \in 1..last /\ i + j - 1 = i - 1 + j
      BY <1>1, <1>2
    <3>3. QED
      BY <1>1, <3>2 DEF n, last
  <2>5. QED
    BY <2>3, <2>4, SeqEqual DEF Content, n
<1>6. Cut(all, PacketsFrom(all), i) = <<block>> \o rest
  <2>1. Following(all, i) - 1 = last
    BY <1>1, <1>3
  <2>2. QED
    BY <1>3, <1>4, <1>5, <2>1 DEF Cut
<1>7. i \in 1..Len(all) + 1
  BY <1>1, <1>2
<1>8. PacketsFrom(all)[i] = Cut(all, PacketsFrom(all), i)
  BY <1>1, <1>7, Unfolded
<1>9. QED
  BY <1>6, <1>8 DEF all, last

\* Adding one packet is adding it to the packets before or to those after.
LEMMA Regrouped ==
  ASSUME NEW S, NEW s \in Seq(S), NEW t \in Seq(S), NEW u \in Seq(S)
  PROVE  s \o (t \o u) = (s \o t) \o u
  BY ConcatAssociative

LEMMA RegroupedOne ==
  ASSUME NEW S, NEW s \in Seq(S), NEW e \in S, NEW b, NEW c \in Seq(S), b = <<e>> \o c
  PROVE  s \o b = (s \o <<e>>) \o c
<1>1. <<e>> \in Seq(S)
  OBVIOUS
<1>2. QED
  BY <1>1, Regrouped

\* All but the last element of a sequence with one more.
LEMMA FrontOfOneMore ==
  ASSUME NEW S, NEW s \in Seq(S), NEW e \in S
  PROVE  Front(s \o <<e>>) = s
<1>1. s \o <<e>> \in Seq(S) /\ Len(s \o <<e>>) = Len(s) + 1 /\ Len(s) \in Nat
      /\ \A i \in 1..Len(s) : (s \o <<e>>)[i] = s[i]
  BY LenProperties, AppendProperties, AppendIsConcat
<1>2. Front(s \o <<e>>) = SubSeq(s \o <<e>>, 1, Len(s))
  BY <1>1 DEF Front
<1>3. /\ SubSeq(s \o <<e>>, 1, Len(s)) \in Seq(S)
      /\ Len(SubSeq(s \o <<e>>, 1, Len(s))) = Len(s)
      /\ \A i \in 1..Len(s) : SubSeq(s \o <<e>>, 1, Len(s))[i] = s[i]
  <2> DEFINE t == s \o <<e>>
             n == Len(s)
  <2>1. \A i \in 1..n : t[i] \in S
    BY <1>1, ElementOfSeq
  <2>2. 1 \in Int /\ n \in Int
    BY <1>1
  <2> HIDE DEF t, n
  <2>3. /\ SubSeq(t, 1, n) \in Seq(S)
        /\ Len(SubSeq(t, 1, n)) = IF 1 =< n THEN n - 1 + 1 ELSE 0
        /\ \A i \in 1..n - 1 + 1 : SubSeq(t, 1, n)[i] = t[1 + i - 1]
    BY <2>1, <2>2, SubSeqProperties
  <2>4. n \in Nat
    BY <1>1 DEF n
  <2>5. Len(SubSeq(t, 1, n)) = n /\ \A i \in 1..n : SubSeq(t, 1, n)[i] = t[i]
    BY <2>3, <2>4
  <2>6. QED
    BY <1>1, <2>3, <2>5 DEF t, n
<1>4. QED
  BY <1>1, <1>2, <1>3, SeqEqual

\* Whatever comes after stream, the packets are those in cut and those from i on.
CutSoFar(stream, cut, i) ==
  \A more \in Seq(Units) :
    PacketsFrom(stream \o more)[1] = cut \o PacketsFrom(stream \o more)[i]

LEMMA DroppedOn ==
  ASSUME NEW stream \in Seq(Units), NEW i \in 1..Len(stream), NEW cut,
         i + LenPkgHeader = Len(stream) + 1, Refused(stream[i]), CutSoFar(stream, cut, i)
  PROVE  CutSoFar(stream, cut, Len(stream) + 1)
  BY Dropped DEF CutSoFar

LEMMA CompletedOn ==
  ASSUME NEW stream \in Seq(Units), NEW cut \in Seq(Content), NEW i \in 1..Len(stream),
         NEW block \in Content, ~Refused(stream[i]), Len(block) = stream[i],
         i + stream[i] = Len(stream) + 1,
         \A j \in 1..Len(block) : block[j] = stream[i - 1 + j],
         CutSoFar(stream, cut, i)
  PROVE  CutSoFar(stream, cut \o <<block>>, Len(stream) + 1)
<1>1. SUFFICES ASSUME NEW more \in Seq(Units)
               PROVE  PacketsFrom(stream \o more)[1]
                        = (cut \o <<block>>) \o PacketsFrom(stream \o more)[Len(stream) + 1]
  BY DEF CutSoFar
<1> DEFINE b == PacketsFrom(stream \o more)[i]
           c == PacketsFrom(stream \o more)[Len(stream) + 1]
<1>2. b = <<block>> \o c
  BY Completed
<1>3. c \in Seq(Content)
  <2>1. /\ stream \o more \in Seq(Units) /\ Len(more) \in Nat /\ Len(stream) \in Nat
        /\ Len(stream \o more) = Len(stream) + Len(more)
    BY ConcatProperties, LenProperties
  <2>2. Len(stream) + 1 \in 1..Len(stream \o more) + 1
    BY <2>1
  <2>3. QED
    BY <2>1, <2>2, Unfolded
<1>4. PacketsFrom(stream \o more)[1] = cut \o b
  BY DEF CutSoFar
<1> HIDE DEF b, c
<1>5. cut \o b = (cut \o <<block>>) \o c
  BY <1>2, <1>3, RegroupedOne, SMTT(60)
<1>6. QED
  BY <1>4, <1>5 DEF c

-----------------------------------------------------------------------------
(* Where the present packet begins, and what has come of it.               *)

Place == Len(received) - precvbuf.at + 1
Part == IF curStat \in Header THEN dataHeadInfo ELSE precvMemPointer

PartReceived ==
  fd = "open" =>
    /\ precvbuf.at =< Len(received)
    /\ \A i \in 1..precvbuf.at : Part[i] = received[Place - 1 + i]
    /\ curStat \in Body => ~Refused(received[Place]) /\ Len(precvMemPointer) = received[Place]

\* Whatever the client is still to send, the messages are its packets before Place.
PacketsSoFar ==
  fd = "open" => CutSoFar(received, Delivered, Place)

Numbered ==
  /\ fd = "free" => m_MsgRecvQueue = <<>>
  /\ \A i \in DOMAIN m_MsgRecvQueue : m_MsgRecvQueue[i].iCurrsequence = Number

AfterClose ==
  fd = "closed" /\ m_MsgRecvQueue # <<>> =>
    Delivered = IF flooded THEN Front(Packets) ELSE Packets

FInv == PartReceived /\ PacketsSoFar /\ Numbered /\ AfterClose

LEMMA DeliveredTyped ==
  ASSUME TypeOK
  PROVE  Delivered \in Seq(Content) /\ Len(Delivered) = Len(m_MsgRecvQueue)
<1>1. /\ Len(m_MsgRecvQueue) \in Nat /\ DOMAIN m_MsgRecvQueue = 1..Len(m_MsgRecvQueue)
      /\ \A i \in 1..Len(m_MsgRecvQueue) : m_MsgRecvQueue[i] \in Message
  BY LenProperties, ElementOfSeq DEF TypeOK
<1>2. Delivered \in [1..Len(m_MsgRecvQueue) -> Content]
  <2>1. \A i \in 1..Len(m_MsgRecvQueue) : m_MsgRecvQueue[i].pkg \in Content
    <3> HIDE DEF Content
    <3>1. QED
      BY <1>1 DEF Message
  <2> HIDE DEF Content
  <2>2. QED
    BY <1>1, <2>1 DEF Delivered
<1> HIDE DEF Content
<1>3. QED
  BY <1>1, <1>2, Memory

LEMMA DeliveredOn ==
  ASSUME TypeOK, NEW block \in Content, NEW num \in Nat,
         m_MsgRecvQueue' = Append(m_MsgRecvQueue, [iCurrsequence |-> num, pkg |-> block])
  PROVE  /\ Delivered' = Delivered \o <<block>>
         /\ \A i \in DOMAIN m_MsgRecvQueue' :
              \/ i \in DOMAIN m_MsgRecvQueue /\ m_MsgRecvQueue'[i] = m_MsgRecvQueue[i]
              \/ m_MsgRecvQueue'[i].iCurrsequence = num
<1> DEFINE m == [iCurrsequence |-> num, pkg |-> block]
           n == Len(m_MsgRecvQueue)
<1>1. m \in Message /\ m.pkg = block /\ m.iCurrsequence = num
  BY DEF Message
<1>2. m_MsgRecvQueue \in Seq(Message) /\ n \in Nat /\ DOMAIN m_MsgRecvQueue = 1..n
  BY LenProperties DEF TypeOK
<1> HIDE DEF m, Content
<1>3. m_MsgRecvQueue' = Append(m_MsgRecvQueue, m)
  BY DEF m
<1>4. /\ m_MsgRecvQueue' \in Seq(Message) /\ Len(m_MsgRecvQueue') = n + 1
      /\ m_MsgRecvQueue'[n + 1] = m
      /\ \A i \in 1..n : m_MsgRecvQueue'[i] = m_MsgRecvQueue[i]
  BY <1>1, <1>2, <1>3, AppendProperties
<1>5. DOMAIN m_MsgRecvQueue' = 1..n + 1
  BY <1>4, LenProperties
<1>6. /\ Delivered \in Seq(Content) /\ Len(Delivered) = n
      /\ Delivered = [i \in 1..n |-> m_MsgRecvQueue[i].pkg]
  BY <1>2, DeliveredTyped DEF Delivered
<1>7. Delivered' = [i \in 1..n + 1 |-> m_MsgRecvQueue'[i].pkg]
  BY <1>5 DEF Delivered
<1>8. Append(Delivered, block) = [i \in 1..n + 1 |-> IF i = n + 1 THEN block ELSE Delivered[i]]
  BY <1>2, <1>6
<1>9. Delivered' = Append(Delivered, block)
  BY <1>1, <1>2, <1>4, <1>6, <1>7, <1>8
<1>10. Append(Delivered, block) = Delivered \o <<block>>
  BY <1>6, AppendIsConcat
<1>11. ASSUME NEW i \in DOMAIN m_MsgRecvQueue'
       PROVE  \/ i \in DOMAIN m_MsgRecvQueue /\ m_MsgRecvQueue'[i] = m_MsgRecvQueue[i]
              \/ m_MsgRecvQueue'[i].iCurrsequence = num
  BY <1>1, <1>2, <1>4, <1>5
<1>12. QED
  BY <1>9, <1>10, <1>11

\* Of the packet that is awaited something is missing.
LEMMA OpenFramed ==
  ASSUME Inv, PartReceived, PacketsSoFar, fd = "open"
  PROVE  Delivered = Packets /\ ~flooded
<1>1. /\ received \in Seq(Units) /\ Len(received) \in Nat /\ precvbuf.at \in Nat
      /\ irecvlen \in Nat \ {0} /\ LenPkgHeader \in Nat \ {0}
  BY Shaped, LenProperties DEF Inv, TypeOK
<1>2. curStat \in Header \/ curStat \in Body
  BY DEF Inv, TypeOK, Header, Body
<1>3. Place \in 1..Len(received) + 1 /\ Place + precvbuf.at = Len(received) + 1
  BY <1>1 DEF PartReceived, Place
<1>4. PacketsFrom(received)[Place] = <<>>
  <2>1. CASE curStat \in Header
    <3>1. precvbuf.at + irecvlen = LenPkgHeader
      BY <2>1 DEF Inv, Position
    <3>2. Place + LenPkgHeader > Len(received) + 1
      BY <1>1, <1>3, <3>1
    <3>3. QED
      BY <1>1, <1>3, <3>2, Incomplete
  <2>2. CASE curStat \in Body
    <3>1. ~Refused(received[Place]) /\ received[Place] = precvbuf.at + irecvlen
      BY <2>2 DEF Inv, Position, PartReceived
    <3>2. Place + received[Place] > Len(received) + 1
      BY <1>1, <1>3, <3>1
    <3>3. QED
      BY <1>1, <1>3, <3>1, <3>2, Incomplete
  <2>3. QED
    BY <1>2, <2>1, <2>2
<1>5. <<>> \in Seq(Units) /\ received \o <<>> = received
  BY <1>1, EmptySeq, ConcatEmptySeq
<1>6. PacketsFrom(received)[1] = Delivered \o <<>>
  BY <1>4, <1>5 DEF PacketsSoFar, CutSoFar
<1>7. Delivered \o <<>> = Delivered
  BY DeliveredTyped, ConcatEmptySeq DEF Inv
<1>8. QED
  BY <1>6, <1>7 DEF Packets, Inv, Counted

\* What recv has stored is what came, at the same place of the stream.
LEMMA Arrived ==
  ASSUME Inv, FInv, fd = "open", NEW n \in 1..irecvlen, NEW data \in [1..n -> Units],
         received' = received \o data
  PROVE  /\ received' \in Seq(Units) /\ Len(received') = Len(received) + n
         /\ Place \in 1..Len(received') /\ Place + precvbuf.at + n = Len(received') + 1
         /\ \A i \in 1..Len(Part) :
              i =< precvbuf.at + n => Store(Part, data)[i] = received'[Place - 1 + i]
         /\ curStat \in Body => received'[Place] = received[Place]
         /\ CutSoFar(received', Delivered, Place)
<1> DEFINE at == precvbuf.at
           len == Len(received)
<1>1. /\ received \in Seq(Units) /\ len \in Nat /\ at \in Nat
      /\ irecvlen \in Nat \ {0} /\ n \in Nat /\ n > 0 /\ LenPkgHeader \in Nat \ {0}
  BY Shaped, LenProperties DEF Inv, TypeOK
<1>2. data \in Seq(Units) /\ Len(data) = n /\ DOMAIN data = 1..n
  BY <1>1, Memory
<1>3. /\ received' \in Seq(Units) /\ Len(received') = len + n
      /\ \A i \in 1..len + n : received'[i] = IF i =< len THEN received[i] ELSE data[i - len]
  BY <1>1, <1>2, ConcatProperties
<1>4. at =< len /\ Place = len - at + 1
  BY DEF FInv, PartReceived, Place
<1>5. Place \in 1..Len(received') /\ Place + at + n = Len(received') + 1
  BY <1>1, <1>3, <1>4
<1>6. ASSUME NEW i \in 1..Len(Part), i =< at + n
      PROVE  Store(Part, data)[i] = received'[Place - 1 + i]
  <2>1. Part \in Content
    BY DEF Part, Inv, TypeOK, Position, Header, Body
  <2>2. Len(Part) \in Nat /\ DOMAIN Part = 1..Len(Part)
    BY <2>1, LenProperties DEF Content
  <2>3. i \in Nat /\ Place - 1 + i \in 1..len + n /\ Place - 1 + i = len - at + i
    BY <1>1, <1>4, <1>6, <2>2
  <2>4. CASE i =< at
    <3>1. i - at \notin 1..n /\ Place - 1 + i =< len /\ i \in 1..at
      BY <1>1, <1>4, <2>3, <2>4
    <3>2. Part[i] = received[Place - 1 + i]
      BY <3>1 DEF FInv, PartReceived
    <3>3. QED
      BY <1>2, <1>3, <2>2, <2>3, <3>1, <3>2 DEF Store
  <2>5. CASE i > at
    <3>1. i - at \in 1..n /\ ~(Place - 1 + i =< len) /\ Place - 1 + i - len = i - at
      <4> HIDE DEF at, len
      <4>1. i - at \in 1..n
        BY <1>1, <1>6, <2>3, <2>5
      <4>2. QED
        BY <1>1, <1>4, <2>3, <2>5, <4>1
    <3>2. Store(Part, data)[i] = data[i - at]
      BY <1>2, <2>2, <3>1 DEF Store
    <3>3. PICK p \in 1..len + n : p = Place - 1 + i /\ ~(p =< len) /\ p - len = i - at
      <4>1. PICK p \in 1..len + n : p = len - at + i
        BY <2>3
      <4>2. p = Place - 1 + i
        BY <2>3, <4>1
      <4>3. ~(p =< len) /\ p - len = i - at
        <5> HIDE DEF at, len
        <5>1. QED
          BY <1>1, <2>3, <2>5, <4>1
      <4>4. QED
        BY <4>2, <4>3
    <3>4. received'[p] = data[p - len]
      BY <1>3, <3>3
    <3>5. QED
      BY <3>2, <3>3, <3>4
  <2>6. QED
    BY <1>1, <2>3, <2>4, <2>5
<1>7. curStat \in Body => received'[Place] = received[Place]
  <2>1. SUFFICES ASSUME curStat \in Body PROVE received'[Place] = received[Place]
    OBVIOUS
  <2>2. at >= LenPkgHeader
    BY <2>1 DEF Inv, Position
  <2>3. Place \in 1..len + n /\ Place =< len
    BY <1>1, <1>4, <2>2
  <2>4. QED
    BY <1>3, <2>3
<1>8. ASSUME NEW more \in Seq(Units)
      PROVE  PacketsFrom(received' \o more)[1]
               = Delivered \o PacketsFrom(received' \o more)[Place]
  <2>1. data \o more \in Seq(Units)
    BY <1>2, ConcatProperties
  <2>2. received' \o more = received \o (data \o more)
    BY <1>1, <1>2, ConcatAssociative
  <2>3. QED
    BY <2>1, <2>2 DEF FInv, PacketsSoFar, CutSoFar
<1>9. QED
  BY <1>3, <1>5, <1>6, <1>7, <1>8 DEF CutSoFar

\* A packet is complete: it becomes the last message, or, ending a flood, the only
\* packet of the client that does not.
LEMMA CompleteFrames ==
  ASSUME Inv, FInv, Inv', fd = "open", NEW block \in Content, NEW blocks \in Nat,
         Complete(block, blocks),
         NEW i \in 1..Len(received'), ~Refused(received'[i]),
         Len(block) = received'[i], i + received'[i] = Len(received') + 1,
         \A j \in 1..Len(block) : block[j] = received'[i - 1 + j],
         CutSoFar(received', Delivered, i)
  PROVE  FInv'
<1>1. PICK isflood \in BOOLEAN : Plast(block, blocks, isflood) /\ flooded' = isflood
  <2>1. CASE ~m_floodAkEnable /\ Plast(block, blocks, FALSE) /\ UNCHANGED floodVars
    <3>1. flooded' = FALSE
      BY <2>1 DEF Inv, TypeOK, Counted, floodVars
    <3>2. QED
      BY <2>1, <3>1
  <2>2. ASSUME NEW t \in Times, flooded' = TestFlood(t), Plast(block, blocks, TestFlood(t))
        PROVE  \E isflood \in BOOLEAN :
                 Plast(block, blocks, isflood) /\ flooded' = isflood
    <3>1. TestFlood(t) \in BOOLEAN
      BY DEF TestFlood
    <3>2. QED
      BY <2>2, <3>1
  <2>3. QED
    BY <2>1, <2>2 DEF Complete
<1>2. /\ received' \in Seq(Units) /\ Len(received') \in Nat
      /\ Delivered \in Seq(Content) /\ <<block>> \in Seq(Content)
      /\ iCurrsequence \in Nat /\ LenPkgHeader \in Nat \ {0}
  BY LenProperties, DeliveredTyped, RecvAssumption DEF Inv, TypeOK
<1>3. /\ curStat' = "HD_INIT" /\ precvbuf'.at = 0 /\ Place' = Len(received') + 1
  BY <1>1, <1>2 DEF Plast, ResetBuffer, Place
<1>4. PartReceived'
  BY <1>2, <1>3 DEF PartReceived, Body
<1>5. CutSoFar(received', Delivered \o <<block>>, Len(received') + 1)
  BY <1>2, CompletedOn
<1>6. CASE ~isflood
  <2>1. /\ m_MsgRecvQueue'
             = Append(m_MsgRecvQueue, [iCurrsequence |-> iCurrsequence, pkg |-> block])
        /\ fd' = "open" /\ iCurrsequence' = iCurrsequence
    BY <1>1, <1>6 DEF Plast, QueueWith
  <2>2. /\ Delivered' = Delivered \o <<block>>
        /\ \A k \in DOMAIN m_MsgRecvQueue' :
             \/ k \in DOMAIN m_MsgRecvQueue /\ m_MsgRecvQueue'[k] = m_MsgRecvQueue[k]
             \/ m_MsgRecvQueue'[k].iCurrsequence = iCurrsequence
    BY <1>2, <2>1, DeliveredOn DEF Inv
  <2>3. PacketsSoFar'
    BY <1>3, <1>5, <2>2 DEF PacketsSoFar
  <2>4. Numbered'
    BY <2>1, <2>2 DEF FInv, Numbered, Number
  <2>5. AfterClose'
    BY <2>1 DEF AfterClose
  <2>6. QED
    BY <1>4, <2>3, <2>4, <2>5 DEF FInv
<1>7. CASE isflood
  <2>1. /\ m_MsgRecvQueue' = m_MsgRecvQueue
        /\ fd' = "closed" /\ iCurrsequence' = iCurrsequence + 1
    BY <1>1, <1>7 DEF Plast, QueueWith, Close
  <2>2. Packets' = Delivered \o <<block>>
    <3>1. <<>> \in Seq(Units) /\ received' \o <<>> = received'
      BY <1>2, EmptySeq, ConcatEmptySeq
    <3>2. PacketsFrom(received')[Len(received') + 1] = <<>>
      <4>1. Len(received') + 1 + LenPkgHeader > Len(received') + 1
        BY <1>2
      <4>2. Len(received') + 1 \in 1..Len(received') + 1
        BY <1>2
      <4>3. QED
        BY <1>2, <3>1, <4>1, <4>2, Incomplete
    <3>3. (Delivered \o <<block>>) \o <<>> = Delivered \o <<block>>
      BY <1>2, ConcatProperties, ConcatEmptySeq
    <3>4. QED
      BY <1>5, <3>1, <3>2, <3>3 DEF Packets, CutSoFar
  <2>3. Delivered' = Delivered
    BY <2>1 DEF Delivered
  <2>4. Front(Delivered \o <<block>>) = Delivered
    BY <1>2, FrontOfOneMore
  <2>5. AfterClose'
    BY <1>1, <1>7, <2>2, <2>3, <2>4 DEF AfterClose
  <2>6. Numbered'
    <3>1. Number' = Number
      BY <1>2, <2>1 DEF Number
    <3>2. QED
      BY <2>1, <3>1 DEF FInv, Numbered
  <2>7. PacketsSoFar'
    BY <2>1 DEF PacketsSoFar
  <2>8. QED
    BY <1>4, <2>5, <2>6, <2>7 DEF FInv
<1>8. QED
  BY <1>6, <1>7

\* Not all of the part that is awaited has come: the packet still begins at Place.
LEMMA MoreFrames ==
  ASSUME Inv, FInv, fd = "open", NEW n \in 1..irecvlen, NEW data \in [1..n -> Units],
         n < irecvlen, received' = received \o data, NEW stat, More(stat, n),
         Part' = Store(Part, data), curStat' \in Body <=> curStat \in Body,
         curStat \in Body => Len(precvMemPointer') = Len(precvMemPointer)
  PROVE  FInv'
<1>1. /\ received' \in Seq(Units) /\ Len(received') = Len(received) + n
      /\ Place \in 1..Len(received') /\ Place + precvbuf.at + n = Len(received') + 1
      /\ \A i \in 1..Len(Part) :
           i =< precvbuf.at + n => Store(Part, data)[i] = received'[Place - 1 + i]
      /\ curStat \in Body => received'[Place] = received[Place]
      /\ CutSoFar(received', Delivered, Place)
  BY Arrived
<1>2. /\ precvbuf \in [mem : {"dataHeadInfo", "block"}, at : Nat]
      /\ precvbuf.at \in Nat /\ n \in Nat /\ Len(received') \in Nat
  BY <1>1, LenProperties DEF Inv, TypeOK
<1>3. /\ precvbuf'.at = precvbuf.at + n
      /\ UNCHANGED <<allocated, floodVars, fd, iCurrsequence, m_MsgRecvQueue>>
  BY <1>2 DEF More
<1>4. Place' = Place /\ precvbuf'.at =< Len(received')
  BY <1>1, <1>2, <1>3 DEF Place
<1>5. precvbuf.at + n < Len(Part) /\ Len(Part) \in Nat
  <2>1. /\ irecvlen \in Nat /\ Len(dataHeadInfo) = LenPkgHeader
        /\ LenPkgHeader \in Nat /\ (curStat \in Header \/ curStat \in Body)
    BY RecvAssumption, Shaped DEF Inv, TypeOK, Header, Body
  <2>2. precvbuf.at + irecvlen = Len(Part)
    BY <2>1 DEF Inv, Position, Part, Header, Body
  <2>3. QED
    BY <1>2, <2>1, <2>2
<1>6. PartReceived'
  <2>1. \A i \in 1..precvbuf'.at : Part'[i] = received'[Place' - 1 + i]
    <3>1. TAKE i \in 1..precvbuf'.at
    <3>2. i \in 1..Len(Part) /\ i =< precvbuf.at + n
      BY <1>2, <1>3, <1>5
    <3>3. QED
      BY <1>1, <1>4, <3>2
  <2>2. curStat' \in Body =>
          ~Refused(received'[Place']) /\ Len(precvMemPointer') = received'[Place']
    BY <1>1, <1>4 DEF FInv, PartReceived
  <2>3. QED
    BY <1>4, <2>1, <2>2 DEF PartReceived
<1>7. PacketsSoFar'
  <2>1. Delivered' = Delivered
    BY <1>3 DEF Delivered
  <2>2. QED
    BY <1>1, <1>4, <2>1 DEF PacketsSoFar
<1>8. Numbered' /\ AfterClose'
  BY <1>3 DEF FInv, Numbered, Number, AfterClose
<1>9. QED
  BY <1>6, <1>7, <1>8 DEF FInv

LEMMA HeaderFrames ==
  ASSUME Inv, FInv, Inv', fd = "open", NEW n \in 1..irecvlen, NEW data \in [1..n -> Units],
         received' = received \o data, ReadHeader(data)
  PROVE  FInv'
<1>1. /\ LenPkgHeader \in Nat \ {0} /\ MaxPkgLen \in Nat /\ Units \subseteq Nat
      /\ LenPkgHeader =< MaxPkgLen
      /\ precvbuf.at \in Nat /\ irecvlen \in Nat \ {0} /\ n \in Nat /\ Len(data) = n
      /\ dataHeadInfo \in Content /\ Len(dataHeadInfo) = LenPkgHeader
      /\ allocated + 1 \in Nat
  BY RecvAssumption, Shaped, Memory DEF Inv, TypeOK
<1>2. /\ curStat \in Header /\ dataHeadInfo' = Store(dataHeadInfo, data)
      /\ precvbuf.at + irecvlen = LenPkgHeader
      /\ curStat = "HD_INIT" => precvbuf.at = 0
      /\ Part = dataHeadInfo /\ curStat \notin Body
  BY DEF ReadHeader, Inv, Position, Header, Body, Part
<1>3. HeaderComplete(n) <=> n = irecvlen
  BY <1>1, <1>2 DEF HeaderComplete, Header
<1>4. CASE n < irecvlen
  <2>1. More("HD_RECVING", n)
    BY <1>1, <1>3, <1>4 DEF ReadHeader
  <2>2. curStat' = "HD_RECVING"
    BY <2>1 DEF More
  <2>3. Part' = Store(Part, data) /\ ~(curStat' \in Body)
    BY <1>2, <2>2 DEF Part, Header, Body
  <2>4. QED
    BY <1>2, <1>4, <2>1, <2>3, MoreFrames
<1>5. CASE n = irecvlen
  <2> DEFINE head == dataHeadInfo'
             pkgLen == head[1]
             block == head \o Blank(pkgLen - LenPkgHeader)
  <2>1. ProcP1(head)
    BY <1>1, <1>3, <1>5 DEF ReadHeader
  <2>2. /\ received' \in Seq(Units) /\ Len(received') \in Nat
        /\ Place \in 1..Len(received') /\ Place + LenPkgHeader = Len(received') + 1
        /\ \A i \in 1..LenPkgHeader : head[i] = received'[Place - 1 + i]
        /\ CutSoFar(received', Delivered, Place)
    <3>1. /\ received' \in Seq(Units)
          /\ Place \in 1..Len(received') /\ Place + precvbuf.at + n = Len(received') + 1
          /\ \A i \in 1..Len(Part) :
               i =< precvbuf.at + n => Store(Part, data)[i] = received'[Place - 1 + i]
          /\ CutSoFar(received', Delivered, Place)
      BY Arrived
    <3>2. precvbuf.at + n = LenPkgHeader /\ Len(received') \in Nat
      BY <1>2, <1>5, <3>1, LenProperties
    <3>3. Place + LenPkgHeader = Len(received') + 1
      <4>1. Place \in Nat /\ precvbuf.at \in Nat /\ n \in Nat
        BY <1>1, <3>1, <3>2
      <4>2. Place + (precvbuf.at + n) = Len(received') + 1
        BY <3>1, <4>1
      <4>3. QED
        BY <3>2, <4>2
    <3>4. \A i \in 1..LenPkgHeader : head[i] = received'[Place - 1 + i]
      <4>1. Len(Part) = LenPkgHeader /\ head = Store(Part, data)
        BY <1>1, <1>2
      <4>2. \A i \in 1..LenPkgHeader : i =< precvbuf.at + n
        BY <1>1, <3>2
      <4> HIDE DEF head
      <4>3. QED
        BY <3>1, <4>1, <4>2
    <3>5. QED
      BY <3>1, <3>2, <3>3, <3>4
  <2>3. pkgLen = received'[Place] /\ pkgLen \in Nat
    <3>1. 1 \in 1..LenPkgHeader /\ Place - 1 + 1 = Place
      BY <1>1, <2>2
    <3>2. pkgLen = received'[Place]
      BY <2>2, <3>1
    <3>3. received'[Place] \in Nat
      BY <1>1, <2>2, ElementOfSeq
    <3>4. QED
      BY <3>2, <3>3
  <2>4. CASE Refused(pkgLen)
    <3>1. ResetBuffer /\ UNCHANGED <<flooded, fd, iCurrsequence, m_MsgRecvQueue>>
      <4>1. ~(~Refused(pkgLen)) /\ pkgLen # LenPkgHeader
        BY <1>1, <2>4 DEF Refused
      <4>2. ResetBuffer /\ UNCHANGED <<floodVars, fd, iCurrsequence, m_MsgRecvQueue>>
        BY <2>1, <4>1 DEF ProcP1
      <4>3. QED
        BY <4>2 DEF floodVars
    <3>2. /\ curStat' \notin Body /\ precvbuf'.at = 0
          /\ Place' = Len(received') + 1 /\ Delivered' = Delivered /\ Number' = Number
      BY <2>2, <3>1 DEF ResetBuffer, Place, Delivered, Number, Body
    <3>3. CutSoFar(received', Delivered, Len(received') + 1)
      BY <2>2, <2>3, <2>4, DroppedOn
    <3>4. PartReceived' /\ PacketsSoFar'
      BY <2>2, <3>2, <3>3 DEF PartReceived, PacketsSoFar
    <3>5. Numbered' /\ AfterClose'
      BY <3>1, <3>2 DEF FInv, Numbered, AfterClose
    <3>6. QED
      BY <3>4, <3>5 DEF FInv
  <2>5. CASE ~Refused(pkgLen)
    <3> DEFINE rest == pkgLen - LenPkgHeader
    <3>1. PICK len \in Nat : len = pkgLen
      BY <2>3
    <3>2. rest \in Nat /\ LenPkgHeader + rest = pkgLen
      <4>1. ~Refused(len)
        BY <2>5, <3>1
      <4>2. len >= LenPkgHeader
        BY <1>1, <4>1 DEF Refused
      <4>3. len - LenPkgHeader \in Nat /\ LenPkgHeader + (len - LenPkgHeader) = len
        BY <1>1, <4>2
      <4>4. QED
        BY <3>1, <4>3
    <3>3. /\ block \in Content /\ Len(block) = pkgLen
          /\ \A i \in 1..LenPkgHeader : block[i] = received'[Place - 1 + i]
      <4>1. /\ head \in Content /\ Len(head) = LenPkgHeader
        BY <1>1 DEF Inv, TypeOK
      <4>2. Blank(rest) \in Content /\ Len(Blank(rest)) = rest
        <5>1. Blank(rest) \in [1..rest -> Units \cup {Null}]
          BY DEF Blank
        <5> HIDE DEF rest
        <5>2. QED
          BY <3>2, <5>1, Memory DEF Content
      <4> HIDE DEF rest, head
      <4>3. /\ head \o Blank(rest) \in Content
            /\ Len(head \o Blank(rest)) = LenPkgHeader + rest
            /\ \A i \in 1..LenPkgHeader + rest :
                 (head \o Blank(rest))[i] = IF i <= LenPkgHeader THEN head[i]
                                            ELSE Blank(rest)[i - LenPkgHeader]
        <5> DEFINE room == Blank(rest)
        <5>1. room \in Content /\ Len(room) = rest
          BY <4>2
        <5> HIDE DEF room
        <5>2. /\ head \o room \in Content /\ Len(head \o room) = Len(head) + Len(room)
              /\ \A i \in 1..Len(head) + Len(room) :
                   (head \o room)[i] = IF i <= Len(head) THEN head[i] ELSE room[i - Len(head)]
          BY <4>1, <5>1, ConcatProperties DEF Content
        <5>3. QED
          BY <4>1, <5>1, <5>2 DEF room
      <4>4. \A i \in 1..LenPkgHeader : (head \o Blank(rest))[i] = received'[Place - 1 + i]
        <5>1. \A i \in 1..LenPkgHeader : i \in 1..LenPkgHeader + rest /\ i =< LenPkgHeader
          BY <1>1, <3>2
        <5>2. QED
          BY <2>2, <4>3, <5>1 DEF head
      <4>5. QED
        BY <3>2, <4>3, <4>4 DEF rest
    <3> HIDE DEF block, rest
    <3>4. CASE pkgLen = LenPkgHeader /\ Complete(block, allocated + 1)
      <4>1. /\ ~Refused(received'[Place]) /\ Len(block) = received'[Place]
            /\ Place + received'[Place] = Len(received') + 1
            /\ \A i \in 1..Len(block) : block[i] = received'[Place - 1 + i]
        BY <2>2, <2>3, <2>5, <3>3, <3>4
      <4>2. QED
        BY <1>1, <2>2, <3>3, <3>4, <4>1, CompleteFrames
    <3>5. CASE /\ pkgLen > LenPkgHeader
               /\ precvMemPointer' = block
               /\ curStat' = "BD_INIT"
               /\ precvbuf' = [mem |-> "block", at |-> LenPkgHeader]
               /\ UNCHANGED <<floodVars, fd, iCurrsequence, m_MsgRecvQueue>>
      <4>1. precvbuf'.at = LenPkgHeader /\ Place' = Place /\ Part' = block
        BY <1>1, <2>2, <3>5 DEF Place, Part, Header
      <4>2. LenPkgHeader =< Len(received') /\ Delivered' = Delivered /\ Number' = Number
        BY <1>1, <2>2, <3>5 DEF Delivered, Number
      <4>3. PartReceived'
        BY <2>2, <2>3, <2>5, <3>3, <3>5, <4>1, <4>2 DEF PartReceived
      <4>4. PacketsSoFar'
        BY <2>2, <4>1, <4>2 DEF PacketsSoFar
      <4>5. Numbered' /\ AfterClose'
        BY <3>5, <4>2 DEF FInv, Numbered, AfterClose
      <4>6. QED
        BY <4>3, <4>4, <4>5 DEF FInv
    <3>6. QED
      BY <2>1, <2>5, <3>4, <3>5 DEF ProcP1, block
  <2>6. QED
    BY <2>4, <2>5
<1>6. QED
  BY <1>1, <1>4, <1>5

LEMMA BodyFrames ==
  ASSUME Inv, FInv, Inv', fd = "open", NEW n \in 1..irecvlen, NEW data \in [1..n -> Units],
         received' = received \o data, ReadBody(data)
  PROVE  FInv'
<1> DEFINE block == Store(precvMemPointer, data)
<1>1. /\ precvbuf.at \in Nat /\ irecvlen \in Nat \ {0} /\ n \in Nat /\ Len(data) = n
      /\ allocated \in Nat
  BY Shaped, Memory DEF Inv, TypeOK
<1>2. /\ curStat \in Body /\ curStat \notin Header /\ UNCHANGED dataHeadInfo
      /\ precvMemPointer \in Content /\ Part = precvMemPointer
      /\ precvbuf.at + irecvlen = Len(precvMemPointer)
  BY DEF ReadBody, Inv, TypeOK, Position, Part, Header, Body
<1>3. block \in Content /\ Len(block) = Len(precvMemPointer)
  BY <1>1, <1>2, Stored
<1>4. /\ received' \in Seq(Units) /\ Len(received') = Len(received) + n
      /\ Place \in 1..Len(received') /\ Place + precvbuf.at + n = Len(received') + 1
      /\ \A i \in 1..Len(Part) :
           i =< precvbuf.at + n => Store(Part, data)[i] = received'[Place - 1 + i]
      /\ received'[Place] = received[Place]
      /\ CutSoFar(received', Delivered, Place)
  BY <1>2, Arrived
<1>5. \/ n = irecvlen /\ Complete(block, allocated)
      \/ n < irecvlen /\ More("BD_RECVING", n) /\ precvMemPointer' = block
  BY <1>1 DEF ReadBody
<1>6. ~Refused(received'[Place]) /\ Len(precvMemPointer) = received'[Place]
  BY <1>2, <1>4 DEF FInv, PartReceived
<1>7. CASE n = irecvlen /\ Complete(block, allocated)
  <2>1. precvbuf.at + n = Len(block) /\ Len(block) = received'[Place] /\ Len(block) \in Nat
    <3>1. precvbuf.at + n = Len(block) /\ Len(block) = received'[Place]
      BY <1>2, <1>3, <1>6, <1>7
    <3>2. precvbuf.at + n \in Nat
      BY <1>1
    <3>3. QED
      BY <3>1, <3>2
  <2>2. Place + received'[Place] = Len(received') + 1
    BY <1>1, <1>4, <2>1
  <2>3. \A j \in 1..Len(block) : block[j] = received'[Place - 1 + j]
    <3>1. Len(block) = Len(Part) /\ block = Store(Part, data)
      BY <1>2, <1>3
    <3> HIDE DEF block
    <3>2. \A j \in 1..Len(block) : j =< precvbuf.at + n /\ j \in 1..Len(Part)
      BY <2>1, <3>1
    <3>3. QED
      BY <1>4, <3>1, <3>2
  <2> HIDE DEF block
  <2>4. QED
    BY <1>1, <1>3, <1>4, <1>6, <1>7, <2>1, <2>2, <2>3, CompleteFrames
<1>8. CASE n < irecvlen /\ More("BD_RECVING", n) /\ precvMemPointer' = block
  <2>1. curStat' = "BD_RECVING"
    BY <1>8 DEF More
  <2>2. Part' = Store(Part, data) /\ curStat' \in Body
    BY <1>2, <1>8, <2>1 DEF Part, Header, Body
  <2>3. QED
    BY <1>2, <1>3, <1>8, <2>2, MoreFrames
<1>9. QED
  BY <1>5, <1>7, <1>8

LEMMA InitFrames == Init => FInv
<1>1. SUFFICES ASSUME Init PROVE FInv
  OBVIOUS
<1>2. fd = "free" /\ m_MsgRecvQueue = <<>>
  BY <1>1 DEF Init
<1>3. QED
  BY <1>2 DEF FInv, PartReceived, PacketsSoFar, Numbered, AfterClose

LEMMA StepFrames == Inv /\ Inv' /\ FInv /\ [Next]_vars => FInv'
<1>1. SUFFICES ASSUME Inv, Inv', FInv, [Next]_vars PROVE FInv'
  OBVIOUS
<1>2. iCurrsequence \in Nat
  BY <1>1 DEF Inv, TypeOK
<1>3. CASE GetOneToUse
  <2>1. /\ fd = "free" /\ fd' = "open" /\ curStat' = "HD_INIT" /\ precvbuf'.at = 0
        /\ received' = <<>> /\ UNCHANGED m_MsgRecvQueue
    BY <1>3 DEF GetOneToUse, ResetBuffer
  <2>2. m_MsgRecvQueue' = <<>> /\ Delivered' = <<>> /\ Place' = 1
    BY <1>1, <2>1 DEF FInv, Numbered, Delivered, Place
  <2>3. CutSoFar(<<>>, <<>>, 1)
    <3>1. SUFFICES ASSUME NEW more \in Seq(Units)
                   PROVE  PacketsFrom(<<>> \o more)[1] = <<>> \o PacketsFrom(<<>> \o more)[1]
      BY DEF CutSoFar
    <3>2. <<>> \o more = more /\ 1 \in 1..Len(more) + 1
      BY ConcatEmptySeq, LenProperties
    <3>3. PacketsFrom(more)[1] \in Seq(Content)
      BY <3>2, Unfolded
    <3>4. QED
      BY <3>2, <3>3, ConcatEmptySeq
  <2>4. PartReceived' /\ PacketsSoFar'
    BY <2>1, <2>2, <2>3 DEF PartReceived, PacketsSoFar, Body
  <2>5. Numbered' /\ AfterClose'
    BY <2>1, <2>2 DEF Numbered, AfterClose
  <2>6. QED
    BY <2>4, <2>5 DEF FInv
<1>4. CASE TakenByPool \/ PutOneToFree
  <2>1. m_MsgRecvQueue' = <<>> /\ fd' # "open"
    BY <1>4 DEF TakenByPool, PutOneToFree
  <2>2. QED
    BY <2>1 DEF FInv, PartReceived, PacketsSoFar, Numbered, AfterClose
<1>5. CASE CloseElsewhere \/ RecvCloses
  <2>1. /\ fd = "open" /\ fd' = "closed" /\ iCurrsequence' = iCurrsequence + 1
        /\ UNCHANGED <<m_MsgRecvQueue, received, flooded>>
    BY <1>5 DEF CloseElsewhere, RecvCloses, Close, floodVars
  <2>2. Delivered = Packets /\ ~flooded
    BY <1>1, <2>1, OpenFramed DEF FInv
  <2>3. Delivered' = Delivered /\ Packets' = Packets /\ Number' = Number
    BY <1>2, <2>1 DEF Delivered, Packets, Number
  <2>4. AfterClose'
    BY <2>1, <2>2, <2>3 DEF AfterClose
  <2>5. QED
    BY <1>1, <2>1, <2>3, <2>4 DEF FInv, PartReceived, PacketsSoFar, Numbered
<1>6. CASE ReadRequestHandler
  <2>1. PICK n \in 1..irecvlen : \E data \in [1..n -> Units] :
          received' = received \o data /\ (ReadHeader(data) \/ ReadBody(data))
    BY <1>6 DEF ReadRequestHandler
  <2>2. PICK data \in [1..n -> Units] :
          received' = received \o data /\ (ReadHeader(data) \/ ReadBody(data))
    BY <2>1
  <2>3. fd = "open"
    BY <1>6 DEF ReadRequestHandler
  <2>4. QED
    BY <1>1, <2>2, <2>3, HeaderFrames, BodyFrames
<1>7. CASE UNCHANGED vars
  <2>1. /\ UNCHANGED <<fd, m_MsgRecvQueue, received, flooded, iCurrsequence>>
        /\ UNCHANGED <<curStat, precvbuf, dataHeadInfo, precvMemPointer>>
    BY <1>7 DEF vars, bufVars, memVars, floodVars
  <2>2. /\ Delivered' = Delivered /\ Packets' = Packets /\ Number' = Number
        /\ Place' = Place /\ Part' = Part
    BY <2>1 DEF Delivered, Packets, Number, Place, Part
  <2>3. QED
    BY <1>1, <2>1, <2>2 DEF FInv, PartReceived, PacketsSoFar, Numbered, AfterClose
<1>8. QED
  BY <1>1, <1>3, <1>4, <1>5, <1>6, <1>7 DEF Next, Step

\* Whatever the pieces recv delivers a stream in, the pool gets its packets, whole and
\* in order, under the number of the client they are from; of a flood all but the last
\* (ngx_read_request_handler).
THEOREM StreamFramed == Spec => []Framed
<1>1. Spec => []FInv
  BY InitFrames, StepFrames, Invariance, PTL DEF Spec
<1>2. Inv /\ FInv => Framed
  <2>1. SUFFICES ASSUME Inv, FInv, fd = "open" \/ m_MsgRecvQueue # <<>>
                 PROVE  Delivered = IF flooded THEN Front(Packets) ELSE Packets
    BY DEF Framed, FInv, Numbered
  <2>2. CASE fd = "open"
    BY <2>1, <2>2, OpenFramed DEF FInv
  <2>3. CASE fd # "open"
    BY <2>1, <2>3 DEF FInv, Numbered, AfterClose, Inv, TypeOK
  <2>4. QED
    BY <2>2, <2>3
<1>3. QED
  BY <1>1, <1>2, Invariance, PTL
=============================================================================
