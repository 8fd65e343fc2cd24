----------------------------- MODULE ByteStream -----------------------------
(***************************************************************************)
(* What the sending half of the server owes each client.  A reply handed   *)
(* to msgSend for one life of a connection is written to the socket at     *)
(* most once, as MsgLen consecutive units, and nothing is written but such *)
(* replies; if Fifo, they are written in the order they were queued.  A    *)
(* life ends when the pool gives the connection object to a new client.    *)
(***************************************************************************)
EXTENDS Integers, Sequences, Functions

CONSTANTS
  Conns,   \* the connection objects of the pool
  Ids,     \* the reply packets
  MsgLen,  \* units one packet is cut into by send(), at least one
  Fifo     \* whether the packets keep the order they were queued in

VARIABLES
  accepted,  \* accepted[c]: the packets queued for the current life of c
  wire       \* wire[c]: the units written to the socket in the current life

vars == <<accepted, wire>>

\* Units of the packet being written that have left, 0 between packets.
Begun(w) == Len(w) % MsgLen

\* The packets that may be written next.
NextPacket(acc, w) ==
  IF Begun(w) > 0 THEN {w[Len(w)]}
  ELSE IF Fifo THEN {acc[(Len(w) \div MsgLen) + 1]}
  ELSE Range(acc) \ Range(w)

Init ==
  /\ accepted = [c \in Conns |-> <<>>]
  /\ wire = [c \in Conns |-> <<>>]

Submit(c, m) ==
  /\ m \notin Range(accepted[c])
  /\ accepted' = [accepted EXCEPT ![c] = Append(@, m)]
  /\ UNCHANGED wire

\* n more units of one packet leave.
Transmit(c, n) ==
  /\ Len(wire[c]) < MsgLen * Len(accepted[c])
  /\ n =< MsgLen - Begun(wire[c])
  /\ \E m \in NextPacket(accepted[c], wire[c]) :
       wire' = [wire EXCEPT ![c] = @ \o [i \in 1..n |-> m]]
  /\ UNCHANGED accepted

NewLife(c) ==
  /\ accepted' = [accepted EXCEPT ![c] = <<>>]
  /\ wire' = [wire EXCEPT ![c] = <<>>]

Next ==
  \E c \in Conns :
    \/ \E m \in Ids : Submit(c, m)
    \/ \E n \in 1..MsgLen : Transmit(c, n)
    \/ NewLife(c)

Spec == Init /\ [][Next]_vars
=============================================================================
