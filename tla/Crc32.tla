------------------------------- MODULE Crc32 -------------------------------
(***************************************************************************)
(* CCRC32.  A word is the set of the positions of its bits that are 1, and *)
(* so is a byte: XOR is the symmetric difference, a shift adds to the      *)
(* positions or takes away from them, and what leaves the 32 bits is lost. *)
(***************************************************************************)
EXTENDS Integers, Sequences, FiniteSetsExt

CONSTANT Messages   \* what checksums are asked of

Word == 0..31
Byte == SUBSET (0..7)

ASSUME CrcAssumption == Messages \subseteq Seq(Byte)

Xor(a, b) == SymDiff(a, b)
ShiftLeft(a, n) == {b + n : b \in a} \cap Word
ShiftRight(a, n) == {b - n : b \in a} \cap Word

\* 0x04c11db7
ulPolynomial == {26, 23, 22, 16, 12, 11, 10, 8, 7, 5, 4, 2, 1, 0}

\* The lowest ch bits in the opposite order.
Reflect(ref, ch) == {ch - 1 - b : b \in ref \cap 0..(ch - 1)}

\* One turn of the inner loop of Init_CRC32_Table, and all eight.
Turn(word) == Xor(ShiftLeft(word, 1), IF 31 \in word THEN ulPolynomial ELSE {})
Turned(start) ==
  LET after[j \in 0..8] == IF j = 0 THEN start ELSE Turn(after[j - 1]) IN after[8]

\* mutant: the entry is not reflected at the end
TableNotReflected == [i \in Byte |-> Turned(ShiftLeft(Reflect(i, 8), 24))]

\* Init_CRC32_Table; an index is a byte, too
crc32_table == [i \in Byte |-> Reflect(Turned(ShiftLeft(Reflect(i, 8), 24)), 32)]

Get_CRC(buffer) ==
  LET crc[i \in 0..Len(buffer)] ==
        IF i = 0 THEN Word
        ELSE LET before == crc[i - 1]
             IN Xor(ShiftRight(before, 8), crc32_table[Xor(before \cap 0..7, buffer[i])])
  IN Xor(crc[Len(buffer)], Word)

-----------------------------------------------------------------------------
(* The definition of the checksum: the message is a polynomial over GF(2), *)
(* the bits of each byte from the lowest on, whose first 32 coefficients   *)
(* are inverted; the checksum is the remainder of its product with x^32,   *)
(* inverted, the coefficient of x^31 in bit 0.                             *)

\* The exponents of the message times x^32.
Polynomial(buffer) ==
  LET after(i) == 8 * (Len(buffer) - i)      \* so many bits come after byte i
  IN Xor(UNION {{after(i) + 39 - b : b \in buffer[i]} : i \in 1..Len(buffer)},
         after(0)..(after(0) + 31))

\* Long division of a polynomial of degree below 32 + n: ulPolynomial, to which x^32
\* belongs, is taken away at each place, the highest first.
Less(poly, x) ==
  IF x + 32 \in poly THEN Xor(poly, {x + 32} \cup {x + b : b \in ulPolynomial}) ELSE poly
Remainder(poly, n) ==
  LET left[k \in 0..n] == IF k = 0 THEN poly ELSE Less(left[k - 1], n - k) IN left[n]

\* The table gives the checksum of PKZIP and Ethernet, the complement of a remainder.
CrcIsRemainder ==
  \A m \in Messages :
    Get_CRC(m) = Xor(Reflect(Remainder(Polynomial(m), 8 * Len(m)), 32), Word)
=============================================================================
