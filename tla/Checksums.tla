----------------------------- MODULE Checksums -----------------------------
(***************************************************************************)
(* The two checksums of the collector, bit by bit: getModbusCRC16, which   *)
(* guards the frames of the boards, and crc_high_first of src/usart.cpp,   *)
(* which guards those of the range finder.  A byte or register is the set  *)
(* of its bits that are 1, bit 0 the lowest, so ^ is the symmetric         *)
(* difference Plus.                                                        *)
(***************************************************************************)
EXTENDS Integers, Sequences

CONSTANT Bursts   \* the patterns of bits, at most 16 wide, that a disturbance may flip

ASSUME BurstsAssumption == Bursts \subseteq SUBSET (0 .. 15)

Register(n) == SUBSET (0 .. n - 1)
Octet == Register(8)

Plus(p, q) == (p \cup q) \ (p \cap q)

(* for each element e of s: v = step(v, e)                                 *)
Fold(step, v, s) ==
  LET after[k \in 0 .. Len(s)] == IF k = 0 THEN v ELSE step[<<after[k - 1], s[k]>>]
  IN after[Len(s)]

Eight == [k \in 1 .. 8 |-> k]

(* A number between 0 and 255 as a byte.                                   *)
BitsOf(number) == {k \in 0 .. 7 : (number \div 2 ^ k) % 2 = 1}

-----------------------------------------------------------------------------
(* Mutant: the conditional reversed.                                       *)
Crc16BitSwapped(v) ==
  Plus({k - 1 : k \in v \ {0}}, IF 0 \in v THEN {} ELSE {0, 13, 15})

(* One shift to the right of the 16-bit register; 0xA001 is {0, 13, 15}.   *)
Crc16Bit(v) == Plus({k - 1 : k \in v \ {0}}, IF 0 \in v THEN {0, 13, 15} ELSE {})

Crc16Shift == [p \in Register(16) \X (1 .. 8) |-> Crc16Bit(p[1])]
Crc16Byte == [p \in Register(16) \X Octet |-> Fold(Crc16Shift, Plus(p[1], p[2]), Eight)]

getModbusCRC16(bytes) == Fold(Crc16Byte, 0 .. 15, bytes)

(* high << 8 | low                                                         *)
Word(high, low) == {k + 8 : k \in high} \cup low

(* Mutant: only the low byte is compared.                                  *)
CrcMatchesLow(frame) ==
  LET n == Len(frame) - 2
  IN getModbusCRC16(SubSeq(frame, 1, n)) \cap (0 .. 7) = frame[n + 1]

(* The test of both receivers: the last two bytes, the low one first, are  *)
(* the checksum of what is in front of them.                               *)
CrcMatches16(frame) ==
  LET n == Len(frame) - 2
  IN getModbusCRC16(SubSeq(frame, 1, n)) = Word(frame[n + 2], frame[n + 1])

(* One shift to the left of the 8-bit register, the carry cut off; 0x31    *)
(* is {0, 4, 5}.                                                           *)
Crc8Bit(v) == Plus({k + 1 : k \in v}, IF 7 \in v THEN {0, 4, 5} ELSE {}) \cap (0 .. 7)

Crc8Shift == [p \in Octet \X (1 .. 8) |-> Crc8Bit(p[1])]
Crc8Byte == [p \in Octet \X Octet |-> Fold(Crc8Shift, Plus(p[1], p[2]), Eight)]

crc_high_first(bytes) == Fold(Crc8Byte, {}, bytes)

-----------------------------------------------------------------------------
(* The reference: the remainder of a division of polynomials over GF(2).   *)
(* A polynomial is the set of its exponents, its sum with another Plus.    *)

(* The remainder of p, of degree at most top, by x^n + lower: from the     *)
(* highest exponent down, a multiple of the divisor is subtracted.         *)
Reduce(top, n, lower) ==
  [p \in Register(top + 1) \X (n .. top) |->
     IF p[2] \in p[1] THEN Plus(p[1], {p[2]} \cup {p[2] - n + l : l \in lower}) ELSE p[1]]
Remainder(p, top, n, lower) ==
  Fold(Reduce(top, n, lower), p, [k \in 1 .. top - n + 1 |-> top - k + 1])

(* The message shifted by n, its bytes in the given order of bits.         *)
Polynomial(bytes, n, place) ==
  UNION {{n + 8 * (Len(bytes) - k) + place[b] : b \in bytes[k]} : k \in DOMAIN bytes}

(* CRC-16/MODBUS: reflected, x^16 + x^15 + x^2 + 1, register preset to ones. *)
Crc16Remainder(bytes) ==
  LET n == 8 * Len(bytes)
  IN Remainder(Plus(Polynomial(bytes, 16, [b \in 0 .. 7 |-> 7 - b]), n .. n + 15),
               n + 15, 16, {0, 2, 15})

(* x^8 + x^5 + x^4 + 1, not reflected, preset to zero.                     *)
Crc8Remainder(bytes) ==
  Remainder(Polynomial(bytes, 8, [b \in 0 .. 7 |-> b]), 8 * Len(bytes) + 7, 8, {0, 4, 5})

-----------------------------------------------------------------------------
(* What a sender transmits.                                                *)
Framed(bytes) ==
  LET crc == getModbusCRC16(bytes)
  IN bytes \o <<crc \cap (0 .. 7), {k - 8 : k \in crc \ (0 .. 7)}>>

(* Both checksums are the remainders their polynomials define; of the      *)
(* first, bit b is the coefficient of x^(15 - b); and a message followed   *)
(* by its checksum leaves none.                                            *)
AreRemainders(bytes) ==
  /\ Crc16Remainder(bytes) = {15 - b : b \in getModbusCRC16(bytes)}
  /\ Crc8Remainder(bytes) = crc_high_first(bytes)
  /\ getModbusCRC16(Framed(bytes)) = {}
  /\ crc_high_first(Append(bytes, crc_high_first(bytes))) = {}

(* The bytes with the given bits flipped, counted in the order of          *)
(* transmission.                                                           *)
Damaged(bytes, bits) ==
  [k \in DOMAIN bytes |-> Plus(bytes[k], {b \in 0 .. 7 : 8 * (k - 1) + b \in bits})]

(* A frame passes the test of its receiver, and no longer does after one   *)
(* disturbance of at most 16 bits in a row, wherever it hits.              *)
DetectsBursts(bytes) ==
  LET frame == Framed(bytes)
      bits == 0 .. 8 * Len(frame) - 1
  IN /\ CrcMatches16(frame)
     /\ \A at \in bits, burst \in Bursts :
          LET hit == {at + b : b \in burst} \cap bits
          IN hit # {} => ~CrcMatches16(Damaged(frame, hit))
=============================================================================
