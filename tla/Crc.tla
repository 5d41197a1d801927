-------------------------------- MODULE Crc --------------------------------
(***************************************************************************)
(* Machine words of CoreMark and its 16-bit CRC (core_util.c).  A word is  *)
(* the natural number of its bits; S16 reads one as a signed ee_s16.       *)
(***************************************************************************)
EXTENDS Integers

Bit(n, i) == (n \div 2^i) % 2

U16(n) == n % 65536

S16(n) == LET u == n % 65536 IN IF u < 32768 THEN u ELSE u - 65536

\* a ^ b on 16 bits.
Xor(a, b) ==
  LET x[i \in 0..16] == IF i = 0 THEN 0
                        ELSE x[i-1] + (((Bit(a, i-1) + Bit(b, i-1)) % 2) * 2^(i-1))
  IN  x[16]

\* a | b, from a + b = (a ^ b) + 2 (a & b).
Or(a, b) == (a + b + Xor(a, b)) \div 2

\* One turn of the loop: the polynomial is added when the low bits differ.
CrcBit[d \in 0..1, crc \in 0..65535] ==
  IF d = crc % 2 THEN crc \div 2 ELSE 32768 + (Xor(crc, 16386) \div 2)

crcu8[data \in 0..255, crc \in 0..65535] ==
  LET c[i \in 0..8] == IF i = 0 THEN crc ELSE CrcBit[Bit(data, i-1), c[i-1]]
  IN  c[8]

\* crc16 casts its signed argument to ee_u16 and calls crcu16.
crcu16[newval \in Int, crc \in 0..65535] ==
  crcu8[U16(newval) \div 256, crcu8[newval % 256, crc]]

crcu32[newval \in Nat, crc \in 0..65535] ==
  crcu16[newval \div 65536, crcu16[newval, crc]]
=============================================================================
