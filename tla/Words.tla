------------------------------- MODULE Words --------------------------------
(***************************************************************************)
(* Machine words at a quarter of their width, so that TLC can enumerate    *)
(* them: a double word has 16 bits here, a word 8, a half word 4 and a     *)
(* byte 2, and a 12-bit immediate field has 3.  The operations wrap at the *)
(* width they are given.                                                   *)
(***************************************************************************)
EXTENDS Integers, Bitwise

X == 16                          \* bits of a double word
W == 8                           \* of a word
HALF == 4                        \* of 16 bits, the unit of MOVZ and MOVK
BYTE == 2
IMM12 == 3

Low(a, n)    == a % 2^n
Signed(a, n) == IF Low(a, n) >= 2^(n - 1) THEN Low(a, n) - 2^n ELSE Low(a, n)
Bits(a, first, n) == (a \div 2^first) % 2^n

Sum(a, b, n)     == (a + b) % 2^n
Minus(a, b, n)   == (a - b) % 2^n
Product(a, b, n) == ((((a * (b \div 2^W)) % 2^X) * 2^W) + a * (b % 2^W)) % 2^n
Shl(a, s, n)     == (a * 2^s) % 2^n
Shr(a, s, n)     == Low(a, n) \div 2^s
Sar(a, s, n)     == (Signed(a, n) \div 2^s) % 2^n

(* The bytes of the low n bits in reverse order.                           *)
SwapBytes(a, n) ==
  LET Rev[k \in 0 .. n \div BYTE] ==
        IF k = 0 THEN 0 ELSE Rev[k - 1] * 2^BYTE + Bits(a, BYTE * (k - 1), BYTE)
  IN  Rev[n \div BYTE]
=============================================================================
