-------------------------------- MODULE Gf ---------------------------------
(***************************************************************************)
(* shardvault-ec/src/gf.rs: arithmetic of GF(2^8) with the polynomial      *)
(* 0x11D, by exp/log tables.  The tables are the code's, entry by entry;   *)
(* OnceLock makes their construction atomic, so they are constants here.   *)
(***************************************************************************)
EXTENDS Bytes
LOCAL INSTANCE Integers
LOCAL INSTANCE Sequences

POLY == 285

GfAdd(a, b) == XorTable[a][b]

\* x <<= 1; if x & 0x100 != 0 { x ^= POLY }
Doubled(x) == IF 2 * x > 255 THEN XorTable[2 * x - 256][POLY - 256] ELSE 2 * x

\* The values x runs through in build_tables, the powers x^0 to x^254 of the
\* generator; halving the way only keeps the recursion shallow.
Powers ==
  LET upto[s \in Seq(Byte), n \in 1..255] ==
        IF Len(s) = n THEN s
        ELSE IF Len(s) + 1 = n THEN Append(s, Doubled(s[Len(s)]))
        ELSE upto[upto[s, (Len(s) + n) \div 2], n]
  IN  upto[<<1>>, 255]

\* exp is doubled so that a sum of two logarithms needs no reduction.
GfExp ==
  [i \in 0..511 |-> IF i < 255 THEN Powers[i + 1]
                    ELSE IF i < 510 THEN Powers[i - 254] ELSE 0]

\* The last write of log[x] = i wins; log[0] is never written.
GfLog ==
  [x \in Byte |->
     LET at == {i \in 0..254 : Powers[i + 1] = x}
     IN  IF at = {} THEN 0 ELSE CHOOSE i \in at : \A j \in at : j <= i]

\* Seeded fault: the sum of the logarithms is reduced modulo 256.
GfMul_Mod256(a, b) ==
  IF a = 0 \/ b = 0 THEN 0 ELSE GfExp[(GfLog[a] + GfLog[b]) % 256]

GfMul(a, b) == IF a = 0 \/ b = 0 THEN 0 ELSE GfExp[GfLog[a] + GfLog[b]]

GfInv(a) == IF a = 0 THEN 0 ELSE GfExp[255 - GfLog[a]]
-----------------------------------------------------------------------------
(* Reference: polynomials over GF(2), multiplied bit by bit *)

\* Times x, the highest coefficient replaced by those of x^8 modulo POLY.
TimesX(a) == GfAdd((2 * a) % 256, (a \div 128) * (POLY % 256))

\* a times b by Horner's rule over the bits of b, the highest first.
PolyMul(a, b) ==
  LET from[i \in 0..8] ==
        IF i = 8 THEN 0 ELSE GfAdd(TimesX(from[i + 1]), Bit(b, i) * a)
  IN  from[0]
=============================================================================
