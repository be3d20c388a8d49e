------------------------------- MODULE Symbols -------------------------------
(***************************************************************************)
(* The symbols of deflate for lengths and distances, and the bits behind   *)
(* them, as symbols.h computes or tabulates them.                          *)
(***************************************************************************)
EXTENDS Integers, FiniteSets

ZopfliGetLengthSymbol(l) ==
  IF l <= 10 THEN l + 254
  ELSE IF l <= 18 THEN 265 + (l - 11) \div 2
  ELSE IF l <= 34 THEN 269 + (l - 19) \div 4
  ELSE IF l <= 66 THEN 273 + (l - 35) \div 8
  ELSE IF l <= 130 THEN 277 + (l - 67) \div 16
  ELSE IF l <= 257 THEN 281 + (l - 131) \div 32
  ELSE 285

ZopfliGetLengthExtraBits(l) ==
  IF l <= 10 \/ l = 258 THEN 0
  ELSE IF l <= 18 THEN 1
  ELSE IF l <= 34 THEN 2
  ELSE IF l <= 66 THEN 3
  ELSE IF l <= 130 THEN 4
  ELSE 5
ZopfliGetLengthExtraBitsValue(l) == IF l = 258 THEN 0 ELSE (l - 3) % 2 ^ ZopfliGetLengthExtraBits(l)

\* of a number from 1 to 65535: distances end before
floor_log2(n) == Cardinality({k \in 1 .. 15 : 2 ^ k <= n})
Bit(n, k) == (n \div 2 ^ k) % 2

ZopfliGetDistSymbol(d) ==
  IF d < 5 THEN d - 1
  ELSE LET l == floor_log2(d - 1) IN 2 * l + Bit(d - 1, l - 1)
ZopfliGetDistExtraBits(d) == IF d < 5 THEN 0 ELSE floor_log2(d - 1) - 1
ZopfliGetDistExtraBitsValue(d) ==
  IF d < 5 THEN 0 ELSE LET l == floor_log2(d - 1) IN (d - (1 + 2 ^ l)) % 2 ^ (l - 1)
=============================================================================
