------------------------------- MODULE Inflate -------------------------------
(***************************************************************************)
(* What a stream of bits stands for, by RFC 1951: the reference that the   *)
(* bits of module Block are read with. It shares no definition with the    *)
(* modules about the writing side: codes are counted off length by length, and  *)
(* lengths and distances by adding up the tables of the RFC.               *)
(***************************************************************************)
EXTENDS Integers, Sequences, FiniteSets, FiniteSetsExt

Number(bits, at, n) == MapThenSumSet(LAMBDA j : bits[at + j] * 2 ^ j, 0 .. n - 1)

\* The symbol at at, by the lengths len of the symbols: code is what n bits from
\* there on are, and first the least code of n bits. Among codes of one length the
\* order is that of the symbols.
RECURSIVE Read(_, _, _, _, _)
Read(bits, at, len, n, codes) ==
  LET here == {s \in DOMAIN len : len[s] = n}
      code == 2 * codes.read + bits[at + n - 1]
      first == 2 * codes.next
  IN IF n > 15 \/ at + n - 1 > Len(bits) THEN [symbol |-> -1, at |-> at]
     ELSE IF code - first < Cardinality(here)
       THEN [symbol |-> CHOOSE s \in here : Cardinality({t \in here : t < s}) = code - first, at |-> at + n]
       ELSE Read(bits, at, len, n + 1, [read |-> code, next |-> first + Cardinality(here)])
ReadSymbol(bits, at, len) == Read(bits, at, len, 1, [read |-> 0, next |-> 0])

LengthExtra == <<0, 0, 0, 0, 0, 0, 0, 0, 1, 1, 1, 1, 2, 2, 2, 2, 3, 3, 3, 3, 4, 4, 4, 4, 5, 5, 5, 5, 0>>
DistanceExtra == <<0, 0, 0, 0, 1, 1, 2, 2, 3, 3, 4, 4, 5, 5, 6, 6, 7, 7, 8, 8, 9, 9, 10, 10, 11, 11, 12, 12, 13, 13>>
Base(extra, n, least) == least + MapThenSumSet(LAMBDA j : 2 ^ extra[j], 1 .. n - 1)
LengthBase(n) == IF n = 29 THEN 258 ELSE Base(LengthExtra, n, 3)
DistanceBase(n) == Base(DistanceExtra, n, 1)

RECURSIVE Copied(_, _, _)
Copied(out, distance, n) ==
  IF n = 0 THEN out ELSE Copied(Append(out, out[Len(out) - distance + 1]), distance, n - 1)

Broken(out) == [out |-> Append(out, -1), at |-> 0]  \* no bytes at all

RECURSIVE Symbols(_, _, _, _, _)
Symbols(bits, at, litlen, dist, out) ==  \* up to the end of the block
  LET s == ReadSymbol(bits, at, litlen)
      n == s.symbol - 256
      length == LengthBase(n) + Number(bits, s.at, LengthExtra[n])
      t == ReadSymbol(bits, s.at + LengthExtra[n], dist)
      distance == DistanceBase(t.symbol + 1) + Number(bits, t.at, DistanceExtra[t.symbol + 1])
  IN CASE s.symbol = -1 -> Broken(out)
       [] s.symbol \in 0 .. 255 -> Symbols(bits, s.at, litlen, dist, Append(out, s.symbol))
       [] s.symbol = 256 -> [out |-> out, at |-> s.at]
       [] s.symbol > 256 ->
            IF n \notin DOMAIN LengthExtra \/ t.symbol \notin 0 .. 29 \/ distance > Len(out) THEN Broken(out)
            ELSE Symbols(bits, t.at + DistanceExtra[t.symbol + 1], litlen, dist, Copied(out, distance, length))

\* n lengths, the first of which are lens
RECURSIVE ReadLengths(_, _, _, _, _)
ReadLengths(bits, at, code, n, lens) ==
  LET s == ReadSymbol(bits, at, code)
      Repeated(value, extra, least) ==
        ReadLengths(bits, s.at + extra, code, n,
                    lens \o [j \in 1 .. least + Number(bits, s.at, extra) |-> value])
  IN IF Len(lens) >= n THEN [lens |-> lens, at |-> at]
     ELSE CASE s.symbol \in 0 .. 15 -> ReadLengths(bits, s.at, code, n, Append(lens, s.symbol))
            [] s.symbol = 16 -> Repeated(lens[Len(lens)], 2, 3)
            [] s.symbol = 17 -> Repeated(0, 3, 3)
            [] s.symbol = 18 -> Repeated(0, 7, 11)
            [] s.symbol = -1 -> [lens |-> [j \in 1 .. n |-> 0], at |-> at]

CodeOrder == <<16, 17, 18, 0, 8, 7, 9, 6, 10, 5, 11, 4, 12, 3, 13, 2, 14, 1, 15>>

DynamicBlock(bits, at, out) ==
  LET literals == 257 + Number(bits, at, 5)
      distances == 1 + Number(bits, at + 5, 5)
      codes == 4 + Number(bits, at + 10, 4)
      code == [s \in 0 .. 18 |-> IF \E j \in 1 .. codes : CodeOrder[j] = s
                                        THEN Number(bits, at + 11 + 3 * (CHOOSE j \in 1 .. codes : CodeOrder[j] = s), 3)
                                        ELSE 0]
      read == ReadLengths(bits, at + 14 + 3 * codes, code, literals + distances, <<>>)
  IN IF Len(read.lens) # literals + distances THEN Broken(out)
     ELSE Symbols(bits, read.at, [s \in 0 .. literals - 1 |-> read.lens[s + 1]],
                  [s \in 0 .. distances - 1 |-> read.lens[literals + s + 1]], out)

FixedLitLens == [s \in 0 .. 287 |-> IF s < 144 THEN 8 ELSE IF s < 256 THEN 9 ELSE IF s < 280 THEN 7 ELSE 8]
FixedDistances == [s \in 0 .. 29 |-> 5]

RECURSIVE Blocks(_, _, _)
Blocks(bits, at, out) ==
  IF at = 0 \/ at + 2 > Len(bits) THEN Broken(out)
  ELSE LET read == CASE Number(bits, at + 1, 2) = 1 -> Symbols(bits, at + 3, FixedLitLens, FixedDistances, out)
                     [] Number(bits, at + 1, 2) = 2 -> DynamicBlock(bits, at + 3, out)
                     [] OTHER -> Broken(out)
       IN IF bits[at] = 1 THEN read ELSE Blocks(bits, read.at, read.out)

\* the bits are a stream with nothing behind it, of these bytes
StandFor(bits, bytes) == Blocks(bits, 1, <<>>) = [out |-> bytes, at |-> Len(bits) + 1]
=============================================================================
