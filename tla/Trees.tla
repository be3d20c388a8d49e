-------------------------------- MODULE Trees --------------------------------
(***************************************************************************)
(* The two codes of a dynamic block (deflate.c): how often each symbol     *)
(* occurs, how the counts are smoothed so that the lengths repeat, the     *)
(* lengths, and how these are written, and what that costs. An entry is    *)
(* a litlen and a dist, which is 0 for a byte. CodeLengths stands for      *)
(* katajainen.c.                                                           *)
(***************************************************************************)
EXTENDS CodeLengths, Symbols

LitLens == 0 .. 287
Dists == 0 .. 31
EndOfBlock == 256

Least(m, n) == IF m <= n THEN m ELSE n
Most(m, n) == IF m >= n THEN m ELSE n

RECURSIVE SumSeq(_)
SumSeq(s) == IF s = <<>> THEN 0 ELSE Head(s) + SumSeq(Tail(s))
RECURSIVE Flat(_)
Flat(seqs) ==
  LET half == Len(seqs) \div 2 IN
  CASE Len(seqs) = 0 -> <<>>
    [] Len(seqs) = 1 -> seqs[1]
    [] Len(seqs) > 1 -> Flat(SubSeq(seqs, 1, half)) \o Flat(SubSeq(seqs, half + 1, Len(seqs)))

Each(op(_), s) == [k \in DOMAIN s |-> op(s[k])]

LitLenSymbol(e) == IF e.dist = 0 THEN e.litlen ELSE ZopfliGetLengthSymbol(e.litlen)

Counted(symbols, S) ==
  [s \in Range(symbols) |-> Cardinality({k \in DOMAIN symbols : symbols[k] = s})] @@ [s \in S |-> 0]
ZopfliLZ77Counts(entries) ==
  LET matches == SelectSeq(entries, LAMBDA e : e.dist # 0) IN
  [ll |-> Counted(Append(Each(LitLenSymbol, entries), EndOfBlock), LitLens),
   d |-> Counted(Each(LAMBDA e : ZopfliGetDistSymbol(e.dist), matches), Dists)]
-----------------------------------------------------------------------------
(* OptimizeHuffmanCountsForRle and, from an older version (zop),             *)
(* OptimizeHuffmanCountsForRlezop: the counts 0 .. length - 1 are divided    *)
(* into strides, and those of a stride of four or more become equal.         *)

length(counts) == Max({0} \cup {s + 1 : s \in Occurring(counts)})

\* in a row of equal counts that is long enough as it is
good_for_rle(counts) ==
  LET InRow(k, n) == \E a \in Most(0, k - n + 1) .. k :
                       a + n <= length(counts) /\ \A j \in a .. a + n - 1 : counts[j] = counts[k]
  IN {k \in 0 .. length(counts) - 1 : InRow(k, IF counts[k] = 0 THEN 5 ELSE 7)}

AbsDiff(x, y) == IF x > y THEN x - y ELSE y - x
CountsFrom(counts, a, n) == MapThenSumSet(LAMBDA j : counts[j], {j \in a .. a + n - 1 : counts[j] > 0})
Mean(total, n) == (total + n \div 2) \div n

\* what the count behind a stride from a of n counts is compared with
StrideLimit(counts, a, n) ==
  CASE n >= 4 -> Mean(256 * CountsFrom(counts, a, n), n) + (IF n = 4 THEN 120 ELSE 0)
    [] n < 4 /\ a < length(counts) - 2 -> (256 * CountsFrom(counts, a, 3)) \div 3 + 420
    [] n < 4 /\ a >= length(counts) - 2 -> 256 * counts[a]
StrideLimitzop(counts, good, a) ==
  IF (a = 0 /\ 0 \notin good) \/ a >= length(counts) - 3 THEN counts[a] ELSE Mean(CountsFrom(counts, a, 4), 4)

RECURSIVE End(_, _, _, _, _)
End(counts, good, zop, a, k) ==  \* of the stride from a
  IF \/ k = length(counts) \/ k \in good
     \/ ~zop /\ (k - 1 \in good \/ AbsDiff(256 * counts[k], StrideLimit(counts, a, k - a)) >= 1240)
     \/ zop /\ AbsDiff(counts[k], StrideLimitzop(counts, good, a)) >= 4
  THEN k ELSE End(counts, good, zop, a, k + 1)

RECURSIVE Strides(_, _, _, _)
Strides(counts, good, zop, a) ==  \* from a on; in good ones no stride is longer than one
  LET n == length(counts)
      end == IF {a, a + 1} \subseteq good THEN Max({k \in a .. n - 1 : a .. k \subseteq good})
             ELSE End(counts, good, zop, a, a + 1)
  IN IF a >= n THEN {} ELSE {[from |-> a, end |-> end]} \cup Strides(counts, good, zop, end)

LongStrides(counts, good, zop) ==
  {s \in Strides(counts, good, zop, 0) : s.end - s.from >= 4 /\ s.from .. s.end - 1 \cap good \subseteq {s.from}}
LevelOf(n, total) == IF Mean(total, n) < 1 /\ total > 0 THEN 1 ELSE Mean(total, n)
Levelled(counts, strides) ==
  LET Count(s) == LevelOf(s.end - s.from, CountsFrom(counts, s.from, s.end - s.from)) IN
  [j \in UNION {s.from .. s.end - 1 : s \in strides} |->
     Count(CHOOSE s \in strides : j \in s.from .. s.end - 1)] @@ counts
Smoothed(counts, zop) == Levelled(counts, LongStrides(counts, good_for_rle(counts), zop))
OptimizeHuffmanCountsForRle(counts) == Smoothed(counts, FALSE)
OptimizeHuffmanCountsForRlezop(counts) == Smoothed(counts, TRUE)
-----------------------------------------------------------------------------
(* EncodeTree. The options are the bits of 0 .. 31.                          *)

use_16(o) == o % 2 = 1
use_17(o) == (o \div 2) % 2 = 1
use_18(o) == (o \div 4) % 2 = 1
fuse_8(o) == (o \div 8) % 2 = 1
fuse_7(o) == (o \div 16) % 2 = 1

order == <<16, 17, 18, 0, 8, 7, 9, 6, 10, 5, 11, 4, 12, 3, 13, 2, 14, 1, 15>>

\* at least two distances have a code
PatchDistanceCodesForBuggyDecoders(d) ==
  LET used == {s \in 0 .. 29 : d[s] > 0} IN
  CASE used = {} -> [d EXCEPT ![0] = 1, ![1] = 1]
    [] Cardinality(used) = 1 -> [d EXCEPT ![IF d[0] > 0 THEN 1 ELSE 0] = 1]
    [] Cardinality(used) > 1 -> d

hlitSlip(ll) == Max({0} \cup {k \in 1 .. 28 : ll[256 + k] > 0})  \* slip: the last symbol is forgotten
hlit(ll) == Max({0} \cup {k \in 1 .. 29 : ll[256 + k] > 0})
hdist(d) == Max({0} \cup {k \in 1 .. 29 : d[k] > 0})
\* what is written of the lengths, and in rows of equal ones
Lengths(ll, d) == [k \in 1 .. hlit(ll) + 257 |-> ll[k - 1]] \o [k \in 1 .. hdist(d) + 1 |-> d[k - 1]]
RECURSIVE Rows(_)
Rows(s) ==
  IF s = <<>> THEN <<>>
  ELSE LET count == Min({n \in DOMAIN s : n = Len(s) \/ s[n + 1] # s[1]})
       IN <<[symbol |-> s[1], count |-> count]>> \o Rows(SubSeq(s, count + 1, Len(s)))

\* as many as possible at a time, no less than least
RECURSIVE Pieces(_, _, _)
Pieces(count, least, most) ==
  IF count < least THEN <<>> ELSE <<Least(count, most)>> \o Pieces(count - Least(count, most), least, most)
\* but 8 as 4 and 4, 7 as 4 and 3
RECURSIVE Repeats(_, _)
Repeats(count, o) ==
  CASE count < 3 -> <<>>
    [] count >= 3 /\ ((fuse_8(o) /\ count = 8) \/ (fuse_7(o) /\ count = 7)) -> <<4, count - 4>>
    [] OTHER -> <<Least(count, 6)>> \o Repeats(count - Least(count, 6), o)

Rle16(n) == [rle |-> 16, rle_bits |-> n - 3]
Rle17(n) == [rle |-> 17, rle_bits |-> n - 3]
Rle18(n) == [rle |-> 18, rle_bits |-> n - 11]
Plain(symbol, n) == [k \in 1 .. n |-> [rle |-> symbol, rle_bits |-> 0]]

RowRle(row, o) ==
  LET p18 == IF row.symbol = 0 /\ use_18(o) THEN Pieces(row.count, 11, 138) ELSE <<>>
      left18 == row.count - SumSeq(p18)
      p17 == IF row.symbol = 0 /\ use_17(o) THEN Pieces(left18, 3, 10) ELSE <<>>
      left17 == left18 - SumSeq(p17)
      first == IF use_16(o) /\ left17 >= 4 THEN 1 ELSE 0
      p16 == IF first = 1 THEN Repeats(left17 - 1, o) ELSE <<>>
  IN Each(Rle18, p18) \o Each(Rle17, p17) \o Plain(row.symbol, first)
     \o Each(Rle16, p16) \o Plain(row.symbol, left17 - first - SumSeq(p16))
RowsOf(ll, d) == Rows(Lengths(ll, d))
RleOf(rows, o) == Flat([k \in DOMAIN rows |-> RowRle(rows[k], o)])

clcounts(rle) == Counted(Each(LAMBDA r : r.rle, rle), 0 .. 18)
hclen(counts) == Max({0} \cup {k \in 1 .. 15 : counts[order[k + 4]] > 0})

ExtraBits(symbol) == CASE symbol = 16 -> 2 [] symbol = 17 -> 3 [] symbol = 18 -> 7 [] OTHER -> 0

RleSize(counts) ==
  LET clcl == LimitedLengths(counts, 7) IN
  14 + (hclen(counts) + 4) * 3 + Total(counts, clcl) + counts[16] * 2 + counts[17] * 3 + counts[18] * 7

\* CalculateTreeSize: the options to be tried, the size and the options chosen.
\* With only the first of them, 16 is also used for runs of seven with 8.
Tried(hq) == CASE hq = 0 -> {7}
               [] hq = 1 -> 0 .. 7 \cup {9}
               [] hq = 2 -> {o \in 0 .. 31 : use_16(o) \/ ~(fuse_8(o) \/ fuse_7(o))}
Options(best, hq) == IF hq = 1 /\ best = 9 THEN 25 ELSE best

CalculateTreeSize(ll, d, hq) ==
  LET rows == RowsOf(ll, PatchDistanceCodesForBuggyDecoders(d))
      trials == {[size |-> RleSize(clcounts(RleOf(rows, Options(o, hq)))), best |-> o] : o \in Tried(hq)}
  IN CHOOSE t \in trials : \A u \in trials : t.size < u.size \/ (t.size = u.size /\ t.best <= u.best)
-----------------------------------------------------------------------------
(* What the entries cost, and lengths for them.                              *)

SymbolExtraBits(s) == IF s < 265 \/ s > 284 THEN 0 ELSE (s - 261) \div 4
DistExtraBits(s) == IF s < 4 THEN 0 ELSE (s - 2) \div 2

CalculateBlockSymbolSize(counts, ll, d) ==
  MapThenSumSet(LAMBDA s : counts.ll[s] * (ll[s] + SymbolExtraBits(s)), {s \in 0 .. 285 : counts.ll[s] > 0})
  + MapThenSumSet(LAMBDA s : counts.d[s] * (d[s] + DistExtraBits(s)), {s \in 0 .. 29 : counts.d[s] > 0})

\* lengths for counts that may be smoothed, and what the block costs with them
Sized(counts, ll, d) == [ll |-> ll, d |-> d, size |-> CalculateBlockSymbolSize(counts, ll, d)]
Coded(counts, smoothed, limit) ==
  Sized(counts, LimitedLengths(smoothed.ll, limit), LimitedLengths(smoothed.d, limit))

ForRle(counts) == [ll |-> OptimizeHuffmanCountsForRle(counts.ll), d |-> OptimizeHuffmanCountsForRle(counts.d)]
ForRlezop(counts) ==
  [ll |-> OptimizeHuffmanCountsForRlezop(counts.ll), d |-> OptimizeHuffmanCountsForRlezop(counts.d)]
GetDynamicLengthsuse(counts) == Coded(counts, ForRle(counts), 15)
GetDynamicLengths(entries) == GetDynamicLengthsuse(ZopfliLZ77Counts(entries))

\* GetAdvancedLengths: three ways to smooth, then lower limits as long as it pays
WithTree(code, smoothed) ==
  [ll |-> code.ll, d |-> PatchDistanceCodesForBuggyDecoders(code.d), size |-> code.size,
   tree |-> CalculateTreeSize(code.ll, code.d, 2).size, smoothed |-> smoothed]
Candidate(counts, smoothed, limit) == WithTree(Coded(counts, smoothed, limit), smoothed)
Cost(c) == c.size + c.tree
Cheaper(best, next) == IF Cost(next) < Cost(best) THEN next ELSE best
Cheapest(three) == Cheaper(Cheaper(three[1], three[2]), three[3])

RECURSIVE LowerLimits(_, _, _)
LowerLimits(counts, best, limit) ==
  IF limit = 8 THEN best
  ELSE LET next == Candidate(counts, best.smoothed, limit) IN
       IF Cost(best) < Cost(next) THEN best ELSE LowerLimits(counts, Cheaper(best, next), limit - 1)

AdvancedLengths(counts) ==
  LET ways == <<ForRle(counts), ForRlezop(counts), counts>> IN
  LowerLimits(counts, Cheapest([w \in 1 .. 3 |-> Candidate(counts, ways[w], 15)]), 14)
GetAdvancedLengths(entries) == AdvancedLengths(ZopfliLZ77Counts(entries))

FixedLengths ==
  [ll |-> [s \in LitLens |-> IF s < 144 THEN 8 ELSE IF s < 256 THEN 9 ELSE IF s < 280 THEN 7 ELSE 8],
   d |-> [s \in Dists |-> 5]]
FixedBits(e) ==
  IF e.dist = 0 THEN 8 + (IF e.litlen >= 144 THEN 1 ELSE 0)
  ELSE 13 - (IF e.litlen < 115 THEN 1 ELSE 0)
       + ZopfliGetLengthExtraBits(e.litlen) + ZopfliGetDistExtraBits(e.dist)
FixedSize(entries) == 3 + 7 + SumSeq([k \in DOMAIN entries |-> FixedBits(entries[k])])
-----------------------------------------------------------------------------
(* ReplaceBadCodes: a short match that costs more than its bytes do becomes  *)
(* these bytes. data is the input and pos where the entries start.           *)

Replacement(e, data, pos, ll, d) ==
  LET bytes == [k \in 1 .. e.litlen |-> data[pos - e.dist + k]]
      price == ll[ZopfliGetLengthSymbol(e.litlen)] + ZopfliGetLengthExtraBits(e.litlen)
               + d[ZopfliGetDistSymbol(e.dist)] + ZopfliGetDistExtraBits(e.dist)
  IN IF /\ e.dist # 0 /\ e.litlen \in 3 .. 7
        /\ \A k \in DOMAIN bytes : ll[bytes[k]] > 0
        /\ SumSeq([k \in DOMAIN bytes |-> ll[bytes[k]]]) < price
       THEN [k \in DOMAIN bytes |-> [litlen |-> bytes[k], dist |-> 0]]
       ELSE <<e>>

LengthOf(e) == IF e.dist = 0 THEN 1 ELSE e.litlen

RECURSIVE ReplaceBadCodes(_, _, _, _, _)
ReplaceBadCodes(entries, data, pos, ll, d) ==
  IF entries = <<>> THEN <<>>
  ELSE Replacement(Head(entries), data, pos, ll, d)
       \o ReplaceBadCodes(Tail(entries), data, pos + LengthOf(Head(entries)), ll, d)
-----------------------------------------------------------------------------
(* Bits, in the order in which they are written.                             *)

Bits(value, n) == [k \in 1 .. n |-> (value \div 2 ^ (k - 1)) % 2]
HuffmanBits(code, n) == [k \in 1 .. n |-> (code \div 2 ^ (n - k)) % 2]

\* ZopfliLengthsToSymbols: the code of s
RECURSIVE next_code(_, _)
next_code(len, bits) ==
  IF bits = 1 THEN 0
  ELSE (next_code(len, bits - 1) + Cardinality({s \in DOMAIN len : len[s] = bits - 1})) * 2
CodeBits(len, s) ==
  HuffmanBits(next_code(len, len[s]) + Cardinality({t \in DOMAIN len : t < s /\ len[t] = len[s]}), len[s])

TreeBits(ll, d, o) ==
  LET rle == RleOf(RowsOf(ll, d), o)
      counts == clcounts(rle)
      clcl == LimitedLengths(counts, 7)
  IN Bits(hlit(ll), 5) \o Bits(hdist(d), 5) \o Bits(hclen(counts), 4)
     \o Flat([k \in 1 .. hclen(counts) + 4 |-> Bits(clcl[order[k]], 3)])
     \o Flat([k \in DOMAIN rle |->
                CodeBits(clcl, rle[k].rle) \o Bits(rle[k].rle_bits, ExtraBits(rle[k].rle))])

\* AddLZ77Data, of one entry
EntryBits(e, ll, d) ==
  IF e.dist = 0 THEN CodeBits(ll, e.litlen)
  ELSE CodeBits(ll, ZopfliGetLengthSymbol(e.litlen))
       \o Bits(ZopfliGetLengthExtraBitsValue(e.litlen), ZopfliGetLengthExtraBits(e.litlen))
       \o CodeBits(d, ZopfliGetDistSymbol(e.dist))
       \o Bits(ZopfliGetDistExtraBitsValue(e.dist), ZopfliGetDistExtraBits(e.dist))
=============================================================================
