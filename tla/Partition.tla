------------------------------ MODULE Partition ------------------------------
(* Split points: the interface between block splitting, which chooses them,  *)
(* and DeflateSplittingFirst, which makes one block of each piece.           *)
EXTENDS Integers, Sequences

\* The points of s cut from .. to into non-empty pieces, in order.
IsSplit(s, from, to) ==
  /\ \A a \in 1 .. Len(s) : from < s[a] /\ s[a] < to
  /\ \A a, b \in 1 .. Len(s) : a < b => s[a] < s[b]

Splits(from, to) ==
  {s \in UNION {[1 .. n -> from + 1 .. to - 1] : n \in 0 .. to - from - 1} : IsSplit(s, from, to)}

\* piece k of those, from 0 on
PieceStart(s, from, k) == IF k = 0 THEN from ELSE s[k]
PieceEnd(s, to, k) == IF k = Len(s) THEN to ELSE s[k + 1]
=============================================================================
