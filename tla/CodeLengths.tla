----------------------------- MODULE CodeLengths -----------------------------
(***************************************************************************)
(* What limited code lengths are: a length for every symbol that occurs,   *)
(* at most maxbits and such that the lengths form a prefix code, with the  *)
(* least total. PackageMerge finds them; katajainen.c is a version of it   *)
(* that keeps two items of each list instead of all (module Katajainen).   *)
(***************************************************************************)
EXTENDS Integers, Sequences, FiniteSets, FiniteSetsExt, SequencesExt

Occurring(freq) == {s \in DOMAIN freq : freq[s] > 0}
\* the symbols that occur, of 0, 1, ..., by frequency and, where that is equal, by symbol
Before(freq, s, t) == freq[s] < freq[t] \/ (freq[s] = freq[t] /\ s < t)
InOrder(freq) == SelectSeq([k \in 1 .. Cardinality(DOMAIN freq) |-> k - 1], LAMBDA s : freq[s] > 0)
Ascending(freq) == SortSeq(InOrder(freq), LAMBDA s, t : Before(freq, s, t))

Total(freq, len) == MapThenSumSet(LAMBDA s : freq[s] * len[s], Occurring(freq))

\* Kraft's sum, times 2^maxbits
Kraft(len, limit) == MapThenSumSet(LAMBDA s : 2 ^ (limit - len[s]), {s \in DOMAIN len : len[s] > 0})
-----------------------------------------------------------------------------
(* Package-merge. An item is a leaf or a package of two items of the list    *)
(* below; the items are in the order of their weights.                       *)

\* of equal weights the package comes first
Merge(leaves, packages) ==
  LET merged[l \in 0 .. Len(leaves), p \in 0 .. Len(packages)] ==  \* l of the one, p of the others
        IF l = 0 \/ p = 0 THEN SubSeq(leaves, 1, l) \o SubSeq(packages, 1, p)
        ELSE IF packages[p].weight <= leaves[l].weight
          THEN Append(merged[l - 1, p], leaves[l])
          ELSE Append(merged[l, p - 1], packages[p])
  IN merged[Len(leaves), Len(packages)]

Packages(items) ==
  [k \in 1 .. Len(items) \div 2 |->
     [weight |-> items[2 * k - 1].weight + items[2 * k].weight, leaf |-> FALSE]]

\* Of the first n items of the list the leaves are in use, and in the list below
\* the items of the packages: for each list, from this one down, its leaves in use.
Actives(lists, n) ==
  LET Below(r, list) ==
        LET leaves == Len(SelectSeq(SubSeq(list, 1, r.used), LAMBDA item : item.leaf))
        IN [used |-> 2 * (r.used - leaves), actives |-> Append(r.actives, leaves)]
  IN FoldLeft(Below, [used |-> n, actives |-> <<>>], Reverse(lists)).actives

Lists(leaves, limit) ==
  FoldLeft(LAMBDA below, k : Append(below, Merge(leaves, Packages(Last(below)))),
           <<leaves>>, [k \in 1 .. limit - 1 |-> k])

PackageMerge(order, freq, limit) ==
  LET leaves == [k \in DOMAIN order |-> [weight |-> freq[order[k]], leaf |-> TRUE]]
  IN Actives(Lists(leaves, limit), 2 * Len(order) - 2)

\* one symbol alone has a bit of its own
LimitedLengths(freq, maxbits) ==
  LET order == Ascending(freq)
      n == Len(order)
      limit == IF n - 1 < maxbits THEN n - 1 ELSE maxbits
      actives == PackageMerge(order, freq, limit)
      LengthOf(k) == IF n <= 2 THEN 1 ELSE Cardinality({j \in 1 .. limit : actives[j] >= k})
  IN [s \in Range(order) |-> LengthOf(CHOOSE k \in 1 .. n : order[k] = s)] @@ [s \in DOMAIN freq |-> 0]
=============================================================================
