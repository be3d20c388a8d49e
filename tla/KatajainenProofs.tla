-------------------------- MODULE KatajainenProofs --------------------------
(***************************************************************************)
(* Proofs about Katajainen: for all frequencies of up to 512 symbols, both *)
(* limits, and each way in which the three methods of the sort come to be  *)
(* combined.                                                               *)
(*                                                                         *)
(* The sort: what is on the stack of segments covers all that is not in    *)
(* order (Apart), and each method does its part inside the segment at the  *)
(* top. None of the methods that are used with packed weights is stable;   *)
(* that packed weights tell the symbols is what makes the order one only.  *)
(*                                                                         *)
(* The pool: it has no counter for packages, so the invariant says that    *)
(* there are numbers of packages that agree with the leaves that the lists *)
(* have come to, with the stack and with the turns of the loop. No list    *)
(* has as many packages as leaves until it has all leaves, since the list  *)
(* below would have come further and its next leaf be cheaper.             *)
(*                                                                         *)
(* The lengths: a chain is no longer than the lists it can come from, and  *)
(* by the accounts of the last turn the final one has all leaves in use.   *)
(***************************************************************************)
EXTENDS Katajainen, SequenceTheorems, FiniteSetTheorems, WellFoundedInduction, TLAPS

\* a leaf, and what may be sorted
Leaves == [weight : Nat, count : Nat]
Sorting == pc \in {"sort", "insertion", "build", "heapify", "extract", "partition"}
IsPacked == Sorting /\ numsymbols > Cutoff

\* the symbols that have a leaf, and the weights of these
Known == {s \in DOMAIN job.freq : job.freq[s] > 0 /\ (pc = "count" => s < i)}
SymbolSet == 0 .. SymbolLimit - 1
Pack(f, s) == f * SymbolLimit + s
Key(s) == IF IsPacked THEN Pack(job.freq[s], s) ELSE job.freq[s]
Keys == [s \in DOMAIN job.freq |-> Key(s)]

\* The array a has one leaf for each symbol in S, of the weight w[s].
IsArray(a, S, w) ==
  /\ a \in Seq(Leaves)
  /\ \A k \in 1 .. Len(a) : a[k].count \in S /\ a[k].weight = w[a[k].count]
  /\ \A k, l \in 1 .. Len(a) : a[k].count = a[l].count => k = l
  /\ \A s \in S : \E k \in 1 .. Len(a) : a[k].count = s

\* Leaves of equal weight are in the order of their symbols.
Ties(a) == \A k, l \in 1 .. Len(a) : k < l /\ a[k].weight = a[l].weight => a[k].count < a[l].count

\* what the leaves are
LeavesInv ==
  /\ job \in Jobs
  /\ IsArray(leaves, Known, Keys)
  /\ pc = "count" => i \in Nat /\ \A k, l \in 1 .. numsymbols : k < l => leaves[k].count < leaves[l].count
  /\ Sorting => numsymbols > 2 /\ Ties(leaves)

\* the place k is in the segment s
In(k, s) == k \in s.lo .. s.hi
\* the array a is sorted but for the segments s
Apart(a, s) ==
  \A k, l \in 1 .. Len(a) : k < l =>
     (\E x \in 1 .. Len(s) : In(k, s[x]) /\ In(l, s[x])) \/ a[k].weight <= a[l].weight

\* s is a sequence of segments without a common place
AreSegments(s, n) ==
  /\ s \in Seq([lo : Nat, hi : Nat, depth : Int])
  /\ \A x \in 1 .. Len(s) : 1 <= s[x].lo /\ s[x].hi <= n
  /\ \A x, y \in 1 .. Len(s) : \A k \in Nat : In(k, s[x]) /\ In(k, s[y]) => x = y

\* one of the methods is at work on the segment at the top
Busy == pc \in {"insertion", "build", "heapify", "extract", "partition"}
SegmentsInv ==
  /\ Sorting => AreSegments(segments, numsymbols) /\ Apart(leaves, segments)
  /\ Busy => segments # <<>>
  /\ Busy /\ pc # "insertion" => size > Cutoff

\* insertion_sort has sorted what is before at
InsertionInv ==
  pc = "insertion" =>
    /\ at \in Nat /\ at > segment.lo
    /\ \A k, l \in segment.lo .. segment.hi : k < l /\ l < at => leaves[k].weight <= leaves[l].weight

\* the nodes of a heap
IsSon(c, p) == c = 2 * p + 1 \/ c = 2 * p + 2
\* In the part of a that begins at lo the sons of the nodes from s on, among the first n, are not heavier.
Heap(a, lo, s, n) ==
  \A p \in Nat, c \in Nat : s <= p /\ c < n /\ IsSon(c, p) => a[lo + c].weight <= a[lo + p].weight
\* the same but for the sons of x, which sinks; these are not heavier than its father
Sinking(a, lo, s, n, x) ==
  /\ \A p \in Nat, c \in Nat : s <= p /\ c < n /\ IsSon(c, p) /\ p # x => a[lo + c].weight <= a[lo + p].weight
  /\ \A p \in Nat, c \in Nat : s <= p /\ c < n /\ IsSon(x, p) /\ IsSon(c, x) => a[lo + c].weight <= a[lo + p].weight
\* of the m leaves there those from n on are in their places
Settled(a, lo, n, m) ==
  \A p, q \in 0 .. m - 1 : p < q /\ n <= q => a[lo + p].weight <= a[lo + q].weight

\* heap_sort has built the heap from the node at on, or taken out all that is behind at
HeapInv ==
  /\ pc = "build" => at \in 0 .. size /\ Heap(leaves, segment.lo, at, size)
  /\ pc = "extract" => at \in 1 .. size /\ Heap(leaves, segment.lo, 0, at) /\ Settled(leaves, segment.lo, at, size)
  /\ pc = "heapify" =>
       /\ node \in 0 .. bound - 1
       /\ \/ bound = size /\ at \in 0 .. size /\ node >= at /\ Sinking(leaves, segment.lo, at, size, node)
          \/ /\ bound = at /\ at \in 1 .. size - 1
             /\ Sinking(leaves, segment.lo, 0, at, node) /\ Settled(leaves, segment.lo, at, size)

\* sort_partition has found nothing up to from that is greater, from to on nothing that is less,
\* and between them both of its loops will stop
PartitionInv ==
  pc = "partition" =>
    /\ pivot \in Leaves
    /\ from \in segment.lo - 1 .. segment.hi /\ to \in segment.lo .. segment.hi + 1 /\ from < to
    /\ \A k \in segment.lo .. from : leaves[k].weight <= pivot.weight
    /\ \A k \in to .. segment.hi : leaves[k].weight >= pivot.weight
    /\ \E k \in from + 1 .. segment.hi : leaves[k].weight >= pivot.weight
    /\ \E k \in segment.lo .. to - 1 : leaves[k].weight <= pivot.weight

\* the sort is over
Merging == pc \in {"init", "runs"}
SortedInv == Merging => numsymbols > 2 /\ StableOrder

\* what holds until the lists are made, and of the leaves even then
SortInv == LeavesInv /\ SegmentsInv /\ InsertionInv /\ HeapInv /\ PartitionInv /\ SortedInv
-----------------------------------------------------------------------------
(* Arrays *)

\* What an array is made of.
LEMMA ArrayIs ==
  ASSUME NEW S, NEW w, NEW a, IsArray(a, S, w)
  PROVE  /\ a \in Seq(Leaves) /\ Len(a) \in Nat /\ DOMAIN a = 1 .. Len(a)
         /\ \A k \in 1 .. Len(a) : a[k] \in Leaves /\ a[k].weight \in Nat /\ a[k].count \in Nat
<1>1. a \in Seq(Leaves) /\ Len(a) \in Nat /\ DOMAIN a = 1 .. Len(a)
  BY LenProperties DEF IsArray
<1>2. ASSUME NEW k \in 1 .. Len(a) PROVE a[k] \in Leaves
  BY <1>1, ElementOfSeq
<1>. QED  BY <1>1, <1>2 DEF Leaves

\* b is a with the leaves from lo to hi in another order.
Within(a, b, lo, hi) ==
  /\ b \in Seq(Leaves) /\ Len(b) = Len(a)
  /\ \A k \in 1 .. Len(a) : k \notin lo .. hi => b[k] = a[k]
  /\ \A k \in lo .. hi : \E l \in lo .. hi : b[k] = a[l]

\* f exchanges n places.
IsExchange(f, n) ==
  /\ f \in [1 .. n -> 1 .. n]
  /\ \A k, l \in 1 .. n : f[k] = f[l] => k = l
  /\ \A k \in 1 .. n : \E l \in 1 .. n : f[l] = k

\* The leaves stay what they are when their places are exchanged.
LEMMA Rearranged ==
  ASSUME NEW S, NEW w, NEW a, IsArray(a, S, w), NEW f, IsExchange(f, Len(a)),
         NEW b, b = [k \in 1 .. Len(a) |-> a[f[k]]]
  PROVE  IsArray(b, S, w) /\ Len(b) = Len(a)
<1>0. /\ f \in [1 .. Len(a) -> 1 .. Len(a)]
      /\ \A k, l \in 1 .. Len(a) : f[k] = f[l] => k = l
      /\ \A k \in 1 .. Len(a) : \E l \in 1 .. Len(a) : f[l] = k
  BY DEF IsExchange
<1>1. Len(a) \in Nat /\ \A k \in 1 .. Len(a) : a[k] \in Leaves
  BY ArrayIs
<1>2. b \in Seq(Leaves) /\ Len(b) = Len(a)
  <2>1. b \in [1 .. Len(a) -> Leaves]
    BY <1>0, <1>1
  <2>. QED  BY <1>1, <2>1, LenProperties, IsASeq
<1>3. \A k \in 1 .. Len(a) : f[k] \in 1 .. Len(a) /\ b[k] = a[f[k]]
  BY <1>0
<1>4. ASSUME NEW s \in S PROVE \E k \in 1 .. Len(b) : b[k].count = s
  <2>1. PICK l \in 1 .. Len(a) : a[l].count = s
    BY DEF IsArray
  <2>2. PICK k \in 1 .. Len(a) : f[k] = l
    BY <1>0, <2>1
  <2>. QED  BY <1>2, <1>3, <2>1, <2>2
<1>5. ASSUME NEW k \in 1 .. Len(a), NEW l \in 1 .. Len(a), b[k].count = b[l].count PROVE k = l
  <2>1. f[k] = f[l]
    BY <1>3, <1>5 DEF IsArray
  <2>. QED  BY <1>0, <2>1
<1>6. \A k \in 1 .. Len(a) : b[k].count \in S /\ b[k].weight = w[b[k].count]
  BY <1>3 DEF IsArray
<1>. QED  BY <1>2, <1>4, <1>5, <1>6 DEF IsArray

\* two leaves change places
LEMMA SwapIs ==
  ASSUME NEW S, NEW w, NEW a, IsArray(a, S, w), NEW m \in 1 .. Len(a), NEW n \in 1 .. Len(a)
  PROVE  /\ IsArray(Swapped(a, m, n), S, w) /\ Len(Swapped(a, m, n)) = Len(a)
         /\ \A k \in 1 .. Len(a) : Swapped(a, m, n)[k] = IF k = m THEN a[n] ELSE IF k = n THEN a[m] ELSE a[k]
<1>1. Len(a) \in Nat /\ DOMAIN a = 1 .. Len(a) /\ a \in Seq(Leaves)
  BY ArrayIs
<1>. DEFINE f == [k \in 1 .. Len(a) |-> IF k = m THEN n ELSE IF k = n THEN m ELSE k]
            b == [k \in 1 .. Len(a) |-> a[f[k]]]
<1>2. Swapped(a, m, n) = b
  <2>1. a = [k \in 1 .. Len(a) |-> a[k]]
    BY <1>1
  <2>2. DOMAIN Swapped(a, m, n) = 1 .. Len(a) /\ DOMAIN b = 1 .. Len(a)
    BY <1>1 DEF Swapped
  <2>3. ASSUME NEW k \in 1 .. Len(a) PROVE Swapped(a, m, n)[k] = b[k]
    BY <1>1 DEF Swapped
  <2>4. Swapped(a, m, n) = [k \in 1 .. Len(a) |-> Swapped(a, m, n)[k]]
    BY <1>1 DEF Swapped
  <2>. QED  BY <2>3, <2>4
<1>3. f \in [1 .. Len(a) -> 1 .. Len(a)] /\ \A k, l \in 1 .. Len(a) : f[k] = f[l] => k = l
  OBVIOUS
<1>4. ASSUME NEW k \in 1 .. Len(a) PROVE \E l \in 1 .. Len(a) : f[l] = k
  <2>1. f[f[k]] = k /\ f[k] \in 1 .. Len(a)
    OBVIOUS
  <2>. QED  BY <2>1
<1>5. IsArray(b, S, w) /\ Len(b) = Len(a)
  <2>1. b = [k \in 1 .. Len(a) |-> a[f[k]]]
    OBVIOUS
  <2>. HIDE DEF f, b
  <2>2. IsExchange(f, Len(a))
    BY <1>3, <1>4 DEF IsExchange
  <2>. QED  BY <2>1, <2>2, Rearranged
<1>6. \A k \in 1 .. Len(a) : b[k] = IF k = m THEN a[n] ELSE IF k = n THEN a[m] ELSE a[k]
  OBVIOUS
<1>. QED  BY <1>2, <1>5, <1>6

\* within the segment that both are in
LEMMA SwapWithin ==
  ASSUME NEW S, NEW w, NEW a, IsArray(a, S, w), NEW lo \in 1 .. Len(a), NEW hi \in 1 .. Len(a),
         NEW m \in lo .. hi, NEW n \in lo .. hi
  PROVE  Within(a, Swapped(a, m, n), lo, hi)
<1>1. Len(a) \in Nat
  BY ArrayIs
<1>2. m \in 1 .. Len(a) /\ n \in 1 .. Len(a) /\ \A k \in lo .. hi : k \in 1 .. Len(a)
  BY <1>1
<1>. DEFINE b == Swapped(a, m, n)
<1>3. /\ IsArray(b, S, w) /\ Len(b) = Len(a)
      /\ \A k \in 1 .. Len(a) : b[k] = IF k = m THEN a[n] ELSE IF k = n THEN a[m] ELSE a[k]
  BY <1>2, SwapIs
<1>. HIDE DEF b
<1>4. b \in Seq(Leaves)
  BY <1>3, ArrayIs
<1>5. \A k \in 1 .. Len(a) : k \notin lo .. hi => b[k] = a[k]
  BY <1>3
<1>6. ASSUME NEW k \in lo .. hi PROVE \E l \in lo .. hi : b[k] = a[l]
  BY <1>2, <1>3
<1>7. Within(a, b, lo, hi)
  BY <1>3, <1>4, <1>5, <1>6 DEF Within
<1>. QED  BY <1>7 DEF b

\* a leaf is moved from n forward to j
LEMMA InsertIs ==
  ASSUME NEW S, NEW w, NEW a, IsArray(a, S, w), NEW j \in 1 .. Len(a), NEW n \in j .. Len(a)
  PROVE  /\ IsArray(Inserted(a, j, n), S, w) /\ Len(Inserted(a, j, n)) = Len(a)
         /\ \A k \in 1 .. Len(a) :
              Inserted(a, j, n)[k] = IF k = j THEN a[n] ELSE IF k \in j + 1 .. n THEN a[k - 1] ELSE a[k]
<1>1. Len(a) \in Nat /\ DOMAIN a = 1 .. Len(a) /\ n \in 1 .. Len(a)
  BY ArrayIs
<1>. DEFINE f == [k \in 1 .. Len(a) |-> IF k = j THEN n ELSE IF k \in j + 1 .. n THEN k - 1 ELSE k]
            b == [k \in 1 .. Len(a) |-> a[f[k]]]
<1>2. \A k \in 1 .. Len(a) : b[k] = IF k = j THEN a[n] ELSE IF k \in j + 1 .. n THEN a[k - 1] ELSE a[k]
  OBVIOUS
<1>3. Inserted(a, j, n) = b
  BY <1>1, <1>2 DEF Inserted
<1>4. f \in [1 .. Len(a) -> 1 .. Len(a)] /\ \A k, l \in 1 .. Len(a) : f[k] = f[l] => k = l
  <2>1. ASSUME NEW k \in 1 .. Len(a) PROVE f[k] \in 1 .. Len(a)
    BY <1>1
  <2>2. ASSUME NEW k \in 1 .. Len(a), NEW l \in 1 .. Len(a), f[k] = f[l] PROVE k = l
    BY <1>1, <2>2
  <2>. QED  BY <2>1, <2>2
<1>5. ASSUME NEW k \in 1 .. Len(a) PROVE \E l \in 1 .. Len(a) : f[l] = k
  <2>1. CASE k = n
    BY <2>1
  <2>2. CASE k \in j .. n - 1
    <3>1. k + 1 \in 1 .. Len(a) /\ k + 1 \in j + 1 .. n /\ k + 1 # j /\ (k + 1) - 1 = k
      BY <1>1, <2>2
    <3>2. f[k + 1] = k
      BY <3>1
    <3>. QED  BY <3>1, <3>2
  <2>3. CASE k < j \/ k > n
    <3>1. f[k] = k
      BY <1>1, <2>3
    <3>. QED  BY <3>1
  <2>. QED  BY <1>1, <2>1, <2>2, <2>3
<1>6. IsArray(b, S, w) /\ Len(b) = Len(a)
  <2>1. b = [k \in 1 .. Len(a) |-> a[f[k]]]
    OBVIOUS
  <2>. HIDE DEF f, b
  <2>2. IsExchange(f, Len(a))
    BY <1>4, <1>5 DEF IsExchange
  <2>. QED  BY <2>1, <2>2, Rearranged
<1>. QED  BY <1>2, <1>3, <1>6
-----------------------------------------------------------------------------
(* Stacks *)

\* what is left when the last element is taken
LEMMA FrontIs ==
  ASSUME NEW R, NEW s \in Seq(R), s # <<>>
  PROVE  /\ Len(s) \in Nat /\ Len(s) >= 1 /\ Last(s) = s[Len(s)] /\ Last(s) \in R
         /\ Front(s) \in Seq(R) /\ Len(Front(s)) = Len(s) - 1
         /\ \A x \in 1 .. Len(s) - 1 : Front(s)[x] = s[x]
<1>1. Len(s) \in Nat /\ Len(s) >= 1
  BY EmptySeq
<1>2. Len(s) \in 1 .. Len(s) /\ Len(s) - 1 \in Int /\ 1 \in Int
  BY <1>1
<1>3. \A x \in 1 .. Len(s) - 1 : s[x] \in R
  BY <1>1, ElementOfSeq
<1>. DEFINE n == Len(s) - 1
<1>4. n \in Int /\ n >= 0 /\ n = Len(s) - 1
  BY <1>1
<1>5. Front(s) = SubSeq(s, 1, n)
  BY DEF Front
<1>. HIDE DEF n
<1>6. \A x \in 1 .. n : s[x] \in R
  BY <1>3, <1>4
<1>7. /\ SubSeq(s, 1, n) \in Seq(R) /\ Len(SubSeq(s, 1, n)) = (IF 1 <= n THEN n - 1 + 1 ELSE 0)
      /\ \A x \in 1 .. n - 1 + 1 : SubSeq(s, 1, n)[x] = s[1 + x - 1]
  BY <1>2, <1>4, <1>6, SubSeqProperties
<1>8. Len(Front(s)) = n /\ \A x \in 1 .. n : Front(s)[x] = s[x]
  BY <1>4, <1>5, <1>7
<1>. QED  BY <1>1, <1>2, <1>4, <1>5, <1>7, <1>8, ElementOfSeq DEF Last

\* and two are put in its place
Replaced(s, u, v) == Front(s) \o <<u, v>>

\* What that makes of a sequence.
LEMMA TwoForLast ==
  ASSUME NEW R, NEW s \in Seq(R), s # <<>>, NEW u \in R, NEW v \in R
  PROVE  /\ Replaced(s, u, v) \in Seq(R) /\ Len(Replaced(s, u, v)) = Len(s) + 1
         /\ \A x \in 1 .. Len(s) - 1 : Replaced(s, u, v)[x] = s[x]
         /\ Replaced(s, u, v)[Len(s)] = u /\ Replaced(s, u, v)[Len(s) + 1] = v
<1>. DEFINE f == Front(s)
            w == <<u, v>>
            t == f \o w
<1>1. /\ Len(s) \in Nat /\ Len(s) >= 1 /\ f \in Seq(R) /\ Len(f) = Len(s) - 1
      /\ \A x \in 1 .. Len(s) - 1 : f[x] = s[x]
  BY FrontIs
<1>2. w \in Seq(R) /\ Len(w) = 2 /\ w[1] = u /\ w[2] = v
  OBVIOUS
<1>. HIDE DEF f, w
<1>3. /\ t \in Seq(R) /\ Len(t) = Len(f) + Len(w)
      /\ \A x \in 1 .. Len(f) + Len(w) : t[x] = IF x <= Len(f) THEN f[x] ELSE w[x - Len(f)]
  BY <1>1, <1>2, ConcatProperties
<1>. HIDE DEF t
<1>4. Len(f) + Len(w) = Len(s) + 1
  BY <1>1, <1>2
<1>5. ASSUME NEW x \in 1 .. Len(s) - 1 PROVE t[x] = s[x]
  <2>1. x \in 1 .. Len(f) + Len(w) /\ x <= Len(f)
    BY <1>1, <1>4
  <2>. QED  BY <1>1, <1>3, <2>1
<1>6. Len(s) - Len(f) = 1 /\ Len(s) + 1 - Len(f) = 2 /\ Len(s) \in 1 .. Len(s) + 1 /\ Len(s) + 1 \in 1 .. Len(s) + 1
  BY <1>1
<1>7. t[Len(s)] = w[Len(s) - Len(f)] /\ t[Len(s) + 1] = w[Len(s) + 1 - Len(f)]
  <2>1. ~(Len(s) <= Len(f)) /\ ~(Len(s) + 1 <= Len(f))
    BY <1>1
  <2>2. Len(s) \in 1 .. Len(f) + Len(w) /\ Len(s) + 1 \in 1 .. Len(f) + Len(w)
    BY <1>4, <1>6, Zenon
  <2>3. /\ t[Len(s)] = IF Len(s) <= Len(f) THEN f[Len(s)] ELSE w[Len(s) - Len(f)]
        /\ t[Len(s) + 1] = IF Len(s) + 1 <= Len(f) THEN f[Len(s) + 1] ELSE w[Len(s) + 1 - Len(f)]
    BY <1>3, <2>2
  <2>. QED  BY <2>1, <2>3
<1>8. t[Len(s)] = u /\ t[Len(s) + 1] = v
  BY <1>2, <1>6, <1>7
<1>9. t \in Seq(R) /\ Len(t) = Len(s) + 1
  BY <1>3, <1>4
<1>. QED  BY <1>5, <1>8, <1>9 DEF Replaced, t, f, w
-----------------------------------------------------------------------------
(* Segments *)

\* what segments are made of
LEMMA SegmentsAre ==
  ASSUME NEW n \in Nat, NEW s, AreSegments(s, n)
  PROVE  /\ Len(s) \in Nat
         /\ \A x \in 1 .. Len(s) : /\ s[x] \in [lo : Nat, hi : Nat, depth : Int]
                                   /\ s[x].lo \in Nat /\ s[x].hi \in Nat /\ 1 <= s[x].lo /\ s[x].hi <= n
         /\ s # <<>> => Len(s) \in 1 .. Len(s) /\ Last(s) = s[Len(s)]
<1>1. s \in Seq([lo : Nat, hi : Nat, depth : Int]) /\ Len(s) \in Nat
  BY LenProperties DEF AreSegments
<1>2. \A x \in 1 .. Len(s) : s[x] \in [lo : Nat, hi : Nat, depth : Int]
  BY <1>1, ElementOfSeq
<1>3. s # <<>> => Len(s) \in 1 .. Len(s)
  BY <1>1, EmptySeq
<1>. QED  BY <1>1, <1>2, <1>3 DEF AreSegments, Last

\* Another order inside one segment does not disturb the others.
LEMMA ApartKept ==
  ASSUME NEW a \in Seq(Leaves), NEW b, NEW s, AreSegments(s, Len(a)), Apart(a, s), NEW x \in 1 .. Len(s),
         Within(a, b, s[x].lo, s[x].hi)
  PROVE  Apart(b, s) /\ AreSegments(s, Len(b))
<1>1. Len(a) \in Nat
  BY LenProperties
<1>2. Len(s) \in Nat /\ s[x].lo \in Nat /\ s[x].hi \in Nat /\ 1 <= s[x].lo /\ s[x].hi <= Len(a)
  BY <1>1, SegmentsAre
<1>. DEFINE lo == s[x].lo
            hi == s[x].hi
<1>3. /\ Len(b) = Len(a) /\ \A k \in 1 .. Len(a) : k \notin lo .. hi => b[k] = a[k]
      /\ \A k \in lo .. hi : \E l \in lo .. hi : b[k] = a[l]
  BY DEF Within
<1>4. SUFFICES ASSUME NEW k \in 1 .. Len(a), NEW l \in 1 .. Len(a), k < l,
                      ~\E y \in 1 .. Len(s) : In(k, s[y]) /\ In(l, s[y])
               PROVE  b[k].weight <= b[l].weight
  BY <1>3 DEF Apart
<1>5. \A y \in 1 .. Len(s), m \in Nat : m \in lo .. hi /\ In(m, s[y]) => y = x
  BY DEF AreSegments, In
<1>6. ASSUME NEW p \in 1 .. Len(a), NEW q \in 1 .. Len(a), p < q, p \in lo .. hi <=> q \notin lo .. hi
      PROVE  a[p].weight <= a[q].weight
  <2>1. ~\E y \in 1 .. Len(s) : In(p, s[y]) /\ In(q, s[y])
    <3>1. SUFFICES ASSUME NEW y \in 1 .. Len(s), In(p, s[y]), In(q, s[y]) PROVE FALSE
      OBVIOUS
    <3>2. y = x
      BY <1>5, <1>6, <3>1
    <3>. QED  BY <1>6, <3>1, <3>2 DEF In
  <2>. QED  BY <1>6, <2>1 DEF Apart
<1>7. ~(k \in lo .. hi /\ l \in lo .. hi)
  BY <1>4 DEF In
<1>8. CASE k \in lo .. hi /\ l \notin lo .. hi
  <2>1. PICK m \in lo .. hi : b[k] = a[m]
    BY <1>3, <1>8
  <2>2. m \in 1 .. Len(a) /\ m < l
    BY <1>1, <1>2, <1>4, <1>8
  <2>3. b[l] = a[l]
    BY <1>3, <1>8
  <2>4. a[m].weight <= a[l].weight
    BY <1>6, <1>8, <2>2
  <2>. QED  BY <2>1, <2>3, <2>4
<1>9. CASE k \notin lo .. hi /\ l \in lo .. hi
  <2>1. PICK m \in lo .. hi : b[l] = a[m]
    BY <1>3, <1>9
  <2>2. m \in 1 .. Len(a) /\ k < m
    BY <1>1, <1>2, <1>4, <1>9
  <2>3. b[k] = a[k]
    BY <1>3, <1>9
  <2>4. a[k].weight <= a[m].weight
    BY <1>6, <1>9, <2>2
  <2>. QED  BY <2>1, <2>3, <2>4
<1>10. CASE k \notin lo .. hi /\ l \notin lo .. hi
  <2>1. b[k] = a[k] /\ b[l] = a[l]
    BY <1>3, <1>10
  <2>. QED  BY <1>4, <2>1 DEF Apart
<1>. QED  BY <1>7, <1>8, <1>9, <1>10

\* A segment that is sorted is done.
LEMMA ApartPopped ==
  ASSUME NEW a \in Seq(Leaves), NEW s, AreSegments(s, Len(a)), Apart(a, s), s # <<>>,
         \A k, l \in Last(s).lo .. Last(s).hi : k < l => a[k].weight <= a[l].weight
  PROVE  Apart(a, Front(s)) /\ AreSegments(Front(s), Len(a))
<1>1. Len(a) \in Nat
  BY LenProperties
<1>2. Len(s) \in Nat /\ Len(s) \in 1 .. Len(s) /\ Last(s) = s[Len(s)] /\ s \in Seq([lo : Nat, hi : Nat, depth : Int])
  BY <1>1, SegmentsAre DEF AreSegments
<1>. DEFINE t == Front(s)
<1>3. /\ t \in Seq([lo : Nat, hi : Nat, depth : Int]) /\ Len(t) = Len(s) - 1
      /\ \A x \in 1 .. Len(s) - 1 : t[x] = s[x]
  BY <1>2, FrontIs
<1>. HIDE DEF t
<1>4. ASSUME NEW x \in 1 .. Len(t) PROVE x \in 1 .. Len(s) /\ t[x] = s[x]
  <2>1. Len(t) = Len(s) - 1
    BY <1>3
  <2>2. x \in 1 .. Len(s) - 1
    BY <2>1
  <2>3. t[x] = s[x]
    BY <1>3, <2>2
  <2>. QED  BY <1>2, <2>2, <2>3
<1>5. AreSegments(t, Len(a))
  BY <1>3, <1>4 DEF AreSegments
<1>6. ASSUME NEW k \in 1 .. Len(a), NEW l \in 1 .. Len(a), k < l,
             ~\E x \in 1 .. Len(t) : In(k, t[x]) /\ In(l, t[x])
      PROVE  a[k].weight <= a[l].weight
  <2>1. CASE In(k, Last(s)) /\ In(l, Last(s))
    BY <1>6, <2>1 DEF In
  <2>2. CASE ~(In(k, Last(s)) /\ In(l, Last(s)))
    <3>1. ~\E x \in 1 .. Len(s) : In(k, s[x]) /\ In(l, s[x])
      <4>1. SUFFICES ASSUME NEW x \in 1 .. Len(s), In(k, s[x]), In(l, s[x]) PROVE FALSE
        OBVIOUS
      <4>2. x # Len(s)
        BY <1>2, <2>2, <4>1
      <4>3. x \in 1 .. Len(t)
        BY <1>2, <1>3, <4>2, SMTT(40)
      <4>. QED  BY <1>4, <1>6, <4>1, <4>3
    <3>. QED  BY <1>6, <3>1 DEF Apart
  <2>. QED  BY <2>1, <2>2
<1>7. Apart(a, t)
  BY <1>6 DEF Apart
<1>. QED  BY <1>5, <1>7 DEF t

\* A segment may be cut in two where all before is not heavier than all behind.
LEMMA ApartCut ==
  ASSUME NEW a \in Seq(Leaves), NEW s, AreSegments(s, Len(a)), Apart(a, s), s # <<>>,
         NEW d \in Nat, Last(s).lo <= d + 1, d <= Last(s).hi, NEW depth \in Int,
         \A k \in Last(s).lo .. d, l \in d + 1 .. Last(s).hi : a[k].weight <= a[l].weight,
         NEW u, NEW v,
         \/ u = Segment(Last(s).lo, d, depth) /\ v = Segment(d + 1, Last(s).hi, depth)
         \/ v = Segment(Last(s).lo, d, depth) /\ u = Segment(d + 1, Last(s).hi, depth)
  PROVE  Apart(a, Front(s) \o <<u, v>>) /\ AreSegments(Front(s) \o <<u, v>>, Len(a))
<1>1. Len(a) \in Nat
  BY LenProperties
<1>. DEFINE R == [lo : Nat, hi : Nat, depth : Int]
            z == Last(s)
            t == Replaced(s, u, v)
<1>2. Len(s) \in Nat /\ Len(s) \in 1 .. Len(s) /\ z = s[Len(s)] /\ s \in Seq(R)
  BY <1>1, SegmentsAre DEF AreSegments
<1>3. z.lo \in Nat /\ z.hi \in Nat /\ 1 <= z.lo /\ z.hi <= Len(a)
  BY <1>1, <1>2, SegmentsAre
<1>4. u \in R /\ v \in R
  BY <1>3 DEF Segment
<1>5. /\ t \in Seq(R) /\ Len(t) = Len(s) + 1
      /\ \A x \in 1 .. Len(s) - 1 : t[x] = s[x]
      /\ t[Len(s)] = u /\ t[Len(s) + 1] = v
  <2>1. s \in Seq(R) /\ u \in R /\ v \in R /\ s # <<>>
    BY <1>2, <1>4
  <2>. HIDE DEF R
  <2>. QED  BY <2>1, TwoForLast
<1>. HIDE DEF t, z, R
<1>6. /\ z.lo <= d + 1 /\ d <= z.hi
      /\ \A k \in z.lo .. d, l \in d + 1 .. z.hi : a[k].weight <= a[l].weight
      /\ \/ u = Segment(z.lo, d, depth) /\ v = Segment(d + 1, z.hi, depth)
         \/ v = Segment(z.lo, d, depth) /\ u = Segment(d + 1, z.hi, depth)
  BY DEF z
<1>7. \A k \in Nat : /\ In(k, u) \/ In(k, v) <=> In(k, z)
                     /\ ~(In(k, u) /\ In(k, v))
  BY <1>3, <1>6 DEF In, Segment
<1>8. \A x \in 1 .. Len(t) : \/ x \in 1 .. Len(s) - 1 /\ x \in 1 .. Len(s) /\ x # Len(s) /\ t[x] = s[x]
                             \/ x = Len(s) /\ t[x] = u
                             \/ x = Len(s) + 1 /\ t[x] = v
  <2>1. \A l \in Nat : \A x \in 1 .. l + 1 :
          x = l \/ x = l + 1 \/ (x \in 1 .. l - 1 /\ x \in 1 .. l /\ x # l)
    OBVIOUS
  <2>2. \A x \in 1 .. Len(t) : x = Len(s) \/ x = Len(s) + 1 \/ (x \in 1 .. Len(s) - 1 /\ x \in 1 .. Len(s) /\ x # Len(s))
    BY <1>2, <1>5, <2>1, Zenon
  <2>. QED  BY <1>5, <2>2, Zenon
<1>9. ASSUME NEW x \in 1 .. Len(t), NEW y \in 1 .. Len(t), NEW k \in Nat, In(k, t[x]), In(k, t[y])
      PROVE  x = y
  <2>1. \A p, q \in 1 .. Len(s) : In(k, s[p]) /\ In(k, s[q]) => p = q
    BY DEF AreSegments
  <2>2. Len(s) \in 1 .. Len(s)
    BY <1>2
  <2>3. x \in 1 .. Len(s) - 1 /\ y \in 1 .. Len(s) - 1 => x = y
    <3>1. SUFFICES ASSUME x \in 1 .. Len(s) - 1, y \in 1 .. Len(s) - 1 PROVE x = y
      OBVIOUS
    <3>2. x \in 1 .. Len(s) /\ y \in 1 .. Len(s)
      BY <1>2, <3>1
    <3>3. In(k, s[x]) /\ In(k, s[y])
      BY <1>5, <1>9, <3>1, Zenon
    <3>. QED  BY <2>1, <3>2, <3>3, Zenon
  <2>4. ~(x \in 1 .. Len(s) - 1 /\ y \in {Len(s), Len(s) + 1})
    <3>1. SUFFICES ASSUME x \in 1 .. Len(s) - 1, y \in {Len(s), Len(s) + 1} PROVE FALSE
      OBVIOUS
    <3>2. x \in 1 .. Len(s) /\ x # Len(s) /\ In(k, s[x])
      BY <1>2, <1>5, <1>9, <3>1
    <3>3. In(k, z)
      BY <1>5, <1>7, <1>9, <3>1
    <3>. QED  BY <1>2, <2>1, <2>2, <3>2, <3>3
  <2>5. ~(y \in 1 .. Len(s) - 1 /\ x \in {Len(s), Len(s) + 1})
    <3>1. SUFFICES ASSUME y \in 1 .. Len(s) - 1, x \in {Len(s), Len(s) + 1} PROVE FALSE
      OBVIOUS
    <3>2. y \in 1 .. Len(s) /\ y # Len(s) /\ In(k, s[y])
      BY <1>2, <1>5, <1>9, <3>1
    <3>3. In(k, z)
      BY <1>5, <1>7, <1>9, <3>1
    <3>. QED  BY <1>2, <2>1, <2>2, <3>2, <3>3
  <2>6. x \in {Len(s), Len(s) + 1} /\ y \in {Len(s), Len(s) + 1} => x = y
    BY <1>5, <1>7, <1>9
  <2>. QED  BY <1>8, <2>3, <2>4, <2>5, <2>6
<1>10. \A x \in 1 .. Len(t) : 1 <= t[x].lo /\ t[x].hi <= Len(a)
  <2>1. 1 <= u.lo /\ u.hi <= Len(a) /\ 1 <= v.lo /\ v.hi <= Len(a)
    BY <1>1, <1>3, <1>6 DEF Segment
  <2>2. \A x \in 1 .. Len(s) : 1 <= s[x].lo /\ s[x].hi <= Len(a)
    BY DEF AreSegments
  <2>. QED  BY <1>8, <2>1, <2>2
<1>11. AreSegments(t, Len(a))
  BY <1>5, <1>9, <1>10 DEF AreSegments, R
<1>12. ASSUME NEW k \in 1 .. Len(a), NEW l \in 1 .. Len(a), k < l,
              ~\E x \in 1 .. Len(t) : In(k, t[x]) /\ In(l, t[x])
       PROVE  a[k].weight <= a[l].weight
  <2>1. CASE In(k, z) /\ In(l, z)
    <3>1. Len(s) \in 1 .. Len(t) /\ Len(s) + 1 \in 1 .. Len(t)
      BY <1>2, <1>5
    <3>2. ~(In(k, u) /\ In(l, u)) /\ ~(In(k, v) /\ In(l, v))
      BY <1>5, <1>12, <3>1
    <3>3. k \in z.lo .. d /\ l \in d + 1 .. z.hi
      BY <1>3, <1>6, <1>12, <2>1, <3>2 DEF In, Segment
    <3>. QED  BY <1>6, <3>3
  <2>2. CASE ~(In(k, z) /\ In(l, z))
    <3>1. ~\E x \in 1 .. Len(s) : In(k, s[x]) /\ In(l, s[x])
      <4>1. SUFFICES ASSUME NEW x \in 1 .. Len(s), In(k, s[x]), In(l, s[x]) PROVE FALSE
        OBVIOUS
      <4>2. x \in 1 .. Len(s) - 1
        BY <1>2, <2>2, <4>1
      <4>3. x \in 1 .. Len(t) /\ t[x] = s[x]
        BY <1>2, <1>5, <4>2
      <4>. QED  BY <1>12, <4>1, <4>3
    <3>. QED  BY <1>12, <3>1 DEF Apart
  <2>. QED  BY <2>1, <2>2
<1>13. Apart(a, t)
  BY <1>12 DEF Apart
<1>. QED  BY <1>11, <1>13 DEF t, Replaced
-----------------------------------------------------------------------------
(* Numbers *)

\* a set of natural numbers has a least one
LEMMA LeastExists ==
  ASSUME NEW T, T \subseteq Nat, T # {}
  PROVE  \E m \in T : \A n \in T : m <= n
<1>. DEFINE Below == {0 .. n : n \in T}
<1>1. Below \subseteq FiniteSubsetsOf(Nat) /\ Below # {}
  <2>1. ASSUME NEW n \in Nat PROVE IsFiniteSet(0 .. n) /\ 0 .. n \subseteq Nat
    BY FS_Interval
  <2>. QED  BY <2>1 DEF FiniteSubsetsOf
<1>2. PICK M \in Below : \A N \in Below : <<N, M>> \notin StrictSubsetOrdering(Nat)
  <2>. HIDE DEF Below
  <2>. QED  BY <1>1, WFMin, FS_StrictSubsetOrderingWellFounded
<1>3. PICK m \in T : M = 0 .. m
  BY <1>2
<1>4. ASSUME NEW n \in T PROVE m <= n
  <2>1. ~(n < m)
    <3>1. SUFFICES ASSUME n < m PROVE FALSE
      OBVIOUS
    <3>2. 0 .. n \subseteq 0 .. m /\ m \in 0 .. m /\ m \notin 0 .. n
      BY <3>1
    <3>3. 0 .. n \in FiniteSubsetsOf(Nat) /\ 0 .. m \in FiniteSubsetsOf(Nat)
      BY <1>1
    <3>4. 0 .. n \subseteq Nat /\ 0 .. m \subseteq Nat
      OBVIOUS
    <3>5. <<0 .. n, 0 .. m>> \in StrictSubsetOrdering(Nat)
      BY <3>2, <3>3, <3>4 DEF StrictSubsetOrdering
    <3>. QED  BY <1>2, <1>3, <3>5
  <2>. QED  BY <2>1
<1>. QED  BY <1>4

\* and one that is bounded has a greatest one
LEMMA GreatestExists ==
  ASSUME NEW n \in Nat, NEW T, T \subseteq 0 .. n, T # {}
  PROVE  \E m \in T : \A k \in T : k <= m
<1>. DEFINE U == {n - k : k \in T}
<1>1. U \subseteq Nat /\ U # {}
  <2>1. PICK k \in T : TRUE
    OBVIOUS
  <2>2. n - k \in U
    BY <2>1
  <2>3. \A k2 \in T : n - k2 \in Nat
    OBVIOUS
  <2>. QED  BY <2>2, <2>3
<1>2. PICK u \in U : \A v \in U : u <= v
  <2>. HIDE DEF U
  <2>. QED  BY <1>1, LeastExists
<1>3. PICK m \in T : u = n - m
  OBVIOUS
<1>4. ASSUME NEW k \in T PROVE k <= m
  <2>1. n - k \in U
    OBVIOUS
  <2>2. n - m <= n - k
    BY <1>2, <1>3, <2>1, Zenon
  <2>3. k \in Int /\ m \in Int
    OBVIOUS
  <2>. HIDE DEF U
  <2>. QED  BY <2>2, <2>3
<1>. QED  BY <1>4
-----------------------------------------------------------------------------
(* Keys *)

\* symbols are numbers of nine bits
LEMMA SymbolsAre == \A s \in SymbolSet : s \in Nat /\ s < 512
BY DEF SymbolSet, SymbolLimit

\* what a job has
LEMMA JobIs ==
  ASSUME job \in Jobs
  PROVE  /\ \A s \in DOMAIN job.freq : s \in SymbolSet /\ job.freq[s] \in Nat
         /\ job.maxbits \in 1 .. 15
         /\ Cardinality(Occurring(job.freq)) <= 2 ^ job.maxbits
<1>1. PICK n \in 0 .. SymbolLimit : job.freq \in [0 .. n - 1 -> Nat]
  BY JobsAssumption
<1>2. DOMAIN job.freq = 0 .. n - 1 /\ n \in 0 .. 512
  BY <1>1 DEF SymbolLimit
<1>3. ASSUME NEW s \in DOMAIN job.freq PROVE s \in SymbolSet /\ job.freq[s] \in Nat
  <2>1. s \in 0 .. n - 1 /\ n \in Int /\ n <= 512
    BY <1>2
  <2>2. job.freq[s] \in Nat
    BY <1>1, <2>1
  <2>3. s \in SymbolSet
    BY <2>1 DEF SymbolSet, SymbolLimit
  <2>. QED  BY <2>2, <2>3
<1>4. job.maxbits \in 1 .. 15 /\ Cardinality(Occurring(job.freq)) <= 2 ^ job.maxbits
  BY JobsAssumption
<1>. QED  BY <1>3, <1>4

\* a packed weight
LEMMA PackedIs ==
  ASSUME NEW f \in Nat, NEW s \in SymbolSet
  PROVE  Pack(f, s) \in Nat /\ Pack(f, s) \div SymbolLimit = f
<1>1. s \in Nat /\ s < 512
  BY SymbolsAre
<1>2. f * 512 + s \in Nat /\ (f * 512 + s) \div 512 = f
  BY <1>1
<1>. QED  BY <1>2 DEF Pack, SymbolLimit

\* Packed weights are ordered by the weights and then by the symbols.
LEMMA PackedApart ==
  ASSUME NEW f \in Nat, NEW g \in Nat, NEW s \in SymbolSet, NEW t \in SymbolSet,
         Pack(f, s) <= Pack(g, t)
  PROVE  f < g \/ (f = g /\ s <= t)
<1>1. f * 512 + s <= g * 512 + t
  BY DEF Pack, SymbolLimit
<1>2. s \in Nat /\ s < 512 /\ t \in Nat /\ t < 512
  BY SymbolsAre
<1>. QED  BY <1>1, <1>2

\* Packed weights that are equal are of one symbol.
LEMMA PackedEqual ==
  ASSUME NEW f \in Nat, NEW g \in Nat, NEW s \in SymbolSet, NEW t \in SymbolSet,
         Pack(f, s) = Pack(g, t)
  PROVE  s = t
<1>1. f * 512 + s = g * 512 + t
  BY DEF Pack, SymbolLimit
<1>2. s \in Nat /\ s < 512 /\ t \in Nat /\ t < 512
  BY SymbolsAre
<1>3. f = g
  BY <1>1, <1>2
<1>. QED  BY <1>1, <1>2, <1>3

\* Where weights tell the symbols there are no ties.
LEMMA NoTies ==
  ASSUME NEW S, NEW w, NEW a, IsArray(a, S, w), \A s, t \in S : w[s] = w[t] => s = t
  PROVE  Ties(a)
<1>2. Len(a) \in Nat
  BY ArrayIs
<1>3. ASSUME NEW k \in 1 .. Len(a), NEW l \in 1 .. Len(a), a[k].weight = a[l].weight PROVE k = l
  <2>1. /\ a[k].count \in S /\ a[k].weight = w[a[k].count]
        /\ a[l].count \in S /\ a[l].weight = w[a[l].count]
    BY DEF IsArray
  <2>2. a[k].count = a[l].count
    BY <1>3, <2>1
  <2>. QED  BY <2>2 DEF IsArray
<1>. QED  BY <1>2, <1>3 DEF Ties

\* keys are natural numbers, that of each symbol is another one when it is packed
LEMMA KeysAre ==
  ASSUME job \in Jobs
  PROVE  /\ \A s \in Known : s \in Nat /\ Keys[s] = Key(s) /\ Keys[s] \in Nat
         /\ IsPacked => \A s, t \in Known : Keys[s] = Keys[t] => s = t
<1>1. \A s \in Known : s \in DOMAIN job.freq /\ s \in SymbolSet /\ s \in Nat /\ job.freq[s] \in Nat
  BY JobIs, SymbolsAre DEF Known
<1>2. \A s \in Known : Keys[s] = Key(s) /\ Key(s) \in Nat
  <2>1. \A s \in Known : Pack(job.freq[s], s) \in Nat
    BY <1>1, PackedIs
  <2>2. \A s \in Known : Key(s) \in Nat
    BY <1>1, <2>1 DEF Key
  <2>. QED  BY <1>1, <2>2 DEF Keys
<1>3. ASSUME IsPacked, NEW s \in Known, NEW t \in Known, Keys[s] = Keys[t] PROVE s = t
  <2>1. Pack(job.freq[s], s) = Pack(job.freq[t], t)
    BY <1>2, <1>3 DEF Key
  <2>2. PICK f \in Nat, g \in Nat : f = job.freq[s] /\ g = job.freq[t]
    BY <1>1
  <2>3. s \in SymbolSet /\ t \in SymbolSet /\ Pack(f, s) = Pack(g, t)
    BY <1>1, <2>1, <2>2
  <2>. QED  BY <2>3, PackedEqual
<1>. QED  BY <1>1, <1>2, <1>3
-----------------------------------------------------------------------------
(* Insertion *)

\* There is a place for what is inserted.
LEMMA PlaceIs ==
  ASSUME NEW a \in Seq(Leaves), NEW lo \in 1 .. Len(a), NEW n \in lo .. Len(a)
  PROVE  LET j == PlaceFor(a, lo, n) IN
         /\ j \in lo .. n /\ \A m \in j .. n - 1 : a[n].weight < a[m].weight
         /\ j = lo \/ a[j - 1].weight <= a[n].weight
<1>0. Len(a) \in Nat /\ lo \in Nat /\ n \in Nat /\ \A k \in 1 .. Len(a) : a[k].weight \in Nat
  <2>1. \A k \in 1 .. Len(a) : a[k] \in Leaves
    BY ElementOfSeq
  <2>. QED  BY <2>1, LenProperties DEF Leaves
<1>. DEFINE T == {j \in lo .. n : \A m \in j .. n - 1 : Less(a[n], a[m])}
<1>1. n \in T /\ T \subseteq Nat
  <2>1. n \in lo .. n /\ \A m \in n .. n - 1 : FALSE
    BY <1>0
  <2>2. \A j \in lo .. n : j \in Nat
    BY <1>0
  <2>. QED  BY <2>1, <2>2
<1>2. PICK j \in T : \A k \in T : j <= k
  <2>. HIDE DEF T
  <2>. QED  BY <1>1, LeastExists
<1>3. j \in lo .. n /\ \A m \in j .. n - 1 : Less(a[n], a[m])
  OBVIOUS
<1>4. j = lo \/ ~Less(a[n], a[j - 1])
  <2>1. SUFFICES ASSUME j # lo, Less(a[n], a[j - 1]) PROVE FALSE
    OBVIOUS
  <2>2. j - 1 \in lo .. n /\ \A m \in j - 1 .. n - 1 : m = j - 1 \/ m \in j .. n - 1
    BY <1>0, <1>3, <2>1
  <2>3. j - 1 \in T
    BY <1>3, <2>1, <2>2
  <2>4. j <= j - 1
    <3>. HIDE DEF T
    <3>. QED  BY <1>2, <2>3
  <2>. QED  BY <1>0, <1>3, <2>4
<1>. DEFINE c == PlaceFor(a, lo, n)
<1>5. c \in lo .. n /\ (\A m \in c .. n - 1 : Less(a[n], a[m])) /\ (c = lo \/ ~Less(a[n], a[c - 1]))
  BY <1>3, <1>4 DEF PlaceFor
<1>. HIDE DEF c
<1>6. \A m \in c .. n - 1 : a[n].weight < a[m].weight
  BY <1>5 DEF Less
<1>7. c = lo \/ a[c - 1].weight <= a[n].weight
  <2>1. CASE c # lo
    <3>1. c - 1 \in 1 .. Len(a) /\ n \in 1 .. Len(a)
      BY <1>0, <1>5, <2>1
    <3>. QED  BY <1>0, <1>5, <2>1, <3>1 DEF Less
  <2>. QED  BY <2>1
<1>. QED  BY <1>5, <1>6, <1>7 DEF c

\* what insertion does: one more leaf is in order, and ties stay
LEMMA InsertSorts ==
  ASSUME NEW S, NEW w, NEW a, IsArray(a, S, w), NEW lo \in 1 .. Len(a), NEW hi \in lo .. Len(a), NEW n \in lo .. hi,
         \A k, l \in lo .. hi : k < l /\ l < n => a[k].weight <= a[l].weight,
         NEW b, b = Inserted(a, PlaceFor(a, lo, n), n)
  PROVE  /\ IsArray(b, S, w) /\ Within(a, b, lo, hi)
         /\ \A k, l \in lo .. hi : k < l /\ l < n + 1 => b[k].weight <= b[l].weight
         /\ Ties(a) => Ties(b)
<1>1. /\ a \in Seq(Leaves) /\ Len(a) \in Nat /\ DOMAIN a = 1 .. Len(a)
      /\ \A k \in 1 .. Len(a) : a[k].weight \in Nat
  BY ArrayIs
<1>2. n \in lo .. Len(a) /\ n \in 1 .. Len(a) /\ lo \in Nat /\ hi \in Nat /\ n \in Nat
  BY <1>1
<1>3. PICK j \in lo .. n : /\ j = PlaceFor(a, lo, n)
                           /\ \A m \in j .. n - 1 : a[n].weight < a[m].weight
                           /\ j = lo \/ a[j - 1].weight <= a[n].weight
  <2>1. PlaceFor(a, lo, n) \in lo .. n
    BY <1>1, <1>2, PlaceIs
  <2>. QED  BY <1>1, <1>2, <2>1, PlaceIs
<1>4. j \in 1 .. Len(a) /\ n \in j .. Len(a)
  BY <1>1, <1>2
<1>5. /\ IsArray(b, S, w) /\ Len(b) = Len(a)
      /\ \A k \in 1 .. Len(a) : b[k] = IF k = j THEN a[n] ELSE IF k \in j + 1 .. n THEN a[k - 1] ELSE a[k]
  BY <1>3, <1>4, InsertIs
<1>6. Within(a, b, lo, hi)
  <2>1. b \in Seq(Leaves)
    BY <1>5, ArrayIs
  <2>2. ASSUME NEW k \in 1 .. Len(a), k \notin lo .. hi PROVE b[k] = a[k]
    BY <1>2, <1>5, <2>2
  <2>3. ASSUME NEW k \in lo .. hi PROVE \E l \in lo .. hi : b[k] = a[l]
    <3>1. k \in 1 .. Len(a)
      BY <1>1, <1>2
    <3>2. k \in j + 1 .. n => k - 1 \in lo .. hi
      BY <1>2
    <3>. QED  BY <1>2, <1>5, <3>1, <3>2
  <2>. QED  BY <1>5, <2>1, <2>2, <2>3 DEF Within
\* what is before j, and what is behind it up to n
<1>7. \A k \in lo .. j - 1 : a[k].weight <= a[n].weight
  <2>1. ASSUME NEW k \in lo .. j - 1 PROVE a[k].weight <= a[n].weight
    <3>1. j # lo /\ k \in lo .. hi /\ j - 1 \in lo .. hi /\ j - 1 < n /\ k \in 1 .. Len(a) /\ j - 1 \in 1 .. Len(a)
      BY <1>1, <1>2
    <3>2. k = j - 1 \/ k < j - 1
      BY <1>2
    <3>3. a[k].weight <= a[j - 1].weight
      BY <1>1, <3>1, <3>2
    <3>. QED  BY <1>1, <1>2, <1>3, <3>1, <3>3
  <2>. QED  BY <2>1
<1>8. ASSUME NEW k \in lo .. hi, NEW l \in lo .. hi, k < l, l < n + 1 PROVE b[k].weight <= b[l].weight
  <2>1. k \in 1 .. Len(a) /\ l \in 1 .. Len(a)
    BY <1>1, <1>2
  <2>2. CASE l < j
    <3>1. b[k] = a[k] /\ b[l] = a[l] /\ l < n
      BY <1>2, <1>5, <1>8, <2>1, <2>2
    <3>. QED  BY <1>8, <3>1
  <2>3. CASE l = j
    <3>1. b[k] = a[k] /\ b[l] = a[n] /\ k \in lo .. j - 1
      BY <1>2, <1>5, <1>8, <2>1, <2>3
    <3>. QED  BY <1>7, <3>1
  <2>4. CASE l > j
    <3>1. b[l] = a[l - 1] /\ l - 1 \in j .. n - 1 /\ l - 1 \in lo .. hi /\ l - 1 \in 1 .. Len(a)
      BY <1>2, <1>5, <1>8, <2>1, <2>4
    <3>2. a[n].weight < a[l - 1].weight
      BY <1>3, <3>1
    <3>3. CASE k < j
      <4>1. b[k] = a[k] /\ k < l - 1 /\ l - 1 < n
        BY <1>2, <1>5, <2>1, <2>4, <3>1, <3>3
      <4>. QED  BY <3>1, <4>1
    <3>4. CASE k = j
      <4>1. b[k] = a[n]
        BY <1>5, <2>1, <3>4
      <4>. QED  BY <1>1, <1>2, <3>1, <3>2, <4>1
    <3>5. CASE k > j
      <4>1. b[k] = a[k - 1] /\ k - 1 \in lo .. hi /\ k - 1 < l - 1 /\ l - 1 < n
        BY <1>2, <1>5, <1>8, <2>1, <3>1, <3>5
      <4>. QED  BY <3>1, <4>1
    <3>. QED  BY <1>2, <3>3, <3>4, <3>5
  <2>. QED  BY <1>2, <2>2, <2>3, <2>4
<1>9. ASSUME Ties(a), NEW k \in 1 .. Len(b), NEW l \in 1 .. Len(b), k < l, b[k].weight = b[l].weight
      PROVE  b[k].count < b[l].count
  <2>0. \A p, q \in 1 .. Len(a) : p < q /\ a[p].weight = a[q].weight => a[p].count < a[q].count
    BY <1>9 DEF Ties
  <2>1. k \in 1 .. Len(a) /\ l \in 1 .. Len(a) /\ k \in Int /\ l \in Int
    BY <1>5
  <2>2. CASE k = j
    <3>1. b[k] = a[n]
      BY <1>5, <2>1, <2>2
    <3>2. CASE l <= n
      <4>1. b[l] = a[l - 1] /\ l - 1 \in j .. n - 1 /\ l - 1 \in 1 .. Len(a)
        BY <1>2, <1>5, <1>9, <2>1, <2>2, <3>2
      <4>2. a[n].weight < a[l - 1].weight
        BY <1>3, <4>1
      <4>. QED  BY <1>1, <1>2, <1>9, <3>1, <4>1, <4>2
    <3>3. CASE l > n
      <4>1. b[l] = a[l]
        BY <1>2, <1>5, <2>1, <3>3
      <4>. QED  BY <1>2, <1>9, <2>0, <2>1, <3>1, <3>3, <4>1
    <3>. QED  BY <1>2, <2>1, <3>2, <3>3
  <2>3. CASE l = j
    <3>1. b[k] = a[k] /\ b[l] = a[n] /\ k < n
      BY <1>2, <1>5, <1>9, <2>1, <2>3
    <3>. QED  BY <1>2, <1>9, <2>0, <2>1, <3>1
  <2>4. CASE k # j /\ l # j
    <3>. DEFINE From(m) == IF m \in j + 1 .. n THEN m - 1 ELSE m
    <3>1. From(k) \in 1 .. Len(a) /\ From(l) \in 1 .. Len(a) /\ From(k) < From(l)
      BY <1>2, <1>9, <2>1, <2>4
    <3>2. b[k] = a[From(k)] /\ b[l] = a[From(l)]
      BY <1>5, <2>1, <2>4
    <3>. HIDE DEF From
    <3>. QED  BY <1>9, <2>0, <3>1, <3>2
  <2>. QED  BY <2>2, <2>3, <2>4
<1>10. Ties(a) => Ties(b)
  BY <1>9 DEF Ties
<1>. QED  BY <1>5, <1>6, <1>8, <1>10
-----------------------------------------------------------------------------
(* Heaps *)

\* n leaves of a begin at lo
IsPart(a, lo, n) == a \in Seq(Leaves) /\ lo \in Nat /\ n \in Nat /\ 1 <= lo /\ lo + n - 1 <= Len(a)

\* their weights
LEMMA PartIs ==
  ASSUME NEW a, NEW lo, NEW n, IsPart(a, lo, n)
  PROVE  /\ lo \in Nat /\ n \in Nat /\ lo >= 1 /\ Len(a) \in Nat
         /\ \A q \in 0 .. n - 1 : lo + q \in 1 .. Len(a) /\ a[lo + q].weight \in Nat
<1>1. lo \in Nat /\ n \in Nat /\ lo >= 1 /\ Len(a) \in Nat /\ lo + n - 1 <= Len(a)
  BY LenProperties DEF IsPart
<1>2. ASSUME NEW k \in 1 .. Len(a) PROVE a[k].weight \in Nat
  <2>1. a[k] \in Leaves
    BY ElementOfSeq DEF IsPart
  <2>. QED  BY <2>1 DEF Leaves
<1>3. ASSUME NEW q \in 0 .. n - 1 PROVE lo + q \in 1 .. Len(a) /\ a[lo + q].weight \in Nat
  <2>1. lo + q \in 1 .. Len(a)
    BY <1>1
  <2>. QED  BY <1>2, <2>1
<1>. QED  BY <1>1, <1>3

\* a node has one father, which is before it
LEMMA FatherIs ==
  ASSUME NEW c \in Nat
  PROVE  /\ \A p, q \in Nat : IsSon(c, p) /\ IsSon(c, q) => p = q
         /\ \A p \in Nat : IsSon(c, p) => p < c
         /\ c > 0 => \E p \in Nat : IsSon(c, p)
<1>1. \A p, q \in Nat : IsSon(c, p) /\ IsSon(c, q) => p = q
  BY DEF IsSon
<1>2. \A p \in Nat : IsSon(c, p) => p < c
  BY DEF IsSon
<1>3. ASSUME c > 0 PROVE \E p \in Nat : IsSon(c, p)
  <2>1. (c - 1) \div 2 \in Nat /\ (c = 2 * ((c - 1) \div 2) + 1 \/ c = 2 * ((c - 1) \div 2) + 2)
    BY <1>3
  <2>. QED  BY <2>1 DEF IsSon
<1>. QED  BY <1>1, <1>2, <1>3

\* Behind the first half there are no fathers.
LEMMA HeapStart ==
  ASSUME NEW a, NEW lo, NEW n \in Nat, n > 0
  PROVE  (n - 1) \div 2 + 1 \in 0 .. n /\ Heap(a, lo, (n - 1) \div 2 + 1, n)
<1>1. PICK h \in Nat : h = (n - 1) \div 2 /\ (n = 2 * h + 1 \/ n = 2 * h + 2)
  OBVIOUS
<1>2. ASSUME NEW p \in Nat, NEW c \in Nat, h + 1 <= p, c < n, IsSon(c, p) PROVE FALSE
  BY <1>1, <1>2 DEF IsSon
<1>3. Heap(a, lo, h + 1, n)
  BY <1>2 DEF Heap
<1>. QED  BY <1>1, <1>3

\* One more node may sink.
LEMMA SinkStarts ==
  ASSUME NEW a, NEW lo, NEW s \in Nat, NEW n \in Nat, Heap(a, lo, s + 1, n)
  PROVE  Sinking(a, lo, s, n, s)
<1>1. ASSUME NEW p \in Nat, NEW c \in Nat, s <= p, c < n, IsSon(c, p), p # s
      PROVE  a[lo + c].weight <= a[lo + p].weight
  <2>1. s + 1 <= p
    BY <1>1
  <2>. QED  BY <1>1, <2>1 DEF Heap
<1>2. ASSUME NEW p \in Nat, s <= p, IsSon(s, p) PROVE FALSE
  BY <1>2, FatherIs
<1>. QED  BY <1>1, <1>2 DEF Sinking

\* A node that is not lighter than its sons stays.
LEMMA SinkEnds ==
  ASSUME NEW a, NEW lo, NEW s \in Nat, NEW n \in Nat, NEW x \in Nat, Sinking(a, lo, s, n, x),
         \A c \in Nat : c < n /\ IsSon(c, x) => a[lo + c].weight <= a[lo + x].weight
  PROVE  Heap(a, lo, s, n)
<1>1. ASSUME NEW p \in Nat, NEW c \in Nat, s <= p, c < n, IsSon(c, p)
      PROVE  a[lo + c].weight <= a[lo + p].weight
  <2>1. CASE p = x
    BY <1>1, <2>1
  <2>2. CASE p # x
    BY <1>1, <2>2 DEF Sinking
  <2>. QED  BY <2>1, <2>2
<1>. QED  BY <1>1 DEF Heap

\* A node that is lighter than the heavier son changes places with it.
LEMMA SinkGoesOn ==
  ASSUME NEW a, NEW lo, NEW n, IsPart(a, lo, n), NEW s \in Nat, NEW x \in Nat, s <= x, Sinking(a, lo, s, n, x),
         NEW y \in Nat, y < n, IsSon(y, x), a[lo + x].weight < a[lo + y].weight,
         \A c \in Nat : c < n /\ IsSon(c, x) => a[lo + c].weight <= a[lo + y].weight,
         NEW b, \A q \in 0 .. n - 1 : b[lo + q] = IF q = x THEN a[lo + y] ELSE IF q = y THEN a[lo + x] ELSE a[lo + q]
  PROVE  Sinking(b, lo, s, n, y)
<1>1. lo \in Nat /\ n \in Nat /\ \A q \in 0 .. n - 1 : a[lo + q].weight \in Nat
  BY PartIs
<1>2. x < y /\ x \in 0 .. n - 1 /\ y \in 0 .. n - 1
  BY <1>1, FatherIs
<1>3. \A q \in 0 .. n - 1 : q # x /\ q # y => b[lo + q] = a[lo + q]
  OBVIOUS
<1>4. b[lo + x] = a[lo + y] /\ b[lo + y] = a[lo + x]
  BY <1>2
<1>5. ASSUME NEW p \in Nat, NEW c \in Nat, s <= p, c < n, IsSon(c, p), p # y
      PROVE  b[lo + c].weight <= b[lo + p].weight
  <2>1. p < c /\ p \in 0 .. n - 1 /\ c \in 0 .. n - 1
    BY <1>1, <1>5, FatherIs
  <2>2. CASE p = x
    <3>1. a[lo + c].weight <= a[lo + y].weight /\ c # x
      BY <1>5, <2>1, <2>2
    <3>2. CASE c = y
      BY <1>1, <1>2, <1>4, <2>2, <3>2
    <3>3. CASE c # y
      BY <1>3, <1>4, <2>1, <2>2, <3>1, <3>3
    <3>. QED  BY <3>2, <3>3
  <2>3. CASE p # x /\ c = x
    <3>1. b[lo + p] = a[lo + p] /\ b[lo + c] = a[lo + y]
      BY <1>3, <1>4, <1>5, <2>1, <2>3
    <3>. QED  BY <1>5, <2>3, <3>1 DEF Sinking
  <2>4. CASE p # x /\ c # x
    <3>1. c # y
      BY <1>5, <2>4, FatherIs
    <3>2. b[lo + p] = a[lo + p] /\ b[lo + c] = a[lo + c]
      BY <1>3, <1>5, <2>1, <2>4, <3>1
    <3>. QED  BY <1>5, <2>4, <3>2 DEF Sinking
  <2>. QED  BY <2>2, <2>3, <2>4
<1>6. ASSUME NEW p \in Nat, NEW c \in Nat, s <= p, c < n, IsSon(y, p), IsSon(c, y)
      PROVE  b[lo + c].weight <= b[lo + p].weight
  <2>1. p = x
    BY <1>6, FatherIs
  <2>2. y < c /\ c \in 0 .. n - 1
    BY <1>1, <1>6, FatherIs
  <2>3. b[lo + c] = a[lo + c]
    BY <1>2, <1>3, <2>2
  <2>4. a[lo + c].weight <= a[lo + y].weight
    <3>1. s <= y /\ y # x
      BY <1>2
    <3>. QED  BY <1>6, <3>1 DEF Sinking
  <2>. QED  BY <1>4, <2>1, <2>3, <2>4
<1>. QED  BY <1>5, <1>6 DEF Sinking

\* The root of a heap is the heaviest.
LEMMA RootIsHeaviest ==
  ASSUME NEW a, NEW lo, NEW m, IsPart(a, lo, m), NEW n \in 1 .. m, Heap(a, lo, 0, n)
  PROVE  \A q \in 0 .. n - 1 : a[lo + q].weight <= a[lo].weight
<1>1. /\ lo \in Nat /\ n \in Nat /\ m \in Nat /\ lo + 0 = lo
      /\ \A q \in 0 .. n - 1 : a[lo + q].weight \in Nat
  <2>1. lo \in Nat /\ m \in Nat /\ \A q \in 0 .. m - 1 : a[lo + q].weight \in Nat
    BY PartIs
  <2>2. \A q \in 0 .. n - 1 : q \in 0 .. m - 1
    BY <2>1
  <2>. QED  BY <2>1, <2>2
<1>. DEFINE T == {q \in 0 .. n - 1 : ~(a[lo + q].weight <= a[lo].weight)}
<1>2. SUFFICES ASSUME T # {} PROVE FALSE
  OBVIOUS
<1>3. PICK q \in T : \A p \in T : q <= p
  <2>1. T \subseteq Nat
    OBVIOUS
  <2>. HIDE DEF T
  <2>. QED  BY <1>2, <2>1, LeastExists
<1>4. q \in 0 .. n - 1 /\ ~(a[lo + q].weight <= a[lo].weight)
  OBVIOUS
<1>5. a[lo].weight \in Nat
  <2>1. 0 \in 0 .. n - 1
    BY <1>1
  <2>. QED  BY <1>1, <2>1
<1>6. q > 0
  BY <1>1, <1>4, <1>5
<1>7. PICK p \in Nat : IsSon(q, p) /\ p < q
  BY <1>4, <1>6, FatherIs
<1>8. p \in 0 .. n - 1 /\ a[lo + q].weight <= a[lo + p].weight
  BY <1>1, <1>4, <1>7 DEF Heap
<1>9. a[lo + p].weight <= a[lo].weight
  <2>1. p \notin T
    <3>1. ~(q <= p)
      BY <1>4, <1>7
    <3>. HIDE DEF T
    <3>. QED  BY <1>3, <3>1
  <2>. QED  BY <1>8, <2>1
<1>. QED  BY <1>1, <1>4, <1>5, <1>8, <1>9

\* The root goes to the end, and what was there may sink.
LEMMA ExtractSettles ==
  ASSUME NEW a, NEW lo, NEW m, IsPart(a, lo, m), NEW n \in 2 .. m, Heap(a, lo, 0, n), Settled(a, lo, n, m),
         NEW b, \A q \in 0 .. m - 1 : b[lo + q] = IF q = 0 THEN a[lo + (n - 1)] ELSE IF q = n - 1 THEN a[lo] ELSE a[lo + q]
  PROVE  Sinking(b, lo, 0, n - 1, 0) /\ Settled(b, lo, n - 1, m)
<1>1. lo \in Nat /\ m \in Nat /\ n \in Nat /\ lo + 0 = lo /\ \A q \in 0 .. m - 1 : a[lo + q].weight \in Nat
  BY PartIs
<1>2. \A q \in 0 .. n - 1 : a[lo + q].weight <= a[lo].weight
  <2>1. n \in 1 .. m
    BY <1>1
  <2>. QED  BY <2>1, RootIsHeaviest
<1>3. /\ \A q \in 0 .. m - 1 : q # 0 /\ q # n - 1 => b[lo + q] = a[lo + q]
      /\ b[lo + 0] = a[lo + (n - 1)] /\ b[lo + (n - 1)] = a[lo]
  <2>1. 0 \in 0 .. m - 1 /\ n - 1 \in 0 .. m - 1 /\ n - 1 # 0
    BY <1>1
  <2>. QED  BY <2>1
<1>4. ASSUME NEW p \in Nat, NEW c \in Nat, c < n - 1, IsSon(c, p), p # 0
      PROVE  b[lo + c].weight <= b[lo + p].weight
  <2>1. p < c
    BY <1>4, FatherIs
  <2>2. /\ p \in 0 .. m - 1 /\ p # n - 1 /\ p # 0 /\ c \in 0 .. m - 1 /\ c # n - 1 /\ c # 0 /\ c < n /\ 0 <= p
    BY <1>1, <1>4, <2>1
  <2>3. b[lo + p] = a[lo + p] /\ b[lo + c] = a[lo + c]
    BY <1>3, <2>2
  <2>4. a[lo + c].weight <= a[lo + p].weight
    BY <1>4, <2>2 DEF Heap
  <2>. QED  BY <2>3, <2>4
<1>5. ASSUME NEW p \in Nat, IsSon(0, p) PROVE FALSE
  BY <1>5 DEF IsSon
<1>6. Sinking(b, lo, 0, n - 1, 0)
  BY <1>4, <1>5 DEF Sinking
<1>7. ASSUME NEW p \in 0 .. m - 1, NEW q \in 0 .. m - 1, p < q, n - 1 <= q
      PROVE  b[lo + p].weight <= b[lo + q].weight
  <2>1. CASE q = n - 1
    <3>1. b[lo + q] = a[lo] /\ p \in 0 .. n - 1 /\ p # n - 1
      BY <1>1, <1>3, <1>7, <2>1
    <3>2. b[lo + p] = a[lo + (n - 1)] \/ b[lo + p] = a[lo + p]
      BY <1>3, <3>1
    <3>3. n - 1 \in 0 .. n - 1
      BY <1>1
    <3>. QED  BY <1>2, <3>1, <3>2, <3>3
  <2>2. CASE q # n - 1
    <3>1. n <= q /\ q # 0
      BY <1>1, <1>7, <2>2
    <3>2. b[lo + q] = a[lo + q]
      BY <1>3, <2>2, <3>1
    <3>3. PICK r \in 0 .. m - 1 : r < q /\ b[lo + p] = a[lo + r]
      <4>1. CASE p = 0
        <5>1. n - 1 \in 0 .. m - 1 /\ n - 1 < q /\ b[lo + p] = a[lo + (n - 1)]
          BY <1>1, <1>3, <3>1, <4>1
        <5>. QED  BY <5>1
      <4>2. CASE p = n - 1
        <5>1. 0 \in 0 .. m - 1 /\ 0 < q /\ b[lo + p] = a[lo + 0]
          BY <1>1, <1>3, <3>1, <4>2
        <5>. QED  BY <5>1
      <4>3. CASE p # 0 /\ p # n - 1
        BY <1>3, <1>7, <4>3
      <4>. QED  BY <4>1, <4>2, <4>3
    <3>. QED  BY <3>1, <3>2, <3>3 DEF Settled
  <2>. QED  BY <2>1, <2>2
<1>8. Settled(b, lo, n - 1, m)
  BY <1>7 DEF Settled
<1>. QED  BY <1>6, <1>8
-----------------------------------------------------------------------------
(* Steps of the sort *)

\* what is being sorted
LEMMA Here ==
  ASSUME LeavesInv, SegmentsInv, Sorting
  PROVE  /\ job \in Jobs /\ IsArray(leaves, Known, Keys) /\ Ties(leaves)
         /\ leaves \in Seq(Leaves) /\ numsymbols \in Nat /\ numsymbols > 2
         /\ AreSegments(segments, numsymbols) /\ Apart(leaves, segments)
         /\ segments # <<>> =>
              /\ segment.lo \in Nat /\ segment.hi \in Nat /\ segment.depth \in Int /\ size \in Int
              /\ 1 <= segment.lo /\ segment.hi <= numsymbols /\ size = segment.hi - segment.lo + 1
              /\ Len(segments) \in 1 .. Len(segments) /\ segment = segments[Len(segments)]
<1>1. /\ job \in Jobs /\ IsArray(leaves, Known, Keys) /\ Ties(leaves) /\ numsymbols > 2
      /\ AreSegments(segments, numsymbols) /\ Apart(leaves, segments)
  BY DEF LeavesInv, SegmentsInv
<1>2. leaves \in Seq(Leaves) /\ numsymbols \in Nat
  BY <1>1, ArrayIs DEF numsymbols
<1>3. ASSUME segments # <<>>
      PROVE  /\ segment.lo \in Nat /\ segment.hi \in Nat /\ segment.depth \in Int
             /\ 1 <= segment.lo /\ segment.hi <= numsymbols
             /\ Len(segments) \in 1 .. Len(segments) /\ segment = segments[Len(segments)]
  <2>1. Len(segments) \in 1 .. Len(segments) /\ segment = segments[Len(segments)]
    BY <1>1, <1>2, <1>3, SegmentsAre DEF segment
  <2>2. segment \in [lo : Nat, hi : Nat, depth : Int] /\ 1 <= segment.lo /\ segment.hi <= numsymbols
    BY <1>1, <1>2, <2>1, SegmentsAre
  <2>. QED  BY <2>1, <2>2
<1>4. segments # <<>> => size \in Int /\ size = segment.hi - segment.lo + 1
  BY <1>3 DEF size
<1>. QED  BY <1>1, <1>2, <1>3, <1>4

\* Symbols and keys stay as they are during the sort.
LEMMA KeysStay ==
  ASSUME Sorting, Sorting', job' = job, Len(leaves') = Len(leaves)
  PROVE  Known' = Known /\ Keys' = Keys /\ (IsPacked' <=> IsPacked) /\ numsymbols' = numsymbols
<1>1. pc # "count" /\ pc' # "count"
  BY DEF Sorting
<1>2. Known' = Known
  BY <1>1 DEF Known
<1>3. numsymbols' = numsymbols /\ (IsPacked' <=> IsPacked)
  BY DEF numsymbols, IsPacked
<1>4. ASSUME NEW s \in DOMAIN job.freq PROVE Key(s)' = Key(s)
  BY <1>3 DEF Key
<1>5. Keys' = Keys
  BY <1>4 DEF Keys
<1>. QED  BY <1>2, <1>3, <1>5

\* A step of the sort changes only the order of the leaves.
LEMMA LeavesStep ==
  ASSUME LeavesInv, SegmentsInv, Sorting, Sorting', job' = job,
         IsArray(leaves', Known, Keys), Len(leaves') = Len(leaves), Ties(leaves')
  PROVE  LeavesInv' /\ SortedInv'
<1>1. Known' = Known /\ Keys' = Keys /\ numsymbols' = numsymbols
  BY KeysStay
<1>2. job' \in Jobs /\ numsymbols' > 2
  BY <1>1 DEF LeavesInv
<1>3. pc' # "count" /\ ~Merging'
  BY DEF Sorting, Merging
<1>4. IsArray(leaves', Known', Keys')
  BY <1>1
<1>. QED  BY <1>2, <1>3, <1>4 DEF LeavesInv, SortedInv

\* the same where only the last segment changes
LEMMA SegmentStep ==
  ASSUME LeavesInv, SegmentsInv, Busy, Busy', job' = job, segments' = segments,
         pc # "insertion" \/ pc' = "insertion",
         IsArray(leaves', Known, Keys), Ties(leaves'), Within(leaves, leaves', segment.lo, segment.hi)
  PROVE  LeavesInv' /\ SegmentsInv' /\ SortedInv' /\ segment' = segment /\ size' = size
<1>0. Sorting /\ Sorting' /\ segments # <<>> /\ segments' # <<>>
  BY DEF Busy, Sorting, SegmentsInv
<1>1. Len(leaves') = Len(leaves)
  BY DEF Within
<1>2. LeavesInv' /\ SortedInv'
  BY <1>0, <1>1, LeavesStep
<1>3. segment' = segment /\ size' = size
  BY DEF segment, size
<1>4. AreSegments(segments, Len(leaves')) /\ Apart(leaves', segments)
  <2>1. /\ leaves \in Seq(Leaves) /\ AreSegments(segments, Len(leaves)) /\ Apart(leaves, segments)
        /\ Len(segments) \in 1 .. Len(segments) /\ segment = segments[Len(segments)]
    BY <1>0, Here DEF numsymbols
  <2>2. Within(leaves, leaves', segments[Len(segments)].lo, segments[Len(segments)].hi)
    BY <2>1
  <2>. QED  BY <2>1, <2>2, ApartKept
<1>5. AreSegments(segments', numsymbols') /\ Apart(leaves', segments')
  BY <1>4 DEF numsymbols
<1>6. Busy' /\ pc' # "insertion" => size' > Cutoff
  BY <1>3 DEF Busy, SegmentsInv
<1>. QED  BY <1>0, <1>2, <1>3, <1>5, <1>6 DEF SegmentsInv

\* the leaves stay where they are
LEMMA LeavesStay ==
  ASSUME LeavesInv, SegmentsInv, Sorting, Sorting', job' = job, leaves' = leaves, segments' = segments
  PROVE  /\ LeavesInv' /\ SortedInv' /\ AreSegments(segments', numsymbols') /\ Apart(leaves', segments')
         /\ segment' = segment /\ size' = size
<1>1. IsArray(leaves', Known, Keys) /\ Ties(leaves') /\ AreSegments(segments, numsymbols) /\ Apart(leaves, segments)
  BY Here
<1>2. LeavesInv' /\ SortedInv'
  BY <1>1, LeavesStep
<1>. QED  BY <1>1, <1>2 DEF numsymbols, segment, size

\* A segment that is in order is taken off the stack.
LEMMA FinishedStep ==
  ASSUME SortInv, Busy, Finished,
         \A k, l \in segment.lo .. segment.hi : k < l => leaves[k].weight <= leaves[l].weight
  PROVE  SortInv'
<1>0. Sorting /\ Sorting' /\ segments # <<>> /\ LeavesInv /\ SegmentsInv
  BY DEF Busy, Sorting, SegmentsInv, Finished, SortInv
<1>1. job' = job /\ leaves' = leaves /\ segments' = Front(segments) /\ pc' = "sort"
  BY DEF Finished
<1>2. LeavesInv' /\ SortedInv'
  <2>1. IsArray(leaves', Known, Keys) /\ Ties(leaves')
    BY <1>0, <1>1, Here
  <2>. QED  BY <1>0, <1>1, <2>1, LeavesStep
<1>3. Apart(leaves, Front(segments)) /\ AreSegments(Front(segments), numsymbols)
  <2>1. leaves \in Seq(Leaves) /\ AreSegments(segments, Len(leaves)) /\ Apart(leaves, segments)
    BY <1>0, Here DEF numsymbols
  <2>2. \A k, l \in Last(segments).lo .. Last(segments).hi : k < l => leaves[k].weight <= leaves[l].weight
    BY DEF segment
  <2>. QED  BY <1>0, <2>1, <2>2, ApartPopped DEF numsymbols
<1>4. SegmentsInv'
  BY <1>1, <1>3 DEF SegmentsInv, Busy, numsymbols
<1>. QED  BY <1>1, <1>2, <1>4 DEF SortInv, InsertionInv, HeapInv, PartitionInv

\* insertion_sort begins behind the first leaf, which alone is sorted.
LEMMA StartInsertionStep ==
  ASSUME SortInv, StartInsertion
  PROVE  SortInv'
<1>0. Sorting /\ Sorting' /\ segments # <<>> /\ LeavesInv /\ SegmentsInv
  BY DEF Sorting, StartInsertion, SortInv
<1>1. job' = job /\ leaves' = leaves /\ segments' = segments /\ pc' = "insertion" /\ at' = segment.lo + 1
  BY DEF StartInsertion
<1>2. /\ LeavesInv' /\ SortedInv' /\ AreSegments(segments', numsymbols') /\ Apart(leaves', segments')
      /\ segment' = segment
  BY <1>0, <1>1, LeavesStay
<1>3. SegmentsInv'
  BY <1>0, <1>1, <1>2 DEF SegmentsInv, Busy
<1>4. segment.lo \in Nat /\ segment.hi \in Nat
  BY <1>0, Here
<1>5. \A k, l \in segment.lo .. segment.hi : ~(k < l /\ l < segment.lo + 1)
  BY <1>4
<1>6. InsertionInv'
  BY <1>1, <1>2, <1>4, <1>5 DEF InsertionInv
<1>. QED  BY <1>1, <1>2, <1>3, <1>6 DEF SortInv, HeapInv, PartitionInv

\* A turn of insertion_sort: one leaf more is sorted.
LEMMA InsertStep ==
  ASSUME SortInv, Insert
  PROVE  SortInv'
<1>0. Busy /\ Busy' /\ Sorting /\ segments # <<>> /\ LeavesInv /\ SegmentsInv
  BY DEF Sorting, Busy, Insert, SortInv, SegmentsInv
<1>. DEFINE lo == segment.lo
            hi == segment.hi
            b == Inserted(leaves, PlaceFor(leaves, lo, at), at)
<1>1. job' = job /\ leaves' = b /\ segments' = segments /\ pc = "insertion" /\ pc' = "insertion" /\ at' = at + 1 /\ at <= hi
  BY DEF Insert
<1>2. /\ at \in Nat /\ at > lo /\ \A k, l \in lo .. hi : k < l /\ l < at => leaves[k].weight <= leaves[l].weight
  BY <1>1 DEF SortInv, InsertionInv
<1>3. /\ lo \in Nat /\ hi \in Nat /\ 1 <= lo /\ hi <= Len(leaves) /\ IsArray(leaves, Known, Keys) /\ Ties(leaves)
      /\ Len(leaves) \in Nat
  BY <1>0, Here DEF numsymbols
<1>4. lo \in 1 .. Len(leaves) /\ hi \in lo .. Len(leaves) /\ at \in lo .. hi
  BY <1>1, <1>2, <1>3
<1>. HIDE DEF lo, hi
<1>5. /\ IsArray(b, Known, Keys) /\ Within(leaves, b, lo, hi) /\ Ties(b)
      /\ \A k, l \in lo .. hi : k < l /\ l < at + 1 => b[k].weight <= b[l].weight
  BY <1>2, <1>3, <1>4, InsertSorts
<1>. HIDE DEF b
<1>6. LeavesInv' /\ SegmentsInv' /\ SortedInv' /\ segment' = segment
  BY <1>0, <1>1, <1>5, SegmentStep DEF lo, hi
<1>7. InsertionInv'
  <2>1. segment'.lo = lo /\ segment'.hi = hi
    BY <1>6 DEF lo, hi
  <2>2. at' \in Nat /\ at' > segment'.lo
    BY <1>1, <1>2, <1>3, <2>1
  <2>3. \A k, l \in segment'.lo .. segment'.hi : k < l /\ l < at' => leaves'[k].weight <= leaves'[l].weight
    BY <1>1, <1>5, <2>1
  <2>. QED  BY <2>2, <2>3 DEF InsertionInv
<1>. QED  BY <1>1, <1>6, <1>7 DEF SortInv, HeapInv, PartitionInv

\* insertion_sort ends: the whole segment is sorted.
LEMMA EndInsertionStep ==
  ASSUME SortInv, EndInsertion
  PROVE  SortInv'
<1>0. Busy /\ Sorting /\ segments # <<>> /\ LeavesInv /\ SegmentsInv /\ Finished /\ at > segment.hi
  BY DEF Sorting, Busy, EndInsertion, SortInv, SegmentsInv
<1>1. /\ at \in Nat
      /\ \A k, l \in segment.lo .. segment.hi : k < l /\ l < at => leaves[k].weight <= leaves[l].weight
  BY DEF SortInv, InsertionInv, EndInsertion
<1>2. segment.lo \in Nat /\ segment.hi \in Nat
  BY <1>0, Here
<1>3. \A k, l \in segment.lo .. segment.hi : k < l => leaves[k].weight <= leaves[l].weight
  BY <1>0, <1>1, <1>2
<1>. QED  BY <1>0, <1>3, FinishedStep

\* what is sorted by one of the other methods is packed, and there is room for a heap
LEMMA PartHere ==
  ASSUME LeavesInv, SegmentsInv, Sorting, segments # <<>>, size > Cutoff
  PROVE  /\ IsPacked /\ IsPart(leaves, segment.lo, size) /\ size \in Nat /\ size > 2
         /\ segment.lo \in Nat /\ segment.hi \in Nat /\ segment.hi = segment.lo + size - 1
         /\ 1 <= segment.lo /\ segment.hi <= Len(leaves)
         /\ \A q \in 0 .. size - 1 : segment.lo + q \in 1 .. Len(leaves) /\ segment.lo + q \in segment.lo .. segment.hi
<1>1. /\ segment.lo \in Nat /\ segment.hi \in Nat /\ size \in Int /\ size = segment.hi - segment.lo + 1
      /\ 1 <= segment.lo /\ segment.hi <= Len(leaves) /\ leaves \in Seq(Leaves) /\ Len(leaves) \in Nat
  BY Here DEF numsymbols
<1>2. size > 2 /\ size \in Nat
  BY <1>1, SizesAssumption
<1>3. IsPacked
  <2>1. numsymbols > Cutoff
    BY <1>1, SizesAssumption DEF numsymbols
  <2>. QED  BY <2>1 DEF IsPacked
<1>. HIDE DEF size
<1>4. segment.hi = segment.lo + size - 1
  BY <1>1
<1>5. IsPart(leaves, segment.lo, size)
  BY <1>1, <1>2, <1>4 DEF IsPart
<1>6. \A q \in 0 .. size - 1 : segment.lo + q \in 1 .. Len(leaves) /\ segment.lo + q \in segment.lo .. segment.hi
  BY <1>1, <1>2, <1>4
<1>. QED  BY <1>1, <1>2, <1>3, <1>4, <1>5, <1>6

\* Two leaves of the segment change places.
LEMMA SwapStep ==
  ASSUME LeavesInv, SegmentsInv, Busy, Busy', job' = job, segments' = segments, size > Cutoff,
         pc # "insertion", pc' # "insertion",
         NEW m \in segment.lo .. segment.hi, NEW n \in segment.lo .. segment.hi, leaves' = Swapped(leaves, m, n)
  PROVE  /\ LeavesInv' /\ SegmentsInv' /\ SortedInv' /\ segment' = segment /\ size' = size
         /\ \A k \in 1 .. Len(leaves) : leaves'[k] = IF k = m THEN leaves[n] ELSE IF k = n THEN leaves[m] ELSE leaves[k]
<1>0. Sorting /\ Sorting' /\ segments # <<>>
  BY DEF Busy, Sorting, SegmentsInv
<1>1. /\ IsPacked /\ segment.lo \in Nat /\ segment.hi \in Nat /\ 1 <= segment.lo /\ segment.hi <= Len(leaves)
  BY <1>0, PartHere
<1>2. job \in Jobs /\ IsArray(leaves, Known, Keys) /\ Len(leaves) \in Nat
  BY <1>0, Here DEF numsymbols
<1>3. /\ m \in 1 .. Len(leaves) /\ n \in 1 .. Len(leaves)
      /\ segment.lo \in 1 .. Len(leaves) /\ segment.hi \in 1 .. Len(leaves)
  BY <1>1, <1>2
<1>4. /\ IsArray(leaves', Known, Keys)
      /\ \A k \in 1 .. Len(leaves) : leaves'[k] = IF k = m THEN leaves[n] ELSE IF k = n THEN leaves[m] ELSE leaves[k]
  BY <1>2, <1>3, SwapIs
<1>5. Within(leaves, leaves', segment.lo, segment.hi)
  BY <1>2, <1>3, SwapWithin
<1>6. Ties(leaves')
  <2>1. \A s, t \in Known : Keys[s] = Keys[t] => s = t
    BY <1>1, <1>2, KeysAre
  <2>. QED  BY <1>4, <2>1, NoTies
<1>7. LeavesInv' /\ SegmentsInv' /\ SortedInv' /\ segment' = segment /\ size' = size
  BY <1>4, <1>5, <1>6, SegmentStep
<1>. QED  BY <1>4, <1>7

\* Nothing changes but the counters.
LEMMA CountersStep ==
  ASSUME LeavesInv, SegmentsInv, Sorting, Busy', job' = job, leaves' = leaves, segments' = segments, segments # <<>>,
         pc' # "insertion", size > Cutoff
  PROVE  LeavesInv' /\ SegmentsInv' /\ SortedInv' /\ segment' = segment /\ size' = size
<1>1. Sorting'
  BY DEF Busy, Sorting
<1>2. /\ LeavesInv' /\ SortedInv' /\ AreSegments(segments', numsymbols') /\ Apart(leaves', segments')
      /\ segment' = segment /\ size' = size
  BY <1>1, LeavesStay
<1>3. SegmentsInv'
  BY <1>1, <1>2 DEF SegmentsInv
<1>. QED  BY <1>2, <1>3
-----------------------------------------------------------------------------
(* Steps of heap_sort *)

\* heap_sort begins at the last inner node: the nodes behind it have no sons.
LEMMA StartHeapStep ==
  ASSUME SortInv, StartHeap
  PROVE  SortInv'
<1>0. /\ Sorting /\ Busy' /\ segments # <<>> /\ LeavesInv /\ SegmentsInv /\ size > Cutoff
      /\ job' = job /\ leaves' = leaves /\ segments' = segments /\ pc' = "build" /\ at' = (size - 1) \div 2 + 1
  BY DEF Sorting, Busy, StartHeap, SortInv
<1>1. LeavesInv' /\ SegmentsInv' /\ SortedInv' /\ segment' = segment /\ size' = size
  BY <1>0, CountersStep
<1>2. size \in Nat /\ size > 0
  BY <1>0, PartHere
<1>. HIDE DEF size
<1>3. at' \in 0 .. size /\ Heap(leaves, segment.lo, at', size)
  BY <1>0, <1>2, HeapStart
<1>4. HeapInv'
  BY <1>0, <1>1, <1>3 DEF HeapInv
<1>. QED  BY <1>0, <1>1, <1>4 DEF SortInv, InsertionInv, PartitionInv

\* An inner node is to sink.
LEMMA BuildStep ==
  ASSUME SortInv, Build
  PROVE  SortInv'
<1>0. /\ Busy /\ Sorting /\ Busy' /\ segments # <<>> /\ LeavesInv /\ SegmentsInv /\ size > Cutoff
      /\ job' = job /\ leaves' = leaves /\ segments' = segments /\ pc' = "heapify"
      /\ at' = at - 1 /\ node' = at - 1 /\ bound' = size /\ at > 0
  BY DEF Sorting, Busy, Build, SortInv, SegmentsInv
<1>1. LeavesInv' /\ SegmentsInv' /\ SortedInv' /\ segment' = segment /\ size' = size
  BY <1>0, CountersStep
<1>2. size \in Nat /\ at \in 0 .. size /\ Heap(leaves, segment.lo, at, size)
  BY <1>0, PartHere DEF Build, SortInv, HeapInv
<1>3. at - 1 \in Nat /\ at - 1 + 1 = at /\ at - 1 \in 0 .. size - 1 /\ at - 1 \in 0 .. size /\ at - 1 >= at - 1
  BY <1>0, <1>2
<1>4. Sinking(leaves, segment.lo, at - 1, size, at - 1)
  BY <1>2, <1>3, SinkStarts
<1>5. HeapInv'
  BY <1>0, <1>1, <1>3, <1>4 DEF HeapInv
<1>. QED  BY <1>0, <1>1, <1>5 DEF SortInv, InsertionInv, PartitionInv

\* All inner nodes have sunk: no son is heavier than its father.
LEMMA EndBuildStep ==
  ASSUME SortInv, EndBuild
  PROVE  SortInv'
<1>0. /\ Busy /\ Sorting /\ Busy' /\ segments # <<>> /\ LeavesInv /\ SegmentsInv /\ size > Cutoff
      /\ job' = job /\ leaves' = leaves /\ segments' = segments /\ pc' = "extract" /\ at' = size /\ at = 0
  BY DEF Sorting, Busy, EndBuild, SortInv, SegmentsInv
<1>1. LeavesInv' /\ SegmentsInv' /\ SortedInv' /\ segment' = segment /\ size' = size
  BY <1>0, CountersStep
<1>2. size \in Nat /\ size > 2 /\ Heap(leaves, segment.lo, 0, size)
  BY <1>0, PartHere DEF EndBuild, SortInv, HeapInv
<1>3. size \in 1 .. size /\ Settled(leaves, segment.lo, size, size)
  BY <1>2 DEF Settled
<1>4. HeapInv'
  BY <1>0, <1>1, <1>2, <1>3 DEF HeapInv
<1>. QED  BY <1>0, <1>1, <1>4 DEF SortInv, InsertionInv, PartitionInv

\* The root, the heaviest of the heap, goes behind it.
LEMMA ExtractStep ==
  ASSUME SortInv, Extract
  PROVE  SortInv'
<1>0. /\ Busy /\ Sorting /\ Busy' /\ segments # <<>> /\ LeavesInv /\ SegmentsInv /\ size > Cutoff
      /\ job' = job /\ segments' = segments /\ pc = "extract" /\ pc' = "heapify" /\ at > 1
      /\ leaves' = Swapped(leaves, segment.lo, segment.lo + at - 1)
      /\ at' = at - 1 /\ node' = 0 /\ bound' = at - 1
  BY DEF Sorting, Busy, Extract, SortInv, SegmentsInv
<1>1. /\ size \in Nat /\ segment.lo \in Nat /\ segment.hi \in Nat /\ segment.hi = segment.lo + size - 1
      /\ IsPart(leaves, segment.lo, size)
      /\ \A q \in 0 .. size - 1 : segment.lo + q \in 1 .. Len(leaves) /\ segment.lo + q \in segment.lo .. segment.hi
  BY <1>0, PartHere
<1>2. at \in 1 .. size /\ Heap(leaves, segment.lo, 0, at) /\ Settled(leaves, segment.lo, at, size)
  BY <1>0 DEF SortInv, HeapInv
<1>. HIDE DEF size
<1>3. /\ at \in 2 .. size /\ segment.lo + at - 1 = segment.lo + (at - 1) /\ segment.lo + 0 = segment.lo
      /\ segment.lo \in segment.lo .. segment.hi /\ segment.lo + at - 1 \in segment.lo .. segment.hi
  BY <1>0, <1>1, <1>2
<1>4. /\ LeavesInv' /\ SegmentsInv' /\ SortedInv' /\ segment' = segment /\ size' = size
      /\ \A k \in 1 .. Len(leaves) : leaves'[k] = IF k = segment.lo THEN leaves[segment.lo + at - 1]
                                                 ELSE IF k = segment.lo + at - 1 THEN leaves[segment.lo] ELSE leaves[k]
  BY <1>0, <1>3, SwapStep, ZenonT(60)
<1>5. \A q \in 0 .. size - 1 :
        leaves'[segment.lo + q] = IF q = 0 THEN leaves[segment.lo + (at - 1)]
                                  ELSE IF q = at - 1 THEN leaves[segment.lo] ELSE leaves[segment.lo + q]
  <2>1. ASSUME NEW q \in 0 .. size - 1
        PROVE  leaves'[segment.lo + q] = IF q = 0 THEN leaves[segment.lo + (at - 1)]
                                         ELSE IF q = at - 1 THEN leaves[segment.lo] ELSE leaves[segment.lo + q]
    <3>1. segment.lo + q \in 1 .. Len(leaves)
      BY <1>1
    <3>2. (segment.lo + q = segment.lo <=> q = 0) /\ (segment.lo + q = segment.lo + at - 1 <=> q = at - 1)
      BY <1>1, <1>3, SMTT(40)
    <3>. QED  BY <1>3, <1>4, <3>1, <3>2
  <2>. QED  BY <2>1
<1>6. Sinking(leaves', segment.lo, 0, at - 1, 0) /\ Settled(leaves', segment.lo, at - 1, size)
  BY <1>1, <1>2, <1>3, <1>5, ExtractSettles
<1>7. 0 \in 0 .. at - 1 - 1 /\ at - 1 \in 1 .. size - 1
  BY <1>1, <1>3
<1>8. HeapInv'
  BY <1>0, <1>4, <1>6, <1>7 DEF HeapInv
<1>. QED  BY <1>0, <1>4, <1>8 DEF SortInv, InsertionInv, PartitionInv

\* heap_sort ends: the whole segment is sorted.
LEMMA EndHeapStep ==
  ASSUME SortInv, EndHeap
  PROVE  SortInv'
<1>0. /\ Busy /\ Sorting /\ segments # <<>> /\ LeavesInv /\ SegmentsInv /\ size > Cutoff /\ Finished
      /\ pc = "extract" /\ at <= 1
  BY DEF Sorting, Busy, EndHeap, SortInv, SegmentsInv
<1>1. size \in Nat /\ segment.lo \in Nat /\ segment.hi \in Nat /\ segment.hi = segment.lo + size - 1
  BY <1>0, PartHere
<1>2. at \in 1 .. size /\ Settled(leaves, segment.lo, at, size)
  BY <1>0 DEF SortInv, HeapInv
<1>. HIDE DEF size
<1>3. ASSUME NEW k \in segment.lo .. segment.hi, NEW l \in segment.lo .. segment.hi, k < l
      PROVE  leaves[k].weight <= leaves[l].weight
  <2>1. PICK p \in 0 .. size - 1, q \in 0 .. size - 1 : p = k - segment.lo /\ q = l - segment.lo
    BY <1>1
  <2>2. p < q /\ at <= q /\ k = segment.lo + p /\ l = segment.lo + q
    BY <1>0, <1>1, <1>2, <1>3, <2>1
  <2>. QED  BY <1>2, <2>2 DEF Settled
<1>. QED  BY <1>0, <1>3, FinishedStep

\* the node that sinks and its sons
LEMMA SinkHere ==
  ASSUME SortInv, pc = "heapify"
  PROVE  /\ Busy /\ Sorting /\ segments # <<>> /\ LeavesInv /\ SegmentsInv /\ size > Cutoff
         /\ IsPart(leaves, segment.lo, bound) /\ bound \in Nat /\ node \in 0 .. bound - 1
         /\ segment.lo \in Nat /\ bound <= size
         /\ \A q \in 0 .. bound - 1 : /\ segment.lo + q \in 1 .. Len(leaves) /\ segment.lo + q \in segment.lo .. segment.hi
                                      /\ cell(q) = leaves[segment.lo + q] /\ leaves[segment.lo + q].weight \in Nat
<1>0. Busy /\ Sorting /\ segments # <<>> /\ LeavesInv /\ SegmentsInv /\ size > Cutoff
  BY DEF Sorting, Busy, SortInv, SegmentsInv
<1>1. /\ size \in Nat /\ segment.lo \in Nat /\ segment.hi \in Nat
      /\ IsPart(leaves, segment.lo, size)
      /\ \A q \in 0 .. size - 1 : segment.lo + q \in 1 .. Len(leaves) /\ segment.lo + q \in segment.lo .. segment.hi
  BY <1>0, PartHere
<1>. HIDE DEF size
<1>2. node \in 0 .. bound - 1 /\ (bound = size \/ bound \in 1 .. size - 1)
  BY DEF SortInv, HeapInv
<1>3. bound \in Nat /\ bound <= size
  BY <1>1, <1>2
<1>4. \A q \in 0 .. bound - 1 : q \in 0 .. size - 1
  BY <1>1, <1>3
<1>5. IsPart(leaves, segment.lo, bound)
  <2>1. leaves \in Seq(Leaves) /\ segment.lo + size - 1 <= Len(leaves) /\ Len(leaves) \in Nat /\ 1 <= segment.lo
    BY <1>1, LenProperties DEF IsPart
  <2>. QED  BY <1>1, <1>3, <2>1 DEF IsPart
<1>6. \A q \in 0 .. size - 1 : leaves[segment.lo + q].weight \in Nat
  BY <1>1, PartIs
<1>. QED  BY <1>0, <1>1, <1>2, <1>3, <1>4, <1>5, <1>6 DEF cell

\* the heavier of the sons, if there are any
LEMMA LargestIs ==
  ASSUME SortInv, pc = "heapify"
  PROVE  /\ \A c \in Nat : c < bound /\ IsSon(c, node) => son < bound
         /\ son < bound =>
              /\ largest \in 0 .. bound - 1 /\ IsSon(largest, node)
              /\ \A c \in Nat : c < bound /\ IsSon(c, node) =>
                   leaves[segment.lo + c].weight <= leaves[segment.lo + largest].weight
<1>1. /\ bound \in Nat /\ node \in Nat
      /\ \A q \in 0 .. bound - 1 : cell(q) = leaves[segment.lo + q] /\ leaves[segment.lo + q].weight \in Nat
  <2>1. bound \in Nat /\ node \in 0 .. bound - 1
    BY SinkHere
  <2>2. \A q \in 0 .. bound - 1 : cell(q) = leaves[segment.lo + q] /\ leaves[segment.lo + q].weight \in Nat
    BY SinkHere
  <2>. QED  BY <2>1, <2>2
<1>2. son \in Nat /\ son = 2 * node + 1 /\ \A c \in Nat : IsSon(c, node) <=> c = son \/ c = son + 1
  BY <1>1 DEF son, IsSon
<1>. DEFINE d == son
            e == son + 1
<1>3. d \in Nat /\ e = d + 1 /\ e \in Nat /\ largest = IF e < bound /\ Less(cell(d), cell(e)) THEN e ELSE d
  BY <1>2 DEF largest
<1>. HIDE DEF d, e
<1>4. ASSUME d < bound
      PROVE  /\ largest \in 0 .. bound - 1 /\ (largest = d \/ largest = e)
             /\ leaves[segment.lo + d].weight <= leaves[segment.lo + largest].weight
             /\ e < bound => leaves[segment.lo + e].weight <= leaves[segment.lo + largest].weight
  <2>1. d \in 0 .. bound - 1 /\ cell(d) = leaves[segment.lo + d] /\ leaves[segment.lo + d].weight \in Nat
    BY <1>1, <1>3, <1>4
  <2>2. e < bound => e \in 0 .. bound - 1 /\ cell(e) = leaves[segment.lo + e] /\ leaves[segment.lo + e].weight \in Nat
    BY <1>1, <1>3
  <2>3. CASE e < bound /\ Less(cell(d), cell(e))
    BY <1>3, <2>1, <2>2, <2>3 DEF Less
  <2>4. CASE e < bound /\ ~Less(cell(d), cell(e))
    BY <1>3, <2>1, <2>2, <2>4 DEF Less
  <2>5. CASE ~(e < bound)
    BY <1>3, <2>1, <2>5
  <2>. QED  BY <2>3, <2>4, <2>5
<1>5. \A c \in Nat : IsSon(c, node) <=> c = d \/ c = e
  BY <1>2 DEF d, e
<1>6. ASSUME NEW c \in Nat, c < bound, IsSon(c, node) PROVE d < bound
  BY <1>1, <1>3, <1>5, <1>6
<1>7. d < bound => \A c \in Nat : c < bound /\ IsSon(c, node) => leaves[segment.lo + c].weight <= leaves[segment.lo + largest].weight
  BY <1>4, <1>5
<1>8. d < bound => largest \in 0 .. bound - 1 /\ IsSon(largest, node)
  BY <1>3, <1>4, <1>5
<1>9. d = son
  BY DEF d
<1>. QED  BY <1>6, <1>7, <1>8, <1>9

\* A turn of heapify_range: the node changes places with its heavier son.
LEMMA SinkStep ==
  ASSUME SortInv, Sink
  PROVE  SortInv'
<1>0. /\ pc = "heapify" /\ pc' = "heapify" /\ Busy' /\ job' = job /\ segments' = segments
      /\ leaves' = Swapped(leaves, segment.lo + node, segment.lo + largest)
      /\ node' = largest /\ at' = at /\ bound' = bound /\ Sinks
  BY DEF Sink, Busy
<1>1. /\ Busy /\ Sorting /\ segments # <<>> /\ LeavesInv /\ SegmentsInv /\ size > Cutoff
      /\ IsPart(leaves, segment.lo, bound) /\ bound \in Nat /\ node \in 0 .. bound - 1
      /\ segment.lo \in Nat /\ bound <= size
      /\ \A q \in 0 .. bound - 1 : /\ segment.lo + q \in 1 .. Len(leaves) /\ segment.lo + q \in segment.lo .. segment.hi
                                   /\ cell(q) = leaves[segment.lo + q] /\ leaves[segment.lo + q].weight \in Nat
  BY <1>0, SinkHere
<1>2. size \in Nat /\ \A q \in 0 .. size - 1 : segment.lo + q \in 1 .. Len(leaves)
  BY <1>1, PartHere
<1>. HIDE DEF size
<1>. DEFINE y == largest
            lo == segment.lo
<1>3. /\ y \in 0 .. bound - 1 /\ IsSon(y, node) /\ leaves[lo + node].weight < leaves[lo + y].weight
      /\ \A c \in Nat : c < bound /\ IsSon(c, node) => leaves[lo + c].weight <= leaves[lo + y].weight
  <2>1. son < bound /\ Less(cell(node), cell(y))
    BY <1>0 DEF Sinks
  <2>2. /\ y \in 0 .. bound - 1 /\ IsSon(y, node)
        /\ \A c \in Nat : c < bound /\ IsSon(c, node) => leaves[lo + c].weight <= leaves[lo + y].weight
    BY <1>0, <2>1, LargestIs
  <2>. QED  BY <1>1, <2>1, <2>2 DEF Less
<1>4. lo + node \in lo .. segment.hi /\ lo + y \in lo .. segment.hi
  BY <1>1, <1>3
<1>. HIDE DEF y
<1>5. /\ LeavesInv' /\ SegmentsInv' /\ SortedInv' /\ segment' = segment /\ size' = size
      /\ \A k \in 1 .. Len(leaves) : leaves'[k] = IF k = lo + node THEN leaves[lo + y]
                                                 ELSE IF k = lo + y THEN leaves[lo + node] ELSE leaves[k]
  <2>1. leaves' = Swapped(leaves, lo + node, lo + y)
    BY <1>0 DEF y
  <2>. QED  BY <1>0, <1>1, <1>4, <2>1, SwapStep, SMTT(40)
<1>6. \A q \in 0 .. size - 1 : leaves'[lo + q] = IF q = node THEN leaves[lo + y]
                                                 ELSE IF q = y THEN leaves[lo + node] ELSE leaves[lo + q]
  <2>1. ASSUME NEW q \in 0 .. size - 1
        PROVE  leaves'[lo + q] = IF q = node THEN leaves[lo + y] ELSE IF q = y THEN leaves[lo + node] ELSE leaves[lo + q]
    <3>1. lo + q \in 1 .. Len(leaves)
      BY <1>2
    <3>2. (lo + q = lo + node <=> q = node) /\ (lo + q = lo + y <=> q = y)
      BY <1>1, <1>3, SMTT(40)
    <3>. QED  BY <1>5, <3>1, <3>2
  <2>. QED  BY <2>1
<1>7. node \in Nat /\ y \in Nat /\ y < bound /\ \A q \in 0 .. bound - 1 : q \in 0 .. size - 1
  BY <1>1, <1>2, <1>3
<1>8. \A q \in 0 .. bound - 1 : leaves'[lo + q] = IF q = node THEN leaves[lo + y]
                                                  ELSE IF q = y THEN leaves[lo + node] ELSE leaves[lo + q]
  BY <1>6, <1>7
<1>. HIDE DEF lo
<1>9. ASSUME NEW s \in Nat, s <= node, Sinking(leaves, lo, s, bound, node)
      PROVE  Sinking(leaves', lo, s, bound, y) /\ y >= s
  <2>1. IsPart(leaves, lo, bound)
    BY <1>1 DEF lo
  <2>2. Sinking(leaves', lo, s, bound, y)
    BY <1>3, <1>7, <1>8, <1>9, <2>1, SinkGoesOn
  <2>3. y >= s
    BY <1>3, <1>7, <1>9 DEF IsSon
  <2>. QED  BY <2>2, <2>3
\* what is behind is in its place still
<1>10. ASSUME bound \in Nat, bound <= size, Settled(leaves, lo, bound, size)
       PROVE  Settled(leaves', lo, bound, size)
  <2>1. ASSUME NEW p \in 0 .. size - 1, NEW q \in 0 .. size - 1, p < q, bound <= q
        PROVE  leaves'[lo + p].weight <= leaves'[lo + q].weight
    <3>1. leaves'[lo + q] = leaves[lo + q]
      <4>1. q # node /\ q # y
        BY <1>1, <1>3, <2>1
      <4>. QED  BY <1>6, <4>1
    <3>2. PICK r \in 0 .. size - 1 : r < q /\ leaves'[lo + p] = leaves[lo + r]
      <4>1. node \in 0 .. size - 1 /\ y \in 0 .. size - 1 /\ node < q /\ y < q
        BY <1>1, <1>2, <1>3, <2>1, SMTT(40)
      <4>. QED  BY <1>6, <2>1, <4>1
    <3>. QED  BY <1>10, <2>1, <3>1, <3>2 DEF Settled
  <2>. QED  BY <2>1 DEF Settled
<1>11. /\ node' \in 0 .. bound' - 1 /\ node' = y /\ at' = at /\ bound' = bound /\ segment'.lo = lo
  BY <1>0, <1>3, <1>5 DEF y, lo
<1>12. HeapInv'
  <2>1. CASE bound = size /\ at \in 0 .. size /\ node >= at /\ Sinking(leaves, lo, at, size, node)
    <3>1. at \in Nat /\ at <= node
      BY <1>1, <2>1
    <3>2. Sinking(leaves', lo, at, size, y) /\ y >= at
      BY <1>9, <2>1, <3>1
    <3>. QED  BY <1>0, <1>5, <1>11, <2>1, <3>2 DEF HeapInv
  <2>2. CASE /\ bound = at /\ at \in 1 .. size - 1
             /\ Sinking(leaves, lo, 0, at, node) /\ Settled(leaves, lo, at, size)
    <3>1. 0 <= node /\ 0 \in Nat
      BY <1>1
    <3>2. Sinking(leaves', lo, 0, at, y) /\ Settled(leaves', lo, at, size)
      BY <1>1, <1>9, <1>10, <2>2, <3>1
    <3>. QED  BY <1>0, <1>5, <1>11, <2>2, <3>2 DEF HeapInv
  <2>. QED  BY <1>0, <2>1, <2>2 DEF SortInv, HeapInv, lo
<1>. QED  BY <1>0, <1>5, <1>12 DEF SortInv, InsertionInv, PartitionInv

\* heapify_range ends: there is no son, or none that is heavier.
LEMMA EndHeapifyStep ==
  ASSUME SortInv, EndHeapify
  PROVE  SortInv'
<1>0. /\ pc = "heapify" /\ pc' = (IF bound = size THEN "build" ELSE "extract") /\ Busy' /\ job' = job /\ segments' = segments
      /\ leaves' = leaves /\ at' = at /\ ~Sinks
  BY DEF EndHeapify, Busy, sorting
<1>1. /\ Busy /\ Sorting /\ segments # <<>> /\ LeavesInv /\ SegmentsInv /\ size > Cutoff
      /\ bound \in Nat /\ node \in 0 .. bound - 1
      /\ \A q \in 0 .. bound - 1 : cell(q) = leaves[segment.lo + q] /\ leaves[segment.lo + q].weight \in Nat
  BY <1>0, SinkHere
<1>2. LeavesInv' /\ SegmentsInv' /\ SortedInv' /\ segment' = segment /\ size' = size
  BY <1>0, <1>1, CountersStep
<1>. HIDE DEF size
<1>3. ASSUME NEW c \in Nat, c < bound, IsSon(c, node) PROVE leaves[segment.lo + c].weight <= leaves[segment.lo + node].weight
  <2>1. son < bound /\ largest \in 0 .. bound - 1 /\ leaves[segment.lo + c].weight <= leaves[segment.lo + largest].weight
    BY <1>0, <1>3, LargestIs
  <2>2. ~Less(cell(node), cell(largest)) /\ c \in 0 .. bound - 1
    BY <1>0, <1>1, <1>3, <2>1 DEF Sinks
  <2>3. ~(leaves[segment.lo + node].weight < leaves[segment.lo + largest].weight)
    BY <1>1, <2>1, <2>2 DEF Less
  <2>4. /\ leaves[segment.lo + node].weight \in Nat /\ leaves[segment.lo + largest].weight \in Nat
        /\ leaves[segment.lo + c].weight \in Nat
    BY <1>1, <2>1, <2>2
  <2>. QED  BY <2>1, <2>3, <2>4
<1>4. HeapInv'
  <2>1. CASE bound = size /\ at \in 0 .. size /\ node >= at /\ Sinking(leaves, segment.lo, at, size, node)
    <3>1. at \in Nat /\ node \in Nat /\ size \in Nat
      BY <1>1, <2>1
    <3>2. Heap(leaves, segment.lo, at, size)
      BY <1>3, <2>1, <3>1, SinkEnds
    <3>. QED  BY <1>0, <1>2, <2>1, <3>2 DEF HeapInv
  <2>2. CASE /\ bound = at /\ at \in 1 .. size - 1
             /\ Sinking(leaves, segment.lo, 0, at, node) /\ Settled(leaves, segment.lo, at, size)
    <3>1. 0 \in Nat /\ node \in Nat /\ at \in Nat
      BY <1>1, <2>2
    <3>2. Heap(leaves, segment.lo, 0, at)
      BY <1>3, <2>2, <3>1, SinkEnds
    <3>3. size \in Nat
      BY <1>1, PartHere
    <3>4. pc' = "extract" /\ at \in 1 .. size
      BY <1>0, <2>2, <3>3
    <3>. QED  BY <1>0, <1>2, <2>2, <3>2, <3>4 DEF HeapInv
  <2>. QED  BY <1>0, <2>1, <2>2 DEF SortInv, HeapInv
<1>5. pc' # "partition" /\ pc' # "insertion"
  BY <1>0
<1>. QED  BY <1>2, <1>4, <1>5 DEF SortInv, InsertionInv, PartitionInv
-----------------------------------------------------------------------------
(* Steps of sort_partition *)

\* sort_partition begins: both loops will stop at the pivot.
LEMMA StartPartitionStep ==
  ASSUME SortInv, StartPartition
  PROVE  SortInv'
<1>0. /\ Sorting /\ Busy' /\ segments # <<>> /\ LeavesInv /\ SegmentsInv /\ size > Cutoff
      /\ job' = job /\ leaves' = leaves /\ segments' = segments /\ pc' = "partition"
      /\ pivot' = leaves[segment.lo + size \div 2] /\ from' = segment.lo - 1 /\ to' = segment.hi + 1
  BY DEF Sorting, Busy, StartPartition, SortInv
<1>1. LeavesInv' /\ SegmentsInv' /\ SortedInv' /\ segment' = segment /\ size' = size
  BY <1>0, CountersStep
<1>2. /\ size \in Nat /\ size > 2 /\ segment.lo \in Nat /\ segment.hi \in Nat /\ segment.hi = segment.lo + size - 1
      /\ IsPart(leaves, segment.lo, size)
      /\ \A q \in 0 .. size - 1 : segment.lo + q \in 1 .. Len(leaves) /\ segment.lo + q \in segment.lo .. segment.hi
  BY <1>0, PartHere
<1>. HIDE DEF size
<1>3. size \div 2 \in 0 .. size - 1
  BY <1>2
<1>4. PICK m \in segment.lo .. segment.hi : m = segment.lo + size \div 2 /\ m \in 1 .. Len(leaves)
  BY <1>2, <1>3
<1>5. pivot' = leaves[m] /\ leaves[m] \in Leaves /\ leaves[m].weight \in Nat
  <2>1. leaves[m] \in Leaves
    BY <1>2, <1>4, ElementOfSeq DEF IsPart
  <2>. QED  BY <1>0, <1>4, <2>1 DEF Leaves
<1>6. \A k \in segment.lo .. segment.lo - 1 : FALSE
  BY <1>2
<1>7. \A k \in segment.hi + 1 .. segment.hi : FALSE
  BY <1>2
<1>8. m \in from' + 1 .. segment.hi /\ m \in segment.lo .. to' - 1
  BY <1>0, <1>2, <1>4, SMTT(40)
<1>9. leaves'[m].weight >= pivot'.weight /\ leaves'[m].weight <= pivot'.weight
  BY <1>0, <1>5
<1>10. from' \in segment.lo - 1 .. segment.hi /\ to' \in segment.lo .. segment.hi + 1 /\ from' < to'
  <2>1. from' = segment.lo - 1 /\ to' = segment.hi + 1
    BY <1>0
  <2>2. segment.lo \in Nat /\ segment.hi \in Nat /\ segment.lo < segment.hi
    BY <1>2
  <2>. QED  BY <2>1, <2>2
<1>11. PartitionInv'
  BY <1>0, <1>1, <1>5, <1>6, <1>7, <1>8, <1>9, <1>10 DEF PartitionInv
<1>. QED  BY <1>0, <1>1, <1>11 DEF SortInv, InsertionInv, HeapInv

\* Both loops stop within the segment.
ScansInv ==
  pc = "partition" =>
    /\ up \in from + 1 .. segment.hi /\ leaves[up].weight >= pivot.weight
    /\ \A m \in from + 1 .. up - 1 : leaves[m].weight < pivot.weight
    /\ down \in segment.lo .. to - 1 /\ leaves[down].weight <= pivot.weight
    /\ \A m \in down + 1 .. to - 1 : leaves[m].weight > pivot.weight

\* where a partition is
LEMMA PartitionHere ==
  ASSUME SortInv, pc = "partition"
  PROVE  /\ Busy /\ Sorting /\ segments # <<>> /\ LeavesInv /\ SegmentsInv /\ size > Cutoff
         /\ segment.lo \in Nat /\ segment.hi \in Nat /\ 1 <= segment.lo /\ segment.hi <= Len(leaves) /\ Len(leaves) \in Nat
         /\ numsymbols = Len(leaves) /\ segment.depth \in Int
         /\ \A k \in 1 .. Len(leaves) : leaves[k].weight \in Nat
         /\ pivot \in Leaves /\ pivot.weight \in Nat
         /\ from \in segment.lo - 1 .. segment.hi /\ to \in segment.lo .. segment.hi + 1 /\ from < to
         /\ \A k \in segment.lo .. from : leaves[k].weight <= pivot.weight
         /\ \A k \in to .. segment.hi : leaves[k].weight >= pivot.weight
         /\ \E k \in from + 1 .. segment.hi : leaves[k].weight >= pivot.weight
         /\ \E k \in segment.lo .. to - 1 : leaves[k].weight <= pivot.weight
<1>0. Busy /\ Sorting /\ segments # <<>> /\ LeavesInv /\ SegmentsInv /\ size > Cutoff
  BY DEF Sorting, Busy, SortInv, SegmentsInv
<1>1. /\ segment.lo \in Nat /\ segment.hi \in Nat /\ segment.depth \in Int /\ 1 <= segment.lo /\ segment.hi <= Len(leaves)
      /\ IsArray(leaves, Known, Keys)
  BY <1>0, Here DEF numsymbols
<1>2. Len(leaves) \in Nat /\ \A k \in 1 .. Len(leaves) : leaves[k].weight \in Nat
  BY <1>1, ArrayIs
<1>3. PartitionInv
  BY DEF SortInv
<1>4. pivot \in Leaves
  BY <1>3 DEF PartitionInv
<1>5. pivot.weight \in Nat
  BY <1>4 DEF Leaves
<1>. QED  BY <1>0, <1>1, <1>2, <1>3, <1>4, <1>5 DEF PartitionInv, numsymbols

\* Both inner loops stop inside the segment.
LEMMA ScansStop ==
  ASSUME SortInv
  PROVE  ScansInv
<1>0. SUFFICES ASSUME pc = "partition"
               PROVE  /\ up \in from + 1 .. segment.hi /\ leaves[up].weight >= pivot.weight
                      /\ \A m \in from + 1 .. up - 1 : leaves[m].weight < pivot.weight
                      /\ down \in segment.lo .. to - 1 /\ leaves[down].weight <= pivot.weight
                      /\ \A m \in down + 1 .. to - 1 : leaves[m].weight > pivot.weight
  BY DEF ScansInv
<1>. DEFINE lo == segment.lo
            hi == segment.hi
            n == Len(leaves)
<1>1. /\ lo \in Nat /\ hi \in Nat /\ 1 <= lo /\ hi <= n /\ n \in Nat /\ numsymbols = n
      /\ \A k \in 1 .. n : leaves[k].weight \in Nat
      /\ pivot.weight \in Nat /\ from \in lo - 1 .. hi /\ to \in lo .. hi + 1
      /\ \E k \in from + 1 .. hi : leaves[k].weight >= pivot.weight
      /\ \E k \in lo .. to - 1 : leaves[k].weight <= pivot.weight
  BY <1>0, PartitionHere
<1>. HIDE DEF lo, hi, n
<1>2. \A k \in 1 .. n : /\ Less(leaves[k], pivot) <=> leaves[k].weight < pivot.weight
                        /\ Less(pivot, leaves[k]) <=> leaves[k].weight > pivot.weight
                        /\ ~(leaves[k].weight < pivot.weight) <=> leaves[k].weight >= pivot.weight
                        /\ ~(leaves[k].weight > pivot.weight) <=> leaves[k].weight <= pivot.weight
  BY <1>1 DEF Less
<1>3. from + 1 \in 1 .. n + 1 /\ from \in Nat /\ to \in Nat /\ to - 1 <= n
  BY <1>1
<1>4. up \in from + 1 .. hi /\ leaves[up].weight >= pivot.weight /\ \A m \in from + 1 .. up - 1 : leaves[m].weight < pivot.weight
  <2>. DEFINE T == {k \in from + 1 .. n : ~Less(leaves[k], pivot)}
  <2>1. PICK h \in from + 1 .. hi : leaves[h].weight >= pivot.weight
    BY <1>1
  <2>2. h \in T
    BY <1>1, <1>2, <1>3, <2>1
  <2>3. T \subseteq Nat
    BY <1>3
  <2>4. PICK k \in T : \A m \in T : k <= m
    <3>. HIDE DEF T
    <3>. QED  BY <2>2, <2>3, LeastExists
  <2>5. k \in from + 1 .. n /\ ~Less(leaves[k], pivot)
    OBVIOUS
  <2>6. ASSUME NEW m \in from + 1 .. k - 1 PROVE Less(leaves[m], pivot)
    <3>1. m \in from + 1 .. n /\ ~(k <= m)
      BY <1>1, <1>3, <2>5
    <3>2. m \notin T
      <4>. HIDE DEF T
      <4>. QED  BY <2>4, <3>1
    <3>. QED  BY <3>1, <3>2
  <2>7. /\ up \in from + 1 .. n /\ ~Less(leaves[up], pivot) /\ \A m \in from + 1 .. up - 1 : Less(leaves[m], pivot)
    <3>. HIDE DEF T
    <3>1. \E u \in from + 1 .. numsymbols : ~Less(leaves[u], pivot) /\ \A m \in from + 1 .. u - 1 : Less(leaves[m], pivot)
      BY <1>1, <2>5, <2>6
    <3>2. /\ up \in from + 1 .. numsymbols
          /\ ~Less(leaves[up], pivot) /\ \A m \in from + 1 .. up - 1 : Less(leaves[m], pivot)
      BY <3>1 DEF up
    <3>. QED  BY <1>1, <3>2
  <2>. HIDE DEF T
  <2>8. up \in 1 .. n /\ \A m \in from + 1 .. up - 1 : m \in 1 .. n
    BY <1>1, <1>3, <2>7
  <2>9. up <= h
    <3>1. h \in 1 .. n /\ ~Less(leaves[h], pivot)
      BY <1>1, <1>2, <1>3, <2>1
    <3>2. ~(h \in from + 1 .. up - 1)
      BY <2>7, <3>1
    <3>. QED  BY <1>3, <2>1, <2>8, <3>2
  <2>10. up \in from + 1 .. hi
    BY <1>1, <1>3, <2>1, <2>7, <2>9
  <2>. QED  BY <1>2, <2>7, <2>8, <2>10
<1>5. down \in lo .. to - 1 /\ leaves[down].weight <= pivot.weight /\ \A m \in down + 1 .. to - 1 : leaves[m].weight > pivot.weight
  <2>. DEFINE T == {k \in 1 .. to - 1 : ~Less(pivot, leaves[k])}
  <2>1. PICK h \in lo .. to - 1 : leaves[h].weight <= pivot.weight
    BY <1>1
  <2>2. h \in T
    BY <1>1, <1>2, <1>3, <2>1
  <2>3. T \subseteq 0 .. n
    BY <1>1, <1>3
  <2>4. PICK k \in T : \A m \in T : m <= k
    <3>. HIDE DEF T
    <3>. QED  BY <1>1, <2>2, <2>3, GreatestExists
  <2>5. k \in 1 .. to - 1 /\ ~Less(pivot, leaves[k])
    OBVIOUS
  <2>6. ASSUME NEW m \in k + 1 .. to - 1 PROVE Less(pivot, leaves[m])
    <3>1. m \in 1 .. to - 1 /\ ~(m <= k)
      BY <1>1, <1>3, <2>5
    <3>2. m \notin T
      <4>. HIDE DEF T
      <4>. QED  BY <2>4, <3>1
    <3>. QED  BY <3>1, <3>2
  <2>7. /\ down \in 1 .. to - 1 /\ ~Less(pivot, leaves[down]) /\ \A m \in down + 1 .. to - 1 : Less(pivot, leaves[m])
    <3>. HIDE DEF T
    <3>. QED  BY <2>5, <2>6 DEF down
  <2>. HIDE DEF T
  <2>8. down \in 1 .. n /\ \A m \in down + 1 .. to - 1 : m \in 1 .. n
    BY <1>1, <1>3, <2>7
  <2>9. h <= down
    <3>1. h \in 1 .. n /\ ~Less(pivot, leaves[h])
      BY <1>1, <1>2, <1>3, <2>1
    <3>2. ~(h \in down + 1 .. to - 1)
      BY <2>7, <3>1
    <3>. QED  BY <1>3, <2>1, <2>8, <3>2
  <2>10. down \in lo .. to - 1
    BY <1>1, <1>3, <2>1, <2>7, <2>9
  <2>. QED  BY <1>2, <2>7, <2>8, <2>10
<1>. QED  BY <1>4, <1>5 DEF lo, hi

\* Two leaves change places: both loops will stop again, at the latest at these.
LEMMA ExchangeStep ==
  ASSUME SortInv, Exchange
  PROVE  SortInv'
<1>. DEFINE lo == segment.lo
            hi == segment.hi
            n == Len(leaves)
            u == up
            d == down
<1>0. /\ pc = "partition" /\ pc' = "partition" /\ Busy' /\ job' = job /\ segments' = segments
      /\ leaves' = Swapped(leaves, u, d) /\ from' = u /\ to' = d /\ pivot' = pivot /\ u < d
  BY DEF Exchange, Busy
<1>1. /\ Busy /\ Sorting /\ segments # <<>> /\ LeavesInv /\ SegmentsInv /\ size > Cutoff
      /\ lo \in Nat /\ hi \in Nat /\ 1 <= lo /\ hi <= n /\ n \in Nat
      /\ \A k \in 1 .. n : leaves[k].weight \in Nat
      /\ pivot \in Leaves /\ pivot.weight \in Nat /\ from \in lo - 1 .. hi /\ to \in lo .. hi + 1
      /\ \A k \in lo .. from : leaves[k].weight <= pivot.weight
      /\ \A k \in to .. hi : leaves[k].weight >= pivot.weight
  BY <1>0, PartitionHere
<1>2. /\ u \in from + 1 .. hi /\ leaves[u].weight >= pivot.weight
      /\ \A m \in from + 1 .. u - 1 : leaves[m].weight < pivot.weight
      /\ d \in lo .. to - 1 /\ leaves[d].weight <= pivot.weight
      /\ \A m \in d + 1 .. to - 1 : leaves[m].weight > pivot.weight
  BY <1>0, ScansStop DEF ScansInv
<1>3. /\ u \in lo .. hi /\ d \in lo .. hi
  BY <1>1, <1>2, SMTT(40)
<1>. HIDE DEF u, d
<1>4. /\ LeavesInv' /\ SegmentsInv' /\ SortedInv' /\ segment' = segment /\ size' = size
      /\ \A k \in 1 .. n : leaves'[k] = IF k = u THEN leaves[d] ELSE IF k = d THEN leaves[u] ELSE leaves[k]
  BY <1>0, <1>1, <1>3, SwapStep
<1>. HIDE DEF lo, hi, n
<1>5. u \in 1 .. n /\ d \in 1 .. n /\ leaves'[u] = leaves[d] /\ leaves'[d] = leaves[u] /\ u \in Int /\ d \in Int
  BY <1>0, <1>1, <1>3, <1>4
<1>6. ASSUME NEW k \in lo .. u PROVE leaves'[k].weight <= pivot.weight
  <2>1. CASE k = u
    BY <1>2, <1>5, <2>1
  <2>2. CASE k < u
    <3>1. k \in 1 .. n /\ k # d /\ k # u /\ (k \in lo .. from \/ k \in from + 1 .. u - 1)
      BY <1>0, <1>1, <1>5, <2>2
    <3>2. leaves'[k] = leaves[k] /\ leaves[k].weight \in Nat
      BY <1>1, <1>4, <3>1
    <3>. QED  BY <1>1, <1>2, <3>1, <3>2
  <2>. QED  BY <1>5, <2>1, <2>2
<1>7. ASSUME NEW k \in d .. hi PROVE leaves'[k].weight >= pivot.weight
  <2>1. CASE k = d
    BY <1>2, <1>5, <2>1
  <2>2. CASE k > d
    <3>1. k \in 1 .. n /\ k # d /\ k # u /\ (k \in to .. hi \/ k \in d + 1 .. to - 1)
      BY <1>0, <1>1, <1>5, <2>2
    <3>2. leaves'[k] = leaves[k] /\ leaves[k].weight \in Nat
      BY <1>1, <1>4, <3>1
    <3>. QED  BY <1>1, <1>2, <3>1, <3>2
  <2>. QED  BY <1>5, <2>1, <2>2
<1>8. d \in u + 1 .. hi /\ leaves'[d].weight >= pivot.weight /\ u \in lo .. d - 1 /\ leaves'[u].weight <= pivot.weight
  BY <1>0, <1>1, <1>2, <1>3, <1>5
<1>9. u \in lo - 1 .. hi /\ d \in lo .. hi + 1
  BY <1>1, <1>3
<1>10. PartitionInv'
  BY <1>0, <1>1, <1>4, <1>6, <1>7, <1>8, <1>9 DEF PartitionInv, lo, hi
<1>. QED  BY <1>0, <1>4, <1>10 DEF SortInv, InsertionInv, HeapInv

\* sort_partition ends: the two parts are sorted one after the other.
LEMMA EndPartitionStep ==
  ASSUME SortInv, EndPartition
  PROVE  SortInv'
<1>. DEFINE lo == segment.lo
            hi == segment.hi
            n == Len(leaves)
            d == down
            left == Segment(lo, d, segment.depth - 1)
            right == Segment(d + 1, hi, segment.depth - 1)
<1>0. /\ pc = "partition" /\ pc' = "sort" /\ Sorting' /\ job' = job /\ leaves' = leaves /\ up >= d
      /\ \/ segments' = Front(segments) \o <<right, left>>
         \/ segments' = Front(segments) \o <<left, right>>
  BY DEF EndPartition, Sorting
<1>1. /\ Busy /\ Sorting /\ segments # <<>> /\ LeavesInv /\ SegmentsInv
      /\ lo \in Nat /\ hi \in Nat /\ 1 <= lo /\ hi <= n /\ n \in Nat /\ segment.depth \in Int
      /\ \A k \in 1 .. n : leaves[k].weight \in Nat
      /\ pivot.weight \in Nat /\ from \in lo - 1 .. hi /\ to \in lo .. hi + 1
      /\ \A k \in lo .. from : leaves[k].weight <= pivot.weight
      /\ \A k \in to .. hi : leaves[k].weight >= pivot.weight
  BY <1>0, PartitionHere
<1>2. /\ up \in from + 1 .. hi
      /\ \A m \in from + 1 .. up - 1 : leaves[m].weight < pivot.weight
      /\ d \in lo .. to - 1 /\ leaves[d].weight <= pivot.weight
      /\ \A m \in d + 1 .. to - 1 : leaves[m].weight > pivot.weight
  BY <1>0, ScansStop DEF ScansInv
<1>3. leaves \in Seq(Leaves) /\ AreSegments(segments, n) /\ Apart(leaves, segments) /\ IsArray(leaves, Known, Keys) /\ Ties(leaves)
  BY <1>1, Here DEF numsymbols
<1>4. lo = Last(segments).lo /\ hi = Last(segments).hi
  BY DEF segment
<1>5. d \in Nat /\ lo <= d + 1 /\ d <= hi /\ segment.depth - 1 \in Int
  BY <1>1, <1>2, SMTT(40)
<1>. HIDE DEF d, lo, hi, n
<1>6. ASSUME NEW k \in lo .. d PROVE leaves[k].weight <= pivot.weight
  <2>1. k = d \/ k \in lo .. from \/ k \in from + 1 .. up - 1
    BY <1>0, <1>1, <1>2, <1>5
  <2>2. CASE k = d
    BY <1>2, <2>2
  <2>3. CASE k \in lo .. from
    BY <1>1, <2>3
  <2>4. CASE k \in from + 1 .. up - 1
    <3>1. leaves[k].weight < pivot.weight /\ k \in 1 .. n
      BY <1>1, <1>2, <1>5, <2>4
    <3>2. leaves[k].weight \in Nat /\ pivot.weight \in Nat
      BY <1>1, <3>1
    <3>. QED  BY <3>1, <3>2
  <2>. QED  BY <2>1, <2>2, <2>3, <2>4
<1>7. ASSUME NEW k \in d + 1 .. hi PROVE leaves[k].weight >= pivot.weight
  <2>1. k \in to .. hi \/ k \in d + 1 .. to - 1
    BY <1>1, <1>2, <1>5
  <2>2. CASE k \in to .. hi
    BY <1>1, <2>2
  <2>3. CASE k \in d + 1 .. to - 1
    <3>1. leaves[k].weight > pivot.weight /\ k \in 1 .. n
      BY <1>1, <1>2, <1>5, <2>3
    <3>2. leaves[k].weight \in Nat /\ pivot.weight \in Nat
      BY <1>1, <3>1
    <3>. QED  BY <3>1, <3>2
  <2>. QED  BY <2>1, <2>2, <2>3
<1>8. ASSUME NEW k \in lo .. d, NEW l \in d + 1 .. hi PROVE leaves[k].weight <= leaves[l].weight
  <2>1. k \in 1 .. n /\ l \in 1 .. n
    BY <1>1, <1>5
  <2>. QED  BY <1>1, <1>6, <1>7, <2>1
<1>9. \A k \in Last(segments).lo .. d, l \in d + 1 .. Last(segments).hi : leaves[k].weight <= leaves[l].weight
  BY <1>4, <1>8
<1>10. Apart(leaves, segments') /\ AreSegments(segments', n)
  <2>1. Last(segments).lo <= d + 1 /\ d <= Last(segments).hi
    BY <1>4, <1>5
  <2>2. AreSegments(segments, Len(leaves))
    BY <1>3 DEF n
  <2>3. /\ left = Segment(Last(segments).lo, d, segment.depth - 1)
        /\ right = Segment(d + 1, Last(segments).hi, segment.depth - 1)
    BY <1>4
  <2>. HIDE DEF left, right
  <2>4. CASE segments' = Front(segments) \o <<right, left>>
    <3>1. Apart(leaves, Front(segments) \o <<right, left>>) /\ AreSegments(Front(segments) \o <<right, left>>, Len(leaves))
      BY <1>1, <1>3, <1>5, <1>9, <2>1, <2>2, <2>3, ApartCut
    <3>. QED  BY <2>4, <3>1 DEF n
  <2>5. CASE segments' = Front(segments) \o <<left, right>>
    <3>1. Apart(leaves, Front(segments) \o <<left, right>>) /\ AreSegments(Front(segments) \o <<left, right>>, Len(leaves))
      BY <1>1, <1>3, <1>5, <1>9, <2>1, <2>2, <2>3, ApartCut
    <3>. QED  BY <2>5, <3>1 DEF n
  <2>. QED  BY <1>0, <2>4, <2>5
<1>11. LeavesInv' /\ SortedInv'
  BY <1>0, <1>1, <1>3, LeavesStep
<1>12. SegmentsInv'
  BY <1>0, <1>10 DEF SegmentsInv, Busy, numsymbols, n
<1>. QED  BY <1>0, <1>11, <1>12 DEF SortInv, InsertionInv, HeapInv, PartitionInv
-----------------------------------------------------------------------------
(* Steps before and after the sort *)

\* one more leaf
LEMMA AppendIs ==
  ASSUME NEW S, NEW w, NEW a, IsArray(a, S, w), NEW x \in Leaves, x.count \notin S, x.weight = w[x.count]
  PROVE  /\ IsArray(Append(a, x), S \cup {x.count}, w) /\ Len(Append(a, x)) = Len(a) + 1
         /\ \A k \in 1 .. Len(a) : Append(a, x)[k] = a[k]
         /\ Append(a, x)[Len(a) + 1] = x
<1>. DEFINE b == Append(a, x)
            n == Len(a)
<1>1. a \in Seq(Leaves) /\ n \in Nat
  BY ArrayIs
<1>2. b \in Seq(Leaves) /\ Len(b) = n + 1 /\ b[n + 1] = x /\ \A k \in 1 .. n : b[k] = a[k]
  BY <1>1, AppendProperties
<1>. HIDE DEF b, n
<1>3. /\ \A k \in 1 .. n : a[k].count \in S /\ a[k].weight = w[a[k].count]
      /\ \A k, l \in 1 .. n : a[k].count = a[l].count => k = l
      /\ \A s \in S : \E k \in 1 .. n : a[k].count = s
  BY DEF IsArray, n
<1>4. \A k \in 1 .. n + 1 : k \in 1 .. n \/ k = n + 1
  BY <1>1
<1>5. ASSUME NEW k \in 1 .. n + 1 PROVE b[k].count \in S \cup {x.count} /\ b[k].weight = w[b[k].count]
  BY <1>2, <1>3, <1>4
<1>6. ASSUME NEW k \in 1 .. n + 1, NEW l \in 1 .. n + 1, b[k].count = b[l].count PROVE k = l
  <2>1. \A m \in 1 .. n : b[m].count # x.count
    BY <1>2, <1>3
  <2>. QED  BY <1>2, <1>3, <1>4, <1>6, <2>1
<1>7. ASSUME NEW s \in S \cup {x.count} PROVE \E k \in 1 .. n + 1 : b[k].count = s
  <2>1. CASE s = x.count
    <3>1. n + 1 \in 1 .. n + 1
      BY <1>1
    <3>. QED  BY <1>2, <2>1, <3>1
  <2>2. CASE s \in S
    <3>1. PICK k \in 1 .. n : a[k].count = s
      BY <1>3, <2>2
    <3>2. k \in 1 .. n + 1
      BY <1>1
    <3>. QED  BY <1>2, <3>1, <3>2
  <2>. QED  BY <2>1, <2>2
<1>8. IsArray(b, S \cup {x.count}, w)
  BY <1>2, <1>5, <1>6, <1>7 DEF IsArray
<1>. QED  BY <1>2, <1>8 DEF b, n

\* Other weights for the same symbols.
LEMMA WeightsIs ==
  ASSUME NEW S, NEW w, NEW a, IsArray(a, S, w), NEW v, NEW b \in [1 .. Len(a) -> Leaves],
         \A k \in 1 .. Len(a) : b[k].count = a[k].count /\ b[k].weight = v[a[k].count]
  PROVE  IsArray(b, S, v) /\ Len(b) = Len(a)
<1>. DEFINE n == Len(a)
<1>1. a \in Seq(Leaves) /\ n \in Nat /\ DOMAIN a = 1 .. n /\ \A k \in 1 .. n : a[k] \in Leaves
  BY ArrayIs
<1>2. DOMAIN b = 1 .. n /\ \A k \in 1 .. n : b[k].count = a[k].count /\ b[k].weight = v[a[k].count]
  OBVIOUS
<1>5. b \in Seq(Leaves) /\ Len(b) = n
  <2>1. b \in Seq(Leaves)
    BY <1>1
  <2>. QED  BY <1>1, <1>2, <2>1, LenProperties
<1>6. \A k \in 1 .. n : b[k].count \in S /\ b[k].weight = v[b[k].count]
  BY <1>2 DEF IsArray
<1>7. \A k, l \in 1 .. n : b[k].count = b[l].count => k = l
  BY <1>2 DEF IsArray
<1>8. \A s \in S : \E k \in 1 .. n : b[k].count = s
  BY <1>2 DEF IsArray
<1>. QED  BY <1>2, <1>5, <1>6, <1>7, <1>8 DEF IsArray

\* when all is counted, all symbols that occur are known
LEMMA AllCounted ==
  ASSUME LeavesInv, pc = "count", i \notin DOMAIN job.freq
  PROVE  Known = Occurring(job.freq) /\ i \in Nat
<1>1. PICK n \in 0 .. SymbolLimit : job.freq \in [0 .. n - 1 -> Nat]
  BY JobsAssumption DEF LeavesInv
<1>2. i \in Nat
  BY DEF LeavesInv
<1>3. \A s \in DOMAIN job.freq : s < i
  <2>1. DOMAIN job.freq = 0 .. n - 1 /\ n \in Int
    BY <1>1 DEF SymbolLimit
  <2>. QED  BY <1>2, <2>1
<1>. QED  BY <1>2, <1>3 DEF Known, Occurring

\* A symbol that occurs gets a leaf.
LEMMA CountStep ==
  ASSUME SortInv, Count
  PROVE  SortInv'
<1>0. /\ pc = "count" /\ pc' = "count" /\ job' = job /\ i' = i + 1 /\ i \in DOMAIN job.freq /\ segments' = segments
      /\ leaves' = IF job.freq[i] > 0 THEN Append(leaves, [weight |-> job.freq[i], count |-> i]) ELSE leaves
  BY DEF Count, sorting
<1>1. /\ job \in Jobs /\ IsArray(leaves, Known, Keys) /\ i \in Nat
      /\ \A k, l \in 1 .. numsymbols : k < l => leaves[k].count < leaves[l].count
  BY <1>0 DEF SortInv, LeavesInv
<1>2. \A s \in DOMAIN job.freq : s \in Nat /\ job.freq[s] \in Nat
  BY <1>1, JobIs, SymbolsAre
<1>3. Keys' = Keys /\ \A s \in DOMAIN job.freq : Keys[s] = job.freq[s]
  BY <1>0 DEF Keys, Key, IsPacked, Sorting
<1>4. Known = {s \in DOMAIN job.freq : job.freq[s] > 0 /\ s < i} /\ Known' = {s \in DOMAIN job.freq : job.freq[s] > 0 /\ s < i + 1}
  BY <1>0 DEF Known
<1>5. /\ IsArray(leaves', Known', Keys)
      /\ \A k, l \in 1 .. Len(leaves') : k < l => leaves'[k].count < leaves'[l].count
  <2>1. CASE job.freq[i] > 0
    <3>. DEFINE x == [weight |-> job.freq[i], count |-> i]
    <3>1. x \in Leaves /\ x.count = i /\ x.weight = Keys[x.count]
      BY <1>0, <1>1, <1>2, <1>3 DEF Leaves
    <3>2. i \notin Known /\ Known' = Known \cup {i}
      BY <1>0, <1>1, <1>2, <1>4, <2>1
    <3>3. leaves' = Append(leaves, x)
      BY <1>0, <2>1
    <3>. HIDE DEF x
    <3>4. /\ IsArray(leaves', Known \cup {x.count}, Keys) /\ Len(leaves') = Len(leaves) + 1
          /\ \A k \in 1 .. Len(leaves) : leaves'[k] = leaves[k]
          /\ leaves'[Len(leaves) + 1] = x
      BY <1>1, <3>1, <3>2, <3>3, AppendIs
    <3>5. ASSUME NEW k \in 1 .. Len(leaves'), NEW l \in 1 .. Len(leaves'), k < l
          PROVE  leaves'[k].count < leaves'[l].count
      <4>1. Len(leaves) \in Nat /\ k \in 1 .. Len(leaves) /\ (l \in 1 .. Len(leaves) \/ l = Len(leaves) + 1)
        BY <1>1, <3>4, <3>5, ArrayIs, SMTT(40)
      <4>2. CASE l \in 1 .. Len(leaves)
        BY <1>1, <3>4, <3>5, <4>1, <4>2 DEF numsymbols
      <4>3. CASE l = Len(leaves) + 1
        <5>1. leaves[k].count \in Known
          BY <1>1, <4>1 DEF IsArray
        <5>2. leaves[k].count < i
          BY <1>4, <5>1
        <5>. QED  BY <3>1, <3>4, <4>1, <4>3, <5>2
      <4>. QED  BY <4>1, <4>2, <4>3
    <3>. QED  BY <3>1, <3>2, <3>4, <3>5
  <2>2. CASE ~(job.freq[i] > 0)
    <3>1. Known' = Known
      BY <1>0, <1>1, <1>2, <1>4, <2>2
    <3>2. leaves' = leaves
      BY <1>0, <2>2
    <3>. QED  BY <1>1, <3>1, <3>2 DEF numsymbols
  <2>. QED  BY <2>1, <2>2
<1>6. LeavesInv'
  BY <1>0, <1>1, <1>3, <1>5 DEF LeavesInv, Sorting, numsymbols
<1>. QED
  BY <1>0, <1>6 DEF SortInv, SegmentsInv, InsertionInv, HeapInv, PartitionInv, SortedInv, Sorting, Busy, Merging

\* With one or two symbols nothing is sorted.
LEMMA FewStep ==
  ASSUME SortInv, Few
  PROVE  SortInv'
<1>0. pc = "count" /\ pc' = "done" /\ job' = job /\ leaves' = leaves /\ i \notin DOMAIN job.freq
  BY DEF Few
<1>1. job \in Jobs /\ IsArray(leaves, Known, Keys) /\ Known = Occurring(job.freq)
  BY <1>0, AllCounted DEF SortInv, LeavesInv
<1>2. Keys' = Keys
  BY <1>0 DEF Keys, Key, IsPacked, Sorting
<1>3. Known' = Occurring(job.freq)
  BY <1>0 DEF Known, Occurring
<1>4. IsArray(leaves', Known', Keys')
  BY <1>0, <1>1, <1>2, <1>3
<1>5. LeavesInv'
  BY <1>0, <1>1, <1>4 DEF LeavesInv, Sorting
<1>. QED
  BY <1>0, <1>5 DEF SortInv, SegmentsInv, InsertionInv, HeapInv, PartitionInv, SortedInv, Sorting, Busy, Merging

\* the logarithm is a natural number
LEMMA LogIsNat ==
  ASSUME NEW n
  PROVE  floor_log2(n) \in Nat
<1>. DEFINE s == {k \in 1 .. 15 : 2 ^ k <= n}
<1>1. IsFiniteSet(1 .. 15)
  <2>1. 1 \in Int /\ 15 \in Int
    OBVIOUS
  <2>. QED  BY <2>1, FS_Interval, Zenon
<1>2. s \subseteq 1 .. 15
  OBVIOUS
<1>3. Cardinality(s) \in Nat
  <2>. HIDE DEF s
  <2>. QED  BY <1>1, <1>2, FS_Subset, FS_CardinalityType
<1>. QED  BY <1>3 DEF floor_log2

\* The weights are packed, and all leaves are one segment.
LEMMA StartSortStep ==
  ASSUME SortInv, StartSort
  PROVE  SortInv'
<1>0. /\ pc = "count" /\ pc' = "sort" /\ job' = job /\ i \notin DOMAIN job.freq /\ numsymbols > 2
      /\ leaves' = (IF numsymbols > Cutoff THEN Packed(leaves) ELSE leaves)
      /\ segments' = <<Segment(1, numsymbols, DepthFactor * floor_log2(numsymbols))>>
  BY DEF StartSort
<1>1. /\ job \in Jobs /\ IsArray(leaves, Known, Keys) /\ Known = Occurring(job.freq)
      /\ \A k, l \in 1 .. numsymbols : k < l => leaves[k].count < leaves[l].count
  BY <1>0, AllCounted DEF SortInv, LeavesInv
<1>2. \A s \in Known : s \in DOMAIN job.freq /\ s \in SymbolSet /\ job.freq[s] \in Nat /\ Keys[s] = job.freq[s]
  <2>1. \A s \in DOMAIN job.freq : Keys[s] = job.freq[s]
    BY <1>0 DEF Keys, Key, IsPacked, Sorting
  <2>. QED  BY <1>1, <2>1, JobIs DEF Occurring
<1>3. Known' = Known
  BY <1>0, <1>1 DEF Known, Occurring
<1>4. Sorting' /\ numsymbols \in Nat
  BY <1>0, <1>1, ArrayIs DEF Sorting, numsymbols
\* the leaves are what they are, without ties
<1>5. ASSUME numsymbols > Cutoff
      PROVE  IsArray(leaves', Known, Keys') /\ Ties(leaves') /\ Len(leaves') = Len(leaves)
  <2>. DEFINE f == [k \in 1 .. Len(leaves) |-> Pack(leaves[k].weight, leaves[k].count)]
  <2>0. /\ Len(leaves) \in Nat /\ DOMAIN leaves = 1 .. Len(leaves)
        /\ \A k \in 1 .. Len(leaves) : leaves[k] \in Leaves /\ leaves[k].weight \in Nat /\ leaves[k].count \in Nat
    BY <1>1, ArrayIs
  <2>12. \A k \in 1 .. Len(leaves) : leaves[k].count \in SymbolSet
    BY <1>1, <1>2 DEF IsArray
  <2>1. leaves' = [k \in DOMAIN leaves |-> [leaves[k] EXCEPT !.weight = f[k]]]
    BY <1>0, <1>5, <2>0 DEF Packed, Pack
  <2>2. \A k \in 1 .. Len(leaves) : f[k] \in Nat /\ f[k] = Pack(leaves[k].weight, leaves[k].count)
    BY <2>0, <2>12, PackedIs
  <2>. HIDE DEF f
  <2>3. DOMAIN leaves' = 1 .. Len(leaves) /\ leaves' \in [1 .. Len(leaves) -> Leaves]
    <3>1. \A k \in 1 .. Len(leaves) : leaves'[k] \in Leaves
      BY <2>0, <2>1, <2>2 DEF Leaves
    <3>. QED  BY <2>0, <2>1, <3>1
  <2>4. Len(leaves') = Len(leaves) /\ \A k \in 1 .. Len(leaves) : leaves'[k].count = leaves[k].count /\ leaves'[k].weight = f[k]
    <3>1. leaves' \in Seq(Leaves)
      BY <2>0, <2>3
    <3>2. ASSUME NEW k \in 1 .. Len(leaves) PROVE leaves'[k].count = leaves[k].count /\ leaves'[k].weight = f[k]
      BY <2>0, <2>1 DEF Leaves
    <3>. QED  BY <2>0, <2>3, <3>1, <3>2, LenProperties
  <2>5. IsPacked'
    BY <1>0, <1>4, <1>5, <2>4 DEF IsPacked, numsymbols
  <2>6. \A s \in Known : Keys'[s] = Pack(job.freq[s], s)
    BY <1>0, <1>2, <2>5 DEF Keys, Key
  <2>7. ASSUME NEW k \in 1 .. Len(leaves) PROVE f[k] = Keys'[leaves[k].count]
    <3>1. leaves[k].count \in Known /\ leaves[k].weight = Keys[leaves[k].count]
      BY <1>1 DEF IsArray
    <3>2. leaves[k].weight = job.freq[leaves[k].count]
      BY <1>2, <3>1
    <3>. QED  BY <2>2, <2>6, <3>1, <3>2
  <2>8. IsArray(leaves', Known, Keys')
    <3>1. \A k \in 1 .. Len(leaves) : f[k] \in Nat /\ f[k] = Keys'[leaves[k].count]
      BY <2>2, <2>7
    <3>2. \A k \in 1 .. Len(leaves) : leaves'[k].count = leaves[k].count /\ leaves'[k].weight = Keys'[leaves[k].count]
      BY <2>4, <3>1
    <3>. QED  BY <1>1, <2>3, <3>2, WeightsIs
  <2>9. ASSUME NEW s \in Known, NEW t \in Known, Keys'[s] = Keys'[t] PROVE s = t
    <3>1. PICK x \in Nat, y \in Nat : x = job.freq[s] /\ y = job.freq[t]
      BY <1>2
    <3>2. s \in SymbolSet /\ t \in SymbolSet /\ Pack(x, s) = Pack(y, t)
      BY <1>2, <2>6, <2>9, <3>1
    <3>. QED  BY <3>2, PackedEqual
  <2>10. Ties(leaves')
    BY <2>8, <2>9, NoTies
  <2>. QED  BY <2>4, <2>8, <2>10
<1>6. ASSUME ~(numsymbols > Cutoff)
      PROVE  IsArray(leaves', Known, Keys') /\ Ties(leaves') /\ Len(leaves') = Len(leaves)
  <2>1. leaves' = leaves /\ ~IsPacked'
    BY <1>0, <1>6 DEF IsPacked, numsymbols
  <2>2. \A s \in DOMAIN job.freq : Keys'[s] = Keys[s]
    BY <1>0, <2>1 DEF Keys, Key, IsPacked, Sorting
  <2>3. Keys' = Keys
    BY <1>0, <2>2 DEF Keys
  <2>4. Ties(leaves')
    BY <1>1, <2>1 DEF Ties, numsymbols
  <2>. QED  BY <1>1, <2>1, <2>3, <2>4
<1>7. LeavesInv'
  BY <1>0, <1>1, <1>3, <1>5, <1>6 DEF LeavesInv, numsymbols
<1>8. AreSegments(segments', numsymbols) /\ Apart(leaves', segments')
  <2>. DEFINE d == DepthFactor * floor_log2(numsymbols)
              x == Segment(1, numsymbols, d)
              R == [lo : Nat, hi : Nat, depth : Int]
  <2>1. d \in Int
    <3>1. floor_log2(numsymbols) \in Nat
      BY LogIsNat
    <3>. HIDE DEF d
    <3>2. \A p, q \in Nat : p * q \in Int
      OBVIOUS
    <3>. QED  BY <3>1, <3>2, SizesAssumption DEF d
  <2>2. segments' = <<x>>
    BY <1>0
  <2>. HIDE DEF d
  <2>3. x \in R /\ x.lo = 1 /\ x.hi = numsymbols
    BY <1>4, <2>1 DEF Segment
  <2>. HIDE DEF x, R
  <2>4. <<x>> \in Seq(R) /\ Len(<<x>>) = 1 /\ <<x>>[1] = x
    BY <2>3
  <2>5. AreSegments(<<x>>, numsymbols)
    BY <1>4, <2>3, <2>4 DEF AreSegments, R
  <2>6. ASSUME NEW k \in 1 .. Len(leaves') PROVE In(k, <<x>>[1])
    BY <1>5, <1>6, <2>3, <2>4, <2>6 DEF In, numsymbols
  <2>7. Apart(leaves', <<x>>)
    <3>1. 1 \in 1 .. Len(<<x>>)
      BY <2>4
    <3>. QED  BY <2>6, <3>1 DEF Apart
  <2>. QED  BY <2>2, <2>5, <2>7
<1>9. SegmentsInv'
  BY <1>0, <1>5, <1>6, <1>8 DEF SegmentsInv, Busy, numsymbols
<1>. QED  BY <1>0, <1>7, <1>9 DEF SortInv, InsertionInv, HeapInv, PartitionInv, SortedInv, Merging

\* The weights are unpacked: their order was that of the weights and then that of the symbols.
LEMMA EndSortStep ==
  ASSUME SortInv, EndSort
  PROVE  SortInv'
<1>0. /\ pc = "sort" /\ pc' = "init" /\ job' = job /\ segments = <<>> /\ Sorting /\ LeavesInv /\ SegmentsInv
      /\ leaves' = (IF numsymbols > Cutoff THEN Unpacked(leaves) ELSE leaves)
  BY DEF EndSort, SortInv, Sorting
<1>. DEFINE n == Len(leaves)
<1>1. /\ job \in Jobs /\ IsArray(leaves, Known, Keys) /\ Ties(leaves) /\ n > 2 /\ Apart(leaves, segments) /\ numsymbols = n
  BY <1>0, Here DEF numsymbols
<1>2. /\ n \in Nat /\ DOMAIN leaves = 1 .. n
      /\ \A k \in 1 .. n : leaves[k] \in Leaves /\ leaves[k].weight \in Nat /\ leaves[k].count \in Nat
  BY <1>1, ArrayIs
<1>. HIDE DEF n
<1>3. Known = Occurring(job.freq) /\ Known' = Known
  BY <1>0 DEF Known, Occurring
<1>4. \A s \in Known : s \in DOMAIN job.freq /\ s \in SymbolSet /\ job.freq[s] \in Nat
  BY <1>1, <1>3, JobIs DEF Occurring
<1>5. \A s \in Known : Keys[s] = IF n > Cutoff THEN Pack(job.freq[s], s) ELSE job.freq[s]
  BY <1>0, <1>1, <1>4 DEF Keys, Key, IsPacked
<1>6. \A s \in Known : Keys'[s] = job.freq[s]
  BY <1>0, <1>4 DEF Keys, Key, IsPacked, Sorting
<1>. DEFINE F(k) == job.freq[leaves[k].count]
<1>7. ASSUME NEW k \in 1 .. n
      PROVE  /\ leaves[k].count \in Known /\ leaves[k].count \in SymbolSet /\ F(k) \in Nat
             /\ leaves[k].weight = IF n > Cutoff THEN Pack(F(k), leaves[k].count) ELSE F(k)
  <2>1. leaves[k].count \in Known /\ leaves[k].weight = Keys[leaves[k].count]
    BY <1>1 DEF IsArray, n
  <2>. QED  BY <1>4, <1>5, <2>1
<1>. HIDE DEF F
<1>8. DOMAIN leaves' = 1 .. n /\ \A k \in 1 .. n : leaves'[k] \in Leaves /\ leaves'[k].count = leaves[k].count /\ leaves'[k].weight = F(k)
  <2>1. CASE n > Cutoff
    <3>1. leaves' = [k \in 1 .. n |-> [leaves[k] EXCEPT !.weight = @ \div SymbolLimit]]
      BY <1>0, <1>1, <1>2, <2>1 DEF Unpacked
    <3>2. ASSUME NEW k \in 1 .. n
          PROVE  leaves'[k] \in Leaves /\ leaves'[k].count = leaves[k].count /\ leaves'[k].weight = F(k)
      <4>1. PICK f \in Nat, s \in SymbolSet : f = F(k) /\ s = leaves[k].count
        BY <1>7
      <4>2. leaves[k].weight = Pack(f, s)
        BY <1>7, <2>1, <4>1
      <4>3. leaves[k].weight \div SymbolLimit = f
        BY <4>2, PackedIs
      <4>4. leaves'[k] = [leaves[k] EXCEPT !.weight = f]
        BY <3>1, <4>3
      <4>. QED  BY <1>2, <4>1, <4>4 DEF Leaves
    <3>. QED  BY <3>1, <3>2
  <2>2. CASE ~(n > Cutoff)
    BY <1>0, <1>1, <1>2, <1>7, <2>2
  <2>. QED  BY <2>1, <2>2
<1>9. leaves' \in [1 .. n -> Leaves]
  <2>1. \E g : leaves' = [k \in 1 .. n |-> g[k]]
    <3>1. CASE n > Cutoff
      <4>1. leaves' = [k \in 1 .. n |-> [leaves[k] EXCEPT !.weight = @ \div SymbolLimit]]
        BY <1>0, <1>1, <1>2, <3>1 DEF Unpacked
      <4>2. leaves' = [k \in 1 .. n |-> leaves'[k]]
        BY <4>1
      <4>. QED  BY <4>2
    <3>2. CASE ~(n > Cutoff)
      <4>1. leaves \in [1 .. n -> Leaves]
        BY <1>1, LenProperties DEF IsArray, n
      <4>. QED  BY <1>0, <1>1, <3>2, <4>1
    <3>. QED  BY <3>1, <3>2
  <2>. QED  BY <1>8, <2>1
<1>10. IsArray(leaves', Known', Keys') /\ Len(leaves') = n
  <2>1. \A k \in 1 .. n : leaves'[k].count = leaves[k].count /\ leaves'[k].weight = Keys'[leaves[k].count]
    BY <1>6, <1>7, <1>8 DEF F
  <2>. QED  BY <1>1, <1>3, <1>9, <2>1, WeightsIs DEF n
<1>11. LeavesInv'
  BY <1>0, <1>1, <1>10 DEF LeavesInv, Sorting
\* the order
<1>12. ASSUME NEW k \in 1 .. n, NEW l \in 1 .. n, k < l
       PROVE  F(k) < F(l) \/ (F(k) = F(l) /\ leaves[k].count < leaves[l].count)
  <2>1. leaves[k].weight <= leaves[l].weight
    <3>1. \A x \in 1 .. Len(segments) : FALSE
      BY <1>0
    <3>. QED  BY <1>1, <1>12, <3>1 DEF Apart, n
  <2>2. leaves[k].count # leaves[l].count
    BY <1>1, <1>2, <1>12 DEF IsArray, n
  <2>3. CASE n > Cutoff
    <3>1. PICK f \in Nat, s \in SymbolSet : f = F(k) /\ s = leaves[k].count
      BY <1>7
    <3>2. PICK g \in Nat, t \in SymbolSet : g = F(l) /\ t = leaves[l].count
      BY <1>7
    <3>3. Pack(f, s) <= Pack(g, t)
      BY <1>7, <2>1, <2>3, <3>1, <3>2
    <3>4. f < g \/ (f = g /\ s <= t)
      BY <3>3, PackedApart
    <3>5. s # t
      BY <2>2, <3>1, <3>2
    <3>6. f < g \/ (f = g /\ s < t)
      <4>1. s \in Nat /\ t \in Nat
        BY SymbolsAre
      <4>. QED  BY <3>4, <3>5, <4>1
    <3>. QED  BY <3>1, <3>2, <3>6
  <2>4. CASE ~(n > Cutoff)
    <3>1. leaves[k].weight = F(k) /\ leaves[l].weight = F(l) /\ F(k) \in Nat /\ F(l) \in Nat
      BY <1>7, <2>4
    <3>2. F(k) = F(l) => leaves[k].count < leaves[l].count
      BY <1>1, <1>12, <3>1 DEF Ties, n
    <3>. QED  BY <2>1, <3>1, <3>2
  <2>. QED  BY <2>3, <2>4
<1>13. StableOrder'
  <2>1. numsymbols' = n
    BY <1>10 DEF numsymbols
  <2>2. \A k, l \in 1 .. n : k < l => Before(job.freq, leaves'[k].count, leaves'[l].count)
    BY <1>8, <1>12 DEF Before, F
  <2>3. {leaves'[k].count : k \in 1 .. n} = Occurring(job.freq)
    <3>1. \A k \in 1 .. n : leaves'[k].count \in Known
      BY <1>7, <1>8
    <3>2. \A s \in Known : \E k \in 1 .. n : leaves'[k].count = s
      BY <1>3, <1>10 DEF IsArray
    <3>. QED  BY <1>3, <3>1, <3>2
  <2>4. \A k \in 1 .. n : leaves'[k].weight = job.freq[leaves'[k].count]
    BY <1>8 DEF F
  <2>. QED  BY <1>0, <2>1, <2>2, <2>3, <2>4 DEF StableOrder
<1>14. SortedInv'
  BY <1>1, <1>10, <1>13 DEF SortedInv, numsymbols
<1>. QED  BY <1>0, <1>11, <1>14 DEF SortInv, SegmentsInv, InsertionInv, HeapInv, PartitionInv, Sorting, Busy

\* What comes after the sort leaves the leaves as they are.
LEMMA MergeStep ==
  ASSUME SortInv, Merging, pc' \in {"runs", "done"}, leaves' = leaves, job' = job
  PROVE  SortInv'
<1>1. pc # "count" /\ pc' # "count" /\ ~Sorting /\ ~Sorting' /\ ~Busy'
  BY DEF Merging, Sorting, Busy
<1>2. Known' = Known /\ Keys' = Keys
  <2>1. \A s \in DOMAIN job.freq : Key(s)' = Key(s)
    BY <1>1 DEF Key, IsPacked
  <2>. QED  BY <1>1, <2>1 DEF Known, Keys
<1>3. LeavesInv'
  BY <1>1, <1>2 DEF SortInv, LeavesInv
<1>4. SortedInv'
  BY DEF SortInv, SortedInv, StableOrder, Merging, numsymbols
<1>. QED
  BY <1>1, <1>3, <1>4 DEF SortInv, SegmentsInv, InsertionInv, HeapInv, PartitionInv

\* the start
LEMMA SortStarts ==
  ASSUME Init
  PROVE  SortInv
<1>1. /\ job \in Jobs /\ pc = "count" /\ leaves = <<>> /\ i = 0
  BY DEF Init
<1>2. \A s \in DOMAIN job.freq : ~(s < 0)
  <2>1. \A s \in DOMAIN job.freq : s \in Nat
    BY <1>1, JobIs, SymbolsAre
  <2>. QED  BY <2>1
<1>3. Known = {}
  BY <1>1, <1>2 DEF Known
<1>4. leaves \in Seq(Leaves) /\ Len(leaves) = 0 /\ \A k \in 1 .. Len(leaves) : FALSE
  BY <1>1
<1>5. IsArray(leaves, Known, Keys)
  BY <1>3, <1>4 DEF IsArray
<1>6. LeavesInv
  BY <1>1, <1>4, <1>5 DEF LeavesInv, Sorting, numsymbols
<1>. QED
  BY <1>1, <1>6 DEF SortInv, SegmentsInv, InsertionInv, HeapInv, PartitionInv, SortedInv, Sorting, Busy, Merging

\* One step for each action.
LEMMA SortPreserved ==
  ASSUME SortInv, [Next]_vars
  PROVE  SortInv'
<1>1. CASE Count
  BY <1>1, CountStep
<1>2. CASE Few
  BY <1>2, FewStep
<1>3. CASE StartSort
  BY <1>3, StartSortStep
<1>4. CASE EndSort
  BY <1>4, EndSortStep
<1>5. CASE StartInsertion
  BY <1>5, StartInsertionStep
<1>6. CASE Insert
  BY <1>6, InsertStep
<1>7. CASE EndInsertion
  BY <1>7, EndInsertionStep
<1>8. CASE StartHeap
  BY <1>8, StartHeapStep
<1>9. CASE Build
  BY <1>9, BuildStep
<1>10. CASE EndBuild
  BY <1>10, EndBuildStep
<1>11. CASE Extract
  BY <1>11, ExtractStep
<1>12. CASE EndHeap
  BY <1>12, EndHeapStep
<1>13. CASE Sink
  BY <1>13, SinkStep
<1>14. CASE EndHeapify
  BY <1>14, EndHeapifyStep
<1>15. CASE StartPartition
  BY <1>15, StartPartitionStep
<1>16. CASE Exchange
  BY <1>16, ExchangeStep
<1>17. CASE EndPartition
  BY <1>17, EndPartitionStep
<1>18. CASE InitLists
  BY <1>18, MergeStep DEF InitLists, Merging
<1>19. CASE StartRun
  BY <1>19, MergeStep DEF StartRun, Merging
<1>20. CASE NewLeaf
  BY <1>20, MergeStep DEF NewLeaf, Merging
<1>21. CASE NewPackage
  BY <1>21, MergeStep DEF NewPackage, Merging
<1>22. CASE LowestPackage
  BY <1>22, MergeStep DEF LowestPackage, Merging
<1>23. CASE Finish
  BY <1>23, MergeStep DEF Finish, Merging
<1>24. CASE UNCHANGED vars
  <2>1. /\ job' = job /\ pc' = pc /\ leaves' = leaves /\ segments' = segments /\ at' = at /\ node' = node
        /\ bound' = bound /\ pivot' = pivot /\ from' = from /\ to' = to /\ i' = i
    BY <1>24 DEF vars, sorting
  <2>. QED
    BY <2>1 DEF SortInv, LeavesInv, SegmentsInv, InsertionInv, HeapInv, PartitionInv, SortedInv, StableOrder,
                Known, Keys, Key, IsPacked, Sorting, Busy, Merging, numsymbols, segment, size
<1>. QED
  BY <1>1, <1>2, <1>3, <1>4, <1>5, <1>6, <1>7, <1>8, <1>9, <1>10, <1>11, <1>12, <1>13, <1>14, <1>15, <1>16, <1>17,
     <1>18, <1>19, <1>20, <1>21, <1>22, <1>23, <1>24 DEF Next, Stopped

\* All that the sort relies on: packed weights tell the symbols, a stack of
\* segments that have no place in common covers all that is not in order, and
\* each of the three methods has done what its counters say.
THEOREM SortIsInvariant == Spec => []SortInv
<1>1. Init => SortInv
  BY SortStarts
<1>2. SortInv /\ [Next]_vars => SortInv'
  BY SortPreserved
<1>. QED  BY <1>1, <1>2, PTL DEF Spec

\* node_intro_sort is stable for leaves of equal weight, although neither heap_sort nor
\* sort_partition is: the symbol in the packed weight makes it so.
THEOREM SortIsStable == Spec => []StableOrder
<1>1. SortInv => StableOrder
  BY DEF SortInv, SortedInv, Merging, StableOrder
<1>. QED  BY <1>1, SortIsInvariant, PTL

\* The two inner loops of sort_partition have no bound of their own: they stop in the segment.
THEOREM ScansStayInside == Spec => []ScansInv
<1>1. SortInv => ScansInv
  BY ScansStop
<1>. QED  BY <1>1, SortIsInvariant, PTL
-----------------------------------------------------------------------------
(* The lists *)

\* the weight of the leaf k
W(k) == leaves[k].weight

\* The chains of the list k: the newer one is not lighter, it has leaves up to one that is not
\* heavier, the next leaf is not lighter, and neither is the next package.
ListInv(ls, k) ==
  /\ ls[k][1].weight \in Nat /\ ls[k][2].weight \in Nat /\ ls[k][2].count \in 2 .. numsymbols
  /\ 0 < ls[k][1].weight /\ ls[k][1].weight <= ls[k][2].weight
  /\ W(ls[k][2].count) <= ls[k][2].weight
  /\ ls[k][2].count < numsymbols => ls[k][2].weight <= W(ls[k][2].count + 1)
  /\ k >= 1 => ls[k][2].weight <= ls[k - 1][1].weight + ls[k - 1][2].weight

\* Of the lists on the stack each is below those before, but for the last two, which may be the same.
IsStack(s, m) ==
  /\ s \in Seq(1 .. m - 1)
  /\ \A x \in 1 .. Len(s) : s[x] <= m - x \/ (x > 1 /\ x = Len(s) /\ s[x] <= m - x + 1)
  /\ \A x, y \in 1 .. Len(s) : x < y => s[x] > s[y] \/ (y = Len(s) /\ x = y - 1 /\ s[x] = s[y])

\* how often the list k is there
Pending(s, k) ==
  IF \E x, y \in 1 .. Len(s) : x < y /\ s[x] = k /\ s[y] = k THEN 2
  ELSE IF \E x \in 1 .. Len(s) : s[x] = k THEN 1 ELSE 0

\* the leaves each list has come to
Counts(ls) == [k \in 0 .. maxbits - 1 |-> ls[k][2].count]

\* two leaves at least, and no more than there are
IsCounts(c) == c \in [0 .. maxbits - 1 -> 2 .. numsymbols]
\* d is c but for the list e, which has come x leaves further
Further(c, d, e, x) == IsCounts(d) /\ d[e] = c[e] + x /\ \A k \in 0 .. maxbits - 1 : k # e => d[k] = c[k]

\* S[k] nodes are in the lists before k, when these have come to the leaves c and had p packages.
AreNodes(c, p, S) ==
  /\ S \in [0 .. maxbits -> Int] /\ S[0] = 2
  /\ \A k \in 0 .. maxbits - 1 : S[k + 1] = S[k] + (c[k] - 2 + p[k])
\* In the list e the leaves d and the packages q are x more than c and p.
AreMore(c, p, d, q, e, x) ==
  /\ \A k \in 0 .. maxbits - 1 : c[k] \in Int /\ p[k] \in Int /\ d[k] \in Int /\ q[k] \in Int
  /\ e \in 0 .. maxbits - 1 /\ x \in Int /\ d[e] + q[e] = c[e] + p[e] + x
  /\ \A k \in 0 .. maxbits - 1 : k # e => d[k] = c[k] /\ q[k] = p[k]

\* What has been made, when the lists have come to the leaves c. In the list k there have been p[k]
\* packages. Each of them has used up two chains of the list below, which have been made since or are
\* on the stack; there are more leaves than packages, or all of them.
Accounts(c, s, p, S) ==
  /\ IsCounts(c)
  /\ p \in [0 .. maxbits - 1 -> Nat] /\ p[0] = 0
  /\ \A k \in 1 .. maxbits - 1 : c[k] > p[k] \/ c[k] = numsymbols
  /\ \A k \in 1 .. maxbits - 2 : c[k] - 2 + p[k] + Pending(s, k) = 2 * p[k + 1]
  /\ c[0] = IF 2 + 2 * p[1] < numsymbols THEN 2 + 2 * p[1] ELSE numsymbols
  /\ AreNodes(c, p, S)
\* the highest list, of which a chain is made for each turn of the loop
Top(c, s, p, turns) == c[maxbits - 1] - 2 + p[maxbits - 1] + Pending(s, maxbits - 1) = turns
\* so many nodes have been taken
IsUsed(c, s, turns, u) == \E p, S : Accounts(c, s, p, S) /\ Top(c, s, p, turns) /\ u = S[maxbits]

\* what holds of the lists, of the stack and of the pool
PoolInv ==
  /\ pc \notin {"runs", "done"} => stackspace = <<>>
  /\ pc = "runs" =>
       /\ i \in 0 .. numBoundaryPMRuns - 1
       /\ DOMAIN lists = 0 .. maxbits - 1 /\ \A k \in 0 .. maxbits - 1 : ListInv(lists, k)
       /\ IsStack(stackspace, maxbits)
       /\ IsUsed(Counts(lists), stackspace, i, used)

\* the leaves in their order
LEMMA WeightsAre ==
  ASSUME SortInv, Merging
  PROVE  /\ numsymbols \in Nat /\ numsymbols > 2 /\ maxbits \in 2 .. 15
         /\ \A k \in 1 .. numsymbols : W(k) \in Nat /\ W(k) > 0
         /\ \A k, l \in 1 .. numsymbols : k <= l => W(k) <= W(l)
<1>1. /\ job \in Jobs /\ IsArray(leaves, Known, Keys) /\ numsymbols > 2 /\ numsymbols = Len(leaves)
      /\ \A k, l \in 1 .. numsymbols : k < l => Before(job.freq, leaves[k].count, leaves[l].count)
      /\ {leaves[k].count : k \in 1 .. numsymbols} = Occurring(job.freq)
      /\ \A k \in 1 .. numsymbols : leaves[k].weight = job.freq[leaves[k].count]
  BY DEF SortInv, LeavesInv, SortedInv, StableOrder, Merging, numsymbols
<1>2. numsymbols \in Nat /\ \A k \in 1 .. numsymbols : leaves[k].weight \in Nat
  BY <1>1, ArrayIs
<1>3. \A k \in 1 .. numsymbols : W(k) \in Nat /\ W(k) > 0
  <2>1. \A k \in 1 .. numsymbols : leaves[k].count \in Occurring(job.freq)
    BY <1>1
  <2>. QED  BY <1>1, <1>2, <2>1 DEF W, Occurring
<1>4. ASSUME NEW k \in 1 .. numsymbols, NEW l \in 1 .. numsymbols, k <= l PROVE W(k) <= W(l)
  <2>1. CASE k = l
    BY <1>3, <2>1
  <2>2. CASE k < l
    <3>1. Before(job.freq, leaves[k].count, leaves[l].count)
      BY <1>1, <2>2
    <3>. QED  BY <1>1, <1>3, <3>1 DEF Before, W
  <2>. QED  BY <1>2, <1>4, <2>1, <2>2
<1>5. maxbits \in 2 .. 15
  <2>1. job.maxbits \in 1 .. 15 /\ Cardinality(Occurring(job.freq)) <= 2 ^ job.maxbits
    BY <1>1, JobIs
  <2>2. job.maxbits # 1
    <3>1. SUFFICES ASSUME job.maxbits = 1 PROVE FALSE
      OBVIOUS
    <3>2. Cardinality(Occurring(job.freq)) <= 2
      <4>1. 2 ^ 1 = 2
        OBVIOUS
      <4>. QED  BY <2>1, <3>1, <4>1
    <3>3. 1 \in 1 .. numsymbols /\ 2 \in 1 .. numsymbols /\ 3 \in 1 .. numsymbols
      BY <1>1, <1>2
    <3>. DEFINE x == leaves[1].count
                y == leaves[2].count
                z == leaves[3].count
    <3>4. x # y /\ x # z /\ y # z
      BY <1>1, <3>3 DEF IsArray
    <3>5. {x, y, z} \subseteq Occurring(job.freq)
      BY <1>1, <3>3
    <3>. HIDE DEF x, y, z
    <3>6. Cardinality({x, y, z}) = 3
      <4>1. Cardinality({x}) = 1 /\ IsFiniteSet({x})
        BY FS_Singleton
      <4>2. Cardinality({x} \cup {y}) = 2 /\ IsFiniteSet({x} \cup {y})
        BY <3>4, <4>1, FS_AddElement
      <4>3. Cardinality(({x} \cup {y}) \cup {z}) = 3
        <5>1. z \notin {x} \cup {y}
          BY <3>4
        <5>. QED  BY <4>2, <5>1, FS_AddElement
      <4>4. ({x} \cup {y}) \cup {z} = {x, y, z}
        OBVIOUS
      <4>. QED  BY <4>3, <4>4
    <3>7. IsFiniteSet(Occurring(job.freq))
      <4>1. Occurring(job.freq) \subseteq SymbolSet
        BY <1>1, JobIs DEF Occurring
      <4>2. IsFiniteSet(SymbolSet)
        <5>1. 0 \in Int /\ SymbolLimit - 1 \in Int
          BY DEF SymbolLimit
        <5>. QED  BY <5>1, FS_Interval, Zenon DEF SymbolSet
      <4>. QED  BY <4>1, <4>2, FS_Subset
    <3>8. Cardinality({x, y, z}) <= Cardinality(Occurring(job.freq))
      BY <3>5, <3>7, FS_Subset
    <3>9. Cardinality(Occurring(job.freq)) \in Nat
      BY <3>7, FS_CardinalityType
    <3>. QED  BY <3>2, <3>6, <3>8, <3>9
  <2>3. CASE numsymbols - 1 < job.maxbits
    <3>1. maxbits = numsymbols - 1
      BY <2>3 DEF maxbits
    <3>2. numsymbols \in Int /\ numsymbols > 2 /\ job.maxbits \in Int /\ job.maxbits <= 15
      BY <1>1, <1>2, <2>1, SMTT(40)
    <3>3. numsymbols - 1 \in 2 .. 15
      BY <2>3, <3>2
    <3>. QED  BY <3>1, <3>3
  <2>4. CASE ~(numsymbols - 1 < job.maxbits)
    <3>1. maxbits = job.maxbits
      BY <2>4 DEF maxbits
    <3>. QED  BY <2>1, <2>2, <3>1
  <2>. QED  BY <2>3, <2>4
<1>. QED  BY <1>1, <1>2, <1>3, <1>4, <1>5
-----------------------------------------------------------------------------
(* The stack *)

\* what is on the stack
LEMMA StackIs ==
  ASSUME NEW m \in Nat, NEW s, IsStack(s, m), s # <<>>
  PROVE  /\ Len(s) \in Nat /\ Len(s) >= 1 /\ Last(s) = s[Len(s)] /\ Last(s) \in 1 .. m - 1
         /\ Front(s) \in Seq(1 .. m - 1) /\ Len(Front(s)) = Len(s) - 1
         /\ \A x \in 1 .. Len(s) - 1 : Front(s)[x] = s[x] /\ s[x] \in Int /\ s[x] >= Last(s)
         /\ \A x, y \in 1 .. Len(s) - 1 : x < y => s[x] > s[y]
         /\ \A x \in 1 .. Len(s) - 1 : s[x] = Last(s) => x = Len(s) - 1
<1>1. s \in Seq(1 .. m - 1)
  BY DEF IsStack
<1>2. /\ Len(s) \in Nat /\ Len(s) >= 1 /\ Last(s) = s[Len(s)] /\ Last(s) \in 1 .. m - 1
      /\ Front(s) \in Seq(1 .. m - 1) /\ Len(Front(s)) = Len(s) - 1
      /\ \A x \in 1 .. Len(s) - 1 : Front(s)[x] = s[x]
  BY <1>1, FrontIs
<1>3. \A x, y \in 1 .. Len(s) : x < y => s[x] > s[y] \/ (y = Len(s) /\ x = y - 1 /\ s[x] = s[y])
  BY DEF IsStack
<1>4. \A x \in 1 .. Len(s) : s[x] \in 1 .. m - 1
  BY <1>1, ElementOfSeq
<1>5. ASSUME NEW x \in 1 .. Len(s) - 1 PROVE s[x] \in Int /\ s[x] >= Last(s) /\ (s[x] = Last(s) => x = Len(s) - 1)
  <2>1. x \in 1 .. Len(s) /\ Len(s) \in 1 .. Len(s) /\ x < Len(s)
    BY <1>2
  <2>2. s[x] \in Int /\ s[Len(s)] \in Int
    BY <1>4, <2>1
  <2>. QED  BY <1>2, <1>3, <2>1, <2>2
<1>6. ASSUME NEW x \in 1 .. Len(s) - 1, NEW y \in 1 .. Len(s) - 1, x < y PROVE s[x] > s[y]
  <2>1. x \in 1 .. Len(s) /\ y \in 1 .. Len(s) /\ y # Len(s)
    BY <1>2
  <2>. QED  BY <1>3, <1>6, <2>1
<1>. QED  BY <1>2, <1>5, <1>6

\* taken from the stack
LEMMA Popped ==
  ASSUME NEW m \in Nat, NEW s, IsStack(s, m), s # <<>>
  PROVE  /\ IsStack(Front(s), m)
         /\ Pending(Front(s), Last(s)) = Pending(s, Last(s)) - 1
         /\ \A k : k # Last(s) => Pending(Front(s), k) = Pending(s, k)
         /\ \A k \in Int : k < Last(s) => Pending(s, k) = 0
<1>. DEFINE L == Len(s)
            f == Front(s)
            e == Last(s)
<1>1. /\ L \in Nat /\ L >= 1 /\ e = s[L] /\ e \in 1 .. m - 1
      /\ f \in Seq(1 .. m - 1) /\ Len(f) = L - 1
      /\ \A x \in 1 .. L - 1 : f[x] = s[x] /\ s[x] \in Int /\ s[x] >= e
      /\ \A x, y \in 1 .. L - 1 : x < y => s[x] > s[y]
      /\ \A x \in 1 .. L - 1 : s[x] = e => x = L - 1
  BY StackIs
<1>2. \A x \in 1 .. L : s[x] <= m - x \/ (x > 1 /\ x = L /\ s[x] <= m - x + 1)
  BY DEF IsStack
<1>. HIDE DEF L, f, e
<1>3. \A x \in 1 .. L : x \in 1 .. L - 1 \/ x = L
  BY <1>1
<1>4. \A x \in 1 .. L - 1 : x \in 1 .. L
  BY <1>1
<1>5. IsStack(f, m)
  <2>1. ASSUME NEW x \in 1 .. Len(f) PROVE f[x] <= m - x \/ (x > 1 /\ x = Len(f) /\ f[x] <= m - x + 1)
    <3>1. x \in 1 .. L /\ x # L /\ f[x] = s[x] /\ s[x] \in Int
      BY <1>1
    <3>2. s[x] <= m - x
      BY <1>2, <3>1
    <3>. QED  BY <3>1, <3>2
  <2>. QED  BY <1>1, <2>1 DEF IsStack
<1>6. Pending(f, e) = Pending(s, e) - 1
  <2>1. ~\E x, y \in 1 .. Len(f) : x < y /\ f[x] = e /\ f[y] = e
    BY <1>1
  <2>2. CASE \E x \in 1 .. L - 1 : s[x] = e
    <3>1. Pending(f, e) = 1
      BY <1>1, <2>1, <2>2 DEF Pending
    <3>2. \E x, y \in 1 .. L : x < y /\ s[x] = e /\ s[y] = e
      <4>1. PICK x \in 1 .. L - 1 : s[x] = e
        BY <2>2
      <4>2. x \in 1 .. L /\ L \in 1 .. L /\ x < L
        BY <1>1
      <4>. QED  BY <1>1, <4>1, <4>2
    <3>3. Pending(s, e) = 2
      BY <3>2 DEF Pending, L
    <3>. QED  BY <3>1, <3>3
  <2>3. CASE ~\E x \in 1 .. L - 1 : s[x] = e
    <3>1. Pending(f, e) = 0
      BY <1>1, <2>1, <2>3 DEF Pending
    <3>2. ~\E x, y \in 1 .. L : x < y /\ s[x] = e /\ s[y] = e
      <4>1. \A x, y \in 1 .. L : x < y => x \in 1 .. L - 1
        BY <1>1
      <4>. QED  BY <2>3, <4>1
    <3>3. \E x \in 1 .. L : s[x] = e
      BY <1>1
    <3>4. Pending(s, e) = 1
      BY <3>2, <3>3 DEF Pending, L
    <3>. QED  BY <3>1, <3>4
  <2>. QED  BY <2>2, <2>3
<1>7. ASSUME NEW k, k # e PROVE Pending(f, k) = Pending(s, k)
  <2>1. \A x \in 1 .. L : s[x] = k => x \in 1 .. L - 1
    BY <1>1, <1>3, <1>7
  <2>2. (\E x \in 1 .. L - 1 : f[x] = k) <=> (\E x \in 1 .. L : s[x] = k)
    BY <1>1, <1>4, <2>1
  <2>3. (\E x, y \in 1 .. L - 1 : x < y /\ f[x] = k /\ f[y] = k) <=> (\E x, y \in 1 .. L : x < y /\ s[x] = k /\ s[y] = k)
    BY <1>1, <1>4, <2>1
  <2>. QED  BY <1>1, <2>2, <2>3 DEF Pending, L
<1>8. ASSUME NEW k \in Int, k < e PROVE Pending(s, k) = 0
  <2>1. \A x \in 1 .. L : s[x] # k
    BY <1>1, <1>3, <1>8
  <2>. QED  BY <2>1 DEF Pending, L
<1>. QED  BY <1>5, <1>6, <1>7, <1>8 DEF f, e

\* the stack when a package has used up two chains
TwoBelow(s) == Front(s) \o <<Last(s) - 1, Last(s) - 1>>

\* two of the list below in its place
LEMMA TwoPushed ==
  ASSUME NEW m \in Nat, NEW s, IsStack(s, m), s # <<>>, Last(s) # 1
  PROVE  /\ IsStack(TwoBelow(s), m)
         /\ Pending(TwoBelow(s), Last(s)) = Pending(s, Last(s)) - 1
         /\ Pending(TwoBelow(s), Last(s) - 1) = 2 /\ Pending(s, Last(s) - 1) = 0
         /\ \A k : k # Last(s) /\ k # Last(s) - 1 => Pending(TwoBelow(s), k) = Pending(s, k)
<1>. DEFINE L == Len(s)
            f == Front(s)
            e == Last(s)
            t == TwoBelow(s)
<1>1. /\ L \in Nat /\ L >= 1 /\ e = s[L] /\ e \in 1 .. m - 1
      /\ f \in Seq(1 .. m - 1) /\ Len(f) = L - 1
      /\ \A x \in 1 .. L - 1 : f[x] = s[x] /\ s[x] \in Int /\ s[x] >= e
      /\ \A x, y \in 1 .. L - 1 : x < y => s[x] > s[y]
      /\ \A x \in 1 .. L - 1 : s[x] = e => x = L - 1
  BY StackIs
<1>2. \A x \in 1 .. L : s[x] <= m - x \/ (x > 1 /\ x = L /\ s[x] <= m - x + 1)
  BY DEF IsStack
<1>3. e - 1 \in 1 .. m - 1 /\ e \in Int
  <2>. HIDE DEF e
  <2>1. e # 1
    BY DEF e
  <2>. QED  BY <1>1, <2>1
<1>4. /\ t \in Seq(1 .. m - 1) /\ Len(t) = L + 1
      /\ \A x \in 1 .. L - 1 : t[x] = s[x]
      /\ t[L] = e - 1 /\ t[L + 1] = e - 1
  <2>. DEFINE R == 1 .. m - 1
              d == e - 1
  <2>1. s \in Seq(R) /\ d \in R /\ s # <<>>
    BY <1>3 DEF IsStack
  <2>2. t = Replaced(s, d, d)
    BY DEF TwoBelow, Replaced
  <2>3. t \in Seq(R) /\ Len(t) = Len(s) + 1 /\ (\A x \in 1 .. Len(s) - 1 : t[x] = s[x]) /\ t[Len(s)] = d /\ t[Len(s) + 1] = d
    <3>. HIDE DEF R, d, e, t
    <3>1. /\ Replaced(s, d, d) \in Seq(R) /\ Len(Replaced(s, d, d)) = Len(s) + 1
          /\ \A x \in 1 .. Len(s) - 1 : Replaced(s, d, d)[x] = s[x]
          /\ Replaced(s, d, d)[Len(s)] = d /\ Replaced(s, d, d)[Len(s) + 1] = d
      BY <2>1, TwoForLast
    <3>. QED  BY <2>2, <3>1
  <2>. QED  BY <2>3
<1>5. Pending(f, e) = Pending(s, e) - 1 /\ (\A k : k # e => Pending(f, k) = Pending(s, k)) /\ Pending(s, e - 1) = 0
  <2>1. e - 1 \in Int /\ e - 1 < e
    BY <1>3
  <2>. QED  BY <2>1, Popped
<1>. HIDE DEF L, f, e, t
<1>6. \A x \in 1 .. L + 1 : x \in 1 .. L - 1 \/ x = L \/ x = L + 1
  BY <1>1
<1>7. \A x \in 1 .. L - 1 : x \in 1 .. L + 1 /\ x < L /\ x # L /\ x # L + 1
  BY <1>1
<1>8. L \in 1 .. L + 1 /\ L + 1 \in 1 .. L + 1 /\ L < L + 1
  BY <1>1
<1>9. ASSUME NEW x \in 1 .. L + 1 PROVE t[x] <= m - x \/ (x > 1 /\ x = L + 1 /\ t[x] <= m - x + 1)
  <2>1. CASE x \in 1 .. L - 1
    <3>1. x \in 1 .. L /\ x # L /\ t[x] = s[x] /\ s[x] \in Int /\ x # L + 1
      BY <1>1, <1>4, <2>1, SMTT(40)
    <3>. QED  BY <1>2, <3>1
  <2>2. CASE x = L
    <3>1. L \in 1 .. L
      BY <1>1
    <3>2. e <= m - L \/ (L > 1 /\ e <= m - L + 1)
      BY <1>1, <1>2, <3>1
    <3>3. t[x] = e - 1 /\ L \in Nat /\ L >= 1
      BY <1>1, <1>4, <2>2
    <3>4. e - 1 <= m - L
      BY <1>3, <3>2, <3>3
    <3>. QED  BY <3>3, <3>4, <2>2
  <2>3. CASE x = L + 1
    <3>1. L \in 1 .. L
      BY <1>1
    <3>2. e <= m - L \/ (L > 1 /\ e <= m - L + 1)
      BY <1>1, <1>2, <3>1
    <3>3. t[x] = e - 1 /\ L \in Nat /\ L >= 1
      BY <1>1, <1>4, <2>3
    <3>4. e - 1 <= m - (L + 1) + 1 /\ L + 1 > 1
      BY <1>3, <3>2, <3>3
    <3>. QED  BY <3>3, <3>4, <2>3
  <2>. QED  BY <1>6, <2>1, <2>2, <2>3
<1>10. ASSUME NEW x \in 1 .. L + 1, NEW y \in 1 .. L + 1, x < y
       PROVE  t[x] > t[y] \/ (y = L + 1 /\ x = y - 1 /\ t[x] = t[y])
  <2>1. CASE x \in 1 .. L - 1 /\ y \in 1 .. L - 1
    BY <1>1, <1>4, <1>10, <2>1
  <2>2. CASE x \in 1 .. L - 1 /\ y \notin 1 .. L - 1
    <3>1. t[x] = s[x] /\ s[x] \in Int /\ s[x] >= e /\ t[y] = e - 1
      BY <1>1, <1>4, <1>6, <2>2
    <3>2. \A b \in Int : b >= e => b > e - 1
      BY <1>3
    <3>. QED  BY <3>1, <3>2
  <2>3. CASE x \notin 1 .. L - 1
    <3>1. x = L /\ y = L + 1
      BY <1>1, <1>10, <2>3
    <3>. QED  BY <1>1, <1>4, <3>1
  <2>. QED  BY <2>1, <2>2, <2>3
<1>11. IsStack(t, m)
  <2>1. \A x \in 1 .. Len(t) : t[x] <= m - x \/ (x > 1 /\ x = Len(t) /\ t[x] <= m - x + 1)
    BY <1>4, <1>9, Zenon
  <2>2. \A x, y \in 1 .. Len(t) : x < y => t[x] > t[y] \/ (y = Len(t) /\ x = y - 1 /\ t[x] = t[y])
    BY <1>4, <1>10, Zenon
  <2>. QED  BY <1>4, <2>1, <2>2, Zenon DEF IsStack
<1>12. Pending(t, e - 1) = 2
  <2>1. \E x, y \in 1 .. Len(t) : x < y /\ t[x] = e - 1 /\ t[y] = e - 1
    BY <1>4, <1>8
  <2>. QED  BY <2>1 DEF Pending
<1>13. ASSUME NEW k, k # e - 1 PROVE Pending(t, k) = Pending(f, k)
  <2>1. \A x \in 1 .. L + 1 : t[x] = k => x \in 1 .. L - 1
    BY <1>4, <1>6, <1>13
  <2>2. (\E x \in 1 .. L - 1 : f[x] = k) <=> (\E x \in 1 .. L + 1 : t[x] = k)
    BY <1>1, <1>4, <1>7, <2>1
  <2>3. (\E x, y \in 1 .. L - 1 : x < y /\ f[x] = k /\ f[y] = k) <=> (\E x, y \in 1 .. L + 1 : x < y /\ t[x] = k /\ t[y] = k)
    BY <1>1, <1>4, <1>7, <2>1
  <2>. QED  BY <1>1, <1>4, <2>2, <2>3 DEF Pending
<1>14. e # e - 1
  BY <1>3
<1>. QED  BY <1>5, <1>11, <1>12, <1>13, <1>14 DEF f, e, t

\* the first one
LEMMA OnePushed ==
  ASSUME NEW m \in Nat, NEW e \in 1 .. m - 1
  PROVE  /\ IsStack(<<e>>, m) /\ IsStack(<<>>, m) /\ Pending(<<e>>, e) = 1
         /\ \A k : Pending(<<>>, k) = 0 /\ (k # e => Pending(<<e>>, k) = 0)
<1>1. <<e>> \in Seq(1 .. m - 1) /\ Len(<<e>>) = 1 /\ <<e>>[1] = e
  OBVIOUS
<1>2. <<>> \in Seq(1 .. m - 1) /\ Len(<<>>) = 0
  BY EmptySeq
<1>3. IsStack(<<>>, m) /\ \A k : Pending(<<>>, k) = 0
  BY <1>2 DEF IsStack, Pending
<1>4. IsStack(<<e>>, m)
  BY <1>1 DEF IsStack
<1>5. Pending(<<e>>, e) = 1 /\ \A k : k # e => Pending(<<e>>, k) = 0
  BY <1>1 DEF Pending
<1>. QED  BY <1>3, <1>4, <1>5
-----------------------------------------------------------------------------
(* The accounts *)

\* at the start
LEMMA AccountsAtStart ==
  ASSUME maxbits \in 2 .. 15, numsymbols \in Nat, numsymbols > 2, NEW c, c = [k \in 0 .. maxbits - 1 |-> 2]
  PROVE  IsUsed(c, <<>>, 0, 2)
<1>. DEFINE p == [k \in 0 .. maxbits - 1 |-> 0]
            S == [k \in 0 .. maxbits |-> 2]
<1>1. maxbits \in Int /\ maxbits >= 2
  OBVIOUS
<1>2. \A k : Pending(<<>>, k) = 0
  BY EmptySeq DEF Pending
<1>3. /\ \A k \in 0 .. maxbits - 1 : c[k] = 2 /\ p[k] = 0 /\ S[k] = 2 /\ S[k + 1] = 2
      /\ c \in [0 .. maxbits - 1 -> 2 .. numsymbols] /\ p \in [0 .. maxbits - 1 -> Nat]
      /\ S \in [0 .. maxbits -> Int] /\ S[maxbits] = 2
  BY <1>1
<1>4. /\ 0 \in 0 .. maxbits - 1 /\ 1 \in 0 .. maxbits - 1 /\ maxbits - 1 \in 0 .. maxbits - 1
      /\ \A k \in 1 .. maxbits - 1 : k \in 0 .. maxbits - 1
      /\ \A k \in 1 .. maxbits - 2 : k \in 0 .. maxbits - 1 /\ k + 1 \in 0 .. maxbits - 1
  BY <1>1
<1>. HIDE DEF p, S
<1>5. Accounts(c, <<>>, p, S)
  <2>1. \A k \in 1 .. maxbits - 1 : c[k] > p[k] \/ c[k] = numsymbols
    BY <1>3, <1>4
  <2>2. \A k \in 1 .. maxbits - 2 : c[k] - 2 + p[k] + Pending(<<>>, k) = 2 * p[k + 1]
    BY <1>2, <1>3, <1>4
  <2>3. c[0] = IF 2 + 2 * p[1] < numsymbols THEN 2 + 2 * p[1] ELSE numsymbols
    BY <1>3, <1>4
  <2>4. \A k \in 0 .. maxbits - 1 : S[k + 1] = S[k] + (c[k] - 2 + p[k])
    BY <1>3
  <2>. QED  BY <1>3, <1>4, <2>1, <2>2, <2>3, <2>4 DEF Accounts, IsCounts, AreNodes
<1>6. Top(c, <<>>, p, 0)
  BY <1>2, <1>3, <1>4 DEF Top
<1>. QED  BY <1>3, <1>5, <1>6 DEF IsUsed

\* at the start of a turn
LEMMA AccountsAtTurn ==
  ASSUME maxbits \in 2 .. 15, numsymbols \in Nat, NEW c, NEW turns \in Int, NEW u, IsUsed(c, <<>>, turns, u)
  PROVE  IsUsed(c, <<maxbits - 1>>, turns + 1, u)
<1>. DEFINE t == <<maxbits - 1>>
<1>1. PICK p, S : Accounts(c, <<>>, p, S) /\ Top(c, <<>>, p, turns) /\ u = S[maxbits]
  BY DEF IsUsed
<1>2. maxbits \in Nat /\ maxbits - 1 \in 1 .. maxbits - 1
  OBVIOUS
<1>3. /\ \A k : Pending(<<>>, k) = 0
      /\ Pending(t, maxbits - 1) = 1 /\ \A k : k # maxbits - 1 => Pending(t, k) = 0
  BY <1>2, OnePushed
<1>. HIDE DEF t
<1>4. \A k \in 1 .. maxbits - 2 : Pending(t, k) = Pending(<<>>, k)
  BY <1>2, <1>3
<1>5. Accounts(c, t, p, S)
  BY <1>1, <1>4 DEF Accounts
<1>6. Top(c, t, p, turns + 1)
  <2>1. c[maxbits - 1] \in Int /\ p[maxbits - 1] \in Int
    BY <1>1, <1>2 DEF Accounts, IsCounts
  <2>. QED  BY <1>1, <1>3, <2>1 DEF Top
<1>7. IsUsed(c, t, turns + 1, u)
  BY <1>1, <1>5, <1>6 DEF IsUsed
<1>. QED  BY <1>7 DEF t

\* Where a package is to be made although it takes up the last leaf but one, the list below has come further.
LEMMA BelowHasMore ==
  ASSUME maxbits \in 2 .. 15, numsymbols \in Nat, NEW c, NEW s, IsStack(s, maxbits), s # <<>>, NEW p, NEW S,
         Accounts(c, s, p, S), c[Last(s)] < numsymbols, c[Last(s)] <= p[Last(s)] + 1
  PROVE  c[Last(s)] + 1 <= c[Last(s) - 1]
<1>. DEFINE e == Last(s)
<1>1. maxbits \in Nat /\ maxbits >= 2 /\ e \in 1 .. maxbits - 1
  BY StackIs
<1>2. Pending(s, e - 1) = 0
  <2>. HIDE DEF e
  <2>1. e - 1 \in Int /\ e - 1 < e
    BY <1>1
  <2>. QED  BY <1>1, <2>1, Popped DEF e
<1>3. c[e] < numsymbols /\ c[e] <= p[e] + 1
  OBVIOUS
<1>. HIDE DEF e
<1>4. c[e] \in Int /\ c[e - 1] \in Int /\ c[e - 1] <= numsymbols /\ p[e] \in Nat /\ p[e - 1] \in Nat
  <2>1. e \in 0 .. maxbits - 1 /\ e - 1 \in 0 .. maxbits - 1
    BY <1>1
  <2>2. c \in [0 .. maxbits - 1 -> 2 .. numsymbols] /\ p \in [0 .. maxbits - 1 -> Nat]
    BY DEF Accounts, IsCounts
  <2>3. c[e] \in 2 .. numsymbols /\ c[e - 1] \in 2 .. numsymbols
    BY <2>1, <2>2
  <2>. QED  BY <2>1, <2>2, <2>3
<1>5. c[e] = p[e] + 1
  <2>1. c[e] > p[e] \/ c[e] = numsymbols
    BY <1>1 DEF Accounts
  <2>. QED  BY <1>3, <1>4, <2>1
<1>6. CASE e = 1
  <2>1. c[0] = IF 2 + 2 * p[1] < numsymbols THEN 2 + 2 * p[1] ELSE numsymbols
    BY DEF Accounts
  <2>2. c[1] + 1 <= c[0]
    BY <1>3, <1>4, <1>5, <1>6, <2>1
  <2>. QED  BY <1>6, <2>2 DEF e
<1>7. CASE e # 1
  <2>. DEFINE d == e - 1
  <2>1. d \in 1 .. maxbits - 1 /\ d \in 1 .. maxbits - 2 /\ d + 1 = e
    BY <1>1, <1>7
  <2>2. c[d] - 2 + p[d] + Pending(s, d) = 2 * p[d + 1] /\ (c[d] > p[d] \/ c[d] = numsymbols)
    <3>. HIDE DEF d
    <3>. QED  BY <2>1 DEF Accounts
  <2>3. c[d] - 2 + p[d] = 2 * p[e]
    <3>1. Pending(s, d) = 0 /\ c[d] \in Int /\ p[d] \in Int
      BY <1>2, <1>4
    <3>. HIDE DEF d
    <3>. QED  BY <2>1, <2>2, <3>1
  <2>4. c[d] \in Int /\ p[d] \in Nat /\ c[d] <= numsymbols
    BY <1>4
  <2>. HIDE DEF d
  <2>5. c[e] + 1 <= c[d]
    BY <1>3, <1>4, <1>5, <2>2, <2>3, <2>4, SMTT(40)
  <2>. QED  BY <2>5 DEF d, e
<1>. QED  BY <1>6, <1>7

\* the numbers of nodes after a list has got x more
LEMMA NodesMove ==
  ASSUME maxbits \in 2 .. 15, NEW c, NEW p, NEW S, AreNodes(c, p, S), NEW d, NEW q, NEW e, NEW x, AreMore(c, p, d, q, e, x)
  PROVE  \E T : AreNodes(d, q, T) /\ T[maxbits] = S[maxbits] + x
<1>. DEFINE m == maxbits
<1>1. m \in Nat /\ S[0] = 2 /\ \A k \in 0 .. m : S[k] \in Int
  BY DEF AreNodes
<1>2. /\ \A k \in 0 .. m - 1 : c[k] \in Int /\ p[k] \in Int /\ d[k] \in Int /\ q[k] \in Int
      /\ e \in 0 .. m - 1 /\ x \in Int /\ d[e] + q[e] = c[e] + p[e] + x
      /\ \A k \in 0 .. m - 1 : k # e => d[k] = c[k] /\ q[k] = p[k]
  BY DEF AreMore
<1>3. \A k \in 0 .. m - 1 : S[k + 1] = S[k] + (c[k] - 2 + p[k])
  BY DEF AreNodes
<1>. HIDE DEF m
<1>. DEFINE T == [j \in 0 .. m |-> IF j > e THEN S[j] + x ELSE S[j]]
<1>4. \A j \in 0 .. m : /\ j > e => T[j] = S[j] + x
                        /\ ~(j > e) => T[j] = S[j]
  OBVIOUS
<1>5. T \in [0 .. m -> Int]
  <2>1. ASSUME NEW j \in 0 .. m PROVE (IF j > e THEN S[j] + x ELSE S[j]) \in Int
    <3>1. S[j] \in Int
      BY <1>1
    <3>. QED  BY <1>2, <3>1
  <2>. QED  BY <2>1
<1>. HIDE DEF T
<1>6. T[0] = 2 /\ T[m] = S[m] + x
  <2>1. 0 \in 0 .. m /\ m \in 0 .. m /\ ~(0 > e) /\ m > e
    BY <1>1, <1>2
  <2>. QED  BY <1>1, <1>4, <2>1
<1>7. ASSUME NEW k \in 0 .. m - 1 PROVE T[k + 1] = T[k] + (d[k] - 2 + q[k])
  <2>1. k \in 0 .. m /\ k + 1 \in 0 .. m /\ k \in Int /\ e \in Int
    BY <1>1, <1>2
  <2>2. S[k] \in Int /\ S[k + 1] \in Int /\ c[k] \in Int /\ p[k] \in Int /\ d[k] \in Int /\ q[k] \in Int
    BY <1>1, <1>2, <2>1
  <2>3. S[k + 1] = S[k] + (c[k] - 2 + p[k])
    BY <1>3
  <2>4. CASE k < e
    <3>1. ~(k > e) /\ ~(k + 1 > e) /\ k # e
      BY <2>1, <2>4
    <3>2. T[k] = S[k] /\ T[k + 1] = S[k + 1] /\ d[k] = c[k] /\ q[k] = p[k]
      BY <1>2, <1>4, <2>1, <3>1
    <3>. QED  BY <2>3, <3>2
  <2>5. CASE k = e
    <3>1. ~(k > e) /\ k + 1 > e
      BY <2>1, <2>5
    <3>2. T[k] = S[k] /\ T[k + 1] = S[k + 1] + x /\ d[k] + q[k] = c[k] + p[k] + x /\ x \in Int
      BY <1>2, <1>4, <2>1, <2>5, <3>1
    <3>3. d[k] - 2 + q[k] = (c[k] - 2 + p[k]) + x
      BY <2>2, <3>2
    <3>4. c[k] - 2 + p[k] \in Int
      BY <2>2
    <3>5. S[k] + ((c[k] - 2 + p[k]) + x) = (S[k] + (c[k] - 2 + p[k])) + x
      BY <2>2, <3>2, <3>4
    <3>. QED  BY <2>3, <3>2, <3>3, <3>5, Zenon
  <2>6. CASE k > e
    <3>1. k > e /\ k + 1 > e /\ k # e
      BY <2>1, <2>6
    <3>2. T[k] = S[k] + x /\ T[k + 1] = S[k + 1] + x /\ d[k] = c[k] /\ q[k] = p[k] /\ x \in Int
      BY <1>2, <1>4, <2>1, <3>1
    <3>. QED  BY <2>2, <2>3, <3>2
  <2>. QED  BY <2>1, <2>4, <2>5, <2>6
<1>8. AreNodes(d, q, T)
  BY <1>5, <1>6, <1>7 DEF AreNodes, m
<1>. QED  BY <1>6, <1>8 DEF m

\* how often a list is there is a number
LEMMA PendingIs ==
  ASSUME NEW s, NEW k
  PROVE  Pending(s, k) \in Int /\ Pending(s, k) >= 0
BY DEF Pending

\* the parts of the accounts
LEMMA AccountsAre ==
  ASSUME maxbits \in 2 .. 15, numsymbols \in Nat, NEW c, NEW s, NEW p, NEW S, Accounts(c, s, p, S)
  PROVE  /\ maxbits \in Nat /\ maxbits >= 2
         /\ p \in [0 .. maxbits - 1 -> Nat] /\ p[0] = 0
         /\ \A k \in 1 .. maxbits - 1 : c[k] > p[k] \/ c[k] = numsymbols
         /\ \A k \in 1 .. maxbits - 2 : c[k] - 2 + p[k] + Pending(s, k) = 2 * p[k + 1]
         /\ c[0] = IF 2 + 2 * p[1] < numsymbols THEN 2 + 2 * p[1] ELSE numsymbols
         /\ AreNodes(c, p, S) /\ S[maxbits] \in Int
         /\ \A k \in 0 .. maxbits - 1 : c[k] \in Int /\ c[k] >= 2 /\ c[k] <= numsymbols /\ p[k] \in Nat /\ p[k] \in Int
<1>1. maxbits \in Nat /\ maxbits >= 2 /\ maxbits \in 0 .. maxbits
  OBVIOUS
<1>2. c \in [0 .. maxbits - 1 -> 2 .. numsymbols] /\ p \in [0 .. maxbits - 1 -> Nat] /\ S \in [0 .. maxbits -> Int]
  BY DEF Accounts, IsCounts, AreNodes
<1>3. S[maxbits] \in Int
  BY <1>1, <1>2
<1>4. \A k \in 0 .. maxbits - 1 : c[k] \in Int /\ c[k] >= 2 /\ c[k] <= numsymbols /\ p[k] \in Nat /\ p[k] \in Int
  BY <1>2
<1>. QED  BY <1>1, <1>2, <1>3, <1>4 DEF Accounts

\* after a leaf
LEMMA AccountsOfLeaf ==
  ASSUME maxbits \in 2 .. 15, numsymbols \in Nat, NEW c, NEW s, IsStack(s, maxbits), s # <<>>,
         NEW turns \in Int, NEW u, IsUsed(c, s, turns, u),
         NEW d, Further(c, d, Last(s), 1)
  PROVE  IsUsed(d, Front(s), turns, u + 1)
<1>. DEFINE e == Last(s)
            t == Front(s)
<1>1. PICK p, S : Accounts(c, s, p, S) /\ Top(c, s, p, turns) /\ u = S[maxbits]
  BY DEF IsUsed
<1>2. /\ e \in 1 .. maxbits - 1 /\ maxbits \in Nat
      /\ Pending(t, e) = Pending(s, e) - 1
      /\ \A k : k # e => Pending(t, k) = Pending(s, k)
  <2>1. maxbits \in Nat
    OBVIOUS
  <2>. HIDE DEF e, t
  <2>2. e \in 1 .. maxbits - 1
    BY <2>1, StackIs DEF e
  <2>3. Pending(t, e) = Pending(s, e) - 1 /\ \A k : k # e => Pending(t, k) = Pending(s, k)
    BY <2>1, Popped DEF e, t
  <2>. QED  BY <2>1, <2>2, <2>3
<1>3. Further(c, d, e, 1)
  OBVIOUS
<1>. HIDE DEF e, t
<1>4. e \in 0 .. maxbits - 1 /\ d[e] = c[e] + 1 /\ \A k \in 0 .. maxbits - 1 : k # e => d[k] = c[k]
  BY <1>2, <1>3 DEF Further
<1>5. \A k \in 0 .. maxbits - 1 : c[k] \in Int /\ p[k] \in Int /\ d[k] \in Int /\ d[k] <= numsymbols
  <2>1. \A k \in 0 .. maxbits - 1 : d[k] \in 2 .. numsymbols
    BY <1>3 DEF Further, IsCounts
  <2>. QED  BY <1>1, <2>1, AccountsAre
<1>6. PICK T : AreNodes(d, p, T) /\ T[maxbits] = S[maxbits] + 1
  <2>1. d[e] + p[e] = c[e] + p[e] + 1
    <3>1. p[e] \in Int /\ c[e] \in Int
      BY <1>4, <1>5
    <3>. QED  BY <1>4, <3>1
  <2>2. AreMore(c, p, d, p, e, 1)
    BY <1>4, <1>5, <2>1 DEF AreMore
  <2>3. AreNodes(c, p, S)
    BY <1>1, AccountsAre
  <2>. QED  BY <2>2, <2>3, NodesMove
<1>7. ASSUME NEW k \in 1 .. maxbits - 1
      PROVE  d[k] - 2 + p[k] + Pending(t, k) = c[k] - 2 + p[k] + Pending(s, k) /\ k \in 0 .. maxbits - 1
  <2>1. k \in 0 .. maxbits - 1
    OBVIOUS
  <2>2. c[k] \in Int /\ p[k] \in Int /\ Pending(s, k) \in Int
    BY <1>5, <2>1, PendingIs
  <2>3. CASE k = e
    <3>1. Pending(t, k) = Pending(s, k) - 1 /\ d[k] = c[k] + 1
      BY <1>2, <1>4, <2>3
    <3>2. \A x, y, z \in Int : (x + 1) - 2 + y + (z - 1) = x - 2 + y + z
      OBVIOUS
    <3>3. (c[k] + 1) - 2 + p[k] + (Pending(s, k) - 1) = c[k] - 2 + p[k] + Pending(s, k)
      BY <2>2, <3>2, ZenonT(60)
    <3>4. d[k] - 2 + p[k] + Pending(t, k) = (c[k] + 1) - 2 + p[k] + (Pending(s, k) - 1)
      BY <3>1, Zenon
    <3>. QED  BY <2>1, <3>3, <3>4
  <2>4. CASE k # e
    <3>1. d[k] = c[k] /\ Pending(t, k) = Pending(s, k)
      BY <1>2, <1>4, <2>1, <2>4
    <3>. QED  BY <2>1, <3>1
  <2>. QED  BY <2>3, <2>4
<1>8. Accounts(d, t, p, T)
  <2>1. \A k \in 1 .. maxbits - 1 : d[k] > p[k] \/ d[k] = numsymbols
    <3>1. SUFFICES ASSUME NEW k \in 1 .. maxbits - 1 PROVE d[k] > p[k] \/ d[k] = numsymbols
      OBVIOUS
    <3>2. k \in 0 .. maxbits - 1
      OBVIOUS
    <3>3. (c[k] > p[k] \/ c[k] = numsymbols) /\ c[k] \in Int /\ p[k] \in Int
      BY <1>1, <3>2, AccountsAre
    <3>4. CASE k = e
      <4>1. d[k] = c[k] + 1 /\ d[k] <= numsymbols
        BY <1>4, <1>5, <3>2, <3>4
      <4>. QED  BY <3>3, <4>1
    <3>5. CASE k # e
      <4>1. d[k] = c[k]
        BY <1>4, <3>2, <3>5
      <4>. QED  BY <3>3, <4>1
    <3>. QED  BY <3>4, <3>5
  <2>2. \A k \in 1 .. maxbits - 2 : d[k] - 2 + p[k] + Pending(t, k) = 2 * p[k + 1]
    <3>1. \A k \in 1 .. maxbits - 2 : c[k] - 2 + p[k] + Pending(s, k) = 2 * p[k + 1]
      BY <1>1, AccountsAre
    <3>2. \A k \in 1 .. maxbits - 2 : k \in 1 .. maxbits - 1
      BY <1>2
    <3>. QED  BY <1>7, <3>1, <3>2
  <2>3. d[0] = c[0]
    BY <1>2, <1>4
  <2>4. /\ p \in [0 .. maxbits - 1 -> Nat] /\ p[0] = 0
        /\ d[0] = IF 2 + 2 * p[1] < numsymbols THEN 2 + 2 * p[1] ELSE numsymbols
    BY <1>1, <2>3, AccountsAre
  <2>. QED  BY <1>3, <1>6, <2>1, <2>2, <2>4 DEF Accounts, Further
<1>9. Top(d, t, p, turns)
  <2>1. maxbits - 1 \in 1 .. maxbits - 1
    BY <1>2
  <2>. QED  BY <1>1, <1>7, <2>1 DEF Top
<1>10. IsUsed(d, t, turns, u + 1)
  BY <1>1, <1>6, <1>8, <1>9 DEF IsUsed
<1>. QED  BY <1>10 DEF t

\* after a package
LEMMA AccountsOfPackage ==
  ASSUME maxbits \in 2 .. 15, numsymbols \in Nat, NEW c, NEW s, IsStack(s, maxbits), s # <<>>, Last(s) # 1,
         NEW turns \in Int, NEW u, IsUsed(c, s, turns, u),
         c[Last(s)] < numsymbols => ~(c[Last(s)] + 1 <= c[Last(s) - 1])
  PROVE  IsUsed(c, TwoBelow(s), turns, u + 1)
<1>. DEFINE e == Last(s)
            t == TwoBelow(s)
<1>1. PICK p, S : Accounts(c, s, p, S) /\ Top(c, s, p, turns) /\ u = S[maxbits]
  BY DEF IsUsed
<1>. DEFINE q == [p EXCEPT ![e] = p[e] + 1]
<1>2. e \in 1 .. maxbits - 1 /\ maxbits \in Nat /\ e # 1
  <2>1. maxbits \in Nat
    OBVIOUS
  <2>. QED  BY <2>1, StackIs
<1>3. /\ Pending(t, e) = Pending(s, e) - 1
      /\ Pending(t, e - 1) = 2 /\ Pending(s, e - 1) = 0
      /\ \A k : k # e /\ k # e - 1 => Pending(t, k) = Pending(s, k)
  BY <1>2, TwoPushed
<1>4. c[e] < numsymbols => ~(c[e] <= p[e] + 1)
  BY <1>1, BelowHasMore
<1>. HIDE DEF e, t
<1>5. e \in 0 .. maxbits - 1 /\ e - 1 \in 0 .. maxbits - 1 /\ e \in Int
  BY <1>2
<1>6. \A k \in 0 .. maxbits - 1 : c[k] \in Int /\ c[k] <= numsymbols /\ p[k] \in Int
  BY <1>1, AccountsAre
<1>7. q \in [0 .. maxbits - 1 -> Nat] /\ q[e] = p[e] + 1 /\ \A k \in 0 .. maxbits - 1 : k # e => q[k] = p[k]
  <2>1. p \in [0 .. maxbits - 1 -> Nat]
    BY <1>1, AccountsAre
  <2>. QED  BY <1>5, <2>1
<1>. HIDE DEF q
<1>8. \A k \in 0 .. maxbits - 1 : q[k] \in Int
  BY <1>7
<1>9. PICK T : AreNodes(c, q, T) /\ T[maxbits] = S[maxbits] + 1
  <2>1. c[e] + q[e] = c[e] + p[e] + 1
    <3>1. p[e] \in Int /\ c[e] \in Int
      BY <1>5, <1>6
    <3>. QED  BY <1>7, <3>1
  <2>2. AreMore(c, p, c, q, e, 1)
    BY <1>5, <1>6, <1>7, <1>8, <2>1 DEF AreMore
  <2>3. AreNodes(c, p, S)
    BY <1>1, AccountsAre
  <2>. QED  BY <2>2, <2>3, NodesMove
<1>10. ASSUME NEW k \in 1 .. maxbits - 1, k # e - 1
       PROVE  c[k] - 2 + q[k] + Pending(t, k) = c[k] - 2 + p[k] + Pending(s, k)
  <2>1. k \in 0 .. maxbits - 1
    OBVIOUS
  <2>2. c[k] \in Int /\ p[k] \in Int /\ Pending(s, k) \in Int
    BY <1>6, <2>1, PendingIs
  <2>3. CASE k = e
    <3>1. Pending(t, k) = Pending(s, k) - 1 /\ q[k] = p[k] + 1
      BY <1>3, <1>7, <2>3
    <3>2. c[k] - 2 + (p[k] + 1) + (Pending(s, k) - 1) = c[k] - 2 + p[k] + Pending(s, k)
      <4>1. \A x1, x2, x3 \in Int : x1 - 2 + (x2 + 1) + (x3 - 1) = x1 - 2 + x2 + x3
        OBVIOUS
      <4>. QED  BY <2>2, <4>1, ZenonT(60)
    <3>. QED  BY <3>1, <3>2, Zenon
  <2>4. CASE k # e
    <3>1. q[k] = p[k] /\ Pending(t, k) = Pending(s, k)
      BY <1>3, <1>7, <1>10, <2>1, <2>4
    <3>. QED  BY <3>1
  <2>. QED  BY <2>3, <2>4
<1>11. Accounts(c, t, q, T)
  <2>1. \A k \in 1 .. maxbits - 1 : c[k] > q[k] \/ c[k] = numsymbols
    <3>1. SUFFICES ASSUME NEW k \in 1 .. maxbits - 1 PROVE c[k] > q[k] \/ c[k] = numsymbols
      OBVIOUS
    <3>2. k \in 0 .. maxbits - 1
      OBVIOUS
    <3>3. (c[k] > p[k] \/ c[k] = numsymbols) /\ c[k] \in Int /\ p[k] \in Int /\ c[k] <= numsymbols
      BY <1>1, <3>2, AccountsAre
    <3>4. CASE k = e
      <4>1. q[k] = p[k] + 1 /\ (c[k] < numsymbols => ~(c[k] <= p[k] + 1))
        BY <1>4, <1>7, <3>4
      <4>. QED  BY <3>3, <4>1
    <3>5. CASE k # e
      <4>1. q[k] = p[k]
        BY <1>7, <3>2, <3>5
      <4>. QED  BY <3>3, <4>1
    <3>. QED  BY <3>4, <3>5
  <2>2. \A k \in 1 .. maxbits - 2 : c[k] - 2 + q[k] + Pending(t, k) = 2 * q[k + 1]
    <3>1. SUFFICES ASSUME NEW k \in 1 .. maxbits - 2 PROVE c[k] - 2 + q[k] + Pending(t, k) = 2 * q[k + 1]
      OBVIOUS
    <3>2. c[k] - 2 + p[k] + Pending(s, k) = 2 * p[k + 1]
      BY <1>1, AccountsAre
    <3>3. k \in 1 .. maxbits - 1 /\ k \in 0 .. maxbits - 1 /\ k + 1 \in 0 .. maxbits - 1 /\ k \in Int
      BY <1>2
    <3>4. c[k] \in Int /\ p[k] \in Int /\ p[k + 1] \in Int
      BY <1>6, <3>3
    <3>5. CASE k = e - 1
      <4>1. k + 1 = e /\ k # e
        BY <1>5, <3>3, <3>5
      <4>2. q[k] = p[k] /\ q[k + 1] = p[k + 1] + 1 /\ Pending(t, k) = 2 /\ Pending(s, k) = 0
        BY <1>3, <1>7, <3>3, <3>5, <4>1
      <4>3. c[k] - 2 + p[k] + 0 = 2 * p[k + 1]
        BY <3>2, <4>2, Zenon
      <4>4. c[k] - 2 + p[k] + 2 = 2 * (p[k + 1] + 1)
        BY <3>4, <4>3, SMTT(40)
      <4>. QED  BY <4>2, <4>4, Zenon
    <3>6. CASE k # e - 1
      <4>1. k + 1 # e
        BY <1>5, <3>3, <3>6
      <4>2. q[k + 1] = p[k + 1]
        BY <1>7, <3>3, <4>1
      <4>. QED  BY <1>10, <3>2, <3>3, <3>6, <4>2
    <3>. QED  BY <3>5, <3>6
  <2>3. 0 # e /\ 1 # e /\ 0 \in 0 .. maxbits - 1 /\ 1 \in 0 .. maxbits - 1
    BY <1>2
  <2>4. q[0] = p[0] /\ q[1] = p[1]
    BY <1>7, <2>3
  <2>5. /\ p[0] = 0 /\ c[0] = IF 2 + 2 * p[1] < numsymbols THEN 2 + 2 * p[1] ELSE numsymbols
        /\ IsCounts(c)
    BY <1>1 DEF Accounts
  <2>. QED  BY <1>7, <1>9, <2>1, <2>2, <2>4, <2>5 DEF Accounts
<1>12. Top(c, t, q, turns)
  <2>1. maxbits - 1 \in 1 .. maxbits - 1 /\ maxbits - 1 # e - 1
    BY <1>2
  <2>. QED  BY <1>1, <1>10, <2>1 DEF Top
<1>13. IsUsed(c, t, turns, u + 1)
  BY <1>1, <1>9, <1>11, <1>12 DEF IsUsed
<1>. QED  BY <1>13 DEF t

\* after a package of leaves, which the lowest list replaces as far as there are any
LEMMA AccountsOfLowest ==
  ASSUME maxbits \in 2 .. 15, numsymbols \in Nat, NEW c, NEW s, IsStack(s, maxbits), s # <<>>, Last(s) = 1,
         NEW turns \in Int, NEW u, IsUsed(c, s, turns, u),
         c[1] < numsymbols => ~(c[1] + 1 <= c[0]),
         NEW d, NEW x \in Int, Further(c, d, 0, x),
         x = IF c[0] + 2 < numsymbols THEN 2 ELSE numsymbols - c[0]
  PROVE  IsUsed(d, Front(s), turns, u + 1 + x)
<1>. DEFINE t == Front(s)
<1>1. PICK p, S : Accounts(c, s, p, S) /\ Top(c, s, p, turns) /\ u = S[maxbits]
  BY DEF IsUsed
<1>. DEFINE q == [p EXCEPT ![1] = p[1] + 1]
<1>2. maxbits \in Nat /\ 1 \in 0 .. maxbits - 1 /\ 0 \in 0 .. maxbits - 1 /\ 1 - 1 = 0
  OBVIOUS
<1>3. Pending(t, 1) = Pending(s, 1) - 1 /\ \A k : k # 1 => Pending(t, k) = Pending(s, k)
  BY <1>2, Popped
<1>4. c[1] < numsymbols => ~(c[1] <= p[1] + 1)
  BY <1>1, <1>2, BelowHasMore
<1>. HIDE DEF t
<1>5. \A k \in 0 .. maxbits - 1 : c[k] \in Int /\ c[k] <= numsymbols /\ p[k] \in Int /\ p[k] >= 0
  BY <1>1, AccountsAre
<1>6. q \in [0 .. maxbits - 1 -> Nat] /\ q[1] = p[1] + 1 /\ \A k \in 0 .. maxbits - 1 : k # 1 => q[k] = p[k]
  <2>1. p \in [0 .. maxbits - 1 -> Nat]
    BY <1>1, AccountsAre
  <2>. QED  BY <1>2, <2>1
<1>. HIDE DEF q
<1>7. d[0] = c[0] + x /\ \A k \in 0 .. maxbits - 1 : k # 0 => d[k] = c[k]
  BY DEF Further
<1>8. \A k \in 0 .. maxbits - 1 : q[k] \in Int /\ d[k] \in Int
  <2>1. \A k \in 0 .. maxbits - 1 : d[k] \in 2 .. numsymbols
    BY DEF Further, IsCounts
  <2>. QED  BY <1>6, <2>1
<1>9. PICK T1 : AreNodes(d, p, T1) /\ T1[maxbits] = S[maxbits] + x
  <2>1. d[0] + p[0] = c[0] + p[0] + x
    <3>1. p[0] \in Int /\ c[0] \in Int
      BY <1>2, <1>5
    <3>. QED  BY <1>7, <3>1
  <2>2. AreMore(c, p, d, p, 0, x)
    BY <1>2, <1>5, <1>7, <1>8, <2>1 DEF AreMore
  <2>3. AreNodes(c, p, S)
    BY <1>1, AccountsAre
  <2>. QED  BY <2>2, <2>3, NodesMove
<1>10. PICK T : AreNodes(d, q, T) /\ T[maxbits] = T1[maxbits] + 1
  <2>1. d[1] + q[1] = d[1] + p[1] + 1
    <3>1. p[1] \in Int /\ d[1] \in Int
      BY <1>2, <1>5, <1>8
    <3>. QED  BY <1>6, <3>1
  <2>2. AreMore(d, p, d, q, 1, 1)
    BY <1>2, <1>5, <1>6, <1>8, <2>1, SMTT(40) DEF AreMore
  <2>. QED  BY <1>9, <2>2, NodesMove
<1>11. ASSUME NEW k \in 1 .. maxbits - 1
       PROVE  d[k] - 2 + q[k] + Pending(t, k) = c[k] - 2 + p[k] + Pending(s, k)
  <2>1. k \in 0 .. maxbits - 1 /\ k # 0
    OBVIOUS
  <2>2. c[k] \in Int /\ p[k] \in Int /\ Pending(s, k) \in Int /\ d[k] = c[k]
    BY <1>5, <1>7, <2>1, PendingIs
  <2>3. CASE k = 1
    <3>1. Pending(t, k) = Pending(s, k) - 1 /\ q[k] = p[k] + 1
      BY <1>3, <1>6, <2>3
    <3>2. c[k] - 2 + (p[k] + 1) + (Pending(s, k) - 1) = c[k] - 2 + p[k] + Pending(s, k)
      <4>1. \A x1, x2, x3 \in Int : x1 - 2 + (x2 + 1) + (x3 - 1) = x1 - 2 + x2 + x3
        OBVIOUS
      <4>2. c[k] \in Int /\ p[k] \in Int /\ Pending(s, k) \in Int
        BY <2>2
      <4>3. \A x2, x3 \in Int : c[k] - 2 + (x2 + 1) + (x3 - 1) = c[k] - 2 + x2 + x3
        BY <4>1, <4>2
      <4>. QED  BY <4>2, <4>3
    <3>. QED  BY <2>2, <3>1, <3>2, Zenon
  <2>4. CASE k # 1
    <3>1. q[k] = p[k] /\ Pending(t, k) = Pending(s, k)
      BY <1>3, <1>6, <2>1, <2>4
    <3>. QED  BY <2>2, <3>1
  <2>. QED  BY <2>3, <2>4
<1>12. Accounts(d, t, q, T)
  <2>1. \A k \in 1 .. maxbits - 1 : d[k] > q[k] \/ d[k] = numsymbols
    <3>1. SUFFICES ASSUME NEW k \in 1 .. maxbits - 1 PROVE d[k] > q[k] \/ d[k] = numsymbols
      OBVIOUS
    <3>2. k \in 0 .. maxbits - 1 /\ k # 0
      OBVIOUS
    <3>3. (c[k] > p[k] \/ c[k] = numsymbols) /\ c[k] \in Int /\ p[k] \in Int /\ c[k] <= numsymbols /\ d[k] = c[k]
      BY <1>1, <1>7, <3>2, AccountsAre
    <3>4. CASE k = 1
      <4>1. q[k] = p[k] + 1 /\ (c[k] < numsymbols => ~(c[k] <= p[k] + 1))
        BY <1>4, <1>6, <3>4
      <4>. QED  BY <3>3, <4>1
    <3>5. CASE k # 1
      <4>1. q[k] = p[k]
        BY <1>6, <3>2, <3>5
      <4>. QED  BY <3>3, <4>1
    <3>. QED  BY <3>4, <3>5
  <2>2. \A k \in 1 .. maxbits - 2 : d[k] - 2 + q[k] + Pending(t, k) = 2 * q[k + 1]
    <3>1. SUFFICES ASSUME NEW k \in 1 .. maxbits - 2 PROVE d[k] - 2 + q[k] + Pending(t, k) = 2 * q[k + 1]
      OBVIOUS
    <3>2. c[k] - 2 + p[k] + Pending(s, k) = 2 * p[k + 1]
      BY <1>1, AccountsAre
    <3>3. k \in 1 .. maxbits - 1 /\ k + 1 \in 0 .. maxbits - 1 /\ k + 1 # 1
      BY <1>2
    <3>4. q[k + 1] = p[k + 1]
      BY <1>6, <3>3
    <3>. QED  BY <1>11, <3>2, <3>3, <3>4
  <2>3. q[0] = p[0] /\ p[0] = 0
    BY <1>1, <1>2, <1>6, AccountsAre, SMTT(40)
  <2>4. d[0] = IF 2 + 2 * q[1] < numsymbols THEN 2 + 2 * q[1] ELSE numsymbols
    <3>1. c[0] = IF 2 + 2 * p[1] < numsymbols THEN 2 + 2 * p[1] ELSE numsymbols
      BY <1>1, AccountsAre
    <3>2. p[1] \in Int /\ c[0] \in Int /\ q[1] = p[1] + 1 /\ d[0] = c[0] + x
      BY <1>2, <1>5, <1>6, <1>7
    <3>3. 2 + 2 * q[1] = 4 + 2 * p[1]
      BY <3>2
    <3>4. CASE 4 + 2 * p[1] < numsymbols
      <4>1. c[0] = 2 + 2 * p[1] /\ x = 2
        BY <3>1, <3>2, <3>4
      <4>. QED  BY <3>2, <3>3, <3>4, <4>1
    <3>5. CASE ~(4 + 2 * p[1] < numsymbols)
      <4>1. x = numsymbols - c[0]
        BY <3>1, <3>2, <3>5
      <4>2. d[0] = numsymbols
        BY <3>2, <4>1
      <4>. QED  BY <3>3, <3>5, <4>2
    <3>. QED  BY <3>4, <3>5
  <2>5. IsCounts(d)
    BY DEF Further
  <2>. QED  BY <1>6, <1>10, <2>1, <2>2, <2>3, <2>4, <2>5 DEF Accounts
<1>13. Top(d, t, q, turns)
  <2>1. maxbits - 1 \in 1 .. maxbits - 1
    BY <1>2
  <2>. QED  BY <1>1, <1>11, <2>1 DEF Top
<1>14. IsUsed(d, t, turns, u + 1 + x)
  <2>1. S[maxbits] \in Int
    BY <1>1, AccountsAre
  <2>2. u + 1 + x = T[maxbits]
    BY <1>1, <1>9, <1>10, <2>1, SMTT(40)
  <2>. QED  BY <1>12, <1>13, <2>2 DEF IsUsed
<1>. QED  BY <1>14 DEF t

\* The nodes fit in the pool.
LEMMA NodesFit ==
  ASSUME maxbits \in 2 .. 15, numsymbols \in Nat, numsymbols > 2, NEW c, NEW s,
         NEW turns \in Int, turns <= 2 * numsymbols - 5, NEW u, IsUsed(c, s, turns, u)
  PROVE  u \in Int /\ u + 1 <= 2 * maxbits * numsymbols
<1>1. PICK p, S : Accounts(c, s, p, S) /\ Top(c, s, p, turns) /\ u = S[maxbits]
  BY DEF IsUsed
<1>. DEFINE n == numsymbols
            m == maxbits
            D == 2 * n - 4
<1>2. m \in Nat /\ m >= 2 /\ n \in Nat /\ n > 2 /\ D = 2 * n - 4 /\ D \in Nat
  OBVIOUS
<1>3. \A k \in 0 .. m - 1 : c[k] \in Int /\ c[k] <= n /\ p[k] \in Nat /\ p[k] \in Int
  BY <1>1, AccountsAre
<1>4. /\ \A k \in 1 .. m - 1 : c[k] > p[k] \/ c[k] = n
      /\ \A k \in 1 .. m - 2 : c[k] - 2 + p[k] + Pending(s, k) = 2 * p[k + 1]
      /\ p[0] = 0
  BY <1>1, AccountsAre
<1>5. S[0] = 2 /\ (\A k \in 0 .. m : S[k] \in Int) /\ \A k \in 0 .. m - 1 : S[k + 1] = S[k] + (c[k] - 2 + p[k])
  <2>1. AreNodes(c, p, S)
    BY <1>1, AccountsAre
  <2>. QED  BY <2>1 DEF AreNodes
<1>6. c[m - 1] - 2 + p[m - 1] + Pending(s, m - 1) <= 2 * n - 5
  BY <1>1 DEF Top
<1>. HIDE DEF n, m, D
<1>7. \A k \in 1 .. m - 1 : p[k] <= n - 2
  <2>. DEFINE T == {k \in 1 .. m - 1 : ~(p[k] <= n - 2)}
  <2>1. SUFFICES ASSUME T # {} PROVE FALSE
    OBVIOUS
  <2>2. T \subseteq 0 .. m
    BY <1>2
  <2>3. PICK g \in T : \A k \in T : k <= g
    <3>. HIDE DEF T
    <3>. QED  BY <1>2, <2>1, <2>2, GreatestExists
  <2>4. g \in 1 .. m - 1 /\ ~(p[g] <= n - 2) /\ g \in 0 .. m - 1 /\ g \in Int
    BY <1>2
  <2>5. c[g] \in Int /\ p[g] \in Int /\ c[g] <= n /\ (c[g] > p[g] \/ c[g] = n) /\ Pending(s, g) \in Int /\ Pending(s, g) >= 0
    BY <1>3, <1>4, <2>4, PendingIs
  <2>6. c[g] = n /\ p[g] >= n - 1
    BY <1>2, <2>4, <2>5
  <2>7. c[g] - 2 + p[g] + Pending(s, g) >= 2 * n - 3
    BY <1>2, <2>5, <2>6
  <2>8. CASE g = m - 1
    BY <1>2, <1>6, <2>5, <2>7, <2>8
  <2>9. CASE g # m - 1
    <3>1. g \in 1 .. m - 2 /\ g + 1 \in 1 .. m - 1 /\ g + 1 \in 0 .. m - 1 /\ ~(g + 1 <= g)
      BY <1>2, <2>4, <2>9
    <3>2. c[g] - 2 + p[g] + Pending(s, g) = 2 * p[g + 1] /\ p[g + 1] \in Int
      BY <1>3, <1>4, <3>1
    <3>3. ~(p[g + 1] <= n - 2)
      <4>1. 2 * p[g + 1] >= 2 * n - 3
        BY <2>7, <3>2
      <4>. QED  BY <1>2, <3>2, <4>1
    <3>4. g + 1 \in T
      BY <3>1, <3>3
    <3>. QED  BY <2>3, <3>1, <3>4
  <2>. QED  BY <2>8, <2>9
<1>8. \A k \in 0 .. m - 1 : c[k] - 2 + p[k] <= D
  <2>1. SUFFICES ASSUME NEW k \in 0 .. m - 1 PROVE c[k] - 2 + p[k] <= D
    OBVIOUS
  <2>2. c[k] \in Int /\ c[k] <= n /\ p[k] \in Int
    BY <1>3
  <2>3. p[k] <= n - 2
    <3>1. CASE k = 0
      BY <1>2, <1>4, <3>1
    <3>2. CASE k # 0
      <4>1. k \in 1 .. m - 1
        BY <1>2, <3>2
      <4>. QED  BY <1>7, <4>1
    <3>. QED  BY <3>1, <3>2
  <2>. QED  BY <1>2, <2>2, <2>3
<1>9. \A k \in 0 .. m : S[k] <= 2 + k * D
  <2>. DEFINE T == {k \in 0 .. m : ~(S[k] <= 2 + k * D)}
  <2>1. SUFFICES ASSUME T # {} PROVE FALSE
    OBVIOUS
  <2>2. T \subseteq Nat
    BY <1>2
  <2>3. PICK g \in T : \A k \in T : g <= k
    <3>. HIDE DEF T
    <3>. QED  BY <2>1, <2>2, LeastExists
  <2>4. g \in 0 .. m /\ ~(S[g] <= 2 + g * D) /\ g \in Int
    BY <1>2
  <2>5. g # 0
    <3>1. 0 * D = 0
      BY <1>2
    <3>. QED  BY <1>5, <2>4, <3>1
  <2>. DEFINE h == g - 1
  <2>6. h \in 0 .. m /\ h \in 0 .. m - 1 /\ h + 1 = g /\ ~(g <= h) /\ h \in Int
    BY <1>2, <2>4, <2>5
  <2>. HIDE DEF h
  <2>7. S[h] <= 2 + h * D
    <3>1. h \notin T
      BY <2>3, <2>6
    <3>. QED  BY <2>6, <3>1
  <2>8. S[g] = S[h] + (c[h] - 2 + p[h]) /\ S[h] \in Int /\ c[h] - 2 + p[h] \in Int /\ c[h] - 2 + p[h] <= D
    BY <1>3, <1>5, <1>8, <2>6
  <2>9. (h + 1) * D = h * D + D /\ h * D \in Int
    BY <1>2, <2>6
  <2>10. S[g] <= 2 + (h * D + D)
    <3>1. \A x, y, z \in Int : x <= 2 + z /\ y <= D => x + y <= 2 + (z + D)
      BY <1>2
    <3>. QED  BY <2>7, <2>8, <2>9, <3>1
  <2>. QED  BY <2>4, <2>6, <2>9, <2>10
<1>10. S[m] \in Int /\ S[m] <= 2 + m * D
  BY <1>2, <1>5, <1>9
<1>11. 3 + m * D <= 2 * m * n
  <2>1. m * D = m * (2 * n) - m * 4
    BY <1>2
  <2>2. m * (2 * n) = 2 * m * n
    BY <1>2
  <2>3. 2 * m * n \in Int
    BY <1>2
  <2>. QED  BY <1>2, <2>1, <2>2, <2>3
<1>12. u \in Int /\ u + 1 <= 2 * m * n
  <2>1. u \in Int /\ u <= 2 + m * D /\ m * D \in Int /\ 2 * m * n \in Int
    BY <1>1, <1>2, <1>10 DEF m
  <2>. QED  BY <1>11, <2>1
<1>. QED  BY <1>12 DEF m, n
-----------------------------------------------------------------------------
(* The steps *)

\* what the memory has to do with is the same after a step
LEMMA PoolKept ==
  ASSUME pc' = "runs", leaves' = leaves, job' = job, i' \in 0 .. numBoundaryPMRuns - 1,
         DOMAIN lists' = 0 .. maxbits - 1, \A k \in 0 .. maxbits - 1 : ListInv(lists', k),
         IsStack(stackspace', maxbits), IsUsed(Counts(lists'), stackspace', i', used')
  PROVE  PoolInv'
<1>1. numsymbols' = numsymbols
  BY DEF numsymbols
<1>2. maxbits' = maxbits /\ numBoundaryPMRuns' = numBoundaryPMRuns
  BY <1>1 DEF maxbits, numBoundaryPMRuns
<1>3. \A k : W(k)' = W(k)
  BY DEF W
<1>4. \A k \in 0 .. maxbits - 1 : ListInv(lists, k)'
  BY <1>1, <1>3 DEF ListInv
<1>5. Counts(lists)' = Counts(lists')
  BY <1>2 DEF Counts
<1>6. IsUsed(Counts(lists), stackspace, i, used)'
  BY <1>1, <1>2, <1>5, ZenonT(60) DEF IsUsed, Accounts, AreNodes, IsCounts, Top
<1>. QED  BY <1>1, <1>2, <1>4, <1>6 DEF PoolInv

\* A list stays as it should be when the one below gets heavier.
LEMMA ListAbove ==
  ASSUME NEW ls, NEW lt, NEW k \in Nat, k >= 1, ListInv(ls, k), lt[k] = ls[k],
         ls[k - 1][1].weight \in Nat, ls[k - 1][2].weight \in Nat,
         lt[k - 1][1].weight \in Nat, lt[k - 1][2].weight \in Nat,
         ls[k - 1][1].weight <= lt[k - 1][1].weight, ls[k - 1][2].weight <= lt[k - 1][2].weight
  PROVE  ListInv(lt, k)
<1>. DEFINE x1 == ls[k - 1][1].weight
            x2 == ls[k - 1][2].weight
            y1 == lt[k - 1][1].weight
            y2 == lt[k - 1][2].weight
            v == ls[k][2].weight
<1>1. /\ x1 \in Nat /\ x2 \in Nat /\ y1 \in Nat /\ y2 \in Nat /\ x1 <= y1 /\ x2 <= y2
      /\ v \in Nat /\ v <= x1 + x2
  BY DEF ListInv
<1>. HIDE DEF x1, x2, y1, y2, v
<1>2. v <= y1 + y2
  BY <1>1
<1>. QED  BY <1>2 DEF ListInv, v, y1, y2

\* where a step begins
LEMMA PoolIs ==
  ASSUME SortInv, PoolInv, pc = "runs"
  PROVE  /\ maxbits \in 2 .. 15 /\ maxbits \in Nat /\ maxbits >= 2 /\ numsymbols \in Nat /\ numsymbols > 2
         /\ \A k \in 1 .. numsymbols : W(k) \in Nat /\ W(k) > 0
         /\ \A k, l \in 1 .. numsymbols : k <= l => W(k) <= W(l)
         /\ i \in 0 .. numBoundaryPMRuns - 1 /\ numBoundaryPMRuns = 2 * numsymbols - 4 /\ i \in Int
         /\ DOMAIN lists = 0 .. maxbits - 1 /\ \A k \in 0 .. maxbits - 1 : ListInv(lists, k)
         /\ IsStack(stackspace, maxbits)
         /\ IsUsed(Counts(lists), stackspace, i, used)
         /\ stackspace # <<>> => index \in 1 .. maxbits - 1 /\ index \in 0 .. maxbits - 1 /\ index - 1 \in 0 .. maxbits - 1
<1>1. Merging
  BY DEF Merging
<1>2. maxbits \in Nat /\ maxbits >= 2
  BY <1>1, WeightsAre
<1>3. IsStack(stackspace, maxbits)
  BY DEF PoolInv
<1>4. stackspace # <<>> => index \in 1 .. maxbits - 1
  BY <1>2, <1>3, StackIs DEF index
<1>5. \A e \in 1 .. maxbits - 1 : e \in 0 .. maxbits - 1 /\ e - 1 \in 0 .. maxbits - 1
  BY <1>2
<1>6. i \in 0 .. numBoundaryPMRuns - 1 /\ i \in Int
  BY DEF PoolInv
<1>. QED  BY <1>1, <1>2, <1>3, <1>4, <1>5, <1>6, WeightsAre DEF PoolInv, numBoundaryPMRuns

\* InitLists: each list has the two lightest leaves
LEMMA InitListsStep ==
  ASSUME SortInv, PoolInv, InitLists
  PROVE  PoolInv'
<1>. DEFINE l == <<Leaf(1, <<>>), Leaf(2, <<>>)>>
<1>1. /\ pc = "init" /\ pc' = "runs" /\ leaves' = leaves /\ job' = job /\ i' = 0 /\ used' = 2
      /\ lists' = [k \in 0 .. maxbits - 1 |-> l] /\ stackspace' = stackspace /\ stackspace = <<>>
  BY DEF InitLists, PoolInv
<1>2. /\ maxbits \in 2 .. 15 /\ numsymbols \in Nat /\ numsymbols > 2
      /\ \A k \in 1 .. numsymbols : W(k) \in Nat /\ W(k) > 0
      /\ \A k, m \in 1 .. numsymbols : k <= m => W(k) <= W(m)
  <2>1. Merging
    BY <1>1 DEF Merging
  <2>. QED  BY <2>1, WeightsAre
<1>3. l[1].weight = W(1) /\ l[2].weight = W(2) /\ l[2].count = 2
  BY DEF Leaf, Node, W
<1>. HIDE DEF l
<1>4. DOMAIN lists' = 0 .. maxbits - 1 /\ \A k \in 0 .. maxbits - 1 : lists'[k] = l
  BY <1>1
<1>5. \A k \in 0 .. maxbits - 1 : ListInv(lists', k)
  <2>1. SUFFICES ASSUME NEW k \in 0 .. maxbits - 1 PROVE ListInv(lists', k)
    OBVIOUS
  <2>2. 1 \in 1 .. numsymbols /\ 2 \in 1 .. numsymbols /\ 2 + 1 \in 1 .. numsymbols /\ 2 \in 2 .. numsymbols
    BY <1>2
  <2>3. W(1) \in Nat /\ W(2) \in Nat /\ W(1) > 0 /\ W(1) <= W(2) /\ W(2) <= W(2 + 1) /\ W(2) <= W(2) /\ W(2) <= W(1) + W(2)
    BY <1>2, <2>2
  <2>4. lists'[k] = l /\ (k >= 1 => lists'[k - 1] = l)
    <3>1. k >= 1 => k - 1 \in 0 .. maxbits - 1
      BY <1>2
    <3>. QED  BY <1>4, <3>1
  <2>. QED  BY <1>3, <2>2, <2>3, <2>4 DEF ListInv
<1>6. IsStack(stackspace', maxbits)
  <2>1. <<>> \in Seq(1 .. maxbits - 1) /\ Len(<<>>) = 0
    BY EmptySeq
  <2>2. IsStack(<<>>, maxbits)
    BY <2>1 DEF IsStack
  <2>. QED  BY <1>1, <2>2
<1>7. IsUsed(Counts(lists'), stackspace', i', used')
  <2>1. Counts(lists') = [k \in 0 .. maxbits - 1 |-> 2]
    BY <1>3, <1>4 DEF Counts
  <2>2. IsUsed(Counts(lists'), <<>>, 0, 2)
    BY <1>2, <2>1, AccountsAtStart
  <2>. QED  BY <1>1, <2>2
<1>8. i' \in 0 .. numBoundaryPMRuns - 1
  BY <1>1, <1>2 DEF numBoundaryPMRuns
<1>. QED  BY <1>1, <1>4, <1>5, <1>6, <1>7, <1>8, PoolKept

\* StartRun: the highest list is to get a chain
LEMMA StartRunStep ==
  ASSUME SortInv, PoolInv, StartRun
  PROVE  PoolInv'
<1>1. /\ pc = "runs" /\ pc' = "runs" /\ leaves' = leaves /\ job' = job /\ i' = i + 1 /\ i < numBoundaryPMRuns - 1
      /\ used' = used /\ lists' = lists /\ stackspace = <<>> /\ stackspace' = <<maxbits - 1>>
  BY DEF StartRun
<1>2. i' \in 0 .. numBoundaryPMRuns - 1
  BY <1>1, PoolIs
<1>3. IsStack(stackspace', maxbits)
  <2>1. maxbits \in Nat /\ maxbits - 1 \in 1 .. maxbits - 1
    BY <1>1, PoolIs
  <2>. QED  BY <1>1, <2>1, OnePushed
<1>4. IsUsed(Counts(lists'), stackspace', i', used')
  <2>1. IsUsed(Counts(lists), <<>>, i, used) /\ i \in Int /\ maxbits \in 2 .. 15 /\ numsymbols \in Nat
    BY <1>1, PoolIs
  <2>2. IsUsed(Counts(lists), <<maxbits - 1>>, i + 1, used)
    BY <2>1, AccountsAtTurn
  <2>. QED  BY <1>1, <2>2
<1>5. DOMAIN lists' = 0 .. maxbits - 1 /\ \A k \in 0 .. maxbits - 1 : ListInv(lists', k)
  BY <1>1, PoolIs
<1>. QED  BY <1>1, <1>2, <1>3, <1>4, <1>5, PoolKept

\* NewLeaf: a list gets a leaf
LEMMA NewLeafStep ==
  ASSUME SortInv, PoolInv, NewLeaf
  PROVE  PoolInv'
<1>. DEFINE e == index
            c == lists[index][2].count
            l == <<oldchain, Leaf(lastcount + 1, oldchain.tail)>>
<1>1. /\ pc = "runs" /\ pc' = "runs" /\ leaves' = leaves /\ job' = job /\ i' = i
      /\ used' = used + 1 /\ lists' = [lists EXCEPT ![e] = l]
      /\ stackspace # <<>> /\ stackspace' = Front(stackspace)
      /\ c < numsymbols /\ lists[e - 1][1].weight + lists[e - 1][2].weight > W(c + 1)
  BY DEF NewLeaf, LeafNext, sum, W
<1>2. l[1] = lists[e][2] /\ l[2].weight = W(c + 1) /\ l[2].count = c + 1
  BY DEF oldchain, lastcount, Leaf, Node, W
<1>3. e \in 1 .. maxbits - 1 /\ e \in 0 .. maxbits - 1 /\ e - 1 \in 0 .. maxbits - 1 /\ e \in Int
  BY <1>1, PoolIs
<1>. HIDE DEF e, c, l
<1>4. c = lists[e][2].count
  BY DEF e, c
<1>5. /\ DOMAIN lists' = 0 .. maxbits - 1 /\ lists'[e] = l
      /\ \A k \in 0 .. maxbits - 1 : k # e => lists'[k] = lists[k]
  BY <1>1, <1>3, PoolIs
<1>6. \A k \in 0 .. maxbits - 1 : ListInv(lists, k)
  BY <1>1, PoolIs
<1>7. /\ lists[e][1].weight \in Nat /\ lists[e][2].weight \in Nat /\ c \in 2 .. numsymbols
      /\ 0 < lists[e][1].weight /\ lists[e][1].weight <= lists[e][2].weight
      /\ lists[e][2].weight <= W(c + 1)
  BY <1>1, <1>3, <1>4, <1>6 DEF ListInv
<1>8. lists[e - 1][1].weight \in Nat /\ lists[e - 1][2].weight \in Nat
  BY <1>3, <1>6 DEF ListInv
<1>9. /\ c \in Int /\ c + 1 \in 2 .. numsymbols /\ c + 1 \in 1 .. numsymbols /\ W(c + 1) \in Nat
      /\ c + 1 < numsymbols => W(c + 1) <= W((c + 1) + 1)
  <2>1. c + 1 \in 2 .. numsymbols /\ c + 1 \in 1 .. numsymbols /\ c \in Int /\ numsymbols \in Int
    <3>1. numsymbols \in Nat
      BY <1>1, PoolIs
    <3>. QED  BY <1>1, <1>7, <3>1
  <2>2. c + 1 < numsymbols => (c + 1) + 1 \in 1 .. numsymbols /\ c + 1 <= (c + 1) + 1
    BY <2>1
  <2>. QED  BY <1>1, <2>1, <2>2, PoolIs
<1>10. ListInv(lists', e)
  <2>1. lists'[e - 1] = lists[e - 1]
    BY <1>3, <1>5
  <2>2. /\ l[1].weight \in Nat /\ l[2].weight \in Nat /\ l[2].count \in 2 .. numsymbols
        /\ 0 < l[1].weight /\ l[1].weight <= l[2].weight
        /\ W(l[2].count) <= l[2].weight
        /\ l[2].count < numsymbols => l[2].weight <= W(l[2].count + 1)
    <3>1. 0 < lists[e][2].weight
      BY <1>7
    <3>2. W(c + 1) <= W(c + 1)
      BY <1>9
    <3>. QED  BY <1>2, <1>7, <1>9, <3>1, <3>2
  <2>3. l[2].weight <= lists[e - 1][1].weight + lists[e - 1][2].weight
    <3>. DEFINE v == lists[e - 1][1].weight + lists[e - 1][2].weight
    <3>1. v \in Nat /\ W(c + 1) < v
      <4>1. v > W(c + 1)
        BY <1>1, Zenon
      <4>2. v \in Nat
        BY <1>8
      <4>3. W(c + 1) \in Nat
        BY <1>9
      <4>. HIDE DEF v
      <4>. QED  BY <4>1, <4>2, <4>3
    <3>. HIDE DEF v
    <3>2. W(c + 1) <= v
      BY <1>9, <3>1
    <3>. QED  BY <1>2, <3>2 DEF v
  <2>. QED  BY <1>5, <2>1, <2>2, <2>3 DEF ListInv
<1>11. ASSUME NEW k \in 0 .. maxbits - 1 PROVE ListInv(lists', k)
  <2>1. CASE k = e
    BY <1>10, <2>1
  <2>2. CASE k = e + 1
    <3>1. k \in Nat /\ k >= 1 /\ k - 1 = e /\ k # e
      BY <1>3, <2>2
    <3>2. ListInv(lists, k) /\ lists'[k] = lists[k]
      BY <1>5, <1>6, <3>1
    <3>3. /\ lists'[k - 1][1].weight = lists[e][2].weight /\ lists'[k - 1][2].weight = W(c + 1)
          /\ lists[k - 1][1].weight = lists[e][1].weight /\ lists[k - 1][2].weight = lists[e][2].weight
      BY <1>2, <1>5, <3>1
    <3>. QED  BY <1>7, <1>9, <3>1, <3>2, <3>3, ListAbove
  <2>3. CASE k # e /\ k # e + 1
    <3>1. k >= 1 => k - 1 \in 0 .. maxbits - 1 /\ k - 1 # e
      <4>1. maxbits \in Nat
        BY <1>1, PoolIs
      <4>. QED  BY <1>3, <2>3, <4>1
    <3>2. lists'[k] = lists[k] /\ (k >= 1 => lists'[k - 1] = lists[k - 1])
      BY <1>5, <2>3, <3>1
    <3>. QED  BY <1>6, <3>2 DEF ListInv
  <2>. QED  BY <2>1, <2>2, <2>3
<1>12. Further(Counts(lists), Counts(lists'), e, 1)
  <2>1. \A k \in 0 .. maxbits - 1 : Counts(lists)[k] = lists[k][2].count /\ Counts(lists')[k] = lists'[k][2].count
    BY DEF Counts
  <2>2. IsCounts(Counts(lists'))
    BY <1>11 DEF IsCounts, Counts, ListInv
  <2>. QED  BY <1>2, <1>3, <1>4, <1>5, <2>1, <2>2 DEF Further
<1>13. IsUsed(Counts(lists'), stackspace', i', used')
  <2>1. /\ maxbits \in 2 .. 15 /\ numsymbols \in Nat /\ IsStack(stackspace, maxbits) /\ i \in Int
        /\ IsUsed(Counts(lists), stackspace, i, used)
    BY <1>1, PoolIs
  <2>2. Further(Counts(lists), Counts(lists'), Last(stackspace), 1)
    BY <1>12 DEF e, index
  <2>3. IsUsed(Counts(lists'), Front(stackspace), i, used + 1)
    BY <1>1, <2>1, <2>2, AccountsOfLeaf
  <2>. QED  BY <1>1, <2>3
<1>14. IsStack(stackspace', maxbits)
  BY <1>1, PoolIs, Popped
<1>15. i' \in 0 .. numBoundaryPMRuns - 1
  BY <1>1, PoolIs
<1>. QED  BY <1>1, <1>5, <1>11, <1>13, <1>14, <1>15, PoolKept

\* Where a package is to be made the next leaf is not lighter, and the lists are as the accounts need them.
LEMMA PackageNext ==
  ASSUME SortInv, PoolInv, pc = "runs", stackspace # <<>>, ~LeafNext(index)
  PROVE  /\ sum(index) \in Nat /\ lists[index][2].weight <= sum(index)
         /\ sum(index) = lists[index - 1][1].weight + lists[index - 1][2].weight
         /\ lists[index][2].count < numsymbols => sum(index) <= W(lists[index][2].count + 1)
         /\ lists[index][1].weight \in Nat /\ lists[index][2].weight \in Nat
         /\ 0 < lists[index][1].weight /\ lists[index][1].weight <= lists[index][2].weight
         /\ W(lists[index][2].count) \in Nat /\ W(lists[index][2].count) <= lists[index][2].weight
         /\ lists[index][2].count \in 2 .. numsymbols
         /\ Counts(lists)[index] < numsymbols => ~(Counts(lists)[index] + 1 <= Counts(lists)[index - 1])
<1>. DEFINE e == index
            c == lists[e][2].count
            b == lists[e - 1][2].count
            x1 == lists[e - 1][1].weight
            x2 == lists[e - 1][2].weight
<1>1. e \in 1 .. maxbits - 1 /\ e \in 0 .. maxbits - 1 /\ e - 1 \in 0 .. maxbits - 1 /\ e >= 1
  BY PoolIs
<1>2. ListInv(lists, e) /\ ListInv(lists, e - 1)
  BY <1>1, PoolIs
<1>3. numsymbols \in Nat /\ (\A k \in 1 .. numsymbols : W(k) \in Nat) /\ \A k, l \in 1 .. numsymbols : k <= l => W(k) <= W(l)
  BY PoolIs
<1>4. sum(e) = x1 + x2 /\ (c < numsymbols => ~(x1 + x2 > W(c + 1)))
  BY DEF LeafNext, sum, W
<1>5. Counts(lists)[e] = c /\ Counts(lists)[e - 1] = b
  BY <1>1 DEF Counts
<1>. HIDE DEF e
<1>6. /\ lists[e][1].weight \in Nat /\ lists[e][2].weight \in Nat /\ c \in 2 .. numsymbols
      /\ 0 < lists[e][1].weight /\ lists[e][1].weight <= lists[e][2].weight
      /\ W(c) <= lists[e][2].weight
      /\ lists[e][2].weight <= x1 + x2
  BY <1>1, <1>2 DEF ListInv
<1>7. x1 \in Nat /\ x2 \in Nat /\ 0 < x1 /\ b \in 2 .. numsymbols /\ W(b) <= x2
  BY <1>2 DEF ListInv
<1>. HIDE DEF c, b, x1, x2
<1>8. c \in 1 .. numsymbols /\ W(c) \in Nat /\ x1 + x2 \in Nat
  BY <1>3, <1>6, <1>7
<1>9. c < numsymbols => x1 + x2 <= W(c + 1) /\ W(c + 1) \in Nat /\ c + 1 \in 1 .. numsymbols
  <2>1. c < numsymbols => c + 1 \in 1 .. numsymbols
    BY <1>3, <1>8
  <2>. QED  BY <1>3, <1>4, <1>8, <2>1
<1>10. c < numsymbols => ~(c + 1 <= b)
  <2>1. SUFFICES ASSUME c < numsymbols, c + 1 <= b PROVE FALSE
    OBVIOUS
  <2>2. c + 1 \in 1 .. numsymbols /\ b \in 1 .. numsymbols
    BY <1>3, <1>7, <1>9, <2>1
  <2>3. W(c + 1) <= W(b) /\ W(b) \in Nat
    BY <1>3, <2>1, <2>2
  <2>. QED  BY <1>7, <1>9, <2>1, <2>3
<1>. QED  BY <1>4, <1>5, <1>6, <1>8, <1>9, <1>10 DEF e, c, b, x1, x2

\* a list after it has got the chain l, in place of its older one
LEMMA ListGrows ==
  ASSUME SortInv, PoolInv, pc = "runs", stackspace # <<>>, ~LeafNext(index), NEW lt, NEW l,
         lt[index] = l, l = <<oldchain, Package>>,
         lt[index - 1][1].weight \in Nat, lt[index - 1][2].weight \in Nat,
         lists[index - 1][1].weight <= lt[index - 1][1].weight, lists[index - 1][2].weight <= lt[index - 1][2].weight
  PROVE  /\ ListInv(lt, index) /\ l[2].count = lists[index][2].count
         /\ l[1].weight \in Nat /\ l[2].weight \in Nat
         /\ lists[index][1].weight <= l[1].weight /\ lists[index][2].weight <= l[2].weight
<1>. DEFINE e == index
            c == lists[e][2].count
            v == sum(e)
<1>1. /\ v \in Nat /\ lists[e][2].weight <= v
      /\ v = lists[e - 1][1].weight + lists[e - 1][2].weight
      /\ c < numsymbols => v <= W(c + 1)
      /\ lists[e][1].weight \in Nat /\ lists[e][2].weight \in Nat
      /\ 0 < lists[e][1].weight /\ lists[e][1].weight <= lists[e][2].weight
      /\ W(c) \in Nat /\ W(c) <= lists[e][2].weight /\ c \in 2 .. numsymbols
  BY PackageNext
<1>2. l[1] = lists[e][2] /\ l[2].weight = v /\ l[2].count = c
  BY DEF Package, Node, oldchain, lastcount
<1>3. lists[e - 1][1].weight \in Nat /\ lists[e - 1][2].weight \in Nat
  <2>1. ListInv(lists, e - 1)
    BY PoolIs
  <2>. QED  BY <2>1 DEF ListInv
<1>. DEFINE x1 == lists[e - 1][1].weight
            x2 == lists[e - 1][2].weight
            y1 == lt[e - 1][1].weight
            y2 == lt[e - 1][2].weight
<1>4. x1 \in Nat /\ x2 \in Nat /\ y1 \in Nat /\ y2 \in Nat /\ x1 <= y1 /\ x2 <= y2 /\ v = x1 + x2
  BY <1>1, <1>3
<1>5. lt[e] = l
  OBVIOUS
<1>. HIDE DEF e, x1, x2, y1, y2, v, c
<1>6. v <= y1 + y2
  BY <1>4
<1>7. 0 < lists[e][2].weight /\ W(c) <= v
  BY <1>1
<1>8. ListInv(lt, e)
  BY <1>1, <1>2, <1>5, <1>6, <1>7 DEF ListInv, y1, y2
<1>. QED  BY <1>1, <1>2, <1>8 DEF e, c

\* NewPackage: a list gets a package, and that below is to get two chains
LEMMA NewPackageStep ==
  ASSUME SortInv, PoolInv, NewPackage
  PROVE  PoolInv'
<1>. DEFINE e == index
            l == <<oldchain, Package>>
<1>1. /\ pc = "runs" /\ pc' = "runs" /\ leaves' = leaves /\ job' = job /\ i' = i
      /\ used' = used + 1 /\ lists' = [lists EXCEPT ![e] = l]
      /\ stackspace # <<>> /\ ~LeafNext(index) /\ index # 1 /\ Last(stackspace) # 1
      /\ stackspace' = TwoBelow(stackspace)
  BY DEF NewPackage, TwoBelow, index
<1>2. e = index /\ l = <<oldchain, Package>>
  OBVIOUS
<1>. HIDE DEF e, l
<1>3. e \in 1 .. maxbits - 1 /\ e \in 0 .. maxbits - 1 /\ e - 1 \in 0 .. maxbits - 1 /\ e \in Int /\ e - 1 # e
  BY <1>1, <1>2, PoolIs
<1>4. /\ DOMAIN lists' = 0 .. maxbits - 1 /\ lists'[e] = l
      /\ \A k \in 0 .. maxbits - 1 : k # e => lists'[k] = lists[k]
  BY <1>1, <1>3, PoolIs
<1>5. \A k \in 0 .. maxbits - 1 : ListInv(lists, k)
  BY <1>1, PoolIs
<1>6. \A k \in 0 .. maxbits - 1 : /\ lists[k][1].weight \in Nat /\ lists[k][2].weight \in Nat
                                  /\ lists[k][1].weight <= lists[k][1].weight /\ lists[k][2].weight <= lists[k][2].weight
  BY <1>5 DEF ListInv
<1>7. /\ ListInv(lists', e) /\ l[2].count = lists[e][2].count
      /\ l[1].weight \in Nat /\ l[2].weight \in Nat
      /\ lists[e][1].weight <= l[1].weight /\ lists[e][2].weight <= l[2].weight
  <2>1. lists'[e - 1] = lists[e - 1]
    BY <1>3, <1>4
  <2>2. /\ lists'[e - 1][1].weight \in Nat /\ lists'[e - 1][2].weight \in Nat
        /\ lists[e - 1][1].weight <= lists'[e - 1][1].weight /\ lists[e - 1][2].weight <= lists'[e - 1][2].weight
    BY <1>3, <1>6, <2>1
  <2>. QED  BY <1>1, <1>2, <1>4, <2>2, ListGrows, ZenonT(60)
<1>8. ASSUME NEW k \in 0 .. maxbits - 1 PROVE ListInv(lists', k)
  <2>1. CASE k = e
    BY <1>7, <2>1
  <2>2. CASE k = e + 1
    <3>1. k \in Nat /\ k >= 1 /\ k - 1 = e /\ k # e
      BY <1>3, <2>2
    <3>2. ListInv(lists, k) /\ lists'[k] = lists[k]
      BY <1>4, <1>5, <3>1
    <3>3. lists'[k - 1] = l /\ lists[k - 1] = lists[e]
      BY <1>4, <3>1
    <3>4. lists[e][1].weight \in Nat /\ lists[e][2].weight \in Nat
      BY <1>3, <1>6
    <3>. QED  BY <1>7, <3>1, <3>2, <3>3, <3>4, ListAbove
  <2>3. CASE k # e /\ k # e + 1
    <3>1. k >= 1 => k - 1 \in 0 .. maxbits - 1 /\ k - 1 # e
      <4>1. maxbits \in Nat
        BY <1>1, PoolIs
      <4>. QED  BY <1>3, <2>3, <4>1
    <3>2. lists'[k] = lists[k] /\ (k >= 1 => lists'[k - 1] = lists[k - 1])
      BY <1>4, <2>3, <3>1
    <3>. QED  BY <1>5, <3>2 DEF ListInv
  <2>. QED  BY <2>1, <2>2, <2>3
<1>9. Counts(lists') = Counts(lists)
  <2>1. \A k \in 0 .. maxbits - 1 : lists'[k][2].count = lists[k][2].count
    BY <1>4, <1>7
  <2>. QED  BY <2>1 DEF Counts
<1>10. IsUsed(Counts(lists'), stackspace', i', used')
  <2>1. /\ maxbits \in 2 .. 15 /\ numsymbols \in Nat /\ IsStack(stackspace, maxbits) /\ i \in Int
        /\ IsUsed(Counts(lists), stackspace, i, used)
    BY <1>1, PoolIs
  <2>2. Counts(lists)[Last(stackspace)] < numsymbols => ~(Counts(lists)[Last(stackspace)] + 1 <= Counts(lists)[Last(stackspace) - 1])
    BY <1>1, PackageNext DEF index
  <2>3. IsUsed(Counts(lists), TwoBelow(stackspace), i, used + 1)
    BY <1>1, <2>1, <2>2, AccountsOfPackage
  <2>. QED  BY <1>1, <1>9, <2>3
<1>11. IsStack(stackspace', maxbits)
  <2>1. maxbits \in Nat /\ IsStack(stackspace, maxbits)
    BY <1>1, PoolIs
  <2>. QED  BY <1>1, <2>1, TwoPushed
<1>12. i' \in 0 .. numBoundaryPMRuns - 1
  BY <1>1, PoolIs
<1>. QED  BY <1>1, <1>4, <1>8, <1>10, <1>11, <1>12, PoolKept

\* the lowest list with the next leaves
LEMMA NextLeavesAre ==
  ASSUME SortInv, PoolInv, pc = "runs", NEW z, z = NextLeaves(lists[0])
  PROVE  /\ z[1].weight \in Nat /\ z[2].weight \in Nat /\ z[2].count \in 2 .. numsymbols
         /\ 0 < z[1].weight /\ z[1].weight <= z[2].weight
         /\ W(z[2].count) <= z[2].weight
         /\ z[2].count < numsymbols => z[2].weight <= W(z[2].count + 1)
         /\ lists[0][1].weight <= z[1].weight /\ lists[0][2].weight <= z[2].weight
         /\ z[2].count - lists[0][2].count =
              IF lists[0][2].count + 2 < numsymbols THEN 2 ELSE numsymbols - lists[0][2].count
<1>. DEFINE l == lists[0]
            c == l[2].count
            n == numsymbols
<1>1. n \in Nat /\ (\A k \in 1 .. n : W(k) \in Nat /\ W(k) > 0) /\ \A k, m \in 1 .. n : k <= m => W(k) <= W(m)
  BY PoolIs
<1>2. /\ l[1].weight \in Nat /\ l[2].weight \in Nat /\ c \in 2 .. n
      /\ 0 < l[1].weight /\ l[1].weight <= l[2].weight
      /\ W(c) <= l[2].weight
      /\ c < n => l[2].weight <= W(c + 1)
  <2>1. 0 \in 0 .. maxbits - 1
    BY PoolIs
  <2>2. ListInv(lists, 0)
    BY <2>1, PoolIs
  <2>. QED  BY <2>2 DEF ListInv
<1>3. c \in Int /\ c \in 1 .. n /\ n \in Int /\ 2 <= c /\ c <= n
  BY <1>1, <1>2
<1>4. CASE c >= n
  <2>1. z = l
    <3>1. ~(c = n - 1) /\ ~(c < n - 1)
      BY <1>3, <1>4
    <3>. QED  BY <1>4, <3>1 DEF NextLeaves
  <2>. HIDE DEF c, n
  <2>2. c - c = IF c + 2 < n THEN 2 ELSE n - c
    BY <1>3, <1>4
  <2>3. c = l[2].count
    BY DEF c
  <2>. HIDE DEF l
  <2>4. l[1].weight <= l[1].weight /\ l[2].weight <= l[2].weight
    BY <1>2
  <2>. QED  BY <1>2, <2>1, <2>2, <2>3, <2>4 DEF l, c, n
<1>5. CASE c = n - 1
  <2>1. z[1] = l[2] /\ z[2].weight = W(n) /\ z[2].count = n
    <3>1. ~(c >= n) /\ ~(c < n - 1)
      BY <1>3, <1>5
    <3>2. z = <<l[2], Leaf(n, <<>>)>>
      BY <1>5, <3>1 DEF NextLeaves
    <3>. QED  BY <3>2 DEF Leaf, Node, W
  <2>. HIDE DEF c, n
  <2>2. n - c = IF c + 2 < n THEN 2 ELSE n - c
    BY <1>3, <1>5
  <2>3. n \in 1 .. n /\ n \in 2 .. n /\ c + 1 = n /\ c < n /\ ~(n < n)
    BY <1>3, <1>5
  <2>4. W(n) \in Nat /\ W(n) <= W(n) /\ l[2].weight <= W(n)
    BY <1>1, <1>2, <2>3
  <2>5. 0 < l[2].weight
    BY <1>2
  <2>. QED  BY <1>2, <2>1, <2>2, <2>3, <2>4, <2>5 DEF c, n
<1>6. CASE c < n - 1
  <2>1. z[1].weight = W(c + 1) /\ z[2].weight = W(c + 2) /\ z[2].count = c + 2
    <3>1. ~(c >= n) /\ ~(c = n - 1)
      BY <1>3, <1>6
    <3>2. z = <<Leaf(c + 1, <<>>), Leaf(c + 2, <<>>)>>
      BY <1>6, <3>1 DEF NextLeaves
    <3>. QED  BY <3>2 DEF Leaf, Node, W
  <2>. HIDE DEF c, n
  <2>2. (c + 2) - c = IF c + 2 < n THEN 2 ELSE n - c
    BY <1>3, <1>6
  <2>3. /\ c + 1 \in 1 .. n /\ c + 2 \in 1 .. n /\ c + 2 \in 2 .. n /\ c < n /\ c + 1 <= c + 2
        /\ c + 2 < n => (c + 2) + 1 \in 1 .. n /\ c + 2 <= (c + 2) + 1
    BY <1>3, <1>6
  <2>4. /\ W(c + 1) \in Nat /\ W(c + 1) > 0 /\ W(c + 2) \in Nat /\ W(c + 1) <= W(c + 2) /\ W(c + 2) <= W(c + 2)
        /\ l[2].weight <= W(c + 1)
        /\ c + 2 < n => W(c + 2) <= W((c + 2) + 1)
    BY <1>1, <1>2, <2>3
  <2>5. l[1].weight <= W(c + 1) /\ l[2].weight <= W(c + 2)
    BY <1>2, <2>4
  <2>. QED  BY <1>2, <2>1, <2>2, <2>3, <2>4, <2>5 DEF c, n
<1>. QED  BY <1>3, <1>4, <1>5, <1>6

\* LowestPackage: the lowest list but one gets a package, the lowest one the next leaves
LEMMA LowestPackageStep ==
  ASSUME SortInv, PoolInv, LowestPackage
  PROVE  PoolInv'
<1>. DEFINE l == <<oldchain, Package>>
            z == NextLeaves(lists[0])
            x == z[2].count - lists[0][2].count
<1>1. /\ pc = "runs" /\ pc' = "runs" /\ leaves' = leaves /\ job' = job /\ i' = i
      /\ lists' = [lists EXCEPT ![1] = l, ![0] = NextLeaves(@)]
      /\ stackspace # <<>> /\ ~LeafNext(index) /\ index = 1 /\ Last(stackspace) = 1
      /\ stackspace' = Front(stackspace)
      /\ used' = used + 1 + z[2].count - lists[0][2].count
  BY DEF LowestPackage, index
<1>2. l = <<oldchain, Package>> /\ z = NextLeaves(lists[0]) /\ x = z[2].count - lists[0][2].count
  OBVIOUS
<1>. HIDE DEF l, z, x
<1>3. /\ maxbits \in 2 .. 15 /\ maxbits \in Nat /\ numsymbols \in Nat
      /\ 0 \in 0 .. maxbits - 1 /\ 1 \in 0 .. maxbits - 1 /\ DOMAIN lists = 0 .. maxbits - 1
  <2>1. maxbits \in Nat /\ maxbits >= 2
    BY <1>1, PoolIs
  <2>. QED  BY <1>1, <2>1, PoolIs
<1>4. /\ DOMAIN lists' = 0 .. maxbits - 1 /\ lists'[1] = l /\ lists'[0] = z
      /\ \A k \in 0 .. maxbits - 1 : k # 0 /\ k # 1 => lists'[k] = lists[k]
  BY <1>1, <1>2, <1>3
<1>5. \A k \in 0 .. maxbits - 1 : ListInv(lists, k)
  BY <1>1, PoolIs
<1>6. \A k \in 0 .. maxbits - 1 : lists[k][1].weight \in Nat /\ lists[k][2].weight \in Nat /\ lists[k][2].count \in Int
  BY <1>5 DEF ListInv
<1>7. /\ z[1].weight \in Nat /\ z[2].weight \in Nat /\ z[2].count \in 2 .. numsymbols
      /\ 0 < z[1].weight /\ z[1].weight <= z[2].weight
      /\ W(z[2].count) <= z[2].weight
      /\ z[2].count < numsymbols => z[2].weight <= W(z[2].count + 1)
      /\ lists[0][1].weight <= z[1].weight /\ lists[0][2].weight <= z[2].weight
      /\ x = IF lists[0][2].count + 2 < numsymbols THEN 2 ELSE numsymbols - lists[0][2].count
  BY <1>1, <1>2, NextLeavesAre
<1>8. /\ ListInv(lists', 1) /\ l[2].count = lists[1][2].count
      /\ l[1].weight \in Nat /\ l[2].weight \in Nat
      /\ lists[1][1].weight <= l[1].weight /\ lists[1][2].weight <= l[2].weight
  <2>1. lists'[index] = l /\ index - 1 = 0 /\ lists'[index - 1] = z
    BY <1>1, <1>4
  <2>. QED  BY <1>1, <1>2, <1>7, <2>1, ListGrows
<1>9. ASSUME NEW k \in 0 .. maxbits - 1 PROVE ListInv(lists', k)
  <2>1. CASE k = 1
    BY <1>8, <2>1
  <2>2. CASE k = 0
    <3>1. ListInv(lists', 0)
      BY <1>4, <1>7 DEF ListInv
    <3>. QED  BY <2>2, <3>1
  <2>3. CASE k = 2
    <3>1. k \in Nat /\ k >= 1 /\ k - 1 = 1
      BY <2>3
    <3>2. ListInv(lists, k) /\ lists'[k] = lists[k]
      BY <1>4, <1>5, <2>3
    <3>3. lists'[k - 1] = l /\ lists[k - 1] = lists[1]
      BY <1>4, <3>1
    <3>4. lists[1][1].weight \in Nat /\ lists[1][2].weight \in Nat
      BY <1>3, <1>6
    <3>. QED  BY <1>8, <3>1, <3>2, <3>3, <3>4, ListAbove
  <2>4. CASE k # 0 /\ k # 1 /\ k # 2
    <3>1. k - 1 \in 0 .. maxbits - 1 /\ k - 1 # 0 /\ k - 1 # 1
      BY <1>3, <2>4
    <3>2. lists'[k] = lists[k] /\ lists'[k - 1] = lists[k - 1]
      BY <1>4, <2>4, <3>1
    <3>. QED  BY <1>5, <3>2 DEF ListInv
  <2>. QED  BY <2>1, <2>2, <2>3, <2>4
<1>10. Further(Counts(lists), Counts(lists'), 0, x) /\ x \in Int
  <2>1. \A k \in 0 .. maxbits - 1 : Counts(lists)[k] = lists[k][2].count /\ Counts(lists')[k] = lists'[k][2].count
    BY DEF Counts
  <2>2. IsCounts(Counts(lists'))
    BY <1>9 DEF IsCounts, Counts, ListInv
  <2>3. z[2].count \in Int /\ lists[0][2].count \in Int
    BY <1>3, <1>6, <1>7
  <2>4. x \in Int /\ z[2].count = lists[0][2].count + x
    BY <1>2, <2>3
  <2>5. Counts(lists')[0] = Counts(lists)[0] + x
    BY <1>3, <1>4, <2>1, <2>4
  <2>6. \A k \in 0 .. maxbits - 1 : k # 0 => Counts(lists')[k] = Counts(lists)[k]
    BY <1>4, <1>8, <2>1
  <2>. QED  BY <2>2, <2>4, <2>5, <2>6 DEF Further
<1>11. IsUsed(Counts(lists'), stackspace', i', used')
  <2>1. /\ IsStack(stackspace, maxbits) /\ i \in Int /\ IsUsed(Counts(lists), stackspace, i, used)
    BY <1>1, PoolIs
  <2>2. Counts(lists)[1] < numsymbols => ~(Counts(lists)[1] + 1 <= Counts(lists)[0])
    <3>1. 1 - 1 = 0
      OBVIOUS
    <3>. QED  BY <1>1, <3>1, PackageNext
  <2>3. x = IF Counts(lists)[0] + 2 < numsymbols THEN 2 ELSE numsymbols - Counts(lists)[0]
    <3>1. Counts(lists)[0] = lists[0][2].count
      BY <1>3 DEF Counts
    <3>. QED  BY <1>7, <3>1
  <2>4. IsUsed(Counts(lists'), Front(stackspace), i, used + 1 + x)
    BY <1>1, <1>3, <1>10, <2>1, <2>2, <2>3, AccountsOfLowest
  <2>5. used' = used + 1 + x
    BY <1>1, <1>2
  <2>. QED  BY <1>1, <2>4, <2>5
<1>12. IsStack(stackspace', maxbits)
  BY <1>1, PoolIs, Popped
<1>13. i' \in 0 .. numBoundaryPMRuns - 1
  BY <1>1, PoolIs
<1>. QED  BY <1>1, <1>4, <1>9, <1>11, <1>12, <1>13, PoolKept

\* before anything is made
LEMMA PoolStarts == Init => PoolInv
BY DEF Init, PoolInv

\* every step keeps the accounts
LEMMA PoolPreserved ==
  ASSUME SortInv, PoolInv, [Next]_vars
  PROVE  PoolInv'
<1>1. CASE /\ pc \notin {"runs", "done"} /\ pc' # "runs" /\ stackspace' = stackspace
  BY <1>1 DEF PoolInv
<1>2. CASE pc' = "done"
  BY <1>2 DEF PoolInv
<1>3. CASE Count \/ StartSort \/ EndSort \/ StartInsertion \/ Insert
  BY <1>1, <1>3 DEF Count, StartSort, EndSort, StartInsertion, Insert, merging
<1>4. CASE EndInsertion \/ EndHeap
  BY <1>1, <1>4 DEF EndInsertion, EndHeap, Finished, merging
<1>5. CASE StartHeap \/ Build \/ EndBuild \/ Extract \/ Sink
  BY <1>1, <1>5 DEF StartHeap, Build, EndBuild, Extract, Sink, merging
<1>6. CASE EndHeapify \/ StartPartition \/ Exchange \/ EndPartition
  BY <1>1, <1>6 DEF EndHeapify, StartPartition, Exchange, EndPartition, merging
<1>7. CASE Few \/ Finish
  BY <1>2, <1>7 DEF Few, Finish
<1>8. CASE InitLists
  BY <1>8, InitListsStep
<1>9. CASE StartRun
  BY <1>9, StartRunStep
<1>10. CASE NewLeaf
  BY <1>10, NewLeafStep
<1>11. CASE NewPackage
  BY <1>11, NewPackageStep
<1>12. CASE LowestPackage
  BY <1>12, LowestPackageStep
<1>13. CASE UNCHANGED vars
  <2>1. /\ job' = job /\ pc' = pc /\ leaves' = leaves /\ i' = i
        /\ lists' = lists /\ used' = used /\ stackspace' = stackspace
    BY <1>13 DEF vars, merging
  <2>2. CASE pc = "runs"
    <3>1. /\ i' \in 0 .. numBoundaryPMRuns - 1
          /\ DOMAIN lists' = 0 .. maxbits - 1 /\ \A k \in 0 .. maxbits - 1 : ListInv(lists', k)
          /\ IsStack(stackspace', maxbits) /\ IsUsed(Counts(lists'), stackspace', i', used')
      BY <2>1, <2>2, PoolIs
    <3>. QED  BY <2>1, <2>2, <3>1, PoolKept
  <2>3. CASE pc # "runs"
    BY <2>1, <2>3 DEF PoolInv
  <2>. QED  BY <2>2, <2>3
<1>. QED
  BY <1>3, <1>4, <1>5, <1>6, <1>7, <1>8, <1>9, <1>10, <1>11, <1>12, <1>13 DEF Next, Stopped

\* What has been taken from the pool can be told from the leaves that each list
\* has come to: a package uses up two chains of the list below, for which one new
\* chain is made each, and no list has more packages than leaves.
THEOREM PoolIsAccounted == Spec => []PoolInv
<1>1. Init => PoolInv
  BY PoolStarts
<1>2. SortInv /\ PoolInv /\ [Next]_vars => PoolInv'
  BY PoolPreserved
<1>. QED  BY <1>1, <1>2, SortIsInvariant, PTL DEF Spec

\* The pool of 2 * maxbits * numsymbols nodes, which the code calls the theoretical
\* maximum, and the stack of 16 lists have room for each step, for all frequencies
\* and both limits, 7 and 15 bits.
THEOREM PoolSuffices == Spec => []MemorySuffices
<1>1. SortInv /\ PoolInv => MemorySuffices
  <2>1. SUFFICES ASSUME SortInv, PoolInv, pc = "runs"
                 PROVE  used + 1 <= 2 * maxbits * numsymbols /\ Len(stackspace) <= 16
    BY DEF MemorySuffices
  <2>2. /\ maxbits \in 2 .. 15 /\ maxbits \in Nat /\ numsymbols \in Nat /\ numsymbols > 2
        /\ i \in 0 .. numBoundaryPMRuns - 1 /\ numBoundaryPMRuns = 2 * numsymbols - 4 /\ i \in Int
        /\ IsStack(stackspace, maxbits) /\ IsUsed(Counts(lists), stackspace, i, used)
    BY <2>1, PoolIs
  <2>3. i <= 2 * numsymbols - 5
    BY <2>2
  <2>4. used + 1 <= 2 * maxbits * numsymbols
    BY <2>2, <2>3, NodesFit
  <2>5. Len(stackspace) <= 16
    <3>. DEFINE s == stackspace
    <3>1. s \in Seq(1 .. maxbits - 1) /\ \A x \in 1 .. Len(s) : s[x] <= maxbits - x \/ (x > 1 /\ x = Len(s) /\ s[x] <= maxbits - x + 1)
      BY <2>2 DEF IsStack
    <3>2. Len(s) \in Nat /\ \A x \in 1 .. Len(s) : s[x] \in 1 .. maxbits - 1
      <4>. DEFINE R == 1 .. maxbits - 1
      <4>1. s \in Seq(R)
        BY <3>1
      <4>. HIDE DEF R, s
      <4>2. Len(s) \in Nat /\ \A x \in 1 .. Len(s) : s[x] \in R
        BY <4>1, LenProperties, ElementOfSeq
      <4>. QED  BY <4>2 DEF R
    <3>. HIDE DEF s
    <3>3. CASE Len(s) >= 1
      <4>1. Len(s) \in 1 .. Len(s)
        BY <3>2, <3>3
      <4>2. s[Len(s)] \in Int /\ s[Len(s)] >= 1 /\ s[Len(s)] <= maxbits - Len(s) + 1
        BY <2>2, <3>1, <3>2, <4>1
      <4>3. Len(s) <= maxbits
        BY <2>2, <3>2, <4>2
      <4>. QED  BY <2>2, <3>2, <4>3 DEF s
    <3>4. CASE ~(Len(s) >= 1)
      BY <3>2, <3>4 DEF s
    <3>. QED  BY <3>3, <3>4
  <2>. QED  BY <2>4, <2>5
<1>. QED  BY <1>1, SortIsInvariant, PoolIsAccounted, PTL
-----------------------------------------------------------------------------
(* The lengths *)

\* No chain is longer than the lists it can come from, and no length is written before the end.
LengthsInv ==
  /\ pc # "done" => bitlengths = [s \in DOMAIN job.freq |-> 0]
  /\ pc = "runs" => \A k \in 0 .. maxbits - 1 : lists[k][2].tail \in Seq(Nat) /\ Len(lists[k][2].tail) <= k
  /\ WithinLimit /\ HeavierNotLonger

\* a chain with one more node
LEMMA ChainGrows ==
  ASSUME NEW n \in Nat, NEW t \in Seq(Nat)
  PROVE  <<n>> \o t \in Seq(Nat) /\ Len(<<n>> \o t) = Len(t) + 1 /\ (<<n>> \o t)[1] = n
<1>1. <<n>> \in Seq(Nat) /\ Len(<<n>>) = 1 /\ <<n>>[1] = n
  OBVIOUS
<1>2. Len(t) \in Nat
  BY LenProperties
<1>3. 1 \in 1 .. 1 + Len(t)
  BY <1>2
<1>. QED  BY <1>1, <1>2, <1>3, ConcatProperties

\* the arithmetic of the last turn: a leaves and p packages, and b and q in the list below
LEMMA LastTurn ==
  ASSUME NEW n \in Int, n > 2, NEW a \in Int, NEW p \in Int, NEW b \in Int, NEW q \in Int,
         a <= n, b <= n, a - 2 + p + 0 = 2 * n - 5, a > p \/ a = n,
         \/ b - 2 + q + 0 = 2 * p /\ (b > q \/ b = n)
         \/ b = IF 2 + 2 * p < n THEN 2 + 2 * p ELSE n
  PROVE  a = n \/ (a = n - 1 /\ b = n)
OBVIOUS

\* After the last turn but one the highest list has all leaves, or lacks one and the list below has all.
LEMMA AccountsAtEnd ==
  ASSUME maxbits \in 2 .. 15, numsymbols \in Nat, numsymbols > 2, NEW c, NEW u, IsUsed(c, <<>>, 2 * numsymbols - 5, u)
  PROVE  \/ c[maxbits - 1] = numsymbols
         \/ c[maxbits - 1] = numsymbols - 1 /\ c[maxbits - 2] = numsymbols
<1>. DEFINE n == numsymbols
            e == maxbits - 1
            d == maxbits - 2
<1>1. PICK p, S : Accounts(c, <<>>, p, S) /\ Top(c, <<>>, p, 2 * n - 5)
  BY DEF IsUsed
<1>2. e \in 0 .. maxbits - 1 /\ e \in 1 .. maxbits - 1 /\ d \in 0 .. maxbits - 1 /\ e = d + 1 /\ maxbits - 1 \in Nat /\ n \in Int
  OBVIOUS
<1>3. \A k : Pending(<<>>, k) = 0
  <2>1. maxbits \in Nat /\ 1 \in 1 .. maxbits - 1
    OBVIOUS
  <2>. QED  BY <2>1, OnePushed
<1>4. c[e] \in 2 .. n /\ c[d] \in 2 .. n /\ p[e] \in Nat /\ p[d] \in Nat
  <2>1. c \in [0 .. maxbits - 1 -> 2 .. n] /\ p \in [0 .. maxbits - 1 -> Nat]
    BY <1>1 DEF Accounts, IsCounts
  <2>. HIDE DEF e, d, n
  <2>. QED  BY <1>2, <2>1
<1>5. c[e] - 2 + p[e] + 0 = 2 * n - 5
  BY <1>1, <1>3 DEF Top
<1>6. c[e] > p[e] \/ c[e] = n
  BY <1>1, <1>2 DEF Accounts
<1>7. n \in Int /\ n > 2 /\ c[e] \in Int /\ c[d] \in Int /\ p[e] \in Int /\ p[d] \in Int /\ c[e] <= n /\ c[d] <= n
  <2>1. n > 2
    OBVIOUS
  <2>. HIDE DEF e, d, n
  <2>. QED  BY <1>2, <1>4, <2>1
<1>8. CASE d = 0
  <2>1. c[0] = IF 2 + 2 * p[1] < n THEN 2 + 2 * p[1] ELSE n
    BY <1>1 DEF Accounts
  <2>2. e = 1
    BY <1>2, <1>8
  <2>3. c[d] = IF 2 + 2 * p[e] < n THEN 2 + 2 * p[e] ELSE n
    BY <1>8, <2>1, <2>2
  <2>. HIDE DEF e, d, n
  <2>4. c[e] = n \/ (c[e] = n - 1 /\ c[d] = n)
    BY <1>5, <1>6, <1>7, <2>3, LastTurn
  <2>. QED  BY <2>4 DEF e, d, n
<1>9. CASE d # 0
  <2>1. d \in 1 .. maxbits - 2 /\ d \in 1 .. maxbits - 1
    BY <1>2, <1>9
  <2>2. c[d] - 2 + p[d] + Pending(<<>>, d) = 2 * p[d + 1] /\ (c[d] > p[d] \/ c[d] = n)
    <3>. HIDE DEF d
    <3>. QED  BY <1>1, <2>1 DEF Accounts
  <2>3. c[d] - 2 + p[d] + 0 = 2 * p[e]
    <3>. HIDE DEF d, e
    <3>. QED  BY <1>2, <1>3, <2>2
  <2>4. c[d] > p[d] \/ c[d] = n
    BY <2>2
  <2>. HIDE DEF e, d, n
  <2>5. c[e] = n \/ (c[e] = n - 1 /\ c[d] = n)
    BY <1>5, <1>6, <1>7, <2>3, <2>4, LastTurn
  <2>. QED  BY <2>5 DEF e, d, n
<1>. QED  BY <1>8, <1>9

\* The final chain is as long as there are lists at most, and all leaves are in use in the first one.
LEMMA FinalChainIs ==
  ASSUME SortInv, PoolInv, LengthsInv, pc = "runs", stackspace = <<>>, i >= numBoundaryPMRuns - 1
  PROVE  FinalChain \in Seq(Nat) /\ Len(FinalChain) \in 1 .. maxbits /\ FinalChain[1] = numsymbols
<1>. DEFINE k == maxbits - 1
            n == numsymbols
            x == lists[k][2]
            y == lists[k - 1][2]
<1>1. /\ maxbits \in 2 .. 15 /\ n \in Nat /\ n > 2 /\ k \in 0 .. maxbits - 1 /\ k - 1 \in 0 .. maxbits - 1
      /\ k - 1 = maxbits - 2 /\ k >= 1 /\ k \in Int
      /\ ListInv(lists, k) /\ ListInv(lists, k - 1) /\ W(n) \in Nat
  <2>1. maxbits \in 2 .. 15 /\ n \in Nat /\ n > 2
    BY PoolIs
  <2>2. k \in 0 .. maxbits - 1 /\ k - 1 \in 0 .. maxbits - 1 /\ k - 1 = maxbits - 2 /\ k >= 1 /\ k \in Int /\ n \in 1 .. n
    BY <2>1
  <2>. HIDE DEF k
  <2>. QED  BY <2>1, <2>2, PoolIs
<1>2. x.count \in Nat /\ x.tail \in Seq(Nat) /\ Len(x.tail) <= k /\ y.count \in Nat /\ y.tail \in Seq(Nat) /\ Len(y.tail) <= k - 1
  <2>1. x.count \in 2 .. n /\ y.count \in 2 .. n
    BY <1>1 DEF ListInv
  <2>2. \A j \in 0 .. maxbits - 1 : lists[j][2].tail \in Seq(Nat) /\ Len(lists[j][2].tail) <= j
    BY DEF LengthsInv
  <2>3. x.tail \in Seq(Nat) /\ Len(x.tail) <= k /\ y.tail \in Seq(Nat) /\ Len(y.tail) <= k - 1
    <3>. HIDE DEF k
    <3>. QED  BY <1>1, <2>2
  <2>4. x.count \in Nat /\ y.count \in Nat
    <3>. HIDE DEF x, y
    <3>. QED  BY <1>1, <2>1
  <2>. QED  BY <2>3, <2>4
<1>3. Len(x.tail) \in Nat /\ Len(y.tail) \in Nat
  <2>. HIDE DEF x, y
  <2>. QED  BY <1>2, LenProperties
<1>4. x.count = n \/ (x.count = n - 1 /\ y.count = n)
  <2>1. i = 2 * n - 5 /\ IsUsed(Counts(lists), <<>>, i, used)
    <3>1. /\ i \in 0 .. numBoundaryPMRuns - 1 /\ numBoundaryPMRuns = 2 * n - 4 /\ i \in Int
          /\ IsUsed(Counts(lists), <<>>, i, used)
      BY PoolIs
    <3>. QED  BY <1>1, <3>1
  <2>2. Counts(lists)[k] = x.count /\ Counts(lists)[k - 1] = y.count
    <3>. HIDE DEF k
    <3>. QED  BY <1>1 DEF Counts
  <2>3. Counts(lists)[maxbits - 1] = n \/ (Counts(lists)[maxbits - 1] = n - 1 /\ Counts(lists)[maxbits - 2] = n)
    BY <1>1, <2>1, AccountsAtEnd
  <2>4. k = maxbits - 1 /\ k - 1 = maxbits - 2
    BY <1>1
  <2>. HIDE DEF k, x, y, n
  <2>. QED  BY <2>2, <2>3, <2>4
<1>5. FinalChain = IF LeafNext(k) THEN <<x.count + 1>> \o x.tail ELSE <<x.count>> \o (<<y.count>> \o y.tail)
  BY DEF FinalChain, Chain
<1>6. LeafNext(k) <=> x.count = n - 1
  <2>1. LeafNext(k) <=> x.count < n /\ lists[k - 1][1].weight + y.weight > W(x.count + 1)
    BY DEF LeafNext, sum, W
  <2>2. lists[k - 1][1].weight \in Nat /\ 0 < lists[k - 1][1].weight /\ y.weight \in Nat /\ W(y.count) <= y.weight
    BY <1>1 DEF ListInv
  <2>. HIDE DEF k, x, y, n
  <2>3. CASE x.count = n
    BY <1>1, <2>1, <2>3
  <2>4. CASE x.count = n - 1 /\ y.count = n
    <3>1. x.count < n /\ x.count + 1 = n /\ W(n) <= y.weight
      BY <1>1, <2>2, <2>4
    <3>2. lists[k - 1][1].weight + y.weight > W(n)
      <4>. DEFINE a == lists[k - 1][1].weight
                  b == y.weight
                  w == W(n)
      <4>1. a \in Nat /\ 0 < a /\ b \in Nat /\ w \in Nat /\ w <= b
        BY <1>1, <2>2, <3>1
      <4>. HIDE DEF a, b, w
      <4>2. a + b > w
        BY <4>1
      <4>. QED  BY <4>2 DEF a, b, w
    <3>. QED  BY <2>1, <2>4, <3>1, <3>2
  <2>. QED  BY <1>4, <2>3, <2>4
<1>. HIDE DEF k, x, y, n
<1>7. CASE LeafNext(k)
  <2>1. x.count + 1 = n /\ x.count + 1 \in Nat
    <3>1. x.count = n - 1
      BY <1>6, <1>7
    <3>2. n \in Nat
      BY <1>1
    <3>. QED  BY <3>1, <3>2
  <2>2. FinalChain = <<x.count + 1>> \o x.tail
    BY <1>5, <1>7
  <2>3. FinalChain \in Seq(Nat) /\ Len(FinalChain) = Len(x.tail) + 1 /\ FinalChain[1] = n
    BY <1>2, <2>1, <2>2, ChainGrows
  <2>4. Len(FinalChain) \in 1 .. maxbits
    <3>1. k = maxbits - 1
      BY DEF k
    <3>. QED  BY <1>1, <1>2, <1>3, <2>3, <3>1
  <2>. QED  BY <2>3, <2>4 DEF n
<1>8. CASE ~LeafNext(k)
  <2>1. x.count = n
    BY <1>4, <1>6, <1>8
  <2>. DEFINE t == <<y.count>> \o y.tail
  <2>2. t \in Seq(Nat) /\ Len(t) = Len(y.tail) + 1
    BY <1>2, ChainGrows
  <2>3. FinalChain = <<x.count>> \o t
    BY <1>5, <1>8
  <2>. HIDE DEF t
  <2>4. FinalChain \in Seq(Nat) /\ Len(FinalChain) = Len(t) + 1 /\ FinalChain[1] = n
    BY <1>2, <2>1, <2>2, <2>3, ChainGrows
  <2>5. Len(FinalChain) \in 1 .. maxbits
    <3>1. k = maxbits - 1
      BY DEF k
    <3>. QED  BY <1>1, <1>2, <1>3, <2>2, <2>4, <3>1
  <2>. QED  BY <2>4, <2>5 DEF n
<1>. QED  BY <1>7, <1>8

\* the first list of the chain in which the leaf k is no longer in use
Lengths(chain, k) == {v \in 1 .. Len(chain) : Append(chain, 0)[v + 1] < k}

\* Each leaf has such a list, and a later one has it no later.
LEMMA LengthIs ==
  ASSUME NEW chain \in Seq(Nat), Len(chain) >= 1
  PROVE  /\ \A k \in Nat : k >= 1 => Min(Lengths(chain, k)) \in 1 .. Len(chain)
         /\ \A k, l \in Nat : 1 <= k /\ k <= l => Min(Lengths(chain, l)) <= Min(Lengths(chain, k))
<1>. DEFINE n == Len(chain)
            b == Append(chain, 0)
<1>1. n \in Nat /\ n >= 1
  BY LenProperties
<1>2. \A v \in 1 .. n : b[v + 1] \in Int
  <2>1. 0 \in Nat
    OBVIOUS
  <2>2. b \in Seq(Nat) /\ Len(b) = n + 1
    BY <2>1, AppendProperties
  <2>. HIDE DEF b, n
  <2>3. \A v \in 1 .. n : v + 1 \in 1 .. Len(b)
    BY <1>1, <2>2
  <2>4. \A v \in 1 .. n : b[v + 1] \in Nat
    BY <2>2, <2>3, ElementOfSeq
  <2>. QED  BY <2>4
<1>3. b[n + 1] = 0
  <2>1. 0 \in Nat
    OBVIOUS
  <2>. QED  BY <2>1, AppendProperties
<1>4. \A k : Lengths(chain, k) = {v \in 1 .. n : b[v + 1] < k}
  BY DEF Lengths
<1>. HIDE DEF n, b
<1>5. ASSUME NEW k \in Nat, k >= 1
      PROVE  Min(Lengths(chain, k)) \in Lengths(chain, k) /\ \A v \in Lengths(chain, k) : Min(Lengths(chain, k)) <= v
  <2>1. n \in Lengths(chain, k) /\ Lengths(chain, k) \subseteq Nat
    <3>1. n \in 1 .. n /\ b[n + 1] < k
      BY <1>1, <1>3, <1>5
    <3>2. 1 .. n \subseteq Nat
      BY <1>1
    <3>. QED  BY <1>4, <3>1, <3>2
  <2>2. \E m \in Lengths(chain, k) : \A v \in Lengths(chain, k) : m <= v
    BY <2>1, LeastExists
  <2>. QED  BY <2>2 DEF Min
<1>6. ASSUME NEW k \in Nat, k >= 1 PROVE Min(Lengths(chain, k)) \in 1 .. n
  BY <1>4, <1>5, <1>6
<1>7. ASSUME NEW k \in Nat, NEW l \in Nat, 1 <= k, k <= l PROVE Min(Lengths(chain, l)) <= Min(Lengths(chain, k))
  <2>1. Lengths(chain, k) \subseteq Lengths(chain, l) /\ l >= 1
    BY <1>2, <1>4, <1>7
  <2>. QED  BY <1>5, <1>7, <2>1
<1>. QED  BY <1>6, <1>7 DEF n

\* where the symbol s has its leaf
Place(s) == CHOOSE k \in 1 .. numsymbols : leaves[k].count = s

\* Each symbol that occurs has one leaf, and that of a heavier one is further on.
LEMMA PlacesAre ==
  ASSUME SortInv, pc = "runs"
  PROVE  /\ \A s \in Occurring(job.freq) : /\ Place(s) \in 1 .. numsymbols /\ leaves[Place(s)].count = s
                                           /\ {k \in 1 .. numsymbols : leaves[k].count = s} = {Place(s)}
         /\ \A s \in DOMAIN job.freq : job.freq[s] = 0 => {k \in 1 .. numsymbols : leaves[k].count = s} = {}
         /\ \A s, t \in Occurring(job.freq) : Before(job.freq, s, t) => Place(s) <= Place(t)
<1>1. /\ IsArray(leaves, Known, Keys) /\ job \in Jobs /\ numsymbols \in Nat
      /\ \A k, l \in 1 .. numsymbols : k < l => Before(job.freq, leaves[k].count, leaves[l].count)
      /\ {leaves[k].count : k \in 1 .. numsymbols} = Occurring(job.freq)
  <2>1. Merging
    BY DEF Merging
  <2>. QED  BY <2>1, WeightsAre DEF SortInv, LeavesInv, SortedInv, StableOrder, Merging
<1>2. ASSUME NEW s \in Occurring(job.freq)
      PROVE  /\ Place(s) \in 1 .. numsymbols /\ leaves[Place(s)].count = s
             /\ {k \in 1 .. numsymbols : leaves[k].count = s} = {Place(s)}
  <2>1. \E k \in 1 .. numsymbols : leaves[k].count = s
    BY <1>1
  <2>2. Place(s) \in 1 .. numsymbols /\ leaves[Place(s)].count = s
    BY <2>1 DEF Place
  <2>3. \A k \in 1 .. numsymbols : leaves[k].count = s => k = Place(s)
    BY <1>1, <2>2 DEF IsArray, numsymbols
  <2>. QED  BY <2>2, <2>3
<1>3. ASSUME NEW s \in DOMAIN job.freq, job.freq[s] = 0 PROVE {k \in 1 .. numsymbols : leaves[k].count = s} = {}
  <2>1. s \notin Occurring(job.freq)
    BY <1>3 DEF Occurring
  <2>. QED  BY <1>1, <2>1
<1>4. ASSUME NEW s \in Occurring(job.freq), NEW t \in Occurring(job.freq), Before(job.freq, s, t) PROVE Place(s) <= Place(t)
  <2>1. SUFFICES ASSUME Place(t) < Place(s) PROVE FALSE
    BY <1>1, <1>2
  <2>2. Before(job.freq, t, s)
    BY <1>1, <1>2, <2>1
  <2>3. s \in Nat /\ t \in Nat /\ job.freq[s] \in Nat /\ job.freq[t] \in Nat
    BY <1>1, JobIs, SymbolsAre DEF Occurring
  <2>. QED  BY <1>4, <2>2, <2>3 DEF Before
<1>. QED  BY <1>2, <1>3, <1>4

\* Finish: each leaf has as many bits as the lists in which it is in use.
LEMMA FinishStep ==
  ASSUME SortInv, PoolInv, LengthsInv, Finish
  PROVE  LengthsInv'
<1>. DEFINE chain == FinalChain
            V(k) == Min(Lengths(chain, k))
            At(s) == {k \in 1 .. numsymbols : leaves[k].count = s}
<1>1. /\ pc = "runs" /\ pc' = "done" /\ job' = job /\ bitlengths' = ExtractBitLengths(chain)
      /\ stackspace = <<>> /\ i >= numBoundaryPMRuns - 1
      /\ bitlengths = [s \in DOMAIN job.freq |-> 0]
  BY DEF Finish, LengthsInv
<1>2. chain \in Seq(Nat) /\ Len(chain) \in 1 .. maxbits /\ chain[1] = numsymbols
  BY <1>1, FinalChainIs
<1>3. maxbits \in 2 .. 15 /\ numsymbols \in Nat /\ maxbits <= job.maxbits /\ job.maxbits \in Int
  <2>1. maxbits \in 2 .. 15 /\ numsymbols \in Nat
    BY <1>1, PoolIs
  <2>2. job.maxbits \in 1 .. 15
    BY JobIs DEF SortInv, LeavesInv
  <2>. QED  BY <2>1, <2>2 DEF maxbits
<1>. HIDE DEF chain
<1>4. \A s \in DOMAIN job.freq : bitlengths'[s] = IF At(s) = {} THEN 0 ELSE V(CHOOSE k \in At(s) : TRUE)
  BY <1>1, <1>2 DEF ExtractBitLengths, Lengths
<1>. HIDE DEF At, V
<1>5. ASSUME NEW s \in DOMAIN job.freq, job.freq[s] = 0 PROVE bitlengths'[s] = 0
  <2>1. At(s) = {}
    BY <1>1, <1>5, PlacesAre DEF At
  <2>. QED  BY <1>4, <2>1
<1>6. ASSUME NEW s \in Occurring(job.freq) PROVE bitlengths'[s] = V(Place(s)) /\ Place(s) \in Nat /\ Place(s) >= 1
  <2>1. At(s) = {Place(s)} /\ Place(s) \in 1 .. numsymbols
    BY <1>1, PlacesAre DEF At
  <2>2. s \in DOMAIN job.freq
    BY DEF Occurring
  <2>3. At(s) # {} /\ (CHOOSE k \in At(s) : TRUE) = Place(s)
    BY <2>1
  <2>. QED  BY <1>3, <1>4, <2>1, <2>2, <2>3
<1>7. ASSUME NEW s \in Occurring(job.freq) PROVE bitlengths'[s] \in 1 .. job.maxbits
  <2>1. V(Place(s)) \in 1 .. Len(chain)
    BY <1>2, <1>6, LengthIs DEF V
  <2>. QED  BY <1>2, <1>3, <1>6, <2>1
<1>8. ASSUME NEW s \in Occurring(job.freq), NEW t \in Occurring(job.freq), Before(job.freq, s, t)
      PROVE  bitlengths'[s] >= bitlengths'[t]
  <2>1. Place(s) <= Place(t)
    BY <1>1, <1>8, PlacesAre
  <2>2. V(Place(t)) <= V(Place(s))
    BY <1>2, <1>6, <2>1, LengthIs DEF V
  <2>. QED  BY <1>6, <1>7, <2>2
<1>9. WithinLimit'
  <2>1. \A s \in DOMAIN job.freq : job.freq[s] # 0 => s \in Occurring(job.freq)
    BY JobIs DEF SortInv, LeavesInv, Occurring
  <2>. QED  BY <1>1, <1>5, <1>7, <2>1 DEF WithinLimit
<1>10. HeavierNotLonger'
  BY <1>1, <1>8 DEF HeavierNotLonger
<1>. QED  BY <1>1, <1>9, <1>10 DEF LengthsInv

\* Few: one bit each
LEMMA FewLengths ==
  ASSUME SortInv, LengthsInv, Few
  PROVE  LengthsInv'
<1>1. /\ pc = "count" /\ pc' = "done" /\ job' = job /\ i \notin DOMAIN job.freq
      /\ bitlengths = [s \in DOMAIN job.freq |-> 0]
      /\ bitlengths' = [s \in DOMAIN job.freq |-> IF \E k \in DOMAIN leaves : leaves[k].count = s THEN 1 ELSE 0]
  BY DEF Few, LengthsInv
<1>2. IsArray(leaves, Occurring(job.freq), Keys) /\ job \in Jobs
  BY <1>1, AllCounted DEF SortInv, LeavesInv
<1>3. ASSUME NEW s \in DOMAIN job.freq PROVE bitlengths'[s] = IF s \in Occurring(job.freq) THEN 1 ELSE 0
  <2>1. DOMAIN leaves = 1 .. Len(leaves)
    BY <1>2, ArrayIs
  <2>2. (\E k \in DOMAIN leaves : leaves[k].count = s) <=> s \in Occurring(job.freq)
    <3>1. /\ \A k \in 1 .. Len(leaves) : leaves[k].count \in Occurring(job.freq)
          /\ \A t \in Occurring(job.freq) : \E k \in 1 .. Len(leaves) : leaves[k].count = t
      BY <1>2, Zenon DEF IsArray
    <3>. QED  BY <2>1, <3>1, Zenon
  <2>. QED  BY <1>1, <2>2, SMTT(40)
<1>4. job.maxbits \in 1 .. 15 /\ \A s \in DOMAIN job.freq : job.freq[s] \in Nat
  BY <1>2, JobIs
<1>5. WithinLimit'
  <2>1. 1 \in 1 .. job.maxbits
    BY <1>4
  <2>2. \A s \in DOMAIN job.freq : s \in Occurring(job.freq) <=> job.freq[s] # 0
    BY <1>4 DEF Occurring
  <2>3. ASSUME NEW s \in DOMAIN job.freq
        PROVE  IF job.freq[s] = 0 THEN bitlengths'[s] = 0 ELSE bitlengths'[s] \in 1 .. job.maxbits
    <3>1. CASE s \in Occurring(job.freq)
      BY <1>3, <2>1, <2>2, <3>1
    <3>2. CASE s \notin Occurring(job.freq)
      BY <1>3, <2>2, <3>2
    <3>. QED  BY <3>1, <3>2
  <2>. QED  BY <1>1, <2>3, Zenon DEF WithinLimit
<1>6. HeavierNotLonger'
  <2>1. \A s \in Occurring(job.freq) : bitlengths'[s] = 1
    BY <1>3 DEF Occurring
  <2>2. \A s, t \in Occurring(job.freq) : bitlengths'[s] >= bitlengths'[t]
    BY <2>1
  <2>. QED  BY <1>1, <2>2, Zenon DEF HeavierNotLonger
<1>. QED  BY <1>1, <1>5, <1>6 DEF LengthsInv

\* as long as nothing is written and the chains are short enough
LEMMA LengthsKept ==
  ASSUME LengthsInv, job' = job, bitlengths' = bitlengths, pc # "done", pc' # "done",
         pc' = "runs" => /\ leaves' = leaves
                         /\ \A k \in 0 .. maxbits - 1 : lists'[k][2].tail \in Seq(Nat) /\ Len(lists'[k][2].tail) <= k
  PROVE  LengthsInv'
<1>1. pc' = "runs" => maxbits' = maxbits
  BY DEF maxbits, numsymbols
<1>. QED  BY <1>1 DEF LengthsInv, WithinLimit, HeavierNotLonger

\* where a step of the merging begins
LEMMA TailsAre ==
  ASSUME SortInv, PoolInv, LengthsInv, pc = "runs"
  PROVE  /\ DOMAIN lists = 0 .. maxbits - 1 /\ maxbits \in 2 .. 15
         /\ \A k \in 0 .. maxbits - 1 : /\ lists[k][2].tail \in Seq(Nat) /\ Len(lists[k][2].tail) <= k
                                        /\ Len(lists[k][2].tail) \in Nat /\ lists[k][2].count \in Nat
<1>1. DOMAIN lists = 0 .. maxbits - 1 /\ maxbits \in 2 .. 15 /\ numsymbols \in Nat
  BY PoolIs
<1>2. ASSUME NEW k \in 0 .. maxbits - 1
      PROVE  /\ lists[k][2].tail \in Seq(Nat) /\ Len(lists[k][2].tail) <= k
             /\ Len(lists[k][2].tail) \in Nat /\ lists[k][2].count \in Nat
  <2>1. lists[k][2].tail \in Seq(Nat) /\ Len(lists[k][2].tail) <= k
    BY DEF LengthsInv
  <2>2. lists[k][2].count \in 2 .. numsymbols
    BY PoolIs DEF ListInv
  <2>. QED  BY <1>1, <2>1, <2>2, LenProperties
<1>. QED  BY <1>1, <1>2

\* the tail of a package
LEMMA PackageTail ==
  ASSUME SortInv, PoolInv, LengthsInv, pc = "runs", stackspace # <<>>
  PROVE  /\ index \in 1 .. maxbits - 1 /\ Package.tail \in Seq(Nat) /\ Len(Package.tail) <= index
         /\ oldchain.tail = lists[index][2].tail
<1>. DEFINE e == index
            x == lists[e - 1][2]
<1>1. e \in 1 .. maxbits - 1 /\ e - 1 \in 0 .. maxbits - 1
  BY PoolIs
<1>2. Package.tail = <<x.count>> \o x.tail
  BY DEF Package, Node, Chain
<1>3. x.tail \in Seq(Nat) /\ Len(x.tail) <= e - 1 /\ Len(x.tail) \in Nat /\ x.count \in Nat
  <2>. HIDE DEF e
  <2>. QED  BY <1>1, TailsAre
<1>. HIDE DEF x, e
<1>4. Package.tail \in Seq(Nat) /\ Len(Package.tail) = Len(x.tail) + 1
  BY <1>2, <1>3, ChainGrows
<1>5. Len(Package.tail) <= e
  BY <1>1, <1>3, <1>4, TailsAre
<1>. QED  BY <1>1, <1>4, <1>5 DEF e, oldchain

\* every step keeps what holds of the chains and the lengths
LEMMA LengthsPreserved ==
  ASSUME SortInv, PoolInv, LengthsInv, [Next]_vars
  PROVE  LengthsInv'
<1>1. <<>> \in Seq(Nat) /\ Len(<<>>) = 0
  BY EmptySeq
<1>2. CASE Count \/ StartSort \/ EndSort \/ StartInsertion \/ Insert
  BY <1>2, LengthsKept DEF Count, StartSort, EndSort, StartInsertion, Insert
<1>3. CASE EndInsertion \/ EndHeap
  BY <1>3, LengthsKept DEF EndInsertion, EndHeap, Finished
<1>4. CASE StartHeap \/ Build \/ EndBuild \/ Extract \/ Sink
  BY <1>4, LengthsKept DEF StartHeap, Build, EndBuild, Extract, Sink
<1>5. CASE EndHeapify \/ StartPartition \/ Exchange \/ EndPartition
  BY <1>5, LengthsKept DEF EndHeapify, StartPartition, Exchange, EndPartition
<1>6. CASE InitLists
  <2>1. /\ pc = "init" /\ pc' = "runs" /\ leaves' = leaves /\ job' = job /\ bitlengths' = bitlengths
        /\ lists' = [k \in 0 .. maxbits - 1 |-> <<Leaf(1, <<>>), Leaf(2, <<>>)>>]
    BY <1>6 DEF InitLists
  <2>2. \A k \in 0 .. maxbits - 1 : lists'[k][2].tail = <<>>
    BY <2>1 DEF Leaf, Node
  <2>3. \A k \in 0 .. maxbits - 1 : lists'[k][2].tail \in Seq(Nat) /\ Len(lists'[k][2].tail) <= k
    <3>1. \A k \in 0 .. maxbits - 1 : 0 <= k
      <4>1. Merging
        BY <2>1 DEF Merging
      <4>. QED  BY <4>1, WeightsAre
    <3>. QED  BY <1>1, <2>2, <3>1
  <2>. QED  BY <2>1, <2>3, LengthsKept
<1>7. CASE StartRun
  <2>1. /\ pc = "runs" /\ pc' = "runs" /\ leaves' = leaves /\ job' = job /\ bitlengths' = bitlengths /\ lists' = lists
    BY <1>7 DEF StartRun
  <2>. QED  BY <2>1, LengthsKept, TailsAre
<1>8. CASE NewLeaf
  <2>1. /\ pc = "runs" /\ pc' = "runs" /\ leaves' = leaves /\ job' = job /\ bitlengths' = bitlengths /\ stackspace # <<>>
        /\ lists' = [lists EXCEPT ![index] = <<oldchain, Leaf(lastcount + 1, oldchain.tail)>>]
    BY <1>8 DEF NewLeaf
  <2>2. index \in 1 .. maxbits - 1 /\ oldchain.tail = lists[index][2].tail
    BY <2>1, PackageTail
  <2>3. \A k \in 0 .. maxbits - 1 : lists'[k][2].tail = lists[k][2].tail
    BY <2>1, <2>2, TailsAre DEF Leaf, Node
  <2>. QED  BY <2>1, <2>3, LengthsKept, TailsAre
<1>9. CASE NewPackage
  <2>1. /\ pc = "runs" /\ pc' = "runs" /\ leaves' = leaves /\ job' = job /\ bitlengths' = bitlengths /\ stackspace # <<>>
        /\ lists' = [lists EXCEPT ![index] = <<oldchain, Package>>]
    BY <1>9 DEF NewPackage
  <2>2. Package.tail \in Seq(Nat) /\ Len(Package.tail) <= index
    BY <2>1, PackageTail
  <2>3. \A k \in 0 .. maxbits - 1 : lists'[k][2].tail = IF k = index THEN Package.tail ELSE lists[k][2].tail
    BY <2>1, TailsAre
  <2>. QED  BY <2>1, <2>2, <2>3, LengthsKept, TailsAre
<1>10. CASE LowestPackage
  <2>1. /\ pc = "runs" /\ pc' = "runs" /\ leaves' = leaves /\ job' = job /\ bitlengths' = bitlengths /\ stackspace # <<>>
        /\ lists' = [lists EXCEPT ![1] = <<oldchain, Package>>, ![0] = NextLeaves(@)] /\ index = 1
    BY <1>10 DEF LowestPackage
  <2>2. Package.tail \in Seq(Nat) /\ Len(Package.tail) <= 1
    BY <2>1, PackageTail
  <2>3. 0 \in 0 .. maxbits - 1 /\ 1 \in 0 .. maxbits - 1
    <3>1. maxbits \in 2 .. 15
      BY <2>1, TailsAre
    <3>. QED  BY <3>1
  <2>4. NextLeaves(lists[0])[2].tail \in Seq(Nat) /\ Len(NextLeaves(lists[0])[2].tail) <= 0
    <3>. DEFINE l == lists[0]
    <3>1. l[2].tail \in Seq(Nat) /\ Len(l[2].tail) <= 0 /\ l[2].count \in Nat /\ numsymbols \in Nat
      BY <2>1, <2>3, TailsAre, PoolIs
    <3>. HIDE DEF l
    <3>2. CASE l[2].count >= numsymbols
      <4>1. NextLeaves(l) = l
        BY <3>1, <3>2 DEF NextLeaves
      <4>. QED  BY <3>1, <4>1 DEF l
    <3>3. CASE l[2].count = numsymbols - 1
      <4>1. NextLeaves(l)[2].tail = <<>>
        BY <3>1, <3>3 DEF NextLeaves, Leaf, Node
      <4>. QED  BY <1>1, <4>1 DEF l
    <3>4. CASE l[2].count < numsymbols - 1
      <4>1. NextLeaves(l)[2].tail = <<>>
        BY <3>1, <3>4 DEF NextLeaves, Leaf, Node
      <4>. QED  BY <1>1, <4>1 DEF l
    <3>. QED  BY <3>1, <3>2, <3>3, <3>4
  <2>5. /\ lists'[0][2].tail = NextLeaves(lists[0])[2].tail /\ lists'[1][2].tail = Package.tail
        /\ \A k \in 0 .. maxbits - 1 : k # 0 /\ k # 1 => lists'[k] = lists[k]
    <3>. DEFINE l == <<oldchain, Package>>
                z == NextLeaves(lists[0])
    <3>1. DOMAIN lists = 0 .. maxbits - 1
      BY <2>1, TailsAre
    <3>2. lists' = [lists EXCEPT ![1] = l, ![0] = NextLeaves(@)] /\ z = NextLeaves(lists[0])
      BY <2>1
    <3>3. l[2] = Package
      OBVIOUS
    <3>. HIDE DEF l, z
    <3>4. lists'[0] = z /\ lists'[1] = l /\ \A k \in 0 .. maxbits - 1 : k # 0 /\ k # 1 => lists'[k] = lists[k]
      BY <2>3, <3>1, <3>2
    <3>. QED  BY <3>3, <3>4 DEF z
  <2>6. ASSUME NEW k \in 0 .. maxbits - 1 PROVE lists'[k][2].tail \in Seq(Nat) /\ Len(lists'[k][2].tail) <= k
    BY <2>1, <2>2, <2>4, <2>5, TailsAre
  <2>. QED  BY <2>1, <2>6, LengthsKept
<1>11. CASE Few
  BY <1>11, FewLengths
<1>12. CASE Finish
  BY <1>12, FinishStep
<1>13. CASE UNCHANGED vars
  BY <1>13 DEF vars, merging, LengthsInv, WithinLimit, HeavierNotLonger, maxbits, numsymbols
<1>. QED
  BY <1>2, <1>3, <1>4, <1>5, <1>6, <1>7, <1>8, <1>9, <1>10, <1>11, <1>12, <1>13 DEF Next, Stopped

\* At the end the final chain has a node for as many lists as there are at most,
\* and the first of them has all leaves.
THEOREM LengthsAreInvariant == Spec => []LengthsInv
<1>1. Init => LengthsInv
  BY DEF Init, LengthsInv, WithinLimit, HeavierNotLonger
<1>2. SortInv /\ PoolInv /\ LengthsInv /\ [Next]_vars => LengthsInv'
  BY LengthsPreserved
<1>. QED  BY <1>1, <1>2, SortIsInvariant, PoolIsAccounted, PTL DEF Spec

\* Every symbol that occurs gets a code, of at most maxbits bits, and no other
\* symbol does, for all frequencies of up to 512 symbols and all limits.
THEOREM LengthsWithinLimit == Spec => []WithinLimit
<1>1. LengthsInv => WithinLimit
  BY DEF LengthsInv
<1>. QED  BY <1>1, LengthsAreInvariant, PTL

\* No symbol has a longer code than one that is less frequent, or than an earlier
\* one that is as frequent: without this the lengths could not be the best ones.
THEOREM HeavierHasNoLonger == Spec => []HeavierNotLonger
<1>1. LengthsInv => HeavierNotLonger
  BY DEF LengthsInv
<1>. QED  BY <1>1, LengthsAreInvariant, PTL
=============================================================================
