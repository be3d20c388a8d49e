------------------------------ MODULE Katajainen ------------------------------
(***************************************************************************)
(* Length-limited code lengths by boundary package-merge                   *)
(* (ZopfliLengthLimitedCodeLengths, katajainen.c). The leaves are sorted;  *)
(* for each length there is a list of chains, of which only the two newest *)
(* are kept; a new chain is a leaf or takes up both chains of the list     *)
(* below, which then needs two new ones. What is still to be made is on a  *)
(* stack, where the algorithm's paper has a recursion.                     *)
(*                                                                         *)
(* A node is written with the counts of the nodes behind its tail, as a    *)
(* node does not change any more when another one points to it.            *)
(***************************************************************************)
EXTENDS CodeLengths, Symbols

CONSTANTS
  Cutoff,       \* INTRO_CUTOFF
  DepthFactor,  \* of the depth from which on the heap sort takes over
  Jobs          \* frequencies (of the symbols 0, 1, ...) and maxbits

SymbolLimit == 512  \* a symbol is packed into nine bits

ASSUME SizesAssumption == Cutoff \in Nat /\ Cutoff >= 2 /\ DepthFactor \in Nat
ASSUME JobsAssumption ==
  \A j \in Jobs :
    /\ \E n \in 0 .. SymbolLimit : j.freq \in [0 .. n - 1 -> Nat]
    /\ j.maxbits \in 1 .. 15 /\ Cardinality(Occurring(j.freq)) <= 2 ^ j.maxbits

VARIABLES
  job,         \* never changes
  pc,
  leaves,
  segments,    \* what intro_sort_core still has to sort: lo, hi, depth
  at,          \* i of insertion_sort and of heap_sort
  node, bound, \* i and n of heapify_range
  pivot, from, to, \* pivot, i and j of sort_partition
  lists,       \* of the chains with at most index + 1 lists
  used,        \* nodes taken from the pool
  i,
  stackspace,
  bitlengths

sorting == <<segments, at, node, bound, pivot, from, to>>
merging == <<lists, used, stackspace>>
vars == <<job, pc, leaves, sorting, i, merging, bitlengths>>
numsymbols == Len(leaves)
maxbits == IF numsymbols - 1 < job.maxbits THEN numsymbols - 1 ELSE job.maxbits

Init ==
  /\ job \in Jobs
  /\ pc = "count" /\ leaves = <<>> /\ i = 0
  /\ segments = <<>> /\ at = 0 /\ node = 0 /\ bound = 0
  /\ pivot = [weight |-> 0, count |-> 0] /\ from = 0 /\ to = 0
  /\ lists = <<>> /\ used = 0 /\ stackspace = <<>>
  /\ bitlengths = [s \in DOMAIN job.freq |-> 0]

Count ==
  /\ pc = "count" /\ i \in DOMAIN job.freq
  /\ leaves' = IF job.freq[i] > 0 THEN Append(leaves, [weight |-> job.freq[i], count |-> i]) ELSE leaves
  /\ i' = i + 1
  /\ UNCHANGED <<job, pc, sorting, merging, bitlengths>>

\* no symbol, one or two: one bit for each
Few ==
  /\ pc = "count" /\ i \notin DOMAIN job.freq /\ numsymbols <= 2
  /\ bitlengths' = [s \in DOMAIN bitlengths |-> IF \E k \in DOMAIN leaves : leaves[k].count = s THEN 1 ELSE 0]
  /\ pc' = "done"
  /\ UNCHANGED <<job, leaves, sorting, i, merging>>
-----------------------------------------------------------------------------
(* node_intro_sort. Arrays are counted from zero in the code, as are the     *)
(* nodes of a heap here.                                                     *)

Less(x, y) == x.weight < y.weight
Swapped(a, m, n) == [a EXCEPT ![m] = a[n], ![n] = a[m]]

PackedSlip(a) == [k \in DOMAIN a |-> [a[k] EXCEPT !.weight = @ * SymbolLimit]]  \* slip: without the symbol
Packed(a) == [k \in DOMAIN a |-> [a[k] EXCEPT !.weight = @ * SymbolLimit + a[k].count]]
Unpacked(a) == [k \in DOMAIN a |-> [a[k] EXCEPT !.weight = @ \div SymbolLimit]]

Segment(lo, hi, depth) == [lo |-> lo, hi |-> hi, depth |-> depth]
segment == Last(segments)
size == segment.hi - segment.lo + 1

\* few leaves are sorted by insertion as they are
StartSort ==
  /\ pc = "count" /\ i \notin DOMAIN job.freq /\ numsymbols > 2
  /\ leaves' = IF numsymbols > Cutoff THEN Packed(leaves) ELSE leaves
  /\ segments' = <<Segment(1, numsymbols, DepthFactor * floor_log2(numsymbols))>>
  /\ pc' = "sort"
  /\ UNCHANGED <<job, at, node, bound, pivot, from, to, i, merging, bitlengths>>

EndSort ==
  /\ pc = "sort" /\ segments = <<>>
  /\ leaves' = IF numsymbols > Cutoff THEN Unpacked(leaves) ELSE leaves
  /\ pc' = "init"
  /\ UNCHANGED <<job, sorting, i, merging, bitlengths>>

\* what was to be sorted is
Finished ==
  /\ segments' = Front(segments)
  /\ pc' = "sort"
  /\ UNCHANGED <<job, leaves, at, node, bound, pivot, from, to, i, merging, bitlengths>>

(* insertion_sort *)

StartInsertion ==
  /\ pc = "sort" /\ segments # <<>> /\ size <= Cutoff
  /\ at' = segment.lo + 1
  /\ pc' = "insertion"
  /\ UNCHANGED <<job, leaves, segments, node, bound, pivot, from, to, i, merging, bitlengths>>

\* where the element at n goes: behind all that are not greater, from lo on
PlaceFor(a, lo, n) ==
  CHOOSE j \in lo .. n : /\ \A m \in j .. n - 1 : Less(a[n], a[m])
                         /\ j = lo \/ ~Less(a[n], a[j - 1])
Inserted(a, j, n) ==
  [m \in DOMAIN a |-> IF m = j THEN a[n] ELSE IF m \in j + 1 .. n THEN a[m - 1] ELSE a[m]]

Insert ==
  /\ pc = "insertion" /\ at <= segment.hi
  /\ leaves' = Inserted(leaves, PlaceFor(leaves, segment.lo, at), at)
  /\ at' = at + 1
  /\ UNCHANGED <<job, pc, segments, node, bound, pivot, from, to, i, merging, bitlengths>>

EndInsertion == pc = "insertion" /\ at > segment.hi /\ Finished

(* heap_sort: first each inner node sinks, from the last one to the root;    *)
(* then the root goes to the end, and what was there sinks from the root.    *)

StartHeap ==
  /\ pc = "sort" /\ segments # <<>> /\ size > Cutoff /\ segment.depth = 0
  /\ at' = (size - 1) \div 2 + 1
  /\ pc' = "build"
  /\ UNCHANGED <<job, leaves, segments, node, bound, pivot, from, to, i, merging, bitlengths>>

Build ==
  /\ pc = "build" /\ at > 0
  /\ at' = at - 1 /\ node' = at - 1 /\ bound' = size
  /\ pc' = "heapify"
  /\ UNCHANGED <<job, leaves, segments, pivot, from, to, i, merging, bitlengths>>

EndBuild ==
  /\ pc = "build" /\ at = 0
  /\ at' = size
  /\ pc' = "extract"
  /\ UNCHANGED <<job, leaves, segments, node, bound, pivot, from, to, i, merging, bitlengths>>

Extract ==
  /\ pc = "extract" /\ at > 1
  /\ leaves' = Swapped(leaves, segment.lo, segment.lo + at - 1)
  /\ at' = at - 1 /\ node' = 0 /\ bound' = at - 1
  /\ pc' = "heapify"
  /\ UNCHANGED <<job, segments, pivot, from, to, i, merging, bitlengths>>

EndHeap == pc = "extract" /\ at <= 1 /\ Finished

(* heapify_range. What sinks is in the array here, and in t in the code. *)

cell(q) == leaves[segment.lo + q]
son == 2 * node + 1
largest == IF son + 1 < bound /\ Less(cell(son), cell(son + 1)) THEN son + 1 ELSE son
Sinks == son < bound /\ Less(cell(node), cell(largest))

Sink ==
  /\ pc = "heapify" /\ Sinks
  /\ leaves' = Swapped(leaves, segment.lo + node, segment.lo + largest)
  /\ node' = largest
  /\ UNCHANGED <<job, pc, segments, at, bound, pivot, from, to, i, merging, bitlengths>>

EndHeapify ==
  /\ pc = "heapify" /\ ~Sinks
  /\ pc' = IF bound = size THEN "build" ELSE "extract"
  /\ UNCHANGED <<job, leaves, sorting, i, merging, bitlengths>>

(* sort_partition *)

StartPartition ==
  /\ pc = "sort" /\ segments # <<>> /\ size > Cutoff /\ segment.depth > 0
  /\ pivot' = leaves[segment.lo + size \div 2]
  /\ from' = segment.lo - 1 /\ to' = segment.hi + 1
  /\ pc' = "partition"
  /\ UNCHANGED <<job, leaves, segments, at, node, bound, i, merging, bitlengths>>

\* where both inner loops stop
up == CHOOSE n \in from + 1 .. numsymbols :
        ~Less(leaves[n], pivot) /\ \A m \in from + 1 .. n - 1 : Less(leaves[m], pivot)
down == CHOOSE n \in 1 .. to - 1 :
          ~Less(pivot, leaves[n]) /\ \A m \in n + 1 .. to - 1 : Less(pivot, leaves[m])

Exchange ==
  /\ pc = "partition" /\ up < down
  /\ leaves' = Swapped(leaves, up, down)
  /\ from' = up /\ to' = down
  /\ UNCHANGED <<job, pc, segments, at, node, bound, pivot, i, merging, bitlengths>>

\* the smaller part first, the other one in the next turn of the loop
EndPartition ==
  /\ pc = "partition" /\ up >= down
  /\ LET left == Segment(segment.lo, down, segment.depth - 1)
         right == Segment(down + 1, segment.hi, segment.depth - 1)
     IN segments' = Front(segments)
          \o (IF down - segment.lo + 1 < segment.hi - down THEN <<right, left>> ELSE <<left, right>>)
  /\ pc' = "sort"
  /\ UNCHANGED <<job, leaves, at, node, bound, pivot, from, to, i, merging, bitlengths>>
-----------------------------------------------------------------------------
Node(weight, count, tail) == [weight |-> weight, count |-> count, tail |-> tail]
Leaf(k, tail) == Node(leaves[k].weight, k, tail)
Chain(x) == <<x.count>> \o x.tail

InitLists ==
  /\ pc = "init"
  /\ lists' = [index \in 0 .. maxbits - 1 |-> <<Leaf(1, <<>>), Leaf(2, <<>>)>>]
  /\ used' = 2 /\ i' = 0
  /\ pc' = "runs"
  /\ UNCHANGED <<job, leaves, sorting, stackspace, bitlengths>>

numBoundaryPMRuns == 2 * numsymbols - 4

StartRun ==
  /\ pc = "runs" /\ stackspace = <<>> /\ i < numBoundaryPMRuns - 1
  /\ stackspace' = <<maxbits - 1>>
  /\ i' = i + 1
  /\ UNCHANGED <<job, pc, leaves, sorting, lists, used, bitlengths>>

index == Last(stackspace)
oldchain == lists[index][2]
lastcount == oldchain.count
sumSlip(k) == 2 * lists[k - 1][2].weight  \* slip: of one of the two chains only
sum(k) == lists[k - 1][1].weight + lists[k - 1][2].weight

LeafNextSlip(k) ==  \* slip: the lighter of the two is not the one that is taken
  lists[k][2].count < numsymbols /\ sum(k) <= leaves[lists[k][2].count + 1].weight
LeafNext(k) == lists[k][2].count < numsymbols /\ sum(k) > leaves[lists[k][2].count + 1].weight

NewLeaf ==
  /\ pc = "runs" /\ stackspace # <<>> /\ LeafNext(index)
  /\ lists' = [lists EXCEPT ![index] = <<oldchain, Leaf(lastcount + 1, oldchain.tail)>>]
  /\ used' = used + 1
  /\ stackspace' = Front(stackspace)
  /\ UNCHANGED <<job, pc, leaves, sorting, i, bitlengths>>

Package == Node(sum(index), lastcount, Chain(lists[index - 1][2]))

NewPackage ==
  /\ pc = "runs" /\ stackspace # <<>> /\ ~LeafNext(index) /\ index # 1
  /\ lists' = [lists EXCEPT ![index] = <<oldchain, Package>>]
  /\ used' = used + 1
  /\ stackspace' = Front(stackspace) \o <<index - 1, index - 1>>
  /\ UNCHANGED <<job, pc, leaves, sorting, i, bitlengths>>

\* the lowest list has only leaves: the next two of them, as far as there are any
NextLeaves(l) ==
  CASE l[2].count >= numsymbols -> l
    [] l[2].count = numsymbols - 1 -> <<l[2], Leaf(numsymbols, <<>>)>>
    [] l[2].count < numsymbols - 1 -> <<Leaf(l[2].count + 1, <<>>), Leaf(l[2].count + 2, <<>>)>>

LowestPackage ==
  /\ pc = "runs" /\ stackspace # <<>> /\ ~LeafNext(index) /\ index = 1
  /\ lists' = [lists EXCEPT ![1] = <<oldchain, Package>>, ![0] = NextLeaves(@)]
  /\ used' = used + 1 + NextLeaves(lists[0])[2].count - lists[0][2].count
  /\ stackspace' = Front(stackspace)
  /\ UNCHANGED <<job, pc, leaves, sorting, i, bitlengths>>

\* BoundaryPMfinal: the last chain, made without new ones in the list below
FinalChain ==
  LET k == maxbits - 1 IN
  IF LeafNext(k) THEN <<lists[k][2].count + 1>> \o lists[k][2].tail
                 ELSE <<lists[k][2].count>> \o Chain(lists[k - 1][2])

\* A leaf has as many bits as lists in which it is in use, the first of which
\* are those at the front.
ExtractBitLengths(chain) ==
  LET counts == Append(chain, 0)
      Value(k) == Min({v \in 1 .. Len(chain) : counts[v + 1] < k})
      SymbolAt(s) == {k \in 1 .. chain[1] : leaves[k].count = s}
  IN [s \in DOMAIN bitlengths |->
        IF SymbolAt(s) = {} THEN bitlengths[s] ELSE Value(CHOOSE k \in SymbolAt(s) : TRUE)]

Finish ==
  /\ pc = "runs" /\ stackspace = <<>> /\ i >= numBoundaryPMRuns - 1
  /\ bitlengths' = ExtractBitLengths(FinalChain)
  /\ pc' = "done"
  /\ UNCHANGED <<job, leaves, sorting, i, merging>>

Stopped == pc = "done" /\ UNCHANGED vars

Next ==
  \/ Count \/ Few \/ StartSort \/ EndSort
  \/ StartInsertion \/ Insert \/ EndInsertion
  \/ StartHeap \/ Build \/ EndBuild \/ Extract \/ EndHeap \/ Sink \/ EndHeapify
  \/ StartPartition \/ Exchange \/ EndPartition
  \/ InitLists \/ StartRun \/ NewLeaf \/ NewPackage \/ LowestPackage \/ Finish \/ Stopped

Spec == Init /\ [][Next]_vars
-----------------------------------------------------------------------------
\* The sort is stable, whichever of its three methods is used: leaves of equal
\* weight stay in the order of their symbols.
StableOrder ==
  pc \in {"init", "runs"} =>
    /\ \A k, l \in 1 .. numsymbols : k < l => Before(job.freq, leaves[k].count, leaves[l].count)
    /\ {leaves[k].count : k \in 1 .. numsymbols} = Occurring(job.freq)
    /\ \A k \in 1 .. numsymbols : leaves[k].weight = job.freq[leaves[k].count]

\* The pool on the machine's stack, for which the code has a "theoretical
\* maximum", has room for every node, and stackspace for every list.
MemorySuffices == pc = "runs" => used + 1 <= 2 * maxbits * numsymbols /\ Len(stackspace) <= 16

\* Lengths for n weights in ascending order that a code without gaps has.
LimitedCodes(n, limit) ==
  {len \in [1 .. n -> 1 .. limit] :
     /\ \A k \in 1 .. n - 1 : len[k] >= len[k + 1]
     /\ Kraft(len, limit) = 2 ^ limit}
Codes == [n \in 2 .. 6 |-> [limit \in 1 .. 5 |-> LimitedCodes(n, limit)]]

\* Each symbol that occurs, and no other one, has a length, and that is within the limit.
WithinLimit ==
  pc = "done" => \A s \in DOMAIN job.freq : IF job.freq[s] = 0 THEN bitlengths[s] = 0
                                            ELSE bitlengths[s] \in 1 .. job.maxbits

\* A more frequent symbol has no longer code, nor has a later one of the same frequency.
HeavierNotLonger ==
  pc = "done" => \A s, t \in Occurring(job.freq) : Before(job.freq, s, t) => bitlengths[s] >= bitlengths[t]

\* The lengths are a complete prefix code (one symbol alone has one bit), within
\* the limit, and no other such code is shorter in total. (Among the codes of one
\* profile that with the shorter lengths for the heavier leaves is best.)
Optimal ==
  /\ WithinLimit /\ HeavierNotLonger
  /\ pc = "done" =>
       /\ numsymbols \in DOMAIN Codes =>
            LET freq == [k \in 1 .. numsymbols |-> job.freq[Ascending(job.freq)[k]]] IN
            /\ Kraft(bitlengths, job.maxbits) = 2 ^ job.maxbits
            /\ \A len \in Codes[numsymbols][maxbits] : Total(job.freq, bitlengths) <= Total(freq, len)
       /\ bitlengths = LimitedLengths(job.freq, job.maxbits)
=============================================================================
