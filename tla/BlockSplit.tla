----------------------------- MODULE BlockSplit ------------------------------
(***************************************************************************)
(* Block splitting (blocksplitter.c): ZopfliBlockSplit chooses where one   *)
(* part of the input is cut into blocks.                                   *)
(*                                                                         *)
(* It works on the LZ77 entries of the part.  ZopfliBlockSplitLZ77 takes   *)
(* the largest block that is not done, lets FindMinimum sample the cost of *)
(* splitting it at some of its entries, and adds the best entry to the     *)
(* split points or marks the block as done; at the end the split points    *)
(* are converted to offsets in the input, and the statistics of each block *)
(* are taken on the way.                                                   *)
(*                                                                         *)
(* An entry is a number, at[k] the offset in the input where entry k       *)
(* starts.  A cost is drawn from Costs when SplitCost is first asked for   *)
(* it; every block has costs of its own.                                   *)
(***************************************************************************)
EXTENDS Integers, Sequences, Partition

CONSTANTS
  Costs,    \* values of SplitCost
  Large,    \* ZOPFLI_LARGE_FLOAT
  Near,     \* 200 in the code: a gain this small is enough
  FineMin,  \* 600 in the code: a coarse search gives up at startsize / Fine
  Fine,     \* 100 in the code
  Jobs      \* the parts to split

ASSUME CostsAssumption == Large \in Nat /\ Costs \subseteq 0 .. Large - 1 /\ Near \in Nat

ASSUME FineAssumption == FineMin \in Nat /\ Fine \in Nat \ {0}

IsJob(j) ==
  /\ j.size \in Nat \ {0}
  /\ j.at \in [0 .. j.size -> Nat]
  /\ \A a, b \in 0 .. j.size : a < b => j.at[a] < j.at[b]
  /\ j.opts.num \in {3, 9}             \* mode < 6 ? 3 : 9
  /\ j.opts.num = 3 => ~j.opts.many   \* more than 30 iterations: mode 8 and above
  /\ j.opts.noblocksplitlz \in Nat \ {0, 1}

ASSUME JobsAssumption == \A j \in Jobs : IsJob(j)

VARIABLES
  job,          \* the part, never changes
  pc,
  points,       \* lz77splitpoints
  done,         \* entries whose block is not to be split again
  lstart, lend, \* the block FindMinimum looks at
  start, end,   \* the range that FindMinimum still considers
  pos, best, lastbest, sampled, \* its other locals; sampled is prevstore # -1
  known,        \* the costs of this block that have been computed
  ci, cpos,     \* the conversion: i and pos
  splits,       \* splitpoints, the result
  stats         \* the entries each element of stats was computed from

block == <<lstart, lend>>
search == <<start, end, pos, best, lastbest, sampled, known>>
conversion == <<ci, cpos, splits, stats>>
vars == <<job, pc, points, done, block, search, conversion>>

Init ==
  /\ job \in Jobs
  /\ pc = "start"
  /\ points = <<>> /\ done = {}
  /\ lstart = 0 /\ lend = job.size
  /\ start = 0 /\ end = 0 /\ pos = 0
  /\ best = Large /\ lastbest = Large /\ sampled = FALSE /\ known = <<>>
  /\ ci = 0 /\ cpos = job.at[0]
  /\ splits = <<>> /\ stats = <<>>

\* The first lines of ZopfliBlockSplit and ZopfliBlockSplitLZ77: small parts
\* and short stores are not split.
Start ==
  /\ pc = "start"
  /\ IF job.at[job.size] - job.at[0] < job.opts.noblocksplit
       THEN pc' = "done" /\ stats' = <<[from |-> 0, to |-> job.size]>>
       ELSE /\ pc' = IF job.size < job.opts.noblocksplitlz THEN "convert" ELSE "find"
            /\ UNCHANGED stats
  /\ UNCHANGED <<job, points, done, block, search, ci, cpos, splits>>
-----------------------------------------------------------------------------
(* FindMinimum *)

EnterFindMinimum ==
  /\ pc = "find"
  /\ start' = lstart + 1 /\ end' = lend
  /\ pos' = lstart + 1
  /\ best' = Large /\ lastbest' = Large /\ sampled' = FALSE /\ known' = <<>>
  /\ pc' = "round"
  /\ UNCHANGED <<job, points, done, block, conversion>>

ostart == lstart + 1
startsize == lend - ostart

Few == end - start <= job.opts.num
Narrow == end - start <= startsize \div Fine /\ startsize > FineMin /\ job.opts.num = 3

\* known after SplitCost has been asked for the positions of asked
Learned(fresh) ==
  [q \in DOMAIN known \cup DOMAIN fresh |->
     IF q \in DOMAIN fresh THEN fresh[q] ELSE known[q]]

SampleSlip(k) ==  \* slip: as many steps as samples
  start + k * ((end - start) \div job.opts.num)
Sample(k) == start + k * ((end - start) \div (job.opts.num + 1))

\* samples whose cost is taken from the round before instead of SplitCost
Reused(k) ==
  \/ Sample(k) = pos
  \/ k = (job.opts.num - 1) \div 2 + 1 /\ sampled /\ job.opts.num = 3

IsFirstMinimum(k, vp) ==
  /\ \A j \in k .. job.opts.num : vp[k] <= vp[j]
  /\ \A j \in 1 .. k - 1 : vp[k] < vp[j]

\* the range after a round whose best sample is the k-th one
NextStart(k) == IF k = 1 THEN start ELSE Sample(k - 1)
NextEndHeld(k) == end  \* slip: only the start moves
NextEnd(k) == IF k = job.opts.num THEN end ELSE Sample(k + 1)

Round ==
  /\ pc = "round" /\ ~Few /\ ~Narrow
  /\ LET num == job.opts.num
         asked == {Sample(k) : k \in {k \in 1 .. num : ~Reused(k)}} \ DOMAIN known
     IN \E fresh \in [asked -> Costs] :
          LET price == Learned(fresh)
              vp == [k \in 1 .. num |-> IF Reused(k) THEN best ELSE price[Sample(k)]]
          IN \E k \in 1 .. num :
               /\ IsFirstMinimum(k, vp)
               /\ known' = price
               /\ best' = vp[k] /\ sampled' = TRUE
               /\ IF vp[k] > lastbest
                    THEN pc' = "decide" /\ UNCHANGED <<start, end, pos, lastbest>>
                    ELSE /\ start' = NextStart(k) /\ end' = NextEnd(k)
                         /\ pos' = Sample(k) /\ lastbest' = vp[k]
                         /\ UNCHANGED pc
  /\ UNCHANGED <<job, points, done, block, conversion>>

\* the range is small: the costs of all its entries are computed when there are
\* iterations to spare
Last ==
  /\ pc = "round" /\ (Few \/ Narrow)
  /\ IF Few /\ job.opts.many
       THEN \E fresh \in [(start .. end - 1) \ DOMAIN known -> Costs] :
              LET price == Learned(fresh)
              IN /\ known' = price
                 /\ \/ /\ \A q \in start .. end - 1 : price[q] >= best
                       /\ UNCHANGED <<pos, best>>
                    \/ \E q \in start .. end - 1 :
                         /\ price[q] < best
                         /\ \A r \in q .. end - 1 : price[q] <= price[r]
                         /\ \A r \in start .. q - 1 : price[q] < price[r]
                         /\ pos' = q /\ best' = price[q]
       ELSE UNCHANGED <<pos, best, known>>
  /\ pc' = "decide"
  /\ UNCHANGED <<job, points, done, block, start, end, lastbest, sampled, conversion>>
-----------------------------------------------------------------------------
(* ZopfliBlockSplitLZ77 *)

\* AddSorted puts v behind the k elements that are not greater
Position(s, v, k) == /\ \A j \in 1 .. k : s[j] <= v
                     /\ k < Len(s) => s[k + 1] > v
Inserted(s, v, k) == [j \in 1 .. Len(s) + 1 |->
                        IF j <= k THEN s[j] ELSE IF j = k + 1 THEN v ELSE s[j - 1]]

\* block k of those that s cuts the store into; the last one ends one entry
\* before the end of the store
BlockStart(s, k) == IF k = 0 THEN 0 ELSE s[k]
BlockEnd(s, k) == IF k = Len(s) THEN job.size - 1 ELSE s[k + 1]
BlockSize(s, k) == BlockEnd(s, k) - BlockStart(s, k)

Splittable(s, d, k) == BlockStart(s, k) \notin d /\ BlockSize(s, k) > 0

IsLargest(s, d, k) ==
  /\ Splittable(s, d, k)
  /\ \A j \in 0 .. Len(s) : Splittable(s, d, j) =>
       /\ BlockSize(s, j) <= BlockSize(s, k)
       /\ j < k => BlockSize(s, j) < BlockSize(s, k)

ChosenTie(orig) == IF orig < best THEN ostart ELSE pos  \* slip: a tie is split
ChosenSlip(orig) == IF orig <= best + Near THEN ostart ELSE pos  \* slip: Near counts twice
\* the end of FindMinimum: the position to split at, or ostart
Chosen(orig) == IF orig <= best THEN ostart ELSE pos
Enough(orig) == orig > best /\ job.opts.entropysplit /\ best + Near >= orig

\* The costs of the whole block decide; the block is split or done; and the
\* next block is looked for.
Decide ==
  /\ pc = "decide"
  /\ \E orig \in (IF lend \in DOMAIN known THEN {known[lend]} ELSE Costs) :
       LET q == Chosen(orig)
           split == q # ostart /\ q # lend
       IN /\ IF split
               THEN /\ \E k \in 0 .. Len(points) : /\ Position(points, q, k)
                                                   /\ points' = Inserted(points, q, k)
                    /\ done' = IF Enough(orig) THEN done \cup {q} ELSE done
               ELSE done' = done \cup {lstart} /\ UNCHANGED points
          /\ known' = Learned([r \in {lend} |-> orig])
          /\ pos' = q
  /\ pc' = "next"
  /\ UNCHANGED <<job, block, start, end, best, lastbest, sampled, conversion>>

\* FindLargestSplittableBlock, and whether to go on
NextBlock ==
  /\ pc = "next"
  /\ \/ /\ \E k \in 0 .. Len(points) :
             /\ IsLargest(points, done, k)
             /\ lstart' = BlockStart(points, k) /\ lend' = BlockEnd(points, k)
        /\ pc' = IF lend' - lstart' < job.opts.noblocksplitlz THEN "convert" ELSE "find"
     \/ /\ \A k \in 0 .. Len(points) : ~Splittable(points, done, k)
        /\ pc' = "convert" /\ UNCHANGED block
  /\ UNCHANGED <<job, points, done, search, conversion>>
-----------------------------------------------------------------------------
(* The conversion at the end of ZopfliBlockSplit *)

shiftSlip == 0  \* slip: the statistics are not moved to the block
shift == IF splits = <<>> THEN 0 ELSE points[Len(splits)]
LengthSlip(k) == 1  \* slip: a match counts as one byte
Length(k) == job.at[k + 1] - job.at[k]

Converted == Len(splits) = Len(points)

ConvertEntry ==
  /\ pc = "convert" /\ ~Converted /\ ci < job.size
  /\ IF points[Len(splits) + 1] = ci
       THEN splits' = Append(splits, cpos) /\ stats' = Append(stats, [from |-> shift, to |-> ci])
       ELSE UNCHANGED <<splits, stats>>
  /\ IF Len(splits') = Len(points)
       THEN UNCHANGED <<ci, cpos>>
       ELSE ci' = ci + 1 /\ cpos' = cpos + Length(ci)
  /\ UNCHANGED <<job, pc, points, done, block, search>>

Finish ==
  /\ pc = "convert" /\ (Converted \/ ci = job.size)
  /\ stats' = Append(stats, [from |-> shift, to |-> job.size])
  /\ pc' = "done"
  /\ UNCHANGED <<job, points, done, block, search, ci, cpos, splits>>

Stopped == pc = "done" /\ UNCHANGED vars

Next == Start \/ EnterFindMinimum \/ Round \/ Last \/ Decide \/ NextBlock
        \/ ConvertEntry \/ Finish \/ Stopped

Spec == Init /\ [][Next]_vars
FairSpec == Spec /\ WF_vars(Next)
-----------------------------------------------------------------------------
Searching == pc \in {"round", "decide"}

\* The variables keep to their ranges.
TypeOK ==
  /\ IsJob(job)
  /\ pc \in {"start", "find", "round", "decide", "next", "convert", "done"}
  /\ points \in Seq(0 .. job.size) /\ done \subseteq 0 .. job.size
  /\ lstart \in 0 .. job.size /\ lend \in 0 .. job.size
  /\ {start, end, pos} \subseteq 0 .. job.size
  /\ best \in Nat /\ lastbest \in Nat /\ sampled \in BOOLEAN
  /\ \A q \in DOMAIN known : q \in Nat /\ known[q] \in Nat
  /\ ci \in 0 .. job.size /\ cpos \in Nat
  /\ splits \in Seq(Nat) /\ stats \in Seq([from : Nat, to : Nat])

\* The assertions around FindMinimum: the block is not empty, and the position
\* found lies inside it, wherever the samples of the rounds have led.
InRange == /\ pc \in {"find", "round", "decide"} => lstart < lend
           /\ Searching => lstart < pos /\ pos < lend

\* The range shrinks in every round, so that FindMinimum ends.
Shrinks == [][pc = "round" /\ pc' = "round" => end' - start' < end - start]_vars

\* AddSorted keeps the split points in order and never receives one twice,
\* although blocks are split in order of their size.
Sorted == \A a, b \in 1 .. Len(points) : a < b => points[a] < points[b]

\* What DeflateSplittingFirst relies on (and the assertion at the end of
\* ZopfliBlockSplit): the points cut the part into non-empty pieces, in order.
ProperSplit ==
  /\ Sorted
  /\ pc = "done" => /\ IsSplit(splits, job.at[0], job.at[job.size])
                    /\ Len(splits) = Len(points)
                    /\ \A a \in 1 .. Len(splits) : splits[a] = job.at[points[a]]

\* Block a is optimised with the statistics of the entries of block a.
StatsOfBlock ==
  pc = "done" =>
    /\ Len(stats) = Len(splits) + 1
    /\ \A a \in 1 .. Len(stats) :
         /\ job.at[stats[a].from] = IF a = 1 THEN job.at[0] ELSE splits[a - 1]
         /\ job.at[stats[a].to] = IF a = Len(stats) THEN job.at[job.size] ELSE splits[a]

\* A block is split only where the split has been found to cost less than the
\* block as a whole.
SplitPays ==
  pc = "next" /\ pos # ostart
    => pos \in DOMAIN known /\ lend \in DOMAIN known /\ known[pos] < known[lend]

\* SplitPays with more than three samples, none of which is taken over from an
\* earlier round.
FineSplitPays == job.opts.num > 3 => SplitPays

\* "done: array indicating which blocks starting at that position are no longer
\* splittable (splitting them increases rather than decreases cost)"
\* (blocksplitter.c:197): with three samples, no split that has been computed
\* would pay.
DoneJustified ==
  pc = "next" /\ pos = ostart /\ job.opts.num = 3
    => \A q \in DOMAIN known \ {ostart, lend} : known[q] >= known[lend]

\* Splitting ends.
Terminates == <>(pc = "done")
=============================================================================
