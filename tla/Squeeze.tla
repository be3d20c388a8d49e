------------------------------- MODULE Squeeze -------------------------------
(***************************************************************************)
(* The shortest-path search of squeeze.c over the blocks of one part.      *)
(*                                                                         *)
(* DeflateSplittingFirst hands the blocks of a part to DeflateDynamicBlock *)
(* one after the other.  Each block is searched by one or more calls of    *)
(* GetBestLengths, which walks the block with a binary tree match finder   *)
(* p.  Three things make the walk delicate and are modelled here:          *)
(*   - the finder of a block is handed to the next one through the globals *)
(*     mf and right instead of being rebuilt;                              *)
(*   - the first of several runs records the matches in a cache, the later *)
(*     ones (GetBestLengths2) replay it;                                   *)
(*   - long runs of one byte are skipped, and every skip must move i, the  *)
(*     finder, the cache and the cost array together.                      *)
(*                                                                         *)
(* The input is represented by the length of the repetition that starts at *)
(* each position (run), a cost by whether it has been set to something     *)
(* smaller than the filler of the array (reach), and the price of a        *)
(* finished run by a number of Costs.  Positions are offsets in the input. *)
(***************************************************************************)
EXTENDS MatchSizes, Sequences

CONSTANTS
  Window,     \* ZOPFLI_WINDOW_SIZE
  EagerStop,  \* 6 in the code: fewer iterations than this stop at the first
              \* run that does not improve
  UltraOnce,  \* 16 in the code
  UltraShort, \* 30 in the code
  StIter,     \* 4 in the code: the iteration that saves the cost model
  Costs,      \* block sizes a run may be priced at
  Large,      \* ZOPFLI_LARGE_FLOAT
  Jobs        \* the inputs: options, size, equal neighbours, split points

ASSUME WindowAssumption == Window \in Nat

ASSUME CostsAssumption == Large \in Nat /\ Costs \subseteq 0 .. Large - 1

\* run[k] is the number of bytes from k on that repeat the byte before k
IsJob(j) ==
  /\ j.n \in Nat \ {0}
  /\ j.run \in [0 .. j.n -> Nat]
  /\ \A k \in 0 .. j.n : /\ j.run[k] <= j.n - k
                       /\ \A d \in 0 .. j.run[k] : j.run[k + d] = j.run[k] - d
  /\ j.splits \subseteq 1 .. j.n - 1
  /\ j.opts.numiterations \in Nat \ {0} /\ j.opts.skipdynamic \in Nat

ASSUME JobsAssumption == \A j \in Jobs : IsJob(j)

VARIABLES
  job,       \* the part being compressed, never changes
  blk,       \* [from, to] of the block being searched
  call,      \* the run in progress
  pc, i,     \* control of the run, and its position
  p,         \* the match finder of the run
  mf, right, \* the finder handed over, and whether it is there
  copies,    \* tables allocated by CopyMF that no block has taken yet
  mtype,     \* match_type
  reach,     \* positions whose entry of costs is not the filler
  cache, cptr, \* LZCache
  best,      \* bestcost
  inited,    \* ~costmodelnotinited
  st         \* whether the static cost model has been written

vars == <<job, blk, call, pc, i, p, mf, right, copies, mtype, reach, cache, cptr,
          best, inited, st>>
walk == <<i, p, mtype, reach>>
handed == <<mf, right, copies>>

(* Definitions marked "slip" are plausible mistakes in the definition that   *)
(* follows them; they are used only to see that the properties notice.       *)

NoFinder == [buf |-> 0, end |-> 0, low |-> 0, cut |-> FALSE]

(***************************************************************************)
(* Blocks.  x of DeflateSplittingFirst is 0 for an only block, 2 for the   *)
(* first, 1 for the last and 3 in between: bit 0 allows to take the        *)
(* finder of the block before, bit 1 to leave one for the block after.     *)
(***************************************************************************)
Ends == job.splits \cup {job.n}
IsNextBlock(b) == /\ b.from = blk.to /\ b.to \in Ends /\ b.from < b.to
                  /\ \A e \in Ends : e > b.from => b.to <= e
ImportBit(b) == b.from # 0
ExportBitSlip(b) == TRUE  \* slip: the last block leaves a finder too
ExportBit(b) == b.to # job.n

Smaller(a, b) == IF a < b THEN a ELSE b

\* GetMatch(&in[k], &in[k - 1], &in[inend])
RunLength(k) == Smaller(job.run[k], blk.to - k)

(***************************************************************************)
(* The match finder.  buf is the next position to enter in the tree, low   *)
(* the first one the tree holds, and cut says that some position was       *)
(* entered when fewer than MaxMatch bytes were left before bufend, so that *)
(* its place in the tree rests on a shortened comparison.                  *)
(***************************************************************************)
Move(f, num) ==
  [buf |-> f.buf + num, end |-> f.end, low |-> f.low,
   cut |-> f.cut \/ (num > 0 /\ f.buf + num - 1 + MaxMatch > f.end)]

Create(b) ==
  LET start == IF b.from > Window THEN b.from - Window ELSE 0
  IN Move([buf |-> start, end |-> b.to, low |-> start, cut |-> FALSE],
          b.from - start)

Import(b) == Move([mf EXCEPT !.end = b.to], MaxMatch)

\* GetMatches returns without moving when fewer than MinMatch bytes are left
GetMatches(f) == IF f.end - f.buf < MinMatch THEN f ELSE Move(f, 1)

SkipRunSlip(f, num) ==  \* slip: the tree restarts one position too far
  IF num > Window THEN Move([f EXCEPT !.buf = i + num, !.low = i + num], 1)
                  ELSE Move(f, num)
\* a run longer than the window is not entered: the tree is emptied instead
SkipRun(f, num) ==
  IF num > Window
    THEN Move([f EXCEPT !.buf = i + num - 1, !.low = i + num - 1, !.cut = FALSE], 1)
    ELSE Move(f, num)
-----------------------------------------------------------------------------
(***************************************************************************)
(* Calls: which runs a block needs and in which order.                     *)
(***************************************************************************)
NextMode(iter) == IF job.opts.numiterations = 1 \/ ~job.opts.useCache THEN "plain"
                  ELSE IF iter = 1 THEN "record" ELSE "replay"

OptimalCall(b, iter) == [kind |-> "optimal", iter |-> iter, mode |-> NextMode(iter),
                         imp |-> ImportBit(b), exp |-> ExportBit(b)]
FixedCall(b) == [kind |-> "fixed", iter |-> 1, mode |-> "plain",
                 imp |-> ImportBit(b), exp |-> ExportBit(b)]
UltraCall(b) == [kind |-> "ultra", iter |-> 1,
                 mode |-> IF job.opts.useCache THEN "replay" ELSE "plain",
                 imp |-> ImportBit(b), exp |-> ExportBit(b)]
OwnCall == [kind |-> "own", iter |-> 1, mode |-> "own", imp |-> FALSE, exp |-> FALSE]
StaticCall == [kind |-> "static", iter |-> 1, mode |-> "plain",
               imp |-> FALSE, exp |-> FALSE]

Init ==
  /\ job \in Jobs
  /\ blk = [from |-> 0, to |-> 0]
  /\ call = StaticCall
  /\ pc = "block" /\ i = 0
  /\ p = NoFinder /\ mf = NoFinder /\ right = FALSE /\ copies = 0
  /\ mtype = "none" /\ reach = {}
  /\ cache = <<>> /\ cptr = 0
  /\ best = Large
  /\ inited = FALSE /\ st = FALSE

\* DeflateDynamicBlock: small blocks get a fixed tree at once
StartBlock ==
  /\ pc = "block" /\ blk.to < job.n
  /\ \E b \in [from : {blk.to}, to : Ends] :
       /\ IsNextBlock(b)
       /\ blk' = b
       /\ call' = IF b.to - b.from <= job.opts.skipdynamic
                    THEN FixedCall(b) ELSE OptimalCall(b, 1)
  /\ best' = Large
  /\ cache' = <<>> /\ cptr' = 0
  /\ pc' = "begin"
  /\ UNCHANGED <<job, walk, handed, inited, st>>

Finish ==
  /\ pc = "block" /\ blk.to = job.n
  /\ pc' = "done"
  /\ UNCHANGED <<job, blk, call, walk, handed, cache, cptr, best, inited, st>>

\* GetBestLengths, up to its loop
BeginSearch ==
  /\ pc = "begin" /\ call.mode \in {"plain", "record"}
  /\ IF call.imp /\ right
       THEN p' = Import(blk) /\ right' = FALSE /\ copies' = copies - 1
       ELSE p' = Create(blk) /\ UNCHANGED <<right, copies>>
  /\ i' = blk.from /\ mtype' = "none" /\ reach' = {blk.from}
  /\ pc' = "loop"
  /\ UNCHANGED <<job, blk, call, mf, cache, cptr, best, inited, st>>

\* GetBestLengths2 has no finder
BeginReplay ==
  /\ pc = "begin" /\ call.mode = "replay"
  /\ i' = blk.from /\ mtype' = "none" /\ reach' = {blk.from}
  /\ pc' = "loop"
  /\ UNCHANGED <<job, blk, call, p, handed, cache, cptr, best, inited, st>>

\* GetBestLengthsultra2 has a finder of its own, hash chains that start anew
BeginOwn ==
  /\ pc = "begin" /\ call.mode = "own"
  /\ i' = blk.from /\ mtype' = "none" /\ reach' = {blk.from}
  /\ pc' = "loop"
  /\ UNCHANGED <<job, blk, call, p, handed, cache, cptr, best, inited, st>>
-----------------------------------------------------------------------------
(***************************************************************************)
(* One iteration of the loop of GetBestLengths and GetBestLengths2.        *)
(***************************************************************************)
SkipCostsSlip(num) ==  \* slip: the costs are all read before any is written
  LET last == i + num - 1 + MaxMatch
  IN {q \in reach : q < i + MaxMatch \/ q > last} \cup
     {q \in i + MaxMatch .. last : q - MaxMatch \in reach}
\* costs[k + MaxMatch] = costs[k] + price for the num positions from i on:
\* the assignment is unconditional and copies the filler too
SkipCosts(num) ==
  LET last == i + num - 1 + MaxMatch
  IN {q \in reach : q < i + MaxMatch \/ q > last} \cup
     {q \in i + MaxMatch .. last : i + ((q - i) % MaxMatch) \in reach}

SkipCount == RunLength(i) - MaxMatch + 1

AtRun == pc = "loop" /\ i < blk.to /\ mtype = "ML_RLE" /\ call.mode # "own"

\* the last position with more than MaxMatch bytes of the block after it
ExportPoint == blk.to - MaxMatch - 1
ExportInSkip == call.exp /\ i + SkipCount > ExportPoint /\ i <= ExportPoint

AfterSkip(k) == IF call.mode # "replay" /\ k + MaxMatch < blk.to
                  THEN "RLE" ELSE "none"

\* CopyMF(&p, &mf); right = 1
Export(f) == mf' = f /\ right' = TRUE /\ copies' = copies + 1

\* more than MaxMatch equal bytes follow
SkipRepetition ==
  /\ AtRun /\ RunLength(i) >= MaxMatch
  /\ reach' = SkipCosts(SkipCount)
  /\ CASE call.mode = "replay" -> UNCHANGED <<p, handed>>
       [] call.mode # "replay" /\ ExportInSkip ->
            LET now == blk.to - MaxMatch - i
            IN Export(Move(p, now)) /\ p' = Move(mf', SkipCount - now)
       [] OTHER -> p' = SkipRun(p, SkipCount) /\ UNCHANGED handed
  /\ i' = i + SkipCount
  /\ mtype' = AfterSkip(i')
  /\ pc' = "find"
  /\ UNCHANGED <<job, blk, call, cache, cptr, best, inited, st>>

NoSkip ==
  /\ AtRun /\ RunLength(i) < MaxMatch
  /\ mtype' = AfterSkip(i)
  /\ pc' = "find"
  /\ UNCHANGED <<job, blk, call, i, p, handed, reach, cache, cptr, best,
                 inited, st>>

\* What the finder may report at i: the lengths of its pairs, the nearest match
\* first and each longer than the one before, and whether the nearest has
\* distance 1. It is the repetition of the byte before when that is long enough.
Pairs ==
  LET left == Smaller(blk.to - i, MaxMatch)
      rle == Smaller(RunLength(i), left)
  IN IF p.low = i \/ left < MinMatch
       THEN {[lengths |-> {}, one |-> FALSE]}
       ELSE IF rle >= MinMatch
         THEN {[lengths |-> {rle} \cup longer, one |-> TRUE] : longer \in SUBSET (rle + 1 .. left)}
         ELSE [lengths : SUBSET (MinMatch .. left), one : {FALSE}]

\* the only pair, matches[0] == ZOPFLI_MAX_MATCH
OnlyFull(m) == m.lengths = {MaxMatch}

\* Pairs that GetBestLengths may find not promising: what is there already is
\* cheaper by more than six bits.
Prunable(m) == {l \in m.lengths : i + l \in reach}

\* A pair writes the lengths up to its own that the one before it leaves; one
\* that is pruned leaves its share unwritten.
Offered(m, pruned) ==
  {l \in MinMatch .. MaxMatch : \E pair \in m.lengths \ pruned :
     l <= pair /\ \A other \in m.lengths : l <= other => pair <= other}

\* relaxation of the costs from position i with the matches m
Relax(m, pruned) ==
  IF i \in reach
    THEN reach \cup {i + l : l \in {1} \cup IF OnlyFull(m) THEN {MaxMatch} ELSE Offered(m, pruned)}
    ELSE IF OnlyFull(m) THEN reach \ {i + MaxMatch} ELSE reach

\* match_type for the next position; again says that the byte after a match
\* of MaxMatch bytes extends it
NextTypeSlip(m, again) ==  \* slip: the match may end at the end of the block
  IF OnlyFull(m) /\ m.one THEN "ML_RLE"
  ELSE IF MaxMatch \in m.lengths /\ i + MaxMatch <= blk.to /\ again THEN "ML_MATCH"
  ELSE IF ~OnlyFull(m) /\ m.one /\ MinMatch \notin m.lengths /\ i + MaxMatch <= blk.to
    THEN "RLE" ELSE "none"
NextType(m, again) ==
  LET more == i + MaxMatch < blk.to
  IN CASE OnlyFull(m) /\ m.one -> "ML_RLE"
       [] MaxMatch \in m.lengths /\ ~(OnlyFull(m) /\ m.one) /\ more /\ again -> "ML_MATCH"
       [] ~OnlyFull(m) /\ ~(MaxMatch \in m.lengths /\ more /\ again)
          /\ m.one /\ MinMatch \notin m.lengths /\ more -> "RLE"
       [] OTHER -> "none"

AtPosition == \/ pc = "find"
              \/ pc = "loop" /\ i < blk.to /\ mtype # "ML_RLE"

Find(m, again, pruned) ==
  /\ p' = IF call.mode = "record" \/ mtype = "none" THEN GetMatches(p) ELSE Move(p, 1)
  /\ mtype' = NextType(m, again)
  /\ reach' = Relax(m, pruned)
  /\ IF call.mode = "record"
       THEN cache' = Append(cache, [at |-> i, pairs |-> m]) /\ cptr' = cptr + 1
       ELSE UNCHANGED <<cache, cptr>>
  /\ IF i = ExportPoint /\ call.exp
       THEN Export(p') ELSE UNCHANGED handed
  /\ i' = i + 1
  /\ pc' = "loop"
  /\ UNCHANGED <<job, blk, call, best, inited, st>>

SearchPosition ==
  /\ AtPosition /\ call.mode \in {"plain", "record"}
  /\ \E m \in Pairs : \E again \in BOOLEAN : \E pruned \in SUBSET Prunable(m) :
       Find(m, again, pruned)

\* GetBestLengths2 reads the next cached entry; it looks at ML_RLE only, and
\* takes every pair for promising
ReplayPosition ==
  /\ AtPosition /\ call.mode = "replay"
  /\ cptr < Len(cache)
  /\ LET m == cache[cptr + 1].pairs
     IN /\ mtype' = IF OnlyFull(m) /\ m.one THEN "ML_RLE" ELSE "none"
        /\ reach' = Relax(m, {})
  /\ cptr' = cptr + 1
  /\ i' = i + 1
  /\ pc' = "loop"
  /\ UNCHANGED <<job, blk, call, p, handed, cache, best, inited, st>>

\* GetBestLengthsultra2: a pair writes every length up to its own, so the longest
\* decides; LZ4HC_InsertAndFindBestMatch3 finds any, within the block
OwnPosition ==
  /\ AtPosition /\ call.mode = "own"
  /\ \E longest \in {0} \cup MinMatch .. Smaller(blk.to - i, MaxMatch) :
       reach' = IF i \in reach
                  THEN reach \cup {i + l : l \in {1} \cup MinMatch .. longest} ELSE reach
  /\ i' = i + 1
  /\ pc' = "loop"
  /\ UNCHANGED <<job, blk, call, p, mtype, handed, cache, cptr, best, inited, st>>

EndRunSlip ==  \* slip: the cache pointer is not put back
  /\ pc = "loop" /\ i >= blk.to
  /\ pc' = "after"
  /\ UNCHANGED <<job, blk, call, walk, handed, cache, cptr, best, inited, st>>

EndRun ==
  /\ pc = "loop" /\ i >= blk.to
  /\ pc' = "after"
  /\ cptr' = 0
  /\ UNCHANGED <<job, blk, call, walk, handed, cache, best, inited, st>>
-----------------------------------------------------------------------------
(***************************************************************************)
(* After a run: ZopfliLZ77Optimal and ZopfliLZ77Optimal2 price it and      *)
(* choose the next one, then DeflateDynamicBlock tries the fixed tree.     *)
(***************************************************************************)
ImprovesSlip(cost) == cost <= best  \* slip: a tie counts as a gain
Improves(cost) == cost < best

DynamicDoneSlip(written) ==  \* slip: the statistics are kept in the iteration StIter only
  /\ UNCHANGED st
  /\ inited' = TRUE
  /\ \/ job.opts.trystatic /\ call' = StaticCall /\ pc' = "begin"
     \/ pc' = "block" /\ UNCHANGED call
\* the last statements of the search of a dynamic block, back in
\* DeflateDynamicBlock: the block may be tried with the fixed tree too
DynamicDone(written) ==
  /\ st' = (st \/ written)
  /\ inited' = TRUE
  /\ \/ job.opts.trystatic /\ call' = StaticCall /\ pc' = "begin"
     \/ pc' = "block" /\ UNCHANGED call

Again(c) == call' = c /\ pc' = "begin" /\ UNCHANGED <<inited, st>>

\* numiterations is 1: a single run, whose statistics become st
SingleDone ==
  /\ pc = "after" /\ call.kind = "optimal" /\ job.opts.numiterations = 1
  /\ DynamicDone(TRUE)
  /\ UNCHANGED <<job, blk, walk, handed, cache, cptr, best>>

IterationDone ==
  /\ pc = "after" /\ call.kind = "optimal" /\ job.opts.numiterations > 1
  /\ \E cost \in Costs :
       /\ best' = Smaller(cost, best)
       /\ IF /\ call.iter < job.opts.numiterations
             /\ Improves(cost) \/ job.opts.numiterations >= EagerStop
            THEN /\ call' = OptimalCall(blk, call.iter + 1) /\ pc' = "begin"
                 /\ st' = (st \/ (call.iter = StIter /\ job.opts.reuse))
                 /\ UNCHANGED inited
            ELSE IF job.opts.ultra > 0
              THEN Again(UltraCall(blk))
              ELSE DynamicDone(job.opts.reuse)
  /\ UNCHANGED <<job, blk, walk, handed, cache, cptr>>

\* stop says that the gain was below 80 bits
UltraDone ==
  /\ pc = "after" /\ call.kind = "ultra"
  /\ \E cost \in Costs : \E stop \in BOOLEAN :
       /\ best' = Smaller(cost, best)
       /\ IF Improves(cost)
            THEN IF \/ stop /\ job.opts.numiterations < UltraShort
                    \/ job.opts.numiterations < UltraOnce
                   THEN DynamicDone(job.opts.reuse)
                   ELSE Again(UltraCall(blk))
            ELSE IF job.opts.ultra >= 2
                   THEN Again(OwnCall)
                   ELSE DynamicDone(job.opts.reuse)
  /\ UNCHANGED <<job, blk, walk, handed, cache, cptr>>

OwnDone ==
  /\ pc = "after" /\ call.kind = "own"
  /\ \E cost \in Costs :
       /\ best' = Smaller(cost, best)
       /\ IF Improves(cost) /\ job.opts.ultra = 3
            THEN Again(OwnCall) ELSE DynamicDone(job.opts.reuse)
  /\ UNCHANGED <<job, blk, walk, handed, cache, cptr>>

\* a block at or below skipdynamic never touches st, yet counts as a block
\* that initialised the cost model
FixedDone ==
  /\ pc = "after" /\ call.kind = "fixed"
  /\ inited' = TRUE
  /\ pc' = "block"
  /\ UNCHANGED <<job, blk, call, walk, handed, cache, cptr, best, st>>

StaticDone ==
  /\ pc = "after" /\ call.kind = "static"
  /\ pc' = "block"
  /\ UNCHANGED <<job, blk, call, walk, handed, cache, cptr, best, inited, st>>

Search == BeginSearch \/ BeginReplay \/ BeginOwn \/ SkipRepetition \/ NoSkip
          \/ SearchPosition \/ ReplayPosition \/ OwnPosition \/ EndRun

Decide == SingleDone \/ IterationDone \/ UltraDone \/ OwnDone \/ FixedDone \/ StaticDone

Stopped == pc = "done" /\ UNCHANGED vars

Next == StartBlock \/ Finish \/ Search \/ Decide \/ Stopped

Spec == Init /\ [][Next]_vars
FairSpec == Spec /\ WF_vars(Next)
-----------------------------------------------------------------------------
Kinds == {"fixed", "optimal", "ultra", "own", "static"}
Modes == {"plain", "record", "replay", "own"}
Matches == [lengths : SUBSET Nat, one : BOOLEAN]
Finders == [buf : Nat, end : Nat, low : Nat, cut : BOOLEAN]

\* The variables keep to their ranges.
TypeOK ==
  /\ IsJob(job)
  /\ blk \in [from : Nat, to : Nat]
  /\ call \in [kind : Kinds, iter : Nat \ {0}, mode : Modes, imp : BOOLEAN, exp : BOOLEAN]
  /\ pc \in {"block", "begin", "loop", "find", "after", "done"}
  /\ i \in Nat
  /\ p \in Finders /\ mf \in Finders
  /\ right \in BOOLEAN /\ copies \in Nat
  /\ mtype \in {"none", "RLE", "ML_MATCH", "ML_RLE"}
  /\ reach \subseteq Nat
  /\ cache \in Seq([at : Nat, pairs : Matches]) /\ cptr \in Nat
  /\ best \in Nat
  /\ inited \in BOOLEAN /\ st \in BOOLEAN

\* GetBestLengths is in its loop
Walking == pc \in {"loop", "find"} /\ call.mode \in {"plain", "record"}

\* The finder stands at the position being searched, from the handover of the
\* block before (assert(p.buffer == &in[instart])) through every skip, up to
\* the last bytes of the block, where GetMatches no longer moves it.
InStep == Walking /\ blk.to - i >= MinMatch => p.buf = i

\* A finder waits in mf only between the two blocks it is meant for: it stands
\* MaxMatch bytes before the start of the next block, and none is left over
\* when the part is done (it would leak, or reach into another buffer).
HandOverAt ==
  /\ right /\ pc = "block" => mf.buf + MaxMatch = blk.to
  /\ right /\ pc = "begin" /\ call.mode \in {"plain", "record"} /\ call.imp
       => mf.buf + MaxMatch = blk.from
  /\ pc = "done" => ~right

\* The next block compares up to MaxMatch bytes, further than the old bufend:
\* no position of a finder handed over was entered with a comparison cut short.
HandOverUncut == right => ~mf.cut

\* No finder is put in mf while another one waits there: CopyMF would leave
\* the tables of the first one without an owner.
NoFinderLost == copies = IF right THEN 1 ELSE 0

\* A finder goes from a block to the next one of the same part, in one piece.
HandOver == HandOverAt /\ HandOverUncut /\ NoFinderLost

\* GetMatches2 and GetMatches3 compare MaxMatch bytes without looking at
\* bufend, and GetMatches2 takes a repetition of at least MinMatch bytes and an
\* entry for the position before as given.
FastPathPromise ==
  /\ Walking /\ (pc = "find" \/ i < blk.to) /\ mtype \in {"RLE", "ML_MATCH"}
       => p.end - p.buf >= MaxMatch
  /\ Walking /\ mtype = "RLE" => RunLength(i) >= MinMatch /\ p.low < p.buf

\* Every entry a replay reads is the one recorded for that position, although
\* both runs skip repetitions on their own.
ReplayInStep ==
  AtPosition /\ call.mode = "replay" => cptr < Len(cache) /\ cache[cptr + 1].at = i

\* The end of the block has a cost of its own whenever a run ends, so that the
\* path followed back from it consists of entries the run has written: neither
\* the unconditional assignments of a repetition nor the pairs that are passed
\* over as not promising ever cut it off.
EndReached == pc = "after" => blk.to \in reach

\* The search of a part ends.
Terminates == <>(pc = "done")

Pieces == {b \in [from : Ends \cup {0}, to : Ends] :
             b.from < b.to /\ \A e \in Ends : e > b.from => b.to <= e}

IsLarge(b) == b.to - b.from > job.opts.skipdynamic

\* The first run of a block starts from st, or from a mixture with it. With a
\* single iteration and reuse the first block of all does so too.
TakesSt == /\ pc = "begin" /\ call.kind = "optimal" /\ call.iter = 1
           /\ IF job.opts.numiterations = 1 THEN job.opts.reuse \/ inited
                                            ELSE job.opts.reuse /\ inited

\* What such a run finds there are statistics of a block of this part if, and
\* only if, one of the blocks before it was larger than skipdynamic: the flag
\* costmodelnotinited alone does not say so. Otherwise they are those that the
\* part, or the file, before this one has left.
StSeeded ==
  TakesSt => (st <=> \E b \in Pieces : b.to <= blk.from /\ IsLarge(b))
=============================================================================
