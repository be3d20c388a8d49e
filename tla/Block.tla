-------------------------------- MODULE Block --------------------------------
(***************************************************************************)
(* The bits of a stream: blocks one after the other (AddLZ77Block,         *)
(* deflate.c), with what a container puts before and behind them. The      *)
(* output is memory that grows for each block to what the block is         *)
(* predicted to take, is cleared, and is written by adding bits, four      *)
(* bytes at a time.                                                        *)
(***************************************************************************)
EXTENDS Trees

Decoder == INSTANCE Inflate

CONSTANT Jobs  \* blocks, each with its data and entries, options, and the sizes of header and trailer

IsEntry(e) == \/ e.dist = 0 /\ e.litlen \in 0 .. 255
              \/ e.dist \in 1 .. 32768 /\ e.litlen \in 3 .. 258

ASSUME JobsAssumption ==
  \A j \in Jobs :
    /\ \A b \in DOMAIN j.blocks :
         /\ j.blocks[b].btype \in {1, 2}
         /\ \A k \in DOMAIN j.blocks[b].entries : IsEntry(j.blocks[b].entries[k])
    /\ j.hq \in 0 .. 2 /\ j.replaceCodes \in Nat /\ j.advanced \in BOOLEAN
    /\ {j.header, j.trailer} \subseteq Nat

VARIABLES
  job,           \* never changes
  pc,
  b,             \* the block
  entries,       \* litlens and dists
  frees,         \* how often each of the arrays of the block was freed
  ll, d,         \* the lengths
  best, outpred, i,
  k,             \* entries written
  bits,          \* of the output, without the header
  capacity,      \* bytes allocated
  cleared,       \* bytes up to here are zero where nothing was written
  reach          \* bytes before this one may have been accessed; history

code == <<ll, d, best, outpred, i>>
memory == <<capacity, cleared>>
vars == <<job, pc, b, entries, frees, code, k, bits, memory, reach>>

block == job.blocks[b]
replaceCodes == job.replaceCodes

written == 8 * job.header + Len(bits)       \* bits
outsize == (written + 7) \div 8             \* bytes

\* ZOPFLI_APPEND_PARRAY: the least power of two above size + count - 1 unless there is enough
Demanded(size, count) == 2 ^ (floor_log2(size + count - 1) + 1)
Appended(size, count) ==
  IF Demanded(size, count) >= 2 * size THEN Demanded(size, count) ELSE capacity

Put(new) ==
  /\ bits' = bits \o new
  /\ reach' = Most(reach, (written + Len(new)) \div 8 + 4)  \* four bytes from where bits of no length would go

Init ==
  /\ job \in Jobs
  /\ pc = "header" /\ b = 0
  /\ entries = <<>> /\ frees = <<>>
  /\ ll = FixedLengths.ll /\ d = FixedLengths.d /\ best = 0 /\ outpred = 0 /\ i = 0 /\ k = 0
  /\ bits = <<>> /\ capacity = 0 /\ cleared = 0 /\ reach = 0
-----------------------------------------------------------------------------
Header ==
  /\ pc = "header"
  /\ capacity' = IF job.header = 0 THEN 0 ELSE Demanded(0, job.header)
  /\ reach' = job.header
  /\ pc' = IF job.blocks = <<>> THEN "empty" ELSE "next"
  /\ UNCHANGED <<job, b, entries, frees, code, k, bits, cleared>>

\* The final bit, the type, and the end of the block. This memory is not cleared.
Empty ==
  /\ pc = "empty"
  /\ capacity' = outsize + 10
  /\ \E garbage \in [3 .. 10 -> {0, 1}] :
       bits' = [n \in 1 .. 10 |-> IF n <= 2 THEN 1 ELSE garbage[n]]
  /\ reach' = outsize + 4
  /\ pc' = "trailer"
  /\ UNCHANGED <<job, b, entries, frees, code, k, cleared>>

NextBlock ==
  /\ pc = "next" /\ b < Len(job.blocks)
  /\ b' = b + 1
  /\ entries' = job.blocks[b + 1].entries
  /\ frees' = <<0>>
  /\ pc' = "measure"
  /\ UNCHANGED <<job, code, k, bits, memory, reach>>

Fixed ==
  /\ pc = "measure" /\ block.btype = 1
  /\ ll' = FixedLengths.ll /\ d' = FixedLengths.d
  /\ outpred' = FixedSize(entries)
  /\ pc' = "alloc"
  /\ UNCHANGED <<job, b, entries, frees, best, i, k, bits, memory, reach>>

AddTree(dynamic, size, tree) ==
  /\ d' = PatchDistanceCodesForBuggyDecoders(dynamic)
  /\ outpred' = size + tree.size /\ best' = tree.best

Lengthen(withTree) ==
  \E dynamic \in {GetDynamicLengths(entries)} :
    /\ ll' = dynamic.ll
    /\ IF withTree
         THEN AddTree(dynamic.d, 3 + dynamic.size, CalculateTreeSize(dynamic.ll, dynamic.d, job.hq))
         ELSE d' = dynamic.d /\ outpred' = 3 + dynamic.size /\ UNCHANGED best

Dynamic ==
  /\ pc = "measure" /\ block.btype = 2
  /\ Lengthen(TRUE)
  /\ i' = 0
  /\ pc' = "replace"
  /\ UNCHANGED <<job, b, entries, frees, k, bits, memory, reach>>

Start(n) == SumSeq([c \in 1 .. n - 1 |-> Len(job.blocks[c].data)])
Data == Flat([c \in DOMAIN job.blocks |-> job.blocks[c].data])
Replaced == ReplaceBadCodes(entries, Data, Start(b), ll, d)

ReplaceBy(new) ==
  /\ entries' = new
  /\ frees' = Append([frees EXCEPT ![Len(frees)] = @ + 1], 0)
  /\ IF new # entries
       THEN i' = i + 1 /\ UNCHANGED <<pc, d, best, outpred>>
       ELSE /\ pc' = "alloc" /\ UNCHANGED i
            /\ IF i # 0 /\ i + 1 # replaceCodes
                 THEN AddTree(d, outpred, CalculateTreeSize(ll, d, job.hq))
                 ELSE UNCHANGED <<d, best, outpred>>

\* an even turn; the tree is measured when it was not in the turn before
Replace ==
  /\ pc = "replace" /\ i < replaceCodes /\ i % 2 = 0
  /\ \E new \in {Replaced} : ReplaceBy(new)
  /\ UNCHANGED <<job, b, ll, k, bits, memory, reach>>

MeasuredSlip(n) == job.advanced  \* slip: the last turn leaves the tree to a turn that never comes
Measured(n) == replaceCodes - n < 3 \/ job.advanced

\* an odd one
Remeasure ==
  /\ pc = "replace" /\ i < replaceCodes /\ i % 2 = 1
  /\ Lengthen(Measured(i))
  /\ i' = i + 1
  /\ UNCHANGED <<job, pc, b, entries, frees, k, bits, memory, reach>>

EndReplace ==
  /\ pc = "replace" /\ i >= replaceCodes
  /\ pc' = "alloc"
  /\ UNCHANGED <<job, b, entries, frees, code, k, bits, memory, reach>>

BytesSlip(n) == n \div 8  \* slip: without the bytes that are accessed behind the last one
Bytes(n) == n \div 8 + 1 + 8

Alloc ==
  /\ pc = "alloc"
  /\ outpred' = outpred + written
  /\ capacity' = Bytes(outpred + written)
  /\ cleared' = (outpred + written + 7) \div 8 + 8
  /\ k' = 0
  /\ pc' = "start"
  /\ UNCHANGED <<job, b, entries, frees, ll, d, best, i, bits, reach>>

BlockHeader == <<IF b = Len(job.blocks) THEN 1 ELSE 0>> \o Bits(block.btype, 2)

StartFixed ==
  /\ pc = "start" /\ block.btype = 1
  /\ Put(BlockHeader)
  /\ pc' = "data"
  /\ UNCHANGED <<job, b, entries, frees, code, k, memory>>

StartDynamic ==
  /\ pc = "start" /\ block.btype = 2 /\ ~job.advanced
  /\ d' = PatchDistanceCodesForBuggyDecoders(d)
  /\ Put(BlockHeader \o TreeBits(ll, d', Options(best, job.hq)))
  /\ pc' = "data"
  /\ UNCHANGED <<job, b, entries, frees, ll, best, outpred, i, k, memory>>

\* other lengths than those the memory was measured for
StartAdvanced ==
  /\ pc = "start" /\ block.btype = 2 /\ job.advanced
  /\ \E advanced \in {GetAdvancedLengths(entries)} :
       /\ ll' = advanced.ll
       /\ AddTree(advanced.d, written + 3 + advanced.size, CalculateTreeSize(advanced.ll, advanced.d, 2))
  /\ Put(BlockHeader \o TreeBits(ll', d', best'))
  /\ pc' = "data"
  /\ UNCHANGED <<job, b, entries, frees, i, k, memory>>

AddLZ77Data ==
  /\ pc = "data" /\ k < Len(entries)
  /\ Put(EntryBits(entries[k + 1], ll, d))
  /\ k' = k + 1
  /\ UNCHANGED <<job, pc, b, entries, frees, code, memory>>

\* The arrays are freed here, or by the caller if they are those it has given.
FreedSlip(n) == n = 1  \* slip: whoever has replaced the arrays keeps them
Freed(n) == IF replaceCodes = 0 THEN n = 1 ELSE n = Len(frees)

EndBlock ==
  /\ pc = "data" /\ k = Len(entries)
  /\ Put(CodeBits(ll, EndOfBlock))
  /\ frees' = [n \in DOMAIN frees |-> IF Freed(n) THEN frees[n] + 1 ELSE frees[n]]
  /\ pc' = "next"
  /\ UNCHANGED <<job, b, entries, code, k, memory>>

EndOfBlocks ==
  /\ pc = "next" /\ b = Len(job.blocks)
  /\ pc' = "trailer"
  /\ UNCHANGED <<job, b, entries, frees, code, k, bits, memory, reach>>

Trailer ==
  /\ pc = "trailer"
  /\ capacity' = IF job.trailer = 0 THEN capacity ELSE Appended(outsize, job.trailer)
  /\ reach' = Most(reach, outsize + job.trailer)
  /\ pc' = "done"
  /\ UNCHANGED <<job, b, entries, frees, code, k, bits, cleared>>

Stopped == pc = "done" /\ UNCHANGED vars

Next ==
  \/ Header \/ Empty \/ NextBlock \/ Fixed \/ Dynamic \/ Replace \/ Remeasure \/ EndReplace \/ Alloc
  \/ StartFixed \/ StartDynamic \/ StartAdvanced \/ AddLZ77Data \/ EndBlock \/ EndOfBlocks \/ Trailer \/ Stopped

Spec == Init /\ [][Next]_vars
-----------------------------------------------------------------------------
TypeOK ==
  /\ pc \in {"header", "empty", "next", "measure", "replace", "alloc", "start", "data", "trailer", "done"}
  /\ b \in 0 .. Len(job.blocks) /\ k \in 0 .. Len(entries) /\ i \in 0 .. replaceCodes
  /\ \A n \in DOMAIN entries : IsEntry(entries[n])
  /\ \A s \in LitLens : ll[s] \in 0 .. 15
  /\ \A s \in Dists : d[s] \in 0 .. 15
  /\ best \in 0 .. 31
  /\ \A n \in DOMAIN bits : bits[n] \in {0, 1}
  /\ {outpred, capacity, cleared, reach} \subseteq Nat

\* What was written is read, by RFC 1951, as the data: whatever was done to the
\* counts, lengths and entries on the way (the comment on AddLZ77Data's
\* expected_data_size, an assert, says so of the number of bytes only). Not for
\* an input of no byte, see Empty.
Decodes ==
  pc = "done" /\ job.blocks # <<>> => Decoder!StandFor(bits, Data)

\* The size that was predicted is the size that is written: exactly if the last
\* turn measures (the assert behind AddLZ77Data), and at least that if it
\* replaces.
Predicted ==
  pc = "next" /\ b > 0 =>
    IF replaceCodes % 2 = 0 \/ block.btype = 1 THEN written = outpred ELSE written <= outpred

\* Bits are added to memory that is there and was cleared, also by the writes of
\* four bytes at a time, for a block that may take longer lengths than those it
\* was measured with (advanced); and the trailer fits even where it needs no more
\* memory by the rule of powers of two that only holds for other arrays.
Fits ==
  /\ reach <= capacity
  /\ pc \in {"start", "data"} => outsize <= cleared /\ cleared <= capacity
  /\ pc = "next" /\ b > 0 => reach <= cleared

\* Every array that held the entries of the block is freed once: those that were
\* replaced, and in the end either here or by the caller, who cannot tell which.
FreedOnce ==
  pc = "next" /\ b > 0 => \A n \in DOMAIN frees : frees[n] = 1
=============================================================================
