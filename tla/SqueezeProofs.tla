---------------------------- MODULE SqueezeProofs ----------------------------
(***************************************************************************)
(* Proofs about Squeeze: whatever the sizes, the input, the split points   *)
(* and the options, the match finder stays in step with the search and is  *)
(* handed over whole, as long as no block is searched twice without the    *)
(* match cache. At the end, proofs about PathTrace: the path that a run    *)
(* leaves becomes the entries of the block.                                *)
(***************************************************************************)
EXTENDS Squeeze, PathTrace, SequenceTheorems, TLAPS

\* What ZopfliInitOptions guarantees: useCache is always set.
OneSearch == \A j \in Jobs : j.opts.numiterations = 1 \/ j.opts.useCache

Active == pc \in {"begin", "loop", "find", "after"}
FirstCall == call.kind = "fixed" \/ (call.kind = "optimal" /\ call.iter = 1)

\* the bounds of the block
BlkInv ==
  /\ blk.to <= job.n
  /\ Active => blk.from < blk.to
  /\ pc = "done" => blk.to = job.n

\* only the first run of a block can take or leave a finder
CallInv ==
  Active =>
    /\ IF FirstCall
         THEN /\ call.imp <=> ImportBit(blk)
              /\ call.exp <=> ExportBit(blk)
              /\ call.mode \in {"plain", "record"}
         ELSE call.mode # "replay" => ~call.imp /\ ~call.exp
    /\ call.kind = "ultra" => job.opts.useCache

\* where the finder in mf stands, and when it was left there
HandInv ==
  /\ copies = IF right THEN 1 ELSE 0
  /\ right => /\ ~mf.cut /\ mf.low <= mf.buf
              /\ IF pc = "begin" /\ FirstCall
                   THEN call.imp /\ mf.buf + MaxMatch = blk.from
                   ELSE blk.to < job.n /\ mf.buf + MaxMatch = blk.to
  /\ right /\ Walking /\ call.exp => i > ExportPoint

\* the finder of the run, and what match_type says of the bytes at i
WalkInv ==
  Walking =>
    /\ blk.from <= i /\ i <= blk.to /\ (pc = "find" => i < blk.to)
    /\ p.end = blk.to /\ p.low <= p.buf
    /\ blk.to - i >= MinMatch => p.buf = i
    /\ p.cut => i - 1 + MaxMatch > blk.to
    /\ mtype \in {"RLE", "ML_MATCH"} => i + MaxMatch <= blk.to
    /\ mtype = "RLE" => RunLength(i) >= MinMatch /\ p.low < p.buf
    /\ mtype = "ML_RLE" => RunLength(i) >= MaxMatch - 1 /\ p.low < p.buf
    /\ pc = "find" => mtype # "ML_RLE"

IInv == /\ TypeOK
        /\ job.opts.numiterations = 1 \/ job.opts.useCache
        /\ BlkInv /\ CallInv /\ HandInv /\ WalkInv
-----------------------------------------------------------------------------
\* A repetition stays within the block and within the run of the input.
LEMMA RunLengthBound ==
  ASSUME IsJob(job), blk.to \in Nat, blk.to <= job.n, NEW k \in 0 .. blk.to
  PROVE  RunLength(k) \in 0 .. blk.to - k /\ RunLength(k) <= job.run[k]
<1>1. job.n \in Nat
  BY DEF IsJob
<1>2. k \in 0 .. job.n
  BY <1>1
<1>3. job.run \in [0 .. job.n -> Nat]
  BY DEF IsJob
<1>4. job.run[k] \in Nat
  BY <1>2, <1>3
<1>. QED  BY <1>4 DEF RunLength, Smaller

\* d positions further the repetition is d bytes shorter.
LEMMA RunLengthAfter ==
  ASSUME IsJob(job), blk.to \in Nat, blk.to <= job.n, NEW k \in 0 .. blk.to,
         NEW d \in 0 .. RunLength(k)
  PROVE  RunLength(k + d) = RunLength(k) - d
<1>1. job.n \in Nat
  BY DEF IsJob
<1>2. k \in 0 .. job.n
  BY <1>1
<1>3. job.run[k] \in Nat
  <2>1. job.run \in [0 .. job.n -> Nat]
    BY DEF IsJob
  <2>. QED  BY <1>2, <2>1
<1>4. RunLength(k) \in Nat /\ RunLength(k) <= job.run[k]
  BY RunLengthBound
<1>5. job.run[k + d] = job.run[k] - d
  <2>1. \A e \in 0 .. job.run[k] : job.run[k + e] = job.run[k] - e
    BY <1>2 DEF IsJob
  <2>2. d \in 0 .. job.run[k]
    BY <1>3, <1>4
  <2>. QED  BY <2>1, <2>2
<1>. QED  BY <1>3, <1>5 DEF RunLength, Smaller

\* What moving a finder does to each of its fields.
LEMMA Moved ==
  ASSUME NEW f \in Finders, NEW num \in Nat, MaxMatch \in Nat
  PROVE  /\ Move(f, num) \in Finders
         /\ Move(f, num).buf = f.buf + num
         /\ Move(f, num).end = f.end
         /\ Move(f, num).low = f.low
         /\ Move(f, num).cut <=> (f.cut \/ (num > 0 /\ f.buf + num - 1 + MaxMatch > f.end))
<1>1. /\ Move(f, num) \in Finders
      /\ Move(f, num).buf = f.buf + num
      /\ Move(f, num).end = f.end
      /\ Move(f, num).low = f.low
      /\ Move(f, num).cut = (f.cut \/ (num > 0 /\ f.buf + num - 1 + MaxMatch > f.end))
  BY DEF Move, Finders
<1>. QED  BY <1>1, Zenon
-----------------------------------------------------------------------------
CallType == [kind : Kinds, iter : Nat \ {0}, mode : Modes, imp : BOOLEAN, exp : BOOLEAN]

LEMMA InitInv ==
  ASSUME OneSearch, Init
  PROVE  IInv
<1>. USE SizesAssumption, CostsAssumption, JobsAssumption
<1>1. IsJob(job) /\ job.n \in Nat \ {0}
  BY DEF Init, IsJob
<1>2. TypeOK
  <2>1. NoFinder \in Finders
    BY DEF NoFinder, Finders
  <2>2. StaticCall \in [kind : Kinds, iter : Nat \ {0}, mode : Modes,
                        imp : BOOLEAN, exp : BOOLEAN]
    BY DEF StaticCall, Kinds, Modes
  <2>3. cache \in Seq([at : Nat, pairs : Matches])
    BY DEF Init
  <2>. QED  BY <1>1, <2>1, <2>2, <2>3 DEF Init, TypeOK
<1>3. job.opts.numiterations = 1 \/ job.opts.useCache
  BY DEF Init, OneSearch
<1>4. BlkInv
  BY <1>1 DEF Init, BlkInv, Active
<1>5. CallInv /\ HandInv /\ WalkInv
  BY DEF Init, CallInv, HandInv, WalkInv, Active, Walking
<1>. QED  BY <1>2, <1>3, <1>4, <1>5 DEF IInv

\* DeflateDynamicBlock takes the next block: a finder that waits was left for it.
LEMMA StartBlockInv ==
  ASSUME IInv, StartBlock
  PROVE  IInv'
<1>. USE SizesAssumption, CostsAssumption DEF IInv
<1>. PICK b \in [from : {blk.to}, to : Ends] :
       /\ IsNextBlock(b)
       /\ blk' = b
       /\ call' = IF b.to - b.from <= job.opts.skipdynamic
                    THEN FixedCall(b) ELSE OptimalCall(b, 1)
  BY DEF StartBlock
<1>1. /\ b.from = blk.to /\ b.to \in Ends /\ b.from < b.to
      /\ b.from \in Nat /\ b.to \in Nat /\ b.to <= job.n /\ job.n \in Nat
      /\ blk' \in [from : Nat, to : Nat]
  BY DEF IsNextBlock, Ends, TypeOK, IsJob
<1>2. /\ call'.imp = ImportBit(b) /\ call'.exp = ExportBit(b)
      /\ call'.mode \in {"plain", "record"}
      /\ call'.kind = "fixed" \/ (call'.kind = "optimal" /\ call'.iter = 1)
      /\ call' \in CallType
  BY DEF CallType, FixedCall, OptimalCall, NextMode, ImportBit, ExportBit, Kinds, Modes
<1>3. pc' = "begin" /\ UNCHANGED <<job, walk, handed, inited, st>>
  BY DEF StartBlock
<1>4. TypeOK'
  BY <1>1, <1>2, <1>3 DEF StartBlock, TypeOK, CallType, walk, handed
<1>5. BlkInv'
  BY <1>1, <1>3 DEF BlkInv, Active
<1>6. CallInv'
  <2>1. (call'.imp <=> ImportBit(b)) /\ (call'.exp <=> ExportBit(b))
    BY <1>2, Zenon
  <2>2. job' = job
    BY <1>3
  <2>. QED  BY <1>2, <2>1, <2>2 DEF CallInv, FirstCall, ImportBit, ExportBit
<1>7. HandInv'
  <2>1. right => ~mf.cut /\ mf.low <= mf.buf /\ mf.buf + MaxMatch = blk.to
    BY DEF StartBlock, HandInv
  <2>2. right => b.from # 0
    BY <1>1, <2>1 DEF TypeOK, Finders
  <2>. QED  BY <1>1, <1>2, <1>3, <2>1, <2>2 DEF HandInv, Walking, FirstCall, ImportBit, handed
<1>8. WalkInv'
  BY <1>3 DEF WalkInv, Walking
<1>. QED  BY <1>3, <1>4, <1>5, <1>6, <1>7, <1>8

\* The run takes over the finder or builds one; either way it stands at the
\* first position of the block.
LEMMA BeginSearchInv ==
  ASSUME IInv, BeginSearch
  PROVE  IInv'
<1>. USE SizesAssumption, CostsAssumption DEF IInv
<1>1. /\ blk \in [from : Nat, to : Nat] /\ blk.from < blk.to /\ Active
      /\ p \in Finders /\ mf \in Finders
  BY DEF BeginSearch, TypeOK, BlkInv, Active
<1>2. /\ pc' = "loop" /\ i' = blk.from /\ mtype' = "none" /\ reach' = {blk.from}
      /\ UNCHANGED <<job, blk, call, mf, cache, cptr, best, inited, st>>
  BY DEF BeginSearch
<1>3. /\ p' \in Finders /\ p'.buf = blk.from /\ p'.end = blk.to /\ p'.low <= p'.buf
      /\ p'.cut => blk.from - 1 + MaxMatch > blk.to
  <2>1. CASE call.imp /\ right
    <3>. DEFINE f == [mf EXCEPT !.end = blk.to]
    <3>1. FirstCall /\ ~mf.cut /\ mf.low <= mf.buf /\ mf.buf + MaxMatch = blk.from
      BY <1>1, <2>1 DEF BeginSearch, HandInv, CallInv
    <3>2. /\ f \in Finders /\ f.buf = mf.buf /\ f.low = mf.low /\ f.end = blk.to
          /\ f.cut = mf.cut
      BY <1>1 DEF Finders
    <3>3. p' = Move(f, MaxMatch)
      BY <2>1 DEF BeginSearch, Import
    <3>. HIDE DEF f
    <3>4. /\ p' \in Finders /\ p'.buf = f.buf + MaxMatch /\ p'.end = f.end
          /\ p'.low = f.low
          /\ p'.cut <=> (f.cut \/ (MaxMatch > 0 /\ f.buf + MaxMatch - 1 + MaxMatch > f.end))
      BY <3>2, <3>3, Moved
    <3>. QED  BY <1>1, <3>1, <3>2, <3>4 DEF Finders
  <2>2. CASE ~(call.imp /\ right)
    <3>. DEFINE start == IF blk.from > Window THEN blk.from - Window ELSE 0
                f == [buf |-> start, end |-> blk.to, low |-> start, cut |-> FALSE]
    <3>1. start \in Nat /\ start <= blk.from
      BY <1>1, WindowAssumption
    <3>2. p' = Move(f, blk.from - start)
      BY <2>2 DEF BeginSearch, Create
    <3>. HIDE DEF start
    <3>3. f \in Finders
      BY <1>1, <3>1 DEF Finders
    <3>4. blk.from - start \in Nat
      BY <1>1, <3>1
    <3>. DEFINE num == blk.from - start
    <3>. HIDE DEF num
    <3>5. /\ p' \in Finders /\ p'.buf = f.buf + num /\ p'.end = f.end
          /\ p'.low = f.low
          /\ p'.cut <=> (f.cut \/ (num > 0 /\ f.buf + num - 1 + MaxMatch > f.end))
      <4>. HIDE DEF f
      <4>. QED BY <3>2, <3>3, <3>4, Moved DEF num
    <3>. QED  BY <1>1, <3>1, <3>5 DEF num
  <2>. QED  BY <2>1, <2>2
<1>4. /\ right' \in BOOLEAN /\ copies' = IF right' THEN 1 ELSE 0
      /\ right' => right /\ ~call.imp
  <2>1. right \in BOOLEAN /\ copies = IF right THEN 1 ELSE 0
    BY DEF HandInv, TypeOK
  <2>2. CASE call.imp /\ right
    <3>1. right' = FALSE /\ copies' = copies - 1
      BY <2>2 DEF BeginSearch
    <3>2. copies = 1
      BY <2>1, <2>2
    <3>3. copies' = 0
      BY <3>1, <3>2
    <3>. QED  BY <3>1, <3>3
  <2>3. CASE ~(call.imp /\ right)
    BY <2>1, <2>3 DEF BeginSearch
  <2>. QED  BY <2>2, <2>3
<1>5. TypeOK'
  BY <1>1, <1>2, <1>3, <1>4 DEF TypeOK
<1>6. BlkInv' /\ CallInv'
  BY <1>1, <1>2 DEF BlkInv, CallInv, Active, FirstCall, ImportBit, ExportBit
<1>7. HandInv'
  <2>1. FirstCall => ~right'
    BY <1>4 DEF HandInv, BeginSearch
  <2>2. ~FirstCall => ~call.exp
    BY <1>1 DEF CallInv, BeginSearch
  <2>3. right' /\ ~FirstCall => ~mf.cut /\ mf.low <= mf.buf /\ blk.to < job.n
                                /\ mf.buf + MaxMatch = blk.to
    BY <1>4 DEF HandInv
  <2>. QED  BY <1>2, <1>4, <2>1, <2>2, <2>3 DEF HandInv, Walking
<1>8. WalkInv'
  BY <1>1, <1>2, <1>3 DEF WalkInv, Walking
<1>. QED  BY <1>2, <1>5, <1>6, <1>7, <1>8

-----------------------------------------------------------------------------
\* What the invariant says of a block that is being searched.
LEMMA WalkFacts ==
  ASSUME IInv, Walking
  PROVE  /\ IsJob(job) /\ job.n \in Nat
         /\ blk.from \in Nat /\ blk.to \in Nat /\ blk.to <= job.n
         /\ i \in Nat /\ p \in Finders /\ p.buf \in Nat /\ p.low \in Nat
         /\ p.end = blk.to /\ p.low <= p.buf /\ blk.from <= i /\ i <= blk.to
         /\ blk.to - i >= MinMatch => p.buf = i
         /\ p.cut => i - 1 + MaxMatch > blk.to
         /\ mtype \in {"RLE", "ML_MATCH"} => i + MaxMatch <= blk.to
         /\ mtype = "RLE" => RunLength(i) >= MinMatch /\ p.low < p.buf
         /\ mtype = "ML_RLE" => RunLength(i) >= MaxMatch - 1 /\ p.low < p.buf
         /\ RunLength(i) \in 0 .. blk.to - i
<1>1. IsJob(job) /\ blk.from \in Nat /\ blk.to \in Nat /\ i \in Nat /\ p \in Finders
  BY DEF IInv, TypeOK
<1>2. job.n \in Nat /\ p.buf \in Nat /\ p.low \in Nat
  BY <1>1 DEF IsJob, Finders
<1>3. blk.to <= job.n
  BY DEF IInv, BlkInv
<1>4. blk.from <= i /\ i <= blk.to
  BY DEF IInv, WalkInv
<1>5. RunLength(i) \in 0 .. blk.to - i
  BY <1>1, <1>2, <1>3, <1>4, RunLengthBound
<1>. QED  BY <1>1, <1>2, <1>3, <1>4, <1>5 DEF IInv, WalkInv

\* A finder is left only by a first run, only before the last block, and only
\* once.
LEMMA ExportFacts ==
  ASSUME IInv, Walking, call.exp
  PROVE  /\ FirstCall /\ blk.to < job.n
         /\ i <= ExportPoint => ~right
<1>1. FirstCall /\ blk.to # job.n
  BY DEF IInv, CallInv, Active, Walking, ExportBit
<1>2. blk.to <= job.n /\ blk.to \in Nat /\ job.n \in Nat /\ i \in Nat
  BY DEF IInv, BlkInv, TypeOK, IsJob
<1>3. right => i > ExportPoint
  BY DEF IInv, HandInv
<1>. QED  BY <1>1, <1>2, <1>3, SizesAssumption DEF ExportPoint

LEMMA EntryType ==
  ASSUME NEW S, NEW s \in Seq(S), NEW k \in 1 .. Len(s)
  PROVE  s[k] \in S
OBVIOUS

LEMMA AppendType ==
  ASSUME NEW S, NEW s \in Seq(S), NEW e \in S
  PROVE  Append(s, e) \in Seq(S)
OBVIOUS

LEMMA RelaxType ==
  ASSUME NEW m \in Matches, NEW pruned, i \in Nat, reach \subseteq Nat
  PROVE  Relax(m, pruned) \subseteq Nat
<1>. DEFINE lengths == {1} \cup IF OnlyFull(m) THEN {MaxMatch} ELSE Offered(m, pruned)
<1>1. MaxMatch \in Nat /\ MinMatch \in Nat
  BY SizesAssumption
<1>2. lengths \subseteq Nat
  BY <1>1 DEF Offered
<1>3. {i + l : l \in lengths} \subseteq Nat
  <2>. HIDE DEF lengths
  <2>. QED  BY <1>2
<1>. QED  BY <1>3 DEF Relax

\* Positions behind p stay untouched, so does everything but p and i: the steps
\* of a run that replays the cache.
LEMMA ReplayInv ==
  ASSUME IInv, BeginReplay \/ ReplayPosition \/ BeginOwn \/ OwnPosition \/ EndRun
  PROVE  IInv'
<1>. USE SizesAssumption DEF IInv
<1>1. CASE BeginReplay
  <2>. USE <1>1 DEF BeginReplay, handed
  <2>1. TypeOK'
    BY DEF TypeOK
  <2>2. BlkInv' /\ CallInv'
    BY DEF BlkInv, CallInv, Active, FirstCall, ImportBit, ExportBit
  <2>3. HandInv' /\ WalkInv'
    BY DEF HandInv, WalkInv, Walking, CallInv, Active, FirstCall
  <2>. QED  BY <2>1, <2>2, <2>3
<1>2. CASE ReplayPosition
  <2>. USE <1>2 DEF ReplayPosition, handed, AtPosition
  <2>1. TypeOK'
    <3>1. reach' \subseteq Nat
      <4>1. cache \in Seq([at : Nat, pairs : Matches]) /\ cptr + 1 \in 1 .. Len(cache)
        <5>1. cptr < Len(cache)
          OBVIOUS
        <5>2. cache \in Seq([at : Nat, pairs : Matches]) /\ cptr \in Nat
          BY DEF TypeOK
        <5>3. Len(cache) \in Nat
          BY <5>2
        <5>. QED  BY <5>1, <5>2, <5>3
      <4>2. cache[cptr + 1] \in [at : Nat, pairs : Matches]
        BY <4>1, EntryType
      <4>3. cache[cptr + 1].pairs \in Matches
        BY <4>2
      <4>4. i \in Nat /\ reach \subseteq Nat
        BY DEF TypeOK
      <4>. QED  BY <4>3, <4>4, RelaxType
    <3>. QED  BY <3>1 DEF TypeOK
  <2>2. BlkInv' /\ CallInv'
    BY DEF BlkInv, CallInv, Active, FirstCall, ImportBit, ExportBit
  <2>3. HandInv' /\ WalkInv'
    BY DEF HandInv, WalkInv, Walking, FirstCall
  <2>. QED  BY <2>1, <2>2, <2>3
<1>3. CASE BeginOwn
  <2>. USE <1>3 DEF BeginOwn, handed
  <2>1. TypeOK'
    BY DEF TypeOK
  <2>2. BlkInv' /\ CallInv'
    BY DEF BlkInv, CallInv, Active, FirstCall, ImportBit, ExportBit
  <2>3. HandInv' /\ WalkInv'
    BY DEF HandInv, WalkInv, Walking, FirstCall, CallInv, Active
  <2>. QED  BY <2>1, <2>2, <2>3
<1>5. CASE OwnPosition
  <2>. USE <1>5 DEF OwnPosition, handed, AtPosition
  <2>1. TypeOK'
    <3>1. i \in Nat /\ reach \subseteq Nat
      BY DEF TypeOK
    <3>2. reach' \subseteq Nat
      BY <3>1
    <3>. QED  BY <3>1, <3>2 DEF TypeOK
  <2>2. BlkInv' /\ CallInv'
    BY DEF BlkInv, CallInv, Active, FirstCall, ImportBit, ExportBit
  <2>3. HandInv' /\ WalkInv'
    BY DEF HandInv, WalkInv, Walking, FirstCall
  <2>. QED  BY <2>1, <2>2, <2>3
<1>4. CASE EndRun
  <2>. USE <1>4 DEF EndRun, handed, walk
  <2>1. TypeOK'
    BY DEF TypeOK
  <2>2. BlkInv' /\ CallInv'
    BY DEF BlkInv, CallInv, Active, FirstCall, ImportBit, ExportBit
  <2>3. HandInv' /\ WalkInv'
    BY DEF HandInv, WalkInv, Walking, FirstCall
  <2>. QED  BY <2>1, <2>2, <2>3
<1>. QED  BY <1>1, <1>2, <1>3, <1>4, <1>5

\* The repetition that ML_RLE announces turns out too short to skip.
LEMMA NoSkipInv ==
  ASSUME IInv, NoSkip
  PROVE  IInv'
<1>. USE SizesAssumption DEF IInv, NoSkip, handed, AtRun
<1>1. TypeOK'
  BY DEF TypeOK, AfterSkip
<1>2. BlkInv' /\ CallInv'
  BY DEF BlkInv, CallInv, Active, FirstCall, ImportBit, ExportBit
<1>3. HandInv'
  BY DEF HandInv, Walking, FirstCall, ExportPoint
<1>4. WalkInv'
  <2>. SUFFICES ASSUME Walking
       PROVE  WalkInv'
    BY DEF WalkInv, Walking
  <2>1. RunLength(i)' = RunLength(i)
    BY DEF RunLength, Smaller
  <2>. QED  BY <2>1, WalkFacts DEF WalkInv, Walking, AfterSkip
<1>. QED  BY <1>1, <1>2, <1>3, <1>4

LEMMA SkipCostsType ==
  ASSUME i \in Nat, reach \subseteq Nat, NEW num \in Nat
  PROVE  SkipCosts(num) \subseteq Nat
<1>. DEFINE first == i + MaxMatch
            last == i + num - 1 + MaxMatch
<1>1. first \in Nat /\ last \in Int
  BY SizesAssumption
<1>2. first .. last \subseteq Nat
  <2>. HIDE DEF first, last
  <2>. QED  BY <1>1
<1>. QED  BY <1>2 DEF SkipCosts

\* The finder after a skipped repetition stands at the new i, whichever of the
\* three ways it was moved there; one left for the next block stands MaxMatch
\* bytes before its start.
LEMMA SkipInv ==
  ASSUME IInv, SkipRepetition
  PROVE  IInv'
<1>. USE SizesAssumption DEF IInv
<1>1. /\ AtRun /\ RunLength(i) >= MaxMatch /\ pc = "loop"
      /\ i' = i + SkipCount /\ pc' = "find" /\ mtype' = AfterSkip(i')
      /\ reach' = SkipCosts(SkipCount)
      /\ UNCHANGED <<job, blk, call, cache, cptr, best, inited, st>>
  BY DEF SkipRepetition, AtRun
<1>2. /\ IsJob(job) /\ job.n \in Nat /\ blk.to \in Nat /\ blk.to <= job.n
      /\ blk.from \in Nat /\ i \in Nat /\ i < blk.to
      /\ RunLength(i) \in 0 .. blk.to - i
  <2>1. IsJob(job) /\ blk \in [from : Nat, to : Nat] /\ i \in Nat /\ i < blk.to
    BY <1>1 DEF TypeOK, AtRun
  <2>2. job.n \in Nat /\ blk.to <= job.n
    BY <2>1 DEF IsJob, BlkInv
  <2>3. RunLength(i) \in 0 .. blk.to - i
    BY <2>1, <2>2, RunLengthBound
  <2>. QED  BY <2>1, <2>2, <2>3
<1>3. /\ SkipCount \in Nat \ {0} /\ SkipCount <= blk.to - i - MaxMatch + 1
      /\ SkipCount = RunLength(i) - MaxMatch + 1
      /\ i' \in Nat /\ i' < blk.to /\ i < i'
  BY <1>1, <1>2 DEF SkipCount
<1>4. RunLength(i') = MaxMatch - 1 /\ RunLength(i)' = RunLength(i')
  <2>1. SkipCount \in 0 .. RunLength(i)
    BY <1>2, <1>3
  <2>2. RunLength(i + SkipCount) = RunLength(i) - SkipCount
    BY <1>2, <2>1, RunLengthAfter
  <2>3. RunLength(i)' = RunLength(i')
    BY <1>1 DEF RunLength, Smaller
  <2>. QED  BY <1>1, <1>2, <1>3, <2>2, <2>3
<1>5. mtype' \in {"RLE", "none"} /\ (mtype' = "RLE" => i' + MaxMatch < blk.to)
  BY <1>1 DEF AfterSkip
<1>6. reach' \subseteq Nat
  BY <1>1, <1>2, <1>3, SkipCostsType DEF TypeOK
<1>7. BlkInv' /\ CallInv'
  BY <1>1 DEF BlkInv, CallInv, Active, FirstCall, ImportBit, ExportBit
<1>8. CASE call.mode = "replay"
  <2>1. UNCHANGED <<p, mf, right, copies>>
    BY <1>8 DEF SkipRepetition, handed
  <2>2. TypeOK'
    BY <1>1, <1>3, <1>5, <1>6, <2>1 DEF TypeOK
  <2>3. HandInv' /\ WalkInv'
    BY <1>1, <1>8, <2>1 DEF HandInv, WalkInv, Walking, FirstCall
  <2>. QED  BY <1>1, <1>7, <2>2, <2>3
<1>9. CASE call.mode # "replay"
  <2>. call.mode \in {"plain", "record"}
    BY <1>1, <1>9 DEF AtRun, TypeOK, Modes
  <2>1. /\ Walking /\ p \in Finders /\ p.buf = i /\ p.low < p.buf /\ p.end = blk.to
        /\ p.low \in Nat /\ ~p.cut /\ blk.from <= i
    BY <1>1, <1>2, <1>9, WalkFacts DEF Walking, AtRun
  \* enough that p' stands at i'
  <2>2. ASSUME p' \in Finders, p'.buf = i', p'.low < p'.buf, p'.end = blk.to,
               p'.cut => i' - 1 + MaxMatch > blk.to
        PROVE  WalkInv'
    <3>1. blk' = blk /\ pc' = "find"
      BY <1>1
    <3>2. blk.from <= i' /\ i' < blk.to /\ (blk.to - i' >= MinMatch => p'.buf = i')
      BY <1>2, <1>3, <2>1, <2>2
    <3>3. /\ p'.end = blk.to /\ p'.low <= p'.buf
          /\ p'.cut => i' - 1 + MaxMatch > blk.to
      BY <2>2 DEF Finders
    <3>4. /\ mtype' \in {"RLE", "ML_MATCH"} => i' + MaxMatch <= blk.to
          /\ mtype' = "RLE" => RunLength(i)' >= MinMatch /\ p'.low < p'.buf
          /\ mtype' # "ML_RLE"
      BY <1>2, <1>3, <1>4, <1>5, <2>2
    <3>. QED  BY <1>2, <1>3, <3>1, <3>2, <3>3, <3>4 DEF WalkInv
  <2>3. CASE ExportInSkip
    <3>. DEFINE now == blk.to - MaxMatch - i
                rest == SkipCount - now
                f == Move(p, now)
    <3>1. now \in Nat \ {0} /\ rest \in Nat /\ call.exp /\ i <= ExportPoint
      BY <1>2, <1>3, <2>3 DEF ExportInSkip, ExportPoint
    <3>2. mf' = f /\ right' = TRUE /\ copies' = copies + 1 /\ p' = Move(f, rest)
      BY <1>9, <2>3 DEF SkipRepetition, Export
    <3>. HIDE DEF now
    <3>3. /\ f \in Finders /\ f.buf = i + now /\ f.end = blk.to /\ f.low = p.low
          /\ f.cut <=> (p.cut \/ (now > 0 /\ i + now - 1 + MaxMatch > blk.to))
      BY <2>1, <3>1, Moved
    <3>4. f.buf + MaxMatch = blk.to /\ ~f.cut /\ f.low < f.buf /\ f.low <= f.buf
      BY <1>2, <2>1, <3>1, <3>3 DEF now
    <3>. HIDE DEF f, rest
    <3>5. /\ p' \in Finders /\ p'.buf = f.buf + rest /\ p'.end = f.end
          /\ p'.low = f.low
          /\ p'.cut <=> (f.cut \/ (rest > 0 /\ f.buf + rest - 1 + MaxMatch > f.end))
      BY <3>1, <3>2, <3>3, Moved
    <3>6. p'.buf = i'
      BY <1>1, <1>2, <1>3, <3>3, <3>5 DEF rest, now
    <3>7. WalkInv'
      <4>1. p'.low < p'.buf /\ p'.end = blk.to
        BY <1>2, <2>1, <3>1, <3>3, <3>4, <3>5
      <4>2. p'.cut => i' - 1 + MaxMatch > blk.to
        BY <1>2, <1>3, <3>1, <3>3, <3>4, <3>5, <3>6
      <4>. QED  BY <2>2, <3>5, <3>6, <4>1, <4>2
    <3>8. FirstCall /\ blk.to < job.n /\ ~right
      BY <2>1, <3>1, ExportFacts
    <3>9. copies' = 1
      BY <3>2, <3>8 DEF HandInv
    <3>10. HandInv'
      <4>1. i' > ExportPoint
        BY <1>1, <2>3 DEF ExportInSkip
      <4>2. ExportPoint' = ExportPoint
        BY <1>1 DEF ExportPoint
      <4>3. blk.to \in Nat /\ copies' = IF right' THEN 1 ELSE 0
        BY <1>2, <3>2, <3>9
      <4>. QED  BY <1>1, <3>2, <3>4, <3>8, <4>1, <4>2, <4>3 DEF HandInv
    <3>11. TypeOK'
      BY <1>1, <1>3, <1>5, <1>6, <3>2, <3>3, <3>5, <3>9 DEF TypeOK
    <3>. QED  BY <1>1, <1>7, <3>7, <3>10, <3>11
  <2>4. CASE ~ExportInSkip
    <3>1. p' = SkipRun(p, SkipCount) /\ UNCHANGED <<mf, right, copies>>
      BY <1>9, <2>4 DEF SkipRepetition, handed
    <3>2. ASSUME SkipCount > Window PROVE p' \in Finders /\ WalkInv'
      <4>. DEFINE at == i + SkipCount - 1
                  f == [p EXCEPT !.buf = at, !.low = at, !.cut = FALSE]
      <4>1. at \in Nat
        BY <1>2, <1>3
      <4>. HIDE DEF at
      <4>2. /\ f \in Finders /\ f.buf = at /\ f.low = at /\ f.end = blk.to
            /\ ~f.cut
        BY <2>1, <4>1 DEF Finders
      <4>3. p' = Move(f, 1)
        BY <3>1, <3>2 DEF SkipRun, at
      <4>. HIDE DEF f
      <4>4. /\ p' \in Finders /\ p'.buf = f.buf + 1 /\ p'.end = f.end
            /\ p'.low = f.low
            /\ p'.cut <=> (f.cut \/ (1 > 0 /\ f.buf + 1 - 1 + MaxMatch > f.end))
        BY <4>2, <4>3, Moved
      <4>. QED  BY <1>1, <1>2, <1>3, <2>2, <4>1, <4>2, <4>4 DEF at
    <3>3. ASSUME ~(SkipCount > Window) PROVE p' \in Finders /\ WalkInv'
      <4>1. p' = Move(p, SkipCount)
        BY <3>1, <3>3 DEF SkipRun
      <4>2. /\ p' \in Finders /\ p'.buf = p.buf + SkipCount /\ p'.end = p.end
            /\ p'.low = p.low
            /\ p'.cut <=> (p.cut \/ (SkipCount > 0 /\ p.buf + SkipCount - 1 + MaxMatch > p.end))
        BY <1>3, <2>1, <4>1, Moved
      <4>. QED  BY <1>1, <1>2, <1>3, <2>1, <2>2, <4>2
    <3>4. p' \in Finders /\ WalkInv'
      BY <3>2, <3>3
    <3>5. TypeOK'
      BY <1>1, <1>3, <1>5, <1>6, <3>1, <3>4 DEF TypeOK
    <3>6. HandInv'
      <4>1. ExportPoint' = ExportPoint
        BY <1>1 DEF ExportPoint
      <4>2. ExportPoint \in Int
        BY <1>2 DEF ExportPoint
      <4>. QED  BY <1>1, <1>2, <1>3, <2>1, <3>1, <4>1, <4>2 DEF HandInv, Walking, FirstCall
    <3>. QED  BY <1>1, <1>7, <3>4, <3>5, <3>6
  <2>. QED  BY <2>3, <2>4
<1>. QED  BY <1>8, <1>9

\* A match with distance 1 that is reported first is the repetition itself.
LEMMA PairsFacts ==
  ASSUME NEW m \in Pairs, i \in Nat, blk.to \in Nat, i < blk.to,
         RunLength(i) \in 0 .. blk.to - i
  PROVE  /\ m \in Matches
         /\ m.one => /\ p.low # i /\ blk.to - i >= MinMatch
                     /\ RunLength(i) >= MinMatch
                     /\ \E l \in m.lengths : l <= RunLength(i)
                     /\ RunLength(i) = MinMatch => MinMatch \in m.lengths
<1>. USE SizesAssumption
<1>. DEFINE left == Smaller(blk.to - i, MaxMatch)
            rle == Smaller(RunLength(i), left)
            none == [lengths |-> {}, one |-> FALSE]
<1>1. /\ left \in Nat /\ left <= blk.to - i /\ rle \in Nat /\ rle <= RunLength(i)
      /\ left <= MaxMatch
  BY DEF Smaller
<1>2. none \in Matches /\ ~none.one
  BY DEF Matches
<1>3. \/ m = none
      \/ /\ \E longer \in SUBSET (rle + 1 .. left) :
              m = [lengths |-> {rle} \cup longer, one |-> TRUE]
         /\ p.low # i /\ left >= MinMatch /\ rle >= MinMatch
      \/ m \in [lengths : SUBSET (MinMatch .. left), one : {FALSE}]
  <2>1. Pairs = IF p.low = i \/ left < MinMatch
                  THEN {none}
                  ELSE IF rle >= MinMatch
                    THEN {[lengths |-> {rle} \cup longer, one |-> TRUE] :
                            longer \in SUBSET (rle + 1 .. left)}
                    ELSE [lengths : SUBSET (MinMatch .. left), one : {FALSE}]
    BY DEF Pairs
  <2>. HIDE DEF left, rle, none
  <2>2. CASE p.low = i \/ left < MinMatch
    BY <2>1, <2>2
  <2>3. CASE ~(p.low = i \/ left < MinMatch) /\ rle >= MinMatch
    <3>1. m \in {[lengths |-> {rle} \cup longer, one |-> TRUE] :
                    longer \in SUBSET (rle + 1 .. left)}
      BY <2>1, <2>3
    <3>2. left >= MinMatch
      BY <1>1, <2>3
    <3>. QED  BY <2>3, <3>1, <3>2, Zenon
  <2>4. CASE ~(p.low = i \/ left < MinMatch) /\ ~(rle >= MinMatch)
    BY <2>1, <2>4
  <2>. QED  BY <2>2, <2>3, <2>4
<1>. HIDE DEF none
<1>4. CASE m = none
  BY <1>2, <1>4
<1>5. CASE /\ \E longer \in SUBSET (rle + 1 .. left) :
                m = [lengths |-> {rle} \cup longer, one |-> TRUE]
           /\ p.low # i /\ left >= MinMatch /\ rle >= MinMatch
  <2>1. RunLength(i) = MinMatch => rle = MinMatch
    BY <1>1, <1>5 DEF Smaller
  <2>. HIDE DEF left, rle
  <2>2. PICK longer \in SUBSET (rle + 1 .. left) :
          m = [lengths |-> {rle} \cup longer, one |-> TRUE]
    BY <1>5
  <2>3. {rle} \cup longer \subseteq Nat
    BY <1>1, <2>2
  <2>4. m \in Matches /\ rle \in m.lengths
    BY <2>2, <2>3 DEF Matches
  <2>. QED  BY <1>1, <1>5, <2>1, <2>4
<1>6. CASE m \in [lengths : SUBSET (MinMatch .. left), one : {FALSE}]
  <2>. HIDE DEF left, rle
  <2>1. MinMatch .. left \subseteq Nat
    BY <1>1
  <2>2. m \in Matches /\ m.one = FALSE
    BY <1>6, <2>1 DEF Matches
  <2>. QED  BY <2>2
<1>. QED  BY <1>3, <1>4, <1>5, <1>6

\* One position: the finder moves on with i unless the block is about to end,
\* match_type announces only what the bytes after i bear out, and the finder is
\* left for the next block exactly at the export point.
LEMMA SearchInv ==
  ASSUME IInv, SearchPosition
  PROVE  IInv'
<1>. USE SizesAssumption DEF IInv
<1>1. /\ Walking /\ AtPosition /\ call.mode \in {"plain", "record"}
      /\ mtype # "ML_RLE" /\ i < blk.to
  BY DEF SearchPosition, AtPosition, Walking, WalkInv
<1>2. PICK m \in Pairs, again \in BOOLEAN :
        \E pruned \in SUBSET Prunable(m) : Find(m, again, pruned)
  BY DEF SearchPosition
<1>. PICK pruned \in SUBSET Prunable(m) : Find(m, again, pruned)
  BY <1>2
<1>3. /\ IsJob(job) /\ job.n \in Nat /\ blk.from \in Nat /\ blk.to \in Nat
      /\ blk.to <= job.n /\ i \in Nat /\ RunLength(i) \in 0 .. blk.to - i
  BY <1>1, WalkFacts
<1>4. /\ m \in Matches
      /\ m.one => /\ p.low # i /\ blk.to - i >= MinMatch
                  /\ RunLength(i) >= MinMatch
                  /\ \E l \in m.lengths : l <= RunLength(i)
                  /\ RunLength(i) = MinMatch => MinMatch \in m.lengths
  BY <1>1, <1>3, PairsFacts
<1>5. /\ i' = i + 1 /\ pc' = "loop" /\ mtype' = NextType(m, again)
      /\ reach' = Relax(m, pruned)
      /\ UNCHANGED <<job, blk, call, best, inited, st>>
  BY <1>2 DEF Find
<1>6. /\ p' \in Finders /\ p'.end = blk.to /\ p'.low = p.low
      /\ p'.buf >= p.buf /\ (blk.to - i >= MinMatch => p'.buf = i + 1)
      /\ p'.cut => i + MaxMatch > blk.to
  <2>1. /\ p \in Finders /\ p.end = blk.to /\ p.buf \in Nat /\ p.low <= p.buf
        /\ blk.to - i >= MinMatch => p.buf = i
        /\ p.cut => i - 1 + MaxMatch > blk.to
        /\ mtype # "none" => mtype \in {"RLE", "ML_MATCH"} /\ i + MaxMatch <= blk.to
    BY <1>1, WalkFacts DEF TypeOK
  <2>2. (p' = p /\ blk.to - p.buf < MinMatch) \/ p' = Move(p, 1)
    BY <1>2, <2>1 DEF Find, GetMatches
  <2>3. CASE p' = p /\ blk.to - p.buf < MinMatch
    BY <1>3, <2>1, <2>3
  <2>4. CASE p' = Move(p, 1)
    <3>1. /\ p' \in Finders /\ p'.buf = p.buf + 1 /\ p'.end = p.end /\ p'.low = p.low
          /\ p'.cut <=> (p.cut \/ (1 > 0 /\ p.buf + 1 - 1 + MaxMatch > p.end))
      BY <2>1, <2>4, Moved
    <3>. QED  BY <1>3, <2>1, <3>1
  <2>. QED  BY <2>2, <2>3, <2>4
<1>7. TypeOK'
  <2>1. cache' \in Seq([at : Nat, pairs : Matches]) /\ cptr' \in Nat
    <3>1. [at |-> i, pairs |-> m] \in [at : Nat, pairs : Matches]
      BY <1>3, <1>4
    <3>2. cache \in Seq([at : Nat, pairs : Matches]) /\ cptr \in Nat
      BY DEF TypeOK
    <3>3. \/ cache' = Append(cache, [at |-> i, pairs |-> m]) /\ cptr' = cptr + 1
          \/ UNCHANGED <<cache, cptr>>
      BY <1>2 DEF Find
    <3>4. cptr + 1 \in Nat
      BY <3>2
    <3>5. Append(cache, [at |-> i, pairs |-> m]) \in Seq([at : Nat, pairs : Matches])
      BY <3>1, <3>2, AppendType
    <3>. QED  BY <3>2, <3>3, <3>4, <3>5
  <2>2. mf' \in Finders /\ right' \in BOOLEAN /\ copies' \in Nat
    <3>1. mf \in Finders /\ right \in BOOLEAN /\ copies \in Nat
      BY DEF TypeOK
    <3>2. CASE i = ExportPoint /\ call.exp
      BY <1>2, <1>6, <3>1, <3>2 DEF Find, Export
    <3>3. CASE ~(i = ExportPoint /\ call.exp)
      BY <1>2, <3>1, <3>3 DEF Find, handed
    <3>. QED  BY <3>2, <3>3
  <2>3. reach' \subseteq Nat
    BY <1>3, <1>4, <1>5, RelaxType DEF TypeOK
  <2>4. mtype' \in {"none", "RLE", "ML_MATCH", "ML_RLE"}
    BY <1>5 DEF NextType
  <2>. QED  BY <1>5, <1>6, <2>1, <2>2, <2>3, <2>4 DEF TypeOK
<1>8. BlkInv' /\ CallInv'
  BY <1>1, <1>5 DEF BlkInv, CallInv, Active, FirstCall, ImportBit, ExportBit, Walking
<1>9. HandInv'
  <2>. ExportPoint' = ExportPoint /\ ExportPoint \in Int
    BY <1>3, <1>5 DEF ExportPoint
  <2>1. CASE i = ExportPoint /\ call.exp
    <3>1. mf' = p' /\ right' = TRUE /\ copies' = copies + 1
      BY <1>2, <2>1 DEF Find, Export
    <3>2. FirstCall /\ blk.to < job.n /\ ~right
      BY <1>1, <1>3, <2>1, ExportFacts
    <3>3. copies' = IF right' THEN 1 ELSE 0
      BY <3>1, <3>2 DEF HandInv
    <3>4. ~p'.cut /\ p'.buf + MaxMatch = blk.to
      BY <1>3, <1>6, <2>1 DEF ExportPoint
    <3>5. p'.low <= p'.buf
      BY <1>1, <1>3, <1>6, WalkFacts DEF Finders
    <3>. QED  BY <1>3, <1>5, <2>1, <3>1, <3>2, <3>3, <3>4, <3>5 DEF HandInv
  <2>2. CASE ~(i = ExportPoint /\ call.exp)
    <3>1. UNCHANGED <<mf, right, copies>>
      BY <1>2, <2>2 DEF Find, handed
    <3>. QED  BY <1>1, <1>3, <1>5, <2>2, <3>1 DEF HandInv, Walking, FirstCall
  <2>. QED  BY <2>1, <2>2
<1>10. WalkInv'
  <2>1. RunLength(i) >= 1 => RunLength(i)' = RunLength(i) - 1
    <3>1. RunLength(i)' = RunLength(i')
      BY <1>5 DEF RunLength, Smaller
    <3>2. RunLength(i) >= 1 => RunLength(i + 1) = RunLength(i) - 1
      BY <1>1, <1>3, RunLengthAfter
    <3>. QED  BY <1>5, <3>1, <3>2
  <2>2. m.one => p'.low < p'.buf
    BY <1>1, <1>3, <1>4, <1>6, WalkFacts
  <2>3. /\ mtype' = "ML_RLE" => m.one /\ RunLength(i) >= MaxMatch
        /\ mtype' = "RLE" => m.one /\ RunLength(i) > MinMatch /\ i + MaxMatch < blk.to
        /\ mtype' = "ML_MATCH" => i + MaxMatch < blk.to
    <3>1. /\ mtype' = "ML_RLE" => m.one /\ m.lengths = {MaxMatch}
          /\ mtype' = "RLE" => m.one /\ MinMatch \notin m.lengths /\ i + MaxMatch < blk.to
          /\ mtype' = "ML_MATCH" => i + MaxMatch < blk.to
      BY <1>5 DEF NextType, OnlyFull
    <3>. QED  BY <1>3, <1>4, <3>1
  <2>4. /\ mtype' \in {"RLE", "ML_MATCH"} => i' + MaxMatch <= blk.to
        /\ mtype' = "RLE" => RunLength(i)' >= MinMatch /\ p'.low < p'.buf
        /\ mtype' = "ML_RLE" => RunLength(i)' >= MaxMatch - 1 /\ p'.low < p'.buf
    BY <1>3, <1>4, <1>5, <2>1, <2>2, <2>3
  <2>5. /\ blk.from <= i' /\ i' <= blk.to /\ p'.low <= p'.buf
        /\ blk.to - i' >= MinMatch => p'.buf = i'
        /\ p'.cut => i' - 1 + MaxMatch > blk.to
    BY <1>1, <1>3, <1>5, <1>6, WalkFacts DEF Finders
  <2>. QED  BY <1>5, <1>6, <2>4, <2>5 DEF WalkInv
<1>. QED  BY <1>5, <1>7, <1>8, <1>9, <1>10

\* A run after the first one of a block neither takes nor leaves a finder,
\* unless it replays the cache and has none: this is where OneSearch counts.
LEMMA LaterCalls ==
  ASSUME NEW k \in Nat \ {0, 1}, NEW c,
         \/ c \in {StaticCall, OwnCall}
         \/ job.opts.useCache /\ c = UltraCall(blk)
         \/ job.opts.useCache /\ job.opts.numiterations # 1 /\ c = OptimalCall(blk, k)
  PROVE  /\ c \in CallType
         /\ ~(c.kind = "fixed" \/ (c.kind = "optimal" /\ c.iter = 1))
         /\ c.mode # "replay" => ~c.imp /\ ~c.exp
         /\ c.kind = "ultra" => job.opts.useCache
<1>1. CASE c = StaticCall
  BY <1>1 DEF StaticCall, CallType, Kinds, Modes
<1>2. CASE c = OwnCall
  BY <1>2 DEF OwnCall, CallType, Kinds, Modes
<1>3. CASE job.opts.useCache /\ c = UltraCall(blk)
  BY <1>3 DEF UltraCall, CallType, Kinds, Modes, ImportBit, ExportBit
<1>4. CASE job.opts.useCache /\ job.opts.numiterations # 1 /\ c = OptimalCall(blk, k)
  BY <1>4 DEF OptimalCall, NextMode, CallType, Kinds, Modes, ImportBit, ExportBit
<1>. QED  BY <1>1, <1>2, <1>3, <1>4

\* Whatever run is chosen next, or none: the finder left by the first run waits.
LEMMA DecideInv ==
  ASSUME IInv, Decide
  PROVE  IInv'
<1>. USE SizesAssumption, CostsAssumption DEF IInv
<1>1. pc = "after" /\ UNCHANGED <<job, blk, walk, handed, cache, cptr>>
  BY DEF Decide, SingleDone, IterationDone, UltraDone, OwnDone, FixedDone, StaticDone
<1>2. /\ call \in CallType /\ call.iter + 1 \in Nat \ {0, 1}
      /\ best \in Nat /\ inited \in BOOLEAN /\ st \in BOOLEAN
  BY DEF TypeOK, CallType
<1>3. \/ pc' = "block" /\ call' = call
      \/ /\ pc' = "begin"
         /\ \/ call' \in {StaticCall, OwnCall}
            \/ job.opts.useCache /\ call' = UltraCall(blk)
            \/ /\ job.opts.useCache /\ job.opts.numiterations # 1
               /\ call' = OptimalCall(blk, call.iter + 1)
  <2>1. ASSUME NEW w, DynamicDone(w)
        PROVE  (pc' = "block" /\ call' = call) \/ (pc' = "begin" /\ call' = StaticCall)
    BY <2>1 DEF DynamicDone
  <2>2. CASE SingleDone
    BY <2>1, <2>2 DEF SingleDone
  <2>3. CASE IterationDone
    <3>1. job.opts.useCache /\ job.opts.numiterations # 1
      BY <2>3 DEF IterationDone, TypeOK, IsJob
    <3>. QED  BY <2>1, <2>3, <3>1 DEF IterationDone, Again
  <2>4. CASE UltraDone
    <3>1. job.opts.useCache
      BY <1>1, <2>4 DEF UltraDone, CallInv, Active
    <3>. QED  BY <2>1, <2>4, <3>1 DEF UltraDone, Again
  <2>5. CASE OwnDone
    BY <2>1, <2>5 DEF OwnDone, Again
  <2>6. CASE FixedDone \/ StaticDone
    BY <2>6 DEF FixedDone, StaticDone
  <2>. QED  BY <2>2, <2>3, <2>4, <2>5, <2>6 DEF Decide
<1>4. best' \in Nat /\ inited' \in BOOLEAN /\ st' \in BOOLEAN
  <2>1. \A cost \in Costs : Smaller(cost, best) \in Nat
    BY <1>2 DEF Smaller
  <2>2. ASSUME NEW w, DynamicDone(w)
        PROVE  inited' \in BOOLEAN /\ st' \in BOOLEAN
    BY <2>2 DEF DynamicDone
  <2>3. CASE SingleDone
    BY <1>2, <2>2, <2>3 DEF SingleDone
  <2>4. CASE IterationDone
    BY <1>2, <2>1, <2>2, <2>4 DEF IterationDone, Again
  <2>5. CASE UltraDone
    BY <1>2, <2>1, <2>2, <2>5 DEF UltraDone, Again
  <2>6. CASE OwnDone
    BY <1>2, <2>1, <2>2, <2>6 DEF OwnDone, Again
  <2>7. CASE FixedDone \/ StaticDone
    BY <1>2, <2>7 DEF FixedDone, StaticDone
  <2>. QED  BY <2>3, <2>4, <2>5, <2>6, <2>7 DEF Decide
<1>5. /\ call' \in CallType
      /\ pc' = "begin" =>
           /\ ~(call'.kind = "fixed" \/ (call'.kind = "optimal" /\ call'.iter = 1))
           /\ call'.mode # "replay" => ~call'.imp /\ ~call'.exp
           /\ call'.kind = "ultra" => job.opts.useCache
  BY <1>2, <1>3, LaterCalls
<1>6. TypeOK'
  BY <1>1, <1>3, <1>4, <1>5 DEF TypeOK, CallType, walk, handed
<1>7. BlkInv'
  BY <1>1, <1>3 DEF BlkInv, Active
<1>8. CallInv'
  BY <1>1, <1>3, <1>5 DEF CallInv, Active, FirstCall
<1>9. HandInv' /\ WalkInv'
  BY <1>1, <1>3, <1>5 DEF HandInv, WalkInv, Walking, FirstCall, handed
<1>. QED  BY <1>1, <1>6, <1>7, <1>8, <1>9

LEMMA FinishInv ==
  ASSUME IInv, Finish
  PROVE  IInv'
<1>. USE DEF IInv, Finish, walk, handed
<1>1. TypeOK'
  BY DEF TypeOK
<1>2. BlkInv' /\ CallInv'
  BY DEF BlkInv, CallInv, Active
<1>3. HandInv' /\ WalkInv'
  BY DEF HandInv, WalkInv, Walking
<1>. QED  BY <1>1, <1>2, <1>3

LEMMA StutterInv ==
  ASSUME IInv, UNCHANGED vars
  PROVE  IInv'
BY DEF vars, IInv, TypeOK, BlkInv, CallInv, HandInv, WalkInv, Active, FirstCall,
       ImportBit, ExportBit, ExportPoint, Walking, RunLength, Smaller

LEMMA StepInv ==
  ASSUME IInv, [Next]_vars
  PROVE  IInv'
<1>1. CASE StartBlock \/ Finish
  BY <1>1, StartBlockInv, FinishInv
<1>2. CASE Search
  BY <1>2, BeginSearchInv, ReplayInv, SkipInv, NoSkipInv, SearchInv DEF Search
<1>3. CASE Decide
  BY <1>3, DecideInv
<1>4. CASE Stopped \/ UNCHANGED vars
  BY <1>4, StutterInv DEF Stopped
<1>. QED  BY <1>1, <1>2, <1>3, <1>4 DEF Next
-----------------------------------------------------------------------------
\* With the options ZopfliInitOptions hands out, the invariant holds for every
\* input, every choice of split points and every value of the sizes.
THEOREM Invariant ==
  ASSUME OneSearch
  PROVE  Spec => []IInv
<1>1. Init => IInv
  BY InitInv
<1>2. IInv /\ [Next]_vars => IInv'
  BY StepInv
<1>. QED  BY <1>1, <1>2, PTL DEF Spec

\* GetBestLengths and its callers keep every variable in its range.
THEOREM TypeCorrect ==
  ASSUME OneSearch
  PROVE  Spec => []TypeOK
<1>1. IInv => TypeOK
  BY DEF IInv
<1>. QED  BY <1>1, Invariant, PTL

\* The assertion p.buffer == &in[instart] of GetBestLengths, and its analogue at
\* every later position, hold for every input: skipping repetitions, handing
\* the finder over and emptying its tree never let it fall behind or run ahead.
THEOREM FinderInStep ==
  ASSUME OneSearch
  PROVE  Spec => []InStep
<1>1. IInv => InStep
  BY DEF IInv, WalkInv, InStep
<1>. QED  BY <1>1, Invariant, PTL

\* The finder left in mf stands MaxMatch bytes before the block that takes it,
\* none of its positions rests on a comparison that the end of its own block cut
\* short, CopyMF never overwrites it, and none is left at the end of the part.
THEOREM HandOverInPlace ==
  ASSUME OneSearch
  PROVE  Spec => []HandOver
<1>1. IInv => HandOver
  <2>. SUFFICES ASSUME IInv
       PROVE  HandOver
    OBVIOUS
  <2>1. right /\ pc = "block" => mf.buf + MaxMatch = blk.to
    BY DEF IInv, HandInv
  <2>2. right /\ pc = "begin" /\ call.mode \in {"plain", "record"} /\ call.imp
          => mf.buf + MaxMatch = blk.from
    BY DEF IInv, HandInv, CallInv, Active
  <2>3. pc = "done" => ~right
    BY DEF IInv, HandInv, BlkInv, TypeOK, IsJob
  <2>4. HandOverUncut /\ NoFinderLost
    BY DEF IInv, HandInv, HandOverUncut, NoFinderLost
  <2>. QED  BY <2>1, <2>2, <2>3, <2>4 DEF HandOver, HandOverAt
<1>. QED  BY <1>1, Invariant, PTL

\* GetMatches2 and GetMatches3 are called only where what they take as given is
\* true: MaxMatch bytes before the end of the block, and for GetMatches2 a
\* repetition of the byte before.
THEOREM FastPaths ==
  ASSUME OneSearch
  PROVE  Spec => []FastPathPromise
<1>1. IInv => FastPathPromise
  <2>. SUFFICES ASSUME IInv, Walking, pc = "find" \/ i < blk.to
       PROVE  /\ mtype \in {"RLE", "ML_MATCH"} => p.end - p.buf >= MaxMatch
              /\ mtype = "RLE" => RunLength(i) >= MinMatch /\ p.low < p.buf
    BY DEF FastPathPromise, IInv, WalkInv
  <2>. QED  BY WalkFacts, SizesAssumption DEF Finders
<1>. QED  BY <1>1, Invariant, PTL
-----------------------------------------------------------------------------
(* The costs. A repetition that is skipped copies costs that are set and     *)
(* costs that are not, so that the position the search goes on at need not   *)
(* have one. What is kept is that one of the next MaxMatch positions has.    *)
ReachInv ==
  /\ pc \in {"loop", "find"} =>
       \E j \in reach : i <= j /\ j < i + MaxMatch /\ j <= blk.to
  /\ pc = "find" => i < blk.to
  /\ EndReached

\* A number below the modulus is its own remainder, so many times it is added.
LEMMA Remainder ==
  ASSUME NEW m \in Nat \ {0}, NEW a \in 0 .. m - 1, NEW k \in Nat
  PROVE  (a + m * k) % m = a
<1>. DEFINE x == a + m * k
            q == x \div m
            r == x % m
<1>1. m * k \in Nat /\ x \in Nat
  OBVIOUS
<1>2. q \in Int /\ r \in 0 .. m - 1 /\ x = m * q + r
  OBVIOUS
<1>. HIDE DEF q, r
<1>3. m * (k - q) = r - a
  BY <1>1, <1>2
<1>4. k - q = 0
  <2>1. ASSUME k - q >= 1 PROVE FALSE
    BY <1>2, <1>3, <2>1
  <2>2. ASSUME k - q <= -1 PROVE FALSE
    BY <1>2, <1>3, <2>2
  <2>. QED  BY <1>2, <2>1, <2>2
<1>5. r = a
  BY <1>2, <1>3, <1>4
<1>. QED  BY <1>5 DEF r

\* Of m numbers in a row one has the remainder a.
LEMMA SomeRemainder ==
  ASSUME NEW m \in Nat \ {0}, NEW a \in 0 .. m - 1, NEW b \in Nat, a < b
  PROVE  \E c \in b .. b + m - 1 : c >= m /\ c % m = a
<1>. DEFINE q == (b - 1 - a) \div m
            r == (b - 1 - a) % m
            c == a + m * (q + 1)
<1>1. b - 1 - a \in Nat
  OBVIOUS
<1>2. q \in Nat /\ r \in 0 .. m - 1 /\ b - 1 - a = m * q + r
  BY <1>1
<1>. HIDE DEF q, r
<1>3. m * (q + 1) = m * q + m /\ m * q \in Nat
  BY <1>2
<1>4. c \in b .. b + m - 1 /\ c >= m
  BY <1>2, <1>3
<1>5. c % m = a
  BY <1>2, Remainder
<1>. QED  BY <1>4, <1>5

\* A skipped repetition: the cost that is set is copied on in steps of MaxMatch.
LEMMA SkipReach ==
  ASSUME IInv, ReachInv, SkipRepetition
  PROVE  ReachInv'
<1>1. /\ MaxMatch \in Nat \ {0} /\ MaxMatch >= 2
      /\ pc = "loop" /\ i < blk.to /\ RunLength(i) >= MaxMatch
      /\ i' = i + SkipCount /\ pc' = "find" /\ blk' = blk
      /\ reach' = SkipCosts(SkipCount)
  BY SizesAssumption DEF SkipRepetition, AtRun
<1>2. IsJob(job) /\ blk.to \in Nat /\ blk.to <= job.n /\ i \in Nat /\ reach \subseteq Nat
  BY DEF IInv, TypeOK, BlkInv
<1>3. RunLength(i) \in 0 .. blk.to - i
  BY <1>1, <1>2, RunLengthBound
<1>. DEFINE num == SkipCount
<1>4. num \in Nat \ {0} /\ i + num - 1 + MaxMatch <= blk.to /\ i + num < blk.to
  BY <1>1, <1>2, <1>3 DEF SkipCount
<1>5. PICK j \in reach : i <= j /\ j < i + MaxMatch /\ j <= blk.to
  BY <1>1 DEF ReachInv
<1>6. j \in Nat
  BY <1>2, <1>5
<1>. HIDE DEF num
<1>7. \E q \in reach' : i + num <= q /\ q < i + num + MaxMatch
  <2>1. CASE i + num <= j
    <3>1. j \in SkipCosts(num)
      BY <1>1, <1>2, <1>5, <1>6 DEF SkipCosts
    <3>2. j < i + num + MaxMatch
      BY <1>1, <1>2, <1>4, <1>5, <1>6
    <3>. QED  BY <1>1, <2>1, <3>1, <3>2 DEF num
  <2>2. CASE j < i + num
    <3>. DEFINE a == j - i
    <3>1. a \in 0 .. MaxMatch - 1 /\ a < num
      BY <1>1, <1>2, <1>4, <1>5, <1>6, <2>2
    <3>. HIDE DEF a
    <3>2. PICK c \in num .. num + MaxMatch - 1 : c >= MaxMatch /\ c % MaxMatch = a
      BY <1>1, <1>4, <3>1, SomeRemainder
    <3>. DEFINE q == i + c
    <3>3. /\ q \in i + MaxMatch .. i + num - 1 + MaxMatch
          /\ q - i = c /\ i + num <= q /\ q < i + num + MaxMatch
      BY <1>1, <1>2, <1>4, <3>2
    <3>. HIDE DEF q
    <3>4. i + ((q - i) % MaxMatch) \in reach
      <4>1. i + a = j
        BY <1>2, <1>6 DEF a
      <4>. QED  BY <1>5, <3>2, <3>3, <4>1
    <3>5. q \in SkipCosts(num)
      BY <3>3, <3>4 DEF SkipCosts
    <3>. QED  BY <1>1, <3>3, <3>5 DEF num
  <2>. QED  BY <1>2, <1>4, <1>6, <2>1, <2>2
<1>8. PICK q \in reach' : i + num <= q /\ q < i + num + MaxMatch
  BY <1>7
<1>9. i' = i + num /\ reach' \subseteq Nat
  BY <1>1, <1>2, <1>4, SkipCostsType DEF num
<1>10. q \in Nat /\ q <= blk.to
  BY <1>1, <1>2, <1>4, <1>8, <1>9
<1>11. \E x \in reach' : i' <= x /\ x < i' + MaxMatch /\ x <= blk'.to
  BY <1>1, <1>8, <1>9, <1>10
<1>12. i' < blk'.to
  BY <1>1, <1>4, <1>9
<1>. QED  BY <1>1, <1>11, <1>12 DEF ReachInv, EndReached

\* One position with any match, pruned or not: what has a cost passes it on to
\* the next byte.
LEMMA Relaxed ==
  ASSUME NEW m, NEW pruned
  PROVE  /\ i \in reach => i + 1 \in Relax(m, pruned)
         /\ i \notin reach => reach \ {i + MaxMatch} \subseteq Relax(m, pruned)
BY DEF Relax

\* What has a cost passes it on, what has none spoils only the position MaxMatch
\* further, behind the one that has.
LEMMA RelaxReach ==
  ASSUME IInv, ReachInv, AtPosition,
         i \in reach => i + 1 \in reach',
         i \notin reach => reach \ {i + MaxMatch} \subseteq reach',
         i' = i + 1, pc' = "loop", blk' = blk
  PROVE  ReachInv'
<1>1. /\ MaxMatch \in Nat /\ MaxMatch >= 2
      /\ pc \in {"loop", "find"} /\ i < blk.to
      /\ blk.to \in Nat /\ i \in Nat /\ reach \subseteq Nat
  BY SizesAssumption DEF AtPosition, ReachInv, IInv, TypeOK
<1>2. PICK j \in reach : i <= j /\ j < i + MaxMatch /\ j <= blk.to
  BY <1>1 DEF ReachInv
<1>3. j \in Nat
  BY <1>1, <1>2
<1>4. \E q \in reach' : q \in Nat /\ i + 1 <= q /\ q < i + 1 + MaxMatch /\ q <= blk.to
  <2>1. CASE i \in reach
    BY <1>1, <2>1
  <2>2. CASE i \notin reach
    <3>1. j # i /\ j # i + MaxMatch
      BY <1>1, <1>2, <1>3, <2>2
    <3>2. j \in reach'
      BY <1>2, <2>2, <3>1
    <3>. QED  BY <1>1, <1>2, <1>3, <3>1, <3>2
  <2>. QED  BY <2>1, <2>2
<1>5. \E q \in reach' : i' <= q /\ q < i' + MaxMatch /\ q <= blk'.to
  BY <1>4
<1>. QED  BY <1>5 DEF ReachInv, EndReached

LEMMA ReachStep ==
  ASSUME IInv, ReachInv, [Next]_vars
  PROVE  ReachInv'
<1>1. CASE StartBlock \/ Finish
  BY <1>1 DEF StartBlock, Finish, ReachInv, EndReached
<1>2. CASE BeginSearch \/ BeginReplay \/ BeginOwn
  <2>1. blk.from \in Nat /\ blk.to \in Nat /\ blk.from < blk.to
    BY <1>2 DEF IInv, TypeOK, BlkInv, Active, BeginSearch, BeginReplay, BeginOwn
  <2>2. i' = blk.from /\ reach' = {blk.from} /\ pc' = "loop" /\ blk' = blk
    BY <1>2 DEF BeginSearch, BeginReplay, BeginOwn
  <2>3. blk.from \in reach' /\ blk.from < i' + MaxMatch
    BY <2>1, <2>2, SizesAssumption
  <2>. QED  BY <2>1, <2>2, <2>3 DEF ReachInv, EndReached
<1>3. CASE OwnPosition
  <2>1. /\ AtPosition /\ i' = i + 1 /\ pc' = "loop" /\ blk' = blk
        /\ i \in reach => i + 1 \in reach'
        /\ i \notin reach => reach' = reach
    BY <1>3 DEF OwnPosition
  <2>. QED  BY <2>1, RelaxReach
<1>4. CASE SkipRepetition
  BY <1>4, SkipReach
<1>5. CASE NoSkip
  BY <1>5 DEF NoSkip, AtRun, ReachInv, EndReached
<1>6. CASE SearchPosition
  BY <1>6, Relaxed, RelaxReach DEF SearchPosition, Find
<1>7. CASE ReplayPosition
  BY <1>7, Relaxed, RelaxReach DEF ReplayPosition
<1>8. CASE EndRun
  <2>1. PICK j \in reach : i <= j /\ j <= blk.to
    BY <1>8 DEF EndRun, ReachInv
  <2>2. i \in Nat /\ blk.to \in Nat /\ j \in Nat /\ i >= blk.to
    BY <1>8 DEF EndRun, IInv, TypeOK
  <2>3. blk.to \in reach
    BY <2>1, <2>2
  <2>. QED  BY <1>8, <2>3 DEF EndRun, walk, ReachInv, EndReached
<1>9. CASE Decide
  BY <1>9 DEF Decide, SingleDone, IterationDone, UltraDone, OwnDone, FixedDone, StaticDone,
              DynamicDone, Again, ReachInv, EndReached
<1>10. CASE Stopped \/ UNCHANGED vars
  BY <1>10 DEF Stopped, vars, walk, ReachInv, EndReached
<1>. QED  BY <1>1, <1>2, <1>3, <1>4, <1>5, <1>6, <1>7, <1>8, <1>9, <1>10 DEF Next, Search

\* Whatever repetitions are skipped and whatever matches are found, the end of
\* the block has a cost when a run ends, so that TraceBackwards starts from a
\* position the run has written.
THEOREM EndHasCost ==
  ASSUME OneSearch
  PROVE  Spec => []EndReached
<1>1. Init => ReachInv
  BY DEF Init, ReachInv, EndReached
<1>2. IInv /\ ReachInv /\ [Next]_vars => ReachInv'
  BY ReachStep
<1>3. ReachInv => EndReached
  BY DEF ReachInv
<1>. QED  BY <1>1, <1>2, <1>3, Invariant, PTL DEF Spec
-----------------------------------------------------------------------------
(* The cache. The entry that follows e is the one of the position at which   *)
(* the loop goes on after e: both functions skip the same repetitions.       *)
Skips(e) == OnlyFull(e.pairs) /\ e.pairs.one /\ RunLength(e.at + 1) >= MaxMatch
After(e) == IF Skips(e) THEN e.at + 1 + (RunLength(e.at + 1) - MaxMatch + 1) ELSE e.at + 1

Linked ==
  /\ Len(cache) > 0 => cache[1].at = blk.from
  /\ \A k \in 1 .. Len(cache) - 1 : cache[k + 1].at = After(cache[k])
  /\ \A k \in 1 .. Len(cache) : cache[k].at \in 0 .. blk.to - 1
Complete == Len(cache) > 0 /\ After(cache[Len(cache)]) >= blk.to

\* the position belongs to the last entry that was written or read
CachePos ==
  /\ cptr <= Len(cache)
  /\ cptr = 0 => pc = "loop" /\ i = blk.from /\ mtype # "ML_RLE"
  /\ cptr > 0 =>
       /\ pc = "find" => i = After(cache[cptr])
       /\ pc = "loop" =>
            /\ i = cache[cptr].at + 1
            /\ mtype = "ML_RLE" <=> OnlyFull(cache[cptr].pairs) /\ cache[cptr].pairs.one

CacheInv ==
  Active =>
    /\ Linked
    /\ pc \in {"begin", "after"} => cptr = 0
    /\ call.kind = "optimal" => call.mode = NextMode(call.iter)
    /\ call.kind = "ultra" => call.mode = "replay"
    /\ call.mode = "replay" => Complete
    /\ call.mode = "record" =>
         /\ pc = "begin" => cache = <<>>
         /\ pc \in {"loop", "find"} => cptr = Len(cache)
         /\ pc = "after" => Complete
    /\ pc \in {"loop", "find"} /\ call.mode \in {"record", "replay"} => CachePos

Entries == [at : Nat, pairs : Matches]

\* The entry behind e lies further on, and behind the end only if e is the last.
LEMMA AfterFacts ==
  ASSUME IInv, ReachInv, NEW e \in Entries, e.at < blk.to
  PROVE  After(e) \in Nat /\ After(e) > e.at /\ RunLength(e.at + 1) \in 0 .. blk.to - e.at - 1
<1>1. /\ MaxMatch \in Nat /\ blk.to \in Nat /\ blk.to <= job.n /\ IsJob(job) /\ e.at \in Nat
  BY SizesAssumption DEF IInv, TypeOK, BlkInv, Entries
<1>2. RunLength(e.at + 1) \in 0 .. blk.to - (e.at + 1)
  BY <1>1, RunLengthBound
<1>. QED  BY <1>1, <1>2 DEF After, Skips

\* What the steps of a run leave of the cache alone.
LEMMA SameCache ==
  ASSUME UNCHANGED <<job, blk, cache>>
  PROVE  /\ Linked' <=> Linked
         /\ Complete' <=> Complete
         /\ \A e : After(e)' = After(e)
BY DEF Linked, Complete, After, Skips, RunLength, Smaller

\* Where the next entry is written or read.
LEMMA AtNext ==
  ASSUME IInv, CachePos, AtPosition
  PROVE  i = IF cptr = 0 THEN blk.from ELSE After(cache[cptr])
<1>1. cptr \in Nat /\ pc \in {"loop", "find"}
  BY DEF IInv, TypeOK, AtPosition
<1>2. CASE cptr = 0
  BY <1>2 DEF CachePos
<1>3. CASE cptr > 0 /\ pc = "find"
  BY <1>3 DEF CachePos
<1>4. CASE cptr > 0 /\ pc = "loop"
  BY <1>4 DEF CachePos, AtPosition, After, Skips
<1>. QED  BY <1>1, <1>2, <1>3, <1>4

\* The first run writes the entry of i behind the one that led to i.
LEMMA RecordCache ==
  ASSUME IInv, ReachInv, CacheInv, SearchPosition, call.mode = "record"
  PROVE  CacheInv'
<1>1. PICK m \in Pairs, again \in BOOLEAN :
        \E pruned \in SUBSET Prunable(m) : Find(m, again, pruned)
  BY DEF SearchPosition
<1>2. /\ Active /\ AtPosition /\ pc \in {"loop", "find"} /\ pc' = "loop" /\ i' = i + 1
      /\ UNCHANGED <<job, blk, call>> /\ mtype' = NextType(m, again)
      /\ i < blk.to /\ Walking
  BY <1>1 DEF SearchPosition, AtPosition, Active, Walking, Find, ReachInv
<1>3. /\ Linked /\ cptr = Len(cache) /\ CachePos
  BY <1>2 DEF CacheInv
<1>4. /\ cache \in Seq(Entries) /\ i \in Nat /\ blk.to \in Nat /\ blk.from \in Nat
      /\ Len(cache) \in Nat
  BY DEF IInv, TypeOK, Entries
<1>5. m \in Matches
  BY <1>2, <1>4, WalkFacts, PairsFacts
<1>. DEFINE e == [at |-> i, pairs |-> m]
            n == Len(cache)
<1>6. cache' = Append(cache, e) /\ cptr' = n + 1
  BY <1>1, <1>3 DEF Find
<1>7. /\ e \in Entries /\ e.at = i /\ e.pairs = m
  BY <1>4, <1>5 DEF Entries
<1>. HIDE DEF e
<1>8. /\ Len(cache') = n + 1 /\ cache'[n + 1] = e
      /\ \A k \in 1 .. n : cache'[k] = cache[k]
  BY <1>4, <1>6, <1>7
<1>9. i = IF n = 0 THEN blk.from ELSE After(cache[n])
  BY <1>2, <1>3, AtNext
<1>10. \A x : After(x)' = After(x)
  BY <1>2 DEF After, Skips, RunLength, Smaller
<1>11. Linked'
  <2>1. cache'[1].at = blk'.from
    <3>1. CASE n = 0
      BY <1>2, <1>7, <1>8, <1>9, <3>1
    <3>2. CASE n > 0
      BY <1>2, <1>3, <1>4, <1>8, <3>2 DEF Linked
    <3>. QED  BY <1>4, <3>1, <3>2
  <2>2. ASSUME NEW k \in 1 .. n PROVE cache'[k + 1].at = After(cache'[k])
    <3>1. CASE k = n
      BY <1>4, <1>7, <1>8, <1>9, <2>2, <3>1
    <3>2. CASE k < n
      <4>1. k \in 1 .. n - 1 /\ k + 1 \in 1 .. n
        BY <1>4, <2>2, <3>2
      <4>2. cache[k + 1].at = After(cache[k])
        BY <1>3, <4>1 DEF Linked
      <4>. QED  BY <1>8, <2>2, <4>1, <4>2
    <3>. QED  BY <1>4, <2>2, <3>1, <3>2
  <2>3. ASSUME NEW k \in 1 .. n + 1 PROVE cache'[k].at \in 0 .. blk.to - 1
    <3>1. CASE k = n + 1
      BY <1>2, <1>4, <1>7, <1>8, <3>1
    <3>2. CASE k # n + 1
      BY <1>3, <1>4, <1>8, <2>3, <3>2 DEF Linked
    <3>. QED  BY <3>1, <3>2
  <2>4. /\ n + 1 - 1 = n /\ blk' = blk
    BY <1>2, <1>4
  <2>5. \A k \in 1 .. n : cache'[k + 1].at = After(cache[k])'
    <3>. SUFFICES ASSUME NEW k \in 1 .. n PROVE cache'[k + 1].at = After(cache[k])'
      OBVIOUS
    <3>1. After(cache[k])' = After(cache'[k])
      BY <1>2 DEF After, Skips, RunLength, Smaller
    <3>. QED  BY <2>2, <3>1
  <2>. QED  BY <1>8, <2>1, <2>3, <2>4, <2>5 DEF Linked
<1>12. CachePos'
  <2>1. mtype' = "ML_RLE" <=> OnlyFull(m) /\ m.one
    BY <1>2 DEF NextType
  <2>2. cptr' > 0 /\ cptr' <= Len(cache') /\ cptr' # 0
    BY <1>4, <1>6, <1>8
  <2>. QED  BY <1>2, <1>6, <1>7, <1>8, <2>1, <2>2 DEF CachePos
<1>. QED  BY <1>2, <1>6, <1>8, <1>11, <1>12 DEF CacheInv, Active, NextMode

\* A replay reads the entry of i behind the one that led to i.
LEMMA ReplayReads ==
  ASSUME IInv, ReachInv, CacheInv, AtPosition, call.mode = "replay"
  PROVE  cptr < Len(cache) /\ cache[cptr + 1].at = i
<1>1. /\ Active /\ pc \in {"loop", "find"} /\ i < blk.to
      /\ i \in Nat /\ blk.to \in Nat /\ cptr \in Nat
      /\ cache \in Seq(Entries) /\ Len(cache) \in Nat
  BY DEF AtPosition, Active, ReachInv, IInv, TypeOK, Entries
<1>2. Linked /\ Complete /\ CachePos
  BY <1>1 DEF CacheInv
<1>3. i = IF cptr = 0 THEN blk.from ELSE After(cache[cptr])
  BY <1>2, AtNext
<1>4. cptr < Len(cache)
  <2>1. ASSUME cptr = Len(cache) PROVE FALSE
    <3>1. Len(cache) > 0 /\ After(cache[Len(cache)]) >= blk.to
      BY <1>2 DEF Complete
    <3>2. i = After(cache[Len(cache)])
      BY <1>1, <1>3, <2>1, <3>1
    <3>. QED  BY <1>1, <3>1, <3>2
  <2>. QED  BY <1>1, <1>2, <2>1 DEF CachePos
<1>5. CASE cptr = 0
  BY <1>1, <1>2, <1>3, <1>4, <1>5 DEF Linked
<1>6. CASE cptr > 0
  <2>1. cptr \in 1 .. Len(cache) - 1
    BY <1>1, <1>4, <1>6
  <2>. QED  BY <1>2, <1>3, <1>4, <1>6, <2>1 DEF Linked
<1>. QED  BY <1>1, <1>4, <1>5, <1>6

LEMMA ReplayCache ==
  ASSUME IInv, ReachInv, CacheInv, ReplayPosition
  PROVE  CacheInv'
<1>1. /\ AtPosition /\ call.mode = "replay" /\ Active /\ pc' = "loop" /\ i' = i + 1
      /\ cptr' = cptr + 1 /\ UNCHANGED <<job, blk, call, cache>>
      /\ cptr \in Nat /\ Len(cache) \in Nat
  BY DEF ReplayPosition, AtPosition, Active, IInv, TypeOK
<1>2. cptr < Len(cache) /\ cache[cptr + 1].at = i
  BY <1>1, ReplayReads
<1>3. mtype' = "ML_RLE" <=> OnlyFull(cache[cptr + 1].pairs) /\ cache[cptr + 1].pairs.one
  BY DEF ReplayPosition
<1>4. CachePos'
  <2>1. cptr' <= Len(cache') /\ cptr' > 0 /\ cptr' # 0
    BY <1>1, <1>2
  <2>. QED  BY <1>1, <1>2, <1>3, <2>1 DEF CachePos
<1>. QED  BY <1>1, <1>4, SameCache DEF CacheInv, Active, NextMode

\* Between two entries: both runs skip what the last entry says.
LEMMA SkipCache ==
  ASSUME IInv, ReachInv, CacheInv, SkipRepetition \/ NoSkip
  PROVE  CacheInv'
<1>1. /\ pc = "loop" /\ pc' = "find" /\ Active /\ mtype = "ML_RLE" /\ i < blk.to
      /\ UNCHANGED <<job, blk, call, cache, cptr>>
      /\ cptr \in Nat
  BY DEF SkipRepetition, NoSkip, AtRun, Active, IInv, TypeOK
<1>2. ASSUME CachePos PROVE CachePos'
  <2>1. cptr # 0 /\ cptr > 0 /\ cptr <= Len(cache)
    BY <1>1, <1>2 DEF CachePos
  <2>. DEFINE e == cache[cptr]
  <2>2. i = e.at + 1 /\ OnlyFull(e.pairs) /\ e.pairs.one
    BY <1>1, <1>2, <2>1 DEF CachePos
  <2>. HIDE DEF e
  <2>3. i' = After(e)
    <3>1. CASE SkipRepetition
      BY <2>2, <3>1 DEF SkipRepetition, SkipCount, After, Skips
    <3>2. CASE NoSkip
      <4>1. MaxMatch \in Nat /\ RunLength(e.at + 1) < MaxMatch /\ RunLength(e.at + 1) \in Int
        <5>1. i \in Nat /\ blk.to \in Nat /\ blk.to <= job.n /\ IsJob(job)
          BY DEF IInv, TypeOK, BlkInv
        <5>2. RunLength(i) \in 0 .. blk.to - i
          BY <1>1, <5>1, RunLengthBound
        <5>. QED  BY <2>2, <3>2, <5>1, <5>2, SizesAssumption DEF NoSkip
      <4>. QED  BY <2>2, <3>2, <4>1 DEF NoSkip, After, Skips
    <3>. QED  BY <3>1, <3>2
  <2>4. After(e)' = After(e)
    BY <1>1 DEF After, Skips, RunLength, Smaller, e
  <2>5. i' = After(cache[cptr])'
    BY <1>1, <2>3, <2>4 DEF e, After, Skips, RunLength, Smaller
  <2>. QED  BY <1>1, <2>1, <2>5 DEF CachePos
<1>. QED  BY <1>1, <1>2, SameCache DEF CacheInv, Active, NextMode

\* A recording run ends with a cache that covers the block.
LEMMA EndCache ==
  ASSUME IInv, ReachInv, CacheInv, EndRun
  PROVE  CacheInv'
<1>1. /\ pc = "loop" /\ pc' = "after" /\ Active /\ cptr' = 0 /\ i >= blk.to
      /\ UNCHANGED <<job, blk, call, cache>>
      /\ i \in Nat /\ blk.to \in Nat /\ blk.from \in Nat /\ blk.from < blk.to
      /\ cache \in Seq(Entries) /\ Len(cache) \in Nat
  BY DEF EndRun, Active, IInv, TypeOK, BlkInv, Entries
<1>2. ASSUME call.mode = "record" PROVE Complete
  <2>1. CachePos /\ cptr = Len(cache) /\ Linked
    BY <1>1, <1>2 DEF CacheInv
  <2>2. Len(cache) > 0
    BY <1>1, <2>1 DEF CachePos
  <2>3. i = cache[Len(cache)].at + 1
    BY <1>1, <2>1, <2>2 DEF CachePos
  <2>4. cache[Len(cache)] \in Entries /\ cache[Len(cache)].at < blk.to
    <3>1. cache[Len(cache)] \in Entries
      BY <1>1, <2>2, EntryType
    <3>2. Len(cache) \in 1 .. Len(cache)
      BY <1>1, <2>2
    <3>3. cache[Len(cache)].at \in 0 .. blk.to - 1
      BY <2>1, <3>2 DEF Linked
    <3>. QED  BY <1>1, <3>1, <3>3
  <2>5. /\ After(cache[Len(cache)]) \in Nat
        /\ After(cache[Len(cache)]) > cache[Len(cache)].at
        /\ cache[Len(cache)].at \in Nat
    BY <2>4, AfterFacts DEF Entries
  <2>. QED  BY <1>1, <2>2, <2>3, <2>5 DEF Complete
<1>. QED  BY <1>1, <1>2, SameCache DEF CacheInv, Active, NextMode

\* The next run of the block replays only what the first one has recorded.
LEMMA DecideCache ==
  ASSUME IInv, CacheInv, Decide
  PROVE  CacheInv'
<1>1. pc = "after" /\ Active /\ UNCHANGED <<job, blk, cache, cptr>> /\ cptr = 0
  BY DEF Decide, SingleDone, IterationDone, UltraDone, OwnDone, FixedDone, StaticDone,
         CacheInv, Active
<1>2. Linked
  BY <1>1 DEF CacheInv
<1>3. \/ pc' = "block"
      \/ pc' = "begin" /\ call' \in {StaticCall, OwnCall}
      \/ pc' = "begin" /\ Complete /\ job.opts.useCache /\ call' = UltraCall(blk)
      \/ /\ pc' = "begin" /\ Complete /\ job.opts.useCache /\ job.opts.numiterations # 1
         /\ call' = OptimalCall(blk, call.iter + 1)
  <2>1. ASSUME NEW w, DynamicDone(w)
        PROVE  pc' = "block" \/ (pc' = "begin" /\ call' = StaticCall)
    BY <2>1 DEF DynamicDone
  <2>2. CASE SingleDone
    BY <2>1, <2>2 DEF SingleDone
  <2>3. CASE IterationDone
    <3>1. job.opts.useCache /\ job.opts.numiterations # 1
      BY <2>3 DEF IterationDone, IInv, TypeOK, IsJob
    <3>2. Complete
      BY <1>1, <2>3, <3>1 DEF IterationDone, CacheInv, NextMode
    <3>. QED  BY <2>1, <2>3, <3>1, <3>2 DEF IterationDone, Again
  <2>4. CASE UltraDone
    <3>1. Complete /\ job.opts.useCache
      BY <1>1, <2>4 DEF UltraDone, CacheInv, IInv, CallInv, Active
    <3>. QED  BY <2>1, <2>4, <3>1 DEF UltraDone, Again
  <2>5. CASE OwnDone
    BY <2>1, <2>5 DEF OwnDone, Again
  <2>6. CASE FixedDone \/ StaticDone
    BY <2>6 DEF FixedDone, StaticDone
  <2>. QED  BY <2>2, <2>3, <2>4, <2>5, <2>6 DEF Decide
<1>4. CASE pc' = "block"
  BY <1>4 DEF CacheInv, Active
<1>5. CASE pc' = "begin" /\ call' \in {StaticCall, OwnCall}
  BY <1>1, <1>2, <1>5, SameCache DEF CacheInv, StaticCall, OwnCall
<1>6. CASE pc' = "begin" /\ Complete /\ job.opts.useCache /\ call' = UltraCall(blk)
  BY <1>1, <1>2, <1>6, SameCache DEF CacheInv, UltraCall
<1>7. CASE /\ pc' = "begin" /\ Complete /\ job.opts.useCache /\ job.opts.numiterations # 1
           /\ call' = OptimalCall(blk, call.iter + 1)
  <2>1. call.iter + 1 # 1
    BY DEF IInv, TypeOK
  <2>2. call'.kind = "optimal" /\ call'.mode = "replay" /\ call'.iter = call.iter + 1
    BY <1>7, <2>1 DEF OptimalCall, NextMode
  <2>3. call'.mode = IF job.opts.numiterations = 1 \/ ~job.opts.useCache THEN "plain"
                     ELSE IF call'.iter = 1 THEN "record" ELSE "replay"
    BY <1>7, <2>1, <2>2
  <2>. QED  BY <1>1, <1>2, <1>7, <2>2, <2>3, SameCache DEF CacheInv, NextMode
<1>. QED  BY <1>3, <1>4, <1>5, <1>6, <1>7

LEMMA CacheStep ==
  ASSUME IInv, ReachInv, CacheInv, [Next]_vars
  PROVE  CacheInv'
<1>1. CASE StartBlock
  <2>1. cache' = <<>> /\ cptr' = 0 /\ pc' = "begin" /\ job' = job
    BY <1>1 DEF StartBlock
  <2>2. \/ call'.kind = "fixed" /\ call'.mode = "plain"
        \/ call'.kind = "optimal" /\ call'.iter = 1 /\ call'.mode = NextMode(1)
    BY <1>1 DEF StartBlock, FixedCall, OptimalCall
  <2>3. NextMode(1) \in {"plain", "record"}
    BY DEF NextMode
  <2>4. Linked'
    BY <2>1 DEF Linked
  <2>5. call'.kind = "optimal" =>
          call'.mode = IF job'.opts.numiterations = 1 \/ ~job'.opts.useCache THEN "plain"
                       ELSE IF call'.iter = 1 THEN "record" ELSE "replay"
    BY <2>1, <2>2 DEF NextMode
  <2>. QED  BY <2>1, <2>2, <2>3, <2>4, <2>5 DEF CacheInv, NextMode
<1>2. CASE Finish
  BY <1>2 DEF Finish, CacheInv, Active
<1>3. CASE BeginSearch \/ BeginReplay
  <2>1. /\ pc = "begin" /\ Active /\ pc' = "loop" /\ i' = blk.from /\ mtype' = "none"
        /\ UNCHANGED <<job, blk, call, cache, cptr>>
    BY <1>3 DEF BeginSearch, BeginReplay, Active
  <2>2. cptr = 0 /\ Linked
    BY <2>1 DEF CacheInv
  <2>3. CachePos'
    <3>1. Len(cache) \in Nat
      BY DEF IInv, TypeOK
    <3>. QED  BY <2>1, <2>2, <3>1 DEF CachePos
  <2>4. call.mode = "record" => cptr = Len(cache)
    BY <2>1, <2>2 DEF CacheInv
  <2>. QED  BY <2>1, <2>2, <2>3, <2>4, SameCache DEF CacheInv, Active, NextMode
<1>4. CASE BeginOwn \/ OwnPosition
  <2>1. /\ pc \in {"begin", "loop", "find"} /\ pc' \in {"loop", "find"} /\ call.mode = "own"
        /\ UNCHANGED <<job, blk, call, cache, cptr>>
    BY <1>4 DEF BeginOwn, OwnPosition, AtPosition
  <2>. QED  BY <2>1, SameCache DEF CacheInv, Active, NextMode
<1>5. CASE SkipRepetition \/ NoSkip
  BY <1>5, SkipCache
<1>6. CASE SearchPosition
  <2>1. CASE call.mode = "record"
    BY <1>6, <2>1, RecordCache
  <2>2. CASE call.mode # "record"
    <3>1. /\ pc \in {"loop", "find"} /\ pc' = "loop" /\ call.mode # "replay"
          /\ UNCHANGED <<job, blk, call, cache, cptr>>
      BY <1>6, <2>2 DEF SearchPosition, AtPosition, Find
    <3>. QED  BY <2>2, <3>1, SameCache DEF CacheInv, Active, NextMode
  <2>. QED  BY <2>1, <2>2
<1>7. CASE ReplayPosition
  BY <1>7, ReplayCache
<1>8. CASE EndRun
  BY <1>8, EndCache
<1>9. CASE Decide
  BY <1>9, DecideCache
<1>10. CASE Stopped \/ UNCHANGED vars
  BY <1>10, SameCache DEF Stopped, vars, walk, CacheInv, CachePos, Active, NextMode, After, Skips,
                          RunLength, Smaller
<1>. QED  BY <1>1, <1>2, <1>3, <1>4, <1>5, <1>6, <1>7, <1>8, <1>9, <1>10 DEF Next, Search

\* GetBestLengths2 and the ultra loops read at every position the entry that
\* GetBestLengths wrote there, and never behind the last one.
THEOREM ReplayReadsItsEntry ==
  ASSUME OneSearch
  PROVE  Spec => []ReplayInStep
<1>1. Init => ReachInv /\ CacheInv
  BY DEF Init, ReachInv, EndReached, CacheInv, Active
<1>2. IInv /\ ReachInv /\ CacheInv /\ [Next]_vars => ReachInv' /\ CacheInv'
  BY ReachStep, CacheStep
<1>3. IInv /\ ReachInv /\ CacheInv => ReplayInStep
  BY ReplayReads DEF ReplayInStep
<1>. QED  BY <1>1, <1>2, <1>3, Invariant, PTL DEF Spec
-----------------------------------------------------------------------------
(* The statistics. Behind is the end of the last block that is done with     *)
(* but for its fixed tree; up to Front a block may already have left some.   *)
Behind == IF pc \in {"block", "done"} \/ call.kind = "static" THEN blk.to ELSE blk.from
Front == IF Active /\ FirstCall THEN blk.from ELSE blk.to

SomeLarge(end) == \E b \in Pieces : b.to <= end /\ IsLarge(b)

StInv ==
  /\ blk.from \in Ends \cup {0} /\ blk.to \in Ends \cup {0}
  /\ Active => /\ blk \in Pieces
               /\ call.kind = "fixed" <=> ~IsLarge(blk)
               /\ call.kind \in {"ultra", "own"} => job.opts.numiterations # 1
  /\ (job.opts.numiterations = 1 \/ job.opts.reuse) /\ SomeLarge(Behind) => st
  /\ st => SomeLarge(Front)

\* Up to the end of a block lie the blocks up to its start, and itself.
LEMMA UpTo ==
  ASSUME IInv, blk \in Pieces
  PROVE  /\ SomeLarge(blk.to) <=> SomeLarge(blk.from) \/ IsLarge(blk)
<1>1. Ends \subseteq Nat /\ blk.from \in Nat /\ blk.to \in Nat /\ blk.from < blk.to
  BY DEF IInv, TypeOK, IsJob, Ends, Pieces
<1>2. ASSUME NEW b \in Pieces, b.to <= blk.to, ~(b.to <= blk.from)
      PROVE  b.from = blk.from /\ b.to = blk.to
  <2>1. /\ b.from \in Ends \cup {0} /\ b.to \in Ends /\ b.from < b.to
        /\ \A e \in Ends : e > b.from => b.to <= e
        /\ blk.from \in Ends \cup {0} /\ blk.to \in Ends
        /\ \A e \in Ends : e > blk.from => blk.to <= e
    <3>1. b \in Pieces /\ blk \in Pieces
      BY <1>2
    <3>. QED  BY <3>1 DEF Pieces
  <2>2. b.from \in Nat /\ b.to \in Nat
    <3>1. Ends \subseteq Nat /\ 0 \in Nat
      BY <1>1
    <3>. QED  BY <2>1, <3>1, Zenon
  <2>3. b.to = blk.to
    BY <1>1, <1>2, <2>1, <2>2
  <2>4. ~(b.from < blk.from)
    BY <1>1, <1>2, <2>1, <2>2
  <2>5. ~(b.from > blk.from)
    BY <1>1, <1>2, <2>1, <2>2
  <2>. QED  BY <1>1, <2>2, <2>3, <2>4, <2>5
<1>3. ASSUME NEW b \in Pieces, b.to <= blk.from PROVE b.to <= blk.to
  <2>1. b.to \in Nat
    BY <1>1 DEF Pieces
  <2>. QED  BY <1>1, <1>3, <2>1
<1>4. blk.to <= blk.to
  BY <1>1
<1>. QED  BY <1>2, <1>3, <1>4 DEF SomeLarge, IsLarge

\* What the end of a search leaves: statistics, if they are to be used again.
LEMMA DecideSt ==
  ASSUME IInv, StInv, Decide
  PROVE  StInv'
<1>1. pc = "after" /\ Active /\ UNCHANGED <<job, blk>> /\ blk \in Pieces
  BY DEF Decide, SingleDone, IterationDone, UltraDone, OwnDone, FixedDone, StaticDone, Active,
         StInv
<1>2. /\ \A end : SomeLarge(end)' = SomeLarge(end)
      /\ IsLarge(blk)' = IsLarge(blk)
      /\ blk' \in Pieces' /\ blk'.from \in Ends' \cup {0} /\ blk'.to \in Ends' \cup {0}
      /\ job' = job
  BY <1>1 DEF SomeLarge, IsLarge, Pieces, Ends, StInv
<1>3. SomeLarge(blk.to) <=> SomeLarge(blk.from) \/ IsLarge(blk)
  BY <1>1, UpTo
<1>4. ASSUME NEW w, DynamicDone(w), IsLarge(blk),
             job.opts.numiterations = 1 \/ job.opts.reuse => w
      PROVE  StInv'
  <2>1. job.opts.numiterations = 1 \/ job.opts.reuse => st'
    BY <1>4 DEF DynamicDone
  <2>2. pc' = "block" \/ (pc' = "begin" /\ call' = StaticCall)
    BY <1>4 DEF DynamicDone
  <2>3. /\ Active' => call'.kind = "static"
        /\ Front' = blk'.to
    BY <2>2 DEF Active, StaticCall, Front, FirstCall
  <2>4. SomeLarge(Front)'
    <3>1. SomeLarge(blk.to)
      BY <1>3, <1>4
    <3>. QED  BY <1>1, <1>2, <2>3, <3>1 DEF SomeLarge
  <2>. QED  BY <1>2, <1>4, <2>1, <2>3, <2>4 DEF StInv
<1>5. ASSUME NEW c, call' = c, pc' = "begin", st => st', IsLarge(blk), call.kind # "static",
             c.kind = "optimal" => c.iter # 1, c.kind # "fixed", c.kind # "static",
             job.opts.numiterations # 1
      PROVE  StInv'
  <2>1. Behind = blk.from /\ Behind' = blk.from /\ Front' = blk.to
    BY <1>1, <1>5 DEF Behind, Front, FirstCall, Active
  <2>2. SomeLarge(Front)'
    <3>1. SomeLarge(blk.to)
      BY <1>3, <1>5
    <3>. QED  BY <1>1, <1>2, <2>1, <3>1 DEF SomeLarge
  <2>3. SomeLarge(Behind)' => SomeLarge(Behind)
    BY <1>1, <1>2, <2>1 DEF SomeLarge
  <2>. QED  BY <1>2, <1>5, <2>2, <2>3 DEF StInv
<1>6. call.kind # "fixed" => IsLarge(blk)
  BY <1>1 DEF StInv
<1>7. CASE SingleDone
  BY <1>4, <1>6, <1>7 DEF SingleDone
<1>8. CASE IterationDone
  <2>1. \/ DynamicDone(job.opts.reuse)
        \/ /\ pc' = "begin" /\ (st => st')
           /\ call' = OptimalCall(blk, call.iter + 1) \/ call' = UltraCall(blk)
    BY <1>8 DEF IterationDone, Again
  <2>2. job.opts.numiterations # 1 /\ call.iter + 1 # 1
    BY <1>8 DEF IterationDone, IInv, TypeOK, IsJob
  <2>3. call.kind = "optimal"
    BY <1>8 DEF IterationDone
  <2>4. OptimalCall(blk, call.iter + 1).iter = call.iter + 1
    BY DEF OptimalCall
  <2>. QED  BY <1>4, <1>5, <1>6, <2>1, <2>2, <2>3, <2>4 DEF OptimalCall, UltraCall
<1>9. CASE UltraDone \/ OwnDone
  <2>1. \/ DynamicDone(job.opts.reuse)
        \/ /\ pc' = "begin" /\ (st => st')
           /\ call' = OwnCall \/ call' = UltraCall(blk)
    BY <1>9 DEF UltraDone, OwnDone, Again
  <2>2. call.kind \in {"ultra", "own"} /\ job.opts.numiterations # 1
    BY <1>1, <1>9 DEF UltraDone, OwnDone, StInv
  <2>. QED  BY <1>4, <1>5, <1>6, <2>1, <2>2 DEF OwnCall, UltraCall
<1>10. CASE FixedDone
  <2>1. pc' = "block" /\ ~Active' /\ Behind' = blk.to /\ Front' = blk.to /\ st' = st
        /\ Behind = blk.from /\ Front = blk.from
    BY <1>1, <1>10 DEF FixedDone, Behind, Front, Active, FirstCall
  <2>2. ~IsLarge(blk)
    BY <1>1, <1>10 DEF FixedDone, StInv
  <2>3. /\ SomeLarge(Behind)' = SomeLarge(Behind)
        /\ SomeLarge(Front)' = SomeLarge(Front)
    BY <1>1, <1>2, <1>3, <2>1, <2>2 DEF SomeLarge
  <2>. QED  BY <1>2, <2>1, <2>3 DEF StInv
<1>11. CASE StaticDone
  <2>1. pc' = "block" /\ ~Active' /\ Behind' = blk.to /\ Front' = blk.to /\ st' = st
        /\ Behind = blk.to /\ Front = blk.to
    BY <1>1, <1>11 DEF StaticDone, Behind, Front, Active, FirstCall
  <2>2. /\ SomeLarge(Behind)' = SomeLarge(Behind)
        /\ SomeLarge(Front)' = SomeLarge(Front)
    BY <1>1, <1>2, <2>1 DEF SomeLarge
  <2>. QED  BY <1>2, <2>1, <2>2 DEF StInv
<1>. QED  BY <1>7, <1>8, <1>9, <1>10, <1>11 DEF Decide

LEMMA StStep ==
  ASSUME IInv, StInv, [Next]_vars
  PROVE  StInv'
<1>1. CASE StartBlock
  <2>. PICK b \in [from : {blk.to}, to : Ends] :
         /\ IsNextBlock(b)
         /\ blk' = b
         /\ call' = IF b.to - b.from <= job.opts.skipdynamic
                      THEN FixedCall(b) ELSE OptimalCall(b, 1)
    BY <1>1 DEF StartBlock
  <2>1. pc = "block" /\ pc' = "begin" /\ UNCHANGED <<job, st>>
    BY <1>1 DEF StartBlock
  <2>2. b.from = blk.to /\ b.to \in Ends /\ b \in Pieces
    <3>1. /\ b.from = blk.to /\ b.to \in Ends /\ b.from < b.to
          /\ \A e \in Ends : e > b.from => b.to <= e
      BY DEF IsNextBlock
    <3>2. b \in [from : Ends \cup {0}, to : Ends]
      BY <3>1 DEF StInv
    <3>. QED  BY <3>1, <3>2 DEF Pieces
  <2>3. /\ call'.kind = "fixed" \/ (call'.kind = "optimal" /\ call'.iter = 1)
        /\ call'.kind = "fixed" <=> ~IsLarge(b)
    <3>1. Ends \subseteq Nat /\ job.opts.skipdynamic \in Nat
      BY DEF IInv, TypeOK, IsJob, Ends
    <3>2. b.from \in Nat /\ b.to \in Nat
      BY <2>2, <3>1 DEF StInv
    <3>. QED  BY <3>1, <3>2 DEF FixedCall, OptimalCall, IsLarge
  <2>4. /\ Behind = blk.to /\ Behind' = blk.to /\ Front = blk.to /\ Front' = blk.to
        /\ Active'
    BY <2>1, <2>2, <2>3 DEF Behind, Front, FirstCall, Active
  <2>5. /\ SomeLarge(Behind)' = SomeLarge(Behind)
        /\ SomeLarge(Front)' = SomeLarge(Front)
    BY <2>1, <2>4 DEF SomeLarge, Pieces, Ends, IsLarge
  <2>6. /\ blk' \in Pieces' /\ IsLarge(blk)' = IsLarge(b)
        /\ blk'.from \in Ends' \cup {0} /\ blk'.to \in Ends' \cup {0}
    BY <2>1, <2>2 DEF Pieces, Ends, IsLarge, StInv
  <2>. QED  BY <2>1, <2>3, <2>4, <2>5, <2>6 DEF StInv
<1>2. CASE Finish
  BY <1>2 DEF Finish, StInv, Active, Behind, Front, FirstCall, SomeLarge, Pieces, Ends, IsLarge
<1>3. CASE Search \/ Stopped \/ UNCHANGED vars
  <2>1. /\ UNCHANGED <<job, blk, call, st>>
        /\ Active' <=> Active
        /\ pc' \in {"block", "done"} <=> pc \in {"block", "done"}
    BY <1>3 DEF Search, BeginSearch, BeginReplay, BeginOwn, OwnPosition, SkipRepetition, NoSkip,
                AtRun, SearchPosition, AtPosition, Find, ReplayPosition, EndRun, Stopped, vars, Active
  <2>2. Behind' = Behind /\ Front' = Front
    BY <2>1 DEF Behind, Front, FirstCall
  <2>3. /\ SomeLarge(Behind)' = SomeLarge(Behind)
        /\ SomeLarge(Front)' = SomeLarge(Front)
    BY <2>1, <2>2 DEF SomeLarge, Pieces, Ends, IsLarge
  <2>. QED  BY <2>1, <2>3 DEF StInv, Ends, Pieces, IsLarge
<1>4. CASE Decide
  BY <1>4, DecideSt
<1>. QED  BY <1>1, <1>2, <1>3, <1>4 DEF Next

\* A first run that starts from st finds statistics of this part there exactly
\* when a block before its own was larger than skipdynamic; a smaller one counts
\* as the first block but leaves none.
THEOREM StatisticsWritten ==
  ASSUME OneSearch
  PROVE  Spec => []StSeeded
<1>1. Init => StInv
  <2>. SUFFICES ASSUME Init PROVE StInv
    OBVIOUS
  <2>1. Ends \subseteq Nat \ {0}
    BY JobsAssumption DEF Init, IsJob, Ends
  <2>2. ~SomeLarge(0)
    <3>1. \A b \in Pieces : b.to \in Nat \ {0}
      BY <2>1, Zenon DEF Pieces
    <3>2. \A b \in Pieces : ~(b.to <= 0)
      BY <3>1
    <3>. QED  BY <3>2 DEF SomeLarge
  <2>3. ~Active /\ blk.from = 0 /\ blk.to = 0 /\ ~st /\ Behind = 0
    BY DEF Init, Active, Behind
  <2>. QED  BY <2>2, <2>3 DEF StInv
<1>2. IInv /\ StInv /\ [Next]_vars => StInv'
  BY StStep
<1>3. IInv /\ StInv => StSeeded
  <2>. SUFFICES ASSUME IInv, StInv, TakesSt
       PROVE  st <=> SomeLarge(blk.from)
    BY DEF StSeeded, SomeLarge
  <2>1. Behind = blk.from /\ Front = blk.from
    BY DEF TakesSt, Behind, Front, Active, FirstCall
  <2>2. job.opts.numiterations = 1 \/ job.opts.reuse
    BY DEF TakesSt
  <2>. QED  BY <2>1, <2>2 DEF StInv
<1>. QED  BY <1>1, <1>2, <1>3, Invariant, PTL DEF Spec
-----------------------------------------------------------------------------
(***************************************************************************)
(* The path that a run leaves (PathTrace): for every block and every step  *)
(* at each of its positions, the path is written inside its memory, and    *)
(* the entries of the store are the steps of a path through the whole      *)
(* block.                                                                  *)
(***************************************************************************)
TraceEntries == [litlen : Nat, dist : Nat]
At(k) == block.step[k]

\* what is left of the memory, in each of the loops; path never has more
\* entries than it has passed bytes
MemInv ==
  /\ Len(path) + size <= blocksize
  /\ Len(path) <= allocsize
  /\ loop \in {"bulk", "single"} => space + Len(path) = allocsize
  /\ loop = "chunk" => /\ space > Chunk /\ space + endsize = allocsize + Chunk
                       /\ Len(path) <= endsize
                       /\ size > MaxMatch * (endsize - Len(path))
  /\ loop \in {"follow", "done"} => size = 0

\* the steps that were copied end where the one copied before starts
PathInv ==
  /\ Len(path) = 0 => size = blocksize
  /\ Len(path) # 0 => path[1] = blocksize /\ size = path[Len(path)] - At(path[Len(path)]).length
  /\ \A k \in 1 .. Len(path) - 1 : path[k + 1] = path[k] - At(path[k]).length

\* the steps that were unpacked
StoreInv ==
  /\ loop \notin {"follow", "done"} => Len(store) = 0
  /\ loop = "follow" => Len(store) + item + 1 = Len(path)
  /\ loop = "done" => Len(store) = Len(path)
  /\ \A k \in 1 .. Len(store) : store[k] = Meant(At(path[Len(path) + 1 - k]))

TraceInv == TraceTypeOK /\ MemInv /\ PathInv /\ StoreInv
-----------------------------------------------------------------------------
\* What the type invariant says of the numbers.
LEMMA Numbers ==
  ASSUME TraceTypeOK
  PROVE  /\ blocksize \in Nat \ {0} /\ blocksize <= UIntMax
         /\ \A k \in 1 .. blocksize : IsStep(At(k), k)
         /\ size \in Nat /\ size <= blocksize /\ item \in Nat
         /\ path \in Seq(1 .. blocksize) /\ store \in Seq(TraceEntries)
         /\ allocsize \in Nat /\ space \in Nat /\ endsize \in Nat
         /\ Len(path) \in Nat /\ Len(store) \in Nat
         /\ \A k \in 1 .. Len(path) : path[k] \in 1 .. blocksize
BY LenProperties, ElementOfSeq DEF TraceTypeOK, IsBlock, TraceEntries, At, blocksize

\* The fields of a packed number: the low nine bits and what is above them.
LEMMA LowBits ==
  ASSUME NEW q \in Nat, NEW r \in Nat, r < DistUnit
  PROVE  (r + q * DistUnit) % DistUnit = r /\ (r + q * DistUnit) \div DistUnit = q
BY SMT DEF DistUnit

\* The byte of a literal is above the low 24 bits.
LEMMA HighByte ==
  ASSUME NEW b \in Nat
  PROVE  (1 + b * ByteUnit) % DistUnit = 1 /\ (1 + b * ByteUnit) \div ByteUnit = b
<1>1. 1 + b * ByteUnit = 1 + (b * MaxDist) * DistUnit /\ b * MaxDist \in Nat /\ 1 < DistUnit
  BY SMT DEF ByteUnit, MaxDist, DistUnit
<1>2. (1 + (b * MaxDist) * DistUnit) % DistUnit = 1
  BY <1>1, LowBits
<1>3. (1 + b * ByteUnit) \div ByteUnit = b
  BY SMT DEF ByteUnit
<1>. QED  BY <1>1, <1>2, <1>3

\* A distance fits in an unsigned short.
LEMMA ShortDistance ==
  ASSUME NEW d \in 1 .. MaxDist
  PROVE  d \in Nat /\ d % ShortSpan = d
<1>1. d \in Nat /\ d < ShortSpan /\ ShortSpan = 65536
  BY SMT DEF ShortSpan, MaxDist
<1>. QED  BY <1>1, SMT

\* What a step may be, without its numbers.
LEMMA StepKinds ==
  ASSUME NEW s, NEW k \in Nat, IsStep(s, k)
  PROVE  /\ s.length \in 1 .. MaxMatch /\ s.length <= k /\ s.length \in Nat /\ s.length < DistUnit
         /\ \/ s.length = 1 /\ ~(s.length >= MinMatch) /\ s.byte \in Nat
            \/ s.length # 1 /\ s.length >= MinMatch /\ s.dist \in 1 .. MaxDist
BY SizesAssumption, TraceAssumption, SMT DEF IsStep, DistUnit

\* What is packed in a number is unpacked again: the length by the trace, the
\* byte or the distance by FollowPath.
LEMMA Packed ==
  ASSUME NEW k \in Nat, IsStep(At(k), k)
  PROVE  /\ Length(length_array(k)) = At(k).length
         /\ Unpacked(length_array(k)) = Meant(At(k))
         /\ Meant(At(k)) \in TraceEntries
<1>. DEFINE s == At(k)
            e == length_array(k)
<1>1. e = (IF s.length = 1 THEN 1 + s.byte * ByteUnit ELSE s.length + s.dist * DistUnit)
  BY DEF length_array, At
<1>2. /\ s.length \in Nat /\ s.length < DistUnit
      /\ \/ s.length = 1 /\ ~(s.length >= MinMatch) /\ s.byte \in Nat
         \/ s.length # 1 /\ s.length >= MinMatch /\ s.dist \in 1 .. MaxDist
  BY StepKinds
<1>. HIDE DEF s, e
<1>3. CASE s.length = 1 /\ ~(s.length >= MinMatch) /\ s.byte \in Nat
  <2>1. e = 1 + s.byte * ByteUnit
    BY <1>1, <1>3
  <2>2. /\ (1 + s.byte * ByteUnit) % DistUnit = 1
        /\ (1 + s.byte * ByteUnit) \div ByteUnit = s.byte
    BY <1>3, HighByte, Zenon
  <2>3. Length(e) = s.length /\ e \div ByteUnit = s.byte
    BY <1>3, <2>1, <2>2, Zenon DEF Length
  <2>4. Unpacked(e) = [litlen |-> s.byte, dist |-> 0]
    BY <1>3, <2>3, Zenon DEF Unpacked
  <2>5. Meant(s) = [litlen |-> s.byte, dist |-> 0]
    BY <1>3, Zenon DEF Meant
  <2>6. Meant(s) \in TraceEntries
    BY <1>3, <2>5, SMT DEF TraceEntries
  <2>. QED  BY <2>3, <2>4, <2>5, <2>6, Zenon DEF s, e
<1>4. CASE s.length # 1 /\ s.length >= MinMatch /\ s.dist \in 1 .. MaxDist
  <2>1. e = s.length + s.dist * DistUnit
    BY <1>1, <1>4
  <2>2. s.dist \in Nat /\ s.dist % ShortSpan = s.dist
    BY <1>4, ShortDistance, Zenon
  <2>3. /\ (s.length + s.dist * DistUnit) % DistUnit = s.length
        /\ (s.length + s.dist * DistUnit) \div DistUnit = s.dist
    BY <1>2, <2>2, LowBits, Zenon
  <2>4. Length(e) = s.length /\ e \div DistUnit = s.dist
    BY <2>1, <2>3, Zenon DEF Length
  <2>5. Unpacked(e) = [litlen |-> s.length, dist |-> s.dist]
    BY <1>4, <2>2, <2>4, Zenon DEF Unpacked
  <2>6. Meant(s) = [litlen |-> s.length, dist |-> s.dist]
    BY <1>4, Zenon DEF Meant
  <2>7. Meant(s) \in TraceEntries
    BY <1>2, <2>2, <2>6, SMT DEF TraceEntries
  <2>. QED  BY <2>4, <2>5, <2>6, <2>7, Zenon DEF s, e
<1>. QED  BY <1>2, <1>3, <1>4, Zenon

\* A copy of an entry, wherever it is made: the path grows by a step that stays
\* in the block, and nothing else of the invariant on paths changes.
LEMMA Written ==
  ASSUME TraceInv, size # 0, Write, UNCHANGED <<block, item, store>>, loop \in {"chunk", "single"}
  PROVE  /\ path' \in Seq(1 .. blocksize) /\ Len(path') = Len(path) + 1
         /\ size' \in 0 .. blocksize /\ size' < size /\ size' >= size - MaxMatch
         /\ PathInv'
         /\ Len(path') + size' <= blocksize
         /\ store' = <<>> /\ Len(store) = 0
<1>1. /\ blocksize \in Nat \ {0} /\ size \in 1 .. blocksize /\ path \in Seq(1 .. blocksize) /\ Len(path) \in Nat
      /\ IsStep(At(size), size) /\ store \in Seq(TraceEntries) /\ Len(store) = 0 /\ blocksize' = blocksize
      /\ \A k \in 1 .. Len(path) : path[k] \in 1 .. blocksize
  BY Numbers DEF TraceInv, StoreInv, blocksize
<1>2. At(size).length \in 1 .. MaxMatch /\ At(size).length <= size
  BY <1>1, StepKinds
<1>3. path' = Append(path, size) /\ size' = size - At(size).length
  BY <1>1, Packed DEF Write
<1>4. /\ path' \in Seq(1 .. blocksize) /\ Len(path') = Len(path) + 1
      /\ \A k \in 1 .. Len(path) : path'[k] = path[k]
      /\ path'[Len(path) + 1] = size
  BY <1>1, <1>3, AppendProperties
<1>5. size' \in 0 .. blocksize /\ size' < size /\ size' >= size - MaxMatch
  BY <1>1, <1>2, <1>3, SizesAssumption, TraceAssumption
<1>6. PathInv'
  <2>1. \A k : At(k)' = At(k)
    BY DEF At
  <2>2. path'[1] = blocksize
    <3>1. (Len(path) = 0 => size = blocksize) /\ (Len(path) # 0 => path[1] = blocksize)
      BY DEF TraceInv, PathInv
    <3>2. Len(path) # 0 => 1 \in 1 .. Len(path)
      BY <1>1
    <3>3. CASE Len(path) = 0
      BY <1>4, <3>1, <3>3
    <3>4. CASE Len(path) # 0
      BY <1>4, <3>1, <3>2, <3>4
    <3>. QED  BY <3>3, <3>4
  <2>3. size' = path'[Len(path')] - At(path'[Len(path')]).length
    BY <1>3, <1>4
  <2>4. ASSUME NEW k \in 1 .. Len(path') - 1
        PROVE  path'[k + 1] = path'[k] - At(path'[k]).length
    <3>1. CASE k = Len(path)
      BY <1>1, <1>4, <3>1 DEF TraceInv, PathInv
    <3>2. CASE k # Len(path)
      <4>1. k \in 1 .. Len(path) - 1 /\ k + 1 \in 1 .. Len(path) /\ k \in 1 .. Len(path)
        BY <1>1, <1>4, <3>2
      <4>. QED  BY <1>4, <4>1 DEF TraceInv, PathInv
    <3>. QED  BY <3>1, <3>2
  <2>. QED  BY <1>1, <1>4, <2>1, <2>2, <2>3, <2>4 DEF PathInv
<1>7. Len(path') + size' <= blocksize
  BY <1>1, <1>4, <1>5 DEF TraceInv, MemInv
<1>8. store' = <<>>
  BY <1>1, EmptySeq
<1>. QED  BY <1>1, <1>4, <1>5, <1>6, <1>7, <1>8

\* The invariant holds when TraceBackwards begins.
LEMMA TraceInitInv ==
  ASSUME TraceInit
  PROVE  TraceInv
<1>1. IsBlock(block) /\ block.n \in Nat \ {0} /\ blocksize = block.n
  BY BlocksAssumption DEF TraceInit, IsBlock, blocksize
<1>2. MaxMatch \in Nat \ {0} /\ Spare \in Nat
  BY SizesAssumption, TraceAssumption, SMT DEF DistUnit
<1>3. blocksize \div MaxMatch \in Nat
  BY <1>1, <1>2, SMT
<1>4. allocsize \in Nat
  BY <1>2, <1>3 DEF TraceInit
<1>5. /\ path \in Seq(1 .. blocksize) /\ Len(path) = 0 /\ store \in Seq([litlen : Nat, dist : Nat])
      /\ Len(store) = 0 /\ loop = "outer" /\ size = blocksize /\ space = 0 /\ endsize = 0 /\ item = 0
  BY DEF TraceInit
<1>6. TraceTypeOK
  BY <1>1, <1>4, <1>5 DEF TraceTypeOK
<1>7. MemInv
  BY <1>1, <1>4, <1>5 DEF MemInv
<1>8. PathInv /\ StoreInv
  BY <1>5 DEF PathInv, StoreInv
<1>. QED  BY <1>6, <1>7, <1>8 DEF TraceInv

\* A step that leaves path and store alone keeps what is said of them.
LEMMA SamePath ==
  ASSUME PathInv, UNCHANGED <<block, size, path>>
  PROVE  PathInv' /\ blocksize' = blocksize
BY DEF PathInv, At, blocksize

LEMMA SameStore ==
  ASSUME StoreInv, UNCHANGED <<block, path, store>>,
         loop \notin {"follow", "done"}, loop' \notin {"follow", "done"}
  PROVE  StoreInv'
BY DEF StoreInv, At

\* The checks between the loops: space is what is left of the memory.
LEMMA CheckInv ==
  ASSUME TraceInv, Outer \/ StartChunk \/ EndChunk \/ StartSingle \/ EndSingle
  PROVE  TraceInv'
<1>1. /\ UNCHANGED <<block, size, path, allocsize, item, store>>
      /\ loop \notin {"follow", "done"} /\ loop' \in {"bulk", "chunk", "single", "grow"}
  BY DEF Outer, StartChunk, EndChunk, StartSingle, EndSingle, memory, following
<1>2. PathInv' /\ StoreInv' /\ blocksize' = blocksize
  BY <1>1, SamePath, SameStore DEF TraceInv
<1>3. /\ MaxMatch \in Nat /\ Chunk \in Nat \ {0} /\ UIntMax \in Nat
      /\ blocksize \in Nat /\ Len(path) \in Nat /\ size \in Nat
      /\ allocsize \in Nat /\ space \in Nat /\ endsize \in Nat
  BY Numbers, SizesAssumption, TraceAssumption, SMT DEF TraceInv, DistUnit
<1>4. space' \in Nat /\ endsize' \in Nat
      /\ (loop' \in {"bulk", "single"} => space' + Len(path) = allocsize)
      /\ (loop' = "chunk" => /\ space' > Chunk /\ space' + endsize' = allocsize + Chunk
                             /\ Len(path) <= endsize'
                             /\ size > MaxMatch * (endsize' - Len(path)))
  <2>1. CASE Outer
    BY <1>3, <2>1 DEF TraceInv, MemInv, Outer, memory
  <2>2. CASE StartChunk
    <3>1. /\ endsize' = Len(path) + Chunk /\ space' = space /\ loop' = "chunk"
          /\ size > MaxMatch * Chunk /\ space > Chunk /\ space + Len(path) = allocsize
      BY <2>2 DEF TraceInv, MemInv, StartChunk, Roomy
    <3>2. endsize' - Len(path) = Chunk /\ endsize' \in Nat
      BY <1>3, <3>1
    <3>. QED  BY <1>3, <3>1, <3>2
  <2>3. CASE EndChunk
    BY <1>3, <2>3 DEF TraceInv, MemInv, EndChunk, memory
  <2>4. CASE StartSingle
    BY <1>3, <2>4 DEF TraceInv, MemInv, StartSingle, memory
  <2>5. CASE EndSingle
    BY <1>3, <2>5 DEF EndSingle, memory, Decremented
  <2>. QED  BY <2>1, <2>2, <2>3, <2>4, <2>5
<1>5. TraceTypeOK'
  BY <1>1, <1>2, <1>4 DEF TraceInv, TraceTypeOK
<1>6. MemInv'
  BY <1>1, <1>2, <1>4 DEF TraceInv, MemInv
<1>. QED  BY <1>2, <1>5, <1>6 DEF TraceInv

\* An entry of a chunk: what is left of the block is more than the rest of the
\* chunk can pass.
LEMMA WriteChunkInv ==
  ASSUME TraceInv, WriteChunk
  PROVE  TraceInv'
<1>1. /\ UNCHANGED <<block, loop, allocsize, endsize, space, item, store>> /\ Write
      /\ loop = "chunk" /\ Len(path) < endsize /\ blocksize' = blocksize
  BY DEF WriteChunk, memory, following, blocksize
<1>2. /\ MaxMatch \in Nat /\ Chunk \in Nat /\ blocksize \in Nat /\ Len(path) \in Nat /\ size \in Nat
      /\ allocsize \in Nat /\ space \in Nat /\ endsize \in Nat
  BY Numbers, SizesAssumption, TraceAssumption, SMT DEF TraceInv, DistUnit
<1>3. /\ space > Chunk /\ space + endsize = allocsize + Chunk
      /\ size > MaxMatch * (endsize - Len(path))
  BY <1>1 DEF TraceInv, MemInv
<1>. DEFINE d == endsize - Len(path) - 1
<1>4. d \in Nat /\ endsize - Len(path) = d + 1 /\ MaxMatch * (d + 1) = MaxMatch * d + MaxMatch
  BY <1>1, <1>2, SMT
<1>5. MaxMatch * d \in Nat
  BY <1>2, <1>4, SMT
<1>6. size > MaxMatch * d + MaxMatch /\ size # 0
  BY <1>2, <1>3, <1>4, <1>5
<1>7. /\ path' \in Seq(1 .. blocksize) /\ Len(path') = Len(path) + 1 /\ size' \in 0 .. blocksize
      /\ size' >= size - MaxMatch /\ PathInv' /\ Len(path') + size' <= blocksize
      /\ store' = <<>> /\ Len(store) = 0
  BY <1>1, <1>6, Written
<1>8. endsize' - Len(path') = d /\ size' > MaxMatch * d
  BY <1>1, <1>2, <1>5, <1>6, <1>7
<1>9. TraceTypeOK'
  BY <1>1, <1>7 DEF TraceInv, TraceTypeOK
<1>10. MemInv'
  BY <1>1, <1>2, <1>3, <1>7, <1>8 DEF MemInv
<1>11. StoreInv'
  BY <1>1, <1>7 DEF StoreInv
<1>. QED  BY <1>7, <1>9, <1>10, <1>11 DEF TraceInv

\* A single entry: there is space for it.
LEMMA WriteSingleInv ==
  ASSUME TraceInv, WriteSingle
  PROVE  TraceInv'
<1>1. /\ UNCHANGED <<block, loop, allocsize, endsize, item, store>> /\ Write /\ blocksize' = blocksize
      /\ loop = "single" /\ space # 0 /\ size # 0 /\ space' = space - 1
  BY DEF WriteSingle, memory, following, blocksize, Decremented
<1>2. /\ blocksize \in Nat /\ Len(path) \in Nat /\ allocsize \in Nat /\ space \in Nat
      /\ space + Len(path) = allocsize
  BY <1>1, Numbers DEF TraceInv, MemInv
<1>3. /\ path' \in Seq(1 .. blocksize) /\ Len(path') = Len(path) + 1 /\ size' \in 0 .. blocksize
      /\ PathInv' /\ Len(path') + size' <= blocksize /\ store' = <<>> /\ Len(store) = 0
  BY <1>1, Written
<1>4. TraceTypeOK'
  BY <1>1, <1>2, <1>3 DEF TraceInv, TraceTypeOK
<1>5. MemInv'
  BY <1>1, <1>2, <1>3 DEF MemInv
<1>6. StoreInv'
  BY <1>1, <1>3 DEF StoreInv
<1>. QED  BY <1>3, <1>4, <1>5, <1>6 DEF TraceInv

\* The memory never shrinks below what was written.
LEMMA GrowInv ==
  ASSUME TraceInv, Grow
  PROVE  TraceInv'
<1>1. /\ UNCHANGED <<block, size, path, endsize, space, item, store>>
      /\ loop = "grow" /\ loop' = "outer"
  BY DEF Grow, following
<1>2. PathInv' /\ StoreInv' /\ blocksize' = blocksize
  BY <1>1, SamePath, SameStore DEF TraceInv
<1>3. /\ blocksize \in Nat /\ Len(path) \in Nat /\ size \in Nat /\ allocsize \in Nat
      /\ Len(path) + size <= blocksize /\ Len(path) <= allocsize
  BY Numbers DEF TraceInv, MemInv
<1>4. allocsize' \in Nat /\ Len(path) <= allocsize'
  BY <1>3 DEF Grow, Least
<1>5. TraceTypeOK'
  BY <1>1, <1>2, <1>4 DEF TraceInv, TraceTypeOK
<1>6. MemInv'
  BY <1>1, <1>2, <1>3, <1>4 DEF MemInv
<1>. QED  BY <1>2, <1>5, <1>6 DEF TraceInv

\* FollowPath begins with the step that was copied last.
LEMMA StartFollowInv ==
  ASSUME TraceInv, StartFollow
  PROVE  TraceInv'
<1>1. /\ UNCHANGED <<block, size, path, allocsize, endsize, space, store>>
      /\ loop = "outer" /\ loop' = "follow" /\ size = 0 /\ item' = Len(path) - 1
  BY DEF StartFollow, memory
<1>2. PathInv' /\ blocksize' = blocksize
  BY <1>1, SamePath DEF TraceInv
<1>3. blocksize \in Nat \ {0} /\ Len(path) \in Nat /\ Len(store) = 0 /\ Len(path) # 0
  BY <1>1, Numbers DEF TraceInv, PathInv, StoreInv
<1>4. item' \in Nat
  BY <1>1, <1>3
<1>5. TraceTypeOK'
  BY <1>1, <1>2, <1>4 DEF TraceInv, TraceTypeOK
<1>6. MemInv'
  BY <1>1, <1>2 DEF TraceInv, MemInv
<1>7. StoreInv'
  BY <1>1, <1>3 DEF StoreInv
<1>. QED  BY <1>2, <1>5, <1>6, <1>7 DEF TraceInv

\* A step is unpacked and joins the store.
LEMMA FollowPathInv ==
  ASSUME TraceInv, FollowPath
  PROVE  TraceInv'
<1>1. /\ UNCHANGED <<block, size, path, allocsize, endsize, space>> /\ loop = "follow"
      /\ store' = Append(store, Unpacked(length_array(path[item + 1])))
      /\ IF item = 0 THEN loop' = "done" /\ item' = item ELSE item' = item - 1 /\ loop' = loop
  BY DEF FollowPath, memory
<1>2. PathInv' /\ blocksize' = blocksize
  BY <1>1, SamePath DEF TraceInv
<1>3. /\ blocksize \in Nat /\ Len(path) \in Nat /\ Len(store) \in Nat /\ item \in Nat
      /\ Len(store) + item + 1 = Len(path) /\ store \in Seq(TraceEntries)
      /\ \A k \in 1 .. Len(store) : store[k] = Meant(At(path[Len(path) + 1 - k]))
  BY <1>1, Numbers DEF TraceInv, StoreInv
<1>4. item + 1 \in 1 .. Len(path) /\ item + 1 = Len(path) + 1 - (Len(store) + 1)
  BY <1>3
<1>5. path[item + 1] \in Nat /\ IsStep(At(path[item + 1]), path[item + 1])
  BY <1>4, Numbers DEF TraceInv
<1>6. /\ Unpacked(length_array(path[item + 1])) = Meant(At(path[item + 1]))
      /\ Meant(At(path[item + 1])) \in TraceEntries
  BY <1>5, Packed
<1>7. /\ store' \in Seq(TraceEntries) /\ Len(store') = Len(store) + 1
      /\ \A k \in 1 .. Len(store) : store'[k] = store[k]
      /\ store'[Len(store) + 1] = Meant(At(path[item + 1]))
  BY <1>1, <1>3, <1>6, AppendProperties
<1>8. TraceTypeOK'
  <2>1. item' \in Nat /\ loop' \in {"follow", "done"}
    BY <1>1, <1>3
  <2>2. store' \in Seq([litlen : Nat, dist : Nat])
    BY <1>7 DEF TraceEntries
  <2>. QED  BY <1>1, <1>2, <2>1, <2>2 DEF TraceInv, TraceTypeOK
<1>9. MemInv'
  BY <1>1, <1>2 DEF TraceInv, MemInv
<1>10. StoreInv'
  <2>1. \A k : At(k)' = At(k)
    BY <1>1 DEF At
  <2>2. ASSUME NEW k \in 1 .. Len(store')
        PROVE  store'[k] = Meant(At(path[Len(path) + 1 - k]))
    <3>1. CASE k = Len(store) + 1
      BY <1>4, <1>7, <3>1
    <3>2. CASE k # Len(store) + 1
      <4>1. k \in 1 .. Len(store)
        BY <1>3, <1>7, <3>2
      <4>. QED  BY <1>3, <1>7, <4>1
    <3>. QED  BY <3>1, <3>2
  <2>. QED  BY <1>1, <1>3, <1>7, <2>1, <2>2 DEF StoreInv
<1>. QED  BY <1>2, <1>8, <1>9, <1>10 DEF TraceInv

\* What every step preserves.
THEOREM TraceInvariant == TraceSpec => []TraceInv
<1>1. ASSUME TraceInv, [TraceNext]_tracevars PROVE TraceInv'
  <2>1. CASE TraceNext
    <3>1. CASE Outer \/ StartChunk \/ EndChunk \/ StartSingle \/ EndSingle
      BY <1>1, <3>1, CheckInv
    <3>2. CASE WriteChunk
      BY <1>1, <3>2, WriteChunkInv
    <3>3. CASE WriteSingle
      BY <1>1, <3>3, WriteSingleInv
    <3>4. CASE Grow
      BY <1>1, <3>4, GrowInv
    <3>5. CASE StartFollow
      BY <1>1, <3>5, StartFollowInv
    <3>6. CASE FollowPath
      BY <1>1, <3>6, FollowPathInv
    <3>7. CASE TraceStopped
      BY <1>1, <3>7 DEF TraceStopped, tracevars, TraceInv, TraceTypeOK, MemInv, PathInv, StoreInv, At, blocksize
    <3>. QED  BY <2>1, <3>1, <3>2, <3>3, <3>4, <3>5, <3>6, <3>7 DEF TraceNext
  <2>2. CASE UNCHANGED tracevars
    BY <1>1, <2>2 DEF tracevars, TraceInv, TraceTypeOK, MemInv, PathInv, StoreInv, At, blocksize
  <2>. QED  BY <1>1, <2>1, <2>2
<1>. QED  BY <1>1, TraceInitInv, PTL DEF TraceSpec

\* The variables keep to their ranges; the trace never leaves the block.
THEOREM TraceTypeCorrect == TraceSpec => []TraceTypeOK
<1>1. TraceInv => TraceTypeOK
  BY DEF TraceInv
<1>. QED  BY <1>1, TraceInvariant, PTL

\* TraceBackwards (squeeze.c:806) writes no entry behind its memory, for any
\* first size of it and any size of a chunk.
THEOREM WritesInBuffer == TraceSpec => []InBuffer
<1>1. TraceInv => InBuffer
  BY DEF TraceInv, MemInv, InBuffer
<1>. QED  BY <1>1, TraceInvariant, PTL

\* FollowPath (squeeze.c:855) leaves in the store the steps of a path through
\* the whole block, in order, with the lengths, distances and bytes they had.
THEOREM PathReproduces == TraceSpec => []Reproduces
<1>1. ASSUME TraceInv, loop = "done"
      PROVE  /\ Len(path) > 0 /\ Len(store) = Len(path)
             /\ \A k \in 1 .. Len(path) :
                  store[k] = Meant(block.step[path[Len(path) + 1 - k]])
             /\ path[Len(path) + 1 - 1] = block.step[path[Len(path) + 1 - 1]].length
             /\ path[Len(path) + 1 - Len(path)] = blocksize
             /\ \A k \in 1 .. Len(path) - 1 :
                  path[Len(path) + 1 - k] =
                    path[Len(path) + 1 - (k + 1)] - block.step[path[Len(path) + 1 - (k + 1)]].length
  <2>1. /\ blocksize \in Nat \ {0} /\ Len(path) \in Nat /\ size = 0 /\ Len(store) = Len(path)
        /\ \A k \in 1 .. Len(path) : path[k] \in 1 .. blocksize /\ IsStep(At(path[k]), path[k])
    BY <1>1, Numbers DEF TraceInv, MemInv, StoreInv
  <2>2. Len(path) > 0
    BY <1>1, <2>1 DEF TraceInv, PathInv
  <2>3. Len(path) \in 1 .. Len(path) /\ Len(path) + 1 - 1 = Len(path) /\ Len(path) + 1 - Len(path) = 1
    BY <2>1, <2>2
  <2>4. At(path[Len(path)]).length \in Nat /\ path[Len(path)] \in Nat
    BY <2>1, <2>3, StepKinds
  <2>5. path[1] = blocksize /\ path[Len(path)] = At(path[Len(path)]).length
    BY <1>1, <2>1, <2>2, <2>4 DEF TraceInv, PathInv
  <2>6. ASSUME NEW k \in 1 .. Len(path) - 1
        PROVE  path[Len(path) + 1 - k] =
                 path[Len(path) + 1 - (k + 1)] - block.step[path[Len(path) + 1 - (k + 1)]].length
    <3>. DEFINE b == Len(path) - k
    <3>1. /\ b \in 1 .. Len(path) - 1 /\ Len(path) + 1 - k = b + 1
          /\ Len(path) + 1 - (k + 1) = b
      BY <2>1
    <3>2. path[b + 1] = path[b] - At(path[b]).length
      BY <1>1, <3>1 DEF TraceInv, PathInv
    <3>. QED  BY <3>1, <3>2 DEF At
  <2>. QED  BY <1>1, <2>1, <2>2, <2>3, <2>5, <2>6 DEF TraceInv, StoreInv, At
<1>2. TraceInv => Reproduces
  BY <1>1 DEF Reproduces
<1>. QED  BY <1>2, TraceInvariant, PTL
=============================================================================
