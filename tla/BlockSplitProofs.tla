-------------------------- MODULE BlockSplitProofs ---------------------------
(***************************************************************************)
(* Proofs about BlockSplit: for every store of LZ77 entries and every cost *)
(* function, FindMinimum stays inside its block and narrows its range, and *)
(* the split points cut the part into non-empty blocks, each with the      *)
(* statistics of its own entries.                                          *)
(***************************************************************************)
EXTENDS BlockSplit, SequenceTheorems, TLAPS

InBlock == pc \in {"find", "round", "decide"}
NotConverting == pc \in {"start", "find", "round", "decide", "next"}

\* the block that is searched, and that no split point lies inside it
BlockInv ==
  /\ Sorted
  /\ \A a \in 1 .. Len(points) : 0 < points[a] /\ points[a] < job.size
  /\ pc = "start" => points = <<>> /\ lstart = 0 /\ lend = job.size
  /\ InBlock => /\ lend - lstart >= 2
                /\ \A a \in 1 .. Len(points) : points[a] <= lstart \/ lend <= points[a]

\* the range that FindMinimum narrows lies in the block
SearchInv ==
  Searching => /\ lstart < start /\ start <= end /\ end <= lend
               /\ lstart < pos /\ pos < lend

\* how far the conversion has come
ConvertInv ==
  /\ NotConverting => splits = <<>> /\ stats = <<>> /\ ci = 0 /\ cpos = job.at[0]
  /\ pc # "done" => /\ cpos = job.at[ci]
                    /\ Len(stats) = Len(splits)
                    /\ \A a \in Len(splits) + 1 .. Len(points) : ci <= points[a]
  /\ Len(splits) <= Len(points)
  /\ \A a \in 1 .. Len(splits) :
       /\ splits[a] = job.at[points[a]]
       /\ stats[a] = [from |-> IF a = 1 THEN 0 ELSE points[a - 1], to |-> points[a]]
  /\ pc = "done" =>
       /\ Len(splits) = Len(points) /\ Len(stats) = Len(splits) + 1
       /\ stats[Len(stats)] =
            [from |-> IF points = <<>> THEN 0 ELSE points[Len(points)], to |-> job.size]

IInv == TypeOK /\ BlockInv /\ SearchInv /\ ConvertInv
-----------------------------------------------------------------------------
\* What the type invariant says of the part.
LEMMA JobFacts ==
  ASSUME TypeOK
  PROVE  /\ job.size \in Nat \ {0} /\ job.at \in [0 .. job.size -> Nat]
         /\ \A a, b \in 0 .. job.size : a < b => job.at[a] < job.at[b]
         /\ job.opts.num \in {3, 9}
         /\ job.opts.noblocksplitlz \in Nat \ {0, 1}
         /\ lstart \in Nat /\ lend \in Nat /\ lend <= job.size
         /\ start \in Nat /\ end \in Nat /\ pos \in Nat
         /\ start <= job.size /\ end <= job.size /\ pos <= job.size
         /\ points \in Seq(0 .. job.size) /\ Len(points) \in Nat
         /\ \A a \in 1 .. Len(points) : points[a] \in 0 .. job.size
<1>1. points \in Seq(0 .. job.size)
  BY DEF TypeOK
<1>2. Len(points) \in Nat /\ \A a \in 1 .. Len(points) : points[a] \in 0 .. job.size
  BY <1>1, LenProperties, ElementOfSeq
<1>3. IsJob(job) /\ lstart \in 0 .. job.size /\ lend \in 0 .. job.size
      /\ start \in 0 .. job.size /\ end \in 0 .. job.size /\ pos \in 0 .. job.size
  BY DEF TypeOK
<1>4. job.size \in Nat \ {0}
  BY <1>3 DEF IsJob
<1>5. /\ job.at \in [0 .. job.size -> Nat]
      /\ job.opts.num \in {3, 9} /\ job.opts.noblocksplitlz \in Nat \ {0, 1}
  BY <1>3 DEF IsJob
<1>6. \A a, b \in 0 .. job.size : a < b => job.at[a] < job.at[b]
  BY <1>3 DEF IsJob
<1>. QED  BY <1>1, <1>2, <1>3, <1>4, <1>5, <1>6

\* The samples lie in the range, in order, and a step apart.
LEMMA Samples ==
  ASSUME start \in Nat, end \in Nat, job.opts.num \in {3, 9}, ~Few,
         NEW k \in 1 .. job.opts.num
  PROVE  /\ Sample(k) \in Nat /\ start < Sample(k) /\ Sample(k) < end
         /\ NextStart(k) \in Nat /\ NextEnd(k) \in Nat
         /\ start <= NextStart(k) /\ NextStart(k) < Sample(k)
         /\ Sample(k) < NextEnd(k) /\ NextEnd(k) <= end
         /\ NextEnd(k) - NextStart(k) < end - start
<1>. DEFINE step == (end - start) \div (job.opts.num + 1)
<1>1. CASE job.opts.num = 3
  <2>1. step \in Nat \ {0} /\ 4 * step <= end - start
    BY <1>1 DEF Few
  <2>2. k \in {1, 2, 3}
    BY <1>1
  <2>. HIDE DEF step
  <2>3. \A j \in Int : Sample(j) = start + j * step
    BY DEF Sample, step
  <2>. QED  BY <1>1, <2>1, <2>2, <2>3 DEF NextStart, NextEnd
<1>2. CASE job.opts.num = 9
  <2>1. step \in Nat \ {0} /\ 10 * step <= end - start
    BY <1>2 DEF Few
  <2>2. k \in {1, 2, 3, 4, 5, 6, 7, 8, 9}
    BY <1>2
  <2>. HIDE DEF step
  <2>3. \A j \in Int : Sample(j) = start + j * step
    BY DEF Sample, step
  <2>. QED  BY <1>2, <2>1, <2>2, <2>3 DEF NextStart, NextEnd
<1>. QED  BY <1>1, <1>2

\* AddSorted keeps the order and adds exactly the new point.
LEMMA InsertedFacts ==
  ASSUME NEW n \in Nat, NEW s \in Seq(0 .. n), NEW v \in 0 .. n, NEW k \in 0 .. Len(s),
         Position(s, v, k),
         \A a, b \in 1 .. Len(s) : a < b => s[a] < s[b],
         \A a \in 1 .. Len(s) : s[a] # v
  PROVE  /\ Inserted(s, v, k) \in Seq(0 .. n) /\ Len(Inserted(s, v, k)) = Len(s) + 1
         /\ \A a, b \in 1 .. Len(s) + 1 : a < b => Inserted(s, v, k)[a] < Inserted(s, v, k)[b]
         /\ \A a \in 1 .. Len(s) + 1 :
              Inserted(s, v, k)[a] = v \/ \E b \in 1 .. Len(s) : Inserted(s, v, k)[a] = s[b]
<1>. DEFINE new == Inserted(s, v, k)
<1>1. Len(s) \in Nat /\ \A a \in 1 .. Len(s) : s[a] \in 0 .. n
  OBVIOUS
<1>2. \A a \in 1 .. Len(s) + 1 :
        new[a] = IF a <= k THEN s[a] ELSE IF a = k + 1 THEN v ELSE s[a - 1]
  BY <1>1 DEF Inserted
<1>3. \A a \in 1 .. k : s[a] < v
  <2>1. \A a \in 1 .. k : s[a] <= v /\ s[a] # v /\ s[a] \in 0 .. n
    BY <1>1 DEF Position
  <2>. QED  BY <2>1
<1>4. \A a \in k + 1 .. Len(s) : v < s[a]
  <2>. SUFFICES ASSUME NEW a \in k + 1 .. Len(s)
       PROVE  v < s[a]
    OBVIOUS
  <2>1. k + 1 \in 1 .. Len(s) /\ a \in 1 .. Len(s)
    BY <1>1
  <2>2. v < s[k + 1]
    BY <1>1, <2>1 DEF Position
  <2>3. s[k + 1] <= s[a]
    BY <1>1, <2>1
  <2>. QED  BY <1>1, <2>1, <2>2, <2>3
<1>5. Len(s) + 1 \in Nat /\ new \in [1 .. Len(s) + 1 -> 0 .. n]
  <2>1. ASSUME NEW a \in 1 .. Len(s) + 1
        PROVE  (IF a <= k THEN s[a] ELSE IF a = k + 1 THEN v ELSE s[a - 1]) \in 0 .. n
    <3>1. CASE a <= k
      <4>1. a \in 1 .. Len(s)
        BY <1>1, <3>1
      <4>. QED  BY <1>1, <3>1, <4>1
    <3>2. CASE a = k + 1
      BY <1>1, <3>2
    <3>3. CASE a > k + 1
      <4>1. a - 1 \in 1 .. Len(s) /\ ~(a <= k) /\ a # k + 1
        BY <1>1, <3>3
      <4>. QED  BY <1>1, <4>1
    <3>. QED  BY <1>1, <3>1, <3>2, <3>3
  <2>. QED  BY <1>1, <2>1 DEF Inserted
<1>. HIDE DEF new
<1>6. new \in Seq(0 .. n) /\ Len(new) = Len(s) + 1
  BY <1>5, SeqDef
<1>7. ASSUME NEW a \in 1 .. Len(s) + 1, NEW b \in 1 .. Len(s) + 1, a < b
      PROVE  new[a] < new[b]
  <2>1. CASE b <= k
    <3>1. new[a] = s[a] /\ new[b] = s[b] /\ a \in 1 .. Len(s) /\ b \in 1 .. Len(s)
      BY <1>1, <1>2, <1>7, <2>1
    <3>. QED  BY <1>7, <3>1
  <2>2. CASE b = k + 1
    <3>1. new[a] = s[a] /\ new[b] = v /\ a \in 1 .. k
      BY <1>1, <1>2, <1>7, <2>2
    <3>. QED  BY <1>3, <3>1
  <2>3. CASE b > k + 1 /\ a <= k
    <3>1. new[a] = s[a] /\ new[b] = s[b - 1] /\ a < b - 1 /\ a \in 1 .. Len(s) /\ b - 1 \in 1 .. Len(s)
      BY <1>1, <1>2, <1>7, <2>3
    <3>. QED  BY <1>1, <1>7, <2>3, <3>1
  <2>4. CASE b > k + 1 /\ a = k + 1
    <3>. k \in Nat /\ ~(a <= k)
      BY <1>1, <2>4
    <3>1. new[a] = v
      BY <1>2, <2>4
    <3>2. b - 1 \in k + 1 .. Len(s)
      BY <1>1, <2>4
    <3>3. new[b] = s[b - 1]
      BY <1>1, <1>2, <2>4
    <3>. QED  BY <1>4, <3>1, <3>2, <3>3
  <2>5. CASE b > k + 1 /\ a > k + 1
    <3>1. /\ new[a] = s[a - 1] /\ new[b] = s[b - 1]
          /\ a - 1 \in 1 .. Len(s) /\ b - 1 \in 1 .. Len(s) /\ a - 1 < b - 1
      BY <1>1, <1>2, <1>7, <2>5
    <3>. QED  BY <1>1, <3>1
  <2>. QED  BY <1>1, <2>1, <2>2, <2>3, <2>4, <2>5
<1>8. ASSUME NEW a \in 1 .. Len(s) + 1
      PROVE  new[a] = v \/ \E b \in 1 .. Len(s) : new[a] = s[b]
  <2>1. CASE a <= k
    BY <1>1, <1>2, <2>1
  <2>2. CASE a = k + 1
    BY <1>1, <1>2, <2>2
  <2>3. CASE a > k + 1
    <3>1. new[a] = s[a - 1] /\ a - 1 \in 1 .. Len(s)
      BY <1>1, <1>2, <2>3
    <3>. QED  BY <3>1
  <2>. QED  BY <1>1, <2>1, <2>2, <2>3
<1>. QED  BY <1>6, <1>7, <1>8 DEF new
-----------------------------------------------------------------------------
LEMMA InitInv ==
  ASSUME Init
  PROVE  IInv
<1>. USE CostsAssumption
<1>1. IsJob(job)
  BY JobsAssumption DEF Init
<1>2. job.size \in Nat \ {0} /\ job.at[0] \in Nat
  BY <1>1 DEF IsJob
<1>3. TypeOK
  <2>1. /\ points \in Seq(0 .. job.size) /\ splits \in Seq(Nat)
        /\ stats \in Seq([from : Nat, to : Nat]) /\ done \subseteq 0 .. job.size
    BY DEF Init
  <2>2. DOMAIN known = {}
    BY DEF Init
  <2>3. {start, end, pos} = {0} /\ ci = 0 /\ lstart = 0 /\ lend = job.size
    BY DEF Init
  <2>4. cpos \in Nat /\ sampled \in BOOLEAN /\ best \in Nat /\ lastbest \in Nat
    BY <1>2 DEF Init
  <2>5. pc = "start"
    BY DEF Init
  <2>6. \A q \in DOMAIN known : q \in Nat /\ known[q] \in Nat
    BY <2>2
  <2>7. /\ {start, end, pos} \subseteq 0 .. job.size /\ ci \in 0 .. job.size
        /\ lstart \in 0 .. job.size /\ lend \in 0 .. job.size
    BY <1>2, <2>3
  <2>. QED  BY <1>1, <2>1, <2>4, <2>5, <2>6, <2>7 DEF TypeOK
<1>4. BlockInv
  BY <1>2 DEF Init, BlockInv, Sorted, InBlock
<1>5. SearchInv
  BY DEF Init, SearchInv, Searching
<1>6. ConvertInv
  BY <1>2 DEF Init, ConvertInv, NotConverting
<1>. QED  BY <1>3, <1>4, <1>5, <1>6 DEF IInv

LEMMA StartInv ==
  ASSUME IInv, Start
  PROVE  IInv'
<1>. USE DEF IInv, Start, block, search
<1>1. job.size \in Nat \ {0} /\ job.opts.noblocksplitlz \in Nat \ {0, 1}
  BY JobFacts
<1>2. splits = <<>> /\ stats = <<>> /\ points = <<>> /\ lstart = 0 /\ lend = job.size
  BY DEF ConvertInv, NotConverting, BlockInv
<1>3. CASE job.at[job.size] - job.at[0] < job.opts.noblocksplit
  <2>1. stats' = <<[from |-> 0, to |-> job.size]>> /\ pc' = "done"
    BY <1>3
  <2>2. stats' \in Seq([from : Nat, to : Nat])
    BY <1>1, <2>1
  <2>3. TypeOK'
    BY <2>1, <2>2 DEF TypeOK
  <2>4. BlockInv' /\ SearchInv'
    BY <2>1 DEF BlockInv, SearchInv, Sorted, InBlock, Searching
  <2>5. ConvertInv'
    BY <1>2, <2>1 DEF ConvertInv, NotConverting
  <2>. QED  BY <2>3, <2>4, <2>5
<1>4. CASE ~(job.at[job.size] - job.at[0] < job.opts.noblocksplit)
  <2>1. /\ UNCHANGED stats /\ pc' \in {"convert", "find"}
        /\ pc' = "find" => job.size >= job.opts.noblocksplitlz
    BY <1>1, <1>4
  <2>2. TypeOK'
    BY <2>1 DEF TypeOK
  <2>3. BlockInv' /\ SearchInv'
    BY <1>1, <1>2, <2>1 DEF BlockInv, SearchInv, Sorted, InBlock, Searching
  <2>4. ConvertInv'
    BY <1>2, <2>1 DEF ConvertInv, NotConverting
  <2>. QED  BY <2>2, <2>3, <2>4
<1>. QED  BY <1>3, <1>4

LEMMA EnterInv ==
  ASSUME IInv, EnterFindMinimum
  PROVE  IInv'
<1>. USE CostsAssumption DEF IInv, EnterFindMinimum, block, conversion
<1>1. lstart \in Nat /\ lend \in Nat /\ lend <= job.size /\ job.size \in Nat
  BY JobFacts
<1>2. lend - lstart >= 2
  BY DEF BlockInv, InBlock
<1>3. TypeOK'
  <2>1. DOMAIN known' = {}
    OBVIOUS
  <2>2. start' \in 0 .. job.size /\ end' \in 0 .. job.size /\ pos' \in 0 .. job.size
    BY <1>1, <1>2
  <2>3. {start, end, pos}' \subseteq 0 .. job.size
    BY <2>2
  <2>. QED  BY <1>1, <1>2, <2>1, <2>3 DEF TypeOK
<1>4. BlockInv' /\ SearchInv'
  BY <1>1, <1>2 DEF BlockInv, SearchInv, Sorted, InBlock, Searching
<1>5. ConvertInv'
  BY DEF ConvertInv, NotConverting
<1>. QED  BY <1>3, <1>4, <1>5

LEMMA CostsAreNat == Costs \subseteq Nat
BY CostsAssumption

\* Every cost the search has learned is a cost.
LEMMA LearnedType ==
  ASSUME \A q \in DOMAIN known : q \in Nat /\ known[q] \in Nat,
         NEW asked \in SUBSET Nat, NEW fresh \in [asked -> Nat]
  PROVE  \A q \in DOMAIN Learned(fresh) : q \in Nat /\ Learned(fresh)[q] \in Nat
BY DEF Learned

\* A round moves the range and the position within the block.
LEMMA RoundInv ==
  ASSUME IInv, Round
  PROVE  IInv' /\ (pc' = "round" => end' - start' < end - start)
<1>. USE CostsAssumption DEF IInv
<1>. DEFINE num == job.opts.num
            asked == {Sample(k) : k \in {k \in 1 .. num : ~Reused(k)}} \ DOMAIN known
<1>1. /\ pc = "round" /\ ~Few
      /\ UNCHANGED <<job, points, done, lstart, lend, ci, cpos, splits, stats>>
  BY DEF Round, block, conversion
<1>2. /\ job.size \in Nat /\ job.opts.num \in {3, 9} /\ start \in Nat /\ end \in Nat
      /\ pos \in Nat /\ lstart \in Nat /\ lend \in Nat /\ lend <= job.size
  BY JobFacts
<1>3. /\ lstart < start /\ start <= end /\ end <= lend /\ lstart < pos /\ pos < lend
  BY <1>1 DEF SearchInv, Searching
<1>4. PICK fresh \in [asked -> Costs], k \in 1 .. num :
        LET vp == [j \in 1 .. num |-> IF Reused(j) THEN best ELSE Learned(fresh)[Sample(j)]]
        IN /\ known' = Learned(fresh)
           /\ best' = vp[k] /\ sampled' = TRUE
           /\ IF vp[k] > lastbest
                THEN pc' = "decide" /\ UNCHANGED <<start, end, pos, lastbest>>
                ELSE /\ start' = NextStart(k) /\ end' = NextEnd(k)
                     /\ pos' = Sample(k) /\ lastbest' = vp[k]
                     /\ UNCHANGED pc
  BY DEF Round
<1>5. /\ \/ pc' = "decide" /\ UNCHANGED <<start, end, pos, lastbest>>
         \/ /\ start' = NextStart(k) /\ end' = NextEnd(k)
            /\ pos' = Sample(k) /\ lastbest' = best' /\ pc' = "round"
      /\ known' = Learned(fresh) /\ sampled' = TRUE
  BY <1>1, <1>4
<1>6. /\ Sample(k) \in Nat /\ start < Sample(k) /\ Sample(k) < end
      /\ NextStart(k) \in Nat /\ NextEnd(k) \in Nat
      /\ start <= NextStart(k) /\ NextStart(k) < Sample(k)
      /\ Sample(k) < NextEnd(k) /\ NextEnd(k) <= end
      /\ NextEnd(k) - NextStart(k) < end - start
  BY <1>1, <1>2, Samples
<1>7. /\ lstart < start' /\ start' <= end' /\ end' <= lend /\ lstart < pos' /\ pos' < lend
      /\ start' \in Nat /\ end' \in Nat /\ pos' \in Nat
      /\ pc' \in {"round", "decide"}
      /\ pc' = "round" => end' - start' < end - start
  BY <1>2, <1>3, <1>5, <1>6
<1>8. \A q \in DOMAIN known' : q \in Nat /\ known'[q] \in Nat
  <2>1. asked \subseteq Nat
    BY <1>1, <1>2, Samples
  <2>. HIDE DEF asked
  <2>2. fresh \in [asked -> Nat]
    BY CostsAreNat
  <2>3. \A q \in DOMAIN known : q \in Nat /\ known[q] \in Nat
    BY DEF TypeOK
  <2>. QED  BY <1>5, <2>1, <2>2, <2>3, LearnedType
<1>9. best' \in Nat
  <2>1. CASE Reused(k)
    BY <1>4, <2>1 DEF TypeOK
  <2>2. CASE ~Reused(k)
    <3>1. best' = known'[Sample(k)]
      BY <1>4, <2>2
    <3>2. Sample(k) \in DOMAIN known'
      BY <1>5, <2>2 DEF Learned
    <3>. QED  BY <1>8, <3>1, <3>2
  <2>. QED  BY <2>1, <2>2
<1>10. TypeOK'
  <2>1. {start, end, pos}' \subseteq 0 .. job.size
    BY <1>2, <1>7
  <2>2. lastbest' \in Nat
    BY <1>5, <1>9 DEF TypeOK
  <2>. QED  BY <1>1, <1>5, <1>7, <1>8, <1>9, <2>1, <2>2 DEF TypeOK
<1>11. BlockInv' /\ SearchInv'
  BY <1>1, <1>7 DEF BlockInv, SearchInv, Sorted, InBlock, Searching
<1>12. ConvertInv'
  BY <1>1, <1>7 DEF ConvertInv, NotConverting
<1>. QED  BY <1>7, <1>10, <1>11, <1>12

\* The final scan looks at positions of the range only.
LEMMA LastInv ==
  ASSUME IInv, Last
  PROVE  IInv'
<1>. USE CostsAssumption DEF IInv
<1>1. /\ pc = "round" /\ pc' = "decide"
      /\ UNCHANGED <<job, points, done, lstart, lend, start, end, lastbest, sampled,
                     ci, cpos, splits, stats>>
  BY DEF Last, block, conversion
<1>2. /\ job.size \in Nat /\ start \in Nat /\ end \in Nat
      /\ pos \in Nat /\ lstart \in Nat /\ lend \in Nat /\ lend <= job.size
  BY JobFacts
<1>3. /\ lstart < start /\ start <= end /\ end <= lend /\ lstart < pos /\ pos < lend
  BY <1>1 DEF SearchInv, Searching
<1>4. /\ pos' \in Nat /\ lstart < pos' /\ pos' < lend /\ best' \in Nat
      /\ \A q \in DOMAIN known' : q \in Nat /\ known'[q] \in Nat
  <2>. \A q \in DOMAIN known : q \in Nat /\ known[q] \in Nat
    BY DEF TypeOK
  <2>1. CASE Few /\ job.opts.many
    <3>. DEFINE asked == (start .. end - 1) \ DOMAIN known
    <3>1. PICK fresh \in [asked -> Costs] :
            /\ known' = Learned(fresh)
            /\ \/ UNCHANGED <<pos, best>>
               \/ \E q \in start .. end - 1 : pos' = q /\ best' = Learned(fresh)[q]
      BY <2>1 DEF Last
    <3>2. asked \subseteq Nat
      BY <1>2
    <3>. HIDE DEF asked
    <3>. fresh \in [asked -> Nat]
      BY CostsAreNat
    <3>3. \A q \in DOMAIN known' : q \in Nat /\ known'[q] \in Nat
      BY <3>1, <3>2, LearnedType
    <3>4. start .. end - 1 \subseteq DOMAIN known'
      BY <3>1, <3>2 DEF Learned, asked
    <3>. QED  BY <1>2, <1>3, <3>1, <3>3, <3>4 DEF TypeOK
  <2>2. CASE ~(Few /\ job.opts.many)
    BY <1>2, <1>3, <2>2 DEF Last, TypeOK
  <2>. QED  BY <2>1, <2>2
<1>5. TypeOK'
  <2>1. {start, end, pos}' \subseteq 0 .. job.size
    BY <1>1, <1>2, <1>3, <1>4
  <2>. QED  BY <1>1, <1>4, <2>1 DEF TypeOK
<1>6. BlockInv' /\ SearchInv'
  BY <1>1, <1>3, <1>4 DEF BlockInv, SearchInv, Sorted, InBlock, Searching
<1>7. ConvertInv'
  BY <1>1 DEF ConvertInv, NotConverting
<1>. QED  BY <1>5, <1>6, <1>7

\* The position lies strictly between two split points, so AddSorted receives
\* no point twice.
LEMMA DecideInv ==
  ASSUME IInv, Decide
  PROVE  IInv'
<1>. USE CostsAssumption DEF IInv
<1>1. /\ pc = "decide" /\ pc' = "next"
      /\ UNCHANGED <<job, lstart, lend, start, end, best, lastbest, sampled,
                     ci, cpos, splits, stats>>
  BY DEF Decide, block, conversion
<1>2. /\ job.size \in Nat /\ lstart \in Nat /\ lend \in Nat /\ lend <= job.size
      /\ pos \in Nat /\ points \in Seq(0 .. job.size) /\ Len(points) \in Nat
      /\ \A a \in 1 .. Len(points) : points[a] \in 0 .. job.size
  BY JobFacts
<1>3. /\ lstart < pos /\ pos < lend /\ lend - lstart >= 2
      /\ \A a \in 1 .. Len(points) : points[a] <= lstart \/ lend <= points[a]
  BY <1>1 DEF SearchInv, Searching, BlockInv, InBlock
<1>4. PICK orig \in (IF lend \in DOMAIN known THEN {known[lend]} ELSE Costs) :
        LET q == Chosen(orig)
            split == q # ostart /\ q # lend
        IN /\ IF split
                THEN /\ \E k \in 0 .. Len(points) : /\ Position(points, q, k)
                                                    /\ points' = Inserted(points, q, k)
                     /\ done' = IF Enough(orig) THEN done \cup {q} ELSE done
                ELSE done' = done \cup {lstart} /\ UNCHANGED points
           /\ known' = Learned([r \in {lend} |-> orig])
           /\ pos' = q
  BY DEF Decide
<1>. DEFINE q == Chosen(orig)
<1>5. q \in Nat /\ lstart < q /\ q < lend
  BY <1>2, <1>3 DEF Chosen, ostart
<1>6. \A r \in DOMAIN known' : r \in Nat /\ known'[r] \in Nat
  <2>1. orig \in Nat
    BY CostsAreNat DEF TypeOK
  <2>2. \A r \in DOMAIN known : r \in Nat /\ known[r] \in Nat
    BY DEF TypeOK
  <2>3. known' = Learned([r \in {lend} |-> orig])
    BY <1>4
  <2>4. {lend} \in SUBSET Nat /\ [r \in {lend} |-> orig] \in [{lend} -> Nat]
    BY <1>2, <2>1
  <2>. QED  BY <2>2, <2>3, <2>4, LearnedType
<1>7. /\ points' \in Seq(0 .. job.size) /\ done' \subseteq 0 .. job.size
      /\ \A a \in 1 .. Len(points') : 0 < points'[a] /\ points'[a] < job.size
      /\ \A a, b \in 1 .. Len(points') : a < b => points'[a] < points'[b]
  <2>1. done \subseteq 0 .. job.size /\ q \in 0 .. job.size /\ lstart \in 0 .. job.size
    BY <1>2, <1>5 DEF TypeOK
  <2>2. /\ \A a \in 1 .. Len(points) : 0 < points[a] /\ points[a] < job.size
        /\ \A a, b \in 1 .. Len(points) : a < b => points[a] < points[b]
    BY DEF BlockInv, Sorted
  <2>3. done' \subseteq 0 .. job.size
    BY <1>4, <2>1
  <2>4. CASE UNCHANGED points
    BY <1>2, <2>2, <2>3, <2>4
  <2>5. CASE \E k \in 0 .. Len(points) : /\ Position(points, q, k)
                                         /\ points' = Inserted(points, q, k)
    <3>1. PICK k \in 0 .. Len(points) : /\ Position(points, q, k)
                                        /\ points' = Inserted(points, q, k)
      BY <2>5
    <3>2. \A a \in 1 .. Len(points) : points[a] # q
      BY <1>2, <1>3, <1>5
    <3>3. 0 < q /\ q < job.size
      BY <1>2, <1>5
    <3>. HIDE DEF q
    <3>4. /\ points' \in Seq(0 .. job.size) /\ Len(points') = Len(points) + 1
          /\ \A a, b \in 1 .. Len(points) + 1 : a < b => points'[a] < points'[b]
          /\ \A a \in 1 .. Len(points) + 1 :
               points'[a] = q \/ \E b \in 1 .. Len(points) : points'[a] = points[b]
      <4>1. job.size \in Nat /\ points \in Seq(0 .. job.size) /\ q \in 0 .. job.size
        BY <1>2, <2>1
      <4>2. Position(points, q, k)
        BY <3>1
      <4>3. \A a, b \in 1 .. Len(points) : a < b => points[a] < points[b]
        BY <2>2
      <4>4. Inserted(points, q, k) \in Seq(0 .. job.size)
        BY <3>2, <4>1, <4>2, <4>3, InsertedFacts
      <4>8. Len(Inserted(points, q, k)) = Len(points) + 1
        BY <1>2, <4>4 DEF Inserted
      <4>6. \A a, b \in 1 .. Len(points) + 1 :
              a < b => Inserted(points, q, k)[a] < Inserted(points, q, k)[b]
        BY <3>2, <4>1, <4>2, <4>3, InsertedFacts
      <4>7. \A a \in 1 .. Len(points) + 1 :
              \/ Inserted(points, q, k)[a] = q
              \/ \E b \in 1 .. Len(points) : Inserted(points, q, k)[a] = points[b]
        BY <3>2, <4>1, <4>2, <4>3, InsertedFacts
      <4>5. points' = Inserted(points, q, k)
        BY <3>1
      <4>. QED  BY <4>4, <4>5, <4>6, <4>7, <4>8
    <3>. QED  BY <2>2, <2>3, <3>3, <3>4
  <2>. QED  BY <1>4, <2>4, <2>5
<1>8. pos' \in 0 .. job.size
  BY <1>2, <1>4, <1>5
<1>9. TypeOK'
  <2>1. {start, end, pos}' \subseteq 0 .. job.size
    BY <1>1, <1>8 DEF TypeOK
  <2>. QED  BY <1>1, <1>6, <1>7, <2>1 DEF TypeOK
<1>10. BlockInv' /\ SearchInv'
  BY <1>1, <1>7 DEF BlockInv, SearchInv, Sorted, InBlock, Searching
<1>11. ConvertInv'
  <2>1. splits' = <<>> /\ stats' = <<>> /\ ci' = 0 /\ cpos' = job'.at[0]
    BY <1>1 DEF ConvertInv, NotConverting
  <2>2. Len(splits') = 0 /\ Len(stats') = 0
    BY <2>1
  <2>3. Len(points') \in Nat /\ \A a \in 1 .. Len(points') : 0 <= points'[a]
    BY <1>2, <1>7
  <2>. QED  BY <1>1, <2>1, <2>2, <2>3 DEF ConvertInv, NotConverting
<1>. QED  BY <1>9, <1>10, <1>11

\* The next block is one of those the split points delimit.
LEMMA NextBlockInv ==
  ASSUME IInv, NextBlock
  PROVE  IInv'
<1>. USE DEF IInv
<1>1. /\ pc = "next" /\ pc' \in {"find", "convert"}
      /\ UNCHANGED <<job, points, done, search, conversion>>
  BY DEF NextBlock
<1>2. /\ job.size \in Nat \ {0} /\ job.opts.noblocksplitlz \in Nat \ {0, 1}
      /\ points \in Seq(0 .. job.size) /\ Len(points) \in Nat
      /\ \A a \in 1 .. Len(points) : points[a] \in 0 .. job.size
  BY JobFacts
<1>3. Sorted
  BY DEF BlockInv
<1>4. CASE UNCHANGED block /\ pc' = "convert"
  <2>1. TypeOK'
    BY <1>1, <1>4 DEF TypeOK, block, search, conversion
  <2>2. BlockInv' /\ SearchInv' /\ ConvertInv'
    BY <1>1, <1>4 DEF BlockInv, SearchInv, ConvertInv, Sorted, InBlock, Searching,
                      NotConverting, search, conversion
  <2>. QED  BY <2>1, <2>2
<1>5. CASE \E k \in 0 .. Len(points) :
             /\ IsLargest(points, done, k)
             /\ lstart' = BlockStart(points, k) /\ lend' = BlockEnd(points, k)
             /\ pc' = IF lend' - lstart' < job.opts.noblocksplitlz THEN "convert" ELSE "find"
  <2>1. PICK k \in 0 .. Len(points) :
             /\ lstart' = BlockStart(points, k) /\ lend' = BlockEnd(points, k)
             /\ pc' = IF lend' - lstart' < job.opts.noblocksplitlz THEN "convert" ELSE "find"
    BY <1>5
  <2>2. lstart' \in 0 .. job.size /\ lend' \in 0 .. job.size
    <3>1. k # 0 => points[k] \in 0 .. job.size
      BY <1>2
    <3>2. k # Len(points) => points[k + 1] \in 0 .. job.size
      BY <1>2
    <3>. QED  BY <1>2, <2>1, <3>1, <3>2 DEF BlockStart, BlockEnd
  <2>3. pc' = "find" => lend' - lstart' >= 2
    <3>1. job.opts.noblocksplitlz \in Nat \ {0, 1}
      BY JobFacts
    <3>2. job.opts.noblocksplitlz \in Nat /\ job.opts.noblocksplitlz >= 2
      BY <3>1
    <3>3. lstart' \in Int /\ lend' \in Int
      BY <2>2
    <3>4. CASE lend' - lstart' < job.opts.noblocksplitlz
      <4>1. pc' = IF lend' - lstart' < job.opts.noblocksplitlz THEN "convert" ELSE "find"
        BY <2>1
      <4>. QED  BY <3>4, <4>1, Zenon
    <3>5. CASE ~(lend' - lstart' < job.opts.noblocksplitlz)
      <4>. DEFINE width == lend' - lstart'
                  least == job.opts.noblocksplitlz
      <4>1. width \in Int /\ least \in Nat /\ least >= 2 /\ ~(width < least)
        BY <3>2, <3>3, <3>5
      <4>. HIDE DEF width, least
      <4>2. width >= 2
        BY <4>1
      <4>. QED  BY <4>2 DEF width
    <3>. QED  BY <3>4, <3>5
  <2>4. ASSUME NEW a \in 1 .. Len(points)
        PROVE  points[a] <= lstart' \/ lend' <= points[a]
    <3>1. CASE a <= k
      <4>1. k \in 1 .. Len(points) /\ lstart' = points[k]
        BY <1>2, <2>1, <3>1 DEF BlockStart
      <4>. QED  BY <1>2, <1>3, <3>1, <4>1 DEF Sorted
    <3>2. CASE a > k
      <4>1. k + 1 \in 1 .. Len(points) /\ lend' = points[k + 1]
        BY <1>2, <2>1, <3>2 DEF BlockEnd
      <4>. QED  BY <1>2, <1>3, <3>2, <4>1 DEF Sorted
    <3>. QED  BY <1>2, <3>1, <3>2
  <2>5. TypeOK'
    BY <1>1, <2>2 DEF TypeOK, search, conversion
  <2>6. BlockInv'
    BY <1>1, <2>3, <2>4 DEF BlockInv, Sorted, InBlock
  <2>7. SearchInv' /\ ConvertInv'
    BY <1>1 DEF SearchInv, ConvertInv, Searching, NotConverting, search, conversion
  <2>. QED  BY <2>5, <2>6, <2>7
<1>. QED  BY <1>4, <1>5 DEF NextBlock

\* The entry looked at is the next split point or lies before it.
LEMMA ConvertEntryInv ==
  ASSUME IInv, ConvertEntry
  PROVE  IInv'
<1>. USE DEF IInv
<1>1. /\ pc = "convert" /\ Len(splits) # Len(points) /\ ci < job.size
      /\ UNCHANGED <<job, pc, points, done, lstart, lend, start, end, pos, best, lastbest,
                     sampled, known>>
  BY DEF ConvertEntry, Converted, block, search
<1>2. /\ job.size \in Nat /\ job.at \in [0 .. job.size -> Nat]
      /\ \A a, b \in 0 .. job.size : a < b => job.at[a] < job.at[b]
      /\ points \in Seq(0 .. job.size) /\ Len(points) \in Nat
      /\ \A a \in 1 .. Len(points) : points[a] \in 0 .. job.size
  BY JobFacts
<1>3. /\ ci \in Nat /\ cpos \in Nat /\ splits \in Seq(Nat)
      /\ stats \in Seq([from : Nat, to : Nat]) /\ Len(splits) \in Nat
  BY DEF TypeOK
<1>4. /\ cpos = job.at[ci] /\ Len(stats) = Len(splits) /\ Len(splits) < Len(points)
      /\ \A a \in Len(splits) + 1 .. Len(points) : ci <= points[a]
  BY <1>1, <1>2, <1>3 DEF ConvertInv
<1>5. /\ \A a \in 1 .. Len(splits) :
            /\ splits[a] = job.at[points[a]]
            /\ stats[a] = [from |-> IF a = 1 THEN 0 ELSE points[a - 1], to |-> points[a]]
  BY DEF ConvertInv
<1>6. shift \in Nat /\ shift = IF Len(splits) + 1 = 1 THEN 0 ELSE points[Len(splits) + 1 - 1]
  <2>1. splits = <<>> <=> Len(splits) = 0
    BY <1>3
  <2>2. CASE Len(splits) = 0
    BY <2>1, <2>2 DEF shift
  <2>3. CASE Len(splits) # 0
    <3>1. Len(splits) \in 1 .. Len(points)
      <4>1. Len(splits) \in Nat /\ Len(points) \in Nat /\ Len(splits) < Len(points)
        BY <1>2, <1>3, <1>4
      <4>. QED  BY <2>3, <4>1
    <3>. QED  BY <1>2, <1>3, <2>1, <2>3, <3>1 DEF shift
  <2>. QED  BY <2>2, <2>3
<1>. DEFINE here == points[Len(splits) + 1] = ci
            n == Len(splits')
<1>7. /\ splits' \in Seq(Nat) /\ stats' \in Seq([from : Nat, to : Nat])
      /\ n = IF here THEN Len(splits) + 1 ELSE Len(splits)
      /\ Len(stats') = n /\ n \in Nat /\ n <= Len(points)
      /\ \A a \in 1 .. n :
            /\ splits'[a] = job.at[points[a]]
            /\ stats'[a] = [from |-> IF a = 1 THEN 0 ELSE points[a - 1], to |-> points[a]]
  <2>1. CASE here
    <3>1. /\ splits' = Append(splits, cpos)
          /\ stats' = Append(stats, [from |-> shift, to |-> ci])
      BY <2>1 DEF ConvertEntry
    <3>2. [from |-> shift, to |-> ci] \in [from : Nat, to : Nat]
      BY <1>3, <1>6
    <3>3. /\ splits' \in Seq(Nat) /\ n = Len(splits) + 1
          /\ \A a \in 1 .. Len(splits) : splits'[a] = splits[a]
          /\ splits'[Len(splits) + 1] = cpos
      BY <1>3, <3>1, AppendProperties
    <3>4. /\ stats' \in Seq([from : Nat, to : Nat]) /\ Len(stats') = Len(splits) + 1
          /\ \A a \in 1 .. Len(splits) : stats'[a] = stats[a]
          /\ stats'[Len(splits) + 1] = [from |-> shift, to |-> ci]
      BY <1>3, <1>4, <3>1, <3>2, AppendProperties
    <3>5. \A a \in 1 .. Len(splits) + 1 : a \in 1 .. Len(splits) \/ a = Len(splits) + 1
      BY <1>3
    <3>6. n \in Nat /\ n <= Len(points)
      BY <1>2, <1>3, <1>4, <3>3
    <3>7. /\ splits'[Len(splits) + 1] = job.at[points[Len(splits) + 1]]
          /\ stats'[Len(splits) + 1] =
               [from |-> IF Len(splits) + 1 = 1 THEN 0 ELSE points[Len(splits) + 1 - 1],
                to |-> points[Len(splits) + 1]]
      BY <1>4, <1>6, <2>1, <3>3, <3>4
    <3>8. \A a \in 1 .. Len(splits) + 1 :
            /\ splits'[a] = job.at[points[a]]
            /\ stats'[a] = [from |-> IF a = 1 THEN 0 ELSE points[a - 1], to |-> points[a]]
      <4>1. ASSUME NEW a \in 1 .. Len(splits)
            PROVE  /\ splits'[a] = job.at[points[a]]
                   /\ stats'[a] = [from |-> IF a = 1 THEN 0 ELSE points[a - 1], to |-> points[a]]
        <5>1. splits'[a] = splits[a] /\ stats'[a] = stats[a]
          BY <3>3, <3>4
        <5>. QED  BY <1>5, <5>1
      <4>. QED  BY <3>5, <3>7, <4>1
    <3>. QED  BY <2>1, <3>3, <3>4, <3>6, <3>8
  <2>2. CASE ~here
    BY <1>2, <1>3, <1>4, <1>5, <2>2 DEF ConvertEntry
  <2>. QED  BY <2>1, <2>2
<1>8. /\ ci' \in 0 .. job.size /\ cpos' \in Nat /\ cpos' = job.at[ci']
      /\ \A a \in n + 1 .. Len(points) : ci' <= points[a]
  <2>1. CASE n = Len(points)
    <3>1. ci' = ci /\ cpos' = cpos
      BY <2>1 DEF ConvertEntry
    <3>2. \A a : a \notin Len(points) + 1 .. Len(points)
      BY <1>2
    <3>3. ci \in 0 .. job.size
      BY <1>1, <1>2, <1>3
    <3>. QED  BY <1>3, <1>4, <2>1, <3>1, <3>2, <3>3
  <2>2. CASE n # Len(points)
    <3>1. ci' = ci + 1 /\ cpos' = cpos + Length(ci)
      BY <2>2 DEF ConvertEntry
    <3>2. ci + 1 \in 0 .. job.size /\ ci \in 0 .. job.size
      BY <1>1, <1>2, <1>3
    <3>3. job.at[ci] \in Nat /\ job.at[ci + 1] \in Nat
      BY <1>2, <3>2
    <3>4. cpos' = job.at[ci + 1]
      BY <1>4, <3>1, <3>3 DEF Length
    <3>5. ASSUME NEW a \in n + 1 .. Len(points)
          PROVE  ci + 1 <= points[a]
      <4>1. a \in Len(splits) + 1 .. Len(points) /\ points[a] \in Nat /\ ci <= points[a]
        <5>1. n \in Nat /\ Len(splits) <= n
          BY <1>3, <1>7
        <5>. HIDE DEF n
        <5>2. a \in Len(splits) + 1 .. Len(points) /\ a \in 1 .. Len(points)
          BY <1>2, <1>3, <5>1
        <5>. QED  BY <1>2, <1>4, <5>2
      <4>0. a \in Nat /\ Len(splits) + 1 <= a /\ a <= Len(points)
            /\ Len(splits) + 1 \in 1 .. Len(points) /\ a \in 1 .. Len(points)
        <5>1. /\ Len(splits) \in Nat /\ Len(points) \in Nat
              /\ a \in Len(splits) + 1 .. Len(points)
          BY <1>2, <1>3, <4>1
        <5>. QED  BY <5>1
      <4>2. CASE here
        <5>1. a # Len(splits) + 1
          BY <1>3, <1>7, <4>2
        <5>2. Len(splits) + 1 < a
          BY <1>3, <4>0, <5>1
        <5>3. points[Len(splits) + 1] < points[a]
          BY <4>0, <5>2 DEF BlockInv, Sorted
        <5>. QED  BY <1>3, <4>1, <4>2, <5>3
      <4>3. CASE ~here
        <5>1. a = Len(splits) + 1 => points[a] # ci
          BY <4>3
        <5>2. CASE a = Len(splits) + 1
          BY <1>3, <4>1, <5>1, <5>2
        <5>3. CASE a # Len(splits) + 1
          <6>1. Len(splits) + 1 < a
            BY <1>3, <4>0, <5>3
          <6>2. points[Len(splits) + 1] < points[a]
            BY <4>0, <6>1 DEF BlockInv, Sorted
          <6>3. ci <= points[Len(splits) + 1] /\ points[Len(splits) + 1] \in Nat
            <7>1. Len(splits) + 1 \in Len(splits) + 1 .. Len(points)
              BY <1>2, <1>3, <1>4
            <7>. QED  BY <1>2, <1>4, <4>0, <7>1
          <6>. QED  BY <1>3, <4>1, <6>2, <6>3
        <5>. QED  BY <5>2, <5>3
      <4>. QED  BY <4>2, <4>3
    <3>. QED  BY <3>1, <3>2, <3>3, <3>4, <3>5
  <2>. QED  BY <2>1, <2>2
<1>9. TypeOK'
  <2>1. {start, end, pos}' \subseteq 0 .. job.size
    BY <1>1 DEF TypeOK
  <2>. QED  BY <1>1, <1>7, <1>8, <2>1 DEF TypeOK
<1>10. BlockInv' /\ SearchInv'
  BY <1>1 DEF BlockInv, SearchInv, Sorted, InBlock, Searching
<1>11. ConvertInv'
  BY <1>1, <1>7, <1>8 DEF ConvertInv, NotConverting
<1>. QED  BY <1>9, <1>10, <1>11

\* The conversion ends at the last split point, not at the end of the store,
\* and the last block takes the rest.
LEMMA FinishInv ==
  ASSUME IInv, Finish
  PROVE  IInv'
<1>. USE DEF IInv
<1>1. /\ pc = "convert" /\ pc' = "done"
      /\ UNCHANGED <<job, points, done, lstart, lend, start, end, pos, best, lastbest,
                     sampled, known, ci, cpos, splits>>
      /\ stats' = Append(stats, [from |-> shift, to |-> job.size])
  BY DEF Finish, block, search
<1>2. /\ job.size \in Nat /\ points \in Seq(0 .. job.size) /\ Len(points) \in Nat
      /\ \A a \in 1 .. Len(points) : points[a] \in 0 .. job.size
  BY JobFacts
<1>3. /\ ci \in Nat /\ splits \in Seq(Nat) /\ stats \in Seq([from : Nat, to : Nat])
      /\ Len(splits) \in Nat
  BY DEF TypeOK
<1>4. /\ Len(stats) = Len(splits) /\ Len(splits) <= Len(points)
      /\ \A a \in Len(splits) + 1 .. Len(points) : ci <= points[a]
  BY <1>1 DEF ConvertInv
<1>5. Len(splits) = Len(points)
  <2>1. SUFFICES ASSUME ci = job.size, Len(splits) # Len(points)
                 PROVE  FALSE
    BY DEF Finish, Converted
  <2>2. Len(points) \in Len(splits) + 1 .. Len(points) /\ Len(points) \in 1 .. Len(points)
    BY <1>2, <1>3, <1>4, <2>1
  <2>3. points[Len(points)] < job.size
    BY <2>2 DEF BlockInv
  <2>4. ci <= points[Len(points)]
    BY <1>4, <2>2
  <2>. QED  BY <1>2, <1>3, <2>1, <2>2, <2>3, <2>4
<1>6. shift \in Nat /\ shift = IF points = <<>> THEN 0 ELSE points[Len(points)]
  <2>1. (splits = <<>> <=> Len(splits) = 0) /\ (points = <<>> <=> Len(points) = 0)
    BY <1>2, <1>3
  <2>2. CASE Len(splits) = 0
    BY <1>5, <2>1, <2>2 DEF shift
  <2>3. CASE Len(splits) # 0
    <3>1. Len(points) \in 1 .. Len(points)
      BY <1>2, <1>5, <2>3
    <3>. QED  BY <1>2, <1>5, <2>1, <2>3, <3>1 DEF shift
  <2>. QED  BY <2>2, <2>3
<1>7. [from |-> shift, to |-> job.size] \in [from : Nat, to : Nat]
  BY <1>2, <1>6
<1>8. /\ stats' \in Seq([from : Nat, to : Nat]) /\ Len(stats') = Len(splits) + 1
      /\ \A a \in 1 .. Len(splits) : stats'[a] = stats[a]
      /\ stats'[Len(splits) + 1] = [from |-> shift, to |-> job.size]
  BY <1>1, <1>3, <1>4, <1>7, AppendProperties
<1>9. TypeOK'
  <2>1. {start, end, pos}' \subseteq 0 .. job.size
    BY <1>1 DEF TypeOK
  <2>. QED  BY <1>1, <1>8, <2>1 DEF TypeOK
<1>10. BlockInv' /\ SearchInv'
  BY <1>1 DEF BlockInv, SearchInv, Sorted, InBlock, Searching
<1>11. ConvertInv'
  <2>1. \A a \in 1 .. Len(splits) :
          /\ splits[a] = job.at[points[a]]
          /\ stats'[a] = [from |-> IF a = 1 THEN 0 ELSE points[a - 1], to |-> points[a]]
    BY <1>8 DEF ConvertInv
  <2>. QED  BY <1>1, <1>4, <1>5, <1>6, <1>8, <2>1 DEF ConvertInv, NotConverting
<1>. QED  BY <1>9, <1>10, <1>11

LEMMA StutterInv ==
  ASSUME IInv, UNCHANGED vars
  PROVE  IInv'
<1>1. UNCHANGED <<job, pc, points, done, lstart, lend, start, end, pos, best, lastbest,
                  sampled, known, ci, cpos, splits, stats>>
  BY DEF vars, block, search, conversion
<1>2. TypeOK'
  <2>1. {start, end, pos}' \subseteq 0 .. job.size
    BY <1>1 DEF IInv, TypeOK
  <2>. QED  BY <1>1, <2>1 DEF IInv, TypeOK
<1>3. BlockInv' /\ SearchInv'
  BY <1>1 DEF IInv, BlockInv, SearchInv, Sorted, InBlock, Searching
<1>4. ConvertInv'
  BY <1>1 DEF IInv, ConvertInv, NotConverting
<1>. QED  BY <1>2, <1>3, <1>4 DEF IInv

\* One step preserves the invariant, and a round narrows the range.
LEMMA StepInv ==
  ASSUME IInv, [Next]_vars
  PROVE  IInv' /\ (pc = "round" /\ pc' = "round" => (end' - start' < end - start \/ UNCHANGED vars))
<1>1. CASE Start
  BY <1>1, StartInv DEF Start
<1>2. CASE EnterFindMinimum
  BY <1>2, EnterInv DEF EnterFindMinimum
<1>3. CASE Round
  BY <1>3, RoundInv
<1>4. CASE Last
  BY <1>4, LastInv DEF Last
<1>5. CASE Decide
  BY <1>5, DecideInv DEF Decide
<1>6. CASE NextBlock
  BY <1>6, NextBlockInv DEF NextBlock
<1>7. CASE ConvertEntry
  BY <1>7, ConvertEntryInv DEF ConvertEntry
<1>8. CASE Finish
  BY <1>8, FinishInv DEF Finish
<1>9. CASE UNCHANGED vars
  BY <1>9, StutterInv
<1>. QED
  BY <1>1, <1>2, <1>3, <1>4, <1>5, <1>6, <1>7, <1>8, <1>9 DEF Next, Stopped
-----------------------------------------------------------------------------
\* The invariant the other theorems rest on.
THEOREM Invariant == Spec => []IInv
<1>1. Init => IInv
  BY InitInv
<1>2. IInv /\ [Next]_vars => IInv'
  BY StepInv
<1>. QED  BY <1>1, <1>2, PTL DEF Spec

\* The variables of the search and of the conversion keep to their ranges.
THEOREM TypeCorrect == Spec => []TypeOK
BY Invariant, PTL DEF IInv

\* FindMinimum is given a block that is not empty and stays strictly inside it
\* (blocksplitter.c:313-318), for every cost function and number of samples.
THEOREM SearchInRange == Spec => []InRange
<1>1. IInv => InRange
  <2>1. ASSUME IInv PROVE InRange
    <3>1. lstart \in Nat /\ lend \in Nat
      BY <2>1, JobFacts DEF IInv
    <3>. QED  BY <2>1, <3>1 DEF IInv, BlockInv, SearchInv, InRange, InBlock, Searching
  <2>. QED  BY <2>1
<1>. QED  BY <1>1, Invariant, PTL

\* Every round of FindMinimum leaves a smaller range, so a search ends.
THEOREM RoundsShrink == Spec => Shrinks
<1>1. IInv /\ [Next]_vars => [pc = "round" /\ pc' = "round" => end' - start' < end - start]_vars
  BY StepInv
<1>. QED  BY <1>1, Invariant, PTL DEF Spec, Shrinks

\* The split points are strictly increasing, and those that ZopfliBlockSplit
\* returns cut the part into non-empty blocks, in order: all of them are
\* converted, each to its own offset.
THEOREM SplitProper == Spec => []ProperSplit
<1>1. ASSUME IInv, pc = "done"
      PROVE  /\ IsSplit(splits, job.at[0], job.at[job.size])
             /\ Len(splits) = Len(points)
             /\ \A a \in 1 .. Len(splits) : splits[a] = job.at[points[a]]
  <2>1. /\ job.size \in Nat /\ job.at \in [0 .. job.size -> Nat]
        /\ \A a, b \in 0 .. job.size : a < b => job.at[a] < job.at[b]
        /\ \A a \in 1 .. Len(points) : points[a] \in 0 .. job.size
    BY <1>1, JobFacts DEF IInv
  <2>2. /\ Len(splits) = Len(points)
        /\ \A a \in 1 .. Len(splits) : splits[a] = job.at[points[a]]
    BY <1>1 DEF IInv, ConvertInv
  <2>3. /\ \A a \in 1 .. Len(points) : 0 < points[a] /\ points[a] < job.size
        /\ \A a, b \in 1 .. Len(points) : a < b => points[a] < points[b]
    BY <1>1 DEF IInv, BlockInv, Sorted
  <2>4. 0 \in 0 .. job.size /\ job.size \in 0 .. job.size
    BY <2>1
  <2>5. ASSUME NEW a \in 1 .. Len(splits)
        PROVE  job.at[0] < splits[a] /\ splits[a] < job.at[job.size]
    BY <2>1, <2>2, <2>3, <2>4
  <2>6. ASSUME NEW a \in 1 .. Len(splits), NEW b \in 1 .. Len(splits), a < b
        PROVE  splits[a] < splits[b]
    BY <2>1, <2>2, <2>3, <2>6
  <2>. QED  BY <2>2, <2>5, <2>6 DEF IsSplit
<1>2. IInv => ProperSplit
  BY <1>1 DEF ProperSplit, IInv, BlockInv
<1>. QED  BY <1>2, Invariant, PTL

\* The statistics handed on with a block are those of the entries of that very
\* block, the first and the last one included.
THEOREM StatsBelong == Spec => []StatsOfBlock
<1>1. ASSUME IInv, pc = "done"
      PROVE  /\ Len(stats) = Len(splits) + 1
             /\ \A a \in 1 .. Len(stats) :
                  /\ job.at[stats[a].from] = IF a = 1 THEN job.at[0] ELSE splits[a - 1]
                  /\ job.at[stats[a].to] =
                       IF a = Len(stats) THEN job.at[job.size] ELSE splits[a]
  <2>1. Len(points) \in Nat /\ points \in Seq(0 .. job.size)
    BY <1>1, JobFacts DEF IInv
  <2>2. /\ Len(splits) = Len(points) /\ Len(stats) = Len(points) + 1
        /\ stats[Len(stats)] =
             [from |-> IF points = <<>> THEN 0 ELSE points[Len(points)], to |-> job.size]
    BY <1>1 DEF IInv, ConvertInv
  <2>3. \A a \in 1 .. Len(points) :
          /\ splits[a] = job.at[points[a]]
          /\ stats[a] = [from |-> IF a = 1 THEN 0 ELSE points[a - 1], to |-> points[a]]
    BY <1>1, <2>2 DEF IInv, ConvertInv
  <2>4. ASSUME NEW a \in 1 .. Len(points)
        PROVE  /\ job.at[stats[a].from] = IF a = 1 THEN job.at[0] ELSE splits[a - 1]
               /\ job.at[stats[a].to] = splits[a]
    <3>1. a # 1 => a - 1 \in 1 .. Len(points)
      BY <2>1
    <3>2. a # 1 => splits[a - 1] = job.at[points[a - 1]]
      BY <2>3, <3>1
    <3>. DEFINE before == IF a = 1 THEN 0 ELSE points[a - 1]
    <3>3. stats[a].from = before /\ stats[a].to = points[a]
      <4>1. stats[a] = [from |-> before, to |-> points[a]]
        BY <2>3
      <4>. HIDE DEF before
      <4>. QED  BY <4>1
    <3>4. splits[a] = job.at[points[a]]
      BY <2>3
    <3>5. CASE a = 1
      BY <3>3, <3>4, <3>5
    <3>6. CASE a # 1
      BY <3>2, <3>3, <3>4, <3>6
    <3>. QED  BY <3>5, <3>6
  <2>5. /\ job.at[stats[Len(stats)].from] =
            IF Len(stats) = 1 THEN job.at[0] ELSE splits[Len(stats) - 1]
        /\ job.at[stats[Len(stats)].to] = job.at[job.size]
    <3>1. points = <<>> <=> Len(points) = 0
      BY <2>1
    <3>2. CASE Len(points) = 0
      BY <2>2, <3>1, <3>2
    <3>3. CASE Len(points) # 0
      <4>1. Len(points) \in 1 .. Len(points) /\ Len(stats) # 1
            /\ Len(stats) - 1 = Len(points)
        BY <2>1, <2>2, <3>3
      <4>2. /\ stats[Len(stats)].from = points[Len(points)]
            /\ stats[Len(stats)].to = job.size
        BY <2>2, <3>1, <3>3
      <4>3. splits[Len(points)] = job.at[points[Len(points)]]
        BY <2>3, <4>1
      <4>. QED  BY <4>1, <4>2, <4>3
    <3>. QED  BY <3>2, <3>3
  <2>6. \A a \in 1 .. Len(stats) : (a \in 1 .. Len(points) /\ a # Len(stats)) \/ a = Len(stats)
    BY <2>1, <2>2
  <2>. QED  BY <2>2, <2>4, <2>5, <2>6
<1>2. IInv => StatsOfBlock
  BY <1>1 DEF StatsOfBlock
<1>. QED  BY <1>2, Invariant, PTL
-----------------------------------------------------------------------------
(* The costs. best is never more than what the search has seen with three    *)
(* samples; with nine, a round without gain may have overwritten it, but the *)
(* cost of pos itself is known.                                              *)
Sampled == job.opts.num = 3 \/ (pos \in DOMAIN known /\ known[pos] = best)

CostInv ==
  /\ Searching =>
       /\ \A q \in DOMAIN known : known[q] < Large
       /\ job.opts.num = 3 => /\ \A q \in DOMAIN known : best <= known[q]
                              /\ pos # ostart \/ DOMAIN known = {}
  /\ pc = "round" =>
       /\ lastbest = best
       /\ IF sampled THEN Sampled
          ELSE DOMAIN known = {} /\ best = Large /\ pos = ostart /\ start = ostart
  /\ pc = "decide" =>
       job.opts.num = 3 \/ best = Large \/ (pos \in DOMAIN known /\ known[pos] <= best)
  /\ FineSplitPays /\ DoneJustified

LEMMA CostsBelowLarge == \A c \in Costs : c \in Nat /\ c < Large
<1>. SUFFICES ASSUME NEW c \in Costs PROVE c \in Nat /\ c < Large
  OBVIOUS
<1>1. c \in 0 .. Large - 1 /\ Large \in Nat
  BY CostsAssumption
<1>. QED  BY <1>1

LEMMA RoundCosts ==
  ASSUME IInv, CostInv, Round
  PROVE  CostInv'
<1>. DEFINE num == job.opts.num
            asked == {Sample(k) : k \in {k \in 1 .. num : ~Reused(k)}} \ DOMAIN known
<1>1. /\ pc = "round" /\ ~Few /\ lastbest = best
      /\ UNCHANGED <<job, lstart, lend>>
  BY DEF Round, block, CostInv
<1>2. /\ num \in {3, 9} /\ start \in Nat /\ end \in Nat /\ pos \in Nat /\ lstart \in Nat
      /\ lstart < start /\ best \in Nat /\ Large \in Nat
      /\ \A q \in DOMAIN known : known[q] \in Nat /\ known[q] < Large
  BY <1>1, JobFacts, CostsAssumption DEF IInv, TypeOK, SearchInv, Searching, CostInv
<1>3. PICK fresh \in [asked -> Costs], k \in 1 .. num :
        LET vp == [j \in 1 .. num |-> IF Reused(j) THEN best ELSE Learned(fresh)[Sample(j)]]
        IN /\ IsFirstMinimum(k, vp)
           /\ known' = Learned(fresh)
           /\ best' = vp[k] /\ sampled' = TRUE
           /\ IF vp[k] > lastbest
                THEN pc' = "decide" /\ UNCHANGED <<start, end, pos, lastbest>>
                ELSE /\ start' = NextStart(k) /\ end' = NextEnd(k)
                     /\ pos' = Sample(k) /\ lastbest' = vp[k]
                     /\ UNCHANGED pc
  BY DEF Round
<1>. DEFINE vp == [j \in 1 .. num |-> IF Reused(j) THEN best ELSE Learned(fresh)[Sample(j)]]
<1>4. \A j \in 1 .. num : Sample(j) \in Nat /\ start < Sample(j)
  BY <1>1, <1>2, Samples
<1>5. /\ DOMAIN known' = DOMAIN known \cup asked
      /\ \A q \in DOMAIN known : known'[q] = known[q]
      /\ \A q \in asked : known'[q] = fresh[q] /\ fresh[q] \in Costs
  BY <1>3 DEF Learned
<1>6. \A q \in DOMAIN known' : known'[q] \in Nat /\ known'[q] < Large
  <2>. HIDE DEF asked
  <2>. QED  BY <1>2, <1>5, CostsBelowLarge
<1>7. \A j \in 1 .. num : IF Reused(j) THEN vp[j] = best
                          ELSE Sample(j) \in DOMAIN known' /\ vp[j] = known'[Sample(j)]
  BY <1>3, <1>5
<1>8. \A j \in 1 .. num : vp[j] \in Nat
  BY <1>2, <1>6, <1>7
<1>9. \A j \in 1 .. num : vp[k] <= vp[j]
  <2>1. \A j \in k .. num : vp[k] <= vp[j]
    BY <1>3 DEF IsFirstMinimum
  <2>2. \A j \in 1 .. k - 1 : vp[k] < vp[j]
    BY <1>3 DEF IsFirstMinimum
  <2>3. \A j \in 1 .. num : j \in k .. num \/ j \in 1 .. k - 1
    BY <1>2
  <2>. HIDE DEF vp
  <2>. QED  BY <1>8, <2>1, <2>2, <2>3
<1>10. CASE ~sampled
  <2>1. /\ DOMAIN known = {} /\ best = Large /\ start = ostart /\ pos = ostart
    BY <1>1, <1>10 DEF CostInv
  <2>2. \A j \in 1 .. num : ~Reused(j)
    BY <1>2, <1>4, <1>10, <2>1 DEF Reused
  <2>3. vp[k] < Large /\ vp[k] = known'[Sample(k)] /\ Sample(k) \in DOMAIN known'
    BY <1>6, <1>7, <2>2
  <2>4. /\ best' = vp[k] /\ sampled' /\ pos' = Sample(k) /\ lastbest' = vp[k] /\ pc' = "round"
    <3>. HIDE DEF vp
    <3>1. ~(vp[k] > lastbest)
      BY <1>1, <1>2, <1>8, <2>1, <2>3
    <3>. QED  BY <1>1, <1>3, <3>1 DEF vp
  <2>5. \A q \in DOMAIN known' : best' <= known'[q]
    <3>1. \A q \in asked : \E j \in 1 .. num : q = Sample(j) /\ vp[j] = known'[q]
      BY <1>7, <2>2
    <3>. HIDE DEF vp, asked
    <3>. QED  BY <1>5, <1>9, <2>1, <2>4, <3>1
  <2>6. pos' # ostart'
    BY <1>1, <1>2, <1>4, <2>4 DEF ostart
  <2>. HIDE DEF vp, asked
  <2>. QED  BY <1>1, <1>6, <2>3, <2>4, <2>5, <2>6
            DEF CostInv, Searching, Sampled, FineSplitPays, SplitPays, DoneJustified
<1>11. CASE sampled /\ num = 3
  <2>1. /\ \A q \in DOMAIN known : best <= known[q]
        /\ pos # ostart \/ DOMAIN known = {}
    BY <1>1, <1>11 DEF CostInv, Searching
  <2>2. vp[2] = best /\ vp[k] <= best
    <3>1. Reused(2) /\ 2 \in 1 .. num
      BY <1>11 DEF Reused
    <3>2. vp[2] = best
      BY <3>1
    <3>. QED  BY <1>9, <3>1, <3>2
  <2>3. /\ best' = vp[k] /\ sampled' /\ pos' = Sample(k) /\ lastbest' = vp[k] /\ pc' = "round"
    <3>. HIDE DEF vp
    <3>1. ~(vp[k] > lastbest)
      BY <1>1, <1>2, <1>8, <2>2
    <3>. QED  BY <1>1, <1>3, <3>1 DEF vp
  <2>4. \A q \in DOMAIN known' : best' <= known'[q]
    <3>1. \A q \in asked : \E j \in 1 .. num : q = Sample(j) /\ vp[j] = known'[q]
      BY <1>7
    <3>2. \A q \in DOMAIN known : best' <= known'[q]
      <4>. HIDE DEF vp, asked
      <4>. QED  BY <1>2, <1>5, <1>8, <2>1, <2>2, <2>3
    <3>. HIDE DEF vp, asked
    <3>. QED  BY <1>5, <1>9, <2>3, <3>1, <3>2
  <2>5. pos' # ostart'
    BY <1>1, <1>2, <1>4, <2>3 DEF ostart
  <2>. HIDE DEF vp, asked
  <2>. QED  BY <1>1, <1>6, <1>11, <2>3, <2>4, <2>5
            DEF CostInv, Searching, Sampled, FineSplitPays, SplitPays, DoneJustified
<1>12. CASE sampled /\ num # 3
  <2>1. pos \in DOMAIN known /\ known[pos] = best
    BY <1>1, <1>12 DEF CostInv, Sampled
  <2>2. pos \in DOMAIN known' /\ known'[pos] = best
    BY <1>5, <2>1
  <2>3. CASE vp[k] > lastbest
    <3>1. best' = vp[k] /\ sampled' /\ pos' = pos /\ pc' = "decide"
      BY <1>3, <2>3
    <3>2. known'[pos'] <= best'
      <4>. HIDE DEF vp
      <4>. QED  BY <1>1, <1>2, <1>8, <2>2, <2>3, <3>1
    <3>. HIDE DEF vp, asked
    <3>. QED  BY <1>1, <1>6, <1>12, <2>2, <3>1, <3>2
              DEF CostInv, Searching, FineSplitPays, SplitPays, DoneJustified
  <2>4. CASE ~(vp[k] > lastbest)
    <3>1. best' = vp[k] /\ sampled' /\ pos' = Sample(k) /\ lastbest' = vp[k] /\ pc' = "round"
      BY <1>1, <1>3, <2>4
    <3>2. pos' \in DOMAIN known' /\ known'[pos'] = best'
      <4>1. CASE Reused(k)
        <5>1. Sample(k) = pos /\ vp[k] = best
          BY <1>7, <1>12, <4>1 DEF Reused
        <5>. HIDE DEF vp, asked
        <5>. QED  BY <2>2, <3>1, <5>1
      <4>2. CASE ~Reused(k)
        <5>1. Sample(k) \in DOMAIN known' /\ vp[k] = known'[Sample(k)]
          BY <1>7, <4>2
        <5>. HIDE DEF vp, asked
        <5>. QED  BY <3>1, <5>1
      <4>. QED  BY <4>1, <4>2
    <3>. HIDE DEF vp, asked
    <3>. QED  BY <1>1, <1>6, <1>12, <3>1, <3>2
              DEF CostInv, Searching, Sampled, FineSplitPays, SplitPays, DoneJustified
  <2>. QED  BY <2>3, <2>4
<1>. QED  BY <1>10, <1>11, <1>12

\* The final scan, made with nine samples only.
LEMMA LastCosts ==
  ASSUME IInv, CostInv, Last
  PROVE  CostInv'
<1>1. /\ pc = "round" /\ pc' = "decide" /\ UNCHANGED <<job, lstart, lend>>
  BY DEF Last, block
<1>2. CASE ~(Few /\ job.opts.many)
  <2>1. UNCHANGED <<pos, best, known>>
    BY <1>2 DEF Last
  <2>2. job.opts.num = 3 \/ best = Large \/ (pos \in DOMAIN known /\ known[pos] <= best)
    <3>1. best \in Nat
      BY DEF IInv, TypeOK
    <3>. QED  BY <1>1, <3>1 DEF CostInv, Sampled
  <2>. QED  BY <1>1, <2>1, <2>2 DEF CostInv, Searching, ostart, FineSplitPays, SplitPays, DoneJustified
<1>3. CASE Few /\ job.opts.many
  <2>. DEFINE asked == (start .. end - 1) \ DOMAIN known
  <2>1. job.opts.num = 9
    BY <1>3 DEF IInv, TypeOK, IsJob
  <2>2. PICK fresh \in [asked -> Costs] :
          /\ known' = Learned(fresh)
          /\ \/ UNCHANGED <<pos, best>>
             \/ \E q \in start .. end - 1 : pos' = q /\ best' = Learned(fresh)[q]
    BY <1>3 DEF Last
  <2>3. /\ DOMAIN known' = DOMAIN known \cup asked
        /\ \A q \in DOMAIN known : known'[q] = known[q]
        /\ \A q \in asked : known'[q] = fresh[q] /\ fresh[q] \in Costs
    BY <2>2 DEF Learned
  <2>4. \A q \in DOMAIN known' : known'[q] \in Nat /\ known'[q] < Large
    <3>1. \A q \in DOMAIN known : known[q] \in Nat /\ known[q] < Large
      BY <1>1 DEF CostInv, Searching, IInv, TypeOK
    <3>. HIDE DEF asked
    <3>. QED  BY <2>3, <3>1, CostsBelowLarge
  <2>5. best' = Large \/ (pos' \in DOMAIN known' /\ known'[pos'] <= best')
    <3>1. CASE UNCHANGED <<pos, best>>
      <4>1. best = Large \/ (pos \in DOMAIN known /\ known[pos] = best)
        BY <1>1, <2>1 DEF CostInv, Sampled
      <4>2. best \in Nat
        BY DEF IInv, TypeOK
      <4>. QED  BY <2>3, <3>1, <4>1, <4>2
    <3>2. CASE \E q \in start .. end - 1 : pos' = q /\ best' = Learned(fresh)[q]
      <4>1. PICK q \in start .. end - 1 : pos' = q /\ best' = known'[q]
        BY <2>2, <3>2
      <4>2. q \in DOMAIN known'
        BY <2>3
      <4>. HIDE DEF asked
      <4>. QED  BY <2>4, <4>1, <4>2
    <3>. QED  BY <2>2, <3>1, <3>2
  <2>. HIDE DEF asked
  <2>. QED  BY <1>1, <2>1, <2>4, <2>5 DEF CostInv, Searching, FineSplitPays, SplitPays, DoneJustified
<1>. QED  BY <1>2, <1>3

\* The decision compares the costs of the whole block with best.
LEMMA DecideCosts ==
  ASSUME IInv, CostInv, Decide
  PROVE  CostInv'
<1>1. pc = "decide" /\ pc' = "next" /\ UNCHANGED <<job, lstart, lend, best>>
  BY DEF Decide, block
<1>2. /\ lstart \in Nat /\ lend \in Nat /\ pos \in Nat /\ pos < lend /\ lstart < pos
      /\ best \in Nat /\ job.opts.num \in {3, 9} /\ Large \in Nat
      /\ \A q \in DOMAIN known : known[q] \in Nat /\ known[q] < Large
  BY <1>1, JobFacts, CostsAssumption DEF IInv, TypeOK, SearchInv, Searching, CostInv
<1>3. PICK orig \in (IF lend \in DOMAIN known THEN {known[lend]} ELSE Costs) :
        known' = Learned([r \in {lend} |-> orig]) /\ pos' = Chosen(orig)
  BY DEF Decide
<1>4. orig \in Nat /\ orig < Large
  BY <1>2, CostsBelowLarge
<1>5. /\ DOMAIN known' = DOMAIN known \cup {lend} /\ known'[lend] = orig
      /\ \A q \in DOMAIN known \ {lend} : known'[q] = known[q]
  BY <1>3 DEF Learned
<1>6. ASSUME job.opts.num # 3, pos' # ostart
      PROVE  pos' \in DOMAIN known' /\ known'[pos'] < known'[lend]
  <2>1. pos' = pos /\ orig > best
    BY <1>2, <1>3, <1>4, <1>6 DEF Chosen
  <2>2. pos \in DOMAIN known /\ known[pos] <= best
    BY <1>1, <1>2, <1>4, <1>6, <2>1 DEF CostInv
  <2>. QED  BY <1>2, <1>4, <1>5, <2>1, <2>2
<1>7. ASSUME job.opts.num = 3, pos' = ostart, NEW q \in DOMAIN known' \ {ostart, lend}
      PROVE  known'[q] >= known'[lend]
  <2>1. q \in DOMAIN known /\ known'[q] = known[q]
    BY <1>5
  <2>2. best <= known[q] /\ pos # ostart
    BY <1>1, <1>7, <2>1 DEF CostInv, Searching
  <2>3. orig <= best
    BY <1>2, <1>3, <1>4, <1>7, <2>2 DEF Chosen
  <2>. QED  BY <1>2, <1>4, <1>5, <2>1, <2>2, <2>3
<1>8. ostart' = ostart
  BY <1>1 DEF ostart
<1>9. FineSplitPays'
  <2>1. job.opts.num > 3 => job.opts.num # 3
    BY <1>2
  <2>. QED  BY <1>1, <1>5, <1>6, <1>8, <2>1 DEF FineSplitPays, SplitPays
<1>10. DoneJustified'
  BY <1>1, <1>7, <1>8 DEF DoneJustified
<1>. QED  BY <1>1, <1>9, <1>10 DEF CostInv, Searching

LEMMA CostStep ==
  ASSUME IInv, CostInv, [Next]_vars
  PROVE  CostInv'
<1>. USE DEF CostInv, Searching, FineSplitPays, SplitPays, DoneJustified
<1>1. CASE Start \/ NextBlock \/ ConvertEntry \/ Finish
  BY <1>1 DEF Start, NextBlock, ConvertEntry, Finish
<1>2. CASE EnterFindMinimum
  BY <1>2 DEF EnterFindMinimum, ostart, block
<1>3. CASE Round
  BY <1>3, RoundCosts
<1>4. CASE Last
  BY <1>4, LastCosts
<1>5. CASE Decide
  BY <1>5, DecideCosts
<1>6. CASE Stopped \/ UNCHANGED vars
  BY <1>6 DEF Stopped, vars, block, search, ostart, Sampled
<1>. QED  BY <1>1, <1>2, <1>3, <1>4, <1>5, <1>6 DEF Next

\* What the costs have to do with the decisions, for every cost function.
THEOREM CostsDecide == Spec => [](FineSplitPays /\ DoneJustified)
<1>1. Init => CostInv
  BY DEF Init, CostInv, Searching, FineSplitPays, SplitPays, DoneJustified
<1>2. IInv /\ CostInv /\ [Next]_vars => CostInv'
  BY CostStep
<1>3. CostInv => FineSplitPays /\ DoneJustified
  BY DEF CostInv
<1>. QED  BY <1>1, <1>2, <1>3, Invariant, PTL DEF Spec

\* With nine samples, a block is split only at a position whose cost was
\* computed and is less than that of the whole block.
THEOREM SplitsPay == Spec => []FineSplitPays
BY CostsDecide, PTL

\* With three samples, a block is marked as done only if no split that was
\* computed would have paid.
THEOREM DoneIsJustified == Spec => []DoneJustified
BY CostsDecide, PTL
=============================================================================
