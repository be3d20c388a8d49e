---------------------------- MODULE DeflateProofs ----------------------------
(***************************************************************************)
(* Proofs about Deflate: for every input, size of the master blocks,       *)
(* number of passes and choice of split points, what is written is a       *)
(* DeflateStream of the input, and a pass that splits by kept entries      *)
(* finds those of its own part.                                            *)
(***************************************************************************)
EXTENDS Deflate, SequenceTheorems, TLAPS

Ranges == [from : Nat, to : Nat]
Blocks == [from : Nat, to : Nat, btype : {1, 2}, final : BOOLEAN]

InPart == pc \in {"split", "block", "concat", "passed"}

TilesOrNone(s, a, b) == (s = <<>> /\ a = b) \/ Tiles(s, a, b)

\* where the loops over the parts and the passes are
LoopInv ==
  /\ pc = "part" /\ i = 0 => out = <<>>
  /\ InPart => /\ i < input.insize
               /\ mode = 0 <=> input.twice = 0
               /\ mode = 1 => it = 0
               /\ mode = 2 => it + 1 = input.twice
               /\ mode = 3 => it + 1 < input.twice
               /\ mode = 0 => it = 0
  /\ pc = "concat" => Keeps

\* the pieces of the pass
PieceInv == pc = "block" => IsSplit(splitpoints, i, i + size) /\ k <= Len(splitpoints)

\* how much of the input is written
OutInv ==
  /\ pc = "part" \/ (InPart /\ Keeps) \/ pc = "split" => Stream!covered = i
  /\ pc = "block" /\ ~Keeps => Stream!covered = from
  /\ pc = "passed" /\ ~Keeps => Stream!covered = i + size
  /\ pc = "done" => out # <<>> /\ Stream!covered = input.insize

\* what is kept, and by whom
KeptInv ==
  /\ pc = "split" /\ UsesKept => held = TRUE /\ Tiles(lf, i, i + size)
  /\ pc = "split" /\ ~UsesKept => held = FALSE
  /\ pc = "block" => held = FALSE /\ (Keeps => TilesOrNone(stores, i, from))
  /\ pc = "concat" => /\ stores # <<>>
                      /\ TilesOrNone(lf, i, stores[1].from)
                      /\ Tiles(stores, stores[1].from, i + size)
  /\ pc = "passed" /\ Keeps => held = TRUE /\ Tiles(lf, i, i + size)
  /\ pc = "passed" /\ ~Keeps => held = FALSE
  /\ (pc = "block" => ~Keeps) /\ pc # "concat" => stores = <<>>
  /\ pc \in {"part", "done"} => held = FALSE

\* which block may do without the statistics of another one
FlagInv ==
  /\ pc \in {"part", "split"} => (costmodelnotinited = TRUE <=> i = 0)
  /\ InPart => (cache = TRUE <=> i = 0)
  /\ pc = "block" => (costmodelnotinited = TRUE <=> from = 0)
  /\ pc \in {"concat", "passed"} => costmodelnotinited = FALSE

IInv == TypeOK /\ LoopInv /\ PieceInv /\ OutInv /\ KeptInv /\ FlagInv
-----------------------------------------------------------------------------
\* What the type invariant says of the numbers.
LEMMA Numbers ==
  ASSUME TypeOK
  PROVE  /\ input.insize \in Nat /\ input.final \in BOOLEAN
         /\ input.twice \in Nat /\ input.noblocksplit \in Nat
         /\ input.skipdynamic \in Nat /\ input.trystatic \in Nat
         /\ i \in Nat /\ i <= input.insize /\ it \in Nat /\ k \in Nat
         /\ splitpoints \in Seq(0 .. input.insize) /\ Len(splitpoints) \in Nat
         /\ stores \in Seq(Ranges) /\ lf \in Seq(Ranges) /\ out \in Seq(Blocks)
BY LenProperties, ElementOfSeq DEF TypeOK, IsRequest, Ranges, Blocks

\* A part is not empty and ends where the input does or before.
LEMMA PartSize ==
  ASSUME TypeOK, i < input.insize
  PROVE  /\ size \in Nat /\ 0 < size /\ i + size <= input.insize
         /\ masterfinal <=> i + size = input.insize
<1>1. msize \in Nat /\ 0 < msize
  BY MasterAssumption DEF msize
<1>2. input.insize \in Nat /\ i \in Nat
  BY Numbers
<1>3. size = IF masterfinal THEN input.insize - i ELSE msize
  BY DEF size
<1>4. masterfinal <=> i + msize >= input.insize
  BY DEF masterfinal
<1>5. CASE masterfinal
  BY <1>2, <1>3, <1>5
<1>6. CASE ~masterfinal
  BY <1>1, <1>2, <1>3, <1>4, <1>6
<1>. QED  BY <1>5, <1>6

\* Pieces are not empty and lie in the part, the last one ends with it.
LEMMA PieceFacts ==
  ASSUME TypeOK, i < input.insize, IsSplit(splitpoints, i, i + size), k <= Len(splitpoints)
  PROVE  /\ from \in Nat /\ to \in Nat /\ i <= from /\ from < to /\ to <= i + size
         /\ IsLast <=> to = i + size
         /\ k = 0 <=> from = i
<1>1. /\ size \in Nat /\ 0 < size /\ i \in Nat /\ k \in Nat /\ Len(splitpoints) \in Nat
      /\ splitpoints \in Seq(0 .. input.insize) /\ input.insize \in Nat
  BY Numbers, PartSize
<1>2. \A a \in 1 .. Len(splitpoints) :
        splitpoints[a] \in Nat /\ i < splitpoints[a] /\ splitpoints[a] < i + size
  BY <1>1, LenProperties, ElementOfSeq DEF IsSplit
<1>3. /\ from = IF k = 0 THEN i ELSE splitpoints[k]
      /\ to = IF k = Len(splitpoints) THEN i + size ELSE splitpoints[k + 1]
  BY DEF from, to, PieceStart, PieceEnd
<1>4. k # 0 => k \in 1 .. Len(splitpoints)
  BY <1>1
<1>5. k # Len(splitpoints) => k + 1 \in 1 .. Len(splitpoints)
  BY <1>1
<1>6. from \in Nat /\ i <= from /\ from < i + size /\ (k = 0 <=> from = i)
  BY <1>1, <1>2, <1>3, <1>4
<1>7. to \in Nat /\ i < to /\ to <= i + size /\ (k = Len(splitpoints) <=> to = i + size)
  BY <1>1, <1>2, <1>3, <1>5
<1>8. from < to
  <2>1. CASE k = 0
    BY <1>1, <1>3, <1>7, <2>1
  <2>2. CASE k = Len(splitpoints)
    BY <1>1, <1>3, <1>6, <2>2
  <2>3. CASE k # 0 /\ k # Len(splitpoints)
    <3>1. splitpoints[k] < splitpoints[k + 1]
      BY <1>1, <1>4, <1>5, <2>3 DEF IsSplit
    <3>. QED  BY <1>3, <2>3, <3>1
  <2>. QED  BY <2>1, <2>2, <2>3
<1>. QED  BY <1>6, <1>7, <1>8 DEF IsLast

\* The split points of Splits are a sequence that is a proper split.
LEMMA SplitsFacts ==
  ASSUME NEW a \in Nat, NEW b \in Nat, NEW n \in Nat, b <= n, NEW s \in Splits(a, b)
  PROVE  s \in Seq(0 .. n) /\ IsSplit(s, a, b)
<1>1. PICK l \in 0 .. b - a - 1 : s \in [1 .. l -> a + 1 .. b - 1]
  BY DEF Splits
<1>2. l \in Nat /\ s \in [1 .. l -> 0 .. n]
  BY <1>1
<1>. QED  BY <1>2, SeqDef DEF Splits

\* A piece behind those that tile a range makes the range longer.
LEMMA TilesAppend ==
  ASSUME NEW a \in Nat, NEW b \in Nat, NEW c \in Nat, b < c,
         NEW s \in Seq(Ranges), TilesOrNone(s, a, b),
         NEW e \in Ranges, e.from = b, e.to = c
  PROVE  Tiles(Append(s, e), a, c) /\ Append(s, e) \in Seq(Ranges)
<1>. DEFINE t == Append(s, e)
<1>1. /\ t \in Seq(Ranges) /\ Len(t) = Len(s) + 1 /\ Len(s) \in Nat
      /\ \A n \in 1 .. Len(s) : t[n] = s[n]
      /\ t[Len(s) + 1] = e
  BY AppendProperties, LenProperties, ElementOfSeq
<1>. HIDE DEF t
<1>2. t # <<>> /\ (s = <<>> <=> Len(s) = 0)
  BY <1>1, EmptySeq
<1>3. \A n \in 1 .. Len(t) : n \in 1 .. Len(s) \/ n = Len(s) + 1
  BY <1>1
<1>4. t[Len(t)].to = c
  BY <1>1
<1>5. CASE s = <<>>
  <2>1. a = b /\ Len(s) = 0 /\ Len(t) = 1 /\ t[1] = e
    BY <1>1, <1>2, <1>5 DEF TilesOrNone, Tiles
  <2>2. \A n : n \notin 1 .. Len(t) - 1
    BY <2>1
  <2>. QED  BY <1>1, <1>2, <2>1, <2>2 DEF Tiles, t
<1>6. CASE s # <<>>
  <2>1. Tiles(s, a, b)
    BY <1>6 DEF TilesOrNone
  <2>2. 1 \in 1 .. Len(s) /\ Len(s) \in 1 .. Len(s)
    BY <1>1, <1>2, <1>6
  <2>3. t[1].from = a /\ s[Len(s)].to = b
    BY <1>1, <2>1, <2>2 DEF Tiles
  <2>4. \A n \in 1 .. Len(t) : t[n].from < t[n].to
    BY <1>1, <1>3, <2>1 DEF Tiles
  <2>5. ASSUME NEW n \in 1 .. Len(t) - 1
        PROVE  t[n].to = t[n + 1].from
    <3>1. n \in 1 .. Len(s)
      BY <1>1
    <3>2. CASE n = Len(s)
      BY <1>1, <2>3, <3>1, <3>2
    <3>3. CASE n # Len(s)
      <4>1. n \in 1 .. Len(s) - 1 /\ n + 1 \in 1 .. Len(s)
        BY <1>1, <3>1, <3>3
      <4>. QED  BY <1>1, <2>1, <3>1, <4>1 DEF Tiles
    <3>. QED  BY <3>2, <3>3
  <2>. QED  BY <1>1, <1>2, <1>4, <2>3, <2>4, <2>5 DEF Tiles, t
<1>. QED  BY <1>5, <1>6

\* The first piece of those that tile a range, and the others.
LEMMA TilesTail ==
  ASSUME NEW a \in Nat, NEW b \in Nat, NEW s \in Seq(Ranges), Tiles(s, a, b)
  PROVE  /\ s[1] \in Ranges /\ s[1].from = a /\ a < s[1].to
         /\ Tail(s) \in Seq(Ranges)
         /\ Tail(s) = <<>> => s[1].to = b
         /\ Tail(s) # <<>> => /\ Tail(s)[1].from = s[1].to
                              /\ Tiles(Tail(s), s[1].to, b)
<1>. DEFINE t == Tail(s)
<1>1. s # <<>> /\ Len(s) \in Nat
  BY LenProperties, ElementOfSeq DEF Tiles
<1>2. 1 \in 1 .. Len(s) /\ Len(s) \in 1 .. Len(s)
  BY <1>1, EmptySeq
<1>3. /\ t \in Seq(Ranges) /\ Len(t) = Len(s) - 1
      /\ \A n \in 1 .. Len(s) - 1 : t[n] = s[n + 1]
  BY <1>1, HeadTailProperties
<1>. HIDE DEF t
<1>4. (t = <<>> <=> Len(t) = 0) /\ Len(t) \in Nat
  BY <1>3, EmptySeq, LenProperties, ElementOfSeq
<1>5. s[1] \in Ranges /\ s[1].from = a /\ a < s[1].to
  BY <1>2, LenProperties, ElementOfSeq DEF Tiles
<1>6. CASE t = <<>>
  <2>1. Len(s) = 1
    BY <1>1, <1>3, <1>4, <1>6
  <2>. QED  BY <1>3, <1>5, <1>6, <2>1 DEF Tiles, t
<1>7. CASE t # <<>>
  <2>1. Len(s) > 1 /\ 1 \in 1 .. Len(t) /\ 1 \in 1 .. Len(s) - 1
    BY <1>1, <1>3, <1>4, <1>7
  <2>2. t[1] = s[2] /\ s[1].to = s[2].from
    BY <1>3, <2>1 DEF Tiles
  <2>3. Len(t) \in 1 .. Len(s) - 1 /\ Len(t) + 1 = Len(s)
    BY <1>1, <1>3, <2>1
  <2>4. t[Len(t)] = s[Len(s)]
    BY <1>3, <2>3
  <2>5. ASSUME NEW n \in 1 .. Len(t)
        PROVE  t[n].from < t[n].to
    <3>1. n + 1 \in 1 .. Len(s) /\ n \in 1 .. Len(s) - 1
      BY <1>1, <1>3
    <3>. QED  BY <1>3, <3>1 DEF Tiles
  <2>6. ASSUME NEW n \in 1 .. Len(t) - 1
        PROVE  t[n].to = t[n + 1].from
    <3>1. n + 1 \in 1 .. Len(s) - 1 /\ n \in 1 .. Len(s) - 1
      BY <1>1, <1>3
    <3>2. s[n + 1].to = s[n + 1 + 1].from
      BY <3>1 DEF Tiles
    <3>. QED  BY <1>3, <3>1, <3>2
  <2>7. Tiles(t, s[1].to, b)
    BY <1>7, <2>2, <2>4, <2>5, <2>6 DEF Tiles
  <2>. QED  BY <1>3, <1>5, <1>7, <2>2, <2>7 DEF t
<1>. QED  BY <1>6, <1>7

\* A step that neither writes nor returns is no step of the stream.
LEMMA Unseen ==
  ASSUME (pc # "done" /\ pc' # "done") \/ pc' = pc, UNCHANGED <<input, out>>
  PROVE  UNCHANGED Stream!vars
<1>1. (pc = "done")' = (pc = "done")
  OBVIOUS
<1>. QED  BY <1>1 DEF Stream!vars

\* A block behind those written.
LEMMA Written ==
  ASSUME TypeOK, NEW e \in Blocks, out' = Append(out, e)
  PROVE  out' \in Seq(Blocks) /\ out' # <<>> /\ Stream!covered' = e.to
<1>1. /\ out' \in Seq(Blocks) /\ Len(out') = Len(out) + 1 /\ Len(out) \in Nat
      /\ out'[Len(out) + 1] = e
  BY Numbers, AppendProperties, LenProperties, ElementOfSeq
<1>2. out' # <<>>
  BY <1>1, EmptySeq
<1>. QED  BY <1>1, <1>2 DEF Stream!covered
-----------------------------------------------------------------------------
LEMMA InitInv == Init => IInv
<1>. SUFFICES ASSUME Init PROVE IInv
  OBVIOUS
<1>1. /\ pc = "part" /\ i = 0 /\ mode = 0 /\ it = 0 /\ costmodelnotinited = TRUE
      /\ st = NoBlock
      /\ cache = TRUE /\ splitpoints = <<>> /\ k = 0 /\ stores = <<>> /\ lf = <<>>
      /\ held = FALSE /\ out = <<>> /\ IsRequest(input)
  BY RequestsAssumption DEF Init
<1>2. TypeOK
  <2>1. input.insize \in Nat
    BY <1>1 DEF IsRequest
  <2>2. {costmodelnotinited, cache, held} \subseteq BOOLEAN
    BY <1>1
  <2>3. Len(splitpoints) = 0 /\ \A S : <<>> \in Seq(S)
    BY <1>1
  <2>4. st \in [from : Nat, to : Nat]
    BY <1>1 DEF NoBlock
  <2>. QED  BY <1>1, <2>1, <2>2, <2>3, <2>4 DEF TypeOK
<1>. QED  BY <1>1, <1>2 DEF IInv, LoopInv, PieceInv, OutInv, KeptInv, FlagInv, InPart,
                            Stream!covered, Keeps

LEMMA EmptyInputInv ==
  ASSUME IInv, EmptyInput
  PROVE  IInv' /\ Stream!Emit
<1>. USE DEF IInv
<1>1. /\ pc = "part" /\ pc' = "done" /\ input.insize = 0
      /\ UNCHANGED <<input, i, mode, it, cache, costmodelnotinited, st, splitpoints, k, stores,
                     lf, held>>
      /\ out' = Append(out, [from |-> 0, to |-> 0, btype |-> 1, final |-> input.final])
  BY DEF EmptyInput, pass, kept
<1>2. i = 0 /\ out = <<>> /\ input.final \in BOOLEAN
  BY <1>1, Numbers DEF LoopInv
<1>3. [from |-> 0, to |-> 0, btype |-> 1, final |-> input.final] \in Blocks
  BY <1>2 DEF Blocks
<1>4. out' \in Seq(Blocks) /\ out' # <<>> /\ Stream!covered' = 0
  BY <1>1, <1>3, Written
<1>5. TypeOK'
  BY <1>1, <1>4 DEF TypeOK, Blocks
<1>6. LoopInv' /\ PieceInv' /\ OutInv' /\ KeptInv' /\ FlagInv'
  BY <1>1, <1>4 DEF LoopInv, PieceInv, OutInv, KeptInv, FlagInv, InPart
<1>7. Stream!Emit
  <2>1. Stream!covered = 0 /\ ~Stream!Complete
    BY <1>2 DEF Stream!covered, Stream!Complete
  <2>2. 0 \in Stream!covered .. input.insize /\ (input.final /\ 0 = input.insize) = input.final
    BY <1>1, <1>2, <2>1
  <2>3. out' = Append(out, [from |-> Stream!covered, to |-> 0, btype |-> 1,
                            final |-> input.final /\ 0 = input.insize])
    BY <1>1, <2>1, <2>2
  <2>4. (pc = "done")' \in {FALSE, 0 = input.insize}
    BY <1>1
  <2>. QED  BY <1>1, <2>1, <2>2, <2>3, <2>4 DEF Stream!Emit
<1>. QED  BY <1>5, <1>6, <1>7

LEMMA NextPartInv ==
  ASSUME IInv, NextPart
  PROVE  IInv' /\ UNCHANGED Stream!vars
<1>. USE DEF IInv
<1>1. /\ pc = "part" /\ pc' = "split" /\ i < input.insize
      /\ mode' = (IF input.twice = 0 THEN 0 ELSE 1) /\ it' = 0
      /\ cache' = costmodelnotinited /\ lf' = <<>> /\ held' = FALSE
      /\ UNCHANGED <<input, i, costmodelnotinited, st, splitpoints, k, stores, out>>
  BY DEF NextPart
<1>2. TypeOK'
  <2>1. {costmodelnotinited, cache, held}' \subseteq BOOLEAN
    BY <1>1 DEF TypeOK
  <2>2. mode' \in 0 .. 3 /\ it' \in Nat /\ lf' \in Seq([from : Nat, to : Nat])
    BY <1>1
  <2>. QED  BY <1>1, <2>1, <2>2 DEF TypeOK
<1>3. LoopInv' /\ PieceInv'
  BY <1>1, Numbers DEF LoopInv, PieceInv, InPart, Keeps
<1>4. OutInv'
  BY <1>1 DEF OutInv, InPart, Stream!covered
<1>5. KeptInv'
  BY <1>1 DEF KeptInv, UsesKept, Keeps
<1>6. FlagInv'
  BY <1>1 DEF FlagInv, InPart
<1>. QED  BY <1>1, <1>2, <1>3, <1>4, <1>5, <1>6, Unseen

LEMMA EndOfInputInv ==
  ASSUME IInv, EndOfInput
  PROVE  IInv' /\ Stream!Return
<1>. USE DEF IInv
<1>1. /\ pc = "part" /\ pc' = "done" /\ i >= input.insize /\ input.insize > 0
      /\ UNCHANGED <<input, i, mode, it, cache, costmodelnotinited, st, splitpoints, k, stores,
                     lf, held, out>>
  BY DEF EndOfInput, pass, kept
<1>2. i = input.insize /\ i # 0 /\ Stream!covered = i
  BY <1>1, Numbers DEF OutInv
<1>3. out # <<>>
  BY <1>2 DEF Stream!covered
<1>4. TypeOK'
  BY <1>1 DEF TypeOK
<1>5. LoopInv' /\ PieceInv' /\ KeptInv' /\ FlagInv'
  BY <1>1 DEF LoopInv, PieceInv, KeptInv, FlagInv, InPart
<1>6. OutInv'
  BY <1>1, <1>2, <1>3 DEF OutInv, InPart, Stream!covered
<1>7. Stream!Return
  BY <1>1, <1>2, <1>3 DEF Stream!Return, Stream!Complete
<1>. QED  BY <1>4, <1>5, <1>6, <1>7

LEMMA SplitInv ==
  ASSUME IInv, Split
  PROVE  IInv' /\ UNCHANGED Stream!vars
<1>. USE DEF IInv
<1>1. /\ pc = "split" /\ pc' = "block" /\ held' = (held /\ ~UsesKept)
      /\ k' = 0 /\ stores' = <<>>
      /\ UNCHANGED <<input, i, mode, it, cache, costmodelnotinited, st, lf, out>>
  BY DEF Split, pass
<1>2. i < input.insize /\ i \in Nat /\ input.insize \in Nat
  BY <1>1, Numbers DEF LoopInv, InPart
<1>3. size \in Nat /\ 0 < size /\ i + size <= input.insize
  BY <1>2, PartSize
<1>4. SeenEnd = i + size
  BY <1>1 DEF SeenEnd, KeptInv, Tiles
<1>5. splitpoints' \in Seq(0 .. input.insize) /\ IsSplit(splitpoints', i, i + size)
  <2>1. CASE splitpoints' = <<>>
    <3>1. Len(splitpoints') = 0 /\ splitpoints' \in Seq(0 .. input.insize)
      BY <2>1
    <3>. QED  BY <3>1 DEF IsSplit
  <2>2. CASE splitpoints' \in Splits(i, SeenEnd)
    <3>1. i + size \in Nat
      BY <1>2, <1>3
    <3>. QED  BY <1>2, <1>3, <1>4, <2>2, <3>1, SplitsFacts
  <2>. QED  BY <2>1, <2>2 DEF Split
<1>6. held' = FALSE
  <2>1. ~UsesKept => held = FALSE
    BY <1>1 DEF KeptInv
  <2>. QED  BY <1>1, <2>1
<1>7. TypeOK'
  <2>1. Len(splitpoints') \in Nat
    BY <1>5, LenProperties, ElementOfSeq
  <2>2. k' \in 0 .. Len(splitpoints') + 1
    BY <1>1, <2>1
  <2>3. stores' \in Seq([from : Nat, to : Nat])
    BY <1>1
  <2>. QED  BY <1>1, <1>5, <1>6, <2>2, <2>3 DEF TypeOK
<1>8. size' = size
  BY <1>1 DEF size, masterfinal, msize
<1>9. from' = i
  BY <1>1 DEF from, PieceStart
<1>10. LoopInv' /\ PieceInv'
  <2>1. Len(splitpoints') \in Nat
    BY <1>5, LenProperties, ElementOfSeq
  <2>. QED  BY <1>1, <1>5, <1>8, <2>1 DEF LoopInv, PieceInv, InPart, Keeps
<1>11. OutInv'
  BY <1>1, <1>9 DEF OutInv, InPart, Stream!covered, Keeps
<1>12. KeptInv'
  BY <1>1, <1>6, <1>9 DEF KeptInv, TilesOrNone
<1>13. FlagInv'
  BY <1>1, <1>9 DEF FlagInv, InPart
<1>. QED  BY <1>1, <1>7, <1>10, <1>11, <1>12, <1>13, Unseen

LEMMA NextPassInv ==
  ASSUME IInv, NextPass
  PROVE  IInv' /\ UNCHANGED Stream!vars
<1>. USE DEF IInv
<1>1. /\ pc = "passed" /\ pc' = "split" /\ mode # 0
      /\ NextIt < input.twice /\ it' = NextIt /\ mode' = Mode(NextIt)
      /\ costmodelnotinited' = cache
      /\ UNCHANGED <<input, i, cache, st, splitpoints, k, stores, lf, held, out>>
  BY DEF NextPass, kept
<1>2. i < input.insize /\ input.twice \in Nat /\ it \in Nat /\ mode \in 0 .. 3
  BY <1>1, Numbers DEF LoopInv, InPart, TypeOK
<1>3. mode # 2
  BY <1>1, <1>2 DEF LoopInv, InPart, NextIt
<1>4. Keeps
  BY <1>1, <1>2, <1>3 DEF Keeps
<1>5. NextIt \in Nat
  BY <1>2 DEF NextIt
<1>6. /\ mode' \in {2, 3}
      /\ mode' = 2 => it' + 1 = input.twice
      /\ mode' = 3 => it' + 1 < input.twice
  BY <1>1, <1>2, <1>5 DEF Mode
<1>7. input.twice # 0
  BY <1>1, <1>2, <1>5
<1>8. TypeOK'
  <2>1. {costmodelnotinited, cache, held}' \subseteq BOOLEAN
    BY <1>1 DEF TypeOK
  <2>2. mode' \in 0 .. 3 /\ it' \in Nat
    BY <1>1, <1>5, <1>6
  <2>. QED  BY <1>1, <2>1, <2>2 DEF TypeOK
<1>9. LoopInv' /\ PieceInv'
  BY <1>1, <1>2, <1>6, <1>7 DEF LoopInv, PieceInv, InPart
<1>10. OutInv'
  BY <1>1, <1>4 DEF OutInv, InPart, Stream!covered
<1>11. KeptInv'
  <2>1. size' = size
    BY <1>1 DEF size, masterfinal, msize
  <2>2. UsesKept'
    BY <1>6 DEF UsesKept
  <2>. QED  BY <1>1, <1>4, <2>1, <2>2 DEF KeptInv
<1>12. FlagInv'
  BY <1>1 DEF FlagInv, InPart
<1>. QED  BY <1>1, <1>8, <1>9, <1>10, <1>11, <1>12, Unseen

LEMMA EndPartInv ==
  ASSUME IInv, EndPart
  PROVE  IInv' /\ UNCHANGED Stream!vars
<1>. USE DEF IInv
<1>1. /\ pc = "passed" /\ pc' = "part" /\ (mode = 0 \/ NextIt >= input.twice)
      /\ i' = i + size
      /\ UNCHANGED <<input, mode, it, cache, costmodelnotinited, st, splitpoints, k, stores, lf,
                     held, out>>
  BY DEF EndPart, pass, kept
<1>2. /\ i < input.insize /\ i \in Nat /\ input.insize \in Nat /\ input.twice \in Nat
      /\ it \in Nat /\ mode \in 0 .. 3
  BY <1>1, Numbers DEF LoopInv, InPart, TypeOK
<1>3. size \in Nat /\ 0 < size /\ i + size <= input.insize
  BY <1>2, PartSize
<1>4. ~Keeps
  BY <1>1, <1>2 DEF LoopInv, InPart, NextIt, Keeps
<1>5. costmodelnotinited = FALSE
  BY <1>1 DEF FlagInv
<1>6. TypeOK'
  BY <1>1, <1>2, <1>3 DEF TypeOK
<1>7. LoopInv' /\ PieceInv'
  BY <1>1, <1>2, <1>3 DEF LoopInv, PieceInv, InPart
<1>8. OutInv'
  BY <1>1, <1>4 DEF OutInv, InPart, Stream!covered
<1>9. KeptInv'
  BY <1>1, <1>4 DEF KeptInv
<1>10. FlagInv'
  BY <1>1, <1>2, <1>3, <1>5 DEF FlagInv, InPart
<1>. QED  BY <1>1, <1>6, <1>7, <1>8, <1>9, <1>10, Unseen

LEMMA ConcatenateInv ==
  ASSUME IInv, Concatenate
  PROVE  IInv' /\ UNCHANGED Stream!vars
<1>. USE DEF IInv
<1>1. /\ pc = "concat" /\ pc' = (IF stores' = <<>> THEN "passed" ELSE "concat")
      /\ lf' = Append(lf, stores[1]) /\ held' = TRUE /\ stores' = Tail(stores)
      /\ UNCHANGED <<input, i, mode, it, cache, costmodelnotinited, st, splitpoints, k, out>>
  BY DEF Concatenate, FirstKept, pass
<1>2. /\ i < input.insize /\ i \in Nat /\ input.insize \in Nat /\ stores \in Seq(Ranges)
      /\ lf \in Seq(Ranges) /\ Keeps
  BY <1>1, Numbers DEF LoopInv, InPart
<1>3. size \in Nat /\ 0 < size /\ i + size \in Nat
  BY <1>2, PartSize
<1>4. /\ stores # <<>> /\ TilesOrNone(lf, i, stores[1].from)
      /\ Tiles(stores, stores[1].from, i + size)
  BY <1>1 DEF KeptInv
<1>5. stores[1] \in Ranges
  <2>1. 1 \in 1 .. Len(stores)
    BY <1>2, <1>4, EmptySeq
  <2>. QED  BY <1>2, <2>1, LenProperties, ElementOfSeq
<1>6. stores[1].from \in Nat /\ stores[1].to \in Nat
  BY <1>5 DEF Ranges
<1>7. /\ stores[1].from < stores[1].to /\ stores' \in Seq(Ranges)
      /\ stores' = <<>> => stores[1].to = i + size
      /\ stores' # <<>> => /\ stores'[1].from = stores[1].to
                           /\ Tiles(stores', stores[1].to, i + size)
  <2>. DEFINE a == stores[1].from
              b == i + size
  <2>1. a \in Nat /\ b \in Nat /\ Tiles(stores, a, b)
    BY <1>3, <1>4, <1>6
  <2>. HIDE DEF a, b
  <2>2. /\ stores[1] \in Ranges /\ stores[1].from = a /\ a < stores[1].to
        /\ Tail(stores) \in Seq(Ranges)
        /\ Tail(stores) = <<>> => stores[1].to = b
        /\ Tail(stores) # <<>> => /\ Tail(stores)[1].from = stores[1].to
                                 /\ Tiles(Tail(stores), stores[1].to, b)
    BY <1>2, <2>1, TilesTail, ZenonT(20)
  <2>3. stores' = Tail(stores) /\ a = stores[1].from /\ b = i + size
    BY <1>1 DEF a, b
  <2>. QED  BY <2>2, <2>3
<1>8. Tiles(lf', i, stores[1].to) /\ lf' \in Seq(Ranges)
  BY <1>1, <1>2, <1>4, <1>5, <1>6, <1>7, TilesAppend
<1>9. TypeOK'
  BY <1>1, <1>7, <1>8 DEF TypeOK, Ranges
<1>10. Keeps' /\ size' = size
  BY <1>1, <1>2 DEF Keeps, size, masterfinal, msize
<1>11. LoopInv' /\ PieceInv'
  BY <1>1, <1>10 DEF LoopInv, PieceInv, InPart
<1>12. OutInv'
  BY <1>1, <1>2, <1>10 DEF OutInv, InPart, Stream!covered
<1>13. KeptInv'
  BY <1>1, <1>7, <1>8, <1>10 DEF KeptInv, TilesOrNone
<1>14. FlagInv'
  BY <1>1 DEF FlagInv, InPart
<1>. QED  BY <1>1, <1>9, <1>11, <1>12, <1>13, <1>14, Unseen

\* A block is written where the one before it ends, or kept behind it.
LEMMA DeflateDynamicBlockInv ==
  ASSUME IInv, DeflateDynamicBlock
  PROVE  IInv' /\ [Stream!Next]_(Stream!vars)
<1>. USE DEF IInv
<1>1. /\ pc = "block" /\ costmodelnotinited' = FALSE /\ k' = k + 1
      /\ lf' = (IF IsLast /\ Keeps THEN <<>> ELSE lf)
      /\ pc' = (IF ~IsLast THEN "block" ELSE IF Keeps THEN "concat" ELSE "passed")
      /\ st' = Statistics
      /\ UNCHANGED <<input, i, mode, it, cache, splitpoints, held>>
  BY DEF DeflateDynamicBlock, pass
<1>2. /\ i < input.insize /\ i \in Nat /\ input.insize \in Nat /\ k \in Nat
      /\ Len(splitpoints) \in Nat /\ stores \in Seq(Ranges) /\ lf \in Seq(Ranges)
      /\ out \in Seq(Blocks) /\ input.final \in BOOLEAN
  BY <1>1, Numbers DEF LoopInv, InPart
<1>3. /\ size \in Nat /\ 0 < size /\ i + size <= input.insize
      /\ masterfinal <=> i + size = input.insize
  BY <1>2, PartSize
<1>4. IsSplit(splitpoints, i, i + size) /\ k <= Len(splitpoints)
  BY <1>1 DEF PieceInv
<1>5. /\ from \in Nat /\ to \in Nat /\ i <= from /\ from < to /\ to <= i + size
      /\ IsLast <=> to = i + size
      /\ k = 0 <=> from = i
  BY <1>2, <1>4, PieceFacts
<1>6. /\ Keeps' = Keeps /\ size' = size /\ UsesKept' = UsesKept
      /\ st' \in [from : Nat, to : Nat]
  BY <1>1, <1>5 DEF Keeps, UsesKept, size, masterfinal, msize, Statistics, TypeOK
<1>7. ~IsLast => k' <= Len(splitpoints) /\ from' = to /\ k' # 0
  BY <1>1, <1>2, <1>4 DEF IsLast, from, to, PieceStart, PieceEnd
<1>8. CASE Keeps
  <2>1. stores' = Append(stores, [from |-> from, to |-> to]) /\ out' = out
    BY <1>8 DEF DeflateDynamicBlock
  <2>. DEFINE e == [from |-> from, to |-> to]
  <2>2. e \in Ranges /\ e.from = from /\ e.to = to
    BY <1>5 DEF Ranges
  <2>3. TilesOrNone(stores, i, from) /\ held = FALSE
    BY <1>1, <1>8 DEF KeptInv
  <2>. HIDE DEF e
  <2>4. Tiles(stores', i, to) /\ stores' \in Seq(Ranges)
    BY <1>2, <1>5, <2>1, <2>2, <2>3, TilesAppend DEF e
  <2>5. TypeOK'
    <3>1. {costmodelnotinited, cache, held}' \subseteq BOOLEAN
      BY <1>1 DEF TypeOK
    <3>2. k' \in 0 .. Len(splitpoints') + 1
      BY <1>1, <1>2, <1>4
    <3>3. lf' \in Seq([from : Nat, to : Nat]) /\ stores' \in Seq([from : Nat, to : Nat])
      BY <1>1, <1>2, <2>4 DEF Ranges
    <3>4. pc' \in {"part", "split", "block", "concat", "passed", "done"}
      BY <1>1
    <3>. QED  BY <1>1, <1>6, <2>1, <3>1, <3>2, <3>3, <3>4 DEF TypeOK
  <2>6. LoopInv' /\ PieceInv'
    BY <1>1, <1>6, <1>7, <1>8, <1>4 DEF LoopInv, PieceInv, InPart
  <2>7. OutInv'
    BY <1>1, <1>6, <1>8, <2>1 DEF OutInv, InPart, Stream!covered
  <2>8. KeptInv'
    <3>1. stores' # <<>> /\ stores'[1].from = i
      BY <2>4 DEF Tiles
    <3>2. CASE IsLast
      <4>1. pc' = "concat" /\ lf' = <<>> /\ i' = i /\ to = i + size
        BY <1>1, <1>5, <1>8, <3>2
      <4>2. Tiles(stores', stores'[1].from, (i + size)')
        BY <1>6, <2>4, <3>1, <4>1
      <4>3. TilesOrNone(lf', i', stores'[1].from)
        BY <3>1, <4>1 DEF TilesOrNone
      <4>. QED  BY <3>1, <4>1, <4>2, <4>3 DEF KeptInv
    <3>3. CASE ~IsLast
      BY <1>1, <1>6, <1>7, <1>8, <2>3, <2>4, <3>3 DEF KeptInv, TilesOrNone
    <3>. QED  BY <3>2, <3>3
  <2>9. FlagInv'
    BY <1>1, <1>5, <1>7 DEF FlagInv, InPart
  <2>10. UNCHANGED Stream!vars
    BY <1>1, <2>1, Unseen
  <2>. QED  BY <2>5, <2>6, <2>7, <2>8, <2>9, <2>10
<1>9. CASE ~Keeps
  <2>1. PICK btype \in Encodings :
          out' = Append(out, [from |-> from, to |-> to, btype |-> btype, final |-> final])
    BY <1>9 DEF DeflateDynamicBlock
  <2>2. stores' = stores
    BY <1>9 DEF DeflateDynamicBlock
  <2>3. btype \in {1, 2}
    BY DEF Encodings
  <2>4. final \in BOOLEAN /\ final = (input.final /\ to = input.insize)
    BY <1>2, <1>3, <1>5 DEF final
  <2>. DEFINE e == [from |-> from, to |-> to, btype |-> btype, final |-> final]
  <2>5. e \in Blocks /\ e.to = to
    BY <1>5, <2>3, <2>4 DEF Blocks
  <2>. HIDE DEF e
  <2>6. out' = Append(out, e)
    BY <2>1 DEF e
  <2>7. out' \in Seq(Blocks) /\ out' # <<>> /\ Stream!covered' = to
    BY <2>5, <2>6, Written
  <2>8. Stream!covered = from /\ held = FALSE /\ stores = <<>>
    BY <1>1, <1>9 DEF OutInv, KeptInv
  <2>9. TypeOK'
    <3>1. {costmodelnotinited, cache, held}' \subseteq BOOLEAN
      BY <1>1 DEF TypeOK
    <3>2. k' \in 0 .. Len(splitpoints') + 1
      BY <1>1, <1>2, <1>4
    <3>3. lf' \in Seq([from : Nat, to : Nat]) /\ stores' \in Seq([from : Nat, to : Nat])
      BY <1>1, <1>2, <1>9, <2>2 DEF Ranges
    <3>4. pc' \in {"part", "split", "block", "concat", "passed", "done"}
      BY <1>1
    <3>. QED  BY <1>1, <1>6, <2>7, <3>1, <3>2, <3>3, <3>4 DEF TypeOK, Blocks
  <2>10. LoopInv' /\ PieceInv'
    BY <1>1, <1>6, <1>7, <1>9, <1>4 DEF LoopInv, PieceInv, InPart
  <2>11. OutInv'
    BY <1>1, <1>5, <1>6, <1>7, <1>9, <2>7 DEF OutInv, InPart
  <2>12. KeptInv'
    BY <1>1, <1>6, <1>9, <2>2, <2>8 DEF KeptInv
  <2>13. FlagInv'
    BY <1>1, <1>5, <1>7 DEF FlagInv, InPart
  <2>14. Stream!Emit
    <3>1. ~Stream!Complete
      BY <1>2, <1>3, <1>5, <2>8 DEF Stream!Complete
    <3>2. to \in Stream!covered .. input.insize
      BY <1>2, <1>3, <1>5, <2>8
    <3>3. IF input.insize = 0 THEN btype = 1 ELSE Stream!covered < to
      BY <1>2, <1>5, <2>8
    <3>4. out' = Append(out, [from |-> Stream!covered, to |-> to, btype |-> btype,
                              final |-> input.final /\ to = input.insize])
      BY <2>1, <2>4, <2>8
    <3>5. (pc = "done")' \in {FALSE, to = input.insize}
      BY <1>1
    <3>. QED  BY <1>1, <2>3, <3>1, <3>2, <3>3, <3>4, <3>5 DEF Stream!Emit
  <2>. QED  BY <2>9, <2>10, <2>11, <2>12, <2>13, <2>14 DEF Stream!Next
<1>. QED  BY <1>8, <1>9

LEMMA StutterInv ==
  ASSUME IInv, UNCHANGED vars
  PROVE  IInv' /\ UNCHANGED Stream!vars
<1>. USE DEF IInv
<1>1. UNCHANGED <<input, pc, i, mode, it, cache, costmodelnotinited, st, splitpoints, k, stores,
                  lf, held, out>>
  BY DEF vars, pass, kept
<1>2. /\ size' = size /\ from' = from /\ Keeps' = Keeps /\ UsesKept' = UsesKept
      /\ Stream!covered' = Stream!covered
  BY <1>1 DEF size, masterfinal, msize, from, PieceStart, Keeps, UsesKept, Stream!covered
<1>3. TypeOK' /\ LoopInv' /\ PieceInv' /\ OutInv'
  BY <1>1, <1>2 DEF TypeOK, LoopInv, PieceInv, OutInv, InPart
<1>4. KeptInv' /\ FlagInv'
  BY <1>1, <1>2 DEF KeptInv, FlagInv, InPart
<1>. QED  BY <1>1, <1>3, <1>4, Unseen

\* Every step preserves the invariant and is a step of the stream, or none.
LEMMA StepInv ==
  ASSUME IInv, [Next]_vars
  PROVE  IInv' /\ [Stream!Next]_(Stream!vars)
BY EmptyInputInv, NextPartInv, EndOfInputInv, SplitInv, DeflateDynamicBlockInv, ConcatenateInv,
   NextPassInv, EndPartInv, StutterInv DEF Next, Stopped, Stream!Next
-----------------------------------------------------------------------------
(* The statistics: how far the blocks that are done reach, and where the one   *)
(* lies that has left its statistics in st.                                    *)
Reached == IF pc = "block" /\ ~Keeps THEN from
           ELSE IF pc = "passed" /\ ~Keeps THEN i + size ELSE i

OrderInv ==
  /\ \A n \in 1 .. Len(out) : /\ out[n].to <= Reached
                              /\ pc # "done" => out[n].from < Reached
  /\ pc = "block" => \A n \in 1 .. Len(stores) : stores[n].to <= from

\* a large block is done in this pass
Here == \E b \in Optimised : IsLarge(b) /\ i <= b.from

StInv ==
  /\ st = NoBlock \/ IsLarge(st)
  /\ \A b \in Optimised : IsLarge(b) => b.to <= st.to
  /\ pc = "part" => st.to <= i
  /\ InPart => st.to <= i + size
  /\ pc = "split" /\ ~UsesKept => st.to <= i
  /\ pc = "block" /\ (~UsesKept \/ Here) => st.to <= from

SeedInv == OrderInv /\ (input.once \/ input.reuse => StInv)

\* The blocks are those written and those kept.
LEMMA OptimisedFacts ==
  ASSUME TypeOK
  PROVE  /\ \A b \in Optimised : b.from \in Nat /\ b.to \in Nat
         /\ \A n \in 1 .. Len(out) : out[n] \in Optimised
         /\ \A n \in 1 .. Len(stores) : stores[n] \in Optimised
<1>1. /\ \A n \in 1 .. Len(out) : out[n].from \in Nat /\ out[n].to \in Nat
      /\ \A n \in 1 .. Len(stores) : stores[n].from \in Nat /\ stores[n].to \in Nat
  <2>1. out \in Seq(Blocks) /\ stores \in Seq(Ranges)
    BY Numbers
  <2>2. /\ \A n \in 1 .. Len(out) : out[n] \in Blocks
        /\ \A n \in 1 .. Len(stores) : stores[n] \in Ranges
    BY <2>1, ElementOfSeq
  <2>. QED  BY <2>2 DEF Blocks, Ranges
<1>. QED  BY <1>1 DEF Optimised

\* The steps between the blocks leave st and the blocks that are done alone, or
\* let go of kept ones.
LEMMA SeedOther ==
  ASSUME IInv, SeedInv, IInv',
         NextPart \/ EndOfInput \/ Split \/ NextPass \/ EndPart \/ Concatenate \/ UNCHANGED vars
  PROVE  SeedInv'
<1>1. UNCHANGED <<input, st, out>>
  BY DEF NextPart, EndOfInput, Split, NextPass, EndPart, Concatenate, vars, pass, kept
<1>2. Optimised' \subseteq Optimised
  <2>1. stores' = stores \/ stores' = <<>> \/ (stores # <<>> /\ stores' = Tail(stores))
    <3>1. CASE Concatenate
      BY <3>1 DEF Concatenate, IInv, KeptInv
    <3>2. CASE NextPart \/ EndOfInput \/ Split \/ NextPass \/ EndPart \/ UNCHANGED vars
      BY <3>2 DEF NextPart, EndOfInput, Split, NextPass, EndPart, vars, pass, kept
    <3>. QED  BY <3>1, <3>2
  <2>2. \A n \in 1 .. Len(stores') : stores'[n] \in {stores[m] : m \in 1 .. Len(stores)}
    <3>1. CASE stores' = stores
      BY <3>1
    <3>2. CASE stores' = <<>>
      BY <3>2
    <3>3. CASE stores # <<>> /\ stores' = Tail(stores)
      <4>1. /\ stores \in Seq(Ranges) /\ Len(stores) \in Nat
        BY Numbers DEF IInv
      <4>2. /\ Len(stores') = Len(stores) - 1
            /\ \A n \in 1 .. Len(stores) - 1 : stores'[n] = stores[n + 1]
        BY <3>3, <4>1, HeadTailProperties
      <4>. QED  BY <4>1, <4>2
    <3>. QED  BY <2>1, <3>1, <3>2, <3>3
  <2>. QED  BY <1>1, <2>2 DEF Optimised
<1>3. /\ i \in Nat /\ i' \in Nat /\ size \in Nat
      /\ \A b \in Optimised : b.from \in Nat /\ b.to \in Nat
      /\ st.to \in Nat
  <2>1. i < input.insize => size \in Nat
    BY PartSize DEF IInv
  <2>2. size \in Nat
    BY <2>1, Numbers, MasterAssumption DEF IInv, size, masterfinal, msize
  <2>. QED  BY <2>2, Numbers, OptimisedFacts DEF IInv, TypeOK
<1>4. \A b : (IsLarge(b) <=> IsLarge(b)') /\ (NoBlock = NoBlock')
  BY <1>1 DEF IsLarge, NoBlock
<1>5. ASSUME StInv PROVE /\ st' = NoBlock' \/ IsLarge(st)'
                         /\ \A b \in Optimised' : IsLarge(b)' => b.to <= st'.to
  BY <1>1, <1>2, <1>4, <1>5 DEF StInv
<1>6. CASE NextPart
  <2>1. pc = "part" /\ pc' = "split" /\ i' = i /\ Reached = i /\ Reached' = i /\ mode' \in {0, 1}
    BY <1>6 DEF NextPart, Reached
  <2>2. size' = size
    BY <1>1, <2>1 DEF size, masterfinal, msize
  <2>3. OrderInv'
    BY <1>1, <2>1 DEF SeedInv, OrderInv
  <2>4. StInv => StInv'
    BY <1>1, <1>3, <1>5, <2>1, <2>2 DEF StInv, InPart
  <2>. QED  BY <1>1, <2>3, <2>4 DEF SeedInv
<1>7. CASE EndOfInput
  <2>1. pc = "part" /\ pc' = "done" /\ i' = i /\ Reached = i /\ Reached' = i
    BY <1>7 DEF EndOfInput, Reached
  <2>2. OrderInv'
    BY <1>1, <2>1 DEF SeedInv, OrderInv
  <2>3. StInv => StInv'
    BY <1>5, <2>1 DEF StInv, InPart
  <2>. QED  BY <1>1, <2>2, <2>3 DEF SeedInv
<1>8. CASE Split
  <2>1. /\ pc = "split" /\ pc' = "block" /\ i' = i /\ Reached = i /\ from' = i /\ stores' = <<>>
        /\ mode' = mode
    BY <1>8 DEF Split, Reached, from, PieceStart, pass
  <2>2. size' = size /\ (UsesKept' <=> UsesKept) /\ Reached' = i
    BY <1>1, <2>1 DEF size, masterfinal, msize, UsesKept, Reached, Keeps
  <2>3. OrderInv'
    BY <1>1, <2>1, <2>2 DEF SeedInv, OrderInv
  <2>4. ~Here'
    <3>1. ASSUME NEW b \in Optimised' PROVE b.from < i
      <4>1. PICK n \in 1 .. Len(out) : b = out[n]
        BY <1>1, <2>1, <3>1 DEF Optimised
      <4>. QED  BY <2>1, <4>1 DEF SeedInv, OrderInv
    <3>. QED  BY <1>2, <1>3, <2>1, <3>1 DEF Here
  <2>5. StInv => StInv'
    BY <1>1, <1>3, <1>5, <2>1, <2>2, <2>4 DEF StInv, InPart
  <2>. QED  BY <1>1, <2>3, <2>5 DEF SeedInv
<1>9. CASE NextPass
  <2>1. pc = "passed" /\ pc' = "split" /\ i' = i /\ mode # 0 /\ mode' = Mode(NextIt)
        /\ NextIt < input.twice
    BY <1>9 DEF NextPass
  <2>2. Keeps
    BY <2>1, Numbers DEF IInv, LoopInv, InPart, NextIt, Keeps, TypeOK
  <2>3. size' = size /\ Reached = i /\ Reached' = i /\ UsesKept'
    BY <1>1, <2>1, <2>2 DEF size, masterfinal, msize, Reached, UsesKept, Mode
  <2>4. OrderInv'
    BY <1>1, <2>1, <2>3 DEF SeedInv, OrderInv
  <2>5. StInv => StInv'
    BY <1>1, <1>5, <2>1, <2>3 DEF StInv, InPart
  <2>. QED  BY <1>1, <2>4, <2>5 DEF SeedInv
<1>10. CASE EndPart
  <2>1. /\ pc = "passed" /\ pc' = "part" /\ i' = i + size /\ (mode = 0 \/ NextIt >= input.twice)
    BY <1>10 DEF EndPart
  <2>2. ~Keeps
    <3>1. /\ mode = 0 <=> input.twice = 0
          /\ mode = 3 => it + 1 < input.twice
          /\ input.twice \in Nat /\ it \in Nat
      BY <2>1, Numbers DEF IInv, LoopInv, InPart
    <3>2. mode # 1
      BY <2>1, <3>1 DEF NextIt
    <3>3. mode # 3
      BY <2>1, <3>1 DEF NextIt
    <3>. QED  BY <3>2, <3>3 DEF Keeps
  <2>3. Reached = i + size /\ Reached' = i + size
    BY <2>1, <2>2 DEF Reached
  <2>4. OrderInv'
    BY <1>1, <2>1, <2>3 DEF SeedInv, OrderInv
  <2>5. StInv => StInv'
    BY <1>1, <1>5, <2>1 DEF StInv, InPart
  <2>. QED  BY <1>1, <2>4, <2>5 DEF SeedInv
<1>11. CASE Concatenate
  <2>1. pc = "concat" /\ pc' \in {"concat", "passed"} /\ i' = i /\ mode' = mode
    BY <1>11 DEF Concatenate, pass
  <2>2. Keeps
    BY <2>1 DEF IInv, LoopInv
  <2>3. size' = size /\ Reached = i /\ Reached' = i
    BY <1>1, <2>1, <2>2 DEF size, masterfinal, msize, Reached, Keeps
  <2>4. OrderInv'
    BY <1>1, <2>1, <2>3 DEF SeedInv, OrderInv
  <2>5. StInv => StInv'
    BY <1>1, <1>5, <2>1, <2>3 DEF StInv, InPart
  <2>. QED  BY <1>1, <2>4, <2>5 DEF SeedInv
<1>12. CASE UNCHANGED vars
  <2>1. UNCHANGED <<pc, i, mode, splitpoints, k, stores>>
    BY <1>12 DEF vars, pass, kept
  <2>2. size' = size /\ Reached' = Reached /\ from' = from /\ (UsesKept' <=> UsesKept)
    BY <1>1, <2>1 DEF size, masterfinal, msize, Reached, Keeps, from, PieceStart, UsesKept
  <2>3. OrderInv'
    BY <1>1, <2>1, <2>2 DEF SeedInv, OrderInv
  <2>4. Optimised' = Optimised /\ (Here' <=> Here)
    BY <1>1, <2>1 DEF Optimised, Here, IsLarge
  <2>5. StInv => StInv'
    BY <1>1, <1>5, <2>1, <2>2, <2>4 DEF StInv, InPart
  <2>. QED  BY <1>1, <2>3, <2>5 DEF SeedInv
<1>. QED  BY <1>6, <1>7, <1>8, <1>9, <1>10, <1>11, <1>12

\* The elements of a sequence that got one more.
LEMMA Appended ==
  ASSUME NEW S, NEW s \in Seq(S), NEW e
  PROVE  \A n \in 1 .. Len(Append(s, e)) :
           (n \in 1 .. Len(s) /\ Append(s, e)[n] = s[n]) \/ Append(s, e)[n] = e
<1>1. s \in Seq(S \cup {e})
  BY SeqMonotonic
<1>2. /\ Len(Append(s, e)) = Len(s) + 1 /\ Len(s) \in Nat
      /\ \A n \in 1 .. Len(s) : Append(s, e)[n] = s[n]
      /\ Append(s, e)[Len(s) + 1] = e
  BY <1>1, AppendProperties, LenProperties
<1>. QED  BY <1>2

\* A block that is large leaves its own statistics, and ends behind all that are
\* done; one that is not leaves everything as it was.
LEMMA SeedBlock ==
  ASSUME IInv, SeedInv, IInv', DeflateDynamicBlock
  PROVE  SeedInv'
<1>. DEFINE new == [from |-> from, to |-> to]
<1>1. /\ pc = "block" /\ k' = k + 1 /\ st' = Statistics
      /\ pc' = (IF ~IsLast THEN "block" ELSE IF Keeps THEN "concat" ELSE "passed")
      /\ UNCHANGED <<input, i, mode, splitpoints>>
  BY DEF DeflateDynamicBlock, pass
<1>2. /\ i \in Nat /\ k \in Nat /\ Len(splitpoints) \in Nat /\ size \in Nat
      /\ from \in Nat /\ to \in Nat /\ i <= from /\ from < to /\ to <= i + size
      /\ IsLast <=> to = i + size
      /\ input.skipdynamic \in Nat
  BY <1>1, Numbers, PartSize, PieceFacts DEF IInv, LoopInv, InPart, PieceInv
<1>3. /\ size' = size /\ (Keeps' <=> Keeps) /\ (UsesKept' <=> UsesKept)
      /\ ~IsLast => from' = to
  <2>1. k' # 0 /\ k' = k + 1
    BY <1>1, <1>2
  <2>. QED  BY <1>1, <2>1 DEF Keeps, UsesKept, size, masterfinal, msize, from, to, IsLast,
                              PieceStart, PieceEnd
<1>4. Reached' = IF Keeps THEN i ELSE to
  BY <1>1, <1>2, <1>3 DEF Reached
<1>5. \E e : /\ e.from = from /\ e.to = to
             /\ \/ Keeps /\ stores' = Append(stores, e) /\ out' = out
                \/ ~Keeps /\ out' = Append(out, e) /\ stores' = stores
  <2>1. CASE Keeps
    <3>1. stores' = Append(stores, new) /\ out' = out
      BY <2>1 DEF DeflateDynamicBlock
    <3>. QED  BY <2>1, <3>1
  <2>2. CASE ~Keeps
    <3>1. PICK btype \in Encodings :
            out' = Append(out, [from |-> from, to |-> to, btype |-> btype, final |-> final])
            /\ stores' = stores
      BY <2>2 DEF DeflateDynamicBlock
    <3>. QED  BY <2>2, <3>1
  <2>. QED  BY <2>1, <2>2
<1>6. PICK e : /\ e.from = from /\ e.to = to
               /\ \/ Keeps /\ stores' = Append(stores, e) /\ out' = out
                  \/ ~Keeps /\ out' = Append(out, e) /\ stores' = stores
  BY <1>5
<1>7. /\ out \in Seq(Blocks) /\ stores \in Seq(Ranges) /\ Len(out) \in Nat /\ Len(stores) \in Nat
  BY Numbers, LenProperties, ElementOfSeq DEF IInv
<1>8. /\ \A n \in 1 .. Len(out') : (n \in 1 .. Len(out) /\ out'[n] = out[n])
                                   \/ (~Keeps /\ out'[n] = e)
      /\ \A n \in 1 .. Len(stores') : (n \in 1 .. Len(stores) /\ stores'[n] = stores[n])
                                      \/ (Keeps /\ stores'[n] = e)
  <2>1. CASE Keeps
    <3>1. /\ stores' = Append(stores, e) /\ out' = out
      BY <1>6, <2>1
    <3>. QED  BY <1>7, <2>1, <3>1, Appended
  <2>2. CASE ~Keeps
    <3>1. /\ out' = Append(out, e) /\ stores' = stores
      BY <1>6, <2>2
    <3>. QED  BY <1>7, <2>2, <3>1, Appended
  <2>. QED  BY <2>1, <2>2
<1>9. /\ \A n \in 1 .. Len(out) : out[n].to \in Nat /\ out[n].to <= from /\ out[n].from < from
                                 /\ (Keeps => out[n].to <= i /\ out[n].from < i)
      /\ \A n \in 1 .. Len(stores) : stores[n].to \in Nat /\ stores[n].to <= from
  <2>1. /\ \A n \in 1 .. Len(out) : out[n].to \in Nat /\ out[n].from \in Nat
        /\ \A n \in 1 .. Len(stores) : stores[n].to \in Nat
    BY OptimisedFacts DEF IInv
  <2>2. Reached = IF Keeps THEN i ELSE from
    BY <1>1 DEF Reached
  <2>. QED  BY <1>1, <1>2, <2>1, <2>2 DEF SeedInv, OrderInv
<1>10. pc' \in {"block", "concat", "passed"} /\ (pc' = "block" => from' = to)
  BY <1>1, <1>3
<1>11. OrderInv'
  <2>1. ASSUME NEW n \in 1 .. Len(out')
        PROVE  out'[n].to <= Reached' /\ out'[n].from < Reached'
    <3>1. CASE n \in 1 .. Len(out) /\ out'[n] = out[n]
      <4>1. out[n].to \in Nat /\ out[n].from \in Nat
        BY <3>1, OptimisedFacts DEF IInv
      <4>. QED  BY <1>2, <1>4, <1>9, <3>1, <4>1
    <3>2. CASE ~Keeps /\ out'[n] = e
      BY <1>2, <1>4, <1>6, <3>2
    <3>. QED  BY <1>8, <3>1, <3>2
  <2>2. ASSUME NEW n \in 1 .. Len(stores')
        PROVE  stores'[n].to <= to
    <3>1. CASE n \in 1 .. Len(stores) /\ stores'[n] = stores[n]
      BY <1>2, <1>9, <3>1
    <3>2. CASE Keeps /\ stores'[n] = e
      BY <1>2, <1>6, <3>2
    <3>. QED  BY <1>8, <3>1, <3>2
  <2>. QED  BY <1>10, <2>1, <2>2 DEF OrderInv
<1>12. \A b \in Optimised' : b = e \/ (b \in Optimised /\ b.to <= from)
  BY <1>8, <1>9 DEF Optimised
<1>13. \A b : (IsLarge(b)' <=> IsLarge(b)) /\ NoBlock' = NoBlock
  BY <1>1 DEF IsLarge, NoBlock
<1>14. \A b \in Optimised : b.to \in Nat
  BY OptimisedFacts DEF IInv
<1>15. ASSUME input.once \/ input.reuse, StInv PROVE StInv'
  <2>1. CASE to - from > input.skipdynamic
    <3>1. st' = new /\ st'.from = from /\ st'.to = to
      BY <1>1, <1>15, <2>1 DEF Statistics
    <3>2. IsLarge(st)'
      BY <1>13, <2>1, <3>1 DEF IsLarge
    <3>3. \A b \in Optimised' : b.to <= st'.to
      BY <1>2, <1>6, <1>12, <1>14, <3>1
    <3>4. st'.to <= i + size
      BY <1>2, <3>1
    <3>. QED  BY <1>1, <1>2, <1>3, <1>10, <3>1, <3>2, <3>3, <3>4 DEF StInv, InPart
  <2>2. CASE ~(to - from > input.skipdynamic)
    <3>1. st' = st /\ ~IsLarge(e)
      BY <1>1, <1>6, <2>2 DEF Statistics, IsLarge
    <3>2. \A b \in Optimised' : IsLarge(b) => b \in Optimised
      BY <1>12, <3>1
    <3>3. st' = NoBlock' \/ IsLarge(st)'
      BY <1>13, <1>15, <3>1 DEF StInv
    <3>4. \A b \in Optimised' : IsLarge(b)' => b.to <= st'.to
      BY <1>13, <1>15, <3>1, <3>2 DEF StInv
    <3>5. Here' => Here
      BY <1>1, <1>13, <3>2 DEF Here
    <3>6. st.to \in Nat /\ st.to <= i + size /\ (~UsesKept \/ Here => st.to <= from)
      BY <1>1, <1>15 DEF StInv, InPart, IInv, TypeOK
    <3>7. pc' = "block" /\ (~UsesKept' \/ Here') => st'.to <= from'
      BY <1>2, <1>3, <1>10, <3>1, <3>5, <3>6
    <3>. QED  BY <1>1, <1>3, <1>10, <3>1, <3>3, <3>4, <3>6, <3>7 DEF StInv, InPart
  <2>. QED  BY <2>1, <2>2
<1>. QED  BY <1>1, <1>11, <1>15 DEF SeedInv

\* An empty input gets one small block.
LEMMA SeedEmpty ==
  ASSUME IInv, SeedInv, IInv', EmptyInput
  PROVE  SeedInv'
<1>. DEFINE e == [from |-> 0, to |-> 0, btype |-> 1, final |-> input.final]
<1>1. /\ pc = "part" /\ pc' = "done" /\ out' = Append(out, e) /\ UNCHANGED <<input, i, st, stores>>
  BY DEF EmptyInput, kept
<1>. HIDE DEF e
<1>2. e.from = 0 /\ e.to = 0 /\ i \in Nat /\ input.skipdynamic \in Nat
  BY Numbers DEF IInv, e
<1>3. out \in Seq(Blocks) /\ stores \in Seq(Ranges)
  BY Numbers DEF IInv
<1>4. \A n \in 1 .. Len(out') : (n \in 1 .. Len(out) /\ out'[n] = out[n]) \/ out'[n] = e
  BY <1>1, <1>3, Appended
<1>5. Reached = i /\ Reached' = i
  BY <1>1 DEF Reached
<1>6. OrderInv'
  BY <1>1, <1>2, <1>4, <1>5 DEF SeedInv, OrderInv
<1>7. \A b : (IsLarge(b)' <=> IsLarge(b)) /\ NoBlock' = NoBlock
  BY <1>1 DEF IsLarge, NoBlock
<1>8. \A b \in Optimised' : IsLarge(b) => b \in Optimised
  <2>1. ~IsLarge(e)
    BY <1>2 DEF IsLarge
  <2>. QED  BY <1>1, <1>4, <2>1 DEF Optimised
<1>9. StInv => StInv'
  BY <1>1, <1>7, <1>8 DEF StInv, InPart
<1>. QED  BY <1>1, <1>6, <1>9 DEF SeedInv

LEMMA SeedStep ==
  ASSUME IInv, SeedInv, IInv', [Next]_vars
  PROVE  SeedInv'
BY SeedOther, SeedBlock, SeedEmpty DEF Next, Stopped
-----------------------------------------------------------------------------
\* until the input is covered there is no final bit
FinalInv == \A a \in 1 .. Len(out) :
  /\ a < Len(out) => out[a].final = FALSE
  /\ a = Len(out) => out[a].final = (input.final /\ Stream!Complete)

StreamInv == Stream!TypeOK /\ Stream!InOrder /\ FinalInv /\ Stream!Whole

\* Whatever a stream promises to do keeps what a decoder relies on.
LEMMA StreamStep ==
  ASSUME StreamInv, [Stream!Next]_(Stream!vars)
  PROVE  StreamInv'
<1>1. ASSUME StreamInv, Stream!Emit PROVE StreamInv'
  <2>1. /\ input.insize \in Nat /\ input.final \in BOOLEAN /\ out \in Seq(Blocks)
        /\ Stream!covered \in 0 .. input.insize /\ ~Stream!Complete /\ input' = input
    BY <1>1 DEF StreamInv, Stream!TypeOK, Stream!Emit, Blocks
  <2>2. PICK till \in Stream!covered .. input.insize, btype \in {1, 2} :
          /\ IF input.insize = 0 THEN btype = 1 ELSE Stream!covered < till
          /\ out' = Append(out, [from |-> Stream!covered, to |-> till, btype |-> btype,
                                       final |-> input.final /\ till = input.insize])
          /\ (pc = "done")' \in {FALSE, till = input.insize}
    BY <1>1 DEF Stream!Emit
  <2>. DEFINE bit == input.final /\ till = input.insize
              new == [from |-> Stream!covered, to |-> till, btype |-> btype, final |-> bit]
  <2>3. bit \in BOOLEAN /\ till \in Nat /\ Stream!covered \in Nat
    BY <2>1
  <2>. HIDE DEF bit
  <2>4. new \in Blocks
    BY <2>3 DEF Blocks
  <2>5. out' = Append(out, new)
    BY <2>2 DEF bit
  <2>. HIDE DEF new
  <2>6. /\ out' \in Seq(Blocks) /\ Len(out') = Len(out) + 1 /\ Len(out) \in Nat
        /\ \A a \in 1 .. Len(out) : out'[a] = out[a]
        /\ out'[Len(out) + 1] = new
    BY <2>1, <2>4, <2>5, AppendProperties, LenProperties, ElementOfSeq
  <2>7. out' # <<>> /\ (out = <<>> <=> Len(out) = 0)
    BY <2>1, <2>6, EmptySeq
  <2>8. new.from = Stream!covered /\ new.to = till /\ new.final = bit
    BY DEF new
  <2>9. Stream!covered' = till
    BY <2>6, <2>7, <2>8 DEF Stream!covered
  <2>10. Stream!Complete' = (till = input.insize)
    BY <2>1, <2>7, <2>9 DEF Stream!Complete
  <2>11. Stream!TypeOK'
    <3>1. (pc = "done")' \in BOOLEAN
      BY <2>2
    <3>. QED  BY <2>1, <2>2, <2>3, <2>6, <2>9, <3>1 DEF Stream!TypeOK, Blocks
  <2>12. \A a \in 1 .. Len(out') : a \in 1 .. Len(out) \/ a = Len(out) + 1
    BY <2>6
  <2>13. Stream!InOrder'
    <3>1. ASSUME NEW a \in 1 .. Len(out)
          PROVE  out'[a].from = IF a = 1 THEN 0 ELSE out'[a - 1].to
      <4>1. a # 1 => a - 1 \in 1 .. Len(out)
        BY <2>6
      <4>2. out[a].from = IF a = 1 THEN 0 ELSE out[a - 1].to
        BY <1>1 DEF StreamInv, Stream!InOrder
      <4>3. CASE a = 1
        BY <2>6, <4>2, <4>3
      <4>4. CASE a # 1
        BY <2>6, <4>1, <4>2, <4>4
      <4>. QED  BY <4>3, <4>4
    <3>2. new.from = IF Len(out) + 1 = 1 THEN 0 ELSE out'[Len(out) + 1 - 1].to
      <4>1. CASE out = <<>>
        BY <2>6, <2>7, <2>8, <4>1 DEF Stream!covered
      <4>2. CASE out # <<>>
        <5>1. Len(out) \in 1 .. Len(out) /\ Len(out) + 1 # 1
              /\ Len(out) + 1 - 1 = Len(out)
          BY <2>6, <2>7, <4>2
        <5>. QED  BY <2>6, <2>8, <4>2, <5>1 DEF Stream!covered
      <4>. QED  BY <4>1, <4>2
    <3>. QED  BY <2>6, <2>12, <3>1, <3>2 DEF Stream!InOrder
  <2>14. FinalInv'
    <3>1. ASSUME NEW a \in 1 .. Len(out)
          PROVE  out[a].final = FALSE
      <4>1. a < Len(out) \/ a = Len(out)
        BY <2>6
      <4>2. /\ a < Len(out) => out[a].final = FALSE
            /\ a = Len(out) => out[a].final = (input.final /\ Stream!Complete)
        BY <1>1 DEF StreamInv, FinalInv
      <4>. QED  BY <2>1, <4>1, <4>2
    <3>2. ASSUME NEW a \in 1 .. Len(out')
          PROVE  /\ a < Len(out') => out'[a].final = FALSE
                 /\ a = Len(out') => out'[a].final = (input'.final /\ Stream!Complete')
      <4>1. CASE a \in 1 .. Len(out)
        <5>1. a # Len(out')
          BY <2>6, <4>1
        <5>. QED  BY <2>6, <3>1, <4>1, <5>1
      <4>2. CASE a = Len(out) + 1
        <5>1. out'[a].final = bit /\ a = Len(out') /\ ~(a < Len(out'))
          BY <2>6, <2>8, <4>2
        <5>2. bit = (input'.final /\ Stream!Complete')
          BY <2>1, <2>10 DEF bit
        <5>. QED  BY <5>1, <5>2
      <4>. QED  BY <2>12, <4>1, <4>2
    <3>. QED  BY <3>2 DEF FinalInv
  <2>15. Stream!Whole'
    BY <2>2, <2>10 DEF Stream!Whole
  <2>. QED  BY <2>11, <2>13, <2>14, <2>15 DEF StreamInv
<1>2. ASSUME StreamInv, Stream!Return PROVE StreamInv'
  <2>1. /\ Stream!Complete /\ (pc = "done")' = TRUE /\ UNCHANGED <<input, out>>
    BY <1>2 DEF Stream!Return
  <2>2. Stream!TypeOK' /\ Stream!InOrder' /\ FinalInv'
    BY <1>2, <2>1 DEF StreamInv, Stream!TypeOK, Stream!InOrder, FinalInv, Stream!Complete, Stream!covered
  <2>3. Stream!Whole'
    BY <2>1 DEF Stream!Whole, Stream!Complete, Stream!covered
  <2>. QED  BY <2>2, <2>3 DEF StreamInv
<1>3. ASSUME StreamInv, UNCHANGED Stream!vars PROVE StreamInv'
  BY <1>3 DEF StreamInv, Stream!TypeOK, Stream!InOrder, FinalInv, Stream!Whole, Stream!Complete, Stream!covered, Stream!vars
<1>. QED  BY <1>1, <1>2, <1>3 DEF Stream!Next
-----------------------------------------------------------------------------
\* The invariant the other theorems rest on.
THEOREM Invariant == Spec => []IInv
BY InitInv, StepInv, PTL DEF Spec

\* The counters, ranges and flags keep to their types.
THEOREM TypeCorrect == Spec => []TypeOK
BY Invariant, PTL DEF IInv

\* Parts and passes together write a deflate stream of the input: every byte in
\* one block, in order, with the final bit on the last block only.
THEOREM WritesDeflateStream == Spec => WritesStream
<1>1. Init => Stream!Init
  BY DEF Init, Stream!Init
<1>. QED  BY <1>1, Invariant, StepInv, PTL DEF Spec, WritesStream, Stream!Spec

\* A pass that splits by the entries of the pass before it finds them allocated
\* and covering its part, and no pass leaves them allocated behind.
THEOREM KeptEntries == Spec => []KeptIsPart
<1>1. IInv => KeptIsPart
  BY DEF IInv, KeptInv, KeptIsPart
<1>. QED  BY <1>1, Invariant, PTL

\* The statistics a block is optimised with were left by a large block of this
\* input, or by none while no block was large: in the first pass over a part, and
\* once a block of the pass was large, by one before it, never by one that lies
\* before a large block that is done; only the first block of all, in every pass,
\* is told that there are none.
THEOREM StatisticsInOrder == Spec => []SeededInOrder
<1>1. Init => SeedInv
  <2>. SUFFICES ASSUME Init PROVE SeedInv
    OBVIOUS
  <2>1. pc = "part" /\ i = 0 /\ out = <<>> /\ stores = <<>> /\ st = NoBlock
    BY DEF Init
  <2>2. Optimised = {} /\ Len(out) = 0
    BY <2>1 DEF Optimised
  <2>. QED  BY <2>1, <2>2 DEF SeedInv, OrderInv, StInv, InPart, NoBlock
<1>2. IInv /\ SeedInv /\ [Next]_vars => SeedInv'
  BY StepInv, SeedStep
<1>3. IInv /\ SeedInv => SeededInOrder
  <2>. SUFFICES ASSUME IInv, SeedInv, pc = "block"
       PROVE  SeededInOrder
    BY DEF SeededInOrder
  <2>1. costmodelnotinited <=> from = 0
    BY DEF IInv, FlagInv, TypeOK
  <2>2. input.once \/ input.reuse => StInv /\ InPart
    BY DEF SeedInv, InPart
  <2>. QED  BY <2>1, <2>2 DEF SeededInOrder, StInv, Here
<1>. QED  BY <1>1, <1>2, <1>3, Invariant, StepInv, PTL DEF Spec

\* A decoder that reads what is written, block after block, sees the whole input
\* in order, and it meets the final bit exactly when the input ends, if the caller
\* asked for it; when the call returns the input is whole.
THEOREM Decodable == Spec => [](Stream!InOrder /\ Stream!FinalIsLast /\ Stream!Whole)
<1>1. ASSUME Init PROVE StreamInv
  <2>1. /\ input.insize \in Nat /\ input.final \in BOOLEAN /\ out = <<>> /\ Len(out) = 0
        /\ (pc = "done") = FALSE
    BY <1>1, RequestsAssumption DEF Init, IsRequest
  <2>2. out \in Seq(Blocks)
    BY <2>1
  <2>. QED  BY <2>1, <2>2 DEF StreamInv, Stream!TypeOK, Stream!InOrder, FinalInv, Stream!Whole,
                            Stream!covered, Blocks
<1>2. ASSUME StreamInv PROVE Stream!FinalIsLast
  <2>1. input.final \in BOOLEAN /\ out \in Seq(Blocks)
    BY <1>2 DEF StreamInv, Stream!TypeOK, Blocks
  <2>2. Len(out) \in Nat
    BY <2>1, LenProperties, ElementOfSeq
  <2>3. ASSUME NEW a \in 1 .. Len(out)
        PROVE  /\ out[a].final => a = Len(out) /\ Stream!Complete
               /\ a = Len(out) /\ Stream!Complete /\ input.final => out[a].final
    <3>1. a < Len(out) \/ a = Len(out)
      BY <2>2
    <3>2. CASE a < Len(out)
      <4>1. out[a].final = FALSE /\ a # Len(out)
        BY <1>2, <2>2, <3>2 DEF StreamInv, FinalInv
      <4>. QED  BY <4>1
    <3>3. CASE a = Len(out)
      <4>1. out[a].final = (input.final /\ Stream!Complete)
        BY <1>2, <3>3 DEF StreamInv, FinalInv
      <4>. QED  BY <3>3, <4>1
    <3>. QED  BY <3>1, <3>2, <3>3
  <2>. QED  BY <2>3 DEF Stream!FinalIsLast
<1>3. StreamInv => Stream!InOrder /\ Stream!FinalIsLast /\ Stream!Whole
  BY <1>2 DEF StreamInv
<1>. QED  BY <1>1, <1>3, Invariant, StepInv, StreamStep, PTL DEF Spec
=============================================================================
