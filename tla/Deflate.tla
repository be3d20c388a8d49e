------------------------------- MODULE Deflate -------------------------------
(***************************************************************************)
(* ZopfliDeflate and what it calls for a part and for a block (deflate.c). *)
(*                                                                         *)
(* The input is cut into master blocks ("parts"), every part is split, and *)
(* every piece becomes one deflate block.  With option twice a part is     *)
(* processed several times: a pass whose mode has bit 0 keeps the LZ77     *)
(* entries of its blocks instead of writing them, and a pass whose mode    *)
(* has bit 1 splits by the entries that the pass before it has kept.       *)
(*                                                                         *)
(* A store of LZ77 entries is the range of the input it covers.  Which     *)
(* split points come out of ZopfliBlockSplit is left open, to any that are *)
(* proper for what the store covers (module BlockSplit), and so is which   *)
(* of the two encodings is cheaper.                                        *)
(***************************************************************************)
EXTENDS Integers, Sequences, Partition

CONSTANTS
  Master,    \* ZOPFLI_MASTER_BLOCK_SIZE
  Requests   \* options, size and final flag of a call

IsRequest(r) ==
  /\ r.insize \in Nat /\ r.final \in BOOLEAN
  /\ {r.isPNG, r.once, r.reuse} \subseteq BOOLEAN  \* once: numiterations = 1
  /\ {r.twice, r.noblocksplit, r.skipdynamic, r.trystatic} \subseteq Nat

ASSUME MasterAssumption == Master \in Nat /\ Master >= 5
ASSUME RequestsAssumption == \A r \in Requests : IsRequest(r)

VARIABLES
  input,         \* the request, never changes
  pc,
  i,             \* where the part starts
  mode, it,      \* twiceMode, and the pass among those with bit 1
  costmodelnotinited, cache,
  st,            \* the block that has left its statistics in st of squeeze.c
  splitpoints, k, \* the pieces of this pass, and the next one
  stores,        \* the blocks that this pass keeps
  lf, held,      \* twiceStore: what its arrays cover, and whether they are allocated
  out            \* the blocks written

pass == <<mode, it, cache>>
kept == <<stores, lf, held>>
vars == <<input, pc, i, pass, costmodelnotinited, st, splitpoints, k, kept, out>>

msize == IF ~input.isPNG /\ input.once THEN Master \div 5 ELSE Master

masterfinal == i + msize >= input.insize
size == IF masterfinal THEN input.insize - i ELSE msize

Keeps == mode \in {1, 3}      \* twiceMode & 1
UsesKept == mode \in {2, 3}   \* twiceMode & 2

\* st holds what the program has started with, or an earlier input has left
NoBlock == [from |-> 0, to |-> 0]

Init ==
  /\ input \in Requests
  /\ pc = "part" /\ i = 0
  /\ mode = 0 /\ it = 0 /\ costmodelnotinited = TRUE /\ cache = TRUE /\ st = NoBlock
  /\ splitpoints = <<>> /\ k = 0
  /\ stores = <<>> /\ lf = <<>> /\ held = FALSE
  /\ out = <<>>

EmptyInput ==
  /\ pc = "part" /\ input.insize = 0
  /\ out' = Append(out, [from |-> 0, to |-> 0, btype |-> 1, final |-> input.final])
  /\ pc' = "done"
  /\ UNCHANGED <<input, i, pass, costmodelnotinited, st, splitpoints, k, kept>>

\* One turn of the loop over the parts, as far as the first pass.
NextPart ==
  /\ pc = "part" /\ i < input.insize
  /\ mode' = IF input.twice = 0 THEN 0 ELSE 1
  /\ it' = 0
  /\ cache' = costmodelnotinited
  /\ lf' = <<>> /\ held' = FALSE
  /\ pc' = "split"
  /\ UNCHANGED <<input, i, costmodelnotinited, st, splitpoints, k, stores, out>>

EndOfInput ==
  /\ pc = "part" /\ i >= input.insize /\ input.insize > 0
  /\ pc' = "done"
  /\ UNCHANGED <<input, i, pass, costmodelnotinited, st, splitpoints, k, kept, out>>
-----------------------------------------------------------------------------
(* DeflateSplittingFirst *)

\* the part as ZopfliBlockSplit sees it, which adds the lengths of the entries
\* of the store to instart; the greedy run covers the part
SeenEnd == IF UsesKept THEN (IF lf = <<>> THEN i ELSE lf[Len(lf)].to) ELSE i + size

\* ZopfliBlockSplit takes the arrays of twiceStore as its own and frees them.
Split ==
  /\ pc = "split"
  /\ \E s \in IF size < input.noblocksplit THEN {<<>>} ELSE Splits(i, SeenEnd) :
       splitpoints' = s
  /\ held' = (held /\ ~UsesKept)
  /\ k' = 0 /\ stores' = <<>>
  /\ pc' = "block"
  /\ UNCHANGED <<input, i, pass, costmodelnotinited, st, lf, out>>

from == PieceStart(splitpoints, i, k)
to == PieceEnd(splitpoints, i + size, k)
IsLast == k = Len(splitpoints)

\* final and final2 together
finalSlip == input.final /\ IsLast  \* slip: final2 is not used
final == input.final /\ masterfinal /\ IsLast

\* Small blocks get the fixed tree; others may, when that is not dearer.
Encodings ==
  IF to - from <= input.skipdynamic THEN {1}
  ELSE IF input.trystatic > 0 THEN {1, 2} ELSE {2}

StatisticsSlip ==  \* slip: only a block that had none leaves any
  IF to - from > input.skipdynamic /\ costmodelnotinited
    THEN [from |-> from, to |-> to] ELSE st
\* Only the search of a block with a tree of its own writes st, at its end.
Statistics ==
  IF to - from > input.skipdynamic /\ (input.once \/ input.reuse)
    THEN [from |-> from, to |-> to] ELSE st

DeflateDynamicBlock ==
  /\ pc = "block"
  /\ costmodelnotinited' = FALSE
  /\ st' = Statistics
  /\ \E btype \in Encodings :
       IF Keeps
         THEN /\ stores' = Append(stores, [from |-> from, to |-> to])
              /\ UNCHANGED out
         ELSE /\ out' = Append(out, [from |-> from, to |-> to, btype |-> btype, final |-> final])
              /\ UNCHANGED stores
  /\ k' = k + 1
  /\ lf' = IF IsLast /\ Keeps THEN <<>> ELSE lf
  /\ pc' = IF ~IsLast THEN "block" ELSE IF Keeps THEN "concat" ELSE "passed"
  /\ UNCHANGED <<input, i, pass, splitpoints, held>>

FirstSlip(s) == s[Len(s)]  \* slip: the stores are taken from the back
FirstKept(s) == s[1]

\* one store is copied behind the others and freed
Concatenate ==
  /\ pc = "concat"
  /\ lf' = Append(lf, FirstKept(stores))
  /\ held' = TRUE
  /\ stores' = Tail(stores)
  /\ pc' = IF stores' = <<>> THEN "passed" ELSE "concat"
  /\ UNCHANGED <<input, i, pass, costmodelnotinited, st, splitpoints, k, out>>
-----------------------------------------------------------------------------
Mode(n) == IF n # input.twice - 1 THEN 3 ELSE 2
NextIt == IF mode = 1 THEN 0 ELSE it + 1

\* the next pass over the part; the flag is put back, st is not
NextPass ==
  /\ pc = "passed" /\ mode # 0
  /\ NextIt < input.twice
  /\ it' = NextIt
  /\ mode' = Mode(it')
  /\ costmodelnotinited' = cache
  /\ pc' = "split"
  /\ UNCHANGED <<input, i, cache, st, splitpoints, k, kept, out>>

EndPart ==
  /\ pc = "passed"
  /\ mode = 0 \/ NextIt >= input.twice
  /\ i' = i + size
  /\ pc' = "part"
  /\ UNCHANGED <<input, pass, costmodelnotinited, st, splitpoints, k, kept, out>>

Stopped == pc = "done" /\ UNCHANGED vars

Next == EmptyInput \/ NextPart \/ EndOfInput \/ Split \/ DeflateDynamicBlock
        \/ Concatenate \/ NextPass \/ EndPart \/ Stopped

Spec == Init /\ [][Next]_vars
-----------------------------------------------------------------------------
TypeOK ==
  /\ IsRequest(input)
  /\ pc \in {"part", "split", "block", "concat", "passed", "done"}
  /\ i \in 0 .. input.insize
  /\ mode \in 0 .. 3 /\ it \in Nat
  /\ {costmodelnotinited, cache, held} \subseteq BOOLEAN
  /\ st \in [from : Nat, to : Nat]
  /\ splitpoints \in Seq(0 .. input.insize) /\ k \in 0 .. Len(splitpoints) + 1
  /\ stores \in Seq([from : Nat, to : Nat]) /\ lf \in Seq([from : Nat, to : Nat])
  /\ out \in Seq([from : Nat, to : Nat, btype : {1, 2}, final : BOOLEAN])

Stream == INSTANCE DeflateStream WITH stream <- out, returned <- (pc = "done"), Inputs <- Requests

\* The passes over the parts together write what a deflate stream promises:
\* the kept passes write nothing, no part is written twice, and none is left out.
WritesStream == Stream!Spec

Tiles(s, a, b) ==
  /\ s # <<>> /\ s[1].from = a /\ s[Len(s)].to = b
  /\ \A n \in 1 .. Len(s) : s[n].from < s[n].to
  /\ \A n \in 1 .. Len(s) - 1 : s[n].to = s[n + 1].from

\* A pass that splits by kept entries finds them allocated and covering its
\* part, no more and no less; and they are not left allocated behind.
KeptIsPart ==
  /\ pc = "split" /\ UsesKept => held /\ Tiles(lf, i, i + size)
  /\ pc \in {"part", "done"} => ~held /\ stores = <<>>

IsLarge(b) == b.to - b.from > input.skipdynamic

\* the blocks of the parts that are done and of this pass over this part
Optimised == {out[n] : n \in 1 .. Len(out)} \cup {stores[n] : n \in 1 .. Len(stores)}

\* Every block but the very first of the input, in every pass, counts as one
\* with statistics before it, so it starts from st (if it is large). What it
\* finds there was left by a large block, or by no block of this input when none
\* was large; never by one that lies before a large block that is done. In the
\* first pass over a part, and once a block of this pass was large, it was left by
\* a block before it; at the start of the other passes it is from the end of the
\* pass before, since the flag is put back but st is not.
SeededInOrder ==
  pc = "block" =>
    /\ costmodelnotinited <=> from = 0
    /\ input.once \/ input.reuse =>
         /\ st = NoBlock \/ IsLarge(st)
         /\ \A b \in Optimised : IsLarge(b) => b.to <= st.to
         /\ st.to <= IF ~UsesKept \/ \E b \in Optimised : IsLarge(b) /\ i <= b.from
                      THEN from ELSE i + size
=============================================================================
