--------------------------- MODULE DeflateStream -----------------------------
(***************************************************************************)
(* What ZopfliDeflate promises, whatever blocks and passes it chooses: the *)
(* blocks of the stream hold the whole input, each byte once and in order, *)
(* and the last block of the input, and no other, carries the final bit if *)
(* the caller asked for it. It returns when that is done and not before.   *)
(***************************************************************************)
EXTENDS Integers, Sequences

CONSTANTS Inputs  \* records of the input's size and of the final flag

VARIABLES
  input,   \* never changes
  stream,  \* the blocks written so far
  returned \* to the caller

vars == <<input, stream, returned>>

covered == IF stream = <<>> THEN 0 ELSE stream[Len(stream)].to
Complete == stream # <<>> /\ covered = input.insize

Init == input \in Inputs /\ stream = <<>> /\ returned = FALSE

\* An empty input has one empty block, which needs no tree; other blocks are
\* not empty. The call may end with the last one.
Emit ==
  /\ ~Complete
  /\ \E to \in covered .. input.insize, btype \in {1, 2} :
       /\ IF input.insize = 0 THEN btype = 1 ELSE covered < to
       /\ stream' = Append(stream, [from |-> covered, to |-> to, btype |-> btype,
                                    final |-> input.final /\ to = input.insize])
       /\ returned' \in {FALSE, to = input.insize}
  /\ UNCHANGED input

Return ==
  /\ Complete
  /\ returned' = TRUE
  /\ UNCHANGED <<input, stream>>

Next == Emit \/ Return

Spec == Init /\ [][Next]_vars
-----------------------------------------------------------------------------
TypeOK ==
  /\ input.insize \in Nat /\ input.final \in BOOLEAN
  /\ stream \in Seq([from : Nat, to : Nat, btype : {1, 2}, final : BOOLEAN])
  /\ covered \in 0 .. input.insize
  /\ returned \in BOOLEAN

\* A decoder that reads block after block sees the input in order, and no two
\* blocks overlap.
InOrder == \A a \in 1 .. Len(stream) :
             stream[a].from = IF a = 1 THEN 0 ELSE stream[a - 1].to

\* A decoder stops at the end of the input and not before it.
FinalIsLast == \A a \in 1 .. Len(stream) :
  /\ stream[a].final => a = Len(stream) /\ Complete
  /\ a = Len(stream) /\ Complete /\ input.final => stream[a].final

\* The caller gets the stream of the whole input.
Whole == returned => Complete
=============================================================================
