------------------------------ MODULE PathTrace ------------------------------
(***************************************************************************)
(* From the shortest path to LZ77 entries (TraceBackwards and FollowPath,  *)
(* squeeze.c). A run leaves in length_array, for each position of the      *)
(* block, the step that reaches it most cheaply: a byte or a match, packed *)
(* in a number. TraceBackwards collects the steps from the end of the      *)
(* block back to its start, in memory that it lets grow, and FollowPath    *)
(* unpacks them in order.                                                  *)
(*                                                                         *)
(* path holds the positions whose steps were copied. Memory is never       *)
(* refused. The names are not those of Squeeze, which describes the run    *)
(* that leaves the steps, so that one module may be about both.            *)
(***************************************************************************)
EXTENDS MatchSizes, Sequences

CONSTANTS
  Spare,     \* 50 in the code
  Chunk,     \* 64 in the code, a multiple of the four entries written at once
  UIntMax,   \* the largest unsigned
  Blocks     \* blocks with the steps of their positions

MaxDist == 32768      \* a whole window
DistUnit == 512       \* a distance is packed above nine bits, a byte above 24
ByteUnit == 16777216
ShortSpan == 65536    \* the values of an unsigned short

\* a step that can end at position k
IsStep(s, k) ==
  \/ s.length = 1 /\ s.byte \in 0 .. 255 /\ k >= 1
  \/ s.length \in MinMatch .. MaxMatch /\ s.dist \in 1 .. MaxDist /\ s.length <= k

IsBlock(j) == /\ j.n \in Nat \ {0} /\ j.n <= UIntMax
              /\ \A k \in 1 .. j.n : IsStep(j.step[k], k)

ASSUME TraceAssumption ==
  /\ MaxMatch < DistUnit /\ Spare \in Nat \ {0} /\ Chunk \in Nat \ {0}
  /\ UIntMax \in Nat \ {0}
ASSUME BlocksAssumption == \A j \in Blocks : IsBlock(j)

VARIABLES
  block,      \* never changes
  loop,       \* the loop that is running
  size,       \* the position whose step comes next
  path,       \* pathsize is its length
  allocsize, space, endsize,
  item,       \* the step that FollowPath unpacks next
  store

tracevars == <<block, loop, size, path, allocsize, space, endsize, item, store>>
memory == <<allocsize, endsize>>
following == <<item, store>>

blocksize == block.n
Least(a, b) == IF a < b THEN a ELSE b

\* how GetBestLengths packs a step: 1U + (in[i] << 24) or curr + (dist << 9)
length_array(k) == IF block.step[k].length = 1 THEN 1 + block.step[k].byte * ByteUnit
                   ELSE block.step[k].length + block.step[k].dist * DistUnit
Length(e) == e % DistUnit

TraceInit ==
  /\ block \in Blocks /\ loop = "outer"
  /\ size = blocksize /\ path = <<>> /\ allocsize = blocksize \div MaxMatch + Spare
  /\ space = 0 /\ endsize = 0
  /\ item = 0 /\ store = <<>>
-----------------------------------------------------------------------------
(* TraceBackwards *)

\* the entry is copied, and the trace goes to where its step starts
Write == /\ path' = Append(path, size)
         /\ size' = size - Length(length_array(size))

Outer ==
  /\ loop = "outer" /\ size # 0
  /\ space' = allocsize - Len(path)
  /\ loop' = "bulk"
  /\ UNCHANGED <<block, size, path, memory, following>>

RoomySlip == size > MaxMatch * Chunk  \* slip: no look at the memory
Roomy == size > MaxMatch * Chunk /\ space > Chunk

\* entries are written without a look at either, as many as surely fit
StartChunk ==
  /\ loop = "bulk" /\ Roomy
  /\ endsize' = Len(path) + Chunk /\ loop' = "chunk"
  /\ UNCHANGED <<block, size, path, allocsize, space, following>>

WriteChunk ==
  /\ loop = "chunk" /\ Len(path) < endsize
  /\ Write
  /\ UNCHANGED <<block, loop, memory, space, following>>

EndChunk ==
  /\ loop = "chunk" /\ Len(path) >= endsize
  /\ space' = space - Chunk /\ loop' = "bulk"
  /\ UNCHANGED <<block, size, path, memory, following>>

StartSingle ==
  /\ loop = "bulk" /\ ~Roomy
  /\ loop' = "single"
  /\ UNCHANGED <<block, size, path, memory, space, following>>

\* space is unsigned: to pass zero is to have more than enough
Decremented == IF space = 0 THEN UIntMax ELSE space - 1

WriteSingle ==
  /\ loop = "single" /\ space # 0 /\ size # 0
  /\ space' = Decremented /\ Write
  /\ UNCHANGED <<block, loop, memory, following>>

EndSingle ==
  /\ loop = "single" /\ (space = 0 \/ size = 0)
  /\ space' = Decremented /\ loop' = "grow"
  /\ UNCHANGED <<block, size, path, memory, following>>

FullSlip == Len(path) = allocsize /\ space = 0  \* slip: as if space had not passed zero
Full == Len(path) = allocsize /\ space # 0

\* at most as many entries as the block has bytes in unsigneds
Grow ==
  /\ loop = "grow"
  /\ allocsize' = IF Full THEN Least(2 * allocsize, 4 * blocksize) ELSE allocsize
  /\ loop' = "outer"
  /\ UNCHANGED <<block, size, path, endsize, space, following>>
-----------------------------------------------------------------------------
(* FollowPath *)

StartFollow ==
  /\ loop = "outer" /\ size = 0
  /\ item' = Len(path) - 1 /\ loop' = "follow"
  /\ UNCHANGED <<block, size, path, memory, space, store>>

UnpackedSlip(e) ==  \* slip: a match of the least length is taken for a byte
  IF Length(e) > MinMatch THEN [litlen |-> Length(e), dist |-> e \div DistUnit % ShortSpan]
  ELSE [litlen |-> e \div ByteUnit, dist |-> 0]
\* dist is an unsigned short
Unpacked(e) ==
  IF Length(e) >= MinMatch THEN [litlen |-> Length(e), dist |-> e \div DistUnit % ShortSpan]
  ELSE [litlen |-> e \div ByteUnit, dist |-> 0]

FollowPath ==
  /\ loop = "follow"
  /\ store' = Append(store, Unpacked(length_array(path[item + 1])))
  /\ IF item = 0 THEN loop' = "done" /\ UNCHANGED item
                 ELSE item' = item - 1 /\ UNCHANGED loop
  /\ UNCHANGED <<block, size, path, memory, space>>

TraceStopped == loop = "done" /\ UNCHANGED tracevars

TraceNext == Outer \/ StartChunk \/ WriteChunk \/ EndChunk \/ StartSingle \/ WriteSingle
             \/ EndSingle \/ Grow \/ StartFollow \/ FollowPath \/ TraceStopped

TraceSpec == TraceInit /\ [][TraceNext]_tracevars
FairTrace == TraceSpec /\ WF_tracevars(TraceNext)
-----------------------------------------------------------------------------
\* The variables keep to their ranges; the trace stays in the block.
TraceTypeOK ==
  /\ IsBlock(block)
  /\ loop \in {"outer", "bulk", "chunk", "single", "grow", "follow", "done"}
  /\ size \in 0 .. blocksize /\ path \in Seq(1 .. blocksize)
  /\ allocsize \in Nat /\ space \in Nat /\ endsize \in Nat
  /\ item \in Nat /\ store \in Seq([litlen : Nat, dist : Nat])

\* No entry is written behind the memory of path, although most are written
\* without a look at it.
InBuffer == Len(path) <= allocsize

\* what the store says of a step
Meant(s) == IF s.length = 1 THEN [litlen |-> s.byte, dist |-> 0]
            ELSE [litlen |-> s.length, dist |-> s.dist]

\* The entries are the steps of a path through the whole block, in order: each
\* ends where the next one starts, the first starts at the start of the block,
\* and the last ends at its end.
Reproduces ==
  loop = "done" =>
    LET last == Len(path)
        entry(k) == block.step[path[last + 1 - k]]
        end(k) == path[last + 1 - k]
    IN /\ last > 0 /\ Len(store) = last
       /\ \A k \in 1 .. last : store[k] = Meant(entry(k))
       /\ end(1) = entry(1).length /\ end(last) = blocksize
       /\ \A k \in 1 .. last - 1 : end(k) = end(k + 1) - entry(k + 1).length

\* The trace and the memory it needs come to an end.
TraceEnds == <>(loop = "done")
=============================================================================
