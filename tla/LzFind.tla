------------------------------- MODULE LzFind --------------------------------
(***************************************************************************)
(* The match finder (LzFind.c). Every position that was passed is a node   *)
(* of a binary search tree, one tree for each hash of the bytes there; the *)
(* newest position is the root. A call searches the tree for the bytes at  *)
(* the current position, and on its way takes the tree apart into what is  *)
(* smaller and what is greater: the two sons of the new root.              *)
(*                                                                         *)
(* Nodes live in a cyclic buffer of Window pairs of sons, which are        *)
(* positions; a position that is out of the window ends a branch. The two  *)
(* places where the next node will be hung in, ptr0 and ptr1, are indices  *)
(* of son. Each step of the loops is an action.                            *)
(***************************************************************************)
EXTENDS Integers, Sequences, FiniteSets

CONSTANTS
  Window,            \* ZOPFLI_WINDOW_SIZE
  MinMatch, MaxMatch,
  Word,              \* 8: the bytes that are compared at once in a repetition
  Hash(_),           \* of the three bytes at a position
  Buckets,
  Inputs             \* what the buffer holds up to bufend

ASSUME SizesAssumption ==
  /\ Window \in Nat /\ Window > 1 /\ MinMatch = 3 /\ MaxMatch \in Nat /\ MaxMatch > MinMatch
  /\ Word \in Nat /\ Word > 0
ASSUME InputsAssumption == \A b \in Inputs : b \in Seq(Nat)
\* of any three bytes that may stand at a position
ASSUME HashAssumption ==
  \A b \in Inputs : \A x, y, z \in {0} \cup {b[k] : k \in 1 .. Len(b)} : Hash(<<x, y, z>>) \in Buckets

VARIABLES
  in,            \* never changes
  pos, cyclicBufferPos, hash, son,
  op,            \* the function that runs, or the last one
  running,       \* FALSE between two calls
  curMatch, ptr0, ptr1, len0, len1, maxLen, dist_258,  \* its locals
  rle_len, curMatch_rle, below,  \* those of GetMatches2; below: which loop follows a repetition
  distances

tree == <<hash, son>>
path == <<curMatch, ptr0, ptr1, len0, len1>>
repetition == <<rle_len, curMatch_rle, below>>
vars == <<in, pos, cyclicBufferPos, tree, op, running, path, maxLen, dist_258, repetition, distances>>

Least(m, n) == IF m <= n THEN m ELSE n

\* Positions begin with Window, so that 0 is out of the window for ever.
\* Outside of the buffer there may be anything.
Byte(p, k) == IF p - Window + k \in 0 .. Len(in) - 1 THEN in[p - Window + k + 1] ELSE 0
cur(k) == Byte(pos, k)
lenl == Len(in) - (pos - Window)
lenLimit == Least(lenl, MaxMatch)
HashAt(p) == Hash(<<Byte(p, 0), Byte(p, 1), Byte(p, 2)>>)

\* how far p and q agree, of which the first bytes are known to
GetMatch(p, q, from, end) ==
  IF from >= end THEN end
  ELSE CHOOSE n \in from .. end :
         /\ \A k \in from .. n - 1 : Byte(p, k) = Byte(q, k)
         /\ n = end \/ Byte(p, n) # Byte(q, n)

Init ==
  /\ in \in Inputs
  /\ pos = Window /\ cyclicBufferPos = 0
  /\ hash = [h \in Buckets |-> 0] /\ son = [k \in 0 .. 2 * Window - 1 |-> 0]
  /\ op = "none" /\ running = FALSE
  /\ curMatch = 0 /\ ptr0 = 0 /\ ptr1 = 0 /\ len0 = 0 /\ len1 = 0
  /\ maxLen = 0 /\ dist_258 = 0 /\ rle_len = 0 /\ curMatch_rle = 0 /\ below = FALSE
  /\ distances = <<>>
-----------------------------------------------------------------------------
(* The start of each call *)

Own == 2 * cyclicBufferPos
Pair(m) == 2 * ((cyclicBufferPos + Window - (pos - m)) % Window)

NextCyclic == (cyclicBufferPos + 1) % Window

MOVE_POS ==
  /\ cyclicBufferPos' = NextCyclic
  /\ pos' = pos + 1
  /\ running' = FALSE

Call(f) ==
  /\ ~running /\ op' = f
  /\ hash' = [hash EXCEPT ![HashAt(pos)] = pos]
  /\ UNCHANGED in

Start(f, d) ==
  /\ Call(f) /\ running' = TRUE
  /\ curMatch' = hash[HashAt(pos)]
  /\ ptr0' = Own + 1 /\ ptr1' = Own /\ len0' = 0 /\ len1' = 0
  /\ maxLen' = 2 /\ dist_258' = d /\ distances' = <<>>
  /\ curMatch_rle' = pos
  /\ UNCHANGED <<pos, cyclicBufferPos, son, rle_len, below>>

GetMatches == lenl >= MinMatch /\ Start("GetMatches", 0)

Skip == lenl > 0 /\ Start("Skip", 0)

\* "assumes a ZOPFLI_MAX_MATCH len match is available at dist_258"
GetMatches3 ==
  /\ lenl >= MaxMatch
  /\ \E d \in 1 .. Least(Window - 1, pos - Window) :
       GetMatch(pos, pos - d, 0, MaxMatch) = MaxMatch /\ Start("GetMatches3", d)

\* the length of the repetition, 0 at the first position
Repeated == IF pos = Window THEN 0 ELSE GetMatch(pos, pos - 1, 0, lenLimit)

TakeOverSlip(m) == [son EXCEPT ![ptr1] = son[Pair(m) + 1], ![ptr0] = son[Pair(m)]]  \* slip: the wrong way round
TakeOver(m) == [son EXCEPT ![ptr1] = son[Pair(m)], ![ptr0] = son[Pair(m) + 1]]

\* "optimized for case where there is a ZOPFLI_MAX_MATCH len match at distance 1"
Skip2 ==
  /\ Repeated = MaxMatch /\ Call("Skip2")
  /\ son' = [son EXCEPT ![Own] = son[Pair(pos - 1)], ![Own + 1] = son[Pair(pos - 1) + 1]]
  /\ MOVE_POS
  /\ UNCHANGED <<path, maxLen, dist_258, repetition, distances>>

\* "assumes an RLE-style match is available": the root is the position before.
GetMatches2 ==
  /\ lenl >= MaxMatch /\ Repeated >= MinMatch
  /\ Call("GetMatches2")
  /\ rle_len' = Repeated /\ maxLen' = Repeated /\ distances' = << <<Repeated, 1>> >>
  /\ LET m == hash[HashAt(pos)]
     IN IF Repeated = lenLimit
          THEN /\ son' = [son EXCEPT ![Own] = son[Pair(pos - 1)], ![Own + 1] = son[Pair(pos - 1) + 1]]
               /\ MOVE_POS /\ UNCHANGED path
          ELSE /\ running' = TRUE /\ UNCHANGED <<pos, cyclicBufferPos>>
               /\ IF cur(Repeated - 1) < cur(Repeated)
                    THEN /\ son' = [son EXCEPT ![Own] = m]
                         /\ ptr1' = Pair(pos - 1) + 1 /\ ptr0' = Own + 1
                         /\ curMatch' = son[ptr1'] /\ len1' = Repeated /\ len0' = 0
                    ELSE /\ son' = [son EXCEPT ![Own + 1] = m]
                         /\ ptr0' = Pair(pos - 1) /\ ptr1' = Own
                         /\ curMatch' = son[ptr0'] /\ len0' = Repeated /\ len1' = 0
  /\ curMatch_rle' = pos
  /\ UNCHANGED <<dist_258, below>>
-----------------------------------------------------------------------------
(* The loop *)

delta == pos - curMatch
Searching == running /\ curMatch < curMatch_rle

\* GetMatches3 relies on dist_258 instead
OutOfWindowSlip == op # "GetMatches3" /\ delta > Window  \* slip: one too far
OutOfWindow == op # "GetMatches3" /\ delta >= Window
AtKnown == op = "GetMatches3" /\ delta = dist_258
known == Least(len0, len1)
len == GetMatch(curMatch, pos, known, lenLimit)
Full == len = lenLimit
\* a match of no more than two bytes is none
Better == op # "Skip" /\ maxLen < len

Leave ==
  /\ Searching /\ OutOfWindow
  /\ son' = [son EXCEPT ![ptr0] = 0, ![ptr1] = 0]
  /\ MOVE_POS
  /\ UNCHANGED <<in, hash, op, path, maxLen, dist_258, repetition, distances>>

\* A node that agrees in full is no longer needed: the new one replaces it.
Replace ==
  /\ Searching /\ ~OutOfWindow /\ (AtKnown \/ Full)
  /\ son' = TakeOver(curMatch)
  /\ distances' = IF AtKnown THEN Append(distances, <<MaxMatch, delta>>)
                  ELSE IF Better THEN Append(distances, <<len, delta>>) ELSE distances
  /\ MOVE_POS
  /\ UNCHANGED <<in, hash, op, path, maxLen, dist_258, repetition>>

\* How far the bytes before curMatch repeat as those at pos do; to look at whole
\* words is enough, as each position that is left out is searched as usual.
Lowest == (IF pos > 2 * Window - 1 THEN pos - (Window - 1) ELSE Window) + Word
RepeatedBefore ==
  LET low == IF len <= rle_len /\ Lowest < curMatch - (rle_len - len)
               THEN curMatch - (rle_len - len) ELSE Lowest
      Goes(c) == curMatch - c > low /\ \A b \in 1 .. Word : Byte(curMatch - c - b, 0) = cur(0)
      words == {w \in 0 .. pos : \A v \in 0 .. w - 1 : Goes(v * Word)}
  IN Word * (CHOOSE w \in words : \A v \in words : v <= w)

\* These agree in less than rle_len bytes.
cntSlip == RepeatedBefore  \* slip: up to all that repeats
cnt == IF RepeatedBefore + len > rle_len - 1 THEN rle_len - 1 - len ELSE RepeatedBefore

Descend ==
  /\ Searching /\ ~OutOfWindow /\ ~AtKnown /\ ~Full
  /\ IF Byte(curMatch, len) < cur(len)
       THEN /\ son' = [son EXCEPT ![ptr1] = curMatch]
            /\ ptr1' = Pair(curMatch) + 1 /\ curMatch' = son'[ptr1'] /\ len1' = len
            /\ UNCHANGED <<ptr0, len0>>
       ELSE /\ son' = [son EXCEPT ![ptr0] = curMatch]
            /\ ptr0' = Pair(curMatch) /\ curMatch' = son'[ptr0'] /\ len0' = len
            /\ UNCHANGED <<ptr1, len1>>
  /\ IF Better THEN maxLen' = len /\ distances' = Append(distances, <<len, delta>>)
     ELSE UNCHANGED <<maxLen, distances>>
  /\ IF op = "GetMatches2" /\ RepeatedBefore > 0
       THEN curMatch_rle' = curMatch - cnt /\ below' = (Byte(curMatch, len) < cur(0))
       ELSE curMatch_rle' = pos /\ UNCHANGED below
  /\ UNCHANGED <<in, pos, cyclicBufferPos, hash, op, running, dist_258, rle_len>>

\* In a repetition the bytes need not be compared.
DescendRepeated ==
  /\ running /\ curMatch >= curMatch_rle
  /\ IF below
       THEN /\ son' = [son EXCEPT ![ptr1] = curMatch]
            /\ ptr1' = Pair(curMatch) + 1 /\ curMatch' = son'[ptr1'] /\ len1' = len1 + 1
            /\ UNCHANGED <<ptr0, len0>>
       ELSE /\ son' = [son EXCEPT ![ptr0] = curMatch]
            /\ ptr0' = Pair(curMatch) /\ curMatch' = son'[ptr0'] /\ len0' = len0 + 1
            /\ UNCHANGED <<ptr1, len1>>
  /\ UNCHANGED <<in, pos, cyclicBufferPos, hash, op, running, maxLen, dist_258, repetition, distances>>

AtEnd == ~running /\ lenl = 0 /\ UNCHANGED vars

Next == GetMatches \/ GetMatches2 \/ GetMatches3 \/ Skip \/ Skip2
        \/ Leave \/ Replace \/ Descend \/ DescendRepeated \/ AtEnd

Spec == Init /\ [][Next]_vars
-----------------------------------------------------------------------------
\* A search goes ever further back, whatever was left in the cyclic buffer.
GoesBack == [][running /\ running' => curMatch' < curMatch]_vars

\* "assumes a ZOPFLI_MAX_MATCH len match is available at dist_258"
\* (LzFind.c:358), and does not look at the window: it never passes that match.
KnownAhead == running /\ op = "GetMatches3" => delta <= dist_258

\* The matches there are at p: of any length the nearest, unless a longer one
\* is nearer.
Length(p, d) == GetMatch(p, p - d, 0, Least(Len(in) - (p - Window), MaxMatch))
Nearest(p) ==
  {d \in 1 .. Least(Window - 1, p - Window) :
     Length(p, d) >= MinMatch /\ \A e \in 1 .. d - 1 : Length(p, e) < Length(p, d)}

\* What a call reports is just this, from the nearest to the longest, whatever
\* calls were made before: "Same as above, but assumes ..." (LzFind.c:346).
ReportsNearest ==
  ~running /\ op \in {"GetMatches", "GetMatches2", "GetMatches3"} =>
    /\ {distances[k] : k \in DOMAIN distances} = {<<Length(pos - 1, d), d>> : d \in Nearest(pos - 1)}
    /\ \A j, k \in DOMAIN distances : j < k => distances[j][2] < distances[k][2]
=============================================================================
