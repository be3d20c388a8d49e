------------------------------ MODULE LazyParse ------------------------------
(***************************************************************************)
(* The greedy and lazy parse of a part (ZopfliLZ77Lazy, lz77.c), by which  *)
(* the block splitter sees the input. A match that is found is held back   *)
(* for one position: a longer one there makes it a literal. Matches come   *)
(* from two finders, one for four bytes and more and one for three, whose  *)
(* hash tables point to the newest position and whose chain tables point   *)
(* from there to older ones. Every turn of a loop is an action.            *)
(*                                                                         *)
(* An entry of the store has no distance, only its symbol; a length and    *)
(* its symbol share sixteen bits.                                          *)
(***************************************************************************)
EXTENDS Integers, Sequences, Symbols

CONSTANTS
  MaxD, MaxD3,        \* 1 << DICTIONARY_LOGSIZE, and LOGSIZE3
  MaxMatch,           \* ZOPFLI_MAX_MATCH
  Attempts,           \* nbAttempts
  Far4, Far5,         \* beyond these a match of 4, of 5 counts as one less
  Hash(_), Hash3(_),  \* of the four and of the three bytes at a position
  Buckets,
  Stray,              \* what an uninitialised pointer may make of a distance
  Jobs                \* a part, the bytes around it, and the option greed

IsJob(j) ==
  /\ {j.instart, j.inend, j.greed} \subseteq Nat
  /\ j.instart <= j.inend /\ j.greed <= MaxMatch
  /\ j.data \in Seq(0 .. 255) /\ Len(j.data) >= j.inend + 17  \* see LoadsNearEnd

ASSUME SizesAssumption ==
  /\ {MaxD, MaxD3, Attempts, Far4, Far5} \subseteq Nat
  /\ MaxD > 1 /\ MaxD <= 32768 /\ MaxD3 > 1 /\ MaxD3 <= MaxD
  /\ MaxMatch \in 5 .. 258
ASSUME StrayAssumption == Stray \subseteq Nat /\ Stray # {}
ASSUME JobsAssumption == \A j \in Jobs : IsJob(j)
ASSUME HashAssumption == \A j \in Jobs : \A k \in 1 .. Len(j.data) - 3 :
  /\ Hash(SubSeq(j.data, k, k + 3)) \in Buckets
  /\ Hash3(SubSeq(j.data, k, k + 2)) \in Buckets

VARIABLES
  job,           \* never changes
  pc, i,
  leng, dist, prev_length, prev_match, match_available,
  y, matchpos,   \* what the finder found
  matchIndex, nbAttempts,
  hc4, h3,       \* the finders: hashTable, chainTable, nextToUpdate
  litlens, dists, \* the store
  at             \* where each entry was stored from; history, for the properties

pending == <<prev_length, prev_match, match_available>>
found == <<y, matchpos>>
search == <<matchIndex, nbAttempts>>
finders == <<hc4, h3>>
store == <<litlens, dists, at>>
vars == <<job, pc, i, leng, dist, pending, found, search, finders, store>>

in(p) == job.data[p + 1]
Bytes(p, n) == SubSeq(job.data, p + 1, p + n)
Least(m, n) == IF m <= n THEN m ELSE n
Most(m, n) == IF m >= n THEN m ELSE n

\* What a decoder is shown: n bytes at p that are those d before.
Copies(p, d, n) == d <= p /\ \A k \in 0 .. n - 1 : in(p - d + k) = in(p + k)
-----------------------------------------------------------------------------
symtox(lls) == IF lls <= 279 THEN 0 ELSE IF lls <= 283 THEN 100 ELSE 200
Unpacked(litlen) == litlen \div 512 + symtox(litlen % 512)

PackedSlip(l) == (ZopfliGetLengthSymbol(l) + l * 512) % 65536  \* slip: symtox is not subtracted
\* into an unsigned short
Packed(l) == LET lls == ZopfliGetLengthSymbol(l) IN (lls + (l - symtox(lls)) * 512) % 65536

\* ZopfliStoreLitLenDist, with what has to be stored at position p
Literal(p) == [litlen |-> in(p), dist |-> 0, at |-> p]
Match(p, l, d) == [litlen |-> Packed(l), dist |-> ZopfliGetDistSymbol(d) + 1, at |-> p]
Store(entry) ==
  /\ litlens' = Append(litlens, entry.litlen)
  /\ dists' = Append(dists, entry.dist)
  /\ at' = Append(at, entry.at)
-----------------------------------------------------------------------------
windowstart == Most(job.instart - MaxD, 0)
start3 == Most(job.instart - MaxD3, 0)

Finder(size) == [hashTable |-> [b \in Buckets |-> 0],
                 chainTable |-> [k \in 0 .. size - 1 |-> 65535], nextToUpdate |-> size]

Init ==
  /\ job \in Jobs
  /\ pc = "turn" /\ i = job.instart
  /\ leng = 0 /\ dist = 0 /\ prev_length = 0 /\ prev_match = 0 /\ match_available = FALSE
  /\ y = 3 /\ matchpos = 0 /\ matchIndex = 0 /\ nbAttempts = 0
  /\ hc4 = Finder(MaxD) /\ h3 = Finder(MaxD3)
  /\ litlens = <<>> /\ dists = <<>> /\ at = <<>>

\* All indices of a finder are relative to its base, which is size before its start.
Index(p, start, size) == p - start + size
Position(idx, start, size) == idx - size + start
lowLimit(idx, size) == IF 2 * size > idx THEN size ELSE idx - (size - 1)

InsertedSlip(f, idx, h, size) ==  \* slip: the head of the chain is set first
  [f EXCEPT !.chainTable[idx % size] = 0, !.hashTable[h] = idx, !.nextToUpdate = idx + 1]
\* one turn of LZ4HC_Insert and of LZ4HC_Insert3, at idx, whose hash is h
Inserted(f, idx, h, size) ==
  [hashTable |-> [f.hashTable EXCEPT ![h] = idx],
   chainTable |-> [f.chainTable EXCEPT ![idx % size] = Least(idx - f.hashTable[h], size - 1)],
   nextToUpdate |-> idx + 1]

Older(f, idx, size) == idx - f.chainTable[idx % size]

-----------------------------------------------------------------------------
(* LZ4HC_InsertAndFindBestMatch *)

ip == Index(i, windowstart, MaxD)
Unset == 0 - 1

\* only what is longer than this is found
ml == IF match_available THEN prev_length ELSE 3

NextTurn ==
  /\ pc = "turn" /\ i < job.inend
  /\ y' = ml
  /\ matchpos' = Unset
  /\ pc' = "insert"
  /\ UNCHANGED <<job, i, leng, dist, pending, search, finders, store>>

EndOfPart ==
  /\ pc = "turn" /\ i >= job.inend
  /\ pc' = "done"
  /\ UNCHANGED <<job, i, leng, dist, pending, found, search, finders, store>>

HashAt(p) == Hash(Bytes(p, 4))

Insert ==
  /\ pc = "insert" /\ hc4.nextToUpdate < ip
  /\ LET idx == hc4.nextToUpdate IN
     hc4' = Inserted(hc4, idx, HashAt(Position(idx, windowstart, MaxD)), MaxD)
  /\ UNCHANGED <<job, pc, i, leng, dist, pending, found, search, h3, store>>

\* Nothing in the window ends as a match of more than n bytes would have to.
NothingLonger(n) == hc4.hashTable[HashAt(i + n - 3)] < lowLimit(ip, MaxD) + n - 3

Lookup ==
  /\ pc = "insert" /\ hc4.nextToUpdate >= ip
  /\ matchIndex' = hc4.hashTable[HashAt(i)]
  /\ nbAttempts' = Attempts
  /\ IF NothingLonger(y) THEN pc' = "found" /\ matchpos' = i
                         ELSE pc' = "search" /\ UNCHANGED matchpos
  /\ UNCHANGED <<job, i, leng, dist, pending, y, finders, store>>

Searching == matchIndex >= lowLimit(ip, MaxD) /\ nbAttempts > 0
match == Position(matchIndex, windowstart, MaxD)

iLimit == Least(MaxMatch, job.inend - i)

\* where the four bytes at both ends agree, GetMatch counts how far they all do
IsLength(n) ==
  /\ \A k \in 0 .. n - 1 : in(match + k) = in(i + k)
  /\ n = iLimit \/ in(match + n) # in(i + n)
EndsAgree == Bytes(match + y - 3, 4) = Bytes(i + y - 3, 4) /\ Bytes(match, 4) = Bytes(i, 4)
IsLonger(n) == EndsAgree /\ n > y /\ IsLength(n)

\* It loads words of eight bytes, from the third byte on, for as long as they are
\* equal, and asks after every second one only whether scan has come to the end.
Word(w) == i + 2 + 8 * w
LoadsWord(w) == \A v \in 0 .. w - 1 :
  /\ Bytes(match + 2 + 8 * v, 8) = Bytes(Word(v), 8)
  /\ v % 2 = 1 => Word(v + 1) < i + iLimit

FollowChain ==
  /\ matchIndex' = Older(hc4, matchIndex, MaxD)
  /\ nbAttempts' = nbAttempts - 1

Longer ==
  /\ pc = "search" /\ Searching
  /\ \E mlt \in y + 1 .. iLimit :
       /\ IsLonger(mlt)
       /\ y' = mlt /\ matchpos' = match
       /\ IF mlt = MaxMatch \/ NothingLonger(mlt)
            THEN pc' = "found" /\ UNCHANGED search
            ELSE UNCHANGED pc /\ FollowChain
  /\ UNCHANGED <<job, i, leng, dist, pending, finders, store>>

NotLonger ==
  /\ pc = "search" /\ Searching
  /\ \A mlt \in y + 1 .. iLimit : ~IsLonger(mlt)
  /\ FollowChain
  /\ UNCHANGED <<job, pc, i, leng, dist, pending, found, finders, store>>

Searched ==
  /\ pc = "search" /\ ~Searching
  /\ pc' = "found"
  /\ UNCHANGED <<job, i, leng, dist, pending, found, search, finders, store>>
-----------------------------------------------------------------------------
\* A match from the finder; its distance is anything when the finder has
\* returned the length it was given and left matchpos alone.
Take ==
  /\ pc = "found" /\ y >= 4 /\ i + 4 <= job.inend
  /\ leng' = y
  /\ dist' \in IF matchpos = Unset THEN Stray ELSE {i - matchpos}
  /\ pc' = "score"
  /\ UNCHANGED <<job, i, pending, found, search, finders, store>>

\* leng and dist stay as they are: those of the match held back
Keep ==
  /\ pc = "found" /\ ~(y >= 4 /\ i + 4 <= job.inend) /\ match_available
  /\ pc' = "score"
  /\ UNCHANGED <<job, i, leng, dist, pending, found, search, finders, store>>

(* LZ4HC_InsertAndFindBestMatch3 *)

TryThree ==
  /\ pc = "found" /\ ~(y >= 4 /\ i + 4 <= job.inend) /\ ~match_available
  /\ pc' = "insert3"
  /\ UNCHANGED <<job, i, leng, dist, pending, found, search, finders, store>>

ip3 == Index(i, start3, MaxD3)
Hash3At(p) == Hash3(Bytes(p, 3))
\* positions too far back are never inserted
idx3 == Most(h3.nextToUpdate, ip3 - (MaxD3 - 1))

Insert3 ==
  /\ pc = "insert3" /\ h3.nextToUpdate < ip3
  /\ h3' = Inserted(h3, idx3, Hash3At(Position(idx3, start3, MaxD3)), MaxD3)
  /\ UNCHANGED <<job, pc, i, leng, dist, pending, found, search, hc4, store>>

Lookup3 ==
  /\ pc = "insert3" /\ h3.nextToUpdate >= ip3
  /\ matchIndex' = h3.hashTable[Hash3At(i)]
  /\ pc' = "search3"
  /\ UNCHANGED <<job, i, leng, dist, pending, found, nbAttempts, finders, store>>

Searching3 == matchIndex >= lowLimit(ip3, MaxD3)
match3 == Position(matchIndex, start3, MaxD3)
IsThree == Bytes(match3, 3) = Bytes(i, 3)

Three ==
  /\ pc = "search3" /\ Searching3 /\ IsThree /\ i + 3 <= job.inend
  /\ leng' = 3 /\ dist' = i - match3
  /\ pc' = "score"
  /\ UNCHANGED <<job, i, pending, found, search, finders, store>>

NotThree ==
  /\ pc = "search3" /\ Searching3 /\ ~IsThree
  /\ matchIndex' = Older(h3, matchIndex, MaxD3)
  /\ UNCHANGED <<job, pc, i, leng, dist, pending, found, nbAttempts, finders, store>>

NoMatch ==
  /\ pc = "search3" /\ (Searching3 => IsThree /\ i + 3 > job.inend)
  /\ Store(Literal(i))
  /\ i' = i + 1
  /\ pc' = "turn"
  /\ UNCHANGED <<job, leng, dist, pending, found, search, finders>>
-----------------------------------------------------------------------------
(* the rest of a turn of ZopfliLZ77Lazy *)

lengthscore ==
  IF (leng = 4 /\ dist > Far4) \/ (leng = 5 /\ dist > Far5) THEN leng - 1 ELSE leng

ByteBefore ==
  /\ pc = "score" /\ leng = MaxMatch /\ match_available
  /\ Store(Literal(i - 1))
  /\ match_available' = FALSE
  /\ UNCHANGED <<job, pc, i, leng, dist, prev_length, prev_match, found, search, finders>>

Longest ==
  /\ pc = "score" /\ leng = MaxMatch /\ ~match_available
  /\ Store(Match(i, leng, dist))
  /\ i' = i + leng
  /\ pc' = IF dist = 1 THEN "repeat" ELSE "turn"
  /\ UNCHANGED <<job, leng, dist, pending, found, search, finders>>

Repeats == i + MaxMatch <= job.inend /\ Copies(i, 1, MaxMatch)  \* each byte is the one before

Repeat ==
  /\ pc = "repeat" /\ Repeats
  /\ Store(Match(i, leng, dist))
  /\ i' = i + leng
  /\ UNCHANGED <<job, pc, leng, dist, pending, found, search, finders>>

Repeated ==
  /\ pc = "repeat" /\ ~Repeats
  /\ pc' = "turn"
  /\ UNCHANGED <<job, i, leng, dist, pending, found, search, finders, store>>

HoldBack ==
  /\ match_available' = TRUE
  /\ prev_length' = leng /\ prev_match' = dist
  /\ i' = i + 1
  /\ pc' = "turn"
  /\ UNCHANGED <<job, leng, dist, found, search, finders>>

Better ==
  /\ pc = "score" /\ leng # MaxMatch /\ match_available
  /\ lengthscore > prev_length + 1
  /\ Store(Literal(i - 1))
  /\ HoldBack

TakePrevious ==
  /\ pc = "score" /\ leng # MaxMatch /\ match_available
  /\ lengthscore <= prev_length + 1
  /\ match_available' = FALSE
  /\ leng' = prev_length /\ dist' = prev_match
  /\ Store(Match(i - 1, prev_length, prev_match))
  /\ i' = i + prev_length - 1
  /\ pc' = "turn"
  /\ UNCHANGED <<job, prev_length, prev_match, found, search, finders>>

Defer ==
  /\ pc = "score" /\ leng # MaxMatch /\ ~match_available
  /\ leng < job.greed
  /\ HoldBack
  /\ UNCHANGED store

Greedy ==
  /\ pc = "score" /\ leng # MaxMatch /\ ~match_available
  /\ leng >= job.greed
  /\ Store(Match(i, leng, dist))
  /\ i' = i + leng
  /\ pc' = "turn"
  /\ UNCHANGED <<job, leng, dist, pending, found, search, finders>>

Stopped == pc = "done" /\ UNCHANGED vars

Next ==
  \/ NextTurn \/ EndOfPart \/ Insert \/ Lookup \/ Longer \/ NotLonger \/ Searched
  \/ Take \/ Keep \/ TryThree \/ Insert3 \/ Lookup3 \/ Three \/ NotThree \/ NoMatch
  \/ ByteBefore \/ Longest \/ Repeat \/ Repeated \/ Better \/ TakePrevious \/ Defer \/ Greedy \/ Stopped

Spec == Init /\ [][Next]_vars
FairSpec == Spec /\ WF_vars(Next)
-----------------------------------------------------------------------------
Table(size) == [hashTable : [Buckets -> Nat], chainTable : [0 .. size - 1 -> Nat], nextToUpdate : Nat]

TypeOK ==
  /\ job \in Jobs
  /\ pc \in {"turn", "insert", "search", "found", "insert3", "search3", "score", "repeat", "done"}
  /\ i \in job.instart .. job.inend
  /\ {leng, dist, prev_length, prev_match, y} \subseteq Nat /\ match_available \in BOOLEAN
  /\ matchpos \in Nat \cup {Unset} /\ {matchIndex, nbAttempts} \subseteq Nat
  /\ hc4 \in Table(MaxD) /\ h3 \in Table(MaxD3)
  /\ litlens \in Seq(Nat) /\ dists \in Seq(Nat) /\ at \in Seq(Nat)
  /\ Len(dists) = Len(litlens) /\ Len(at) = Len(litlens)

\* the length of an entry, as the block splitter unpacks it
LengthOf(k) == IF litlens[k] < 256 THEN 1 ELSE Unpacked(litlens[k])
StoreEnd == IF at = <<>> THEN job.instart ELSE at[Len(at)] + LengthOf(Len(at))

\* A decoder can take l bytes at p from d before: the assertions of
\* ZopfliVerifyLenDist, inside the window and the part.
Valid(p, l, d) ==
  l \in 3 .. MaxMatch /\ p + l <= job.inend /\ d \in 1 .. MaxD - 1 /\ Copies(p, d, l)

EntryOK(k) ==
  /\ at[k] = IF k = 1 THEN job.instart ELSE at[k - 1] + LengthOf(k - 1)
  /\ IF dists[k] = 0
       THEN litlens[k] = in(at[k])
       ELSE \E d \in 1 .. MaxD - 1 : /\ dists[k] = ZopfliGetDistSymbol(d) + 1
                                     /\ Valid(at[k], LengthOf(k), d)

\* Whoever adds up the lengths of the store comes by the positions at which the
\* parser was when it stored them, a byte is the byte there, and a match has a
\* distance of its symbol at which its bytes are found. When the parser stops
\* nothing is missing, a match held back included.
Reproduces ==
  /\ \A k \in 1 .. Len(at) : EntryOK(k)
  /\ pc = "done" => StoreEnd = job.inend

\* GetMatch loads no more than n bytes behind the end that it is given.
LoadsAtMost(n) ==
  pc = "search" /\ Searching /\ EndsAgree =>
    \A w \in 0 .. MaxMatch \div 8 + 1 : LoadsWord(w) => Word(w) + 8 <= i + iLimit + n

\* The comment at GetMatch: "this may read up to 15 bytes beyond end". It holds
\* for a scan that starts before the end. Where the four bytes that agree are the
\* last one of the part and three behind it, scan starts one behind the end.
LoadsAsDocumented == LoadsAtMost(15)

\* How much memory has to follow the part: the last of the four bytes that are
\* loaded for a hash or a comparison is at most the third behind it, and GetMatch
\* loads seventeen bytes behind it and no more.
LoadsNearEnd ==
  /\ pc \in {"insert", "search"} => i + Most(y, 3) + 1 <= job.inend + 3
  /\ LoadsAtMost(17)

\* Chains lead back: a candidate lies in front of the position, and behind it on
\* the chain is an older one, so that the search for three bytes, which does not
\* count its attempts, ends; and no index wraps below zero.
ChainsGoBack ==
  /\ pc = "search" => matchIndex < ip
  /\ pc = "search" /\ Searching => Older(hc4, matchIndex, MaxD) \in 0 .. matchIndex - 1
  /\ pc = "search3" => matchIndex < ip3
  /\ pc = "search3" /\ Searching3 => Older(h3, matchIndex, MaxD3) \in 0 .. matchIndex - 1

\* The parse comes to the end of the part.
Terminates == <>(pc = "done")
=============================================================================
