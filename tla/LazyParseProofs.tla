--------------------------- MODULE LazyParseProofs ---------------------------
(***************************************************************************)
(* Proofs about LazyParse: for inputs of any length, any hash function and *)
(* any sizes of the tables, what is stored reproduces the part, the loads  *)
(* of four bytes end close behind it, and the chains lead back.            *)
(***************************************************************************)
EXTENDS LazyParse, SequenceTheorems, FiniteSetTheorems, TLAPS

\* A match that is held back is valid at the byte before, and the parse still
\* knows its length as leng.
HeldInv ==
  match_available =>
    /\ pc \in {"turn", "insert", "search", "found", "score"}
    /\ i > job.instart /\ prev_length < MaxMatch
    /\ Valid(i - 1, prev_length, prev_match)
    /\ pc # "score" => leng = prev_length

\* What the finder has found is valid, or no longer than what it was given.
FoundInv ==
  /\ pc \in {"insert", "search", "found"} => matchpos <= i
  /\ pc = "insert" => y = ml
  /\ pc \in {"search", "found"} =>
       y = ml \/ (y > ml /\ matchpos \in Nat /\ Valid(i, y, i - matchpos))

\* What is scored is valid, or the match held back once more.
ScoreInv ==
  pc = "score" => Valid(i, leng, dist) \/ (match_available /\ leng = prev_length)

TurnInv ==
  /\ pc \in {"insert", "search", "found", "insert3", "search3", "score"} => i < job.inend
  /\ pc = "repeat" => dist = 1 /\ leng = MaxMatch /\ i >= 1
  /\ pc = "done" => i = job.inend /\ ~match_available

StoreInv ==
  /\ \A k \in 1 .. Len(at) : EntryOK(k)
  /\ StoreEnd = IF match_available THEN i - 1 ELSE i

\* Hash tables point in front of what is inserted next, and so do chains, which
\* are filled from low on.
FinderInv(f, low, size) ==
  /\ \A b \in Buckets : f.hashTable[b] < f.nextToUpdate
  /\ \A idx \in Nat : size <= idx /\ low <= idx /\ idx < f.nextToUpdate
                        => f.chainTable[idx % size] \in 1 .. size - 1

\* All that the search for four bytes may look at is inserted.
FourInv ==
  /\ FinderInv(hc4, 0, MaxD)
  /\ MaxD <= hc4.nextToUpdate /\ hc4.nextToUpdate <= ip
  /\ pc = "search" => hc4.nextToUpdate = ip /\ matchIndex < ip

\* The finder for three bytes may have passed over what is too far back.
low3 == ip3 - (MaxD3 - 1)
ThreeInv ==
  /\ FinderInv(h3, low3, MaxD3)
  /\ MaxD3 <= h3.nextToUpdate /\ h3.nextToUpdate <= ip3
  /\ pc = "search3" => h3.nextToUpdate = ip3 /\ matchIndex < ip3

IInv == TypeOK /\ HeldInv /\ FoundInv /\ ScoreInv /\ TurnInv /\ StoreInv /\ FourInv /\ ThreeInv
-----------------------------------------------------------------------------
(* lengths, distances and their symbols *)

\* The symbol of a length and what is stored above it.
LEMMA LengthSymbol ==
  ASSUME NEW l \in 3 .. 258
  PROVE  /\ ZopfliGetLengthSymbol(l) \in 257 .. 285
         /\ l - symtox(ZopfliGetLengthSymbol(l)) \in 0 .. 127
<1>1. CASE l <= 66
  BY <1>1, SMT DEF symtox, ZopfliGetLengthSymbol
<1>2. CASE 67 <= l /\ l <= 130
  BY <1>2, SMT DEF symtox, ZopfliGetLengthSymbol
<1>3. CASE 130 < l
  BY <1>3, SMT DEF symtox, ZopfliGetLengthSymbol
<1>. QED  BY <1>1, <1>2, <1>3

\* Unpacking yields the length that was packed.
LEMMA PackUnpack ==
  ASSUME NEW l \in 3 .. 258
  PROVE  Packed(l) \in Nat /\ Packed(l) >= 256 /\ Unpacked(Packed(l)) = l
<1>. DEFINE lls == ZopfliGetLengthSymbol(l)
            more == l - symtox(lls)
            both == lls + more * 512
<1>1. lls \in 257 .. 511 /\ more \in 0 .. 127 /\ symtox(lls) \in Int
  BY LengthSymbol DEF symtox
<1>2. more = l - symtox(lls)
  OBVIOUS
<1>3. both \in Int /\ both = lls + more * 512 /\ Packed(l) = both % 65536
  BY <1>1 DEF Packed
<1>. HIDE DEF lls, more, both
<1>4. both \in Nat /\ both >= 256 /\ both % 65536 = both
  <2>1. both \in Nat /\ both >= 256 /\ both <= 65535
    BY <1>1, <1>3
  <2>. QED  BY <2>1
<1>5. both % 512 = lls
  BY <1>1, <1>3
<1>6. both \div 512 = more
  BY <1>1, <1>3
<1>. QED  BY <1>1, <1>2, <1>3, <1>4, <1>5, <1>6 DEF Unpacked

\* The powers of two that occur.
LEMMA Powers ==
  /\ 2 ^ 0 = 1 /\ 2 ^ 1 = 2 /\ 2 ^ 2 = 4 /\ 2 ^ 3 = 8 /\ 2 ^ 4 = 16 /\ 2 ^ 5 = 32 /\ 2 ^ 6 = 64
  /\ 2 ^ 7 = 128 /\ 2 ^ 8 = 256 /\ 2 ^ 9 = 512 /\ 2 ^ 10 = 1024 /\ 2 ^ 11 = 2048 /\ 2 ^ 12 = 4096
  /\ 2 ^ 13 = 8192 /\ 2 ^ 14 = 16384
OBVIOUS

\* A bit is a number.
LEMMA BitIsNat ==
  ASSUME NEW n \in Nat, NEW k \in 0 .. 14
  PROVE  Bit(n, k) \in Nat
<1>1. CASE k = 0
  BY <1>1, Powers DEF Bit
<1>2. CASE k = 1
  BY <1>2, Powers DEF Bit
<1>3. CASE k = 2
  BY <1>3, Powers DEF Bit
<1>4. CASE k = 3
  BY <1>4, Powers DEF Bit
<1>5. CASE k = 4
  BY <1>5, Powers DEF Bit
<1>6. CASE k = 5
  BY <1>6, Powers DEF Bit
<1>7. CASE k = 6
  BY <1>7, Powers DEF Bit
<1>8. CASE k = 7
  BY <1>8, Powers DEF Bit
<1>9. CASE k = 8
  BY <1>9, Powers DEF Bit
<1>10. CASE k = 9
  BY <1>10, Powers DEF Bit
<1>11. CASE k = 10
  BY <1>11, Powers DEF Bit
<1>12. CASE k = 11
  BY <1>12, Powers DEF Bit
<1>13. CASE k = 12
  BY <1>13, Powers DEF Bit
<1>14. CASE k = 13
  BY <1>14, Powers DEF Bit
<1>15. CASE k = 14
  BY <1>15, Powers DEF Bit
<1>. QED
  BY <1>1, <1>2, <1>3, <1>4, <1>5, <1>6, <1>7, <1>8, <1>9, <1>10, <1>11, <1>12, <1>13, <1>14, <1>15

\* The logarithm is at least one from two on.
LEMMA LogInRange ==
  ASSUME NEW n \in Nat, n >= 2
  PROVE  floor_log2(n) \in 1 .. 15
<1>. DEFINE s == {k \in 1 .. 15 : 2 ^ k <= n}
<1>1. IsFiniteSet(1 .. 15) /\ Cardinality(1 .. 15) = 15
  <2>1. 1 \in Int /\ 15 \in Int /\ ~(1 > 15) /\ 15 - 1 + 1 = 15
    OBVIOUS
  <2>. QED  BY <2>1, FS_Interval, Zenon
<1>2. s \subseteq 1 .. 15
  OBVIOUS
<1>3. IsFiniteSet(s) /\ Cardinality(s) <= 15 /\ Cardinality(s) \in Nat
  BY <1>1, <1>2, FS_Subset, FS_CardinalityType
<1>4. 1 \in s
  <2>1. 2 ^ 1 <= n
    BY Powers
  <2>. QED  BY <2>1
<1>5. Cardinality(s) # 0
  BY <1>3, <1>4, FS_EmptySet
<1>. QED  BY <1>3, <1>5 DEF floor_log2

\* A distance has a symbol.
LEMMA DistSymbol ==
  ASSUME NEW d \in Nat, d > 0
  PROVE  ZopfliGetDistSymbol(d) \in Nat
<1>1. CASE d < 5
  BY <1>1 DEF ZopfliGetDistSymbol
<1>2. CASE d >= 5
  <2>1. floor_log2(d - 1) \in 1 .. 15
    BY <1>2, LogInRange
  <2>3. d - 1 \in Nat /\ floor_log2(d - 1) - 1 \in 0 .. 14
    BY <2>1
  <2>2. Bit(d - 1, floor_log2(d - 1) - 1) \in Nat
    BY <2>3, BitIsNat, Zenon
  <2>. QED  BY <1>2, <2>1, <2>2 DEF ZopfliGetDistSymbol
<1>. QED  BY <1>1, <1>2
-----------------------------------------------------------------------------
(* the part, the window and the tables *)

\* What is known of a part: it lies in the data, three bytes before their end.
LEMMA PartFacts ==
  ASSUME TypeOK
  PROVE  /\ job.instart \in Nat /\ job.inend \in Nat /\ job.instart <= job.inend
         /\ job.greed \in Nat /\ job.greed <= MaxMatch
         /\ job.data \in Seq(0 .. 255) /\ Len(job.data) \in Nat /\ Len(job.data) >= job.inend + 17
         /\ \A p \in 0 .. job.inend + 2 : in(p) \in 0 .. 255
<1>1. IsJob(job)
  BY JobsAssumption DEF TypeOK
<1>2. job.data \in Seq(0 .. 255) /\ Len(job.data) >= job.inend + 17
  BY <1>1 DEF IsJob
<1>3. Len(job.data) \in Nat /\ \A a \in 1 .. Len(job.data) : job.data[a] \in 0 .. 255
  BY <1>2, LenProperties, ElementOfSeq
<1>4. /\ job.instart \in Nat /\ job.inend \in Nat /\ job.instart <= job.inend
      /\ job.greed \in Nat /\ job.greed <= MaxMatch
  BY <1>1 DEF IsJob
<1>5. \A p \in 0 .. job.inend + 2 : in(p) \in 0 .. 255
  <2>1. SUFFICES ASSUME NEW p \in 0 .. job.inend + 2 PROVE in(p) \in 0 .. 255
    OBVIOUS
  <2>2. p + 1 \in 1 .. Len(job.data)
    BY <1>2, <1>3, <1>4
  <2>. QED  BY <1>3, <2>2 DEF in
<1>. QED  BY <1>2, <1>3, <1>4, <1>5

\* Where the finders start.
LEMMA WindowFacts ==
  ASSUME TypeOK
  PROVE  /\ MaxD \in Nat /\ MaxD > 1 /\ MaxD <= 32768 /\ MaxD3 \in Nat /\ MaxD3 > 1 /\ MaxD3 <= MaxD
         /\ MaxMatch \in 5 .. 258 /\ Attempts \in Nat
         /\ i \in Nat /\ job.instart <= i /\ i <= job.inend
         /\ windowstart \in Nat /\ windowstart <= job.instart
         /\ start3 \in Nat /\ start3 <= job.instart
         /\ ip = i - windowstart + MaxD /\ ip \in Nat /\ ip >= MaxD
         /\ ip3 = i - start3 + MaxD3 /\ ip3 \in Nat /\ ip3 >= MaxD3
<1>1. MaxD \in Nat /\ MaxD > 1 /\ MaxD <= 32768 /\ MaxD3 \in Nat /\ MaxD3 > 1 /\ MaxD3 <= MaxD
  BY SizesAssumption
<1>2. MaxMatch \in 5 .. 258 /\ Attempts \in Nat
  BY SizesAssumption
<1>3. i \in Nat /\ job.instart <= i /\ i <= job.inend
  BY PartFacts DEF TypeOK
<1>4. windowstart \in Nat /\ windowstart <= job.instart
  BY <1>1, PartFacts DEF windowstart, Most
<1>5. start3 \in Nat /\ start3 <= job.instart
  BY <1>1, PartFacts DEF start3, Most
<1>6. ip = i - windowstart + MaxD /\ ip \in Nat /\ ip >= MaxD
  BY <1>1, <1>3, <1>4, PartFacts DEF ip, Index
<1>7. ip3 = i - start3 + MaxD3 /\ ip3 \in Nat /\ ip3 >= MaxD3
  BY <1>1, <1>3, <1>5, PartFacts DEF ip3, Index
<1>. QED  BY <1>1, <1>2, <1>3, <1>4, <1>5, <1>6, <1>7

\* Hashes of positions in the part are buckets.
LEMMA HashFacts ==
  ASSUME TypeOK, NEW p \in Nat, p < job.inend
  PROVE  HashAt(p) \in Buckets /\ Hash3At(p) \in Buckets
<1>1. job \in Jobs
  BY DEF TypeOK
<1>2. p + 1 \in 1 .. Len(job.data) - 3
  BY PartFacts
<1>3. Hash(SubSeq(job.data, p + 1, p + 1 + 3)) \in Buckets
      /\ Hash3(SubSeq(job.data, p + 1, p + 1 + 2)) \in Buckets
  BY <1>1, <1>2, HashAssumption, Zenon
<1>4. p + 1 + 3 = p + 4 /\ p + 1 + 2 = p + 3
  OBVIOUS
<1>. QED  BY <1>3, <1>4 DEF HashAt, Hash3At, Bytes

\* Equal runs of bytes are equal byte by byte.
LEMMA EqualBytes ==
  ASSUME TypeOK, NEW p \in Nat, NEW q \in Nat, NEW n \in Nat,
         p + n <= job.inend + 3, q + n <= job.inend + 3, Bytes(p, n) = Bytes(q, n)
  PROVE  \A k \in 0 .. n - 1 : in(p + k) = in(q + k)
<1>. SUFFICES ASSUME NEW k \in 0 .. n - 1 PROVE in(p + k) = in(q + k)
  OBVIOUS
<1>1. job.data \in Seq(0 .. 255) /\ Len(job.data) \in Nat /\ Len(job.data) >= job.inend + 17
      /\ job.inend \in Nat
  BY PartFacts
<1>2. SubSeq(job.data, p + 1, p + n)[k + 1] = job.data[p + k + 1]
  BY <1>1
<1>3. SubSeq(job.data, q + 1, q + n)[k + 1] = job.data[q + k + 1]
  BY <1>1
<1>. QED  BY <1>2, <1>3 DEF Bytes, in

\* A remainder is smaller than the divisor.
LEMMA Remainder ==
  ASSUME NEW a \in Nat, NEW n \in Nat, n > 0
  PROVE  a % n \in 0 .. n - 1
OBVIOUS

\* What inserting a position changes, and that it keeps the finder in order.
LEMMA InsertKeeps ==
  ASSUME NEW size \in Nat, size > 1, NEW f \in Table(size), NEW low \in Int, FinderInv(f, low, size),
         NEW idx \in Nat, f.nextToUpdate <= idx, idx = f.nextToUpdate \/ idx = low,
         NEW h \in Buckets
  PROVE  /\ Inserted(f, idx, h, size) \in Table(size)
         /\ FinderInv(Inserted(f, idx, h, size), low, size)
         /\ Inserted(f, idx, h, size).nextToUpdate = idx + 1
<1>. DEFINE step == Least(idx - f.hashTable[h], size - 1)
            g == Inserted(f, idx, h, size)
<1>1. f.hashTable \in [Buckets -> Nat] /\ f.chainTable \in [0 .. size - 1 -> Nat]
      /\ f.nextToUpdate \in Nat
  BY DEF Table
<1>2. f.hashTable[h] \in Nat /\ f.hashTable[h] < f.nextToUpdate
  BY <1>1 DEF FinderInv
<1>3. step \in 1 .. size - 1
  BY <1>1, <1>2 DEF Least
<1>4. idx % size \in 0 .. size - 1
  BY Remainder
<1>5. /\ g.hashTable = [f.hashTable EXCEPT ![h] = idx]
      /\ g.chainTable = [f.chainTable EXCEPT ![idx % size] = step]
      /\ g.nextToUpdate = idx + 1
      /\ g = [hashTable |-> g.hashTable, chainTable |-> g.chainTable, nextToUpdate |-> g.nextToUpdate]
  BY DEF Inserted
<1>. HIDE DEF step, g
<1>6. g \in Table(size)
  <2>1. g.hashTable \in [Buckets -> Nat]
    BY <1>1, <1>5
  <2>2. g.chainTable \in [0 .. size - 1 -> Nat]
    BY <1>1, <1>3, <1>5
  <2>3. g.nextToUpdate \in Nat
    BY <1>5
  <2>. QED  BY <1>5, <2>1, <2>2, <2>3 DEF Table
<1>7. \A b \in Buckets : g.hashTable[b] < g.nextToUpdate
  <2>1. SUFFICES ASSUME NEW b \in Buckets PROVE g.hashTable[b] < g.nextToUpdate
    OBVIOUS
  <2>2. f.hashTable[b] \in Nat /\ f.hashTable[b] < f.nextToUpdate
    BY <1>1 DEF FinderInv
  <2>3. g.hashTable[b] = IF b = h THEN idx ELSE f.hashTable[b]
    BY <1>1, <1>5
  <2>. QED  BY <1>1, <1>5, <2>2, <2>3
<1>8. ASSUME NEW k \in Nat, size <= k, low <= k, k < g.nextToUpdate
      PROVE  g.chainTable[k % size] \in 1 .. size - 1
  <2>1. k % size \in 0 .. size - 1
    BY Remainder
  <2>2. CASE k % size = idx % size
    BY <1>1, <1>3, <1>4, <1>5, <2>1, <2>2
  <2>3. CASE k % size # idx % size
    <3>1. k # idx /\ k < idx
      BY <1>5, <1>8, <2>3
    <3>2. k < f.nextToUpdate
      BY <1>1, <1>8, <3>1
    <3>3. f.chainTable[k % size] \in 1 .. size - 1
      BY <1>8, <3>2 DEF FinderInv
    <3>. QED  BY <1>1, <1>5, <2>1, <2>3, <3>3
  <2>. QED  BY <2>2, <2>3
<1>. QED  BY <1>5, <1>6, <1>7, <1>8 DEF FinderInv, g

-----------------------------------------------------------------------------
(* the store *)

\* An entry that fits to the end of the store keeps the store in order.
LEMMA EntryStored ==
  ASSUME TypeOK, StoreInv, job' = job, NEW e, Store(e), e.litlen \in Nat, e.dist \in Nat, e.at \in Nat,
         e.at = StoreEnd, NEW n \in Nat,
         \/ e.dist = 0 /\ e.litlen = in(e.at) /\ e.litlen < 256 /\ n = 1
         \/ /\ e.dist # 0 /\ e.litlen >= 256 /\ Unpacked(e.litlen) = n
            /\ \E d \in 1 .. MaxD - 1 : e.dist = ZopfliGetDistSymbol(d) + 1 /\ Valid(e.at, n, d)
  PROVE  /\ litlens' \in Seq(Nat) /\ dists' \in Seq(Nat) /\ at' \in Seq(Nat)
         /\ Len(dists') = Len(litlens') /\ Len(at') = Len(litlens')
         /\ \A k \in 1 .. Len(at') : EntryOK(k)'
         /\ StoreEnd' = e.at + n
<1>0. PICK m \in Nat : m = Len(at)
  BY LenProperties, ElementOfSeq DEF TypeOK
<1>1. /\ litlens \in Seq(Nat) /\ dists \in Seq(Nat) /\ at \in Seq(Nat)
      /\ m \in Nat /\ Len(at) = m /\ Len(litlens) = m /\ Len(dists) = m
  BY <1>0 DEF TypeOK
<1>2. litlens' = Append(litlens, e.litlen) /\ dists' = Append(dists, e.dist) /\ at' = Append(at, e.at)
  BY DEF Store
<1>3. /\ litlens' \in Seq(Nat) /\ Len(litlens') = m + 1 /\ litlens'[m + 1] = e.litlen
      /\ \A a \in 1 .. m : litlens'[a] = litlens[a]
  <2>1. litlens \in Seq(Nat) /\ e.litlen \in Nat /\ Len(litlens) = m /\ litlens' = Append(litlens, e.litlen)
    BY <1>1, <1>2
  <2>. QED  BY <2>1, AppendProperties
<1>4. /\ dists' \in Seq(Nat) /\ Len(dists') = m + 1 /\ dists'[m + 1] = e.dist
      /\ \A a \in 1 .. m : dists'[a] = dists[a]
  <2>1. dists \in Seq(Nat) /\ e.dist \in Nat /\ Len(dists) = m /\ dists' = Append(dists, e.dist)
    BY <1>1, <1>2
  <2>. QED  BY <2>1, AppendProperties
<1>5. /\ at' \in Seq(Nat) /\ Len(at') = m + 1 /\ at'[m + 1] = e.at
      /\ \A a \in 1 .. m : at'[a] = at[a]
  <2>1. at \in Seq(Nat) /\ e.at \in Nat /\ Len(at) = m /\ at' = Append(at, e.at)
    BY <1>1, <1>2
  <2>. QED  BY <2>1, AppendProperties
<1>6. at' # <<>> /\ (at = <<>> <=> m = 0)
  BY <1>1, <1>5, EmptySeq
<1>7. \A k \in 1 .. m : LengthOf(k)' = LengthOf(k)
  BY <1>3, <1>4 DEF LengthOf
<1>8. LengthOf(m + 1)' = n
  BY <1>3, <1>4 DEF LengthOf
<1>9. StoreEnd = IF m = 0 THEN job.instart ELSE at[m] + LengthOf(m)
  BY <1>1, <1>6 DEF StoreEnd
<1>10. ASSUME NEW k \in 1 .. m PROVE EntryOK(k)'
  <2>1. EntryOK(k)
    BY <1>1, <1>10 DEF StoreInv
  <2>2. at'[k] = at[k] /\ dists'[k] = dists[k] /\ litlens'[k] = litlens[k]
        /\ LengthOf(k)' = LengthOf(k)
    BY <1>3, <1>4, <1>5, <1>7
  <2>3. k # 1 => at'[k - 1] = at[k - 1] /\ LengthOf(k - 1)' = LengthOf(k - 1)
    <3>1. k # 1 => k - 1 \in 1 .. m
      BY <1>1
    <3>. QED  BY <1>5, <1>7, <3>1
  <2>4. at'[k] = IF k = 1 THEN job.instart ELSE at'[k - 1] + LengthOf(k - 1)'
    BY <2>1, <2>2, <2>3 DEF EntryOK
  <2>5. CASE dists[k] = 0
    <3>1. litlens[k] = in(at[k])
      BY <2>1, <2>5 DEF EntryOK
    <3>. QED  BY <2>2, <2>4, <2>5, <3>1 DEF EntryOK, in
  <2>6. CASE dists[k] # 0
    <3>1. PICK d \in 1 .. MaxD - 1 : dists[k] = ZopfliGetDistSymbol(d) + 1 /\ Valid(at[k], LengthOf(k), d)
      BY <2>1, <2>6 DEF EntryOK
    <3>2. Valid(at[k], LengthOf(k), d)'
      BY <2>2, <3>1 DEF Valid, Copies, in
    <3>3. dists'[k] # 0 /\ dists'[k] = ZopfliGetDistSymbol(d) + 1
      BY <2>2, <2>6, <3>1
    <3>. QED  BY <2>4, <3>2, <3>3 DEF EntryOK
  <2>. QED  BY <2>5, <2>6
<1>11. EntryOK(m + 1)'
  <2>1. at'[m + 1] = IF m + 1 = 1 THEN job.instart ELSE at'[m + 1 - 1] + LengthOf(m + 1 - 1)'
    <3>1. CASE m = 0
      BY <1>5, <1>9, <3>1
    <3>2. CASE m # 0
      <4>1. m \in 1 .. m /\ m + 1 - 1 = m /\ m + 1 # 1
        BY <1>1, <3>2
      <4>. QED  BY <1>5, <1>7, <1>9, <3>2, <4>1
    <3>. QED  BY <3>1, <3>2
  <2>2. CASE e.dist = 0 /\ e.litlen = in(e.at) /\ e.litlen < 256 /\ n = 1
    BY <1>3, <1>4, <1>5, <2>1, <2>2 DEF EntryOK, in
  <2>3. CASE /\ e.dist # 0 /\ e.litlen >= 256 /\ Unpacked(e.litlen) = n
             /\ \E d \in 1 .. MaxD - 1 : e.dist = ZopfliGetDistSymbol(d) + 1 /\ Valid(e.at, n, d)
    <3>1. PICK d \in 1 .. MaxD - 1 : e.dist = ZopfliGetDistSymbol(d) + 1 /\ Valid(e.at, n, d)
      BY <2>3
    <3>2. Valid(at[m + 1], LengthOf(m + 1), d)'
      BY <1>5, <1>8, <3>1 DEF Valid, Copies, in
    <3>3. dists'[m + 1] # 0 /\ dists'[m + 1] = ZopfliGetDistSymbol(d) + 1
      BY <1>4, <2>3, <3>1
    <3>. QED  BY <2>1, <3>2, <3>3 DEF EntryOK
  <2>. QED  BY <2>2, <2>3
<1>12. \A k \in 1 .. Len(at') : EntryOK(k)'
  <2>1. \A k \in 1 .. m + 1 : k \in 1 .. m \/ k = m + 1
    BY <1>1
  <2>. QED  BY <1>5, <1>10, <1>11, <2>1
<1>13. StoreEnd' = e.at + n
  BY <1>5, <1>6, <1>8 DEF StoreEnd
<1>. QED  BY <1>3, <1>4, <1>5, <1>12, <1>13

\* A byte that is stored from where the store ends.
LEMMA LiteralStored ==
  ASSUME TypeOK, StoreInv, job' = job, NEW p \in Nat, p < job.inend, p = StoreEnd, Store(Literal(p))
  PROVE  /\ litlens' \in Seq(Nat) /\ dists' \in Seq(Nat) /\ at' \in Seq(Nat)
         /\ Len(dists') = Len(litlens') /\ Len(at') = Len(litlens')
         /\ \A k \in 1 .. Len(at') : EntryOK(k)'
         /\ StoreEnd' = p + 1
<1>1. in(p) \in Nat /\ in(p) < 256
  <2>1. p \in 0 .. job.inend + 2
    BY PartFacts
  <2>2. in(p) \in 0 .. 255
    BY <2>1, PartFacts
  <2>. QED  BY <2>2
<1>2. Literal(p).litlen = in(p) /\ Literal(p).dist = 0 /\ Literal(p).at = p
  BY DEF Literal
<1>. DEFINE e == Literal(p)
<1>3. e.litlen \in Nat /\ e.dist \in Nat /\ e.at \in Nat /\ e.at = StoreEnd /\ e.at = p
      /\ e.dist = 0 /\ e.litlen = in(e.at) /\ e.litlen < 256 /\ Store(e)
  BY <1>1, <1>2
<1>. HIDE DEF e
<1>. QED  BY <1>3, EntryStored

\* A match that is stored from where the store ends.
LEMMA MatchStored ==
  ASSUME TypeOK, StoreInv, job' = job, NEW p \in Nat, p = StoreEnd,
         NEW l, NEW d, Valid(p, l, d), Store(Match(p, l, d))
  PROVE  /\ litlens' \in Seq(Nat) /\ dists' \in Seq(Nat) /\ at' \in Seq(Nat)
         /\ Len(dists') = Len(litlens') /\ Len(at') = Len(litlens')
         /\ \A k \in 1 .. Len(at') : EntryOK(k)'
         /\ StoreEnd' = p + l
<1>1. l \in 3 .. 258 /\ d \in 1 .. MaxD - 1 /\ d \in Nat /\ d > 0 /\ l \in Nat
  BY WindowFacts DEF Valid
<1>2. Packed(l) \in Nat /\ Packed(l) >= 256 /\ Unpacked(Packed(l)) = l
  BY <1>1, PackUnpack
<1>3. ZopfliGetDistSymbol(d) \in Nat
  BY <1>1, DistSymbol
<1>4. /\ Match(p, l, d).litlen = Packed(l) /\ Match(p, l, d).at = p
      /\ Match(p, l, d).dist = ZopfliGetDistSymbol(d) + 1
  BY DEF Match
<1>. DEFINE e == Match(p, l, d)
<1>5. e.litlen \in Nat /\ e.dist \in Nat /\ e.at \in Nat /\ e.at = StoreEnd /\ e.at = p
      /\ e.dist # 0 /\ e.litlen >= 256 /\ Unpacked(e.litlen) = l /\ Store(e)
  BY <1>2, <1>3, <1>4
<1>6. e.dist = ZopfliGetDistSymbol(d) + 1 /\ Valid(e.at, l, d)
  BY <1>4
<1>. HIDE DEF e
<1>7. \E b \in 1 .. MaxD - 1 : e.dist = ZopfliGetDistSymbol(b) + 1 /\ Valid(e.at, l, b)
  BY <1>1, <1>6
<1>. QED  BY <1>1, <1>5, <1>7, EntryStored

-----------------------------------------------------------------------------
(* the steps *)

\* The steps that leave the store and the position alone, and the others.
Quiet ==
  \/ NextTurn \/ EndOfPart \/ Insert \/ Lookup \/ Longer \/ NotLonger \/ Searched
  \/ Take \/ Keep \/ TryThree \/ Insert3 \/ Lookup3 \/ Three \/ NotThree \/ Repeated \/ Stopped
Storing ==
  NoMatch \/ ByteBefore \/ Longest \/ Repeat \/ Better \/ TakePrevious \/ Defer \/ Greedy

\* What a quiet step leaves alone.
LEMMA QuietFrame ==
  ASSUME Quiet
  PROVE  job' = job /\ UNCHANGED <<i, prev_length, prev_match, match_available>> /\ UNCHANGED store
<1>1. CASE NextTurn
  BY <1>1 DEF NextTurn, pending
<1>2. CASE EndOfPart
  BY <1>2 DEF EndOfPart, pending
<1>3. CASE Insert
  BY <1>3 DEF Insert, pending
<1>4. CASE Lookup
  BY <1>4 DEF Lookup, pending
<1>5. CASE Longer
  BY <1>5 DEF Longer, pending
<1>6. CASE NotLonger
  BY <1>6 DEF NotLonger, pending
<1>7. CASE Searched \/ Keep \/ TryThree \/ Repeated
  BY <1>7 DEF Searched, Keep, TryThree, Repeated, pending
<1>8. CASE Take
  BY <1>8 DEF Take, pending
<1>9. CASE Insert3
  BY <1>9 DEF Insert3, pending
<1>10. CASE Lookup3
  BY <1>10 DEF Lookup3, pending
<1>11. CASE Three
  BY <1>11 DEF Three, pending
<1>12. CASE NotThree
  BY <1>12 DEF NotThree, pending
<1>13. CASE Stopped
  BY <1>13 DEF Stopped, vars, pending, store
<1>. QED
  BY <1>1, <1>2, <1>3, <1>4, <1>5, <1>6, <1>7, <1>8, <1>9, <1>10, <1>11, <1>12, <1>13 DEF Quiet

\* What a step that stores or moves leaves alone, and where it leads.
LEMMA StoringFrame ==
  ASSUME Storing
  PROVE  /\ job' = job /\ UNCHANGED <<y, matchpos, matchIndex, nbAttempts, hc4, h3>>
         /\ pc' \in {"turn", "score", "repeat"}
<1>1. CASE NoMatch
  BY <1>1 DEF NoMatch, found, search, finders
<1>2. CASE ByteBefore
  BY <1>2 DEF ByteBefore, found, search, finders
<1>3. CASE Longest
  BY <1>3 DEF Longest, found, search, finders
<1>4. CASE Repeat
  BY <1>4 DEF Repeat, found, search, finders
<1>5. CASE Better
  BY <1>5 DEF Better, HoldBack, found, search, finders
<1>6. CASE TakePrevious
  BY <1>6 DEF TakePrevious, found, search, finders
<1>7. CASE Defer
  BY <1>7 DEF Defer, HoldBack, found, search, finders
<1>8. CASE Greedy
  BY <1>8 DEF Greedy, found, search, finders
<1>. QED  BY <1>1, <1>2, <1>3, <1>4, <1>5, <1>6, <1>7, <1>8 DEF Storing

\* The part and its window do not move.
LEMMA Unmoved ==
  ASSUME TypeOK, job' = job
  PROVE  /\ windowstart' = windowstart /\ start3' = start3
         /\ ip' = i' - windowstart + MaxD /\ ip3' = i' - start3 + MaxD3
<1>1. windowstart' = windowstart /\ start3' = start3
  BY DEF windowstart, start3, Most
<1>. QED  BY <1>1 DEF ip, ip3, Index

\* The indices of a position grow with it.
LEMMA Forward ==
  ASSUME TypeOK, job' = job, NEW q \in Nat, i <= q, i' = q
  PROVE  \E a \in Nat, b \in Nat : a >= ip /\ ip' = a /\ b >= ip3 /\ ip3' = b /\ low3' = b - (MaxD3 - 1)
<1>1. ip' = q - windowstart + MaxD /\ ip3' = q - start3 + MaxD3
  BY Unmoved
<1>2. /\ windowstart \in Nat /\ start3 \in Nat /\ i \in Nat /\ MaxD \in Nat /\ MaxD3 \in Nat
      /\ ip = i - windowstart + MaxD /\ ip \in Nat /\ ip3 = i - start3 + MaxD3 /\ ip3 \in Nat
  BY WindowFacts
<1>3. PICK a \in Nat : a = q - windowstart + MaxD /\ a >= ip
  BY <1>2
<1>4. PICK b \in Nat : b = q - start3 + MaxD3 /\ b >= ip3
  BY <1>2
<1>5. low3' = ip3' - (MaxD3 - 1)
  BY DEF low3
<1>6. ip' = a /\ ip3' = b /\ low3' = b - (MaxD3 - 1)
  BY <1>1, <1>3, <1>4, <1>5
<1>. QED  BY <1>3, <1>4, <1>6, Zenon

\* A store that is left alone stays in order.
LEMMA StoreKept ==
  ASSUME TypeOK, StoreInv, job' = job, UNCHANGED store
  PROVE  (\A k \in 1 .. Len(at') : EntryOK(k)') /\ StoreEnd' = StoreEnd
<1>1. litlens' = litlens /\ dists' = dists /\ at' = at
  BY DEF store
<1>2. StoreEnd' = StoreEnd
  BY <1>1 DEF StoreEnd, LengthOf
<1>3. ASSUME NEW k \in 1 .. Len(at) PROVE EntryOK(k)'
  <2>1. EntryOK(k)
    BY <1>3 DEF StoreInv
  <2>. QED  BY <1>1, <2>1 DEF EntryOK, LengthOf, Valid, Copies, in
<1>. QED  BY <1>1, <1>2, <1>3

\* The parse starts in order.
LEMMA InitInv == Init => IInv
<1>. SUFFICES ASSUME Init PROVE IInv
  OBVIOUS
<1>1. /\ job \in Jobs /\ pc = "turn" /\ i = job.instart /\ match_available = FALSE
      /\ leng = 0 /\ dist = 0 /\ prev_length = 0 /\ prev_match = 0
      /\ y = 3 /\ matchpos = 0 /\ matchIndex = 0 /\ nbAttempts = 0
      /\ hc4 = Finder(MaxD) /\ h3 = Finder(MaxD3)
      /\ litlens = <<>> /\ dists = <<>> /\ at = <<>>
  BY DEF Init
<1>2. ASSUME NEW size \in Nat, size > 1, NEW low \in Int
      PROVE  /\ Finder(size) \in Table(size) /\ FinderInv(Finder(size), low, size)
             /\ Finder(size).nextToUpdate = size
  BY <1>2 DEF Finder, Table, FinderInv
<1>3. TypeOK
  <2>1. job.instart \in Nat /\ job.inend \in Nat /\ job.instart <= job.inend
    BY <1>1, JobsAssumption DEF IsJob
  <2>2. hc4 \in Table(MaxD) /\ h3 \in Table(MaxD3)
    BY <1>1, <1>2, SizesAssumption
  <2>3. litlens \in Seq(Nat) /\ dists \in Seq(Nat) /\ at \in Seq(Nat)
        /\ Len(dists) = Len(litlens) /\ Len(at) = Len(litlens)
    BY <1>1
  <2>4. {leng, dist, prev_length, prev_match, y} \subseteq Nat /\ {matchIndex, nbAttempts} \subseteq Nat
    BY <1>1
  <2>5. i \in job.instart .. job.inend /\ matchpos \in Nat \cup {Unset}
    BY <1>1, <2>1
  <2>7. match_available \in BOOLEAN
    BY <1>1, Zenon
  <2>6. pc \in {"turn", "insert", "search", "found", "insert3", "search3", "score", "repeat", "done"}
    BY <1>1
  <2>. QED  BY <1>1, <2>2, <2>3, <2>4, <2>5, <2>6, <2>7 DEF TypeOK
<1>4. HeldInv /\ FoundInv /\ ScoreInv /\ TurnInv
  BY <1>1 DEF HeldInv, FoundInv, ScoreInv, TurnInv
<1>5. StoreInv
  BY <1>1 DEF StoreInv, StoreEnd
<1>6. FourInv
  <2>1. FinderInv(hc4, 0, MaxD) /\ hc4.nextToUpdate = MaxD
    BY <1>1, <1>2, <1>3, WindowFacts
  <2>. QED  BY <1>1, <1>3, <2>1, WindowFacts DEF FourInv
<1>7. ThreeInv
  <2>1. low3 \in Int
    BY <1>3, WindowFacts DEF low3
  <2>2. FinderInv(h3, low3, MaxD3) /\ h3.nextToUpdate = MaxD3
    BY <1>1, <1>2, <1>3, <2>1, WindowFacts
  <2>. QED  BY <1>1, <1>3, <2>2, WindowFacts DEF ThreeInv
<1>. QED  BY <1>3, <1>4, <1>5, <1>6, <1>7 DEF IInv

\* A step that stores or moves leaves the finders in order, once it is known not
\* to move back, what it holds back, and that the store is in order.
LEMMA StoringRest ==
  ASSUME IInv, Storing,
         NEW q \in Nat, i' = q, i <= q, q <= job.inend, match_available' \in BOOLEAN,
         leng' \in Nat, dist' \in Nat, prev_length' \in Nat, prev_match' \in Nat,
         litlens' \in Seq(Nat), dists' \in Seq(Nat), at' \in Seq(Nat),
         Len(dists') = Len(litlens'), Len(at') = Len(litlens'),
         HeldInv', ScoreInv', TurnInv', StoreInv'
  PROVE  IInv'
<1>1. /\ TypeOK /\ FourInv /\ ThreeInv /\ job' = job
      /\ UNCHANGED <<y, matchpos, matchIndex, nbAttempts, hc4, h3>>
      /\ pc' \in {"turn", "score", "repeat"}
  BY StoringFrame DEF IInv
<1>2. TypeOK'
  <2>1. i' \in job'.instart .. job'.inend
    <3>1. i \in Nat /\ job.instart \in Nat /\ job.inend \in Nat /\ job.instart <= i
      BY <1>1, PartFacts, WindowFacts
    <3>2. q \in job.instart .. job.inend
      BY <3>1
    <3>. QED  BY <1>1, <3>2
  <2>2. {leng, dist, prev_length, prev_match, y}' \subseteq Nat /\ {matchIndex, nbAttempts}' \subseteq Nat
    BY <1>1 DEF TypeOK
  <2>3. /\ job' \in Jobs /\ matchpos' \in Nat \cup {Unset}
        /\ hc4' \in Table(MaxD) /\ h3' \in Table(MaxD3)
    BY <1>1 DEF TypeOK
  <2>4. pc' \in {"turn", "insert", "search", "found", "insert3", "search3", "score", "repeat", "done"}
    BY <1>1
  <2>. QED  BY <2>1, <2>2, <2>3, <2>4 DEF TypeOK
<1>3. FoundInv'
  BY <1>1 DEF FoundInv
<1>4. PICK a \in Nat, b \in Nat :
        a >= ip /\ ip' = a /\ b >= ip3 /\ ip3' = b /\ low3' = b - (MaxD3 - 1)
  BY <1>1, Forward
<1>5. /\ ip \in Nat /\ ip3 \in Nat /\ MaxD \in Nat /\ MaxD3 \in Nat
      /\ hc4.nextToUpdate \in Nat /\ h3.nextToUpdate \in Nat
  BY <1>1, WindowFacts DEF TypeOK, Table
<1>6. FourInv'
  <2>1. FinderInv(hc4, 0, MaxD)'
    BY <1>1 DEF FourInv, FinderInv
  <2>2. MaxD <= hc4.nextToUpdate /\ hc4.nextToUpdate <= a
    BY <1>1, <1>4, <1>5 DEF FourInv
  <2>. QED  BY <1>1, <1>4, <2>1, <2>2 DEF FourInv
<1>7. ThreeInv'
  <2>1. low3 = ip3 - (MaxD3 - 1)
    BY DEF low3
  <2>2. FinderInv(h3, b - (MaxD3 - 1), MaxD3)
    BY <1>1, <1>4, <1>5, <2>1 DEF ThreeInv, FinderInv
  <2>3. FinderInv(h3, low3, MaxD3)'
    BY <1>1, <1>4, <2>2 DEF FinderInv
  <2>4. MaxD3 <= h3.nextToUpdate /\ h3.nextToUpdate <= b
    BY <1>1, <1>4, <1>5 DEF ThreeInv
  <2>. QED  BY <1>1, <1>4, <2>3, <2>4 DEF ThreeInv
<1>. QED  BY <1>2, <1>3, <1>6, <1>7 DEF IInv

\* What a match held back, or one that is scored, is known to be.
LEMMA ValidFacts ==
  ASSUME TypeOK, NEW p, NEW l, NEW d, Valid(p, l, d)
  PROVE  l \in Nat /\ l >= 3 /\ l <= MaxMatch /\ d \in Nat /\ d >= 1 /\ p + l <= job.inend
BY WindowFacts DEF Valid

\* The steps that store or move.
LEMMA StoringInv ==
  ASSUME IInv, Storing
  PROVE  IInv'
<1>0. /\ TypeOK /\ HeldInv /\ ScoreInv /\ TurnInv /\ StoreInv
      /\ i \in Nat /\ job.inend \in Nat /\ job.instart \in Nat /\ job.instart <= i /\ i <= job.inend
      /\ MaxMatch \in 5 .. 258 /\ MaxD \in Nat /\ MaxD > 1
  BY PartFacts, WindowFacts DEF IInv
<1>1. /\ leng \in Nat /\ dist \in Nat /\ prev_length \in Nat /\ prev_match \in Nat
      /\ match_available \in BOOLEAN
      /\ litlens \in Seq(Nat) /\ dists \in Seq(Nat) /\ at \in Seq(Nat)
      /\ Len(dists) = Len(litlens) /\ Len(at) = Len(litlens)
  BY <1>0 DEF TypeOK
<1>2. job' = job
  BY StoringFrame
<1>3. /\ i = job.instart => ~match_available
      /\ StoreEnd = IF match_available THEN i - 1 ELSE i
  BY <1>0 DEF HeldInv, StoreInv
<1>4. pc = "score" /\ ~match_available => Valid(i, leng, dist) /\ StoreEnd = i
  BY <1>0, <1>3 DEF ScoreInv
<1>5. match_available => /\ i > job.instart /\ i - 1 \in Nat /\ StoreEnd = i - 1
                         /\ prev_length < MaxMatch /\ Valid(i - 1, prev_length, prev_match)
  BY <1>0, <1>3 DEF HeldInv
<1>6. CASE NoMatch
  <2>1. /\ Store(Literal(i)) /\ i' = i + 1 /\ pc' = "turn" /\ pc = "search3"
        /\ UNCHANGED <<leng, dist, prev_length, prev_match, match_available>>
    BY <1>6 DEF NoMatch, pending
  <2>2. ~match_available /\ i < job.inend
    BY <1>0, <2>1 DEF HeldInv, TurnInv
  <2>3. /\ litlens' \in Seq(Nat) /\ dists' \in Seq(Nat) /\ at' \in Seq(Nat)
        /\ Len(dists') = Len(litlens') /\ Len(at') = Len(litlens')
        /\ \A k \in 1 .. Len(at') : EntryOK(k)'
        /\ StoreEnd' = i + 1
    BY <1>0, <1>2, <1>3, <2>1, <2>2, LiteralStored
  <2>4. HeldInv' /\ ScoreInv' /\ TurnInv' /\ StoreInv'
    BY <2>1, <2>2, <2>3 DEF HeldInv, ScoreInv, TurnInv, StoreInv
  <2>5. i + 1 \in Nat /\ i <= i + 1 /\ i + 1 <= job.inend
    BY <1>0, <2>2
  <2>. QED  BY <1>1, <2>1, <2>3, <2>4, <2>5, StoringRest
<1>7. CASE ByteBefore
  <2>1. /\ Store(Literal(i - 1)) /\ i' = i /\ pc' = "score" /\ pc = "score"
        /\ leng = MaxMatch /\ match_available /\ match_available' = FALSE
        /\ UNCHANGED <<leng, dist, prev_length, prev_match>>
    BY <1>7 DEF ByteBefore
  <2>2. i - 1 \in Nat /\ i - 1 < job.inend /\ StoreEnd = i - 1
    BY <1>0, <1>5, <2>1
  <2>3. /\ litlens' \in Seq(Nat) /\ dists' \in Seq(Nat) /\ at' \in Seq(Nat)
        /\ Len(dists') = Len(litlens') /\ Len(at') = Len(litlens')
        /\ \A k \in 1 .. Len(at') : EntryOK(k)'
        /\ StoreEnd' = i - 1 + 1
    BY <1>0, <1>2, <2>1, <2>2, LiteralStored
  <2>4. Valid(i, leng, dist)
    BY <1>0, <1>1, <1>5, <2>1 DEF ScoreInv
  <2>5. Valid(i, leng, dist)' /\ i < job.inend
    BY <1>0, <1>2, <2>1, <2>4 DEF Valid, Copies, in, TurnInv
  <2>6. StoreInv'
    <3>1. i - 1 + 1 = i
      BY <1>0
    <3>. QED  BY <2>1, <2>3, <3>1 DEF StoreInv
  <2>7. HeldInv' /\ ScoreInv' /\ TurnInv'
    BY <1>2, <2>1, <2>5 DEF HeldInv, ScoreInv, TurnInv
  <2>8. i \in Nat /\ i <= i /\ i <= job.inend
    BY <1>0
  <2>. QED  BY <1>1, <2>1, <2>3, <2>6, <2>7, <2>8, StoringRest
<1>8. CASE Longest
  <2>1. /\ Store(Match(i, leng, dist)) /\ i' = i + leng
        /\ pc' = (IF dist = 1 THEN "repeat" ELSE "turn") /\ pc = "score"
        /\ leng = MaxMatch /\ ~match_available
        /\ UNCHANGED <<leng, dist, prev_length, prev_match, match_available>>
    BY <1>8 DEF Longest, pending
  <2>2. Valid(i, leng, dist) /\ StoreEnd = i
    BY <1>4, <2>1
  <2>3. /\ litlens' \in Seq(Nat) /\ dists' \in Seq(Nat) /\ at' \in Seq(Nat)
        /\ Len(dists') = Len(litlens') /\ Len(at') = Len(litlens')
        /\ \A k \in 1 .. Len(at') : EntryOK(k)'
        /\ StoreEnd' = i + leng
    BY <1>0, <1>2, <2>1, <2>2, MatchStored
  <2>4. i + leng \in Nat /\ i <= i + leng /\ i + leng <= job.inend /\ i + leng >= 1
    BY <1>0, <1>1, <2>1, <2>2, ValidFacts
  <2>5. HeldInv' /\ ScoreInv' /\ StoreInv'
    BY <2>1, <2>3 DEF HeldInv, ScoreInv, StoreInv
  <2>6. TurnInv'
    BY <2>1, <2>4 DEF TurnInv
  <2>. QED  BY <1>1, <2>1, <2>3, <2>4, <2>5, <2>6, StoringRest
<1>9. CASE Repeat
  <2>1. /\ Store(Match(i, leng, dist)) /\ i' = i + leng /\ pc' = "repeat" /\ pc = "repeat" /\ Repeats
        /\ UNCHANGED <<leng, dist, prev_length, prev_match, match_available>>
    BY <1>9 DEF Repeat, pending
  <2>2. ~match_available /\ StoreEnd = i /\ dist = 1 /\ leng = MaxMatch /\ i >= 1
    BY <1>0, <1>3, <2>1 DEF HeldInv, TurnInv
  <2>3. Valid(i, leng, dist)
    <3>1. i + MaxMatch <= job.inend /\ Copies(i, 1, MaxMatch)
      BY <2>1 DEF Repeats
    <3>2. MaxMatch \in 3 .. MaxMatch /\ 1 \in 1 .. MaxD - 1
      BY <1>0
    <3>. QED  BY <2>2, <3>1, <3>2 DEF Valid
  <2>4. /\ litlens' \in Seq(Nat) /\ dists' \in Seq(Nat) /\ at' \in Seq(Nat)
        /\ Len(dists') = Len(litlens') /\ Len(at') = Len(litlens')
        /\ \A k \in 1 .. Len(at') : EntryOK(k)'
        /\ StoreEnd' = i + leng
    BY <1>0, <1>2, <2>1, <2>2, <2>3, MatchStored
  <2>5. i + leng \in Nat /\ i <= i + leng /\ i + leng <= job.inend /\ i + leng >= 1
    BY <1>0, <1>1, <2>2, <2>3, ValidFacts
  <2>6. HeldInv' /\ ScoreInv' /\ StoreInv'
    BY <2>1, <2>2, <2>4 DEF HeldInv, ScoreInv, StoreInv
  <2>7. TurnInv'
    BY <2>1, <2>2, <2>5 DEF TurnInv
  <2>. QED  BY <1>1, <2>1, <2>4, <2>5, <2>6, <2>7, StoringRest
<1>10. CASE Better
  <2>1. /\ Store(Literal(i - 1)) /\ i' = i + 1 /\ pc' = "turn" /\ pc = "score"
        /\ leng # MaxMatch /\ match_available /\ match_available' = TRUE /\ lengthscore > prev_length + 1
        /\ prev_length' = leng /\ prev_match' = dist /\ leng' = leng /\ dist' = dist
    BY <1>10 DEF Better, HoldBack
  <2>2. i - 1 \in Nat /\ i - 1 < job.inend /\ StoreEnd = i - 1 /\ i < job.inend
    BY <1>0, <1>5, <2>1 DEF TurnInv
  <2>3. /\ litlens' \in Seq(Nat) /\ dists' \in Seq(Nat) /\ at' \in Seq(Nat)
        /\ Len(dists') = Len(litlens') /\ Len(at') = Len(litlens')
        /\ \A k \in 1 .. Len(at') : EntryOK(k)'
        /\ StoreEnd' = i - 1 + 1
    BY <1>0, <1>2, <2>1, <2>2, LiteralStored
  <2>4. leng # prev_length
    BY <1>1, <2>1 DEF lengthscore
  <2>5. Valid(i, leng, dist) /\ leng < MaxMatch
    <3>1. Valid(i, leng, dist)
      BY <1>0, <2>1, <2>4 DEF ScoreInv
    <3>. QED  BY <1>0, <1>1, <2>1, <3>1, ValidFacts
  <2>6. HeldInv'
    <3>1. i + 1 - 1 = i /\ i + 1 > job.instart /\ i' - 1 = i
      BY <1>0, <2>1
    <3>2. Valid(i' - 1, prev_length', prev_match')
      BY <2>1, <2>5, <3>1, Zenon
    <3>3. Valid(i - 1, prev_length, prev_match)'
      BY <1>2, <3>2 DEF Valid, Copies, in
    <3>. QED  BY <1>2, <2>1, <2>5, <3>1, <3>3 DEF HeldInv
  <2>7. StoreInv'
    <3>1. i - 1 + 1 = i' - 1
      BY <1>0, <2>1
    <3>2. StoreEnd' = i' - 1
      BY <2>3, <3>1
    <3>. QED  BY <2>1, <2>3, <3>2, Zenon DEF StoreInv
  <2>8. ScoreInv' /\ TurnInv'
    BY <2>1 DEF ScoreInv, TurnInv
  <2>9. i + 1 \in Nat /\ i <= i + 1 /\ i + 1 <= job.inend
    BY <1>0, <2>2
  <2>. QED  BY <1>1, <2>1, <2>3, <2>6, <2>7, <2>8, <2>9, StoringRest
<1>11. CASE TakePrevious
  <2>1. /\ Store(Match(i - 1, prev_length, prev_match)) /\ i' = i + prev_length - 1
        /\ pc' = "turn" /\ pc = "score" /\ match_available /\ match_available' = FALSE
        /\ leng' = prev_length /\ dist' = prev_match
        /\ prev_length' = prev_length /\ prev_match' = prev_match
    BY <1>11 DEF TakePrevious
  <2>2. i - 1 \in Nat /\ StoreEnd = i - 1 /\ Valid(i - 1, prev_length, prev_match)
    BY <1>5, <2>1
  <2>3. /\ litlens' \in Seq(Nat) /\ dists' \in Seq(Nat) /\ at' \in Seq(Nat)
        /\ Len(dists') = Len(litlens') /\ Len(at') = Len(litlens')
        /\ \A k \in 1 .. Len(at') : EntryOK(k)'
        /\ StoreEnd' = i - 1 + prev_length
    BY <1>0, <1>2, <2>1, <2>2, MatchStored
  <2>4. /\ i + prev_length - 1 \in Nat /\ i <= i + prev_length - 1 /\ i + prev_length - 1 <= job.inend
        /\ i - 1 + prev_length = i + prev_length - 1
    BY <1>0, <1>1, <2>2, ValidFacts
  <2>5. HeldInv' /\ ScoreInv' /\ TurnInv' /\ StoreInv'
    BY <2>1, <2>3, <2>4 DEF HeldInv, ScoreInv, TurnInv, StoreInv
  <2>. QED  BY <1>1, <2>1, <2>3, <2>4, <2>5, StoringRest
<1>12. CASE Defer
  <2>1. /\ UNCHANGED store /\ i' = i + 1 /\ pc' = "turn" /\ pc = "score"
        /\ leng # MaxMatch /\ ~match_available /\ match_available' = TRUE
        /\ prev_length' = leng /\ prev_match' = dist /\ leng' = leng /\ dist' = dist
    BY <1>12 DEF Defer, HoldBack
  <2>2. Valid(i, leng, dist) /\ StoreEnd = i /\ leng < MaxMatch /\ i < job.inend
    <3>1. Valid(i, leng, dist) /\ StoreEnd = i
      BY <1>4, <2>1
    <3>2. i < job.inend
      BY <1>0, <2>1 DEF TurnInv
    <3>. QED  BY <1>0, <1>1, <2>1, <3>1, <3>2, ValidFacts
  <2>3. (\A k \in 1 .. Len(at') : EntryOK(k)') /\ StoreEnd' = StoreEnd
    BY <1>0, <1>2, <2>1, StoreKept
  <2>4. i + 1 \in Nat /\ i <= i + 1 /\ i + 1 <= job.inend /\ i + 1 - 1 = i /\ i + 1 > job.instart
    BY <1>0, <2>2
  <2>5. HeldInv'
    <3>1. Valid(i' - 1, prev_length', prev_match')
      <4>1. i' - 1 = i
        BY <1>0, <2>1
      <4>. QED  BY <2>1, <2>2, <4>1, Zenon
    <3>2. Valid(i - 1, prev_length, prev_match)'
      BY <1>2, <3>1 DEF Valid, Copies, in
    <3>. QED  BY <1>2, <2>1, <2>2, <2>4, <3>2 DEF HeldInv
  <2>6. ScoreInv' /\ TurnInv' /\ StoreInv'
    <3>1. StoreEnd' = i' - 1
      BY <1>0, <2>1, <2>2, <2>3
    <3>2. ScoreInv' /\ TurnInv'
      BY <2>1 DEF ScoreInv, TurnInv
    <3>. QED  BY <2>1, <2>3, <3>1, <3>2, Zenon DEF StoreInv
  <2>7. litlens' = litlens /\ dists' = dists /\ at' = at
    BY <2>1 DEF store
  <2>. QED  BY <1>1, <2>1, <2>4, <2>5, <2>6, <2>7, StoringRest
<1>13. CASE Greedy
  <2>1. /\ Store(Match(i, leng, dist)) /\ i' = i + leng /\ pc' = "turn" /\ pc = "score" /\ ~match_available
        /\ UNCHANGED <<leng, dist, prev_length, prev_match, match_available>>
    BY <1>13 DEF Greedy, pending
  <2>2. Valid(i, leng, dist) /\ StoreEnd = i
    BY <1>4, <2>1
  <2>3. /\ litlens' \in Seq(Nat) /\ dists' \in Seq(Nat) /\ at' \in Seq(Nat)
        /\ Len(dists') = Len(litlens') /\ Len(at') = Len(litlens')
        /\ \A k \in 1 .. Len(at') : EntryOK(k)'
        /\ StoreEnd' = i + leng
    BY <1>0, <1>2, <2>1, <2>2, MatchStored
  <2>4. i + leng \in Nat /\ i <= i + leng /\ i + leng <= job.inend
    BY <1>0, <1>1, <2>2, ValidFacts
  <2>5. HeldInv' /\ ScoreInv' /\ TurnInv' /\ StoreInv'
    BY <2>1, <2>3 DEF HeldInv, ScoreInv, TurnInv, StoreInv
  <2>. QED  BY <1>1, <2>1, <2>3, <2>4, <2>5, StoringRest
<1>. QED
  BY <1>6, <1>7, <1>8, <1>9, <1>10, <1>11, <1>12, <1>13 DEF Storing

\* What the finder is given is at least three.
LEMMA AtLeastThree ==
  ASSUME TypeOK, HeldInv
  PROVE  ml \in Nat /\ ml >= 3
<1>1. CASE match_available
  <2>1. Valid(i - 1, prev_length, prev_match)
    BY <1>1 DEF HeldInv
  <2>2. prev_length \in Nat /\ prev_length >= 3
    BY <2>1, ValidFacts
  <2>. QED  BY <1>1, <2>2 DEF ml
<1>2. CASE ~match_available
  BY <1>2 DEF ml
<1>. QED  BY <1>1, <1>2

\* Where a search is, with any of the two finders: in front of the position, in the
\* window, and with an older candidate behind it.
LEMMA Candidate ==
  ASSUME NEW size \in Nat, size > 1, NEW f \in Table(size), NEW low \in Int, FinderInv(f, low, size),
         NEW idx \in Nat, f.nextToUpdate = idx, idx >= size, low <= idx - (size - 1),
         NEW c \in Nat, c < idx, c >= lowLimit(idx, size)
  PROVE  /\ c >= size /\ idx - c \in 1 .. size - 1
         /\ Older(f, c, size) \in 0 .. c - 1
<1>1. c >= size /\ c >= idx - (size - 1)
  BY DEF lowLimit
<1>2. low <= c
  BY <1>1
<1>3. f.chainTable[c % size] \in 1 .. size - 1
  BY <1>1, <1>2 DEF FinderInv
<1>. QED  BY <1>1, <1>3 DEF Older

LEMMA FourCandidate ==
  ASSUME IInv, pc = "search", Searching
  PROVE  /\ match \in Nat /\ match < i /\ i - match \in 1 .. MaxD - 1
         /\ Older(hc4, matchIndex, MaxD) \in 0 .. matchIndex - 1
<1>1. /\ MaxD \in Nat /\ MaxD > 1 /\ hc4 \in Table(MaxD) /\ FinderInv(hc4, 0, MaxD)
      /\ ip \in Nat /\ hc4.nextToUpdate = ip /\ ip >= MaxD
      /\ matchIndex \in Nat /\ matchIndex < ip /\ matchIndex >= lowLimit(ip, MaxD)
      /\ windowstart \in Nat /\ i \in Nat /\ ip = i - windowstart + MaxD
  BY WindowFacts DEF IInv, FourInv, TypeOK, Searching
<1>2. 0 <= ip - (MaxD - 1)
  BY <1>1
<1>. HIDE DEF ip
<1>3. matchIndex >= MaxD /\ ip - matchIndex \in 1 .. MaxD - 1
      /\ Older(hc4, matchIndex, MaxD) \in 0 .. matchIndex - 1
  BY <1>1, <1>2, Candidate
<1>4. match = matchIndex - MaxD + windowstart
  BY DEF match, Position
<1>. QED  BY <1>1, <1>3, <1>4

LEMMA ThreeCandidate ==
  ASSUME IInv, pc = "search3", Searching3
  PROVE  /\ match3 \in Nat /\ match3 < i /\ i - match3 \in 1 .. MaxD3 - 1
         /\ Older(h3, matchIndex, MaxD3) \in 0 .. matchIndex - 1
<1>1. /\ MaxD3 \in Nat /\ MaxD3 > 1 /\ h3 \in Table(MaxD3) /\ FinderInv(h3, low3, MaxD3)
      /\ ip3 \in Nat /\ h3.nextToUpdate = ip3 /\ ip3 >= MaxD3
      /\ matchIndex \in Nat /\ matchIndex < ip3 /\ matchIndex >= lowLimit(ip3, MaxD3)
      /\ start3 \in Nat /\ i \in Nat /\ ip3 = i - start3 + MaxD3
  BY WindowFacts DEF IInv, ThreeInv, TypeOK, Searching3
<1>2. low3 \in Int /\ low3 <= ip3 - (MaxD3 - 1)
  BY <1>1 DEF low3
<1>3. matchIndex >= MaxD3 /\ ip3 - matchIndex \in 1 .. MaxD3 - 1
      /\ Older(h3, matchIndex, MaxD3) \in 0 .. matchIndex - 1
  BY <1>1, <1>2, Candidate
<1>4. match3 = matchIndex - MaxD3 + start3
  BY DEF match3, Position
<1>. QED  BY <1>1, <1>3, <1>4

\* A quiet step leaves the rest in order.
LEMMA QuietRest ==
  ASSUME IInv, Quiet,
         {leng', dist', y', matchIndex', nbAttempts'} \subseteq Nat, matchpos' \in Nat \cup {Unset},
         pc' \in {"turn", "insert", "search", "found", "insert3", "search3", "score", "repeat", "done"},
         hc4' \in Table(MaxD), h3' \in Table(MaxD3),
         HeldInv', FoundInv', ScoreInv', TurnInv', FourInv', ThreeInv'
  PROVE  IInv'
<1>1. /\ TypeOK /\ StoreInv /\ job' = job /\ UNCHANGED <<i, prev_length, prev_match, match_available>>
      /\ UNCHANGED store
  BY QuietFrame DEF IInv
<1>2. litlens' = litlens /\ dists' = dists /\ at' = at
  BY <1>1 DEF store
<1>3. TypeOK'
  BY <1>1, <1>2 DEF TypeOK
<1>4. StoreInv'
  <2>1. (\A k \in 1 .. Len(at') : EntryOK(k)') /\ StoreEnd' = StoreEnd
    BY <1>1, StoreKept
  <2>2. StoreEnd = IF match_available THEN i - 1 ELSE i
    BY <1>1 DEF StoreInv
  <2>3. StoreEnd' = IF match_available' THEN i' - 1 ELSE i'
    BY <1>1, <2>1, <2>2
  <2>. QED  BY <2>1, <2>3 DEF StoreInv
<1>. QED  BY <1>3, <1>4 DEF IInv

\* The finders that a step leaves alone, where the position stays too.
LEMMA FourStill ==
  ASSUME IInv, job' = job, i' = i, hc4' = hc4,
         pc' = "search" => hc4.nextToUpdate = ip /\ matchIndex' < ip
  PROVE  FourInv'
<1>1. ip' = ip
  BY DEF ip, Index, windowstart, Most
<1>2. FinderInv(hc4, 0, MaxD) /\ MaxD <= hc4.nextToUpdate /\ hc4.nextToUpdate <= ip
  BY DEF IInv, FourInv
<1>3. FinderInv(hc4, 0, MaxD)'
  BY <1>2 DEF FinderInv
<1>. QED  BY <1>1, <1>2, <1>3, Zenon DEF FourInv

LEMMA ThreeStill ==
  ASSUME IInv, job' = job, i' = i, h3' = h3,
         pc' = "search3" => h3.nextToUpdate = ip3 /\ matchIndex' < ip3
  PROVE  ThreeInv'
<1>1. ip3' = ip3
  BY DEF ip3, Index, start3, Most
<1>2. FinderInv(h3, low3, MaxD3) /\ MaxD3 <= h3.nextToUpdate /\ h3.nextToUpdate <= ip3
  BY DEF IInv, ThreeInv
<1>3. low3' = low3
  BY <1>1 DEF low3
<1>4. FinderInv(h3, low3, MaxD3)'
  BY <1>2, <1>3 DEF FinderInv
<1>. QED  BY <1>1, <1>2, <1>4, Zenon DEF ThreeInv

\* The types of what quiet steps change.
LEMMA QuietTypes ==
  ASSUME IInv
  PROVE  /\ TypeOK /\ leng \in Nat /\ dist \in Nat /\ y \in Nat /\ matchIndex \in Nat /\ nbAttempts \in Nat
         /\ matchpos \in Nat \cup {Unset} /\ hc4 \in Table(MaxD) /\ h3 \in Table(MaxD3)
         /\ hc4.hashTable \in [Buckets -> Nat] /\ h3.hashTable \in [Buckets -> Nat]
         /\ hc4.nextToUpdate \in Nat /\ h3.nextToUpdate \in Nat
         /\ i \in Nat /\ job.inend \in Nat /\ i <= job.inend
<1>1. TypeOK
  BY DEF IInv
<1>2. /\ leng \in Nat /\ dist \in Nat /\ y \in Nat /\ matchIndex \in Nat /\ nbAttempts \in Nat
      /\ matchpos \in Nat \cup {Unset} /\ hc4 \in Table(MaxD) /\ h3 \in Table(MaxD3)
  BY <1>1 DEF TypeOK
<1>3. /\ hc4.hashTable \in [Buckets -> Nat] /\ h3.hashTable \in [Buckets -> Nat]
      /\ hc4.nextToUpdate \in Nat /\ h3.nextToUpdate \in Nat
  BY <1>2 DEF Table
<1>4. i \in Nat /\ job.inend \in Nat /\ i <= job.inend
  BY <1>1, PartFacts, WindowFacts
<1>. QED  BY <1>1, <1>2, <1>3, <1>4

\* The turns begin, and the finder for four bytes catches up.
LEMMA FourSteps ==
  ASSUME IInv, NextTurn \/ EndOfPart \/ Insert \/ Lookup
  PROVE  IInv'
<1>0. /\ TypeOK /\ leng \in Nat /\ dist \in Nat /\ y \in Nat /\ matchIndex \in Nat /\ nbAttempts \in Nat
      /\ matchpos \in Nat \cup {Unset} /\ hc4 \in Table(MaxD) /\ h3 \in Table(MaxD3)
      /\ HeldInv /\ FoundInv /\ ScoreInv /\ TurnInv /\ FourInv
  BY QuietTypes DEF IInv
<1>1. /\ Quiet /\ job' = job /\ i' = i
      /\ UNCHANGED <<prev_length, prev_match, match_available>>
  <2>1. Quiet
    BY DEF Quiet
  <2>. QED  BY <2>1, QuietFrame
<1>2. CASE NextTurn
  <2>1. /\ pc = "turn" /\ i < job.inend /\ y' = ml /\ matchpos' = Unset /\ pc' = "insert"
        /\ UNCHANGED <<leng, dist, matchIndex, nbAttempts, hc4, h3>>
    BY <1>2 DEF NextTurn, search, finders
  <2>2. ml \in Nat /\ ml' = ml
    BY <1>0, <1>1, AtLeastThree DEF ml
  <2>3. HeldInv'
    BY <1>0, <1>1, <2>1 DEF HeldInv, Valid, Copies, in
  <2>4. FoundInv' /\ ScoreInv' /\ TurnInv'
    <3>1. Unset <= i
      BY QuietTypes DEF Unset
    <3>. QED  BY <1>1, <2>1, <2>2, <3>1 DEF FoundInv, ScoreInv, TurnInv
  <2>5. FourInv' /\ ThreeInv'
    BY <1>1, <2>1, FourStill, ThreeStill
  <2>6. {leng', dist', y', matchIndex', nbAttempts'} \subseteq Nat /\ matchpos' \in Nat \cup {Unset}
    BY <1>0, <2>1, <2>2
  <2>. QED  BY <1>0, <1>1, <2>1, <2>3, <2>4, <2>5, <2>6, QuietRest
<1>3. CASE EndOfPart
  <2>1. /\ pc = "turn" /\ i >= job.inend /\ pc' = "done"
        /\ UNCHANGED <<leng, dist, y, matchpos, matchIndex, nbAttempts, hc4, h3>>
    BY <1>3 DEF EndOfPart, found, search, finders
  <2>2. ~match_available
    <3>1. SUFFICES ASSUME match_available PROVE FALSE
      OBVIOUS
    <3>2. Valid(i - 1, prev_length, prev_match)
      BY <1>0, <3>1 DEF HeldInv
    <3>3. prev_length \in Nat /\ prev_length >= 3 /\ i - 1 + prev_length <= job.inend
      BY <1>0, <3>2, ValidFacts
    <3>4. i \in Nat /\ job.inend \in Nat
      BY QuietTypes
    <3>. QED  BY <2>1, <3>3, <3>4
  <2>3. HeldInv' /\ FoundInv' /\ ScoreInv'
    BY <1>1, <2>1, <2>2 DEF HeldInv, FoundInv, ScoreInv
  <2>4. TurnInv'
    <3>1. i = job.inend
      BY <2>1, QuietTypes
    <3>. QED  BY <1>1, <2>1, <2>2, <3>1 DEF TurnInv
  <2>5. FourInv' /\ ThreeInv'
    BY <1>1, <2>1, FourStill, ThreeStill
  <2>6. {leng', dist', y', matchIndex', nbAttempts'} \subseteq Nat /\ matchpos' \in Nat \cup {Unset}
    BY <1>0, <2>1
  <2>. QED  BY <1>0, <1>1, <2>1, <2>3, <2>4, <2>5, <2>6, QuietRest
<1>4. CASE Insert
  <2>. DEFINE idx == hc4.nextToUpdate
              h == HashAt(Position(idx, windowstart, MaxD))
  <2>1. /\ pc = "insert" /\ idx < ip /\ hc4' = Inserted(hc4, idx, h, MaxD) /\ pc' = "insert"
        /\ UNCHANGED <<leng, dist, y, matchpos, matchIndex, nbAttempts, h3>>
    BY <1>4 DEF Insert, found, search
  <2>2. /\ MaxD \in Nat /\ MaxD > 1 /\ FinderInv(hc4, 0, MaxD) /\ idx \in Nat /\ MaxD <= idx /\ ip \in Nat
        /\ windowstart \in Nat /\ i \in Nat /\ job.inend \in Nat /\ i <= job.inend
        /\ ip = i - windowstart + MaxD
    BY <1>0, WindowFacts, QuietTypes DEF FourInv
  <2>3. h \in Buckets
    <3>1. Position(idx, windowstart, MaxD) \in Nat /\ Position(idx, windowstart, MaxD) < job.inend
      BY <2>1, <2>2 DEF Position
    <3>. QED  BY <1>0, <3>1, HashFacts
  <2>. HIDE DEF h
  <2>4. /\ hc4' \in Table(MaxD) /\ FinderInv(hc4', 0, MaxD) /\ hc4'.nextToUpdate = idx + 1
    BY <1>0, <2>1, <2>2, <2>3, InsertKeeps
  <2>5. FourInv'
    <3>1. ip' = ip
      BY <1>1 DEF ip, Index, windowstart, Most
    <3>2. MaxD <= idx + 1 /\ idx + 1 <= ip
      BY <2>1, <2>2
    <3>3. MaxD <= hc4'.nextToUpdate /\ hc4'.nextToUpdate <= ip'
      BY <2>4, <3>1, <3>2, Zenon
    <3>4. FinderInv(hc4, 0, MaxD)'
      BY <2>4 DEF FinderInv
    <3>. QED  BY <2>1, <3>3, <3>4 DEF FourInv
  <2>6. ThreeInv'
    BY <1>1, <2>1, ThreeStill
  <2>7. HeldInv'
    BY <1>0, <1>1, <2>1 DEF HeldInv, Valid, Copies, in
  <2>8. FoundInv' /\ ScoreInv' /\ TurnInv'
    BY <1>0, <1>1, <2>1 DEF FoundInv, ScoreInv, TurnInv, ml
  <2>9. {leng', dist', y', matchIndex', nbAttempts'} \subseteq Nat /\ matchpos' \in Nat \cup {Unset}
    BY <1>0, <2>1
  <2>. QED  BY <1>0, <1>1, <2>1, <2>4, <2>5, <2>6, <2>7, <2>8, <2>9, QuietRest
<1>5. CASE Lookup
  <2>1. /\ pc = "insert" /\ hc4.nextToUpdate >= ip /\ matchIndex' = hc4.hashTable[HashAt(i)]
        /\ nbAttempts' = Attempts /\ pc' \in {"search", "found"} /\ matchpos' \in {i, matchpos}
        /\ UNCHANGED <<leng, dist, y, hc4, h3>>
    BY <1>5 DEF Lookup, finders
  <2>2. HashAt(i) \in Buckets
    BY <1>0, <2>1, HashFacts, QuietTypes DEF TurnInv
  <2>3. hc4.hashTable[HashAt(i)] \in Nat /\ hc4.hashTable[HashAt(i)] < hc4.nextToUpdate
    BY <1>0, <2>2, QuietTypes DEF FourInv, FinderInv
  <2>4. hc4.nextToUpdate = ip
    <3>1. hc4.nextToUpdate \in Nat /\ hc4.nextToUpdate >= ip /\ hc4.nextToUpdate <= ip
      BY <1>0, <2>1, QuietTypes DEF FourInv
    <3>2. ip \in Nat
      BY <1>0, WindowFacts
    <3>. QED  BY <3>1, <3>2
  <2>5. matchIndex' < ip
    BY <2>1, <2>3, <2>4, Zenon
  <2>6. FourInv' /\ ThreeInv'
    BY <1>1, <2>1, <2>4, <2>5, FourStill, ThreeStill
  <2>7. HeldInv'
    BY <1>0, <1>1, <2>1 DEF HeldInv, Valid, Copies, in
  <2>8. FoundInv' /\ ScoreInv' /\ TurnInv'
    <3>1. matchpos' <= i
      BY <1>0, <2>1, QuietTypes DEF FoundInv
    <3>. QED  BY <1>0, <1>1, <2>1, <3>1 DEF FoundInv, ScoreInv, TurnInv, ml
  <2>9. {leng', dist', y', matchIndex', nbAttempts'} \subseteq Nat /\ matchpos' \in Nat \cup {Unset}
    BY <1>0, <2>1, <2>3, QuietTypes, WindowFacts
  <2>. QED  BY <1>0, <1>1, <2>1, <2>6, <2>7, <2>8, <2>9, QuietRest
<1>. QED  BY <1>2, <1>3, <1>4, <1>5

\* The search for four bytes and more, and what is taken from it.
LEMMA SearchSteps ==
  ASSUME IInv, Longer \/ NotLonger \/ Searched \/ Take
  PROVE  IInv'
<1>0. /\ TypeOK /\ leng \in Nat /\ dist \in Nat /\ y \in Nat /\ matchIndex \in Nat /\ nbAttempts \in Nat
      /\ matchpos \in Nat \cup {Unset} /\ hc4 \in Table(MaxD) /\ h3 \in Table(MaxD3)
      /\ HeldInv /\ FoundInv /\ ScoreInv /\ TurnInv /\ FourInv
  BY QuietTypes DEF IInv
<1>1. /\ Quiet /\ job' = job /\ i' = i
      /\ UNCHANGED <<prev_length, prev_match, match_available>>
  <2>1. Quiet
    BY DEF Quiet
  <2>. QED  BY <2>1, QuietFrame
<1>2. ASSUME pc = "search", Searching, nbAttempts' = nbAttempts - 1
      PROVE  nbAttempts' \in Nat
  BY <1>0, <1>2 DEF Searching
<1>3. CASE Longer
  <2>1. PICK mlt \in y + 1 .. iLimit :
          /\ IsLonger(mlt) /\ y' = mlt /\ matchpos' = match
          /\ IF mlt = MaxMatch \/ NothingLonger(mlt)
               THEN pc' = "found" /\ UNCHANGED search
               ELSE UNCHANGED pc /\ FollowChain
    BY <1>3 DEF Longer
  <2>2. pc = "search" /\ Searching /\ UNCHANGED <<leng, dist, hc4, h3>>
    BY <1>3 DEF Longer, finders
  <2>3. /\ match \in Nat /\ match < i /\ i - match \in 1 .. MaxD - 1
        /\ Older(hc4, matchIndex, MaxD) \in 0 .. matchIndex - 1
    BY <2>2, FourCandidate
  <2>4. mlt \in Nat /\ mlt > y /\ mlt > ml /\ mlt \in 3 .. MaxMatch /\ i + mlt <= job.inend
    <3>1. ml \in Nat /\ ml >= 3 /\ (y = ml \/ y > ml)
      BY <1>0, <2>2, AtLeastThree DEF FoundInv
    <3>2. y \in Nat /\ y >= 3 /\ y >= ml
      BY <1>0, <3>1
    <3>3. i \in Nat /\ job.inend \in Nat /\ MaxMatch \in Nat /\ i <= job.inend
      BY <1>0, QuietTypes, WindowFacts
    <3>4. mlt \in Int /\ mlt > y /\ mlt <= iLimit
      BY <1>0, <3>3 DEF iLimit, Least
    <3>5. mlt <= MaxMatch /\ mlt <= job.inend - i
      BY <3>3, <3>4 DEF iLimit, Least
    <3>. QED  BY <3>1, <3>2, <3>3, <3>4, <3>5
  <2>5. Valid(i, mlt, i - match)
    <3>1. \A k \in 0 .. mlt - 1 : in(match + k) = in(i + k)
      BY <2>1 DEF IsLonger, IsLength
    <3>2. i - match <= i /\ i - (i - match) = match
      BY <2>3, QuietTypes
    <3>3. Copies(i, i - match, mlt)
      BY <3>1, <3>2, Zenon DEF Copies
    <3>. QED  BY <2>3, <2>4, <3>3 DEF Valid
  <2>6. \/ pc' = "found" /\ matchIndex' = matchIndex /\ nbAttempts' = nbAttempts
        \/ pc' = "search" /\ matchIndex' = Older(hc4, matchIndex, MaxD) /\ nbAttempts' = nbAttempts - 1
    BY <2>1, <2>2 DEF search, FollowChain
  <2>7. matchIndex' \in Nat /\ nbAttempts' \in Nat
    BY <1>0, <1>2, <2>2, <2>3, <2>6
  <2>8. pc' = "search" => hc4.nextToUpdate = ip /\ matchIndex' < ip
    <3>1. hc4.nextToUpdate = ip /\ matchIndex < ip /\ ip \in Nat
      BY <1>0, <2>2, WindowFacts DEF FourInv
    <3>2. Older(hc4, matchIndex, MaxD) < ip
      BY <1>0, <2>3, <3>1
    <3>. QED  BY <2>6, <3>1, <3>2, Zenon
  <2>9. FourInv' /\ ThreeInv'
    BY <1>1, <2>2, <2>6, <2>8, FourStill, ThreeStill
  <2>10. HeldInv'
    BY <1>0, <1>1, <2>2, <2>6 DEF HeldInv, Valid, Copies, in
  <2>11. FoundInv'
    <3>1. ml' = ml
      BY <1>1 DEF ml
    <3>2. Valid(i, y, i - matchpos)'
      BY <1>1, <2>1, <2>5 DEF Valid, Copies, in
    <3>3. match <= i
      BY <2>3, QuietTypes
    <3>4. pc' # "insert" /\ matchpos' <= i' /\ matchpos' \in Nat /\ y' > ml'
      BY <1>1, <2>1, <2>3, <2>4, <2>6, <3>1, <3>3
    <3>. QED  BY <3>2, <3>4 DEF FoundInv
  <2>12. ScoreInv' /\ TurnInv'
    BY <1>0, <1>1, <2>2, <2>6 DEF ScoreInv, TurnInv
  <2>13. {leng', dist', y', matchIndex', nbAttempts'} \subseteq Nat /\ matchpos' \in Nat \cup {Unset}
    BY <1>0, <2>1, <2>2, <2>3, <2>4, <2>7
  <2>. QED  BY <1>0, <1>1, <2>2, <2>6, <2>9, <2>10, <2>11, <2>12, <2>13, QuietRest
<1>4. CASE NotLonger
  <2>1. /\ pc = "search" /\ Searching /\ pc' = "search"
        /\ matchIndex' = Older(hc4, matchIndex, MaxD) /\ nbAttempts' = nbAttempts - 1
        /\ UNCHANGED <<leng, dist, y, matchpos, hc4, h3>>
    BY <1>4 DEF NotLonger, FollowChain, found, finders
  <2>2. Older(hc4, matchIndex, MaxD) \in 0 .. matchIndex - 1
    BY <2>1, FourCandidate
  <2>3. hc4.nextToUpdate = ip /\ matchIndex' < ip
    <3>1. hc4.nextToUpdate = ip /\ matchIndex < ip /\ ip \in Nat
      BY <1>0, <2>1, WindowFacts DEF FourInv
    <3>2. Older(hc4, matchIndex, MaxD) < ip
      BY <1>0, <2>2, <3>1
    <3>. QED  BY <2>1, <3>1, <3>2, Zenon
  <2>4. FourInv' /\ ThreeInv'
    BY <1>1, <2>1, <2>3, FourStill, ThreeStill
  <2>5. HeldInv'
    BY <1>0, <1>1, <2>1 DEF HeldInv, Valid, Copies, in
  <2>6. FoundInv' /\ ScoreInv' /\ TurnInv'
    <3>1. ml' = ml
      BY <1>1 DEF ml
    <3>2. FoundInv'
      BY <1>0, <1>1, <2>1, <3>1 DEF FoundInv, Valid, Copies, in
    <3>. QED  BY <1>0, <1>1, <2>1, <3>2 DEF ScoreInv, TurnInv
  <2>7. matchIndex' \in Nat /\ nbAttempts' \in Nat
    BY <1>0, <1>2, <2>1, <2>2
  <2>8. {leng', dist', y', matchIndex', nbAttempts'} \subseteq Nat /\ matchpos' \in Nat \cup {Unset}
    BY <1>0, <2>1, <2>7
  <2>. QED  BY <1>0, <1>1, <2>1, <2>4, <2>5, <2>6, <2>8, QuietRest
<1>5. CASE Searched
  <2>1. /\ pc = "search" /\ pc' = "found"
        /\ UNCHANGED <<leng, dist, y, matchpos, matchIndex, nbAttempts, hc4, h3>>
    BY <1>5 DEF Searched, found, search, finders
  <2>2. FourInv' /\ ThreeInv'
    BY <1>1, <2>1, FourStill, ThreeStill
  <2>3. HeldInv'
    BY <1>0, <1>1, <2>1 DEF HeldInv, Valid, Copies, in
  <2>4. FoundInv' /\ ScoreInv' /\ TurnInv'
    <3>1. ml' = ml
      BY <1>1 DEF ml
    <3>2. FoundInv'
      BY <1>0, <1>1, <2>1, <3>1 DEF FoundInv, Valid, Copies, in
    <3>. QED  BY <1>0, <1>1, <2>1, <3>2 DEF ScoreInv, TurnInv
  <2>5. {leng', dist', y', matchIndex', nbAttempts'} \subseteq Nat /\ matchpos' \in Nat \cup {Unset}
    BY <1>0, <2>1
  <2>. QED  BY <1>0, <1>1, <2>1, <2>2, <2>3, <2>4, <2>5, QuietRest
<1>6. CASE Take
  <2>1. /\ pc = "found" /\ y >= 4 /\ leng' = y /\ pc' = "score"
        /\ dist' \in (IF matchpos = Unset THEN Stray ELSE {i - matchpos})
        /\ UNCHANGED <<y, matchpos, matchIndex, nbAttempts, hc4, h3>>
    BY <1>6 DEF Take, found, search, finders
  <2>2. ml \in Nat /\ (match_available => prev_length = ml) /\ (~match_available => ml = 3)
    BY <1>0, AtLeastThree DEF ml
  <2>3. dist' \in Nat
    <3>1. CASE matchpos = Unset
      BY <2>1, <3>1, StrayAssumption
    <3>2. CASE matchpos # Unset
      <4>1. dist' = i - matchpos
        BY <2>1, <3>2
      <4>2. matchpos \in Nat /\ i \in Nat /\ matchpos <= i
        BY <1>0, <2>1, <3>2, QuietTypes DEF FoundInv
      <4>3. i - matchpos \in Nat
        BY <4>2
      <4>. QED  BY <4>1, <4>3
    <3>. QED  BY <3>1, <3>2
  <2>4. ScoreInv'
    <3>1. CASE y = ml
      <4>1. match_available /\ y = prev_length
        BY <2>1, <2>2, <3>1
      <4>. QED  BY <1>1, <2>1, <4>1 DEF ScoreInv
    <3>2. CASE y # ml
      <4>1. matchpos \in Nat /\ Valid(i, y, i - matchpos)
        BY <1>0, <2>1, <3>2 DEF FoundInv
      <4>2. matchpos # Unset
        BY <4>1 DEF Unset
      <4>3. dist' = i - matchpos
        BY <2>1, <4>2
      <4>4. Valid(i, leng, dist)'
        BY <1>1, <2>1, <4>1, <4>3 DEF Valid, Copies, in
      <4>. QED  BY <4>4 DEF ScoreInv
    <3>. QED  BY <3>1, <3>2
  <2>5. HeldInv'
    BY <1>0, <1>1, <2>1 DEF HeldInv, Valid, Copies, in
  <2>6. FoundInv' /\ TurnInv'
    BY <1>0, <1>1, <2>1 DEF FoundInv, TurnInv
  <2>7. FourInv' /\ ThreeInv'
    BY <1>1, <2>1, FourStill, ThreeStill
  <2>8. {leng', dist', y', matchIndex', nbAttempts'} \subseteq Nat
    BY <1>0, <2>1, <2>3
  <2>. QED  BY <1>0, <1>1, <2>1, <2>4, <2>5, <2>6, <2>7, <2>8, QuietRest
<1>. QED  BY <1>3, <1>4, <1>5, <1>6

\* A match of three bytes, and the steps around it.
LEMMA ThreeSteps ==
  ASSUME IInv, Insert3 \/ Lookup3 \/ Three \/ NotThree
  PROVE  IInv'
<1>0. /\ TypeOK /\ leng \in Nat /\ dist \in Nat /\ y \in Nat /\ matchIndex \in Nat /\ nbAttempts \in Nat
      /\ matchpos \in Nat \cup {Unset} /\ hc4 \in Table(MaxD) /\ h3 \in Table(MaxD3)
      /\ HeldInv /\ FoundInv /\ ScoreInv /\ TurnInv /\ ThreeInv
  BY QuietTypes DEF IInv
<1>1. /\ Quiet /\ job' = job /\ i' = i
      /\ UNCHANGED <<prev_length, prev_match, match_available>>
  <2>1. Quiet
    BY DEF Quiet
  <2>. QED  BY <2>1, QuietFrame
<1>2. CASE Insert3
  <2>. DEFINE h == Hash3At(Position(idx3, start3, MaxD3))
  <2>1. /\ pc = "insert3" /\ h3.nextToUpdate < ip3 /\ h3' = Inserted(h3, idx3, h, MaxD3)
        /\ pc' = "insert3"
        /\ UNCHANGED <<leng, dist, y, matchpos, matchIndex, nbAttempts, hc4>>
    BY <1>2 DEF Insert3, found, search
  <2>2. /\ MaxD3 \in Nat /\ MaxD3 > 1 /\ FinderInv(h3, low3, MaxD3) /\ MaxD3 <= h3.nextToUpdate
        /\ h3.nextToUpdate \in Nat /\ ip3 \in Nat
        /\ start3 \in Nat /\ i \in Nat /\ job.inend \in Nat /\ i <= job.inend
        /\ ip3 = i - start3 + MaxD3
    BY <1>0, WindowFacts, QuietTypes DEF ThreeInv
  <2>3. low3 \in Int /\ low3 < ip3
    <3>1. low3 = ip3 - (MaxD3 - 1)
      BY DEF low3
    <3>. QED  BY <2>2, <3>1
  <2>4. /\ idx3 \in Nat /\ h3.nextToUpdate <= idx3 /\ MaxD3 <= idx3 /\ idx3 < ip3
        /\ (idx3 = h3.nextToUpdate \/ idx3 = low3)
    <3>1. idx3 = IF h3.nextToUpdate >= low3 THEN h3.nextToUpdate ELSE low3
      BY DEF idx3, Most, low3
    <3>. QED  BY <2>1, <2>2, <2>3, <3>1
  <2>5. h \in Buckets
    <3>1. Position(idx3, start3, MaxD3) \in Nat /\ Position(idx3, start3, MaxD3) < job.inend
      BY <2>2, <2>4 DEF Position
    <3>. QED  BY <1>0, <3>1, HashFacts
  <2>. HIDE DEF h
  <2>6. /\ h3' \in Table(MaxD3) /\ FinderInv(h3', low3, MaxD3) /\ h3'.nextToUpdate = idx3 + 1
    BY <1>0, <2>1, <2>2, <2>3, <2>4, <2>5, InsertKeeps
  <2>7. ThreeInv'
    <3>1. ip3' = ip3
      BY <1>1 DEF ip3, Index, start3, Most
    <3>2. low3' = low3
      BY <3>1 DEF low3
    <3>3. MaxD3 <= idx3 + 1 /\ idx3 + 1 <= ip3
      BY <2>2, <2>4
    <3>4. MaxD3 <= h3'.nextToUpdate /\ h3'.nextToUpdate <= ip3'
      BY <2>6, <3>1, <3>3, Zenon
    <3>5. FinderInv(h3, low3, MaxD3)'
      BY <2>6, <3>2 DEF FinderInv
    <3>. QED  BY <2>1, <3>4, <3>5 DEF ThreeInv
  <2>8. FourInv'
    BY <1>1, <2>1, FourStill
  <2>9. HeldInv' /\ FoundInv' /\ ScoreInv' /\ TurnInv'
    BY <1>0, <1>1, <2>1 DEF HeldInv, FoundInv, ScoreInv, TurnInv
  <2>10. {leng', dist', y', matchIndex', nbAttempts'} \subseteq Nat /\ matchpos' \in Nat \cup {Unset}
    BY <1>0, <2>1
  <2>. QED  BY <1>0, <1>1, <2>1, <2>6, <2>7, <2>8, <2>9, <2>10, QuietRest
<1>3. CASE Lookup3
  <2>1. /\ pc = "insert3" /\ h3.nextToUpdate >= ip3 /\ matchIndex' = h3.hashTable[Hash3At(i)]
        /\ pc' = "search3" /\ UNCHANGED <<leng, dist, y, matchpos, nbAttempts, hc4, h3>>
    BY <1>3 DEF Lookup3, found, finders
  <2>2. Hash3At(i) \in Buckets
    BY <1>0, <2>1, HashFacts, QuietTypes DEF TurnInv
  <2>3. h3.hashTable[Hash3At(i)] \in Nat /\ h3.hashTable[Hash3At(i)] < h3.nextToUpdate
    BY <1>0, <2>2, QuietTypes DEF ThreeInv, FinderInv
  <2>4. h3.nextToUpdate = ip3
    <3>1. h3.nextToUpdate \in Nat /\ h3.nextToUpdate >= ip3 /\ h3.nextToUpdate <= ip3
      BY <1>0, <2>1, QuietTypes DEF ThreeInv
    <3>2. ip3 \in Nat
      BY <1>0, WindowFacts
    <3>. QED  BY <3>1, <3>2
  <2>5. matchIndex' < ip3
    BY <2>1, <2>3, <2>4, Zenon
  <2>6. FourInv' /\ ThreeInv'
    BY <1>1, <2>1, <2>4, <2>5, FourStill, ThreeStill
  <2>7. HeldInv' /\ FoundInv' /\ ScoreInv' /\ TurnInv'
    BY <1>0, <1>1, <2>1 DEF HeldInv, FoundInv, ScoreInv, TurnInv
  <2>8. {leng', dist', y', matchIndex', nbAttempts'} \subseteq Nat /\ matchpos' \in Nat \cup {Unset}
    BY <1>0, <2>1, <2>3
  <2>. QED  BY <1>0, <1>1, <2>1, <2>6, <2>7, <2>8, QuietRest
<1>4. CASE Three
  <2>1. /\ pc = "search3" /\ Searching3 /\ IsThree /\ i + 3 <= job.inend
        /\ leng' = 3 /\ dist' = i - match3 /\ pc' = "score"
        /\ UNCHANGED <<y, matchpos, matchIndex, nbAttempts, hc4, h3>>
    BY <1>4 DEF Three, found, search, finders
  <2>2. /\ match3 \in Nat /\ match3 < i /\ i - match3 \in 1 .. MaxD3 - 1
        /\ i \in Nat /\ job.inend \in Nat /\ MaxMatch \in 5 .. 258
        /\ MaxD \in Nat /\ MaxD3 \in Nat /\ MaxD3 <= MaxD
    BY <2>1, ThreeCandidate, QuietTypes, WindowFacts
  <2>3. Valid(i, 3, i - match3)
    <3>1. \A k \in 0 .. 3 - 1 : in(match3 + k) = in(i + k)
      <4>1. /\ match3 + 3 <= job.inend + 3 /\ i + 3 <= job.inend + 3
            /\ Bytes(match3, 3) = Bytes(i, 3) /\ 3 \in Nat
        BY <2>1, <2>2 DEF IsThree
      <4>. QED  BY <1>0, <2>2, <4>1, EqualBytes
    <3>2. i - match3 <= i /\ i - (i - match3) = match3
      BY <2>2
    <3>3. Copies(i, i - match3, 3)
      BY <3>1, <3>2, Zenon DEF Copies
    <3>4. 3 \in 3 .. MaxMatch /\ i - match3 \in 1 .. MaxD - 1
      BY <2>2
    <3>. QED  BY <2>1, <3>3, <3>4 DEF Valid
  <2>4. Valid(i, leng, dist)'
    BY <1>1, <2>1, <2>3 DEF Valid, Copies, in
  <2>5. HeldInv' /\ FoundInv' /\ ScoreInv' /\ TurnInv'
    BY <1>0, <1>1, <2>1, <2>4 DEF HeldInv, FoundInv, ScoreInv, TurnInv
  <2>6. FourInv' /\ ThreeInv'
    BY <1>1, <2>1, FourStill, ThreeStill
  <2>7. {leng', dist', y', matchIndex', nbAttempts'} \subseteq Nat
    <3>1. i - match3 \in Nat
      BY <2>2
    <3>. QED  BY <1>0, <2>1, <3>1
  <2>. QED  BY <1>0, <1>1, <2>1, <2>5, <2>6, <2>7, QuietRest
<1>5. CASE NotThree
  <2>1. /\ pc = "search3" /\ Searching3 /\ pc' = "search3"
        /\ matchIndex' = Older(h3, matchIndex, MaxD3)
        /\ UNCHANGED <<leng, dist, y, matchpos, nbAttempts, hc4, h3>>
    BY <1>5 DEF NotThree, found, finders
  <2>2. Older(h3, matchIndex, MaxD3) \in 0 .. matchIndex - 1
    BY <2>1, ThreeCandidate
  <2>3. h3.nextToUpdate = ip3 /\ matchIndex' < ip3
    <3>1. h3.nextToUpdate = ip3 /\ matchIndex < ip3 /\ ip3 \in Nat
      BY <1>0, <2>1, WindowFacts DEF ThreeInv
    <3>2. Older(h3, matchIndex, MaxD3) < ip3
      BY <1>0, <2>2, <3>1
    <3>. QED  BY <2>1, <3>1, <3>2, Zenon
  <2>4. FourInv' /\ ThreeInv'
    BY <1>1, <2>1, <2>3, FourStill, ThreeStill
  <2>5. HeldInv' /\ FoundInv' /\ ScoreInv' /\ TurnInv'
    BY <1>0, <1>1, <2>1 DEF HeldInv, FoundInv, ScoreInv, TurnInv
  <2>6. {leng', dist', y', matchIndex', nbAttempts'} \subseteq Nat
    <3>1. Older(h3, matchIndex, MaxD3) \in Nat
      BY <1>0, <2>2
    <3>. QED  BY <1>0, <2>1, <3>1
  <2>. QED  BY <1>0, <1>1, <2>1, <2>4, <2>5, <2>6, QuietRest
<1>. QED  BY <1>2, <1>3, <1>4, <1>5

\* The steps that only go on, and stuttering.
LEMMA OnwardSteps ==
  ASSUME IInv, Keep \/ TryThree \/ Repeated \/ Stopped
  PROVE  IInv'
<1>0. /\ TypeOK /\ leng \in Nat /\ dist \in Nat /\ y \in Nat /\ matchIndex \in Nat /\ nbAttempts \in Nat
      /\ matchpos \in Nat \cup {Unset} /\ hc4 \in Table(MaxD) /\ h3 \in Table(MaxD3)
      /\ HeldInv /\ FoundInv /\ ScoreInv /\ TurnInv
  BY QuietTypes DEF IInv
<1>1. /\ Quiet /\ job' = job /\ i' = i
      /\ UNCHANGED <<prev_length, prev_match, match_available>>
  <2>1. Quiet
    BY DEF Quiet
  <2>. QED  BY <2>1, QuietFrame
<1>2. UNCHANGED <<leng, dist, y, matchpos, matchIndex, nbAttempts, hc4, h3>>
  BY DEF Keep, TryThree, Repeated, Stopped, vars, found, search, finders
<1>3. \/ pc = "found" /\ pc' = "score" /\ match_available
      \/ pc = "found" /\ pc' = "insert3" /\ ~match_available
      \/ pc = "repeat" /\ pc' = "turn"
      \/ pc = "done" /\ pc' = "done"
  BY DEF Keep, TryThree, Repeated, Stopped, vars
<1>4. HeldInv'
  BY <1>0, <1>1, <1>2, <1>3 DEF HeldInv, Valid, Copies, in
<1>5. FoundInv' /\ ScoreInv'
  BY <1>0, <1>1, <1>2, <1>3 DEF FoundInv, ScoreInv, HeldInv
<1>6. TurnInv'
  BY <1>0, <1>1, <1>2, <1>3 DEF TurnInv
<1>7. FourInv' /\ ThreeInv'
  BY <1>1, <1>2, <1>3, FourStill, ThreeStill
<1>8. {leng', dist', y', matchIndex', nbAttempts'} \subseteq Nat
  BY <1>0, <1>2
<1>. QED  BY <1>0, <1>1, <1>2, <1>3, <1>4, <1>5, <1>6, <1>7, <1>8, QuietRest

\* The invariant is kept by every step.
LEMMA StepInv ==
  ASSUME IInv, [Next]_vars
  PROVE  IInv'
<1>1. CASE Storing
  BY <1>1, StoringInv
<1>2. CASE NextTurn \/ EndOfPart \/ Insert \/ Lookup
  BY <1>2, FourSteps
<1>3. CASE Longer \/ NotLonger \/ Searched \/ Take
  BY <1>3, SearchSteps
<1>4. CASE Insert3 \/ Lookup3 \/ Three \/ NotThree
  BY <1>4, ThreeSteps
<1>5. CASE Keep \/ TryThree \/ Repeated \/ Stopped
  BY <1>5, OnwardSteps
<1>6. CASE UNCHANGED vars
  <2>1. /\ UNCHANGED <<job, pc, i, leng, dist, prev_length, prev_match, match_available>>
        /\ UNCHANGED <<y, matchpos, matchIndex, nbAttempts, hc4, h3>> /\ UNCHANGED store
    BY <1>6 DEF vars, pending, found, search, finders
  <2>2. /\ TypeOK /\ HeldInv /\ FoundInv /\ ScoreInv /\ TurnInv /\ StoreInv /\ FourInv /\ ThreeInv
    BY DEF IInv
  <2>3. TypeOK'
    BY <2>1, <2>2 DEF TypeOK, store
  <2>4. HeldInv' /\ ScoreInv' /\ TurnInv'
    BY <2>1, <2>2 DEF HeldInv, ScoreInv, TurnInv, Valid, Copies, in
  <2>5. FoundInv'
    BY <2>1, <2>2 DEF FoundInv, ml, Valid, Copies, in
  <2>6. StoreInv'
    <3>1. (\A k \in 1 .. Len(at') : EntryOK(k)') /\ StoreEnd' = StoreEnd
      BY <2>1, <2>2, StoreKept
    <3>. QED  BY <2>1, <2>2, <3>1 DEF StoreInv
  <2>7. FourInv' /\ ThreeInv'
    BY <2>1, <2>2, FourStill, ThreeStill DEF FourInv, ThreeInv
  <2>. QED  BY <2>3, <2>4, <2>5, <2>6, <2>7 DEF IInv
<1>. QED  BY <1>1, <1>2, <1>3, <1>4, <1>5, <1>6 DEF Next, Storing

LEMMA Invariance == Spec => []IInv
<1>1. Init => IInv
  BY InitInv
<1>2. IInv /\ [Next]_vars => IInv'
  BY StepInv
<1>. QED  BY <1>1, <1>2, PTL DEF Spec
-----------------------------------------------------------------------------
\* Every part is parsed within the types of the tables, the match held back and
\* the store, whose three arrays grow together.
THEOREM TypeCorrect == Spec => []TypeOK
<1>1. IInv => TypeOK
  BY DEF IInv
<1>. QED  BY <1>1, Invariance, PTL

\* What the greedy and lazy parse stores reproduces the part: every entry is the
\* byte where it was stored from, or a match whose bytes are found at a distance of
\* its symbol, none overlaps or leaves a gap, and nothing is missing at the end.
THEOREM StoreReproduces == Spec => []Reproduces
<1>1. IInv => Reproduces
  <2>1. SUFFICES ASSUME IInv PROVE Reproduces
    OBVIOUS
  <2>2. \A k \in 1 .. Len(at) : EntryOK(k)
    BY <2>1 DEF IInv, StoreInv
  <2>3. pc = "done" => StoreEnd = job.inend
    BY <2>1 DEF IInv, StoreInv, TurnInv
  <2>. QED  BY <2>2, <2>3 DEF Reproduces
<1>. QED  BY <1>1, Invariance, PTL

\* Seventeen bytes behind the part are enough for everything the parse loads,
\* whatever is held back and whatever the bytes are, the fifteen of the comment at
\* GetMatch are not (LoadsAsDocumented is refuted): the four bytes for a hash or a
\* comparison end at most three behind the part, and the words of GetMatch seventeen.
THEOREM LoadsBehindPart == Spec => []LoadsNearEnd
<1>1. ASSUME IInv, pc \in {"insert", "search"}
      PROVE  i + Most(y, 3) + 1 <= job.inend + 3
  <2>1. TypeOK /\ HeldInv /\ FoundInv /\ TurnInv
    BY <1>1 DEF IInv
  <2>2. i \in Nat /\ job.inend \in Nat /\ i < job.inend /\ y \in Nat
    BY <1>1, <2>1, QuietTypes DEF TurnInv
  <2>3. CASE y = ml /\ match_available
    <3>1. Valid(i - 1, prev_length, prev_match) /\ y = prev_length
      BY <2>1, <2>3 DEF HeldInv, ml
    <3>2. y >= 3 /\ i - 1 + y <= job.inend
      BY <2>1, <3>1, ValidFacts
    <3>. QED  BY <2>2, <3>2 DEF Most
  <2>4. CASE y = ml /\ ~match_available
    BY <2>2, <2>4 DEF Most, ml
  <2>5. CASE y # ml
    <3>1. Valid(i, y, i - matchpos)
      BY <1>1, <2>1, <2>5 DEF FoundInv
    <3>2. y >= 3 /\ i + y <= job.inend
      BY <2>1, <3>1, ValidFacts
    <3>. QED  BY <2>2, <3>2 DEF Most
  <2>. QED  BY <2>3, <2>4, <2>5
<1>2. ASSUME IInv, pc = "search" PROVE LoadsAtMost(17)
  <2>1. i \in Nat /\ job.inend \in Nat /\ i < job.inend
    BY <1>2, QuietTypes DEF IInv, TurnInv
  <2>2. iLimit \in Nat /\ iLimit > 0
    BY <2>1, SizesAssumption DEF iLimit, Least
  <2>3. ASSUME NEW w \in 0 .. MaxMatch \div 8 + 1, LoadsWord(w)
        PROVE  Word(w) + 8 <= i + iLimit + 17
    <3>1. w \in Nat
      BY SizesAssumption
    <3>2. CASE w < 2
      BY <2>1, <2>2, <3>1, <3>2 DEF Word
    <3>3. CASE w >= 2
      <4>1. w - 1 \in 0 .. w - 1 /\ w - 2 \in 0 .. w - 1
            /\ ((w - 1) % 2 = 1 \/ (w - 2) % 2 = 1)
        BY <3>1, <3>3
      <4>2. Word(w) < i + iLimit \/ Word(w - 1) < i + iLimit
        <5>1. CASE (w - 1) % 2 = 1
          <6>1. Word(w - 1 + 1) < i + iLimit
            BY <2>3, <4>1, <5>1 DEF LoadsWord
          <6>. QED  BY <3>1, <6>1
        <5>2. CASE (w - 2) % 2 = 1
          <6>1. Word(w - 2 + 1) < i + iLimit
            BY <2>3, <4>1, <5>2 DEF LoadsWord
          <6>. QED  BY <3>1, <6>1
        <5>. QED  BY <4>1, <5>1, <5>2
      <4>. QED  BY <2>1, <2>2, <3>1, <4>2 DEF Word
    <3>. QED  BY <3>1, <3>2, <3>3
  <2>. QED  BY <2>3 DEF LoadsAtMost
<1>3. IInv => LoadsNearEnd
  BY <1>1, <1>2 DEF LoadsNearEnd, LoadsAtMost
<1>. QED  BY <1>3, Invariance, PTL

\* The chains of both finders lead back, so that a search through them ends and no
\* index wraps.
THEOREM ChainsLeadBack == Spec => []ChainsGoBack
<1>1. IInv => ChainsGoBack
  <2>1. SUFFICES ASSUME IInv PROVE ChainsGoBack
    OBVIOUS
  <2>2. (pc = "search" => matchIndex < ip) /\ (pc = "search3" => matchIndex < ip3)
    BY <2>1 DEF IInv, FourInv, ThreeInv
  <2>3. pc = "search" /\ Searching => Older(hc4, matchIndex, MaxD) \in 0 .. matchIndex - 1
    BY <2>1, FourCandidate
  <2>4. pc = "search3" /\ Searching3 => Older(h3, matchIndex, MaxD3) \in 0 .. matchIndex - 1
    BY <2>1, ThreeCandidate
  <2>. QED  BY <2>2, <2>3, <2>4 DEF ChainsGoBack
<1>. QED  BY <1>1, Invariance, PTL
=============================================================================
