---------------------------- MODULE LzFindProofs ----------------------------
(***************************************************************************)
(* Proofs about LzFind: for every input, every hash and every order of     *)
(* calls, and whatever older nodes have left in the cyclic buffer.         *)
(*                                                                         *)
(* That a search goes ever further back needs only that the sons of a node *)
(* in the window are older than the node. What a search finds needs the    *)
(* order of the trees. Strings of bytes that lie in a buffer that ends do  *)
(* not compare once and for all: two positions that agree up to the end    *)
(* may be ordered by a later one, and the code then keeps only the newer.  *)
(* So the invariant says that there is a rank for each position,           *)
(* consistent with the bytes, by which each tree is sorted; a new position *)
(* gets its rank when a call begins.                                       *)
(***************************************************************************)
EXTENDS LzFind, SequenceTheorems, FiniteSetTheorems, TLAPS

\* the pair of sons of the node d before the newest one, when that is in slot c
Slot(c, d) == (c + Window - d) % Window
\* the places of its sons
IsSon(k, c, d) == k = 2 * Slot(c, d) \/ k = 2 * Slot(c, d) + 1

\* Every son of a node that may be in the window of position p is older than the node.
SonsBack(s, c, p) ==
  \A d \in 0 .. Window - 1 : \A k \in 0 .. 2 * Window - 1 : IsSon(k, c, d) => s[k] < p - d

\* The place where a node will be hung in belongs to a newer node.
Newer(k, c, p, m) == \E d \in 0 .. Window - 1 : IsSon(k, c, d) /\ m < p - d

\* what holds of the buffer and the trees
TreeInv ==
  /\ in \in Inputs /\ pos \in Nat /\ pos >= Window
  /\ lenl >= 0 /\ (running => lenl > 0)
  /\ cyclicBufferPos \in 0 .. Window - 1
  /\ son \in [0 .. 2 * Window - 1 -> Nat] /\ SonsBack(son, cyclicBufferPos, pos)
  /\ hash \in [Buckets -> Nat] /\ running \in BOOLEAN
  /\ \A h \in Buckets : hash[h] <= pos /\ (~running => hash[h] < pos)

\* what holds of a search
SearchInv ==
  /\ len0 \in Nat /\ len1 \in Nat /\ rle_len \in Nat /\ curMatch_rle \in Int
  /\ running =>
       /\ curMatch \in Nat /\ curMatch < pos /\ pos - Window < curMatch_rle
       /\ Newer(ptr0, cyclicBufferPos, pos, curMatch)
       /\ Newer(ptr1, cyclicBufferPos, pos, curMatch)
       /\ op = "GetMatches3" => dist_258 \in 1 .. Window - 1

\* the sons are older, and the next ones will be
IInv == TreeInv /\ SearchInv
-----------------------------------------------------------------------------
(* The cyclic buffer *)

\* the remainder of a number that is less than twice the divisor
LEMMA Remainder ==
  ASSUME NEW x \in Nat, x < 2 * Window
  PROVE  x % Window = IF x < Window THEN x ELSE x - Window
<1>. USE SizesAssumption
<1>. DEFINE q == x \div Window
            r == x % Window
<1>1. q \in Int /\ r \in 0 .. Window - 1 /\ x = Window * q + r
  OBVIOUS
<1>. HIDE DEF q, r
<1>2. q < 2
  <2>1. q >= 2 => Window * q >= Window * 2
    BY <1>1
  <2>. QED  BY <1>1, <2>1
<1>3. q >= 0
  <2>1. q <= -1 => Window * q <= -Window
    BY <1>1
  <2>. QED  BY <1>1, <2>1
<1>4. q = 0 \/ q = 1
  BY <1>1, <1>2, <1>3
<1>5. r = IF x < Window THEN x ELSE x - Window
  BY <1>1, <1>4
<1>. QED  BY <1>5 DEF r

\* where the pair of a node is
LEMMA SlotIs ==
  ASSUME NEW c \in 0 .. Window - 1, NEW d \in 0 .. Window - 1
  PROVE  /\ Slot(c, d) = IF d <= c THEN c - d ELSE c + Window - d
         /\ Slot(c, d) \in 0 .. Window - 1
<1>1. c + Window - d \in Nat /\ c + Window - d < 2 * Window
  BY SizesAssumption
<1>. QED  BY <1>1, SizesAssumption, Remainder DEF Slot

\* two nodes in the window share no place
LEMMA SlotsDiffer ==
  ASSUME NEW c \in 0 .. Window - 1, NEW d \in 0 .. Window - 1, NEW e \in 0 .. Window - 1,
         NEW k, IsSon(k, c, d), IsSon(k, c, e)
  PROVE  d = e /\ k \in 0 .. 2 * Window - 1
<1>. USE SizesAssumption
<1>1. /\ Slot(c, d) = IF d <= c THEN c - d ELSE c + Window - d
      /\ Slot(c, d) \in 0 .. Window - 1
      /\ Slot(c, e) = IF e <= c THEN c - e ELSE c + Window - e
      /\ Slot(c, e) \in 0 .. Window - 1
  BY SlotIs
<1>2. Slot(c, d) = Slot(c, e) /\ k \in 0 .. 2 * Window - 1
  BY <1>1 DEF IsSon
<1>. QED  BY <1>1, <1>2

\* With the next position the newest node takes the place of the one that leaves.
LEMMA NextSlot ==
  ASSUME NEW c \in 0 .. Window - 1
  PROVE  /\ (c + 1) % Window \in 0 .. Window - 1
         /\ Slot((c + 1) % Window, 0) = Slot(c, Window - 1)
         /\ \A d \in 1 .. Window - 1 : Slot((c + 1) % Window, d) = Slot(c, d - 1)
<1>. USE SizesAssumption
<1>1. (c + 1) % Window = IF c + 1 < Window THEN c + 1 ELSE 0
  BY Remainder
<1>2. PICK n \in 0 .. Window - 1 : n = (c + 1) % Window /\ n = IF c + 1 < Window THEN c + 1 ELSE 0
  BY <1>1
<1>3. Slot(n, 0) = Slot(c, Window - 1)
  <2>1. Slot(n, 0) = n /\ Slot(c, Window - 1) = IF Window - 1 <= c THEN 0 ELSE c + 1
    BY SlotIs
  <2>. QED  BY <1>2, <2>1
<1>4. ASSUME NEW d \in 1 .. Window - 1 PROVE Slot(n, d) = Slot(c, d - 1)
  <2>1. d \in 0 .. Window - 1 /\ d - 1 \in 0 .. Window - 1
    OBVIOUS
  <2>2. /\ Slot(n, d) = IF d <= n THEN n - d ELSE n + Window - d
        /\ Slot(c, d - 1) = IF d - 1 <= c THEN c - (d - 1) ELSE c + Window - (d - 1)
    BY <2>1, SlotIs
  <2>. QED  BY <1>2, <2>2
<1>. QED  BY <1>2, <1>3, <1>4

\* sons stay behind their fathers when the position moves
LEMMA MovedBack ==
  ASSUME NEW s \in [0 .. 2 * Window - 1 -> Nat], NEW c \in 0 .. Window - 1, NEW p \in Nat,
         SonsBack(s, c, p)
  PROVE  SonsBack(s, (c + 1) % Window, p + 1)
<1>. USE SizesAssumption
<1>. DEFINE n == (c + 1) % Window
<1>1. /\ Slot(n, 0) = Slot(c, Window - 1)
      /\ \A d \in 1 .. Window - 1 : Slot(n, d) = Slot(c, d - 1)
  BY NextSlot
<1>. HIDE DEF n
<1>2. ASSUME NEW d \in 0 .. Window - 1, NEW k \in 0 .. 2 * Window - 1, IsSon(k, n, d)
      PROVE  s[k] < p + 1 - d
  <2>1. CASE d = 0
    <3>1. IsSon(k, c, Window - 1) /\ Window - 1 \in 0 .. Window - 1
      BY <1>1, <1>2, <2>1 DEF IsSon
    <3>2. s[k] < p - (Window - 1) /\ s[k] \in Nat
      BY <3>1 DEF SonsBack
    <3>. QED  BY <2>1, <3>2
  <2>2. CASE d # 0
    <3>1. IsSon(k, c, d - 1) /\ d - 1 \in 0 .. Window - 1
      BY <1>1, <1>2, <2>2 DEF IsSon
    <3>2. s[k] < p - (d - 1) /\ s[k] \in Nat
      BY <3>1 DEF SonsBack
    <3>. QED  BY <3>2
  <2>. QED  BY <2>1, <2>2
<1>. QED  BY <1>2 DEF SonsBack, n

\* a node may be hung in below a newer one
LEMMA HungBack ==
  ASSUME NEW s \in [0 .. 2 * Window - 1 -> Nat], NEW c \in 0 .. Window - 1, NEW p \in Nat,
         SonsBack(s, c, p), NEW m \in Nat, NEW k, Newer(k, c, p, m)
  PROVE  /\ k \in 0 .. 2 * Window - 1
         /\ [s EXCEPT ![k] = m] \in [0 .. 2 * Window - 1 -> Nat]
         /\ SonsBack([s EXCEPT ![k] = m], c, p)
<1>. USE SizesAssumption
<1>1. PICK d \in 0 .. Window - 1 : IsSon(k, c, d) /\ m < p - d
  BY DEF Newer
<1>2. k \in 0 .. 2 * Window - 1
  BY <1>1, SlotsDiffer
<1>3. ASSUME NEW e \in 0 .. Window - 1, NEW j \in 0 .. 2 * Window - 1, IsSon(j, c, e)
      PROVE  [s EXCEPT ![k] = m][j] < p - e
  <2>1. CASE j = k
    <3>1. e = d
      BY <1>1, <1>3, <2>1, SlotsDiffer
    <3>. QED  BY <1>1, <2>1, <3>1
  <2>2. CASE j # k
    BY <1>3, <2>2 DEF SonsBack
  <2>. QED  BY <2>1, <2>2
<1>. QED  BY <1>2, <1>3 DEF SonsBack

\* the same for a node that is older than both places
LEMMA StillNewer ==
  ASSUME NEW c \in 0 .. Window - 1, NEW p \in Nat, NEW m \in Nat, NEW n \in Nat, n <= m,
         NEW k, Newer(k, c, p, m)
  PROVE  Newer(k, c, p, n)
<1>1. PICK d \in 0 .. Window - 1 : IsSon(k, c, d) /\ m < p - d
  BY DEF Newer
<1>2. n < p - d
  BY <1>1, SizesAssumption
<1>. QED  BY <1>1, <1>2 DEF Newer

\* the sons of a node of the window: where they are and what they hold
LEMMA SonsOf ==
  ASSUME NEW s \in [0 .. 2 * Window - 1 -> Nat], SonsBack(s, cyclicBufferPos, pos),
         cyclicBufferPos \in 0 .. Window - 1, pos \in Nat, pos >= Window,
         NEW m \in Nat, m <= pos, pos - m < Window
  PROVE  \A k \in {Pair(m), Pair(m) + 1} :
           /\ k \in 0 .. 2 * Window - 1 /\ s[k] \in Nat /\ s[k] < m
           /\ \A n \in Nat : n < m => Newer(k, cyclicBufferPos, pos, n)
<1>. USE SizesAssumption
<1>1. pos - m \in 0 .. Window - 1 /\ pos - (pos - m) = m
  OBVIOUS
<1>2. PICK d \in 0 .. Window - 1 : d = pos - m /\ pos - d = m
  BY <1>1
<1>3. Pair(m) = 2 * Slot(cyclicBufferPos, d)
  BY <1>2 DEF Pair, Slot
<1>4. SUFFICES ASSUME NEW k \in {Pair(m), Pair(m) + 1}
               PROVE  /\ k \in 0 .. 2 * Window - 1 /\ s[k] \in Nat /\ s[k] < m
                      /\ \A n \in Nat : n < m => Newer(k, cyclicBufferPos, pos, n)
  OBVIOUS
<1>5. IsSon(k, cyclicBufferPos, d)
  BY <1>3, <1>4 DEF IsSon
<1>6. k \in 0 .. 2 * Window - 1
  BY <1>5, SlotsDiffer
<1>. QED  BY <1>2, <1>5, <1>6 DEF SonsBack, Newer

\* the newest node is hung in at its own place
LEMMA OwnPlaces ==
  ASSUME cyclicBufferPos \in 0 .. Window - 1, pos \in Nat
  PROVE  \A n \in Nat : n < pos => /\ Newer(Own, cyclicBufferPos, pos, n)
                                   /\ Newer(Own + 1, cyclicBufferPos, pos, n)
<1>. USE SizesAssumption
<1>1. Slot(cyclicBufferPos, 0) = cyclicBufferPos
  BY SlotIs
<1>2. 0 \in 0 .. Window - 1 /\ IsSon(Own, cyclicBufferPos, 0) /\ IsSon(Own + 1, cyclicBufferPos, 0)
  BY <1>1 DEF Own, IsSon
<1>. QED  BY <1>2 DEF Newer
-----------------------------------------------------------------------------
(* Comparisons *)

\* a set of natural numbers has a least one
LEMMA LeastExists ==
  ASSUME NEW T, T \subseteq Nat, T # {}
  PROVE  \E m \in T : \A n \in T : m <= n
<1>. DEFINE Below == {0 .. n : n \in T}
<1>1. Below \subseteq FiniteSubsetsOf(Nat) /\ Below # {}
  <2>1. ASSUME NEW n \in Nat PROVE IsFiniteSet(0 .. n) /\ 0 .. n \subseteq Nat
    BY FS_Interval
  <2>. QED  BY <2>1 DEF FiniteSubsetsOf
<1>2. PICK M \in Below : \A N \in Below : <<N, M>> \notin StrictSubsetOrdering(Nat)
  <2>. HIDE DEF Below
  <2>. QED  BY <1>1, WFMin, FS_StrictSubsetOrderingWellFounded
<1>3. PICK m \in T : M = 0 .. m
  BY <1>2
<1>4. ASSUME NEW n \in T PROVE m <= n
  <2>1. ~(n < m)
    <3>1. SUFFICES ASSUME n < m PROVE FALSE
      OBVIOUS
    <3>2. 0 .. n \subseteq 0 .. m /\ m \in 0 .. m /\ m \notin 0 .. n
      BY <3>1
    <3>3. 0 .. n \in FiniteSubsetsOf(Nat) /\ 0 .. m \in FiniteSubsetsOf(Nat)
      BY <1>1
    <3>4. 0 .. n \subseteq Nat /\ 0 .. m \subseteq Nat
      OBVIOUS
    <3>5. <<0 .. n, 0 .. m>> \in StrictSubsetOrdering(Nat)
      BY <3>2, <3>3, <3>4 DEF StrictSubsetOrdering
    <3>. QED  BY <1>2, <1>3, <3>5
  <2>. QED  BY <2>1
<1>. QED  BY <1>4

\* the lengths of matches are natural numbers
LEMMA MatchIsNat ==
  ASSUME NEW p, NEW q, NEW from \in Nat, NEW end \in Nat
  PROVE  GetMatch(p, q, from, end) \in Nat
<1>1. CASE from >= end
  BY <1>1 DEF GetMatch
<1>2. CASE ~(from >= end)
  <2>. DEFINE Stops(n) == n = end \/ Byte(p, n) # Byte(q, n)
              T == {n \in from .. end : Stops(n)}
  <2>1. end \in T /\ T \subseteq Nat
    BY <1>2
  <2>2. PICK m \in T : \A n \in T : m <= n
    <3>. HIDE DEF T
    <3>. QED  BY <2>1, LeastExists
  <2>3. m \in from .. end /\ Stops(m) /\ \A k \in from .. m - 1 : ~Stops(k)
    <3>1. \A k \in from .. m - 1 : k \in from .. end /\ ~(m <= k)
      BY <2>2
    <3>. QED  BY <2>2, <3>1
  <2>. DEFINE Ends(n) == /\ \A k \in from .. n - 1 : Byte(p, k) = Byte(q, k)
                         /\ n = end \/ Byte(p, n) # Byte(q, n)
  <2>4. m \in from .. end /\ Ends(m)
    BY <2>3
  <2>5. GetMatch(p, q, from, end) = CHOOSE n \in from .. end : Ends(n)
    BY <1>2 DEF GetMatch
  <2>. HIDE DEF Ends
  <2>6. GetMatch(p, q, from, end) \in from .. end
    BY <2>4, <2>5
  <2>. QED  BY <2>6
<1>. QED  BY <1>1, <1>2

\* the length at a node
LEMMA LenIsNat ==
  ASSUME lenl \in Nat, len0 \in Nat, len1 \in Nat
  PROVE  len \in Nat /\ lenLimit \in Nat
<1>1. lenLimit \in Nat /\ known \in Nat
  BY SizesAssumption DEF lenLimit, Least, known
<1>. QED  BY <1>1, MatchIsNat DEF len

\* A repetition is followed no further back than the window reaches.
LEMMA RepeatsInWindow ==
  ASSUME pos \in Nat, pos >= Window, curMatch \in Nat, pos - curMatch < Window,
         len \in Nat, rle_len \in Nat
  PROVE  /\ RepeatedBefore \in Nat /\ curMatch - RepeatedBefore > pos - Window
         /\ \A i \in 1 .. RepeatedBefore : Byte(curMatch - i, 0) = cur(0)
<1>. USE SizesAssumption
<1>. DEFINE low == IF len <= rle_len /\ Lowest < curMatch - (rle_len - len)
                     THEN curMatch - (rle_len - len) ELSE Lowest
            Goes(c) == curMatch - c > low /\ \A b \in 1 .. Word : Byte(curMatch - c - b, 0) = cur(0)
            words == {w \in 0 .. pos : \A v \in 0 .. w - 1 : Goes(v * Word)}
            T == {pos - w : w \in words}
            IsMost(w) == \A v \in words : v <= w
<1>1. low \in Int /\ Lowest \in Int /\ low >= Lowest /\ Lowest >= pos - Window + 1 + Word
  <2>1. Lowest \in Int /\ Lowest >= pos - Window + 1 + Word
    BY DEF Lowest
  <2>. QED  BY <2>1
<1>. HIDE DEF low
<1>2. 0 \in words /\ words \subseteq 0 .. pos
  OBVIOUS
<1>3. \E w \in words : IsMost(w)
  <2>. HIDE DEF words
  <2>1. T \subseteq Nat /\ T # {}
    BY <1>2
  <2>2. PICK m \in T : \A n \in T : m <= n
    <3>. HIDE DEF T
    <3>. QED  BY <2>1, LeastExists
  <2>3. PICK w \in words : m = pos - w
    BY <2>2
  <2>4. ASSUME NEW v \in words PROVE v <= w
    <3>1. pos - w <= pos - v
      BY <2>2, <2>3
    <3>. QED  BY <1>2, <3>1
  <2>. QED  BY <2>4
<1>4. PICK w \in words : RepeatedBefore = Word * w
  <2>1. RepeatedBefore = Word * (CHOOSE w \in words : IsMost(w))
    BY DEF RepeatedBefore, low
  <2>. HIDE DEF words, IsMost
  <2>2. (CHOOSE w \in words : IsMost(w)) \in words
    BY <1>3
  <2>. QED  BY <2>1, <2>2
<1>5. w \in Nat /\ Word * w \in Nat
  OBVIOUS
<1>6. CASE w = 0
  BY <1>4, <1>5, <1>6
<1>7. ASSUME NEW i \in 1 .. RepeatedBefore PROVE Byte(curMatch - i, 0) = cur(0)
  <2>. DEFINE v == (i - 1) \div Word
              b == ((i - 1) % Word) + 1
  <2>1. v \in Int /\ b \in 1 .. Word /\ i - 1 = Word * v + (b - 1) /\ i <= Word * w /\ i >= 1
    <3>1. i \in 1 .. Word * w
      BY <1>4
    <3>. QED  BY <1>5, <3>1
  <2>. HIDE DEF v, b
  <2>2. v >= 0
    <3>1. v <= -1 => Word * v <= -Word
      BY <2>1
    <3>. QED  BY <2>1, <3>1
  <2>3. v < w
    <3>1. v >= w => Word * v >= Word * w
      BY <1>5, <2>1
    <3>. QED  BY <1>5, <2>1, <3>1
  <2>4. v \in 0 .. w - 1
    BY <1>5, <2>1, <2>2, <2>3
  <2>5. Byte(curMatch - v * Word - b, 0) = cur(0)
    <3>1. Goes(v * Word)
      <4>. HIDE DEF Goes
      <4>. QED  BY <2>4
    <3>. QED  BY <2>1, <3>1
  <2>6. v * Word = Word * v
    BY <2>1
  <2>. DEFINE a == Word * v
  <2>7. a \in Int /\ i = a + b /\ Byte(curMatch - a - b, 0) = cur(0)
    BY <2>1, <2>5, <2>6
  <2>. HIDE DEF a
  <2>8. curMatch - a - b = curMatch - i
    BY <2>1, <2>7
  <2>. QED  BY <2>7, <2>8
<1>8. CASE w # 0
  <2>1. Goes((w - 1) * Word)
    <3>1. w - 1 \in 0 .. w - 1
      BY <1>5, <1>8
    <3>. HIDE DEF Goes
    <3>. QED  BY <3>1
  <2>2. (w - 1) * Word = Word * w - Word
    BY <1>5, <1>8
  <2>3. curMatch - (Word * w - Word) > low
    BY <2>1, <2>2
  <2>. DEFINE a == Word * w
  <2>4. a \in Nat /\ curMatch - (a - Word) > low /\ RepeatedBefore = a
    BY <1>4, <1>5, <2>3
  <2>. HIDE DEF a
  <2>. QED  BY <1>1, <1>7, <2>4
<1>. QED  BY <1>6, <1>8
-----------------------------------------------------------------------------
(* The calls *)

\* what stands at a position, and its bucket
LEMMA Bucket ==
  ASSUME in \in Inputs, NEW p
  PROVE  HashAt(p) \in Buckets
<1>. DEFINE bytes == {0} \cup {in[k] : k \in 1 .. Len(in)}
<1>1. in \in Seq(Nat) /\ Len(in) \in Nat
  BY InputsAssumption, LenProperties
<1>2. ASSUME NEW k PROVE Byte(p, k) \in bytes
  <2>1. CASE p - Window + k \in 0 .. Len(in) - 1
    <3>1. p - Window + k + 1 \in 1 .. Len(in)
      BY <1>1, <2>1
    <3>. QED  BY <2>1, <3>1 DEF Byte
  <2>2. CASE ~(p - Window + k \in 0 .. Len(in) - 1)
    BY <2>2 DEF Byte
  <2>. QED  BY <2>1, <2>2
<1>3. Byte(p, 0) \in bytes /\ Byte(p, 1) \in bytes /\ Byte(p, 2) \in bytes
  BY <1>2
<1>. HIDE DEF bytes
<1>4. \A x, y, z \in bytes : Hash(<<x, y, z>>) \in Buckets
  BY HashAssumption DEF bytes
<1>. QED  BY <1>3, <1>4 DEF HashAt

\* the hash of a call
LEMMA Hashed ==
  ASSUME TreeInv, ~running, NEW f, Call(f)
  PROVE  /\ in' = in /\ hash' \in [Buckets -> Nat]
         /\ \A h \in Buckets : hash'[h] <= pos
         /\ hash[HashAt(pos)] \in Nat /\ hash[HashAt(pos)] < pos
<1>1. HashAt(pos) \in Buckets
  BY Bucket DEF TreeInv
<1>2. in' = in /\ hash' = [hash EXCEPT ![HashAt(pos)] = pos]
  BY DEF Call
<1>. QED  BY <1>1, <1>2 DEF TreeInv

\* A tree that is left as it should be stays so when the position moves on.
LEMMA NextPosition ==
  ASSUME TreeInv, in' = in, MOVE_POS, lenl > 0,
         son' \in [0 .. 2 * Window - 1 -> Nat], SonsBack(son', cyclicBufferPos, pos),
         hash' \in [Buckets -> Nat], \A h \in Buckets : hash'[h] <= pos
  PROVE  TreeInv'
<1>. USE SizesAssumption
<1>1. /\ cyclicBufferPos' = (cyclicBufferPos + 1) % Window
      /\ pos' = pos + 1 /\ running' = FALSE
      /\ cyclicBufferPos \in 0 .. Window - 1 /\ pos \in Nat /\ pos >= Window /\ in \in Inputs
  BY DEF MOVE_POS, NextCyclic, TreeInv
<1>2. cyclicBufferPos' \in 0 .. Window - 1
  BY <1>1, NextSlot
<1>3. SonsBack(son', cyclicBufferPos', pos')
  BY <1>1, MovedBack
<1>4. \A h \in Buckets : hash'[h] <= pos' /\ hash'[h] < pos'
  <2>1. SUFFICES ASSUME NEW h \in Buckets PROVE hash'[h] <= pos + 1 /\ hash'[h] < pos + 1
    BY <1>1
  <2>2. PICK x \in Nat : x = hash'[h]
    OBVIOUS
  <2>. QED  BY <1>1, <2>2
<1>5. lenl' >= 0
  <2>1. lenl' = Len(in) - ((pos + 1) - Window) /\ lenl = Len(in) - (pos - Window)
    BY <1>1 DEF lenl
  <2>2. Len(in) \in Nat
    BY <1>1, InputsAssumption, LenProperties
  <2>. QED  BY <1>1, <2>1, <2>2
<1>6. pos' \in Nat /\ pos' >= Window
  BY <1>1
<1>. QED  BY <1>1, <1>2, <1>3, <1>4, <1>5, <1>6 DEF TreeInv, SonsBack

\* The start of a search at the root of the tree.
LEMMA StartInv ==
  ASSUME IInv, ~running, lenl > 0, NEW f, NEW d, Start(f, d), f = "GetMatches3" => d \in 1 .. Window - 1
  PROVE  IInv'
<1>. USE SizesAssumption
<1>1. Call(f) /\ running' = TRUE /\ UNCHANGED <<pos, cyclicBufferPos, son, rle_len>>
  BY DEF Start
<1>2. /\ op' = f /\ dist_258' = d /\ curMatch_rle' = pos /\ len0' = 0 /\ len1' = 0
      /\ curMatch' = hash[HashAt(pos)] /\ ptr0' = Own + 1 /\ ptr1' = Own
  BY DEF Start, Call
<1>3. /\ in' = in /\ hash' \in [Buckets -> Nat]
      /\ \A h \in Buckets : hash'[h] <= pos
      /\ hash[HashAt(pos)] \in Nat /\ hash[HashAt(pos)] < pos
  BY <1>1, Hashed DEF IInv
<1>4. TreeInv'
  BY <1>1, <1>3 DEF IInv, TreeInv, SonsBack, lenl
<1>5. cyclicBufferPos \in 0 .. Window - 1 /\ pos \in Nat
  BY DEF IInv, TreeInv
<1>6. Newer(Own, cyclicBufferPos, pos, curMatch') /\ Newer(Own + 1, cyclicBufferPos, pos, curMatch')
  BY <1>2, <1>3, <1>5, OwnPlaces
<1>7. SearchInv'
  BY <1>1, <1>2, <1>3, <1>5, <1>6 DEF IInv, SearchInv, Newer
<1>. QED  BY <1>4, <1>7 DEF IInv

\* how far the position before repeats
LEMMA RepeatedIsNat ==
  ASSUME TreeInv
  PROVE  Repeated \in Nat /\ lenl \in Nat
<1>1. lenl \in Nat /\ lenLimit \in Nat
  <2>1. Len(in) \in Nat
    BY InputsAssumption, LenProperties DEF TreeInv
  <2>. QED  BY <2>1, SizesAssumption DEF TreeInv, lenl, lenLimit, Least
<1>. QED  BY <1>1, MatchIsNat DEF Repeated

\* The sons of the position before become those of the new one.
LEMMA CopiedSons ==
  ASSUME TreeInv, pos # Window,
         son' = [son EXCEPT ![Own] = son[Pair(pos - 1)], ![Own + 1] = son[Pair(pos - 1) + 1]]
  PROVE  son' \in [0 .. 2 * Window - 1 -> Nat] /\ SonsBack(son', cyclicBufferPos, pos)
<1>. USE SizesAssumption
<1>1. /\ cyclicBufferPos \in 0 .. Window - 1 /\ pos \in Nat /\ pos >= Window
      /\ son \in [0 .. 2 * Window - 1 -> Nat] /\ SonsBack(son, cyclicBufferPos, pos)
  BY DEF TreeInv
<1>2. pos - 1 \in Nat /\ pos - 1 <= pos /\ pos - (pos - 1) < Window
  BY <1>1
<1>. DEFINE a == son[Pair(pos - 1)]
            b == son[Pair(pos - 1) + 1]
<1>3. a \in Nat /\ b \in Nat /\ a < pos - 1 /\ b < pos - 1
  BY <1>1, <1>2, SonsOf
<1>. HIDE DEF a, b
<1>4. /\ Newer(Own, cyclicBufferPos, pos, a) /\ Newer(Own + 1, cyclicBufferPos, pos, b)
  BY <1>1, <1>3, OwnPlaces
<1>. DEFINE s == [son EXCEPT ![Own] = a]
<1>5. Own \in 0 .. 2 * Window - 1 /\ s \in [0 .. 2 * Window - 1 -> Nat] /\ SonsBack(s, cyclicBufferPos, pos)
  BY <1>1, <1>3, <1>4, HungBack
<1>6. son' = [s EXCEPT ![Own + 1] = b]
  BY <1>5 DEF a, b
<1>. DEFINE k == Own + 1
            t == [s EXCEPT ![k] = b]
<1>. HIDE DEF s, k
<1>7. Newer(k, cyclicBufferPos, pos, b)
  BY <1>4 DEF k
<1>8. t \in [0 .. 2 * Window - 1 -> Nat] /\ SonsBack(t, cyclicBufferPos, pos)
  BY <1>1, <1>3, <1>5, <1>7, HungBack
<1>9. son' = t
  BY <1>6 DEF k
<1>. HIDE DEF t
<1>. QED  BY <1>8, <1>9

\* Skip2 takes over the sons of the position before.
LEMMA Skip2Inv ==
  ASSUME IInv, Skip2
  PROVE  IInv'
<1>. USE SizesAssumption
<1>1. /\ ~running /\ Call("Skip2") /\ Repeated = MaxMatch /\ MOVE_POS
      /\ UNCHANGED <<path, maxLen, dist_258, repetition, distances>>
      /\ son' = [son EXCEPT ![Own] = son[Pair(pos - 1)], ![Own + 1] = son[Pair(pos - 1) + 1]]
  BY DEF Skip2, Call
<1>2. pos # Window
  BY <1>1 DEF Repeated
<1>3. lenl > 0
  <2>1. SUFFICES ASSUME ~(lenl > 0) PROVE Repeated <= 0
    BY <1>1
  <2>2. lenLimit = 0
    BY <2>1, RepeatedIsNat DEF lenLimit, Least, IInv
  <2>. QED  BY <2>2 DEF Repeated, GetMatch
<1>4. son' \in [0 .. 2 * Window - 1 -> Nat] /\ SonsBack(son', cyclicBufferPos, pos)
  BY <1>1, <1>2, CopiedSons DEF IInv
<1>5. TreeInv'
  BY <1>1, <1>3, <1>4, Hashed, NextPosition DEF IInv
<1>6. running' = FALSE
  BY <1>1 DEF MOVE_POS
<1>. QED  BY <1>1, <1>5, <1>6 DEF IInv, SearchInv, path, repetition

\* GetMatches2 starts behind the root, which is the position before, or is done.
LEMMA GetMatches2Inv ==
  ASSUME IInv, GetMatches2
  PROVE  IInv'
<1>. USE SizesAssumption
<1>. DEFINE m == hash[HashAt(pos)]
            q == pos - 1
<1>1. /\ ~running /\ Call("GetMatches2") /\ Repeated >= MinMatch /\ lenl >= MaxMatch
      /\ rle_len' = Repeated /\ curMatch_rle' = pos /\ op' = "GetMatches2"
  BY DEF GetMatches2, Call
<1>2. /\ in' = in /\ hash' \in [Buckets -> Nat] /\ \A h \in Buckets : hash'[h] <= pos
      /\ m \in Nat /\ m < pos
  BY <1>1, Hashed DEF IInv
<1>3. /\ cyclicBufferPos \in 0 .. Window - 1 /\ pos \in Nat /\ pos >= Window /\ pos # Window
      /\ son \in [0 .. 2 * Window - 1 -> Nat] /\ SonsBack(son, cyclicBufferPos, pos)
      /\ Repeated \in Nat /\ lenl > 0
  BY <1>1, RepeatedIsNat DEF IInv, TreeInv, Repeated
<1>. HIDE DEF m
<1>4. CASE Repeated = lenLimit
  <2>1. /\ son' = [son EXCEPT ![Own] = son[Pair(pos - 1)], ![Own + 1] = son[Pair(pos - 1) + 1]]
        /\ MOVE_POS /\ UNCHANGED path
    BY <1>4 DEF GetMatches2
  <2>2. son' \in [0 .. 2 * Window - 1 -> Nat] /\ SonsBack(son', cyclicBufferPos, pos)
    BY <1>3, <2>1, CopiedSons DEF IInv
  <2>3. TreeInv'
    BY <1>2, <1>3, <2>1, <2>2, NextPosition DEF IInv
  <2>4. running' = FALSE
    BY <2>1 DEF MOVE_POS
  <2>. QED  BY <1>1, <1>3, <2>1, <2>3, <2>4 DEF IInv, SearchInv, path
<1>5. CASE Repeated # lenLimit
  <2>1. /\ running' = TRUE /\ pos' = pos /\ cyclicBufferPos' = cyclicBufferPos
        /\ \/ /\ son' = [son EXCEPT ![Own] = m]
              /\ ptr1' = Pair(q) + 1 /\ ptr0' = Own + 1
              /\ curMatch' = son[ptr1'] /\ len1' = Repeated /\ len0' = 0
           \/ /\ son' = [son EXCEPT ![Own + 1] = m]
              /\ ptr0' = Pair(q) /\ ptr1' = Own
              /\ curMatch' = son[ptr0'] /\ len0' = Repeated /\ len1' = 0
    BY <1>5 DEF GetMatches2, m
  <2>2. Newer(Own, cyclicBufferPos, pos, m) /\ Newer(Own + 1, cyclicBufferPos, pos, m)
    BY <1>2, <1>3, OwnPlaces
  <2>3. PICK k \in {Own, Own + 1} : son' = [son EXCEPT ![k] = m]
    BY <2>1
  <2>4. Newer(k, cyclicBufferPos, pos, m)
    BY <2>2, <2>3
  <2>5. son' \in [0 .. 2 * Window - 1 -> Nat] /\ SonsBack(son', cyclicBufferPos, pos)
    BY <1>2, <1>3, <2>3, <2>4, HungBack
  <2>6. TreeInv'
    BY <1>2, <1>3, <2>1, <2>5 DEF IInv, TreeInv, lenl
  <2>7. q \in Nat /\ q <= pos /\ pos - q < Window /\ q < pos
    BY <1>3
  <2>. HIDE DEF q
  <2>8. \A j \in {Pair(q), Pair(q) + 1} :
          /\ son[j] \in Nat /\ son[j] < q
          /\ \A n \in Nat : n < q => Newer(j, cyclicBufferPos, pos, n)
    BY <1>3, <2>7, SonsOf
  <2>9. curMatch' \in Nat /\ curMatch' < q
    BY <2>1, <2>8
  <2>10. curMatch' < pos
    <3>1. PICK n \in Nat : n = curMatch'
      BY <2>9
    <3>. QED  BY <1>3, <2>7, <2>9, <3>1
  <2>11. Newer(Own, cyclicBufferPos, pos, curMatch') /\ Newer(Own + 1, cyclicBufferPos, pos, curMatch')
    BY <1>3, <2>9, <2>10, OwnPlaces
  <2>12. Newer(ptr0', cyclicBufferPos, pos, curMatch') /\ Newer(ptr1', cyclicBufferPos, pos, curMatch')
    BY <2>1, <2>8, <2>9, <2>11
  <2>13. len0' \in Nat /\ len1' \in Nat
    BY <1>3, <2>1
  <2>14. Newer(ptr0, cyclicBufferPos, pos, curMatch)' /\ Newer(ptr1, cyclicBufferPos, pos, curMatch)'
    BY <2>1, <2>12 DEF Newer
  <2>15. rle_len' \in Nat /\ curMatch_rle' \in Int /\ pos' - Window < curMatch_rle'
    BY <1>1, <1>3, <2>1
  <2>16. op' # "GetMatches3" /\ curMatch' < pos'
    BY <1>1, <2>1, <2>10
  <2>17. SearchInv'
    BY <2>9, <2>13, <2>14, <2>15, <2>16 DEF SearchInv
  <2>. QED  BY <2>6, <2>17 DEF IInv
<1>. QED  BY <1>4, <1>5

\* The other calls begin a search.
LEMMA CallInv ==
  ASSUME IInv, GetMatches \/ Skip \/ GetMatches3
  PROVE  IInv'
<1>. USE SizesAssumption
<1>1. CASE GetMatches
  <2>1. Start("GetMatches", 0) /\ lenl > 0
    BY <1>1, RepeatedIsNat DEF GetMatches, IInv
  <2>2. ~running
    BY <2>1 DEF Start, Call
  <2>. QED  BY <2>1, <2>2, StartInv
<1>2. CASE Skip
  <2>1. Start("Skip", 0) /\ lenl > 0
    BY <1>2 DEF Skip
  <2>2. ~running
    BY <2>1 DEF Start, Call
  <2>. QED  BY <2>1, <2>2, StartInv
<1>3. CASE GetMatches3
  <2>1. PICK d \in 1 .. Least(Window - 1, pos - Window) : Start("GetMatches3", d)
    BY <1>3 DEF GetMatches3
  <2>2. lenl > 0
    BY <1>3, RepeatedIsNat DEF GetMatches3, IInv
  <2>3. ~running
    BY <2>1 DEF Start, Call
  <2>4. d \in 1 .. Window - 1
    BY DEF Least, IInv, TreeInv
  <2>. QED  BY <2>1, <2>2, <2>3, <2>4, StartInv
<1>. QED  BY <1>1, <1>2, <1>3
-----------------------------------------------------------------------------
(* The loop *)

\* Where the search goes on below a node of the window.
LEMMA Deeper ==
  ASSUME IInv, running, pos - curMatch < Window, NEW k \in {ptr0, ptr1},
         son' = [son EXCEPT ![k] = curMatch]
  PROVE  /\ son' \in [0 .. 2 * Window - 1 -> Nat] /\ SonsBack(son', cyclicBufferPos, pos)
         /\ \A j \in {Pair(curMatch), Pair(curMatch) + 1} :
              /\ son'[j] \in Nat /\ son'[j] < curMatch
              /\ \A n \in Nat : n < curMatch =>
                   /\ Newer(j, cyclicBufferPos, pos, n)
                   /\ Newer(ptr0, cyclicBufferPos, pos, n) /\ Newer(ptr1, cyclicBufferPos, pos, n)
<1>. USE SizesAssumption
<1>1. /\ cyclicBufferPos \in 0 .. Window - 1 /\ pos \in Nat /\ pos >= Window
      /\ son \in [0 .. 2 * Window - 1 -> Nat] /\ SonsBack(son, cyclicBufferPos, pos)
      /\ curMatch \in Nat /\ curMatch < pos
      /\ Newer(ptr0, cyclicBufferPos, pos, curMatch) /\ Newer(ptr1, cyclicBufferPos, pos, curMatch)
  BY DEF IInv, TreeInv, SearchInv
<1>2. Newer(k, cyclicBufferPos, pos, curMatch)
  BY <1>1
<1>3. son' \in [0 .. 2 * Window - 1 -> Nat] /\ SonsBack(son', cyclicBufferPos, pos)
  BY <1>1, <1>2, HungBack
<1>4. \A j \in {Pair(curMatch), Pair(curMatch) + 1} :
        /\ son'[j] \in Nat /\ son'[j] < curMatch
        /\ \A n \in Nat : n < curMatch => Newer(j, cyclicBufferPos, pos, n)
  <2>1. PICK s \in [0 .. 2 * Window - 1 -> Nat] : s = son'
    BY <1>3
  <2>2. SonsBack(s, cyclicBufferPos, pos) /\ curMatch <= pos
    BY <1>1, <1>3, <2>1
  <2>. QED  BY <1>1, <2>1, <2>2, SonsOf
<1>5. ASSUME NEW n \in Nat, n < curMatch
      PROVE  Newer(ptr0, cyclicBufferPos, pos, n) /\ Newer(ptr1, cyclicBufferPos, pos, n)
  <2>1. n <= curMatch
    BY <1>1, <1>5
  <2>. QED  BY <1>1, <2>1, StillNewer
<1>. QED  BY <1>3, <1>4, <1>5

\* One step down the tree leaves all as it should be, and goes back.
LEMMA DownInv ==
  ASSUME IInv, running, pos - curMatch < Window,
         UNCHANGED <<in, pos, cyclicBufferPos, hash, op, running, dist_258, rle_len>>,
         \/ /\ son' = [son EXCEPT ![ptr1] = curMatch]
            /\ ptr1' = Pair(curMatch) + 1 /\ curMatch' = son'[ptr1'] /\ UNCHANGED <<ptr0, len0>>
            /\ len1' \in Nat
         \/ /\ son' = [son EXCEPT ![ptr0] = curMatch]
            /\ ptr0' = Pair(curMatch) /\ curMatch' = son'[ptr0'] /\ UNCHANGED <<ptr1, len1>>
            /\ len0' \in Nat,
         curMatch_rle' \in Int, pos - Window < curMatch_rle'
  PROVE  IInv' /\ curMatch' < curMatch
<1>. USE SizesAssumption
<1>1. PICK k \in {ptr0, ptr1} : son' = [son EXCEPT ![k] = curMatch]
  OBVIOUS
<1>2. /\ son' \in [0 .. 2 * Window - 1 -> Nat] /\ SonsBack(son', cyclicBufferPos, pos)
      /\ \A j \in {Pair(curMatch), Pair(curMatch) + 1} :
           /\ son'[j] \in Nat /\ son'[j] < curMatch
           /\ \A n \in Nat : n < curMatch =>
                /\ Newer(j, cyclicBufferPos, pos, n)
                /\ Newer(ptr0, cyclicBufferPos, pos, n) /\ Newer(ptr1, cyclicBufferPos, pos, n)
  BY <1>1, Deeper
<1>3. PICK n \in Nat : n = curMatch' /\ n < curMatch
  BY <1>2
<1>4. curMatch \in Nat /\ curMatch < pos /\ pos \in Nat
  BY DEF IInv, SearchInv, TreeInv
<1>5. n < pos
  BY <1>3, <1>4
<1>6. Newer(ptr0', cyclicBufferPos, pos, n) /\ Newer(ptr1', cyclicBufferPos, pos, n)
  BY <1>2, <1>3
<1>7. TreeInv'
  BY <1>2 DEF IInv, TreeInv, lenl
<1>8. len0' \in Nat /\ len1' \in Nat
  BY DEF IInv, SearchInv
<1>9. Newer(ptr0, cyclicBufferPos, pos, curMatch)' /\ Newer(ptr1, cyclicBufferPos, pos, curMatch)'
  BY <1>3, <1>6 DEF Newer
<1>10. pos' - Window < curMatch_rle' /\ curMatch' \in Nat /\ curMatch' < pos' /\ rle_len' \in Nat
  BY <1>3, <1>5 DEF IInv, SearchInv
<1>11. running' => (op' = "GetMatches3" => dist_258' \in 1 .. Window - 1)
  BY DEF IInv, SearchInv
<1>12. SearchInv'
  BY <1>8, <1>9, <1>10, <1>11 DEF SearchInv
<1>. QED  BY <1>3, <1>7, <1>12 DEF IInv

\* in a search there is a byte left
LEMMA Left ==
  ASSUME IInv, running
  PROVE  lenl \in Nat
<1>. QED  BY RepeatedIsNat DEF IInv

\* A search ends: both places get a son that is older, or none.
LEMMA EndInv ==
  ASSUME IInv, running, NEW a \in Nat, NEW b \in Nat, a <= curMatch, b <= curMatch,
         son' = [son EXCEPT ![ptr1] = a, ![ptr0] = b] \/ son' = [son EXCEPT ![ptr0] = a, ![ptr1] = b],
         MOVE_POS, UNCHANGED <<in, hash, op, path, dist_258, repetition>>
  PROVE  IInv'
<1>. USE SizesAssumption
<1>1. /\ cyclicBufferPos \in 0 .. Window - 1 /\ pos \in Nat /\ pos >= Window
      /\ son \in [0 .. 2 * Window - 1 -> Nat] /\ SonsBack(son, cyclicBufferPos, pos)
      /\ curMatch \in Nat /\ curMatch < pos
      /\ Newer(ptr0, cyclicBufferPos, pos, curMatch) /\ Newer(ptr1, cyclicBufferPos, pos, curMatch)
  BY DEF IInv, TreeInv, SearchInv
<1>2. \A n \in {a, b} : \A k \in {ptr0, ptr1} : Newer(k, cyclicBufferPos, pos, n)
  BY <1>1, StillNewer
<1>3. PICK j, k \in {ptr0, ptr1} : son' = [son EXCEPT ![j] = a, ![k] = b]
  OBVIOUS
<1>4. Newer(j, cyclicBufferPos, pos, a) /\ Newer(k, cyclicBufferPos, pos, b)
  BY <1>2
<1>. DEFINE s == [son EXCEPT ![j] = a]
<1>5. j \in 0 .. 2 * Window - 1 /\ s \in [0 .. 2 * Window - 1 -> Nat] /\ SonsBack(s, cyclicBufferPos, pos)
  BY <1>1, <1>4, HungBack
<1>6. son' = [s EXCEPT ![k] = b]
  BY <1>3
<1>. HIDE DEF s
<1>7. son' \in [0 .. 2 * Window - 1 -> Nat] /\ SonsBack(son', cyclicBufferPos, pos)
  BY <1>1, <1>4, <1>5, <1>6, HungBack
<1>8. TreeInv'
  BY <1>7, NextPosition DEF IInv, TreeInv
<1>9. running' = FALSE
  BY DEF MOVE_POS
<1>. QED  BY <1>8, <1>9 DEF IInv, SearchInv, path, repetition

\* whatever the function, a node that is looked at is in the window
LEMMA InWindow ==
  ASSUME IInv, KnownAhead, running, ~OutOfWindow
  PROVE  pos - curMatch < Window
<1>. USE SizesAssumption
<1>1. pos \in Nat /\ curMatch \in Nat
  BY DEF IInv, TreeInv, SearchInv
<1>2. CASE op = "GetMatches3"
  <2>1. delta <= dist_258 /\ dist_258 \in 1 .. Window - 1
    BY <1>2 DEF KnownAhead, IInv, SearchInv
  <2>. QED  BY <1>1, <2>1 DEF delta
<1>3. CASE op # "GetMatches3"
  BY <1>1, <1>3 DEF OutOfWindow, delta
<1>. QED  BY <1>2, <1>3

\* The search has left the window, or found a node to replace.
LEMMA StopInv ==
  ASSUME IInv, KnownAhead, Leave \/ Replace
  PROVE  IInv' /\ ~running'
<1>. USE SizesAssumption
<1>1. running /\ MOVE_POS /\ UNCHANGED <<in, hash, op, path, dist_258, repetition>> /\ ~running'
  BY DEF Leave, Replace, Searching, MOVE_POS
<1>2. curMatch \in Nat /\ curMatch < pos /\ pos \in Nat
  BY <1>1 DEF IInv, TreeInv, SearchInv
<1>3. CASE Leave
  <2>1. son' = [son EXCEPT ![ptr0] = 0, ![ptr1] = 0] /\ 0 <= curMatch
    BY <1>2, <1>3 DEF Leave
  <2>. QED  BY <1>1, <2>1, EndInv
<1>4. CASE Replace
  <2>. DEFINE a == son[Pair(curMatch)]
              b == son[Pair(curMatch) + 1]
  <2>1. son' = [son EXCEPT ![ptr1] = a, ![ptr0] = b]
    BY <1>4 DEF Replace, TakeOver
  <2>2. pos - curMatch < Window
    BY <1>1, <1>4, InWindow DEF Replace
  <2>3. /\ cyclicBufferPos \in 0 .. Window - 1 /\ pos >= Window /\ curMatch <= pos
        /\ son \in [0 .. 2 * Window - 1 -> Nat] /\ SonsBack(son, cyclicBufferPos, pos)
    BY <1>2 DEF IInv, TreeInv
  <2>4. a \in Nat /\ b \in Nat /\ a < curMatch /\ b < curMatch
    BY <1>2, <2>2, <2>3, SonsOf
  <2>. HIDE DEF a, b
  <2>5. a <= curMatch /\ b <= curMatch
    BY <1>2, <2>4
  <2>. QED  BY <1>1, <2>1, <2>4, <2>5, EndInv
<1>. QED  BY <1>3, <1>4

\* A node is passed after its bytes were compared.
LEMMA DescendInv ==
  ASSUME IInv, KnownAhead, Descend
  PROVE  IInv' /\ curMatch' < curMatch
<1>. USE SizesAssumption
<1>1. running /\ pos - curMatch < Window
  BY InWindow DEF Descend, Searching
<1>2. /\ pos \in Nat /\ pos >= Window /\ curMatch \in Nat /\ rle_len \in Nat
      /\ len0 \in Nat /\ len1 \in Nat /\ lenl \in Nat
  BY <1>1, Left DEF IInv, TreeInv, SearchInv
<1>3. len \in Nat
  BY <1>2, LenIsNat
<1>4. RepeatedBefore \in Nat /\ curMatch - RepeatedBefore > pos - Window
  BY <1>1, <1>2, <1>3, RepeatsInWindow
<1>5. cnt \in Int /\ cnt <= RepeatedBefore
  <2>. HIDE DEF IInv
  <2>. DEFINE r == RepeatedBefore
  <2>1. r \in Nat
    BY <1>4
  <2>2. cnt = IF r + len > rle_len - 1 THEN rle_len - 1 - len ELSE r
    BY DEF cnt
  <2>. HIDE DEF r
  <2>3. cnt \in Int /\ cnt <= r
    BY <1>2, <1>3, <2>1, <2>2
  <2>. QED  BY <2>3 DEF r
<1>6. curMatch_rle' = pos \/ curMatch_rle' = curMatch - cnt
  BY DEF Descend
<1>7. curMatch_rle' \in Int /\ pos - Window < curMatch_rle'
  <2>1. pos \in Int /\ pos - Window < pos
    BY <1>2
  <2>2. curMatch - cnt \in Int /\ pos - Window < curMatch - cnt
    BY <1>2, <1>4, <1>5
  <2>. QED  BY <1>6, <2>1, <2>2
<1>8. UNCHANGED <<in, pos, cyclicBufferPos, hash, op, running, dist_258, rle_len>>
  BY DEF Descend
<1>9. \/ /\ son' = [son EXCEPT ![ptr1] = curMatch]
         /\ ptr1' = Pair(curMatch) + 1 /\ curMatch' = son'[ptr1'] /\ UNCHANGED <<ptr0, len0>>
         /\ len1' \in Nat
      \/ /\ son' = [son EXCEPT ![ptr0] = curMatch]
         /\ ptr0' = Pair(curMatch) /\ curMatch' = son'[ptr0'] /\ UNCHANGED <<ptr1, len1>>
         /\ len0' \in Nat
  BY <1>3 DEF Descend
<1>. QED  BY <1>1, <1>7, <1>8, <1>9, DownInv

\* A node is passed without a comparison.
LEMMA DescendRepeatedInv ==
  ASSUME IInv, DescendRepeated
  PROVE  IInv' /\ curMatch' < curMatch
<1>. USE SizesAssumption
<1>1. running /\ curMatch >= curMatch_rle
  BY DEF DescendRepeated
<1>2. /\ pos \in Nat /\ curMatch \in Nat /\ len0 \in Nat /\ len1 \in Nat
      /\ curMatch_rle \in Int /\ pos - Window < curMatch_rle
  BY <1>1 DEF IInv, TreeInv, SearchInv
<1>3. pos - curMatch < Window
  BY <1>1, <1>2
<1>4. /\ UNCHANGED <<in, pos, cyclicBufferPos, hash, op, running, dist_258, rle_len>>
      /\ curMatch_rle' = curMatch_rle
  BY DEF DescendRepeated, repetition
<1>5. \/ /\ son' = [son EXCEPT ![ptr1] = curMatch]
         /\ ptr1' = Pair(curMatch) + 1 /\ curMatch' = son'[ptr1'] /\ UNCHANGED <<ptr0, len0>>
         /\ len1' \in Nat
      \/ /\ son' = [son EXCEPT ![ptr0] = curMatch]
         /\ ptr0' = Pair(curMatch) /\ curMatch' = son'[ptr0'] /\ UNCHANGED <<ptr1, len1>>
         /\ len0' \in Nat
  BY <1>2 DEF DescendRepeated
<1>. QED  BY <1>1, <1>2, <1>3, <1>4, <1>5, DownInv
-----------------------------------------------------------------------------

\* The trees are empty at first.
LEMMA InitInv ==
  ASSUME Init
  PROVE  IInv
<1>. USE SizesAssumption
<1>1. in \in Seq(Nat) /\ Len(in) \in Nat /\ in \in Inputs
  BY InputsAssumption, LenProperties DEF Init
<1>2. lenl = Len(in)
  BY <1>1 DEF Init, lenl
<1>3. SonsBack(son, cyclicBufferPos, pos)
  BY DEF Init, SonsBack
<1>4. /\ cyclicBufferPos \in 0 .. Window - 1 /\ pos \in Nat /\ pos >= Window /\ running = FALSE
      /\ son \in [0 .. 2 * Window - 1 -> Nat]
  BY DEF Init
<1>5. hash \in [Buckets -> Nat] /\ \A h \in Buckets : hash[h] <= pos /\ hash[h] < pos
  <2>1. hash = [h \in Buckets |-> 0] /\ pos = Window
    BY DEF Init
  <2>. QED  BY <2>1
<1>6. TreeInv
  <2>1. lenl >= 0
    BY <1>1, <1>2
  <2>2. running \in BOOLEAN /\ ~running
    BY <1>4
  <2>. QED  BY <1>1, <1>3, <1>4, <1>5, <2>1, <2>2, Zenon DEF TreeInv
<1>7. SearchInv
  BY <1>4 DEF Init, SearchInv
<1>. QED  BY <1>6, <1>7 DEF IInv

\* Each step keeps this, and goes back.
LEMMA StepInv ==
  ASSUME IInv, KnownAhead, [Next]_vars
  PROVE  IInv' /\ (running /\ running' => curMatch' < curMatch \/ UNCHANGED vars)
<1>1. CASE GetMatches \/ Skip \/ GetMatches3
  BY <1>1, CallInv DEF GetMatches, Skip, GetMatches3, Start, Call
<1>2. CASE GetMatches2
  BY <1>2, GetMatches2Inv DEF GetMatches2, Call
<1>3. CASE Skip2
  BY <1>3, Skip2Inv DEF Skip2, Call
<1>4. CASE Leave \/ Replace
  BY <1>4, StopInv
<1>5. CASE Descend
  BY <1>5, DescendInv
<1>6. CASE DescendRepeated
  BY <1>6, DescendRepeatedInv
<1>7. CASE AtEnd \/ UNCHANGED vars
  <2>1. UNCHANGED vars
    BY <1>7 DEF AtEnd
  <2>2. TreeInv'
    BY <2>1 DEF IInv, TreeInv, vars, tree, SonsBack, lenl
  <2>3. SearchInv'
    BY <2>1 DEF IInv, SearchInv, vars, path, repetition, Newer
  <2>. QED  BY <2>1, <2>2, <2>3 DEF IInv
<1>. QED  BY <1>1, <1>2, <1>3, <1>4, <1>5, <1>6, <1>7 DEF Next
-----------------------------------------------------------------------------
(* The trees *)

\* u comes before v on side 0, after it on side 1
Side(b, u, v) == IF b = 0 THEN u < v ELSE v < u

\* By the ranks R and the buckets B of the positions below p, a is below the son b of
\* m, when each position is put in as the root: m is the newest that parts it from
\* the ones after m.
Under(R, B, p, b, a, m) ==
  /\ a < m /\ B[a] = B[m] /\ Side(b, R[a], R[m])
  /\ \A n \in m + 1 .. p - 1 : B[n] = B[m] /\ Side(b, R[n], R[m]) => Side(b, R[n], R[a])

\* No newer position of its bucket has the rank of m: a node that was not replaced.
Live(R, B, p, m) == \A n \in m + 1 .. p - 1 : B[n] = B[m] => R[n] # R[m]

\* s is the newest of the positions from l on that belong below the son b of m.
GoodSon(R, B, p, l, b, m, s) ==
  /\ \A a \in l .. m - 1 : Under(R, B, p, b, a, m) => a <= s
  /\ s >= l => Under(R, B, p, b, s, m)

\* T are the sons of a tree that is sorted by R, as far as the window goes.
Tree(R, B, T, p, l) ==
  \A m \in l .. p - 1 : Live(R, B, p, m) => \A b \in {0, 1} : GoodSon(R, B, p, l, b, m, T[b][m])

\* which son of m the place on side d is, when p is the new position
Inner(p, m, d) == IF m = p THEN d ELSE 1 - d
\* The son b of m is one of the two places x that are still to be filled.
Pending(p, x, m, b) == \E d \in {0, 1} : m = x[d] /\ b = Inner(p, m, d)

\* On side d, x[d] is the last node that was passed, the closest one to the rank of p;
\* none yet when it is p itself.
Between(R, B, p, l, c, x, d) ==
  /\ x[d] \in l .. p /\ x[d] > c
  /\ x[d] # p => B[x[d]] = B[p] /\ Side(d, R[x[d]], R[p])
  /\ c >= l /\ x[d] # p => Side(1 - d, R[c], R[x[d]])
  /\ \A n \in l .. p - 1 : n > c /\ B[n] = B[p] /\ Side(d, R[n], R[p]) =>
       x[d] # p /\ ~Side(1 - d, R[n], R[x[d]])

\* A search for p has come to c: above it is the new tree, but for the two places,
\* below it the old one.
SearchTree(R, B, T, p, l, c, x) ==
  /\ \A m \in l .. p : \A b \in {0, 1} :
       m > c /\ Live(R, B, p + 1, m) => Pending(p, x, m, b) \/ GoodSon(R, B, p + 1, l, b, m, T[b][m])
  /\ \A m \in l .. p - 1 : \A b \in {0, 1} :
       m <= c /\ Live(R, B, p, m) => GoodSon(R, B, p, l, b, m, T[b][m])
  /\ \A n \in l .. p - 1 : n > c /\ B[n] = B[p] => R[n] # R[p]
  /\ c >= l => B[c] = B[p]
  /\ \A d \in {0, 1} : Between(R, B, p, l, c, x, d)

\* the laws of an order
LEMMA SideIs ==
  ASSUME NEW d \in {0, 1}, NEW u \in Int, NEW v \in Int
  PROVE  /\ 1 - d \in {0, 1} /\ 1 - (1 - d) = d
         /\ Side(d, u, v) \in BOOLEAN
         /\ Side(1 - d, u, v) <=> Side(d, v, u)
         /\ Side(d, u, v) => ~Side(d, v, u)
         /\ u # v => Side(d, u, v) \/ Side(d, v, u)
         /\ ~Side(d, u, u)
         /\ \A w \in Int : /\ Side(d, u, v) /\ Side(d, v, w) => Side(d, u, w)
                           /\ Side(d, u, v) /\ ~Side(d, w, v) => Side(d, u, w)
                           /\ ~Side(d, v, u) /\ Side(d, v, w) => Side(d, u, w)
<1>1. CASE d = 0
  <2>1. Side(0, u, v) \in BOOLEAN
    BY DEF Side
  <2>. QED  BY <1>1, <2>1 DEF Side
<1>2. CASE d = 1
  <2>1. Side(1, u, v) \in BOOLEAN
    BY DEF Side
  <2>. QED  BY <1>2, <2>1 DEF Side
<1>. QED  BY <1>1, <1>2

\* the other side
LEMMA SideSwap ==
  ASSUME NEW d \in {0, 1}, NEW u \in Int, NEW v \in Int
  PROVE  Side(1 - d, u, v) <=> Side(d, v, u)
BY SideIs

\* what a new position parts
LEMMA UnderNext ==
  ASSUME NEW R, NEW B, NEW p \in Nat, NEW b, NEW a, NEW m \in Nat, m < p
  PROVE  Under(R, B, p + 1, b, a, m) <=>
           Under(R, B, p, b, a, m) /\ (B[p] = B[m] /\ Side(b, R[p], R[m]) => Side(b, R[p], R[a]))
<1>. DEFINE Keeps(n) == B[n] = B[m] /\ Side(b, R[n], R[m]) => Side(b, R[n], R[a])
<1>1. (\A n \in m + 1 .. p : Keeps(n)) <=> (\A n \in m + 1 .. p - 1 : Keeps(n)) /\ Keeps(p)
  <2>1. m + 1 .. p = (m + 1 .. p - 1) \cup {p}
    OBVIOUS
  <2>2. \A n : n \in m + 1 .. p <=> n \in m + 1 .. p - 1 \/ n = p
    BY <2>1
  <2>. HIDE DEF Keeps
  <2>. QED  BY <2>2, Zenon
<1>2. p + 1 - 1 = p
  OBVIOUS
<1>3. Under(R, B, p + 1, b, a, m) <=>
        /\ a < m /\ B[a] = B[m] /\ Side(b, R[a], R[m]) /\ \A n \in m + 1 .. p : Keeps(n)
  BY <1>2 DEF Under
<1>4. Under(R, B, p, b, a, m) <=>
        /\ a < m /\ B[a] = B[m] /\ Side(b, R[a], R[m]) /\ \A n \in m + 1 .. p - 1 : Keeps(n)
  BY DEF Under
<1>. QED  BY <1>1, <1>3, <1>4, Zenon

\* a node of the new tree was one of the old
LEMMA LiveBefore ==
  ASSUME NEW R, NEW B, NEW p \in Nat, NEW m \in Nat, Live(R, B, p + 1, m)
  PROVE  Live(R, B, p, m) /\ (m < p /\ B[p] = B[m] => R[p] # R[m])
<1>1. m + 1 .. p - 1 \subseteq m + 1 .. p + 1 - 1 /\ (m < p => p \in m + 1 .. p + 1 - 1)
  OBVIOUS
<1>. QED  BY <1>1 DEF Live

\* a son that the new position does not part from its father
LEMMA SonNext ==
  ASSUME NEW R, NEW B, NEW p \in Nat, NEW l \in Nat, NEW b, NEW m \in Nat, m < p, NEW s \in Nat,
         GoodSon(R, B, p, l, b, m, s),
         \A a \in Nat : Under(R, B, p, b, a, m) => (B[p] = B[m] /\ Side(b, R[p], R[m]) => Side(b, R[p], R[a]))
  PROVE  GoodSon(R, B, p + 1, l, b, m, s)
<1>1. ASSUME NEW a \in Nat PROVE Under(R, B, p + 1, b, a, m) <=> Under(R, B, p, b, a, m)
  BY UnderNext
<1>. QED  BY <1>1 DEF GoodSon

\* What comes below a place is older than c and between the two places.
InGap(R, B, p, l, c, x, d) ==
  \A a \in l .. x[d] - 1 :
    Under(R, B, p + 1, Inner(p, x[d], d), a, x[d]) => a <= c /\ B[a] = B[p] /\ Side(d, R[a], R[p])

\* what may come below a place
LEMMA OlderOfGap ==
  ASSUME NEW R \in [Nat -> Nat], NEW B, NEW T, NEW p \in Nat, NEW l \in Nat, NEW c \in Nat, c < p,
         NEW x, SearchTree(R, B, T, p, l, c, x), NEW d \in {0, 1}
  PROVE  InGap(R, B, p, l, c, x, d)
<1>. SUFFICES ASSUME NEW a \in l .. x[d] - 1, Under(R, B, p + 1, Inner(p, x[d], d), a, x[d])
              PROVE  a <= c /\ B[a] = B[p] /\ Side(d, R[a], R[p])
  BY DEF InGap
<1>. DEFINE m == x[d]
<1>1. Between(R, B, p, l, c, x, d)
  BY DEF SearchTree
<1>2. m \in l .. p /\ m \in Nat /\ a \in Nat /\ a < m
  BY <1>1 DEF Between
<1>3. CASE m = p
  <2>1. Side(d, R[a], R[p]) /\ B[a] = B[p]
    BY <1>3 DEF Under, Inner
  <2>2. a <= c
    <3>1. SUFFICES ASSUME a > c PROVE FALSE
      BY <1>2
    <3>. QED  BY <1>1, <1>2, <1>3, <2>1, <3>1 DEF Between
  <2>. QED  BY <1>3, <2>1, <2>2
<1>4. CASE m # p
  <2>1. /\ B[a] = B[m] /\ B[m] = B[p] /\ Side(1 - d, R[a], R[m]) /\ Side(d, R[m], R[p])
        /\ \A n \in m + 1 .. p : B[n] = B[m] /\ Side(1 - d, R[n], R[m]) => Side(1 - d, R[n], R[a])
    <3>1. p + 1 - 1 = p
      OBVIOUS
    <3>. QED  BY <1>1, <1>4, <3>1 DEF Under, Inner, Between
  <2>2. p \in m + 1 .. p
    BY <1>2, <1>4
  <2>3. Side(1 - d, R[p], R[a])
    <3>1. R[p] \in Int /\ R[m] \in Int
      BY <1>2
    <3>2. Side(1 - d, R[p], R[m])
      BY <2>1, <3>1, SideSwap
    <3>. QED  BY <2>1, <2>2, <3>2
  <2>4. Side(d, R[a], R[p])
    <3>1. R[p] \in Int /\ R[a] \in Int
      BY <1>2
    <3>. QED  BY <2>3, <3>1, SideSwap
  <2>5. a <= c
    <3>1. SUFFICES ASSUME a > c PROVE FALSE
      BY <1>2
    <3>2. a \in l .. p - 1
      BY <1>2
    <3>. QED  BY <1>1, <2>1, <2>4, <3>1, <3>2 DEF Between
  <2>. QED  BY <2>1, <2>4, <2>5
<1>. QED  BY <1>3, <1>4

\* what does
LEMMA FitsGap ==
  ASSUME NEW R \in [Nat -> Nat], NEW B, NEW T, NEW p \in Nat, NEW l \in Nat, NEW c \in Nat, c < p,
         NEW x, SearchTree(R, B, T, p, l, c, x), NEW d \in {0, 1},
         NEW s \in Nat, s <= c, B[s] = B[p], Side(d, R[s], R[p]),
         x[d] # p => Side(1 - d, R[s], R[x[d]])
  PROVE  Under(R, B, p + 1, Inner(p, x[d], d), s, x[d])
<1>. DEFINE m == x[d]
<1>1. Between(R, B, p, l, c, x, d)
  BY DEF SearchTree
<1>2. m \in l .. p /\ m \in Nat /\ m > c /\ s < m
  BY <1>1 DEF Between
<1>3. p + 1 - 1 = p
  OBVIOUS
<1>4. CASE m = p
  BY <1>2, <1>3, <1>4 DEF Under, Inner
<1>5. CASE m # p
  <2>1. B[m] = B[p] /\ Side(d, R[m], R[p])
    BY <1>1, <1>5 DEF Between
  <2>2. ASSUME NEW n \in m + 1 .. p, B[n] = B[m], Side(1 - d, R[n], R[m])
        PROVE  Side(1 - d, R[n], R[s])
    <3>1. n \in Nat /\ n > c
      BY <1>2
    <3>2. CASE n = p
      BY <3>1, <3>2, SideIs
    <3>3. CASE n # p
      <4>1. n \in l .. p - 1 /\ B[n] = B[p]
        BY <1>2, <2>1, <2>2, <3>3
      <4>2. R[n] # R[p]
        BY <3>1, <4>1 DEF SearchTree
      <4>3. ~Side(d, R[n], R[p])
        <5>1. SUFFICES ASSUME Side(d, R[n], R[p]) PROVE FALSE
          BY <3>1, SideIs
        <5>2. ~Side(1 - d, R[n], R[m])
          BY <1>1, <3>1, <4>1, <5>1 DEF Between
        <5>. QED  BY <2>2, <5>2
      <4>4. Side(d, R[p], R[n])
        BY <3>1, <4>2, <4>3, SideIs
      <4>5. R[s] \in Int /\ R[n] \in Int /\ R[p] \in Int
        BY <3>1
      <4>6. Side(d, R[s], R[n])
        BY <4>4, <4>5, SideIs
      <4>. QED  BY <4>5, <4>6, SideIs
    <3>. QED  BY <3>2, <3>3
  <2>. QED  BY <1>2, <1>3, <1>5, <2>1, <2>2 DEF Under, Inner
<1>. QED  BY <1>4, <1>5

\* The node that a search looks at comes into the place on its side.
LEMMA GapFilled ==
  ASSUME NEW R \in [Nat -> Nat], NEW B, NEW T, NEW p \in Nat, NEW l \in Nat, NEW c \in l .. p - 1,
         NEW x, SearchTree(R, B, T, p, l, c, x), NEW d \in {0, 1}, Side(d, R[c], R[p])
  PROVE  GoodSon(R, B, p + 1, l, Inner(p, x[d], d), x[d], c)
<1>1. Between(R, B, p, l, c, x, d) /\ B[c] = B[p]
  BY DEF SearchTree
<1>2. c \in Nat /\ c < p /\ c >= l
  OBVIOUS
<1>3. Under(R, B, p + 1, Inner(p, x[d], d), c, x[d])
  <2>1. x[d] # p => Side(1 - d, R[c], R[x[d]])
    BY <1>1, <1>2 DEF Between
  <2>2. c <= c
    BY <1>2
  <2>. QED  BY <1>1, <1>2, <2>1, <2>2, FitsGap
<1>4. ASSUME NEW a \in l .. x[d] - 1, Under(R, B, p + 1, Inner(p, x[d], d), a, x[d])
      PROVE  a <= c
  <2>1. InGap(R, B, p, l, c, x, d)
    BY <1>2, OlderOfGap
  <2>. QED  BY <1>4, <2>1 DEF InGap
<1>. QED  BY <1>3, <1>4 DEF GoodSon

\* A search looks at a node that was not replaced.
LEMMA NodeIsLive ==
  ASSUME NEW R \in [Nat -> Nat], NEW B, NEW T, NEW p \in Nat, NEW l \in Nat, NEW c \in l .. p - 1,
         NEW x, SearchTree(R, B, T, p, l, c, x)
  PROVE  Live(R, B, p, c) /\ \A b \in {0, 1} : GoodSon(R, B, p, l, b, c, T[b][c])
<1>0. c \in Nat /\ c < p /\ c >= l
  OBVIOUS
<1>1. ASSUME NEW n \in c + 1 .. p - 1, B[n] = B[c], R[n] = R[c]
      PROVE  FALSE
  <2>1. n \in l .. p - 1 /\ n \in Nat /\ n > c /\ B[n] = B[p]
    BY <1>0, <1>1 DEF SearchTree
  <2>2. R[n] # R[p]
    BY <2>1 DEF SearchTree
  <2>3. PICK d \in {0, 1} : Side(d, R[n], R[p])
    <3>1. Side(0, R[n], R[p]) \/ Side(1, R[n], R[p])
      BY <2>1, <2>2 DEF Side
    <3>. QED  BY <3>1
  <2>4. Between(R, B, p, l, c, x, d)
    BY DEF SearchTree
  <2>5. x[d] # p /\ ~Side(1 - d, R[n], R[x[d]])
    BY <2>1, <2>3, <2>4 DEF Between
  <2>6. Side(1 - d, R[c], R[x[d]])
    BY <1>0, <2>4, <2>5 DEF Between
  <2>. QED  BY <1>1, <2>5, <2>6
<1>2. Live(R, B, p, c)
  BY <1>1 DEF Live
<1>3. c \in l .. p - 1 /\ c <= c
  BY <1>0
<1>. QED  BY <1>2, <1>3 DEF SearchTree

\* What lies after e is no closer to p than c, or than the node on the other side.
Narrowed(R, B, p, l, c, x, d, e) ==
  \A n \in l .. p - 1 : n > e /\ B[n] = B[p] =>
    \/ Side(d, R[n], R[p]) /\ ~Side(1 - d, R[n], R[c])
    \/ x[1 - d] # p /\ Side(1 - d, R[n], R[p]) /\ ~Side(d, R[n], R[x[1 - d]])

\* A step of a search passes no node that is closer.
LEMMA Passed ==
  ASSUME NEW R \in [Nat -> Nat], NEW B, NEW T, NEW p \in Nat, NEW l \in Nat, NEW c \in l .. p - 1,
         NEW x, SearchTree(R, B, T, p, l, c, x), NEW d \in {0, 1}, Side(d, R[c], R[p]),
         NEW e \in Nat, e = T[1 - d][c]
  PROVE  Narrowed(R, B, p, l, c, x, d, e)
<1>. SUFFICES ASSUME NEW n \in l .. p - 1, n > e, B[n] = B[p]
              PROVE  \/ Side(d, R[n], R[p]) /\ ~Side(1 - d, R[n], R[c])
                     \/ x[1 - d] # p /\ Side(1 - d, R[n], R[p]) /\ ~Side(d, R[n], R[x[1 - d]])
  BY DEF Narrowed
<1>0. c \in Nat /\ c < p /\ c >= l /\ 1 - d \in {0, 1} /\ n \in Nat
  OBVIOUS
<1>1. \A i \in {0, 1} : Between(R, B, p, l, c, x, i) /\ (x[i] # p => x[i] \in Nat)
  BY DEF SearchTree, Between
<1>2. R[p] \in Nat /\ R[c] \in Nat /\ \A i \in {0, 1} : x[i] # p => R[x[i]] \in Nat
  BY <1>0, <1>1
<1>3. B[c] = B[p]
  BY <1>0 DEF SearchTree
<1>4. ASSUME NEW q \in l .. p - 1, q > c, B[q] = B[p]
      PROVE  \/ Side(d, R[q], R[p]) /\ ~Side(1 - d, R[q], R[c])
             \/ x[1 - d] # p /\ Side(1 - d, R[q], R[p]) /\ ~Side(d, R[q], R[x[1 - d]])
  <2>1. R[q] # R[p]
    BY <1>4 DEF SearchTree
  <2>2. R[q] \in Nat
    OBVIOUS
  <2>3. CASE Side(d, R[q], R[p])
    <3>1. x[d] # p /\ ~Side(1 - d, R[q], R[x[d]]) /\ Side(1 - d, R[c], R[x[d]])
      BY <1>0, <1>1, <1>4, <2>3 DEF Between
    <3>2. R[x[d]] \in Nat
      BY <1>2, <3>1
    <3>3. ~Side(1 - d, R[q], R[c])
      BY <1>2, <2>2, <3>1, <3>2 DEF Side
    <3>. QED  BY <2>3, <3>3
  <2>4. CASE ~Side(d, R[q], R[p])
    <3>1. Side(1 - d, R[q], R[p])
      BY <1>2, <2>1, <2>2, <2>4 DEF Side
    <3>2. x[1 - d] # p /\ ~Side(1 - (1 - d), R[q], R[x[1 - d]])
      BY <1>0, <1>1, <1>4, <3>1 DEF Between
    <3>3. 1 - (1 - d) = d
      OBVIOUS
    <3>. QED  BY <3>1, <3>2, <3>3
  <2>. QED  BY <2>3, <2>4
<1>5. CASE n > c
  BY <1>4, <1>5
<1>6. CASE n = c
  <2>1. ~Side(1 - d, R[c], R[c])
    BY <1>2 DEF Side
  <2>. QED  BY <1>6, <2>1
<1>7. CASE n < c
  <2>1. R[n] \in Nat
    OBVIOUS
  <2>2. CASE ~Side(1 - d, R[n], R[c])
    <3>1. Side(d, R[n], R[p])
      BY <1>2, <2>1, <2>2 DEF Side
    <3>. QED  BY <2>2, <3>1
  <2>3. CASE Side(1 - d, R[n], R[c])
    <3>1. ~Under(R, B, p, 1 - d, n, c)
      <4>1. GoodSon(R, B, p, l, 1 - d, c, T[1 - d][c])
        BY <1>0, NodeIsLive
      <4>2. n \in l .. c - 1 /\ ~(n <= e)
        BY <1>7
      <4>. QED  BY <1>0, <1>7, <4>1, <4>2 DEF GoodSon
    <3>2. PICK q \in c + 1 .. p - 1 : B[q] = B[c] /\ Side(1 - d, R[q], R[c]) /\ ~Side(1 - d, R[q], R[n])
      BY <1>3, <1>7, <2>3, <3>1 DEF Under
    <3>3. q \in l .. p - 1 /\ q > c /\ B[q] = B[p] /\ R[q] \in Nat
      BY <1>0, <1>3, <3>2
    <3>4. x[1 - d] # p /\ Side(1 - d, R[q], R[p]) /\ ~Side(d, R[q], R[x[1 - d]])
      BY <1>4, <3>2, <3>3
    <3>5. R[x[1 - d]] \in Nat
      BY <1>0, <1>2, <3>4
    <3>6. Side(1 - d, R[n], R[p]) /\ ~Side(d, R[n], R[x[1 - d]])
      BY <1>2, <2>1, <3>2, <3>3, <3>4, <3>5 DEF Side
    <3>. QED  BY <3>4, <3>6
  <2>. QED  BY <2>2, <2>3
<1>. QED  BY <1>0, <1>5, <1>6, <1>7

\* U are the sons T with s in the place on side d.
Hung(T, U, p, l, x, d, s) ==
  \A m \in l .. p : \A b \in {0, 1} :
    U[b][m] = IF m = x[d] /\ b = Inner(p, x[d], d) THEN s ELSE T[b][m]

\* the sons of a tree are positions
SonsAreNat(T, p, l) == \A m \in l .. p - 1 : \A b \in {0, 1} : T[b][m] \in Nat

\* A step of a search hangs its node in and goes on with its other son.
LEMMA OneDown ==
  ASSUME NEW R \in [Nat -> Nat], NEW B, NEW T, NEW p \in Nat, NEW l \in Nat, NEW c \in l .. p - 1,
         NEW x, SearchTree(R, B, T, p, l, c, x), NEW d \in {0, 1}, Side(d, R[c], R[p]),
         NEW U, Hung(T, U, p, l, x, d, c), SonsAreNat(T, p, l),
         NEW y, y[d] = c, y[1 - d] = x[1 - d],
         NEW e \in Nat, e = T[1 - d][c], e < c
  PROVE  SearchTree(R, B, U, p, l, e, y)
<1>0. c \in Nat /\ c < p /\ c >= l /\ 1 - d \in {0, 1} /\ d # 1 - d /\ B[c] = B[p] /\ e \in Nat
  BY DEF SearchTree
<1>1. \A i \in {0, 1} : Between(R, B, p, l, c, x, i) /\ x[i] \in l .. p /\ x[i] > c
  BY DEF SearchTree, Between
<1>2. R[p] \in Nat /\ R[c] \in Nat /\ \A i \in {0, 1} : x[i] # p => R[x[i]] \in Nat
  BY <1>0, <1>1
<1>3. Live(R, B, p, c) /\ \A b \in {0, 1} : GoodSon(R, B, p, l, b, c, T[b][c])
  BY NodeIsLive
<1>4. \A n \in l .. p - 1 : n > e /\ B[n] = B[p] =>
           \/ Side(d, R[n], R[p]) /\ ~Side(1 - d, R[n], R[c])
           \/ x[1 - d] # p /\ Side(1 - d, R[n], R[p]) /\ ~Side(d, R[n], R[x[1 - d]])
  <2>1. Narrowed(R, B, p, l, c, x, d, e)
    BY Passed
  <2>. QED  BY <2>1 DEF Narrowed
<1>5. \A m \in l .. p - 1 : m <= c => \A b \in {0, 1} : U[b][m] = T[b][m]
  BY <1>1 DEF Hung
<1>6. ASSUME NEW m \in l .. p, NEW b \in {0, 1}, m > e, Live(R, B, p + 1, m)
      PROVE  Pending(p, y, m, b) \/ GoodSon(R, B, p + 1, l, b, m, U[b][m])
  <2>0. m \in Nat
    OBVIOUS
  <2>1. CASE m > c
    <3>1. CASE m = x[d] /\ b = Inner(p, x[d], d)
      <4>1. U[b][m] = c
        BY <3>1 DEF Hung
      <4>2. GoodSon(R, B, p + 1, l, Inner(p, x[d], d), x[d], c)
        BY GapFilled
      <4>. QED  BY <3>1, <4>1, <4>2
    <3>2. CASE ~(m = x[d] /\ b = Inner(p, x[d], d))
      <4>1. U[b][m] = T[b][m]
        BY <3>2 DEF Hung
      <4>2. Pending(p, x, m, b) \/ GoodSon(R, B, p + 1, l, b, m, T[b][m])
        BY <1>6, <2>1 DEF SearchTree
      <4>3. CASE Pending(p, x, m, b)
        <5>1. PICK i \in {0, 1} : m = x[i] /\ b = Inner(p, m, i)
          BY <4>3 DEF Pending
        <5>2. i = 1 - d
          BY <3>2, <5>1
        <5>. QED  BY <1>0, <5>1, <5>2 DEF Pending
      <4>. QED  BY <4>1, <4>2, <4>3
    <3>. QED  BY <3>1, <3>2
  <2>2. CASE m = c
    <3>1. CASE b = 1 - d
      <4>1. b = Inner(p, m, d) /\ m = y[d]
        BY <1>0, <2>2, <3>1 DEF Inner
      <4>. QED  BY <4>1 DEF Pending
    <3>2. CASE b = d
      <4>1. GoodSon(R, B, p, l, d, c, T[d][c]) /\ T[d][c] \in Nat
        BY <1>0, <1>3 DEF SonsAreNat
      <4>2. ~Side(d, R[p], R[c])
        BY <1>2 DEF Side
      <4>3. GoodSon(R, B, p + 1, l, d, c, T[d][c])
        BY <1>0, <4>1, <4>2, SonNext
      <4>. QED  BY <1>0, <1>5, <2>2, <3>2, <4>3
    <3>. QED  BY <3>1, <3>2
  <2>3. CASE m < c
    <3>0. m \in l .. p - 1 /\ m <= c /\ m < p
      BY <1>0, <2>3
    <3>1. Live(R, B, p, m) /\ (B[p] = B[m] => R[p] # R[m])
      <4>1. m + 1 .. p - 1 \subseteq m + 1 .. p + 1 - 1 /\ p \in m + 1 .. p + 1 - 1
        BY <2>0, <3>0
      <4>. QED  BY <1>6, <4>1 DEF Live
    <3>2. GoodSon(R, B, p, l, b, m, T[b][m]) /\ T[b][m] \in Nat
      BY <3>0, <3>1 DEF SearchTree, SonsAreNat
    <3>3. ASSUME NEW a, Under(R, B, p, b, a, m), B[p] = B[m], Side(b, R[p], R[m]), a \in Nat
          PROVE  Side(b, R[p], R[a])
      <4>0. R[m] \in Nat
        OBVIOUS
      <4>1. CASE Side(d, R[m], R[p]) /\ ~Side(1 - d, R[m], R[c])
        <5>1. R[m] # R[c]
          <6>1. c \in m + 1 .. p + 1 - 1
            BY <1>0, <2>3
          <6>. QED  BY <1>0, <1>6, <3>3, <6>1 DEF Live
        <5>2. c \in m + 1 .. p - 1 /\ B[c] = B[m]
          BY <1>0, <2>3, <3>3
        <5>3. Side(b, R[c], R[m]) /\ ~Side(b, R[c], R[p])
          BY <1>2, <3>3, <4>0, <4>1, <5>1 DEF Side
        <5>4. Side(b, R[c], R[a])
          BY <3>3, <5>2, <5>3 DEF Under
        <5>. QED  BY <1>2, <3>3, <5>3, <5>4 DEF Side
      <4>2. CASE x[1 - d] # p /\ Side(1 - d, R[m], R[p]) /\ ~Side(d, R[m], R[x[1 - d]])
        <5>0. PICK q \in l .. p : q = x[1 - d]
          BY <1>0, <1>1
        <5>1. q \in m + 1 .. p - 1 /\ B[q] = B[m] /\ R[q] \in Nat /\ Side(1 - d, R[q], R[p])
          <6>1. Between(R, B, p, l, c, x, 1 - d) /\ q > c
            BY <1>0, <1>1, <5>0
          <6>2. B[q] = B[p] /\ Side(1 - d, R[q], R[p])
            BY <4>2, <5>0, <6>1 DEF Between
          <6>3. R[q] \in Nat /\ q # p
            BY <4>2, <5>0
          <6>. QED  BY <1>0, <2>3, <3>3, <4>2, <6>1, <6>2, <6>3
        <5>2. R[q] # R[m]
          <6>1. q \in m + 1 .. p + 1 - 1
            BY <5>1
          <6>. QED  BY <1>6, <5>1, <6>1 DEF Live
        <5>3. ~Side(d, R[m], R[q])
          BY <4>2, <5>0
        <5>4. Side(b, R[q], R[m]) /\ ~Side(b, R[q], R[p])
          BY <1>2, <3>3, <4>0, <4>2, <5>1, <5>2, <5>3 DEF Side
        <5>5. Side(b, R[q], R[a])
          BY <3>3, <5>1, <5>4 DEF Under
        <5>. QED  BY <1>2, <3>3, <5>1, <5>4, <5>5 DEF Side
      <4>. QED  BY <1>4, <1>6, <3>0, <3>3, <4>1, <4>2
    <3>4. GoodSon(R, B, p + 1, l, b, m, T[b][m])
      BY <2>0, <3>0, <3>2, <3>3, SonNext
    <3>. QED  BY <1>5, <3>0, <3>4
  <2>. QED  BY <1>0, <2>0, <2>1, <2>2, <2>3
<1>7. ASSUME NEW m \in l .. p - 1, NEW b \in {0, 1}, m <= e, Live(R, B, p, m)
      PROVE  GoodSon(R, B, p, l, b, m, U[b][m])
  <2>1. m <= c
    BY <1>0, <1>7
  <2>. QED  BY <1>5, <1>7, <2>1 DEF SearchTree
<1>8. ASSUME NEW n \in l .. p - 1, n > e, B[n] = B[p]
      PROVE  R[n] # R[p]
  <2>1. R[n] \in Nat
    OBVIOUS
  <2>. QED  BY <1>2, <1>4, <1>8, <2>1 DEF Side
<1>9. e >= l => /\ B[e] = B[c] /\ Side(1 - d, R[e], R[c])
                /\ \A n \in c + 1 .. p - 1 :
                     B[n] = B[c] /\ Side(1 - d, R[n], R[c]) => Side(1 - d, R[n], R[e])
  BY <1>0, <1>3 DEF GoodSon, Under
<1>10. Between(R, B, p, l, e, y, d)
  <2>1. ASSUME NEW n \in l .. p - 1, n > e, B[n] = B[p], Side(d, R[n], R[p])
        PROVE  ~Side(1 - d, R[n], R[c])
    <3>1. R[n] \in Nat
      OBVIOUS
    <3>. QED  BY <1>2, <1>4, <2>1, <3>1 DEF Side
  <2>. QED  BY <1>0, <1>9, <2>1 DEF Between
<1>11. Between(R, B, p, l, e, y, 1 - d)
  <2>. DEFINE w == x[1 - d]
  <2>0. Between(R, B, p, l, c, x, 1 - d) /\ 1 - (1 - d) = d /\ w \in l .. p /\ w > e
    BY <1>0, <1>1
  <2>1. ASSUME NEW n \in l .. p - 1, n > e, B[n] = B[p], Side(1 - d, R[n], R[p])
        PROVE  w # p /\ ~Side(d, R[n], R[w])
    <3>1. R[n] \in Nat
      OBVIOUS
    <3>2. ~Side(d, R[n], R[p])
      BY <1>2, <2>1, <3>1 DEF Side
    <3>. QED  BY <1>4, <2>1, <3>2
  <2>2. w # p => B[w] = B[p] /\ Side(1 - d, R[w], R[p])
    BY <2>0 DEF Between
  <2>3. ASSUME e >= l, w # p PROVE Side(d, R[e], R[w])
    <3>1. Side(d, R[c], R[w])
      BY <1>0, <2>0, <2>3 DEF Between
    <3>2. R[w] \in Nat /\ R[e] \in Nat
      BY <2>0
    <3>3. w \in c + 1 .. p - 1 /\ B[w] = B[c]
      BY <1>0, <1>1, <2>0, <2>2, <2>3
    <3>4. Side(1 - d, R[w], R[c])
      BY <1>2, <3>1, <3>2 DEF Side
    <3>5. Side(1 - d, R[w], R[e])
      BY <1>9, <2>3, <3>3, <3>4
    <3>. QED  BY <3>2, <3>5 DEF Side
  <2>4. y[1 - d] = w
    OBVIOUS
  <2>. HIDE DEF w
  <2>. QED  BY <2>0, <2>1, <2>2, <2>3, <2>4 DEF Between
<1>12. \A i \in {0, 1} : i = d \/ i = 1 - d
  OBVIOUS
<1>13. e >= l => B[e] = B[p]
  BY <1>0, <1>9
<1>. QED  BY <1>6, <1>7, <1>8, <1>10, <1>11, <1>12, <1>13, Zenon DEF SearchTree

\* A search begins at the newest node of its bucket.
LEMMA Rooted ==
  ASSUME NEW R, NEW B, NEW T, NEW p \in Nat, NEW l \in Nat, l <= p, NEW c \in Nat, c < p,
         Tree(R, B, T, p, l), SonsAreNat(T, p, l),
         \A n \in l .. p - 1 : B[n] = B[p] => n <= c, c >= l => B[c] = B[p],
         NEW x, x[0] = p, x[1] = p
  PROVE  SearchTree(R, B, T, p, l, c, x)
<1>1. ASSUME NEW m \in l .. p, NEW b \in {0, 1}, m > c, Live(R, B, p + 1, m)
      PROVE  Pending(p, x, m, b) \/ GoodSon(R, B, p + 1, l, b, m, T[b][m])
  <2>0. m \in Nat
    OBVIOUS
  <2>1. CASE m = p
    BY <2>1 DEF Pending, Inner
  <2>2. CASE m # p
    <3>1. m \in l .. p - 1 /\ m < p
      BY <2>2
    <3>2. B[p] # B[m]
      BY <1>1, <3>1
    <3>3. Live(R, B, p, m)
      BY <1>1, <2>0, LiveBefore
    <3>4. GoodSon(R, B, p, l, b, m, T[b][m]) /\ T[b][m] \in Nat
      BY <3>1, <3>3 DEF Tree, SonsAreNat
    <3>5. GoodSon(R, B, p + 1, l, b, m, T[b][m])
      BY <2>0, <3>1, <3>2, <3>4, SonNext
    <3>. QED  BY <3>5
  <2>. QED  BY <2>1, <2>2
<1>2. ASSUME NEW d \in {0, 1} PROVE Between(R, B, p, l, c, x, d)
  <2>1. x[d] = p
    OBVIOUS
  <2>. QED  BY <2>1 DEF Between
<1>. QED  BY <1>1, <1>2 DEF SearchTree, Tree

\* U are the sons T with s in both places.
HungBoth(T, U, p, l, x, s) ==
  \A m \in l .. p : \A b \in {0, 1} :
    /\ \A d \in {0, 1} : m = x[d] /\ b = Inner(p, x[d], d) => U[b][m] = s[d]
    /\ ~Pending(p, x, m, b) => U[b][m] = T[b][m]

\* A search that leaves the window has made a tree.
LEMMA LeftTree ==
  ASSUME NEW R \in [Nat -> Nat], NEW B, NEW T, NEW p \in Nat, NEW l \in Nat, NEW c \in Nat, c < p,
         NEW x, SearchTree(R, B, T, p, l, c, x), c < l,
         NEW U, NEW s, HungBoth(T, U, p, l, x, s), s[0] \in Nat, s[0] < l, s[1] \in Nat, s[1] < l
  PROVE  Tree(R, B, U, p + 1, l)
<1>0. p + 1 - 1 = p
  OBVIOUS
<1>1. ASSUME NEW m \in l .. p, NEW b \in {0, 1}, Live(R, B, p + 1, m)
      PROVE  GoodSon(R, B, p + 1, l, b, m, U[b][m])
  <2>1. m > c
    OBVIOUS
  <2>2. CASE Pending(p, x, m, b)
    <3>1. PICK d \in {0, 1} : m = x[d] /\ b = Inner(p, m, d)
      BY <2>2 DEF Pending
    <3>2. U[b][m] = s[d] /\ s[d] \in Nat /\ s[d] < l
      BY <3>1 DEF HungBoth
    <3>3. ASSUME NEW a \in l .. m - 1, Under(R, B, p + 1, b, a, m) PROVE a <= c
      <4>1. InGap(R, B, p, l, c, x, d)
        BY OlderOfGap
      <4>. QED  BY <3>1, <3>3, <4>1 DEF InGap
    <3>. QED  BY <3>2, <3>3 DEF GoodSon
  <2>3. CASE ~Pending(p, x, m, b)
    <3>1. U[b][m] = T[b][m]
      BY <2>3 DEF HungBoth
    <3>. QED  BY <1>1, <2>1, <2>3, <3>1 DEF SearchTree
  <2>. QED  BY <2>2, <2>3
<1>. QED  BY <1>0, <1>1 DEF Tree

\* The sons of a node of the same rank fit the two places.
LEMMA ReplacedSon ==
  ASSUME NEW R \in [Nat -> Nat], NEW B, NEW T, NEW p \in Nat, NEW l \in Nat, NEW c \in l .. p - 1,
         NEW x, SearchTree(R, B, T, p, l, c, x), R[c] = R[p], NEW d \in {0, 1},
         NEW s \in Nat, s = T[d][c], s < c
  PROVE  GoodSon(R, B, p + 1, l, Inner(p, x[d], d), x[d], s)
<1>0. c \in Nat /\ c < p /\ c >= l /\ B[c] = B[p]
  BY DEF SearchTree
<1>1. Between(R, B, p, l, c, x, d) /\ x[d] \in l .. p /\ x[d] > c
  BY DEF SearchTree, Between
<1>2. R[p] \in Nat /\ R[c] \in Nat
  BY <1>0
<1>3. GoodSon(R, B, p, l, d, c, s)
  BY NodeIsLive
<1>4. ASSUME NEW a \in l .. x[d] - 1, Under(R, B, p + 1, Inner(p, x[d], d), a, x[d])
      PROVE  a <= s
  <2>1. a <= c /\ B[a] = B[p] /\ Side(d, R[a], R[p])
    <3>1. InGap(R, B, p, l, c, x, d)
      BY <1>0, OlderOfGap
    <3>. QED  BY <1>4, <3>1 DEF InGap
  <2>2. a \in Nat /\ R[a] \in Nat
    BY <1>1
  <2>3. a # c
    BY <1>2, <2>1, <2>2 DEF Side
  <2>4. ASSUME NEW n \in c + 1 .. p - 1, B[n] = B[c], Side(d, R[n], R[c])
        PROVE  Side(d, R[n], R[a])
    <3>1. n \in l .. p - 1 /\ n > c /\ n \in Nat /\ R[n] \in Nat /\ B[n] = B[p]
      BY <1>0, <2>4
    <3>2. x[d] # p /\ ~Side(1 - d, R[n], R[x[d]])
      BY <1>1, <2>4, <3>1 DEF Between
    <3>3. R[x[d]] \in Nat
      BY <1>1
    <3>4. Side(1 - d, R[a], R[x[d]])
      BY <1>4, <3>2 DEF Under, Inner
    <3>. QED  BY <2>2, <3>1, <3>2, <3>3, <3>4 DEF Side
  <2>5. a < c /\ a \in l .. c - 1
    BY <1>0, <2>1, <2>2, <2>3
  <2>6. Under(R, B, p, d, a, c)
    BY <1>0, <2>1, <2>4, <2>5 DEF Under
  <2>. QED  BY <1>3, <2>5, <2>6 DEF GoodSon
<1>5. ASSUME s >= l PROVE Under(R, B, p + 1, Inner(p, x[d], d), s, x[d])
  <2>1. Under(R, B, p, d, s, c)
    BY <1>3, <1>5 DEF GoodSon
  <2>2. s <= c /\ B[s] = B[p] /\ Side(d, R[s], R[p])
    BY <1>0, <2>1 DEF Under
  <2>3. ASSUME x[d] # p PROVE Side(1 - d, R[s], R[x[d]])
    <3>1. PICK q \in c + 1 .. p - 1 : q = x[d]
      BY <1>0, <1>1, <2>3
    <3>2. B[q] = B[c] /\ Side(d, R[q], R[c])
      BY <1>0, <1>1, <2>3, <3>1 DEF Between
    <3>3. Side(d, R[q], R[s])
      BY <2>1, <3>2 DEF Under
    <3>4. R[q] \in Int /\ R[s] \in Int
      BY <1>0
    <3>. QED  BY <3>1, <3>3, <3>4, SideSwap
  <2>. QED  BY <1>0, <2>2, <2>3, FitsGap
<1>. QED  BY <1>4, <1>5 DEF GoodSon

\* A search that replaces a node has made a tree.
LEMMA ReplacedTree ==
  ASSUME NEW R \in [Nat -> Nat], NEW B, NEW T, NEW p \in Nat, NEW l \in Nat, NEW c \in l .. p - 1,
         NEW x, SearchTree(R, B, T, p, l, c, x), R[c] = R[p], SonsAreNat(T, p, l),
         NEW U, NEW s, HungBoth(T, U, p, l, x, s),
         s[0] = T[0][c], s[0] < c, s[1] = T[1][c], s[1] < c
  PROVE  Tree(R, B, U, p + 1, l)
<1>0. p + 1 - 1 = p /\ c \in Nat /\ c < p /\ B[c] = B[p] /\ s[0] \in Nat /\ s[1] \in Nat
  BY DEF SearchTree, SonsAreNat
<1>1. ASSUME NEW m \in l .. p, NEW b \in {0, 1}, Live(R, B, p + 1, m)
      PROVE  GoodSon(R, B, p + 1, l, b, m, U[b][m])
  <2>0. m \in Nat
    OBVIOUS
  <2>1. m # c
    <3>1. p \in c + 1 .. p + 1 - 1
      BY <1>0
    <3>. QED  BY <1>0, <1>1, <3>1 DEF Live
  <2>2. CASE Pending(p, x, m, b)
    <3>1. PICK d \in {0, 1} : m = x[d] /\ b = Inner(p, m, d)
      BY <2>2 DEF Pending
    <3>2. U[b][m] = s[d] /\ s[d] \in Nat /\ s[d] < c /\ s[d] = T[d][c]
      BY <1>0, <3>1 DEF HungBoth
    <3>3. GoodSon(R, B, p + 1, l, Inner(p, x[d], d), x[d], s[d])
      BY <3>2, ReplacedSon
    <3>. QED  BY <3>1, <3>2, <3>3
  <2>3. CASE ~Pending(p, x, m, b) /\ m > c
    <3>1. U[b][m] = T[b][m]
      BY <2>3 DEF HungBoth
    <3>. QED  BY <1>1, <2>3, <3>1 DEF SearchTree
  <2>4. CASE ~Pending(p, x, m, b) /\ m < c
    <3>0. m \in l .. p - 1 /\ m <= c /\ m < p
      BY <1>0, <2>4
    <3>1. U[b][m] = T[b][m] /\ T[b][m] \in Nat
      BY <2>4, <3>0 DEF HungBoth, SonsAreNat
    <3>2. Live(R, B, p, m)
      BY <1>1, <2>0, LiveBefore
    <3>3. GoodSon(R, B, p, l, b, m, T[b][m])
      BY <3>0, <3>2 DEF SearchTree
    <3>4. ASSUME NEW a \in Nat, Under(R, B, p, b, a, m), B[p] = B[m], Side(b, R[p], R[m])
          PROVE  Side(b, R[p], R[a])
      <4>1. c \in m + 1 .. p - 1 /\ B[c] = B[m] /\ Side(b, R[c], R[m])
        BY <1>0, <2>4, <3>4
      <4>. QED  BY <3>4, <4>1 DEF Under
    <3>5. GoodSon(R, B, p + 1, l, b, m, T[b][m])
      BY <2>0, <3>0, <3>1, <3>3, <3>4, SonNext
    <3>. QED  BY <3>1, <3>5
  <2>. QED  BY <1>0, <2>0, <2>1, <2>2, <2>3, <2>4
<1>. QED  BY <1>0, <1>1 DEF Tree

\* a tree in a smaller window
LEMMA TreeInWindow ==
  ASSUME NEW R, NEW B, NEW T, NEW p \in Nat, NEW l \in Nat, Tree(R, B, T, p, l), NEW k \in Nat, l <= k,
         SonsAreNat(T, p, l),
         NEW U, \A m \in k .. p - 1 : \A b \in {0, 1} : U[b][m] = T[b][m]
  PROVE  Tree(R, B, U, p, k)
<1>1. ASSUME NEW m \in k .. p - 1, Live(R, B, p, m), NEW b \in {0, 1}
      PROVE  GoodSon(R, B, p, k, b, m, U[b][m])
  <2>1. m \in l .. p - 1 /\ U[b][m] = T[b][m] /\ T[b][m] \in Nat
    BY DEF SonsAreNat
  <2>2. GoodSon(R, B, p, l, b, m, T[b][m])
    BY <1>1, <2>1 DEF Tree
  <2>. QED  BY <2>1, <2>2 DEF GoodSon
<1>. QED  BY <1>1 DEF Tree

\* R and S rank the positions alike
SameOrder(R, S, l, p) == \A m, n \in l .. p - 1 : R[m] < R[n] <=> S[m] < S[n]

\* Only the order of the ranks counts.
LEMMA TreeByOrder ==
  ASSUME NEW R \in [Nat -> Nat], NEW S \in [Nat -> Nat], NEW B, NEW T, NEW p \in Nat, NEW l \in Nat,
         SameOrder(R, S, l, p), Tree(R, B, T, p, l), SonsAreNat(T, p, l)
  PROVE  Tree(S, B, T, p, l)
<1>1. ASSUME NEW m \in l .. p - 1, NEW n \in l .. p - 1
      PROVE  /\ \A b \in {0, 1} : Side(b, R[m], R[n]) <=> Side(b, S[m], S[n])
             /\ R[m] = R[n] <=> S[m] = S[n]
  <2>1. (R[m] < R[n] <=> S[m] < S[n]) /\ (R[n] < R[m] <=> S[n] < S[m])
    BY DEF SameOrder
  <2>2. R[m] \in Nat /\ R[n] \in Nat /\ S[m] \in Nat /\ S[n] \in Nat
    OBVIOUS
  <2>. QED  BY <2>1, <2>2 DEF Side
<1>2. ASSUME NEW m \in l .. p - 1, Live(S, B, p, m) PROVE Live(R, B, p, m)
  <2>1. \A n \in m + 1 .. p - 1 : n \in l .. p - 1
    OBVIOUS
  <2>. QED  BY <1>1, <1>2, <2>1 DEF Live
<1>3. ASSUME NEW m \in l .. p - 1, NEW a \in l .. p - 1, NEW b \in {0, 1}
      PROVE  Under(R, B, p, b, a, m) <=> Under(S, B, p, b, a, m)
  <2>1. \A n \in m + 1 .. p - 1 : n \in l .. p - 1
    OBVIOUS
  <2>. QED  BY <1>1, <2>1 DEF Under
<1>4. ASSUME NEW m \in l .. p - 1, Live(S, B, p, m), NEW b \in {0, 1}
      PROVE  GoodSon(S, B, p, l, b, m, T[b][m])
  <2>1. GoodSon(R, B, p, l, b, m, T[b][m]) /\ T[b][m] \in Nat
    BY <1>2, <1>4 DEF Tree, SonsAreNat
  <2>2. \A a \in l .. m - 1 : a \in l .. p - 1
    OBVIOUS
  <2>3. T[b][m] >= l => T[b][m] \in l .. p - 1
    BY <2>1 DEF GoodSon, Under
  <2>. QED  BY <1>3, <2>1, <2>2, <2>3 DEF GoodSon
<1>. QED  BY <1>4 DEF Tree

-----------------------------------------------------------------------------
(* Ranks *)

\* the k bytes at m are those at n
Same(m, n, k) == \A j \in 0 .. k - 1 : Byte(m, j) = Byte(n, j)
\* how many bytes at n are compared
Limit(n) == Least(Len(in) - (n - Window), MaxMatch)
\* m comes before n by a byte that both compare
Before(m, n) ==
  \E k \in Nat : k < Limit(m) /\ k < Limit(n) /\ Same(m, n, k) /\ Byte(m, k) < Byte(n, k)
\* R ranks the positions from lo to hi as their bytes do.
Sorted(R, lo, hi) == \A m, n \in lo .. hi : HashAt(m) = HashAt(n) /\ Before(m, n) => R[m] < R[n]

\* Bytes are numbers.
LEMMA BytesAreNat ==
  ASSUME in \in Inputs
  PROVE  Len(in) \in Nat /\ \A n, k : Byte(n, k) \in Nat
<1>1. in \in Seq(Nat) /\ Len(in) \in Nat
  BY InputsAssumption, LenProperties
<1>2. ASSUME NEW n, NEW k PROVE Byte(n, k) \in Nat
  <2>1. CASE n - Window + k \in 0 .. Len(in) - 1
    <3>1. n - Window + k + 1 \in 1 .. Len(in)
      BY <1>1, <2>1
    <3>2. in[n - Window + k + 1] \in Nat
      BY <1>1, <3>1, ElementOfSeq
    <3>. QED  BY <2>1, <3>2 DEF Byte
  <2>2. CASE ~(n - Window + k \in 0 .. Len(in) - 1)
    BY <2>2 DEF Byte
  <2>. QED  BY <2>1, <2>2
<1>. QED  BY <1>1, <1>2

\* the first byte that differs
LEMMA FirstDifference ==
  ASSUME NEW m, NEW n, NEW k \in Nat, ~Same(m, n, k)
  PROVE  \E j \in 0 .. k - 1 : Same(m, n, j) /\ Byte(m, j) # Byte(n, j)
<1>. DEFINE T == {j \in 0 .. k - 1 : Byte(m, j) # Byte(n, j)}
<1>1. T \subseteq Nat /\ T # {}
  BY DEF Same
<1>2. PICK j \in T : \A i \in T : j <= i
  <2>. HIDE DEF T
  <2>. QED  BY <1>1, LeastExists
<1>3. ASSUME NEW i \in 0 .. j - 1 PROVE Byte(m, i) = Byte(n, i)
  <2>1. i \in 0 .. k - 1 /\ ~(j <= i)
    BY <1>2
  <2>. QED  BY <1>2, <2>1
<1>. QED  BY <1>2, <1>3 DEF Same

\* later positions compare no more bytes
LEMMA LimitIs ==
  ASSUME in \in Inputs, NEW m \in Nat, NEW n \in Nat, m <= n
  PROVE  Limit(m) \in Int /\ Limit(n) \in Int /\ Limit(n) <= Limit(m) /\ Limit(n) <= MaxMatch
<1>1. Len(in) \in Nat /\ MaxMatch \in Nat /\ Window \in Nat
  BY BytesAreNat, SizesAssumption
<1>. QED  BY <1>1 DEF Limit, Least

\* what GetMatch finds
LEMMA MatchIs ==
  ASSUME NEW p, NEW q, NEW from \in Nat, NEW end \in Nat, Same(p, q, from), from <= end
  PROVE  \E n \in from .. end : /\ n = GetMatch(p, q, from, end) /\ Same(p, q, n)
                                /\ n = end \/ Byte(p, n) # Byte(q, n)
<1>1. CASE from >= end
  BY <1>1 DEF GetMatch
<1>2. CASE ~(from >= end)
  <2>. DEFINE Ends(n) == /\ \A k \in from .. n - 1 : Byte(p, k) = Byte(q, k)
                         /\ n = end \/ Byte(p, n) # Byte(q, n)
  <2>1. \E n \in from .. end : Ends(n)
    <3>1. CASE Same(p, q, end)
      <4>1. \A k \in from .. end - 1 : k \in 0 .. end - 1
        OBVIOUS
      <4>. QED  BY <1>2, <3>1, <4>1 DEF Same
    <3>2. CASE ~Same(p, q, end)
      <4>1. PICK j \in 0 .. end - 1 : Same(p, q, j) /\ Byte(p, j) # Byte(q, j)
        BY <3>2, FirstDifference
      <4>2. j \in from .. end
        <5>1. ~(j < from)
          BY <4>1 DEF Same
        <5>. QED  BY <5>1
      <4>3. \A k \in from .. j - 1 : k \in 0 .. j - 1
        OBVIOUS
      <4>. QED  BY <4>1, <4>2, <4>3 DEF Same
    <3>. QED  BY <3>1, <3>2
  <2>2. GetMatch(p, q, from, end) = CHOOSE n \in from .. end : Ends(n)
    BY <1>2 DEF GetMatch
  <2>. HIDE DEF Ends
  <2>3. PICK n \in from .. end : n = GetMatch(p, q, from, end) /\ Ends(n)
    BY <2>1, <2>2
  <2>4. ASSUME NEW j \in 0 .. n - 1 PROVE Byte(p, j) = Byte(q, j)
    <3>1. j \in 0 .. from - 1 \/ j \in from .. n - 1
      OBVIOUS
    <3>. QED  BY <2>3, <3>1 DEF Same, Ends
  <2>. QED  BY <2>3, <2>4 DEF Same, Ends
<1>. QED  BY <1>1, <1>2

\* What is ranked between two positions that agree agrees with them.
LEMMA Convex ==
  ASSUME in \in Inputs, NEW R \in [Nat -> Nat], NEW lo \in Nat, NEW hi \in Nat, Sorted(R, lo, hi),
         NEW u \in lo .. hi, NEW v \in lo .. hi, NEW w \in lo .. hi,
         HashAt(u) = HashAt(w), HashAt(v) = HashAt(w), R[u] <= R[v], R[v] <= R[w],
         NEW k \in Nat, k <= Limit(hi), Same(u, w, k)
  PROVE  Same(u, v, k)
<1>1. SUFFICES ASSUME ~Same(u, v, k) PROVE FALSE
  OBVIOUS
<1>2. PICK j \in 0 .. k - 1 : Same(u, v, j) /\ Byte(u, j) # Byte(v, j)
  BY <1>1, FirstDifference
<1>3. Byte(u, j) = Byte(w, j) /\ Same(u, w, j)
  BY <1>2 DEF Same
<1>4. Same(v, u, j) /\ Same(w, v, j)
  BY <1>2, <1>3 DEF Same
<1>5. Byte(u, j) \in Nat /\ Byte(v, j) \in Nat /\ Byte(w, j) \in Nat
  BY BytesAreNat
<1>6. j \in Nat /\ j < Limit(u) /\ j < Limit(v) /\ j < Limit(w)
  <2>1. \A n \in {u, v, w} : n \in Nat /\ n <= hi
    OBVIOUS
  <2>2. \A n \in {u, v, w} : Limit(n) \in Int /\ Limit(hi) \in Int /\ Limit(hi) <= Limit(n)
    BY <2>1, LimitIs
  <2>. QED  BY <2>2
<1>7. R[u] \in Nat /\ R[v] \in Nat /\ R[w] \in Nat
  OBVIOUS
<1>8. CASE Byte(v, j) < Byte(u, j)
  <2>1. Before(v, u)
    BY <1>4, <1>6, <1>8 DEF Before
  <2>2. R[v] < R[u]
    BY <2>1 DEF Sorted
  <2>. QED  BY <1>7, <2>2
<1>9. CASE Byte(w, j) < Byte(v, j)
  <2>1. Before(w, v)
    BY <1>4, <1>6, <1>9 DEF Before
  <2>2. R[w] < R[v]
    BY <2>1 DEF Sorted
  <2>. QED  BY <1>7, <2>2
<1>. QED  BY <1>2, <1>3, <1>5, <1>8, <1>9

\* there is a greatest rank
Bounded(R) == \E K \in Nat : \A n \in Nat : R[n] <= K
\* n agrees with pos in all that is left
IsTie(n) == HashAt(n) = HashAt(pos) /\ Same(n, pos, lenLimit)
\* Where one agrees in full, one at least as new has the rank of pos.
Tied(R, lo) ==
  \A n \in lo .. pos - 1 : IsTie(n) =>
    \E t \in n .. pos - 1 : HashAt(t) = HashAt(pos) /\ R[t] = R[pos]

\* what agrees in full is ordered as pos is
LEMMA BeforeTie ==
  ASSUME in \in Inputs, pos \in Nat, NEW m \in Nat, NEW t \in Nat, t <= pos, m <= pos, Same(t, pos, Limit(pos))
  PROVE  /\ Before(m, pos) => Before(m, t)
         /\ Before(pos, m) => Before(t, m)
<1>1. Limit(pos) \in Int /\ Limit(t) \in Int /\ Limit(pos) <= Limit(t)
  BY LimitIs
<1>2. ASSUME NEW k \in Nat, k < Limit(pos)
      PROVE  k < Limit(t) /\ Byte(t, k) = Byte(pos, k) /\ \A j \in 0 .. k - 1 : Byte(t, j) = Byte(pos, j)
  <2>1. k \in 0 .. Limit(pos) - 1 /\ \A j \in 0 .. k - 1 : j \in 0 .. Limit(pos) - 1
    BY <1>1, <1>2
  <2>2. k < Limit(t)
    BY <1>1, <1>2
  <2>. QED  BY <2>1, <2>2 DEF Same
<1>. QED  BY <1>2 DEF Before, Same

\* pos does not come between two that are the other way round
LEMMA BeforeTrans ==
  ASSUME in \in Inputs, pos \in Nat, NEW m \in Nat, NEW n \in Nat, m <= pos, n <= pos,
         Before(m, pos), Before(pos, n)
  PROVE  Before(m, n)
<1>1. Limit(pos) \in Int /\ Limit(m) \in Int /\ Limit(n) \in Int /\ Limit(pos) <= Limit(m) /\ Limit(pos) <= Limit(n)
  BY LimitIs
<1>2. PICK i \in Nat : i < Limit(pos) /\ Same(m, pos, i) /\ Byte(m, i) < Byte(pos, i)
  BY DEF Before
<1>3. PICK j \in Nat : j < Limit(pos) /\ Same(pos, n, j) /\ Byte(pos, j) < Byte(n, j)
  BY DEF Before
<1>4. \A k \in Nat : Byte(m, k) \in Nat /\ Byte(pos, k) \in Nat /\ Byte(n, k) \in Nat
  BY BytesAreNat
<1>5. CASE i <= j
  <2>1. \A k \in 0 .. i - 1 : k \in 0 .. j - 1
    BY <1>5
  <2>2. Same(m, n, i)
    BY <1>2, <1>3, <2>1 DEF Same
  <2>3. Byte(m, i) < Byte(n, i)
    <3>1. CASE i = j
      BY <1>2, <1>3, <1>4, <3>1
    <3>2. CASE i < j
      <4>1. i \in 0 .. j - 1
        BY <3>2
      <4>. QED  BY <1>2, <1>3, <4>1 DEF Same
    <3>. QED  BY <1>5, <3>1, <3>2
  <2>4. i < Limit(m) /\ i < Limit(n)
    BY <1>1, <1>2
  <2>. QED  BY <2>2, <2>3, <2>4 DEF Before
<1>6. CASE j < i
  <2>1. j \in 0 .. i - 1 /\ \A k \in 0 .. j - 1 : k \in 0 .. i - 1
    BY <1>6
  <2>2. Same(m, n, j)
    BY <1>2, <1>3, <2>1 DEF Same
  <2>3. Byte(m, j) < Byte(n, j)
    BY <1>2, <1>3, <2>1 DEF Same
  <2>4. j < Limit(m) /\ j < Limit(n)
    BY <1>1, <1>3
  <2>. QED  BY <2>2, <2>3, <2>4 DEF Before
<1>. QED  BY <1>5, <1>6

\* S ranks as R does, and pos too.
RankFor(R, S, lo) ==
  /\ Bounded(S) /\ SameOrder(R, S, lo, pos)
  /\ Sorted(S, lo, pos) /\ Tied(S, lo)

\* the new position ties with one that is there
LEMMA RankOfTie ==
  ASSUME in \in Inputs, pos \in Nat, lenLimit = Limit(pos), NEW R \in [Nat -> Nat], Bounded(R),
         NEW lo \in Nat, Sorted(R, lo, pos - 1), NEW n \in lo .. pos - 1, IsTie(n)
  PROVE  \E S \in [Nat -> Nat] : RankFor(R, S, lo)
<1>1. PICK t \in lo .. pos - 1 : IsTie(t) /\ \A q \in lo .. pos - 1 : IsTie(q) => q <= t
  <2>. DEFINE T == {pos - q : q \in {q \in lo .. pos - 1 : IsTie(q)}}
  <2>1. T \subseteq Nat /\ T # {}
    OBVIOUS
  <2>2. PICK a \in T : \A b \in T : a <= b
    <3>. HIDE DEF T
    <3>. QED  BY <2>1, LeastExists
  <2>3. PICK t \in lo .. pos - 1 : IsTie(t) /\ a = pos - t
    BY <2>2
  <2>4. ASSUME NEW q \in lo .. pos - 1, IsTie(q) PROVE q <= t
    <3>1. pos - t <= pos - q
      BY <2>2, <2>3, <2>4
    <3>. QED  BY <3>1
  <2>. QED  BY <2>3, <2>4
<1>. DEFINE S == [q \in Nat |-> IF q = pos THEN R[t] ELSE R[q]]
<1>2. S \in [Nat -> Nat] /\ S[pos] = R[t] /\ \A q \in lo .. pos - 1 : S[q] = R[q]
  OBVIOUS
<1>3. Bounded(S)
  <2>1. PICK K \in Nat : \A q \in Nat : R[q] <= K
    BY DEF Bounded
  <2>2. t \in Nat
    OBVIOUS
  <2>3. \A q \in Nat : S[q] <= K
    BY <2>1, <2>2
  <2>. HIDE DEF S
  <2>. QED  BY <2>3 DEF Bounded
<1>. HIDE DEF S
<1>4. SameOrder(R, S, lo, pos)
  BY <1>2 DEF SameOrder
<1>5. Same(t, pos, Limit(pos)) /\ HashAt(t) = HashAt(pos) /\ t \in Nat /\ t <= pos
  BY <1>1 DEF IsTie
<1>6. ASSUME NEW m \in lo .. pos, NEW q \in lo .. pos, HashAt(m) = HashAt(q), Before(m, q)
      PROVE  S[m] < S[q]
  <2>0. m \in Nat /\ q \in Nat /\ m <= pos /\ q <= pos
    OBVIOUS
  <2>1. CASE m = pos /\ q = pos
    <3>1. \A k : Byte(pos, k) \in Nat
      BY BytesAreNat
    <3>. QED  BY <1>6, <2>1, <3>1 DEF Before
  <2>2. CASE m = pos /\ q # pos
    <3>1. Before(t, q) /\ HashAt(t) = HashAt(q)
      BY <1>5, <1>6, <2>0, <2>2, BeforeTie
    <3>2. q \in lo .. pos - 1
      BY <2>2
    <3>3. R[t] < R[q]
      BY <3>1, <3>2 DEF Sorted
    <3>. QED  BY <1>2, <2>2, <3>2, <3>3
  <2>3. CASE m # pos /\ q = pos
    <3>1. Before(m, t) /\ HashAt(t) = HashAt(m)
      BY <1>5, <1>6, <2>0, <2>3, BeforeTie
    <3>2. m \in lo .. pos - 1
      BY <2>3
    <3>3. R[m] < R[t]
      BY <3>1, <3>2 DEF Sorted
    <3>. QED  BY <1>2, <2>3, <3>2, <3>3
  <2>4. CASE m # pos /\ q # pos
    <3>1. m \in lo .. pos - 1 /\ q \in lo .. pos - 1
      BY <2>4
    <3>. QED  BY <1>2, <1>6, <3>1 DEF Sorted
  <2>. QED  BY <2>1, <2>2, <2>3, <2>4
<1>7. Tied(S, lo)
  <2>1. ASSUME NEW q \in lo .. pos - 1, IsTie(q)
        PROVE  t \in q .. pos - 1 /\ HashAt(t) = HashAt(pos) /\ S[t] = S[pos]
    BY <1>1, <1>2, <1>5, <2>1
  <2>. QED  BY <2>1 DEF Tied
<1>. QED  BY <1>2, <1>3, <1>4, <1>6, <1>7 DEF RankFor, Sorted

\* the new position ties with none
LEMMA RankOfNew ==
  ASSUME in \in Inputs, pos \in Nat, lenLimit = Limit(pos), NEW R \in [Nat -> Nat], Bounded(R),
         NEW lo \in Nat, Sorted(R, lo, pos - 1), \A n \in lo .. pos - 1 : ~IsTie(n)
  PROVE  \E S \in [Nat -> Nat] : RankFor(R, S, lo)
<1>. DEFINE Smaller(m) == HashAt(m) = HashAt(pos) /\ Before(m, pos)
            T == {a \in Nat : \A m \in lo .. pos - 1 : Smaller(m) => R[m] < a}
<1>1. T \subseteq Nat /\ T # {}
  <2>1. PICK K \in Nat : \A q \in Nat : R[q] <= K
    BY DEF Bounded
  <2>2. \A q \in Nat : R[q] \in Nat
    OBVIOUS
  <2>3. ASSUME NEW m \in lo .. pos - 1 PROVE R[m] < K + 1
    <3>1. m \in Nat
      OBVIOUS
    <3>. QED  BY <2>1, <2>2, <3>1
  <2>4. K + 1 \in T
    BY <2>3
  <2>. QED  BY <2>4
<1>2. PICK a \in T : \A b \in T : a <= b
  <2>. HIDE DEF T
  <2>. QED  BY <1>1, LeastExists
<1>3. a \in Nat /\ \A m \in lo .. pos - 1 : Smaller(m) => R[m] < a
  BY <1>2
<1>4. ASSUME NEW n \in lo .. pos - 1, HashAt(n) = HashAt(pos), Before(pos, n)
      PROVE  a <= R[n]
  <2>0. n \in Nat /\ n <= pos
    OBVIOUS
  <2>1. ASSUME NEW m \in lo .. pos - 1, Smaller(m) PROVE R[m] < R[n]
    <3>1. m \in Nat /\ m <= pos
      OBVIOUS
    <3>2. Before(m, n)
      BY <1>4, <2>0, <2>1, <3>1, BeforeTrans
    <3>. QED  BY <1>4, <2>1, <3>2 DEF Sorted
  <2>2. R[n] \in Nat
    OBVIOUS
  <2>3. R[n] \in T
    BY <2>1, <2>2
  <2>. QED  BY <1>2, <2>3
<1>. DEFINE S == [q \in Nat |-> IF q = pos THEN 2 * a ELSE 2 * R[q] + 1]
<1>5. S \in [Nat -> Nat] /\ S[pos] = 2 * a /\ \A q \in lo .. pos - 1 : S[q] = 2 * R[q] + 1
  BY <1>3
<1>6. Bounded(S)
  <2>1. PICK K \in Nat : \A q \in Nat : R[q] <= K
    BY DEF Bounded
  <2>2. ASSUME NEW q \in Nat PROVE S[q] <= 2 * K + 2 * a + 1
    <3>1. R[q] <= K /\ R[q] \in Nat
      BY <2>1
    <3>. QED  BY <1>3, <3>1
  <2>3. 2 * K + 2 * a + 1 \in Nat
    BY <1>3
  <2>. HIDE DEF S
  <2>. QED  BY <2>2, <2>3 DEF Bounded
<1>. HIDE DEF S, T
<1>7. \A q \in lo .. pos - 1 : R[q] \in Nat
  OBVIOUS
<1>8. SameOrder(R, S, lo, pos)
  BY <1>5, <1>7 DEF SameOrder
<1>9. ASSUME NEW m \in lo .. pos, NEW q \in lo .. pos, HashAt(m) = HashAt(q), Before(m, q)
      PROVE  S[m] < S[q]
  <2>1. CASE m = pos /\ q = pos
    <3>1. \A k : Byte(pos, k) \in Nat
      BY BytesAreNat
    <3>. QED  BY <1>9, <2>1, <3>1 DEF Before
  <2>2. CASE m = pos /\ q # pos
    <3>1. q \in lo .. pos - 1
      BY <2>2
    <3>2. a <= R[q] /\ R[q] \in Nat
      BY <1>4, <1>7, <1>9, <2>2, <3>1
    <3>. QED  BY <1>3, <1>5, <2>2, <3>1, <3>2
  <2>3. CASE m # pos /\ q = pos
    <3>1. m \in lo .. pos - 1
      BY <2>3
    <3>2. R[m] < a /\ R[m] \in Nat
      BY <1>3, <1>7, <1>9, <2>3, <3>1
    <3>. QED  BY <1>3, <1>5, <2>3, <3>1, <3>2
  <2>4. CASE m # pos /\ q # pos
    <3>1. m \in lo .. pos - 1 /\ q \in lo .. pos - 1
      BY <2>4
    <3>2. R[m] < R[q] /\ R[m] \in Nat /\ R[q] \in Nat
      BY <1>7, <1>9, <3>1 DEF Sorted
    <3>. QED  BY <1>5, <3>1, <3>2
  <2>. QED  BY <2>1, <2>2, <2>3, <2>4
<1>10. Tied(S, lo)
  BY DEF Tied
<1>. QED  BY <1>5, <1>6, <1>8, <1>9, <1>10 DEF RankFor, Sorted

\* There is a rank for the new position.
LEMMA RankExists ==
  ASSUME in \in Inputs, pos \in Nat, lenLimit = Limit(pos), NEW R \in [Nat -> Nat], Bounded(R),
         NEW lo \in Nat, Sorted(R, lo, pos - 1)
  PROVE  \E S \in [Nat -> Nat] : RankFor(R, S, lo)
BY RankOfTie, RankOfNew

-----------------------------------------------------------------------------
(* The trees in the cyclic buffer *)

\* the oldest position that is in the window of p
Low(p) == IF p - Window + 1 > Window THEN p - Window + 1 ELSE Window
\* the oldest that a call looks at
lowest == Low(pos)
\* the bucket of each position
Hashes == [n \in Nat |-> HashAt(n)]
\* the place of the son b of the node d before the newest one, when that is in slot c
At(c, d, b) == 2 * Slot(c, d) + b
\* the sons that stand in s
SonsAt(s, c, p) == [b \in {0, 1} |-> [m \in Nat |-> s[At(c, p - m, b)]]]
\* the sons now
Sons == SonsAt(son, cyclicBufferPos, pos)
\* where the place on side d is in the buffer
Place(x, d) == At(cyclicBufferPos, pos - x[d], Inner(pos, x[d], d))
\* how far the node on side d is known to agree
lens(d) == IF d = 0 THEN len1 ELSE len0

\* It does agree so far.
Agrees(x, d, k) == IF x[d] = pos THEN k = 0 ELSE k <= lenLimit /\ Same(x[d], pos, k)
\* the search that is going on, with the ranks R
SearchOrder(R, x) ==
  /\ x \in [{0, 1} -> Nat] /\ ptr1 = Place(x, 0) /\ ptr0 = Place(x, 1)
  /\ SearchTree(R, Hashes, Sons, pos, lowest, curMatch, x)
  /\ \A d \in {0, 1} : Agrees(x, d, lens(d))

\* The trees are sorted by R.
Ordered(R) ==
  /\ Bounded(R)
  /\ ~running => Sorted(R, lowest, pos - 1) /\ Tree(R, Hashes, Sons, pos, lowest)
  /\ running => Sorted(R, lowest, pos) /\ Tied(R, lowest) /\ \E x : SearchOrder(R, x)

\* Some ranks do.
OrderInv == \E R \in [Nat -> Nat] : Ordered(R)

\* 0 is none, and out of the window for ever
IsNode(n) == n = 0 \/ n >= Window
\* The newest position of a bucket is its root.
RootInv ==
  /\ \A k \in 0 .. 2 * Window - 1 : IsNode(son[k])
  /\ \A h \in Buckets : IsNode(hash[h]) /\ (hash[h] >= lowest => HashAt(hash[h]) = h)
  /\ \A n \in lowest .. pos - 1 : n <= hash[HashAt(n)]
  /\ running => IsNode(curMatch) /\ hash[HashAt(pos)] = pos

\* places are in the buffer
LEMMA Places ==
  ASSUME NEW c \in 0 .. Window - 1, NEW d \in 0 .. Window - 1, NEW b \in {0, 1}
  PROVE  At(c, d, b) \in 0 .. 2 * Window - 1
<1>1. PICK u \in 0 .. Window - 1 : u = Slot(c, d)
  BY SlotIs
<1>2. At(c, d, b) = 2 * u + b
  BY <1>1 DEF At
<1>. QED  BY <1>2, SizesAssumption

\* no two sons share a place
LEMMA PlacesDiffer ==
  ASSUME NEW c \in 0 .. Window - 1, NEW d \in 0 .. Window - 1, NEW e \in 0 .. Window - 1,
         NEW b \in {0, 1}, NEW i \in {0, 1}, At(c, d, b) = At(c, e, i)
  PROVE  d = e /\ b = i
<1>1. PICK u \in 0 .. Window - 1 : u = Slot(c, d)
  BY SlotIs
<1>2. PICK v \in 0 .. Window - 1 : v = Slot(c, e)
  BY SlotIs
<1>3. 2 * u + b = 2 * v + i
  BY <1>1, <1>2 DEF At
<1>4. u = v /\ b = i
  BY <1>3, SizesAssumption
<1>5. IsSon(2 * u, c, d) /\ IsSon(2 * u, c, e)
  BY <1>1, <1>2, <1>4 DEF IsSon
<1>6. d = e
  BY <1>5, SlotsDiffer
<1>. QED  BY <1>4, <1>6

\* t is s but for the son i of the node n
Puts(s, t, c, p, n, i, v) == p - n \in 0 .. Window - 1 /\ t = [s EXCEPT ![At(c, p - n, i)] = v]
\* how the sons differ then
OneNew(s, t, c, p, n, i, v) ==
  \A m \in Nat : p - m \in 0 .. Window - 1 =>
    \A b \in {0, 1} : SonsAt(t, c, p)[b][m] = IF m = n /\ b = i THEN v ELSE SonsAt(s, c, p)[b][m]

\* to put a son in changes no other
LEMMA NewSon ==
  ASSUME NEW s \in [0 .. 2 * Window - 1 -> Nat], NEW c \in 0 .. Window - 1, NEW p \in Nat,
         NEW n \in Nat, NEW i \in {0, 1}, NEW v, NEW t, Puts(s, t, c, p, n, i, v)
  PROVE  OneNew(s, t, c, p, n, i, v)
<1>. SUFFICES ASSUME NEW m \in Nat, p - m \in 0 .. Window - 1, NEW b \in {0, 1}
              PROVE  SonsAt(t, c, p)[b][m] = IF m = n /\ b = i THEN v ELSE SonsAt(s, c, p)[b][m]
  BY DEF OneNew
<1>1. PICK d \in 0 .. Window - 1 : d = p - m
  OBVIOUS
<1>2. PICK e \in 0 .. Window - 1 : e = p - n
  BY DEF Puts
<1>3. At(c, d, b) \in 0 .. 2 * Window - 1 /\ At(c, e, i) \in 0 .. 2 * Window - 1
  BY Places
<1>4. At(c, d, b) = At(c, e, i) => d = e /\ b = i
  BY PlacesDiffer
<1>5. d = e <=> m = n
  BY <1>1, <1>2
<1>6. SonsAt(t, c, p)[b][m] = t[At(c, d, b)] /\ SonsAt(s, c, p)[b][m] = s[At(c, d, b)]
  BY <1>1 DEF SonsAt
<1>7. t = [s EXCEPT ![At(c, e, i)] = v]
  BY <1>2 DEF Puts
<1>. QED  BY <1>3, <1>4, <1>5, <1>6, <1>7

\* The sons of a node that stays in the window stay.
SonsKept(s, c, p, e, q) ==
  \A m \in Nat : p - m \in 0 .. Window - 2 => \A b \in {0, 1} : SonsAt(s, e, q)[b][m] = SonsAt(s, c, p)[b][m]

\* when the position moves
LEMMA NextSons ==
  ASSUME NEW s, NEW c \in 0 .. Window - 1, NEW p \in Nat, NEW e, e = (c + 1) % Window, NEW q, q = p + 1
  PROVE  SonsKept(s, c, p, e, q)
<1>. USE SizesAssumption
<1>. SUFFICES ASSUME NEW m \in Nat, p - m \in 0 .. Window - 2, NEW b \in {0, 1}
              PROVE  SonsAt(s, e, q)[b][m] = SonsAt(s, c, p)[b][m]
  BY DEF SonsKept
<1>1. PICK d \in 1 .. Window - 1 : d = p + 1 - m /\ d - 1 = p - m
  OBVIOUS
<1>2. Slot((c + 1) % Window, d) = Slot(c, d - 1)
  BY NextSlot
<1>. QED  BY <1>1, <1>2 DEF SonsAt, At

\* the window, and what may be compared
LEMMA WindowIs ==
  ASSUME TreeInv
  PROVE  /\ pos \in Nat /\ pos >= Window /\ lowest \in Nat /\ lowest <= pos /\ lowest >= Window
         /\ \A m \in lowest .. pos : m \in Nat /\ pos - m \in 0 .. Window - 1
         /\ lenLimit = Limit(pos) /\ lenLimit \in Nat /\ lenLimit <= lenl /\ lenLimit <= MaxMatch
         /\ SonsAreNat(Sons, pos, lowest)
         /\ \A m \in Nat : Pair(m) = At(cyclicBufferPos, pos - m, 0) /\ Pair(m) + 1 = At(cyclicBufferPos, pos - m, 1)
         /\ Pair(pos) = Own
<1>. USE SizesAssumption
<1>1. pos \in Nat /\ pos >= Window /\ cyclicBufferPos \in 0 .. Window - 1
  BY DEF TreeInv
<1>2. lowest \in Nat /\ lowest <= pos /\ lowest >= Window
  BY <1>1 DEF lowest, Low
<1>3. \A m \in lowest .. pos : m \in Nat /\ pos - m \in 0 .. Window - 1
  BY <1>1 DEF lowest, Low
<1>4. lenLimit = Limit(pos) /\ lenLimit \in Nat /\ lenLimit <= lenl /\ lenLimit <= MaxMatch
  <2>1. lenl \in Nat
    BY RepeatedIsNat
  <2>. QED  BY <2>1 DEF lenLimit, Limit, Least, lenl
<1>5. ASSUME NEW m \in lowest .. pos - 1, NEW b \in {0, 1} PROVE Sons[b][m] \in Nat
  <2>1. m \in Nat /\ pos - m \in 0 .. Window - 1
    BY <1>1, <1>3
  <2>2. At(cyclicBufferPos, pos - m, b) \in 0 .. 2 * Window - 1
    BY <1>1, <2>1, Places
  <2>3. son[At(cyclicBufferPos, pos - m, b)] \in Nat
    BY <2>2 DEF TreeInv
  <2>. QED  BY <2>1, <2>3 DEF Sons, SonsAt
<1>6. \A m \in Nat : Pair(m) = At(cyclicBufferPos, pos - m, 0) /\ Pair(m) + 1 = At(cyclicBufferPos, pos - m, 1)
  <2>. SUFFICES ASSUME NEW m \in Nat
                PROVE  Pair(m) = At(cyclicBufferPos, pos - m, 0) /\ Pair(m) + 1 = At(cyclicBufferPos, pos - m, 1)
    OBVIOUS
  <2>1. PICK d \in Int : d = pos - m
    BY <1>1
  <2>2. Slot(cyclicBufferPos, d) \in Int
    BY <1>1 DEF Slot
  <2>3. Pair(m) = 2 * Slot(cyclicBufferPos, d)
    BY <2>1 DEF Pair, Slot
  <2>. QED  BY <2>1, <2>2, <2>3 DEF At
<1>7. Pair(pos) = Own
  <2>1. Slot(cyclicBufferPos, 0) = cyclicBufferPos
    BY <1>1, SlotIs
  <2>2. pos - pos = 0
    BY <1>1
  <2>3. Pair(pos) = 2 * Slot(cyclicBufferPos, 0) + 0
    BY <1>1, <1>6, <2>2 DEF At
  <2>. QED  BY <1>1, <2>1, <2>3 DEF Own
<1>. QED  BY <1>1, <1>2, <1>3, <1>4, <1>5, <1>6, <1>7 DEF SonsAreNat

\* A search may begin, with the ranks S.
AtRoot(S, x) ==
  /\ Bounded(S) /\ Sorted(S, lowest, pos) /\ Tied(S, lowest)
  /\ x \in [{0, 1} -> Nat] /\ x[0] = pos /\ x[1] = pos
  /\ SearchTree(S, Hashes, Sons, pos, lowest, hash[HashAt(pos)], x)

\* It does.
LEMMA RootOrder ==
  ASSUME IInv, RootInv, OrderInv, ~running
  PROVE  \E S \in [Nat -> Nat] : \E x : AtRoot(S, x)
<1>0. TreeInv /\ in \in Inputs
  BY DEF IInv, TreeInv
<1>1. /\ pos \in Nat /\ lowest \in Nat /\ lowest <= pos /\ SonsAreNat(Sons, pos, lowest)
      /\ lenLimit = Limit(pos)
  BY <1>0, WindowIs
<1>2. PICK R \in [Nat -> Nat] : Bounded(R) /\ Sorted(R, lowest, pos - 1) /\ Tree(R, Hashes, Sons, pos, lowest)
  BY DEF OrderInv, Ordered
<1>3. PICK S \in [Nat -> Nat] : RankFor(R, S, lowest)
  BY <1>0, <1>1, <1>2, RankExists
<1>4. SameOrder(R, S, lowest, pos) /\ Bounded(S) /\ Sorted(S, lowest, pos) /\ Tied(S, lowest)
  BY <1>3 DEF RankFor
<1>5. Tree(S, Hashes, Sons, pos, lowest)
  BY <1>1, <1>2, <1>4, TreeByOrder
<1>. DEFINE c == hash[HashAt(pos)]
            x == [d \in {0, 1} |-> pos]
<1>6. HashAt(pos) \in Buckets
  BY <1>0, Bucket
<1>7. c \in Nat /\ c < pos
  BY <1>6 DEF IInv, TreeInv
<1>8. ASSUME NEW n \in lowest .. pos - 1, Hashes[n] = Hashes[pos] PROVE n <= c
  <2>1. n \in Nat
    BY <1>1
  <2>2. HashAt(n) = HashAt(pos)
    BY <1>1, <1>8, <2>1 DEF Hashes
  <2>. QED  BY <2>2 DEF RootInv
<1>9. c >= lowest => Hashes[c] = Hashes[pos]
  BY <1>1, <1>6, <1>7 DEF RootInv, Hashes
<1>10. x \in [{0, 1} -> Nat] /\ x[0] = pos /\ x[1] = pos
  BY <1>1
<1>. HIDE DEF c, x
<1>11. SearchTree(S, Hashes, Sons, pos, lowest, c, x)
  BY <1>1, <1>5, <1>7, <1>8, <1>9, <1>10, Rooted
<1>. QED  BY <1>4, <1>10, <1>11 DEF AtRoot, c

-----------------------------------------------------------------------------
(* How far a node agrees with the new position *)

\* how far back the window goes
Reach == Least(Window - 1, pos - Window)
\* how far each distance agrees
Lengths == [d \in 1 .. Reach |-> Length(pos, d)]

\* what Lengths says of a node
LengthOf(n) ==
  /\ pos - n \in 1 .. Reach /\ Lengths[pos - n] \in Nat /\ Lengths[pos - n] <= lenLimit
  /\ \A k \in 0 .. lenLimit : Same(n, pos, k) <=> k <= Lengths[pos - n]

\* GetMatch finds how far p and q agree
Found(p, q, z) ==
  \E n \in 0 .. z :
    n = GetMatch(p, q, 0, z) /\ Same(p, q, n) /\ (n = z \/ Byte(p, n) # Byte(q, n))

\* from the first byte on
LEMMA MatchFound ==
  ASSUME NEW p, NEW q, NEW z \in Nat
  PROVE  Found(p, q, z)
<1>1. Same(p, q, 0)
  BY DEF Same
<1>. QED  BY <1>1, MatchIs DEF Found

\* of each node in the window
LEMMA LengthsAre ==
  ASSUME TreeInv
  PROVE  /\ Reach \in Nat /\ Lengths \in [1 .. Reach -> Nat]
         /\ \A d \in 1 .. Reach : pos - d \in lowest .. pos - 1 /\ pos - (pos - d) = d
         /\ \A n \in lowest .. pos - 1 : LengthOf(n)
<1>. USE SizesAssumption
<1>1. pos \in Nat /\ pos >= Window /\ lowest \in Nat /\ lenLimit \in Nat
  BY WindowIs DEF TreeInv
<1>2. Reach \in Nat
  BY <1>1 DEF Reach, Least
<1>3. \A n \in lowest .. pos - 1 : pos - n \in 1 .. Reach /\ n \in Nat
  BY <1>1 DEF Reach, Least, lowest, Low
<1>4. \A d \in 1 .. Reach : pos - d \in lowest .. pos - 1 /\ pos - (pos - d) = d
  BY <1>1 DEF Reach, Least, lowest, Low
<1>5. ASSUME NEW d, NEW q, d \in 1 .. Reach, q \in lowest .. pos - 1, q = pos - d
      PROVE  /\ Length(pos, d) \in 0 .. lenLimit
             /\ \A k \in 0 .. lenLimit : Same(q, pos, k) <=> k <= Length(pos, d)
  <2>2. PICK n \in 0 .. lenLimit : /\ n = GetMatch(pos, q, 0, lenLimit) /\ Same(pos, q, n)
                                   /\ n = lenLimit \/ Byte(pos, n) # Byte(q, n)
    <3>1. Found(pos, q, lenLimit)
      BY <1>1, MatchFound
    <3>. QED  BY <3>1 DEF Found
  <2>3. Length(pos, d) = n
    BY <1>5, <2>2 DEF Length, lenLimit, lenl
  <2>4. ASSUME NEW k \in 0 .. lenLimit, k <= n PROVE Same(q, pos, k)
    <3>1. \A j \in 0 .. k - 1 : j \in 0 .. n - 1
      BY <2>4
    <3>. QED  BY <2>2, <3>1 DEF Same
  <2>5. ASSUME NEW k \in 0 .. lenLimit, Same(q, pos, k) PROVE k <= n
    <3>1. SUFFICES ASSUME n < k PROVE FALSE
      OBVIOUS
    <3>2. n \in 0 .. k - 1 /\ n # lenLimit
      BY <1>1, <3>1
    <3>. QED  BY <2>2, <2>5, <3>2 DEF Same
  <2>. QED  BY <2>3, <2>4, <2>5
<1>6. Lengths \in [1 .. Reach -> Nat] /\ \A d \in 1 .. Reach : Lengths[d] = Length(pos, d)
  <2>1. ASSUME NEW d \in 1 .. Reach PROVE Length(pos, d) \in Nat
    <3>1. pos - d \in lowest .. pos - 1
      BY <1>4
    <3>2. Length(pos, d) \in 0 .. lenLimit
      BY <1>5, <3>1
    <3>. QED  BY <1>1, <3>2
  <2>. QED  BY <2>1 DEF Lengths
<1>7. ASSUME NEW n \in lowest .. pos - 1 PROVE LengthOf(n)
  <2>1. PICK d \in 1 .. Reach : d = pos - n /\ n = pos - d
    BY <1>1, <1>3
  <2>2. /\ Length(pos, d) \in 0 .. lenLimit
        /\ \A k \in 0 .. lenLimit : Same(n, pos, k) <=> k <= Length(pos, d)
    BY <1>5, <2>1
  <2>3. Lengths[pos - n] = Length(pos, d)
    BY <1>6, <2>1
  <2>. QED  BY <1>1, <1>3, <2>2, <2>3 DEF LengthOf
<1>. QED  BY <1>2, <1>4, <1>6, <1>7

\* n agrees with pos in k bytes and no more
AgreesOnly(n, k) == k \in 0 .. lenLimit /\ Same(n, pos, k) /\ (k = lenLimit \/ Byte(n, k) # cur(k))

\* that is its length
LEMMA LengthIs ==
  ASSUME TreeInv, NEW n \in lowest .. pos - 1, NEW k, AgreesOnly(n, k)
  PROVE  Lengths[pos - n] = k
<1>1. PICK z \in Nat : z = lenLimit
  BY WindowIs
<1>2. LengthOf(n)
  BY LengthsAre
<1>3. PICK m \in 0 .. z : m = Lengths[pos - n] /\ \A j \in 0 .. z : Same(n, pos, j) <=> j <= m
  BY <1>1, <1>2 DEF LengthOf
<1>4. k \in 0 .. z /\ k <= m
  BY <1>1, <1>3 DEF AgreesOnly
<1>5. SUFFICES ASSUME k < m PROVE FALSE
  BY <1>3, <1>4
<1>6. Byte(n, k) # Byte(pos, k)
  BY <1>1, <1>3, <1>4, <1>5 DEF AgreesOnly, cur
<1>7. Same(n, pos, m) /\ k \in 0 .. m - 1
  BY <1>3, <1>4, <1>5
<1>. QED  BY <1>6, <1>7 DEF Same

\* Of two nodes on one side the one nearer to the new position agrees at least as far.
LEMMA NearerAgrees ==
  ASSUME TreeInv, NEW R \in [Nat -> Nat], Sorted(R, lowest, pos), NEW d \in {0, 1},
         NEW n \in lowest .. pos - 1, NEW y \in lowest .. pos - 1, HashAt(n) = HashAt(pos), HashAt(y) = HashAt(pos),
         Side(d, R[n], R[pos]), NEW b, b = 1 - d, ~Side(b, R[n], R[y]), Side(d, R[y], R[pos]),
         NEW k \in Nat, k <= lenLimit, Same(n, pos, k)
  PROVE  Same(y, pos, k)
<1>1. /\ in \in Inputs /\ pos \in Nat /\ lowest \in Nat /\ k <= Limit(pos) /\ lowest <= pos
  BY WindowIs DEF TreeInv
<1>2. n \in lowest .. pos /\ y \in lowest .. pos /\ pos \in lowest .. pos
  BY <1>1
<1>3. R[n] \in Nat /\ R[y] \in Nat /\ R[pos] \in Nat
  BY <1>1, <1>2
<1>4. CASE d = 0
  <2>1. R[n] <= R[y] /\ R[y] <= R[pos]
    BY <1>3, <1>4 DEF Side
  <2>2. Same(n, y, k)
    BY <1>1, <1>2, <2>1, Convex
  <2>. QED  BY <2>2 DEF Same
<1>5. CASE d = 1
  <2>1. R[pos] <= R[y] /\ R[y] <= R[n]
    BY <1>3, <1>5 DEF Side
  <2>2. Same(pos, n, k)
    BY DEF Same
  <2>3. Same(pos, y, k)
    BY <1>1, <1>2, <2>1, <2>2, Convex
  <2>. QED  BY <2>3 DEF Same
<1>. QED  BY <1>4, <1>5

\* None of the nodes that a step passes agrees further than what was seen.
Surpassed(c, e) ==
  \A n \in lowest .. pos - 1 : \A k \in 0 .. lenLimit :
    n > e /\ k >= MinMatch /\ Same(n, pos, k) =>
      \E y \in lowest .. pos - 1 : y >= c /\ Same(y, pos, k)

\* What a step of a search passes agrees no further than what was seen.
LEMMA PassedAgree ==
  ASSUME TreeInv, NEW R \in [Nat -> Nat], Sorted(R, lowest, pos), NEW c \in lowest .. pos - 1,
         NEW x, SearchTree(R, Hashes, Sons, pos, lowest, c, x), NEW d \in {0, 1}, Side(d, R[c], R[pos]),
         NEW e \in Nat, e = Sons[1 - d][c]
  PROVE  Surpassed(c, e)
<1>. USE SizesAssumption
<1>1. /\ in \in Inputs /\ pos \in Nat /\ lowest \in Nat /\ lowest <= pos /\ lenLimit \in Nat
  BY WindowIs DEF TreeInv
<1>. SUFFICES ASSUME NEW n \in lowest .. pos - 1, NEW k \in 0 .. lenLimit, n > e, k >= MinMatch, Same(n, pos, k)
              PROVE  \E y \in lowest .. pos - 1 : y >= c /\ Same(y, pos, k)
  BY DEF Surpassed
<1>2. HashAt(n) = HashAt(pos) /\ n \in Nat /\ c \in Nat
  <2>1. 0 \in 0 .. k - 1 /\ 1 \in 0 .. k - 1 /\ 2 \in 0 .. k - 1
    OBVIOUS
  <2>2. Byte(n, 0) = Byte(pos, 0) /\ Byte(n, 1) = Byte(pos, 1) /\ Byte(n, 2) = Byte(pos, 2)
    BY <2>1 DEF Same
  <2>. QED  BY <1>1, <2>2 DEF HashAt
<1>3. \A m \in Nat : Hashes[m] = HashAt(m)
  BY DEF Hashes
<1>4. \/ Side(d, R[n], R[pos]) /\ ~Side(1 - d, R[n], R[c])
      \/ x[1 - d] # pos /\ Side(1 - d, R[n], R[pos]) /\ ~Side(d, R[n], R[x[1 - d]])
  <2>. DEFINE B == Hashes
              T == Sons
              l == lowest
              p == pos
  <2>1. p \in Nat /\ l \in Nat /\ c \in l .. p - 1 /\ SearchTree(R, B, T, p, l, c, x) /\ Side(d, R[c], R[p])
        /\ e = T[1 - d][c]
    BY <1>1
  <2>2. n \in l .. p - 1 /\ B[n] = B[p]
    BY <1>1, <1>2, <1>3
  <2>. HIDE DEF B, T, l, p
  <2>3. Narrowed(R, B, p, l, c, x, d, e)
    BY <2>1, Passed
  <2>4. \/ Side(d, R[n], R[p]) /\ ~Side(1 - d, R[n], R[c])
        \/ x[1 - d] # p /\ Side(1 - d, R[n], R[p]) /\ ~Side(d, R[n], R[x[1 - d]])
    BY <2>2, <2>3 DEF Narrowed
  <2>. QED  BY <2>4 DEF p
<1>5. CASE Side(d, R[n], R[pos]) /\ ~Side(1 - d, R[n], R[c])
  <2>1. HashAt(c) = HashAt(pos)
    BY <1>1, <1>2, <1>3 DEF SearchTree
  <2>2. Same(c, pos, k)
    BY <1>1, <1>2, <1>5, <2>1, NearerAgrees
  <2>3. c >= c
    BY <1>2
  <2>. QED  BY <2>2, <2>3
<1>6. CASE x[1 - d] # pos /\ Side(1 - d, R[n], R[pos]) /\ ~Side(d, R[n], R[x[1 - d]])
  <2>1. PICK b \in {0, 1} : b = 1 - d /\ d = 1 - b
    OBVIOUS
  <2>2. Between(R, Hashes, pos, lowest, c, x, b)
    BY DEF SearchTree
  <2>3. PICK y \in lowest .. pos - 1 : y = x[b] /\ y > c /\ Hashes[y] = Hashes[pos] /\ Side(b, R[y], R[pos])
    BY <1>1, <1>6, <2>1, <2>2 DEF Between
  <2>4. HashAt(y) = HashAt(pos) /\ y \in Nat
    BY <1>1, <1>3, <2>3
  <2>5. Same(y, pos, k)
    BY <1>1, <1>2, <1>6, <2>1, <2>3, <2>4, NearerAgrees
  <2>6. y >= c
    BY <1>2, <2>3, <2>4
  <2>. QED  BY <2>5, <2>6
<1>. QED  BY <1>4, <1>5, <1>6

-----------------------------------------------------------------------------
(* The two places where the next nodes come *)

\* what the functions for repetitions rely on
FastInv ==
  maxLen \in Nat /\ (running =>
    /\ op \in {"GetMatches2", "GetMatches3"} => lenl >= MaxMatch
    /\ op = "GetMatches2" => /\ \A k \in -1 .. rle_len - 1 : cur(k) = cur(0)
                             /\ rle_len >= MinMatch /\ rle_len < MaxMatch /\ rle_len <= maxLen
    /\ op = "GetMatches3" => Same(pos - dist_258, pos, MaxMatch) /\ dist_258 \in 1 .. pos - Window)

\* e is where the repetition of n ends, with a byte that is on the side of below
Repeats(n, e) ==
  /\ e - n \in 0 .. rle_len - 1
  /\ \A k \in 0 .. e - n - 1 : Byte(n, k) = cur(0)
  /\ Byte(n, e - n) # cur(0) /\ (below <=> Byte(n, e - n) < cur(0))
\* The nodes down to curMatch_rle are in one repetition.
RleInv ==
  running /\ curMatch >= curMatch_rle =>
    /\ op = "GetMatches2" /\ below \in BOOLEAN
    /\ \E e \in Nat : /\ \A n \in curMatch_rle .. curMatch : Repeats(n, e)
                      /\ (IF below THEN len1 ELSE len0) + 1 <= e - curMatch

\* the whole of it
JInv == IInv /\ RootInv /\ OrderInv /\ FastInv /\ RleInv

\* to put one node in
LEMMA HungPlace ==
  ASSUME TreeInv, NEW x \in [{0, 1} -> Nat], NEW d \in {0, 1}, x[d] \in lowest .. pos, NEW v, NEW t,
         t = [son EXCEPT ![Place(x, d)] = v]
  PROVE  Hung(Sons, SonsAt(t, cyclicBufferPos, pos), pos, lowest, x, d, v)
<1>. DEFINE i == Inner(pos, x[d], d)
            n == x[d]
<1>1. /\ son \in [0 .. 2 * Window - 1 -> Nat] /\ cyclicBufferPos \in 0 .. Window - 1 /\ pos \in Nat
      /\ \A m \in lowest .. pos : m \in Nat /\ pos - m \in 0 .. Window - 1
  BY WindowIs DEF TreeInv
<1>2. i \in {0, 1} /\ n \in Nat /\ pos - n \in 0 .. Window - 1
  BY <1>1 DEF Inner
<1>3. Puts(son, t, cyclicBufferPos, pos, n, i, v)
  BY <1>2 DEF Place, Puts
<1>. HIDE DEF i, n
<1>4. ASSUME NEW m \in lowest .. pos, NEW b \in {0, 1}
      PROVE  SonsAt(t, cyclicBufferPos, pos)[b][m] = IF m = n /\ b = i THEN v ELSE Sons[b][m]
  <2>1. m \in Nat /\ pos - m \in 0 .. Window - 1
    BY <1>1
  <2>2. OneNew(son, t, cyclicBufferPos, pos, n, i, v)
    BY <1>1, <1>2, <1>3, NewSon
  <2>. QED  BY <2>1, <2>2 DEF OneNew, Sons
<1>. QED  BY <1>4 DEF Hung, i, n

\* to put two nodes in
LEMMA HungPlaces ==
  ASSUME TreeInv, NEW x \in [{0, 1} -> Nat], x[0] \in lowest .. pos, x[1] \in lowest .. pos,
         NEW s \in [{0, 1} -> Nat], NEW t,
         \/ t = [son EXCEPT ![Place(x, 0)] = s[0], ![Place(x, 1)] = s[1]]
         \/ t = [son EXCEPT ![Place(x, 1)] = s[1], ![Place(x, 0)] = s[0]]
  PROVE  HungBoth(Sons, SonsAt(t, cyclicBufferPos, pos), pos, lowest, x, s)
<1>1. /\ son \in [0 .. 2 * Window - 1 -> Nat] /\ cyclicBufferPos \in 0 .. Window - 1 /\ pos \in Nat
      /\ \A m \in lowest .. pos : m \in Nat /\ pos - m \in 0 .. Window - 1
  BY WindowIs DEF TreeInv
<1>2. ASSUME NEW d \in {0, 1}
      PROVE  x[d] \in Nat /\ pos - x[d] \in 0 .. Window - 1 /\ Inner(pos, x[d], d) \in {0, 1}
  BY <1>1 DEF Inner
<1>3. PICK d \in {0, 1} : t = [son EXCEPT ![Place(x, d)] = s[d], ![Place(x, 1 - d)] = s[1 - d]]
  <2>1. 1 - 0 = 1 /\ 1 - 1 = 0
    OBVIOUS
  <2>. QED  BY <2>1
<1>. DEFINE u == [son EXCEPT ![Place(x, d)] = s[d]]
            e == 1 - d
<1>4. e \in {0, 1} /\ e # d /\ \A a \in {0, 1} : a = d \/ a = e
  OBVIOUS
<1>5. u \in [0 .. 2 * Window - 1 -> Nat] /\ t = [u EXCEPT ![Place(x, e)] = s[e]]
  <2>1. Place(x, d) \in 0 .. 2 * Window - 1
    BY <1>1, <1>2, Places DEF Place
  <2>2. s[d] \in Nat /\ s[1 - d] \in Nat
    BY <1>4
  <2>3. u \in [0 .. 2 * Window - 1 -> Nat]
    BY <1>1, <2>1, <2>2
  <2>4. t = [u EXCEPT ![Place(x, e)] = s[e]]
    BY <1>3
  <2>. QED  BY <2>3, <2>4
<1>. DEFINE i == Inner(pos, x[d], d)
            j == Inner(pos, x[e], e)
            U == SonsAt(t, cyclicBufferPos, pos)
<1>6. x[d] = x[e] => i # j
  BY <1>4 DEF Inner
<1>7. Puts(son, u, cyclicBufferPos, pos, x[d], i, s[d])
  BY <1>2 DEF Place, Puts
<1>8. Puts(u, t, cyclicBufferPos, pos, x[e], j, s[e])
  BY <1>2, <1>4, <1>5 DEF Place, Puts
<1>. HIDE DEF u, e, i, j
<1>9. ASSUME NEW m \in lowest .. pos, NEW b \in {0, 1}
      PROVE  U[b][m] = IF m = x[e] /\ b = j THEN s[e] ELSE IF m = x[d] /\ b = i THEN s[d] ELSE Sons[b][m]
  <2>1. m \in Nat /\ pos - m \in 0 .. Window - 1
    BY <1>1
  <2>2. i \in {0, 1} /\ x[d] \in Nat
    BY <1>2 DEF i
  <2>3. j \in {0, 1} /\ x[e] \in Nat
    BY <1>2, <1>4 DEF j
  <2>4. OneNew(son, u, cyclicBufferPos, pos, x[d], i, s[d])
    BY <1>1, <1>7, <2>2, NewSon
  <2>5. OneNew(u, t, cyclicBufferPos, pos, x[e], j, s[e])
    BY <1>1, <1>5, <1>8, <2>3, NewSon
  <2>6. SonsAt(u, cyclicBufferPos, pos)[b][m] = IF m = x[d] /\ b = i THEN s[d] ELSE Sons[b][m]
    BY <2>1, <2>4 DEF OneNew, Sons
  <2>7. U[b][m] = IF m = x[e] /\ b = j THEN s[e] ELSE SonsAt(u, cyclicBufferPos, pos)[b][m]
    BY <2>1, <2>5 DEF OneNew
  <2>. QED  BY <2>6, <2>7
<1>. HIDE DEF U
<1>10. ASSUME NEW m \in lowest .. pos, NEW b \in {0, 1}, NEW a \in {0, 1}, m = x[a], b = Inner(pos, x[a], a)
       PROVE  U[b][m] = s[a]
  BY <1>4, <1>6, <1>9, <1>10 DEF i, j
<1>11. ASSUME NEW m \in lowest .. pos, NEW b \in {0, 1}, ~Pending(pos, x, m, b)
       PROVE  U[b][m] = Sons[b][m]
  <2>1. ~(m = x[e] /\ b = j) /\ ~(m = x[d] /\ b = i)
    BY <1>4, <1>11 DEF Pending, i, j
  <2>. QED  BY <1>9, <2>1
<1>. QED  BY <1>10, <1>11 DEF HungBoth, U

\* the words of the same buffer
LEMMA SameWords ==
  ASSUME in' = in
  PROVE  /\ Hashes' = Hashes /\ \A n : HashAt(n)' = HashAt(n)
         /\ \A n, k : Byte(n, k)' = Byte(n, k)
         /\ \A R, lo, hi : Sorted(R, lo, hi)' <=> Sorted(R, lo, hi)
<1>1. \A n, k : Byte(n, k)' = Byte(n, k)
  BY DEF Byte
<1>2. \A n : HashAt(n)' = HashAt(n)
  BY DEF HashAt, Byte
<1>3. Hashes' = Hashes
  BY <1>2 DEF Hashes
<1>4. \A m, n : Before(m, n)' <=> Before(m, n)
  BY DEF Before, Limit, Same, Byte
<1>5. \A R, lo, hi : Sorted(R, lo, hi)' <=> Sorted(R, lo, hi)
  BY <1>2, <1>4 DEF Sorted
<1>. QED  BY <1>1, <1>2, <1>3, <1>5

\* what is in the window
LEMMA LowIs ==
  ASSUME NEW p \in Nat, p >= Window
  PROVE  /\ Low(p) \in Nat /\ Low(p) <= p /\ Low(p) >= Window
         /\ \A n \in Nat : n >= Low(p) <=> n >= Window /\ p - n < Window
BY SizesAssumption DEF Low

\* the window moves on
LEMMA LowNext ==
  ASSUME NEW p \in Nat, p >= Window, NEW q, q = p + 1
  PROVE  Low(p) <= Low(q)
BY SizesAssumption DEF Low

\* A tree stays one when the window moves.
LEMMA MovedTree ==
  ASSUME NEW R, NEW B, NEW s \in [0 .. 2 * Window - 1 -> Nat], NEW c \in 0 .. Window - 1, NEW p \in Nat, p >= Window,
         NEW e, e = (c + 1) % Window, NEW q \in Nat, q = p + 1,
         NEW T, T = SonsAt(s, c, p), Tree(R, B, T, q, Low(p))
  PROVE  Tree(R, B, SonsAt(s, e, q), q, Low(q))
<1>. USE SizesAssumption
<1>1. PICK l \in Nat : l = Low(p) /\ l <= p /\ l >= Window /\ \A n \in Nat : n >= l <=> n >= Window /\ p - n < Window
  BY LowIs
<1>2. PICK k \in Nat : k = Low(q) /\ \A n \in Nat : n >= k <=> n >= Window /\ q - n < Window
  <2>1. q >= Window
    OBVIOUS
  <2>. QED  BY <2>1, LowIs
<1>3. l <= k
  BY <1>1, <1>2, LowNext
<1>4. ASSUME NEW m \in k .. q - 1, NEW b \in {0, 1} PROVE SonsAt(s, e, q)[b][m] = T[b][m]
  <2>1. m \in Nat /\ m >= k /\ m <= p
    OBVIOUS
  <2>2. q - m < Window
    BY <1>2, <2>1
  <2>3. p - m \in 0 .. Window - 2
    BY <2>1, <2>2
  <2>4. SonsKept(s, c, p, e, q)
    BY NextSons
  <2>. QED  BY <2>1, <2>3, <2>4 DEF SonsKept
<1>5. SonsAreNat(T, q, l)
  <2>1. ASSUME NEW m \in l .. q - 1, NEW b \in {0, 1} PROVE T[b][m] \in Nat
    <3>1. m \in Nat /\ m >= l /\ m <= p
      OBVIOUS
    <3>2. PICK d \in 0 .. Window - 1 : d = p - m
      BY <1>1, <3>1
    <3>3. s[At(c, d, b)] \in Nat
      BY Places
    <3>. QED  BY <3>1, <3>2, <3>3 DEF SonsAt
  <2>. QED  BY <2>1 DEF SonsAreNat
<1>. DEFINE V == SonsAt(s, e, q)
<1>6. \A m \in k .. q - 1 : \A b \in {0, 1} : V[b][m] = T[b][m]
  BY <1>4
<1>. HIDE DEF V
<1>7. Tree(R, B, V, q, k)
  BY <1>1, <1>2, <1>3, <1>5, <1>6, TreeInWindow
<1>. QED  BY <1>2, <1>7 DEF V

\* The trees are sorted after a call.
LEMMA MovedOrder ==
  ASSUME TreeInv, in' = in, MOVE_POS, son' \in [0 .. 2 * Window - 1 -> Nat],
         NEW R \in [Nat -> Nat], Bounded(R), Sorted(R, lowest, pos),
         NEW q, q = pos + 1, Tree(R, Hashes, SonsAt(son', cyclicBufferPos, pos), q, lowest)
  PROVE  OrderInv'
<1>1. pos \in Nat /\ pos >= Window /\ cyclicBufferPos \in 0 .. Window - 1
  BY DEF TreeInv
<1>2. q \in Nat /\ q - 1 = pos /\ q = pos + 1
  BY <1>1
<1>3. pos' = q /\ cyclicBufferPos' = (cyclicBufferPos + 1) % Window /\ running' = FALSE
  BY DEF MOVE_POS, NextCyclic
<1>4. lowest' = Low(q) /\ Low(q) \in Nat /\ lowest <= Low(q) /\ lowest \in Nat
  <2>1. lowest' = Low(q)
    BY <1>3 DEF lowest, Low
  <2>2. q >= Window
    BY <1>1, <1>2, SizesAssumption
  <2>. QED  BY <1>1, <1>2, <2>1, <2>2, LowIs, LowNext DEF lowest
<1>5. Hashes' = Hashes
  BY SameWords
<1>6. Tree(R, Hashes, Sons, pos, lowest)'
  <2>. DEFINE V == SonsAt(son', cyclicBufferPos', q)
  <2>1. Sons' = V
    BY <1>3 DEF Sons, SonsAt, At, Slot
  <2>2. Tree(R, Hashes, V, q, Low(q))
    BY <1>1, <1>2, <1>3, MovedTree DEF lowest
  <2>. HIDE DEF V
  <2>3. Tree(R, Hashes', Sons', pos', lowest')
    BY <1>3, <1>4, <1>5, <2>1, <2>2
  <2>. QED  BY <2>3 DEF Tree, Live, GoodSon, Under, Side
<1>7. Sorted(R, lowest, pos - 1)'
  <2>1. \A m \in Low(q) .. pos : m \in lowest .. pos
    BY <1>1, <1>4
  <2>2. Sorted(R, Low(q), pos)
    BY <2>1 DEF Sorted
  <2>3. PICK a \in Nat : a = Low(q)
    BY <1>4
  <2>4. PICK z \in Nat : z = pos
    BY <1>1
  <2>5. Sorted(R, a, z)'
    BY <2>2, <2>3, <2>4, SameWords
  <2>6. lowest' = a /\ pos' - 1 = z
    BY <1>2, <1>3, <1>4, <2>3, <2>4
  <2>. QED  BY <2>5, <2>6 DEF Sorted
<1>8. Ordered(R)'
  BY <1>3, <1>6, <1>7 DEF Ordered, Bounded
<1>. QED  BY <1>8 DEF OrderInv

\* The roots are right after a call.
LEMMA MovedRoot ==
  ASSUME TreeInv, RootInv, in' = in, MOVE_POS, son' \in [0 .. 2 * Window - 1 -> Nat],
         \A k \in 0 .. 2 * Window - 1 : IsNode(son'[k]),
         hash' \in [Buckets -> Nat], hash'[HashAt(pos)] = pos,
         \A h \in Buckets : h # HashAt(pos) => hash'[h] = hash[h]
  PROVE  RootInv'
<1>1. pos \in Nat /\ pos >= Window /\ in \in Inputs /\ hash \in [Buckets -> Nat]
  BY DEF TreeInv
<1>2. PICK q \in Nat : q = pos + 1 /\ q - 1 = pos
  BY <1>1
<1>3. pos' = q /\ running' = FALSE
  BY <1>2 DEF MOVE_POS
<1>4. PICK l \in Nat : l = lowest' /\ lowest <= l /\ lowest \in Nat
  <2>1. lowest' = Low(q)
    BY <1>3 DEF lowest, Low
  <2>2. q >= Window
    BY <1>1, <1>2, SizesAssumption
  <2>. QED  BY <1>1, <1>2, <2>1, <2>2, LowIs, LowNext DEF lowest
<1>5. \A n : HashAt(n)' = HashAt(n)
  BY SameWords
<1>6. \A n : HashAt(n) \in Buckets
  BY <1>1, Bucket
<1>7. ASSUME NEW h \in Buckets
      PROVE  IsNode(hash'[h]) /\ (hash'[h] >= l => HashAt(hash'[h]) = h)
  <2>1. CASE h = HashAt(pos)
    BY <1>1, <2>1 DEF IsNode
  <2>2. CASE h # HashAt(pos)
    <3>1. hash'[h] = hash[h] /\ hash[h] \in Nat
      BY <1>1, <2>2
    <3>2. hash[h] >= l => hash[h] >= lowest
      BY <1>4, <3>1
    <3>. QED  BY <3>1, <3>2 DEF RootInv
  <2>. QED  BY <2>1, <2>2
<1>8. ASSUME NEW n \in l .. pos PROVE n <= hash'[HashAt(n)]
  <2>1. CASE HashAt(n) = HashAt(pos)
    BY <1>1, <2>1
  <2>2. CASE HashAt(n) # HashAt(pos)
    <3>1. n \in lowest .. pos - 1
      BY <1>1, <1>4, <2>2
    <3>2. hash'[HashAt(n)] = hash[HashAt(n)]
      BY <1>6, <2>2
    <3>. QED  BY <3>1, <3>2 DEF RootInv
  <2>. QED  BY <2>1, <2>2
<1>9. \A k \in 0 .. 2 * Window - 1 : IsNode(son'[k])
  OBVIOUS
<1>10. \A h \in Buckets : IsNode(hash[h])' /\ (hash[h] >= lowest => HashAt(hash[h]) = h)'
  <2>. SUFFICES ASSUME NEW h \in Buckets PROVE IsNode(hash'[h]) /\ (hash'[h] >= l => HashAt(hash[h])' = h)
    BY <1>4 DEF IsNode
  <2>1. HashAt(hash[h])' = HashAt(hash'[h])
    BY DEF HashAt, Byte
  <2>. QED  BY <1>7, <2>1
<1>11. \A n \in lowest' .. pos' - 1 : n <= hash'[HashAt(n)']
  BY <1>2, <1>3, <1>4, <1>5, <1>8
<1>. QED  BY <1>3, <1>9, <1>10, <1>11 DEF RootInv, IsNode

\* The sons of the node c come below the two places.
LEMMA ReplacedOrder ==
  ASSUME TreeInv, in' = in, MOVE_POS, NEW R \in [Nat -> Nat], Bounded(R), Sorted(R, lowest, pos),
         NEW c \in lowest .. pos - 1, NEW x \in [{0, 1} -> Nat],
         SearchTree(R, Hashes, Sons, pos, lowest, c, x), R[c] = R[pos],
         son' \in [0 .. 2 * Window - 1 -> Nat],
         \/ son' = [son EXCEPT ![Place(x, 0)] = son[Pair(c)], ![Place(x, 1)] = son[Pair(c) + 1]]
         \/ son' = [son EXCEPT ![Place(x, 1)] = son[Pair(c) + 1], ![Place(x, 0)] = son[Pair(c)]]
  PROVE  OrderInv'
<1>1. /\ pos \in Nat /\ pos >= Window /\ lowest \in Nat /\ SonsAreNat(Sons, pos, lowest)
      /\ \A m \in lowest .. pos : m \in Nat /\ pos - m \in 0 .. Window - 1
      /\ \A m \in Nat : Pair(m) = At(cyclicBufferPos, pos - m, 0) /\ Pair(m) + 1 = At(cyclicBufferPos, pos - m, 1)
  BY WindowIs
<1>2. c \in Nat /\ c <= pos /\ pos - c < Window /\ c \in lowest .. pos
  <2>1. c \in lowest .. pos
    BY <1>1
  <2>2. pos - c \in 0 .. Window - 1
    BY <1>1, <2>1
  <2>. QED  BY <1>1, <2>1, <2>2, SizesAssumption
<1>. DEFINE s == [b \in {0, 1} |-> son[IF b = 0 THEN Pair(c) ELSE Pair(c) + 1]]
<1>3. /\ son[Pair(c)] \in Nat /\ son[Pair(c)] < c /\ son[Pair(c) + 1] \in Nat /\ son[Pair(c) + 1] < c
      /\ son[Pair(c)] = Sons[0][c] /\ son[Pair(c) + 1] = Sons[1][c]
  <2>1. /\ son \in [0 .. 2 * Window - 1 -> Nat] /\ SonsBack(son, cyclicBufferPos, pos)
        /\ cyclicBufferPos \in 0 .. Window - 1
    BY DEF TreeInv
  <2>2. son[Pair(c)] \in Nat /\ son[Pair(c)] < c /\ son[Pair(c) + 1] \in Nat /\ son[Pair(c) + 1] < c
    BY <1>1, <1>2, <2>1, SonsOf
  <2>3. son[Pair(c)] = Sons[0][c] /\ son[Pair(c) + 1] = Sons[1][c]
    BY <1>1, <1>2 DEF Sons, SonsAt
  <2>. QED  BY <2>2, <2>3
<1>4. s \in [{0, 1} -> Nat] /\ s[0] = son[Pair(c)] /\ s[1] = son[Pair(c) + 1]
  BY <1>3
<1>. HIDE DEF s
<1>5. x[0] \in lowest .. pos /\ x[1] \in lowest .. pos
  BY DEF SearchTree, Between
<1>6. \/ son' = [son EXCEPT ![Place(x, 0)] = s[0], ![Place(x, 1)] = s[1]]
      \/ son' = [son EXCEPT ![Place(x, 1)] = s[1], ![Place(x, 0)] = s[0]]
  BY <1>4
<1>. DEFINE U == SonsAt(son', cyclicBufferPos, pos)
<1>7. HungBoth(Sons, U, pos, lowest, x, s)
  BY <1>4, <1>5, <1>6, HungPlaces
<1>. HIDE DEF U
<1>8. s[0] = Sons[0][c] /\ s[0] < c /\ s[1] = Sons[1][c] /\ s[1] < c
  BY <1>3, <1>4
<1>. DEFINE B == Hashes
            T == Sons
<1>. HIDE DEF B, T
<1>9. Tree(R, B, U, pos + 1, lowest)
  <2>1. SearchTree(R, B, T, pos, lowest, c, x) /\ SonsAreNat(T, pos, lowest) /\ HungBoth(T, U, pos, lowest, x, s)
        /\ s[0] = T[0][c] /\ s[1] = T[1][c]
    BY <1>1, <1>7, <1>8 DEF B, T
  <2>. QED  BY <1>1, <1>8, <2>1, ReplacedTree
<1>. QED  BY <1>9, MovedOrder DEF B, U

\* Nothing comes below the two places.
LEMMA LeftOrder ==
  ASSUME TreeInv, in' = in, MOVE_POS, NEW R \in [Nat -> Nat], Bounded(R), Sorted(R, lowest, pos),
         NEW c \in Nat, c < pos, c < lowest, NEW x \in [{0, 1} -> Nat],
         SearchTree(R, Hashes, Sons, pos, lowest, c, x),
         son' \in [0 .. 2 * Window - 1 -> Nat],
         son' = [son EXCEPT ![Place(x, 1)] = 0, ![Place(x, 0)] = 0]
  PROVE  OrderInv'
<1>1. pos \in Nat /\ lowest \in Nat /\ lowest >= Window /\ 0 < lowest
  BY WindowIs, SizesAssumption
<1>. DEFINE s == [b \in {0, 1} |-> 0]
<1>2. s \in [{0, 1} -> Nat] /\ s[0] = 0 /\ s[1] = 0
  OBVIOUS
<1>. HIDE DEF s
<1>3. x[0] \in lowest .. pos /\ x[1] \in lowest .. pos
  BY DEF SearchTree, Between
<1>4. son' = [son EXCEPT ![Place(x, 1)] = s[1], ![Place(x, 0)] = s[0]]
  BY <1>2
<1>. DEFINE U == SonsAt(son', cyclicBufferPos, pos)
<1>5. HungBoth(Sons, U, pos, lowest, x, s)
  BY <1>2, <1>3, <1>4, HungPlaces
<1>. HIDE DEF U
<1>. DEFINE B == Hashes
            T == Sons
            l == lowest
            p == pos
<1>. HIDE DEF B, T, l, p
<1>6. Tree(R, B, U, p + 1, l)
  <2>1. SearchTree(R, B, T, p, l, c, x) /\ HungBoth(T, U, p, l, x, s)
    BY <1>5 DEF B, T, l, p
  <2>2. s[0] \in Nat /\ s[1] \in Nat /\ s[0] < l /\ s[1] < l /\ c < l /\ c < p /\ l \in Nat /\ p \in Nat
    BY <1>1, <1>2 DEF l, p
  <2>. QED  BY <2>1, <2>2, LeftTree
<1>. QED  BY <1>6, MovedOrder DEF U, B, l, p

\* The trees are sorted during a call.
LEMMA RunningOrder ==
  ASSUME in' = in, pos' = pos, cyclicBufferPos' = cyclicBufferPos, running' = TRUE,
         NEW R \in [Nat -> Nat], Bounded(R), Sorted(R, lowest, pos), Tied(R, lowest), TreeInv,
         NEW T, T = SonsAt(son', cyclicBufferPos, pos), NEW y \in [{0, 1} -> Nat],
         SearchTree(R, Hashes, T, pos, lowest, curMatch', y),
         ptr1' = Place(y, 0), ptr0' = Place(y, 1), Agrees(y, 0, len1'), Agrees(y, 1, len0')
  PROVE  OrderInv'
<1>1. PICK p \in Nat : p = pos
  BY DEF TreeInv
<1>2. PICK l \in Nat : l = lowest
  BY WindowIs
<1>3. lowest' = l
  BY <1>2 DEF lowest, Low
<1>4. Sorted(R, lowest, pos)'
  <2>1. Sorted(R, l, p)'
    BY <1>1, <1>2, SameWords
  <2>. QED  BY <1>1, <1>3, <2>1 DEF Sorted
<1>5. Tied(R, lowest)'
  <2>1. Tied(R, l)
    BY <1>2
  <2>2. \A n : IsTie(n)' <=> IsTie(n)
    BY DEF IsTie, HashAt, Same, Byte, lenLimit, lenl
  <2>3. \A n : HashAt(n)' = HashAt(n)
    BY SameWords
  <2>4. HashAt(pos)' = HashAt(pos)
    BY DEF HashAt, Byte
  <2>. QED  BY <1>3, <2>1, <2>2, <2>3, <2>4 DEF Tied
<1>6. SearchTree(R, Hashes, Sons, pos, lowest, curMatch, y)'
  <2>1. Hashes' = Hashes
    BY SameWords
  <2>2. Sons' = T
    BY DEF Sons, SonsAt, At, Slot
  <2>3. SearchTree(R, Hashes', Sons', pos', lowest', curMatch', y)
    BY <1>2, <1>3, <2>1, <2>2
  <2>. QED  BY <2>3 DEF SearchTree, Live, GoodSon, Under, Side, Pending, Inner, Between
<1>7. ptr1' = Place(y, 0)' /\ ptr0' = Place(y, 1)'
  BY DEF Place, At, Slot, Inner
<1>8. Agrees(y, 0, lens(0))' /\ Agrees(y, 1, lens(1))'
  BY DEF Agrees, lens, lenLimit, lenl, Same, Byte
<1>9. SearchOrder(R, y)'
  <2>1. \A d \in {0, 1} : Agrees(y, d, lens(d))'
    BY <1>8
  <2>. QED  BY <1>6, <1>7, <2>1 DEF SearchOrder
<1>10. Ordered(R)'
  BY <1>4, <1>5, <1>9 DEF Ordered, Bounded
<1>. QED  BY <1>10 DEF OrderInv

\* the first places of a search are those of the new node itself
LEMMA RootPlaces ==
  ASSUME TreeInv, NEW x \in [{0, 1} -> Nat], x[0] = pos, x[1] = pos
  PROVE  Place(x, 0) = Own /\ Place(x, 1) = Own + 1
<1>1. pos \in Nat /\ cyclicBufferPos \in 0 .. Window - 1
  BY DEF TreeInv
<1>2. Slot(cyclicBufferPos, 0) = cyclicBufferPos
  BY <1>1, SlotIs, SizesAssumption
<1>3. pos - x[0] = 0 /\ pos - x[1] = 0
  BY <1>1
<1>. QED  BY <1>1, <1>2, <1>3 DEF Place, At, Inner, Own

\* The roots are right during a call.
LEMMA RunningRoot ==
  ASSUME TreeInv, RootInv, in' = in, pos' = pos, \A k \in 0 .. 2 * Window - 1 : IsNode(son'[k]), IsNode(curMatch'),
         hash' \in [Buckets -> Nat], hash'[HashAt(pos)] = pos,
         \A h \in Buckets : h # HashAt(pos) => hash'[h] = hash[h]
  PROVE  RootInv'
<1>1. /\ pos \in Nat /\ pos >= Window /\ HashAt(pos) \in Buckets /\ hash \in [Buckets -> Nat]
      /\ \A n : HashAt(n) \in Buckets
  BY Bucket DEF TreeInv
<1>2. lowest' = lowest /\ lowest \in Nat
  BY WindowIs DEF lowest, Low
<1>3. \A n : HashAt(n)' = HashAt(n)
  BY SameWords
<1>4. ASSUME NEW h \in Buckets PROVE IsNode(hash'[h]) /\ (hash'[h] >= lowest => HashAt(hash'[h]) = h)
  <2>1. CASE h = HashAt(pos)
    BY <1>1, <2>1 DEF IsNode
  <2>2. CASE h # HashAt(pos)
    BY <2>2 DEF RootInv
  <2>. QED  BY <2>1, <2>2
<1>5. ASSUME NEW n \in lowest .. pos - 1 PROVE n <= hash'[HashAt(n)]
  <2>1. CASE HashAt(n) = HashAt(pos)
    BY <1>1, <1>2, <2>1
  <2>2. CASE HashAt(n) # HashAt(pos)
    BY <1>1, <2>2 DEF RootInv
  <2>. QED  BY <2>1, <2>2
<1>6. HashAt(pos)' = HashAt(pos) /\ \A h \in Buckets : HashAt(hash[h])' = HashAt(hash'[h])
  BY DEF HashAt, Byte
<1>. QED  BY <1>2, <1>3, <1>4, <1>5, <1>6 DEF RootInv, IsNode

\* A search begins at the root.
LEMMA StartOrder ==
  ASSUME IInv, RootInv, OrderInv, ~running, NEW f, NEW d, Start(f, d)
  PROVE  OrderInv' /\ RootInv'
<1>0. TreeInv
  BY DEF IInv
<1>1. /\ in' = in /\ pos' = pos /\ cyclicBufferPos' = cyclicBufferPos /\ son' = son /\ running' = TRUE
      /\ hash' = [hash EXCEPT ![HashAt(pos)] = pos] /\ curMatch' = hash[HashAt(pos)]
      /\ ptr0' = Own + 1 /\ ptr1' = Own /\ len0' = 0 /\ len1' = 0
  BY DEF Start, Call
<1>2. PICK S \in [Nat -> Nat] : \E x : AtRoot(S, x)
  BY RootOrder
<1>3. PICK x \in [{0, 1} -> Nat] : AtRoot(S, x)
  BY <1>2 DEF AtRoot
<1>4. OrderInv'
  <2>1. x[0] = pos /\ x[1] = pos /\ Bounded(S) /\ Sorted(S, lowest, pos) /\ Tied(S, lowest)
    BY <1>3 DEF AtRoot
  <2>2. Place(x, 0) = Own /\ Place(x, 1) = Own + 1
    BY <1>0, <2>1, RootPlaces
  <2>3. Agrees(x, 0, len1') /\ Agrees(x, 1, len0')
    BY <1>1, <2>1 DEF Agrees
  <2>4. Sons = SonsAt(son', cyclicBufferPos, pos)
    BY <1>1 DEF Sons
  <2>5. SearchTree(S, Hashes, Sons, pos, lowest, curMatch', x)
    BY <1>1, <1>3 DEF AtRoot
  <2>. QED  BY <1>0, <1>1, <2>1, <2>2, <2>3, <2>4, <2>5, RunningOrder
<1>5. RootInv'
  <2>1. pos \in Nat /\ pos >= Window /\ HashAt(pos) \in Buckets /\ hash \in [Buckets -> Nat]
    BY <1>0, Bucket DEF TreeInv
  <2>2. \A k \in 0 .. 2 * Window - 1 : IsNode(son'[k])
    BY <1>1 DEF RootInv
  <2>3. hash' \in [Buckets -> Nat] /\ hash'[HashAt(pos)] = pos /\ \A h \in Buckets : h # HashAt(pos) => hash'[h] = hash[h]
    BY <1>1, <2>1
  <2>4. IsNode(curMatch')
    BY <1>1, <2>1 DEF RootInv
  <2>. QED  BY <1>0, <1>1, <2>2, <2>3, <2>4, RunningRoot
<1>. QED  BY <1>4, <1>5

\* A search goes on at the son e of the node c, which is hung in on its side d.
GoesDown(R, x, d, c, e, k, j) ==
  /\ R \in [Nat -> Nat] /\ Bounded(R) /\ Sorted(R, lowest, pos) /\ Tied(R, lowest)
  /\ x \in [{0, 1} -> Nat] /\ c \in lowest .. pos - 1 /\ SearchTree(R, Hashes, Sons, pos, lowest, c, x)
  /\ d \in {0, 1} /\ Side(d, R[c], R[pos]) /\ son' = [son EXCEPT ![Place(x, d)] = c]
  /\ e \in Nat /\ e = Sons[1 - d][c] /\ e < c /\ curMatch' = e
  /\ k <= lenLimit /\ Same(c, pos, k) /\ Agrees(x, 1 - d, j)
  /\ d = 0 => ptr1' = Pair(c) + 1 /\ ptr0' = Place(x, 1) /\ len1' = k /\ len0' = j
  /\ d = 1 => ptr0' = Pair(c) /\ ptr1' = Place(x, 0) /\ len0' = k /\ len1' = j

\* Then the trees stay sorted.
LEMMA DownOrder ==
  ASSUME in' = in, pos' = pos, cyclicBufferPos' = cyclicBufferPos, running' = TRUE, TreeInv,
         NEW R, NEW x, NEW d, NEW c, NEW e, NEW k, NEW j, GoesDown(R, x, d, c, e, k, j)
  PROVE  OrderInv'
<1>0. /\ R \in [Nat -> Nat] /\ Bounded(R) /\ Sorted(R, lowest, pos) /\ Tied(R, lowest)
      /\ x \in [{0, 1} -> Nat] /\ c \in lowest .. pos - 1 /\ SearchTree(R, Hashes, Sons, pos, lowest, c, x)
      /\ d \in {0, 1} /\ Side(d, R[c], R[pos]) /\ son' = [son EXCEPT ![Place(x, d)] = c]
      /\ e \in Nat /\ e = Sons[1 - d][c] /\ e < c /\ curMatch' = e
      /\ k <= lenLimit /\ Same(c, pos, k) /\ Agrees(x, 1 - d, j)
      /\ d = 0 => ptr1' = Pair(c) + 1 /\ ptr0' = Place(x, 1) /\ len1' = k /\ len0' = j
      /\ d = 1 => ptr0' = Pair(c) /\ ptr1' = Place(x, 0) /\ len0' = k /\ len1' = j
  BY DEF GoesDown
<1>1. /\ pos \in Nat /\ lowest \in Nat /\ SonsAreNat(Sons, pos, lowest)
      /\ \A m \in lowest .. pos : m \in Nat /\ pos - m \in 0 .. Window - 1
      /\ \A m \in Nat : Pair(m) = At(cyclicBufferPos, pos - m, 0) /\ Pair(m) + 1 = At(cyclicBufferPos, pos - m, 1)
  BY WindowIs
<1>2. c \in Nat /\ c < pos
  BY <1>0, <1>1
<1>. DEFINE U == SonsAt(son', cyclicBufferPos, pos)
            y == [b \in {0, 1} |-> IF b = d THEN c ELSE x[b]]
<1>3. y \in [{0, 1} -> Nat] /\ y[d] = c /\ y[1 - d] = x[1 - d]
  BY <1>0, <1>2
<1>4. Hung(Sons, U, pos, lowest, x, d, c)
  <2>1. x[d] \in lowest .. pos
    BY <1>0 DEF SearchTree, Between
  <2>. QED  BY <1>0, <2>1, HungPlace
<1>. HIDE DEF U, y
<1>. DEFINE B == Hashes
            T == Sons
            l == lowest
            p == pos
<1>. HIDE DEF B, T, l, p
<1>5. SearchTree(R, B, U, p, l, e, y)
  <2>1. SearchTree(R, B, T, p, l, c, x) /\ Hung(T, U, p, l, x, d, c) /\ SonsAreNat(T, p, l) /\ e = T[1 - d][c]
    BY <1>0, <1>1, <1>4 DEF B, T, l, p
  <2>2. p \in Nat /\ l \in Nat /\ c \in l .. p - 1 /\ Side(d, R[c], R[p])
    BY <1>0, <1>1 DEF l, p
  <2>. QED  BY <1>0, <1>3, <2>1, <2>2, OneDown
<1>6. SearchTree(R, Hashes, U, pos, lowest, curMatch', y)
  BY <1>0, <1>5 DEF B, l, p
<1>7. Agrees(y, d, k) /\ Agrees(y, 1 - d, j)
  BY <1>0, <1>2, <1>3 DEF Agrees
<1>8. Place(y, 0) = ptr1' /\ Place(y, 1) = ptr0' /\ Agrees(y, 0, len1') /\ Agrees(y, 1, len0')
  <2>1. CASE d = 0
    <3>1. Place(y, 0) = At(cyclicBufferPos, pos - c, 1)
      BY <1>2, <1>3, <2>1 DEF Place, Inner
    <3>2. Place(y, 1) = Place(x, 1)
      BY <1>3, <2>1 DEF Place
    <3>. QED  BY <1>0, <1>1, <1>2, <1>7, <2>1, <3>1, <3>2
  <2>2. CASE d = 1
    <3>1. Place(y, 1) = At(cyclicBufferPos, pos - c, 0)
      BY <1>2, <1>3, <2>2 DEF Place, Inner
    <3>2. Place(y, 0) = Place(x, 0)
      BY <1>3, <2>2 DEF Place
    <3>. QED  BY <1>0, <1>1, <1>2, <1>7, <2>2, <3>1, <3>2
  <2>. QED  BY <1>0, <2>1, <2>2
<1>. QED  BY <1>0, <1>3, <1>6, <1>8, RunningOrder DEF U

-----------------------------------------------------------------------------
(* A search *)

\* the two rank and their places of a search
Searches(R, x) ==
  /\ R \in [Nat -> Nat] /\ Bounded(R) /\ Sorted(R, lowest, pos) /\ Tied(R, lowest) /\ SearchOrder(R, x)

\* a search has its ranks and its places
LEMMA SearchExists ==
  ASSUME OrderInv, running
  PROVE  \E R, x : Searches(R, x)
BY DEF OrderInv, Ordered, Searches

\* the node a search looks at
LEMMA NodeInWindow ==
  ASSUME IInv, RootInv, running
  PROVE  /\ curMatch \in Nat /\ curMatch < pos
         /\ pos - curMatch < Window <=> curMatch \in lowest .. pos - 1
         /\ pos - curMatch >= Window <=> curMatch < lowest
<1>. USE SizesAssumption
<1>1. pos \in Nat /\ pos >= Window /\ curMatch \in Nat /\ curMatch < pos
  BY DEF IInv, TreeInv, SearchInv
<1>2. curMatch = 0 \/ curMatch >= Window
  BY DEF RootInv, IsNode
<1>3. PICK l \in Nat : l = lowest /\ (curMatch >= l <=> curMatch >= Window /\ pos - curMatch < Window)
  BY <1>1, LowIs DEF lowest
<1>4. curMatch >= l <=> pos - curMatch < Window
  BY <1>1, <1>2, <1>3
<1>. QED  BY <1>1, <1>3, <1>4

\* A search of GetMatches3 meets its match before it passes it.
LEMMA KnownFound ==
  ASSUME IInv, RootInv, OrderInv, FastInv
  PROVE  KnownAhead
<1>. USE SizesAssumption
<1>. SUFFICES ASSUME running, op = "GetMatches3" PROVE delta <= dist_258
  BY DEF KnownAhead
<1>1. PICK R, x : Searches(R, x)
  BY SearchExists
<1>2. /\ pos \in Nat /\ pos >= Window /\ dist_258 \in 1 .. Window - 1 /\ dist_258 \in 1 .. pos - Window
      /\ Same(pos - dist_258, pos, MaxMatch) /\ lenl >= MaxMatch
  BY DEF IInv, TreeInv, SearchInv, FastInv
<1>3. curMatch \in Nat
  BY DEF IInv, SearchInv
<1>4. PICK q \in Nat : q = pos - dist_258 /\ q >= Window /\ pos - q < Window /\ q < pos
  BY <1>2
<1>5. q \in lowest .. pos - 1
  BY <1>2, <1>4, LowIs DEF lowest
<1>6. Same(q, pos, 3) /\ Same(q, pos, lenLimit)
  <2>1. lenLimit = MaxMatch
    <3>1. lenl \in Nat
      BY RepeatedIsNat DEF IInv
    <3>. QED  BY <1>2, <3>1 DEF lenLimit, Least
  <2>2. 0 .. 3 - 1 \subseteq 0 .. MaxMatch - 1
    OBVIOUS
  <2>. QED  BY <1>2, <1>4, <2>1, <2>2 DEF Same
<1>7. IsTie(q)
  <2>1. 0 \in 0 .. 3 - 1 /\ 1 \in 0 .. 3 - 1 /\ 2 \in 0 .. 3 - 1
    OBVIOUS
  <2>2. Byte(q, 0) = Byte(pos, 0) /\ Byte(q, 1) = Byte(pos, 1) /\ Byte(q, 2) = Byte(pos, 2)
    BY <1>6, <2>1 DEF Same
  <2>. QED  BY <1>6, <2>2 DEF IsTie, HashAt
<1>8. PICK t \in q .. pos - 1 : HashAt(t) = HashAt(pos) /\ R[t] = R[pos]
  BY <1>1, <1>5, <1>7 DEF Searches, Tied
<1>9. t <= curMatch
  <2>1. SUFFICES ASSUME t > curMatch PROVE FALSE
    BY <1>3, <1>4
  <2>2. t \in lowest .. pos - 1 /\ t \in Nat
    <3>1. lowest \in Nat
      BY WindowIs DEF IInv
    <3>. QED  BY <1>2, <1>4, <1>5, <3>1
  <2>3. Hashes[t] = Hashes[pos]
    BY <1>2, <1>8, <2>2 DEF Hashes
  <2>. QED  BY <1>1, <1>8, <2>1, <2>2, <2>3 DEF Searches, SearchOrder, SearchTree
<1>. QED  BY <1>2, <1>3, <1>4, <1>8, <1>9 DEF delta

\* on which side of the new position a node is, by the first byte that differs
LEMMA SideOfByte ==
  ASSUME TreeInv, NEW R \in [Nat -> Nat], Sorted(R, lowest, pos), NEW n \in lowest .. pos - 1,
         HashAt(n) = HashAt(pos), NEW k \in Nat, k < lenLimit, Same(n, pos, k), Byte(n, k) # cur(k)
  PROVE  Side(IF Byte(n, k) < cur(k) THEN 0 ELSE 1, R[n], R[pos])
<1>1. pos \in Nat /\ lowest \in Nat /\ lowest <= pos /\ lenLimit = Limit(pos) /\ in \in Inputs
  BY WindowIs DEF TreeInv
<1>2. n \in Nat /\ n <= pos /\ n \in lowest .. pos /\ pos \in lowest .. pos
  BY <1>1
<1>3. k < Limit(pos) /\ k < Limit(n)
  <2>1. Limit(n) \in Int /\ Limit(pos) \in Int /\ Limit(pos) <= Limit(n)
    BY <1>1, <1>2, LimitIs
  <2>. QED  BY <1>1, <2>1
<1>4. Byte(n, k) \in Nat /\ Byte(pos, k) \in Nat /\ Byte(n, k) # Byte(pos, k) /\ cur(k) = Byte(pos, k)
  BY <1>1, BytesAreNat DEF cur
<1>5. CASE Byte(n, k) < cur(k)
  <2>1. Before(n, pos)
    BY <1>3, <1>4, <1>5 DEF Before
  <2>2. R[n] < R[pos]
    BY <1>2, <2>1 DEF Sorted
  <2>. QED  BY <1>5, <2>2 DEF Side
<1>6. CASE ~(Byte(n, k) < cur(k))
  <2>1. Before(pos, n)
    <3>1. Same(pos, n, k) /\ Byte(pos, k) < Byte(n, k)
      BY <1>4, <1>6 DEF Same
    <3>. QED  BY <1>3, <3>1 DEF Before
  <2>2. R[pos] < R[n]
    BY <1>2, <2>1 DEF Sorted
  <2>. QED  BY <1>6, <2>2 DEF Side
<1>. QED  BY <1>5, <1>6

\* What is known to agree does.
LEMMA Compared ==
  ASSUME IInv, running, NEW R, NEW x, Searches(R, x), curMatch \in lowest .. pos - 1
  PROVE  /\ len \in Nat /\ len <= lenLimit /\ Same(curMatch, pos, len) /\ lenLimit \in Nat
         /\ len = lenLimit \/ Byte(curMatch, len) # cur(len)
         /\ HashAt(curMatch) = HashAt(pos)
<1>0. TreeInv /\ in \in Inputs
  BY DEF IInv, TreeInv
<1>1. /\ pos \in Nat /\ lowest \in Nat /\ lowest <= pos /\ lenLimit = Limit(pos) /\ lenLimit \in Nat
      /\ len0 \in Nat /\ len1 \in Nat
  BY <1>0, WindowIs DEF IInv, SearchInv
<1>2. curMatch \in Nat /\ curMatch < pos /\ curMatch \in lowest .. pos
  BY <1>1
<1>3. HashAt(curMatch) = HashAt(pos)
  <2>1. Hashes[curMatch] = Hashes[pos]
    BY <1>2 DEF Searches, SearchOrder, SearchTree
  <2>. QED  BY <1>1, <1>2, <2>1 DEF Hashes
<1>4. /\ Agrees(x, 0, len1) /\ Agrees(x, 1, len0)
  <2>1. \A d \in {0, 1} : Agrees(x, d, lens(d))
    BY DEF Searches, SearchOrder
  <2>. QED  BY <2>1 DEF lens
<1>5. known \in Nat /\ known <= lenLimit /\ Same(curMatch, pos, known)
  <2>1. CASE x[0] = pos \/ x[1] = pos
    <3>1. known = 0
      BY <1>1, <1>4, <2>1 DEF Agrees, known, Least
    <3>. QED  BY <1>1, <3>1 DEF Same
  <2>2. CASE x[0] # pos /\ x[1] # pos
    <3>1. \A d \in {0, 1} : Between(R, Hashes, pos, lowest, curMatch, x, d)
      BY DEF Searches, SearchOrder, SearchTree
    <3>2. PICK a \in lowest .. pos - 1 : a = x[0] /\ Hashes[a] = Hashes[pos] /\ R[a] < R[curMatch]
      <4>1. Between(R, Hashes, pos, lowest, curMatch, x, 0)
        BY <3>1
      <4>. QED  BY <1>1, <1>2, <2>2, <4>1 DEF Between, Side
    <3>3. PICK b \in lowest .. pos - 1 : b = x[1] /\ Hashes[b] = Hashes[pos] /\ R[curMatch] < R[b]
      <4>1. Between(R, Hashes, pos, lowest, curMatch, x, 1)
        BY <3>1
      <4>. QED  BY <1>1, <1>2, <2>2, <4>1 DEF Between, Side
    <3>4. /\ len1 <= lenLimit /\ Same(a, pos, len1) /\ len0 <= lenLimit /\ Same(b, pos, len0)
      BY <1>4, <2>2, <3>2, <3>3 DEF Agrees
    <3>5. PICK k \in Nat : k = known /\ k <= len0 /\ k <= len1
      BY <1>1 DEF known, Least
    <3>6. Same(a, pos, k) /\ Same(a, b, k)
      <4>1. \A j \in 0 .. k - 1 : j \in 0 .. len0 - 1 /\ j \in 0 .. len1 - 1
        BY <1>1, <3>5
      <4>. QED  BY <3>4, <4>1 DEF Same
    <3>7. Same(a, curMatch, k)
      <4>1. HashAt(a) = HashAt(b) /\ HashAt(curMatch) = HashAt(b)
        BY <1>1, <1>3, <3>2, <3>3 DEF Hashes
      <4>2. R \in [Nat -> Nat] /\ Sorted(R, lowest, pos) /\ R[a] <= R[curMatch] /\ R[curMatch] <= R[b]
        <5>1. R \in [Nat -> Nat] /\ Sorted(R, lowest, pos)
          BY DEF Searches
        <5>2. R[a] \in Nat /\ R[curMatch] \in Nat /\ R[b] \in Nat
          BY <1>1, <1>2, <5>1
        <5>. QED  BY <3>2, <3>3, <5>1, <5>2
      <4>3. a \in lowest .. pos /\ b \in lowest .. pos /\ k <= Limit(pos)
        BY <1>1, <3>2, <3>3, <3>4, <3>5
      <4>. QED  BY <1>0, <1>1, <1>2, <3>6, <4>1, <4>2, <4>3, Convex
    <3>. QED  BY <1>1, <3>4, <3>5, <3>6, <3>7 DEF Same
  <2>. QED  BY <2>1, <2>2
<1>6. PICK n \in known .. lenLimit : /\ n = GetMatch(curMatch, pos, known, lenLimit) /\ Same(curMatch, pos, n)
                                     /\ n = lenLimit \/ Byte(curMatch, n) # Byte(pos, n)
  BY <1>1, <1>5, MatchIs
<1>7. len = n /\ n \in Nat /\ n <= lenLimit
  BY <1>1, <1>5, <1>6 DEF len
<1>. QED  BY <1>1, <1>3, <1>6, <1>7 DEF cur

\* One step of a search whose side is the right one.
LEMMA SearchStep ==
  ASSUME IInv, RootInv, running, NEW R, NEW x, Searches(R, x), curMatch \in lowest .. pos - 1,
         in' = in, pos' = pos, cyclicBufferPos' = cyclicBufferPos, hash' = hash, running' = running,
         NEW d \in {0, 1}, Side(d, R[curMatch], R[pos]), NEW k, k <= lenLimit, Same(curMatch, pos, k),
         d = 0 => /\ son' = [son EXCEPT ![ptr1] = curMatch] /\ ptr1' = Pair(curMatch) + 1
                  /\ curMatch' = son'[ptr1'] /\ len1' = k /\ ptr0' = ptr0 /\ len0' = len0,
         d = 1 => /\ son' = [son EXCEPT ![ptr0] = curMatch] /\ ptr0' = Pair(curMatch)
                  /\ curMatch' = son'[ptr0'] /\ len0' = k /\ ptr1' = ptr1 /\ len1' = len1,
         curMatch' \in Nat, curMatch' < curMatch, son' \in [0 .. 2 * Window - 1 -> Nat]
  PROVE  OrderInv' /\ RootInv' /\ Surpassed(curMatch, curMatch')
<1>0. TreeInv /\ running = TRUE /\ running' = TRUE
  BY DEF IInv, TreeInv
<1>1. /\ pos \in Nat /\ lowest \in Nat
      /\ \A m \in lowest .. pos : m \in Nat /\ pos - m \in 0 .. Window - 1
      /\ \A m \in Nat : Pair(m) = At(cyclicBufferPos, pos - m, 0) /\ Pair(m) + 1 = At(cyclicBufferPos, pos - m, 1)
      /\ cyclicBufferPos \in 0 .. Window - 1 /\ son \in [0 .. 2 * Window - 1 -> Nat]
  BY <1>0, WindowIs DEF TreeInv
<1>2. PICK c \in lowest .. pos - 1 : c = curMatch /\ c \in Nat /\ c \in lowest .. pos
  BY <1>1
<1>3. PICK e \in Nat : e = curMatch' /\ e < c
  BY <1>2
<1>4. /\ R \in [Nat -> Nat] /\ Bounded(R) /\ Sorted(R, lowest, pos) /\ Tied(R, lowest)
      /\ x \in [{0, 1} -> Nat] /\ SearchTree(R, Hashes, Sons, pos, lowest, c, x)
      /\ ptr1 = Place(x, 0) /\ ptr0 = Place(x, 1)
      /\ Agrees(x, 0, len1) /\ Agrees(x, 1, len0)
  <2>1. \A i \in {0, 1} : Agrees(x, i, lens(i))
    BY DEF Searches, SearchOrder
  <2>2. Agrees(x, 0, len1) /\ Agrees(x, 1, len0)
    BY <2>1 DEF lens
  <2>. QED  BY <1>2, <2>2 DEF Searches, SearchOrder
<1>5. x[d] \in lowest .. pos /\ x[d] > c
  BY <1>4 DEF SearchTree, Between
<1>6. son' = [son EXCEPT ![Place(x, d)] = c]
  BY <1>2, <1>4
<1>. DEFINE U == SonsAt(son', cyclicBufferPos, pos)
<1>7. Hung(Sons, U, pos, lowest, x, d, c)
  BY <1>0, <1>4, <1>5, <1>6, HungPlace
<1>8. U[1 - d][c] = Sons[1 - d][c]
  <2>1. c # x[d] /\ 1 - d \in {0, 1}
    BY <1>1, <1>2, <1>5
  <2>. HIDE DEF U
  <2>. QED  BY <1>2, <1>7, <2>1 DEF Hung
<1>9. e = U[1 - d][c]
  <2>1. CASE d = 0
    BY <1>1, <1>2, <1>3, <2>1 DEF SonsAt
  <2>2. CASE d = 1
    BY <1>1, <1>2, <1>3, <2>2 DEF SonsAt
  <2>. QED  BY <2>1, <2>2
<1>10. e = Sons[1 - d][c]
  BY <1>8, <1>9
<1>. HIDE DEF U
<1>11. OrderInv'
  <2>. DEFINE j == IF d = 0 THEN len0 ELSE len1
  <2>1. /\ d = 0 => ptr1' = Pair(c) + 1 /\ ptr0' = Place(x, 1) /\ len1' = k /\ len0' = j
        /\ d = 1 => ptr0' = Pair(c) /\ ptr1' = Place(x, 0) /\ len0' = k /\ len1' = j
        /\ Agrees(x, 1 - d, j)
    <3>1. CASE d = 0
      BY <1>2, <1>4, <3>1
    <3>2. CASE d = 1
      <4>1. 1 - d = 0 /\ j = len1
        BY <3>2
      <4>2. d # 0
        BY <3>2
      <4>. QED  BY <1>2, <1>4, <3>2, <4>1, <4>2
    <3>. QED  BY <3>1, <3>2
  <2>. HIDE DEF j
  <2>2. Side(d, R[c], R[pos]) /\ Same(c, pos, k) /\ curMatch' = e
    BY <1>2, <1>3
  <2>3. GoesDown(R, x, d, c, e, k, j)
    BY <1>3, <1>4, <1>6, <1>10, <2>1, <2>2 DEF GoesDown
  <2>. QED  BY <1>0, <2>3, DownOrder
<1>12. RootInv'
  <2>1. ASSUME NEW i \in 0 .. 2 * Window - 1 PROVE IsNode(son'[i])
    <3>1. IsNode(son[i]) /\ IsNode(c)
      BY <1>2 DEF RootInv
    <3>. QED  BY <1>1, <1>6, <3>1
  <2>2. IsNode(curMatch')
    <3>1. PICK i \in 0 .. 2 * Window - 1 : curMatch' = son'[i]
      <4>1. 1 - d \in {0, 1} /\ pos - c \in 0 .. Window - 1
        BY <1>1, <1>2
      <4>2. At(cyclicBufferPos, pos - c, 1 - d) \in 0 .. 2 * Window - 1
        BY <1>1, <4>1, Places
      <4>3. e = son'[At(cyclicBufferPos, pos - c, 1 - d)]
        BY <1>2, <1>9, <4>1 DEF U, SonsAt
      <4>. QED  BY <1>3, <4>2, <4>3
    <3>. QED  BY <2>1, <3>1
  <2>3. hash' \in [Buckets -> Nat] /\ hash'[HashAt(pos)] = pos
    BY <1>0 DEF TreeInv, RootInv
  <2>. QED  BY <1>0, <2>1, <2>2, <2>3, RunningRoot
<1>13. Surpassed(c, e)
  <2>1. TreeInv /\ R \in [Nat -> Nat] /\ Sorted(R, lowest, pos) /\ c \in lowest .. pos - 1
        /\ SearchTree(R, Hashes, Sons, pos, lowest, c, x)
    BY <1>0, <1>2, <1>4
  <2>2. d \in {0, 1} /\ Side(d, R[c], R[pos]) /\ e \in Nat /\ e = Sons[1 - d][c]
    BY <1>2, <1>10
  <2>. QED  BY <2>1, <2>2, PassedAgree
<1>. QED  BY <1>2, <1>3, <1>11, <1>12, <1>13

\* the functions for repetitions go on under the same conditions
LEMMA FastKept ==
  ASSUME FastInv, running, in' = in, pos' = pos, op' = op, rle_len' = rle_len, dist_258' = dist_258,
         maxLen' \in Nat, maxLen' >= maxLen, rle_len \in Nat, TreeInv
  PROVE  FastInv'
<1>1. PICK m \in Nat, n \in Nat : m = maxLen /\ n = maxLen' /\ m <= n
  BY DEF FastInv
<1>2. \A k : cur(k)' = cur(k)
  BY DEF cur, Byte
<1>3. Same(pos - dist_258, pos, MaxMatch)' <=> Same(pos - dist_258, pos, MaxMatch)
  BY DEF Same, Byte
<1>4. lenl' = lenl
  BY DEF lenl
<1>5. CASE op = "GetMatches2"
  <2>1. rle_len <= m => rle_len <= n
    BY <1>1
  <2>. QED  BY <1>1, <1>2, <1>4, <1>5, <2>1 DEF FastInv
<1>6. CASE op # "GetMatches2"
  BY <1>1, <1>3, <1>4, <1>6 DEF FastInv
<1>. QED  BY <1>5, <1>6

\* A step of a search keeps the trees sorted, and passes nothing that agrees further.
LEMMA DescendOrder ==
  ASSUME IInv, RootInv, OrderInv, FastInv, Descend
  PROVE  OrderInv' /\ RootInv' /\ FastInv' /\ Surpassed(curMatch, curMatch')
<1>1. KnownAhead
  BY KnownFound
<1>2. IInv' /\ curMatch' < curMatch
  BY <1>1, DescendInv
<1>3. running /\ running' = running /\ pos - curMatch < Window /\ len # lenLimit
  BY <1>1, InWindow DEF Descend, Searching, Full
<1>4. curMatch \in lowest .. pos - 1
  BY <1>3, NodeInWindow
<1>5. PICK R, x : Searches(R, x)
  BY <1>3, SearchExists
<1>6. /\ len \in Nat /\ len <= lenLimit /\ Same(curMatch, pos, len) /\ lenLimit \in Nat
      /\ len = lenLimit \/ Byte(curMatch, len) # cur(len)
      /\ HashAt(curMatch) = HashAt(pos)
  BY <1>3, <1>4, <1>5, Compared
<1>7. curMatch' \in Nat /\ son' \in [0 .. 2 * Window - 1 -> Nat]
  BY <1>2, <1>3 DEF IInv, SearchInv, TreeInv
<1>8. in' = in /\ pos' = pos /\ cyclicBufferPos' = cyclicBufferPos /\ hash' = hash
  BY DEF Descend
<1>9. OrderInv' /\ RootInv' /\ Surpassed(curMatch, curMatch')
  <2>. DEFINE d == IF Byte(curMatch, len) < cur(len) THEN 0 ELSE 1
              k == len
  <2>1. d \in {0, 1} /\ Side(d, R[curMatch], R[pos])
    <3>1. TreeInv /\ R \in [Nat -> Nat] /\ Sorted(R, lowest, pos)
      BY <1>5 DEF IInv, Searches
    <3>. QED  BY <1>3, <1>4, <1>6, <3>1, SideOfByte
  <2>2. d = 0 => /\ son' = [son EXCEPT ![ptr1] = curMatch] /\ ptr1' = Pair(curMatch) + 1
                 /\ curMatch' = son'[ptr1'] /\ len1' = k /\ ptr0' = ptr0 /\ len0' = len0
    BY DEF Descend
  <2>3. d = 1 => /\ son' = [son EXCEPT ![ptr0] = curMatch] /\ ptr0' = Pair(curMatch)
                 /\ curMatch' = son'[ptr0'] /\ len0' = k /\ ptr1' = ptr1 /\ len1' = len1
    BY DEF Descend
  <2>4. k <= lenLimit /\ Same(curMatch, pos, k)
    BY <1>6
  <2>. HIDE DEF d, k
  <2>. QED  BY <1>2, <1>3, <1>4, <1>5, <1>7, <1>8, <2>1, <2>2, <2>3, <2>4, SearchStep
<1>10. FastInv'
  <2>1. PICK m \in Nat, n \in Nat : m = maxLen /\ n = len
    BY <1>6 DEF FastInv
  <2>2. maxLen' = IF Better THEN n ELSE m
    BY <2>1 DEF Descend
  <2>3. Better => m < n
    BY <2>1 DEF Better
  <2>4. maxLen' \in Nat /\ maxLen' >= maxLen
    BY <2>1, <2>2, <2>3
  <2>. QED  BY <1>3, <2>4, FastKept DEF Descend, IInv, SearchInv
<1>. QED  BY <1>9, <1>10

\* What a repetition is followed by, where the next nodes are in it.
LEMMA DescendRle ==
  ASSUME IInv, RootInv, OrderInv, FastInv, Descend
  PROVE  RleInv'
<1>. USE SizesAssumption
<1>1. KnownAhead
  BY KnownFound
<1>2. IInv' /\ curMatch' < curMatch
  BY <1>1, DescendInv
<1>3. running /\ running' = running /\ pos - curMatch < Window /\ len # lenLimit /\ pos \in Nat /\ pos >= Window
  BY <1>1, InWindow DEF Descend, Searching, Full, IInv, TreeInv
<1>4. curMatch \in lowest .. pos - 1
  BY <1>3, NodeInWindow
<1>5. PICK R, x : Searches(R, x)
  BY <1>3, SearchExists
<1>6. /\ len \in Nat /\ len <= lenLimit /\ Same(curMatch, pos, len) /\ lenLimit \in Nat
      /\ Byte(curMatch, len) # cur(len)
  BY <1>3, <1>4, <1>5, Compared
<1>7. /\ curMatch' \in Nat /\ curMatch \in Nat /\ rle_len \in Nat /\ curMatch < pos
  BY <1>2, <1>3 DEF IInv, SearchInv
<1>8. /\ in' = in /\ pos' = pos /\ cyclicBufferPos' = cyclicBufferPos /\ hash' = hash /\ op' = op /\ rle_len' = rle_len
  BY DEF Descend
<1>. SUFFICES ASSUME curMatch' >= curMatch_rle' PROVE RleInv'
  BY DEF RleInv
<1>9. op = "GetMatches2" /\ RepeatedBefore > 0 /\ curMatch_rle' = curMatch - cnt /\ below' = (Byte(curMatch, len) < cur(0))
  <2>1. CASE op = "GetMatches2" /\ RepeatedBefore > 0
    BY <2>1 DEF Descend
  <2>2. CASE ~(op = "GetMatches2" /\ RepeatedBefore > 0)
    <3>1. curMatch_rle' = pos
      BY <2>2 DEF Descend
    <3>2. PICK n \in Nat : n = curMatch' /\ n < curMatch
      BY <1>2, <1>7
    <3>. QED  BY <1>3, <1>7, <3>1, <3>2
  <2>. QED  BY <2>1, <2>2
<1>10. PICK a \in Nat, b \in Nat, r \in Nat, c \in Nat, s \in Nat :
         a = curMatch /\ b = len /\ r = rle_len /\ c = RepeatedBefore /\ s = curMatch' /\ s < a
  <2>1. RepeatedBefore \in Nat
    BY <1>3, <1>6, <1>7, RepeatsInWindow
  <2>. QED  BY <1>2, <1>6, <1>7, <2>1
<1>11. \A i \in 1 .. c : Byte(a - i, 0) = cur(0)
  BY <1>3, <1>6, <1>7, <1>10, RepeatsInWindow
<1>12. PICK z \in Int : z = cnt /\ z <= c /\ z + b <= r - 1 /\ s >= a - z
  <2>1. cnt = IF c + b > r - 1 THEN r - 1 - b ELSE c
    BY <1>10 DEF cnt
  <2>2. PICK z \in Int : z = cnt /\ z <= c /\ z + b <= r - 1
    BY <2>1
  <2>3. s >= a - z
    BY <1>9, <1>10, <2>2
  <2>. QED  BY <2>2, <2>3
<1>13. \A k \in -1 .. r - 1 : cur(k) = cur(0)
  BY <1>3, <1>9, <1>10 DEF FastInv
<1>. DEFINE e == a + b
<1>14. ASSUME NEW n \in a - z .. s PROVE Repeats(n, e)'
  <2>1. e - n \in 0 .. r - 1 /\ b <= r - 1 /\ n \in Int /\ n < a
    BY <1>10, <1>12
  <2>2. ASSUME NEW k \in 0 .. e - n - 1 PROVE Byte(n, k) = cur(0)
    <3>1. CASE n + k < a
      <4>1. a - n - k \in 1 .. c
        BY <1>12, <2>1, <3>1
      <4>2. Byte(a - (a - n - k), 0) = cur(0)
        BY <1>11, <4>1
      <4>3. a - (a - n - k) - Window + 0 = n - Window + k
        BY <2>1
      <4>. QED  BY <4>2, <4>3 DEF Byte
    <3>2. CASE n + k >= a
      <4>1. PICK i \in 0 .. b - 1 : i = n + k - a /\ n - Window + k = a - Window + i
        BY <2>1, <3>2
      <4>2. Byte(a, i) = cur(i)
        BY <1>6, <1>10, <4>1 DEF Same, cur
      <4>3. cur(i) = cur(0)
        <5>1. i \in -1 .. r - 1
          BY <2>1, <4>1
        <5>. QED  BY <1>13, <5>1
      <4>4. Byte(n, k) = Byte(a, i)
        BY <4>1 DEF Byte
      <4>. QED  BY <4>2, <4>3, <4>4
    <3>. QED  BY <2>1, <3>1, <3>2
  <2>3. Byte(n, e - n) = Byte(a, b)
    <3>1. n - Window + (e - n) = a - Window + b
      BY <2>1
    <3>. QED  BY <3>1 DEF Byte
  <2>4. cur(b) = cur(0)
    <3>1. b \in -1 .. r - 1
      BY <2>1
    <3>. QED  BY <1>13, <3>1
  <2>5. /\ e - n \in 0 .. rle_len - 1
        /\ \A k \in 0 .. e - n - 1 : Byte(n, k) = cur(0)
        /\ Byte(n, e - n) # cur(0) /\ (below' <=> Byte(n, e - n) < cur(0))
    BY <1>6, <1>9, <1>10, <2>1, <2>2, <2>3, <2>4
  <2>6. \A k : Byte(n, k)' = Byte(n, k) /\ cur(k)' = cur(k)
    BY <1>8 DEF cur, Byte
  <2>. QED  BY <1>8, <2>5, <2>6 DEF Repeats
<1>15. (IF below' THEN len1' ELSE len0') + 1 <= e - s
  <2>1. cur(b) = cur(0)
    <3>1. b \in -1 .. r - 1
      BY <1>12, <1>10
    <3>. QED  BY <1>13, <3>1
  <2>2. IF below' THEN len1' = b ELSE len0' = b
    BY <1>9, <1>10, <2>1 DEF Descend
  <2>. QED  BY <1>10, <2>2
<1>. HIDE DEF e
<1>16. e \in Nat /\ below' \in BOOLEAN
  BY <1>9 DEF e
<1>17. \A n \in curMatch_rle' .. curMatch' : Repeats(n, e)'
  BY <1>9, <1>10, <1>12, <1>14
<1>. QED  BY <1>8, <1>9, <1>10, <1>15, <1>16, <1>17 DEF RleInv

\* A node in a repetition is on the side of the one before it, and agrees in one byte more.
LEMMA DescendRepeatedOrder ==
  ASSUME IInv, RootInv, OrderInv, FastInv, RleInv, DescendRepeated
  PROVE  /\ OrderInv' /\ RootInv' /\ FastInv' /\ RleInv' /\ Surpassed(curMatch, curMatch')
         /\ op = "GetMatches2" /\ \E h : AgreesOnly(curMatch, h) /\ h < maxLen
<1>. USE SizesAssumption
<1>1. IInv' /\ curMatch' < curMatch
  BY DescendRepeatedInv
<1>2. running /\ running' = running /\ curMatch >= curMatch_rle /\ pos \in Nat
  BY DEF DescendRepeated, IInv, TreeInv
<1>3. /\ curMatch' \in Nat /\ curMatch \in Nat /\ rle_len \in Nat /\ curMatch < pos /\ len0 \in Nat /\ len1 \in Nat
      /\ curMatch_rle \in Int /\ pos - Window < curMatch_rle /\ son' \in [0 .. 2 * Window - 1 -> Nat] /\ TreeInv
  BY <1>1, <1>2 DEF IInv, SearchInv, TreeInv
<1>4. curMatch \in lowest .. pos - 1
  <2>1. pos - curMatch < Window
    BY <1>2, <1>3
  <2>. QED  BY <1>2, <2>1, NodeInWindow
<1>5. PICK R, x : Searches(R, x)
  BY <1>2, SearchExists
<1>6. /\ in' = in /\ pos' = pos /\ cyclicBufferPos' = cyclicBufferPos /\ hash' = hash /\ op' = op
      /\ rle_len' = rle_len /\ curMatch_rle' = curMatch_rle /\ below' = below /\ maxLen' = maxLen /\ dist_258' = dist_258
  BY DEF DescendRepeated, repetition
<1>7. op = "GetMatches2" /\ below \in BOOLEAN
  BY <1>2 DEF RleInv
<1>8. PICK e \in Nat : /\ \A n \in curMatch_rle .. curMatch : Repeats(n, e)
                       /\ (IF below THEN len1 ELSE len0) + 1 <= e - curMatch
  BY <1>2 DEF RleInv
<1>9. PICK h \in Nat, a \in Nat, r \in Nat : h = e - curMatch /\ a = curMatch /\ r = rle_len /\ h < r
  <2>1. curMatch \in curMatch_rle .. curMatch
    BY <1>2, <1>3
  <2>2. e - curMatch \in 0 .. rle_len - 1
    BY <1>8, <2>1 DEF Repeats
  <2>. QED  BY <1>3, <2>2
<1>10. /\ \A k \in 0 .. h - 1 : Byte(a, k) = cur(0)
       /\ Byte(a, h) # cur(0) /\ (below <=> Byte(a, h) < cur(0))
  <2>1. curMatch \in curMatch_rle .. curMatch
    BY <1>2, <1>3
  <2>2. Repeats(curMatch, e)
    BY <1>8, <2>1
  <2>. QED  BY <1>9, <2>2 DEF Repeats
<1>11. /\ \A k \in -1 .. r - 1 : cur(k) = cur(0)
       /\ r < MaxMatch /\ lenl >= MaxMatch
  BY <1>2, <1>7, <1>9 DEF FastInv
<1>12. cur(h) = cur(0) /\ Same(a, pos, h)
  <2>1. \A k \in 0 .. h : k \in -1 .. r - 1
    BY <1>9
  <2>2. \A k \in 0 .. h - 1 : Byte(a, k) = Byte(pos, k)
    BY <1>10, <1>11, <2>1 DEF cur
  <2>3. h \in 0 .. h
    OBVIOUS
  <2>. QED  BY <1>11, <2>1, <2>2, <2>3 DEF Same
<1>13. h < lenLimit /\ lenLimit \in Nat
  <2>1. lenl \in Nat
    BY <1>3, RepeatedIsNat
  <2>. QED  BY <1>9, <1>11, <2>1 DEF lenLimit, Least
<1>14. HashAt(a) = HashAt(pos)
  BY <1>2, <1>4, <1>5, <1>9, Compared
<1>15. OrderInv' /\ RootInv' /\ Surpassed(curMatch, curMatch')
  <2>. DEFINE d == IF below THEN 0 ELSE 1
              k == (IF below THEN len1 ELSE len0) + 1
  <2>1. d \in {0, 1} /\ Side(d, R[curMatch], R[pos])
    <3>1. R \in [Nat -> Nat] /\ Sorted(R, lowest, pos)
      BY <1>5 DEF Searches
    <3>2. Side(IF Byte(a, h) < cur(h) THEN 0 ELSE 1, R[a], R[pos])
      BY <1>3, <1>4, <1>9, <1>10, <1>12, <1>13, <1>14, <3>1, SideOfByte
    <3>. QED  BY <1>9, <1>10, <1>12, <3>2
  <2>2. d = 0 => /\ son' = [son EXCEPT ![ptr1] = curMatch] /\ ptr1' = Pair(curMatch) + 1
                 /\ curMatch' = son'[ptr1'] /\ len1' = k /\ ptr0' = ptr0 /\ len0' = len0
    BY DEF DescendRepeated
  <2>3. d = 1 => /\ son' = [son EXCEPT ![ptr0] = curMatch] /\ ptr0' = Pair(curMatch)
                 /\ curMatch' = son'[ptr0'] /\ len0' = k /\ ptr1' = ptr1 /\ len1' = len1
    BY DEF DescendRepeated
  <2>4. k <= lenLimit /\ Same(curMatch, pos, k)
    <3>1. k \in Nat /\ k <= h
      BY <1>3, <1>8, <1>9
    <3>. HIDE DEF k
    <3>2. k <= lenLimit /\ \A j \in 0 .. k - 1 : j \in 0 .. h - 1
      BY <1>13, <3>1
    <3>. QED  BY <1>9, <1>12, <3>2 DEF Same
  <2>. HIDE DEF d, k
  <2>. QED  BY <1>1, <1>2, <1>3, <1>4, <1>5, <1>6, <2>1, <2>2, <2>3, <2>4, SearchStep
<1>16. FastInv'
  <2>1. maxLen \in Nat
    BY DEF FastInv
  <2>2. maxLen' \in Nat /\ maxLen' >= maxLen
    BY <1>6, <2>1
  <2>. QED  BY <1>2, <1>3, <1>6, <2>2, FastKept
<1>17. RleInv'
  <2>. SUFFICES ASSUME curMatch' >= curMatch_rle' PROVE RleInv'
    BY DEF RleInv
  <2>1. PICK s \in Nat : s = curMatch' /\ s < a
    BY <1>1, <1>3, <1>9
  <2>2. \A n \in curMatch_rle .. s : n \in curMatch_rle .. curMatch
    BY <1>3, <1>9, <2>1
  <2>3. \A n : Repeats(n, e)' <=> Repeats(n, e)
    BY <1>6 DEF Repeats, cur, Byte
  <2>4. \A n \in curMatch_rle' .. curMatch' : Repeats(n, e)'
    BY <1>6, <1>8, <2>1, <2>2, <2>3
  <2>5. (IF below' THEN len1' ELSE len0') + 1 <= e - curMatch'
    <3>1. CASE below
      <4>1. len1' = len1 + 1 /\ len1 + 1 <= e - curMatch
        BY <1>8, <3>1 DEF DescendRepeated
      <4>2. PICK k \in Nat : k = len1 /\ k + 1 <= e - curMatch
        BY <1>3, <4>1
      <4>3. e \in Nat /\ s \in Nat /\ s < curMatch /\ curMatch \in Nat
        BY <1>3, <1>8, <1>9, <2>1
      <4>4. k + 1 + 1 <= e - s
        BY <4>2, <4>3
      <4>. QED  BY <1>6, <2>1, <3>1, <4>1, <4>2, <4>4
    <3>2. CASE ~below
      <4>1. len0' = len0 + 1 /\ len0 + 1 <= e - curMatch
        BY <1>8, <3>2 DEF DescendRepeated
      <4>2. PICK k \in Nat : k = len0 /\ k + 1 <= e - curMatch
        BY <1>3, <4>1
      <4>3. e \in Nat /\ s \in Nat /\ s < curMatch /\ curMatch \in Nat
        BY <1>3, <1>8, <1>9, <2>1
      <4>4. k + 1 + 1 <= e - s
        BY <4>2, <4>3
      <4>. QED  BY <1>6, <2>1, <3>2, <4>1, <4>2, <4>4
    <3>. QED  BY <3>1, <3>2
  <2>. QED  BY <1>6, <1>7, <2>4, <2>5 DEF RleInv
<1>18. AgreesOnly(curMatch, h) /\ h < maxLen
  <2>1. PICK m \in Nat : m = maxLen /\ r <= m
    BY <1>2, <1>7, <1>9 DEF FastInv
  <2>2. h < maxLen
    BY <1>9, <2>1
  <2>3. h \in 0 .. lenLimit
    BY <1>13
  <2>. QED  BY <1>9, <1>10, <1>12, <2>2, <2>3 DEF AgreesOnly
<1>. QED  BY <1>7, <1>15, <1>16, <1>17, <1>18

\* Nodes beyond the window are not needed.
LEMMA LeaveOrder ==
  ASSUME IInv, RootInv, OrderInv, FastInv, Leave
  PROVE  OrderInv' /\ RootInv' /\ FastInv' /\ RleInv'
<1>. USE SizesAssumption
<1>1. running /\ OutOfWindow /\ in' = in /\ hash' = hash /\ MOVE_POS /\ running' = FALSE /\ maxLen' = maxLen
      /\ son' = [son EXCEPT ![ptr0] = 0, ![ptr1] = 0]
  BY DEF Leave, Searching, MOVE_POS
<1>2. KnownAhead
  BY KnownFound
<1>3. IInv'
  BY <1>2, StopInv
<1>4. /\ TreeInv /\ son' \in [0 .. 2 * Window - 1 -> Nat] /\ curMatch \in Nat /\ curMatch < pos
      /\ pos \in Nat /\ hash \in [Buckets -> Nat] /\ son \in [0 .. 2 * Window - 1 -> Nat]
  BY <1>1, <1>3 DEF IInv, TreeInv, SearchInv
<1>5. curMatch < lowest
  BY <1>1, <1>4, NodeInWindow DEF OutOfWindow, delta
<1>6. PICK R, x : Searches(R, x)
  BY <1>1, SearchExists
<1>7. OrderInv'
  <2>1. /\ R \in [Nat -> Nat] /\ Bounded(R) /\ Sorted(R, lowest, pos) /\ x \in [{0, 1} -> Nat]
        /\ SearchTree(R, Hashes, Sons, pos, lowest, curMatch, x)
        /\ son' = [son EXCEPT ![Place(x, 1)] = 0, ![Place(x, 0)] = 0]
    BY <1>1, <1>6 DEF Searches, SearchOrder
  <2>. QED  BY <1>1, <1>4, <1>5, <2>1, LeftOrder
<1>8. RootInv'
  <2>1. ASSUME NEW i \in 0 .. 2 * Window - 1 PROVE IsNode(son'[i])
    <3>1. IsNode(son[i]) /\ IsNode(0)
      BY DEF RootInv, IsNode
    <3>. QED  BY <1>1, <1>4, <3>1
  <2>2. hash' \in [Buckets -> Nat] /\ hash'[HashAt(pos)] = pos
    BY <1>1, <1>4 DEF RootInv
  <2>. QED  BY <1>1, <1>4, <2>1, <2>2, MovedRoot
<1>. QED  BY <1>1, <1>7, <1>8 DEF FastInv, RleInv

\* A node that agrees in all that is left ranks as the new one.
LEMMA TieIsNode ==
  ASSUME IInv, running, NEW R, NEW x, Searches(R, x), curMatch \in lowest .. pos - 1, IsTie(curMatch)
  PROVE  R[curMatch] = R[pos]
<1>1. pos \in Nat /\ lowest \in Nat
  BY WindowIs DEF IInv
<1>2. PICK t \in curMatch .. pos - 1 : HashAt(t) = HashAt(pos) /\ R[t] = R[pos]
  BY DEF Searches, Tied
<1>3. t = curMatch
  <2>1. SUFFICES ASSUME t > curMatch PROVE FALSE
    BY <1>1
  <2>2. t \in lowest .. pos - 1 /\ t \in Nat
    BY <1>1
  <2>3. Hashes[t] = Hashes[pos]
    BY <1>1, <1>2, <2>2 DEF Hashes
  <2>. QED  BY <1>2, <2>1, <2>2, <2>3 DEF Searches, SearchOrder, SearchTree
<1>. QED  BY <1>2, <1>3

\* The new node takes the place of one that is no longer needed.
LEMMA ReplaceOrder ==
  ASSUME IInv, RootInv, OrderInv, FastInv, Replace
  PROVE  OrderInv' /\ RootInv' /\ FastInv' /\ RleInv'
<1>. USE SizesAssumption
<1>1. /\ running /\ ~OutOfWindow /\ (AtKnown \/ Full) /\ in' = in /\ hash' = hash /\ MOVE_POS /\ running' = FALSE
      /\ maxLen' = maxLen /\ son' = [son EXCEPT ![ptr1] = son[Pair(curMatch)], ![ptr0] = son[Pair(curMatch) + 1]]
  BY DEF Replace, Searching, MOVE_POS, TakeOver
<1>2. KnownAhead
  BY KnownFound
<1>3. IInv'
  BY <1>2, StopInv
<1>4. /\ TreeInv /\ son' \in [0 .. 2 * Window - 1 -> Nat] /\ curMatch \in Nat /\ curMatch < pos
      /\ pos \in Nat /\ hash \in [Buckets -> Nat] /\ son \in [0 .. 2 * Window - 1 -> Nat]
  BY <1>1, <1>3 DEF IInv, TreeInv, SearchInv
<1>5. curMatch \in lowest .. pos - 1
  <2>1. pos - curMatch < Window
    BY <1>1, <1>2, InWindow
  <2>. QED  BY <1>1, <2>1, NodeInWindow
<1>6. PICK R, x : Searches(R, x)
  BY <1>1, SearchExists
<1>7. IsTie(curMatch)
  <2>1. HashAt(curMatch) = HashAt(pos) /\ Same(curMatch, pos, len) /\ lenLimit \in Nat
    BY <1>1, <1>5, <1>6, Compared
  <2>2. CASE Full
    BY <2>1, <2>2 DEF Full, IsTie
  <2>3. CASE AtKnown
    <3>1. op = "GetMatches3" /\ curMatch = pos - dist_258 /\ Same(pos - dist_258, pos, MaxMatch) /\ lenl >= MaxMatch
      <4>1. op = "GetMatches3" /\ pos - curMatch = dist_258
        BY <2>3 DEF AtKnown, delta
      <4>. QED  BY <1>1, <1>4, <4>1 DEF FastInv
    <3>2. lenLimit = MaxMatch
      <4>1. lenl \in Nat
        BY <1>4, RepeatedIsNat
      <4>. QED  BY <3>1, <4>1 DEF lenLimit, Least
    <3>. QED  BY <2>1, <3>1, <3>2 DEF IsTie
  <2>. QED  BY <1>1, <2>2, <2>3
<1>8. R[curMatch] = R[pos]
  BY <1>1, <1>5, <1>6, <1>7, TieIsNode
<1>9. OrderInv'
  <2>1. /\ R \in [Nat -> Nat] /\ Bounded(R) /\ Sorted(R, lowest, pos) /\ x \in [{0, 1} -> Nat]
        /\ SearchTree(R, Hashes, Sons, pos, lowest, curMatch, x)
        /\ son' = [son EXCEPT ![Place(x, 0)] = son[Pair(curMatch)], ![Place(x, 1)] = son[Pair(curMatch) + 1]]
    BY <1>1, <1>6 DEF Searches, SearchOrder
  <2>. QED  BY <1>1, <1>4, <1>5, <1>8, <2>1, ReplacedOrder
<1>10. RootInv'
  <2>1. IsNode(son[Pair(curMatch)]) /\ IsNode(son[Pair(curMatch) + 1])
    <3>1. \A m \in lowest .. pos : m \in Nat /\ pos - m \in 0 .. Window - 1
      BY <1>4, WindowIs
    <3>2. cyclicBufferPos \in 0 .. Window - 1 /\ pos - curMatch \in 0 .. Window - 1
      BY <1>4, <1>5, <3>1 DEF TreeInv
    <3>3. \A b \in {0, 1} : At(cyclicBufferPos, pos - curMatch, b) \in 0 .. 2 * Window - 1
      BY <3>2, Places
    <3>4. Pair(curMatch) = At(cyclicBufferPos, pos - curMatch, 0) /\ Pair(curMatch) + 1 = At(cyclicBufferPos, pos - curMatch, 1)
      BY <1>4, WindowIs
    <3>. QED  BY <3>3, <3>4 DEF RootInv
  <2>2. ASSUME NEW i \in 0 .. 2 * Window - 1 PROVE IsNode(son'[i])
    <3>1. IsNode(son[i])
      BY DEF RootInv
    <3>. QED  BY <1>1, <1>4, <2>1, <3>1
  <2>3. hash' \in [Buckets -> Nat] /\ hash'[HashAt(pos)] = pos
    BY <1>1, <1>4 DEF RootInv
  <2>. QED  BY <1>1, <1>4, <2>2, <2>3, MovedRoot
<1>. QED  BY <1>1, <1>9, <1>10 DEF FastInv, RleInv

-----------------------------------------------------------------------------
(* The calls *)

\* When the bytes repeat, the position before is the newest of its bucket.
LEMMA RepetitionIs ==
  ASSUME IInv, RootInv, ~running, Repeated >= MinMatch
  PROVE  /\ Repeated \in Nat /\ Repeated <= lenLimit /\ lenLimit \in Nat
         /\ pos - 1 \in lowest .. pos - 1 /\ pos - 1 \in Nat /\ hash[HashAt(pos)] = pos - 1
         /\ HashAt(pos - 1) = HashAt(pos) /\ Same(pos - 1, pos, Repeated)
         /\ Repeated = lenLimit \/ Byte(pos - 1, Repeated) # cur(Repeated)
<1>. USE SizesAssumption
<1>1. TreeInv /\ pos \in Nat /\ pos >= Window /\ lenLimit \in Nat
  BY WindowIs DEF IInv
<1>2. pos # Window
  BY DEF Repeated
<1>3. PICK q \in Nat : q = pos - 1 /\ q >= Window /\ q < pos /\ pos - q < Window
  BY <1>1, <1>2
<1>4. Same(pos, q, 0)
  BY DEF Same
<1>5. PICK n \in 0 .. lenLimit : /\ n = Repeated /\ Same(pos, q, n)
                                 /\ n = lenLimit \/ Byte(pos, n) # Byte(q, n)
  <2>1. \E n \in 0 .. lenLimit : /\ n = GetMatch(pos, q, 0, lenLimit) /\ Same(pos, q, n)
                                 /\ n = lenLimit \/ Byte(pos, n) # Byte(q, n)
    BY <1>1, <1>4, MatchIs
  <2>. QED  BY <1>2, <1>3, <2>1 DEF Repeated
<1>6. HashAt(q) = HashAt(pos)
  <2>1. 0 \in 0 .. n - 1 /\ 1 \in 0 .. n - 1 /\ 2 \in 0 .. n - 1
    BY <1>5
  <2>2. Byte(q, 0) = Byte(pos, 0) /\ Byte(q, 1) = Byte(pos, 1) /\ Byte(q, 2) = Byte(pos, 2)
    BY <1>5, <2>1 DEF Same
  <2>. QED  BY <2>2 DEF HashAt
<1>7. q >= lowest /\ lowest \in Nat
  BY <1>1, <1>3, LowIs DEF lowest
<1>8. hash[HashAt(pos)] = q
  <2>1. q \in lowest .. pos - 1
    BY <1>1, <1>3, <1>7
  <2>2. q <= hash[HashAt(pos)]
    BY <1>6, <2>1 DEF RootInv
  <2>3. HashAt(pos) \in Buckets
    BY <1>1, Bucket DEF TreeInv
  <2>4. hash[HashAt(pos)] < pos /\ hash[HashAt(pos)] \in Nat
    BY <1>1, <2>3 DEF TreeInv
  <2>. QED  BY <1>1, <1>3, <2>2, <2>4
<1>9. Same(q, pos, n)
  BY <1>5 DEF Same
<1>. QED  BY <1>1, <1>3, <1>5, <1>6, <1>7, <1>8, <1>9 DEF cur

\* A repetition of all that is left: the new node takes the place of the one before at once.
LEMMA AtOnce ==
  ASSUME IInv, RootInv, OrderInv, ~running, Repeated >= MinMatch, Repeated = lenLimit, NEW f, Call(f), MOVE_POS,
         son' = [son EXCEPT ![Own] = son[Pair(pos - 1)], ![Own + 1] = son[Pair(pos - 1) + 1]], IInv'
  PROVE  OrderInv' /\ RootInv'
<1>. USE SizesAssumption
<1>1. /\ TreeInv /\ pos \in Nat /\ pos >= Window /\ lowest \in Nat /\ cyclicBufferPos \in 0 .. Window - 1
      /\ \A m \in lowest .. pos : m \in Nat /\ pos - m \in 0 .. Window - 1
      /\ son' \in [0 .. 2 * Window - 1 -> Nat] /\ hash \in [Buckets -> Nat] /\ son \in [0 .. 2 * Window - 1 -> Nat]
  BY WindowIs DEF IInv, TreeInv
<1>2. in' = in /\ hash' = [hash EXCEPT ![HashAt(pos)] = pos]
  BY DEF Call
<1>3. PICK q \in lowest .. pos - 1 : q = pos - 1 /\ q \in Nat /\ hash[HashAt(pos)] = q /\ IsTie(q)
  BY RepetitionIs DEF IsTie
<1>4. PICK S \in [Nat -> Nat] : \E x : AtRoot(S, x)
  BY RootOrder
<1>5. PICK x \in [{0, 1} -> Nat] : AtRoot(S, x)
  BY <1>4 DEF AtRoot
<1>6. OrderInv'
  <2>1. /\ x[0] = pos /\ x[1] = pos /\ Bounded(S) /\ Sorted(S, lowest, pos) /\ Tied(S, lowest)
        /\ SearchTree(S, Hashes, Sons, pos, lowest, q, x)
    BY <1>3, <1>5 DEF AtRoot
  <2>2. S[q] = S[pos]
    <3>1. PICK t \in q .. pos - 1 : HashAt(t) = HashAt(pos) /\ S[t] = S[pos]
      BY <1>3, <2>1 DEF Tied
    <3>2. t = q
      BY <1>1, <1>3
    <3>. QED  BY <3>1, <3>2
  <2>3. Place(x, 0) = Own /\ Place(x, 1) = Own + 1
    BY <1>1, <2>1, RootPlaces
  <2>4. son' = [son EXCEPT ![Place(x, 0)] = son[Pair(q)], ![Place(x, 1)] = son[Pair(q) + 1]]
    BY <1>3, <2>3
  <2>. QED  BY <1>1, <1>2, <2>1, <2>2, <2>4, ReplacedOrder
<1>7. RootInv'
  <2>1. IsNode(son[Pair(q)]) /\ IsNode(son[Pair(q) + 1])
    <3>1. q \in lowest .. pos
      BY <1>1, <1>3
    <3>2. \A b \in {0, 1} : At(cyclicBufferPos, pos - q, b) \in 0 .. 2 * Window - 1
      BY <1>1, <3>1, Places
    <3>3. Pair(q) = At(cyclicBufferPos, pos - q, 0) /\ Pair(q) + 1 = At(cyclicBufferPos, pos - q, 1)
      BY <1>1, <1>3, WindowIs
    <3>. QED  BY <3>2, <3>3 DEF RootInv
  <2>2. ASSUME NEW i \in 0 .. 2 * Window - 1 PROVE IsNode(son'[i])
    <3>1. IsNode(son[i]) /\ son' = [son EXCEPT ![Own] = son[Pair(q)], ![Own + 1] = son[Pair(q) + 1]]
      BY <1>3 DEF RootInv
    <3>. QED  BY <1>1, <2>1, <3>1
  <2>3. HashAt(pos) \in Buckets
    BY <1>1, Bucket DEF TreeInv
  <2>4. /\ hash' \in [Buckets -> Nat] /\ hash'[HashAt(pos)] = pos
        /\ \A h \in Buckets : h # HashAt(pos) => hash'[h] = hash[h]
    BY <1>1, <1>2, <2>3
  <2>. QED  BY <1>1, <1>2, <2>2, <2>4, MovedRoot
<1>. QED  BY <1>6, <1>7

\* what repeats is one byte
LEMMA OneByte ==
  ASSUME pos \in Nat, NEW r \in Nat, r > 0, Same(pos - 1, pos, r)
  PROVE  \A k \in -1 .. r - 1 : cur(k) = cur(0)
<1>. DEFINE T == {j \in 0 .. r : cur(j - 1) # cur(0)}
<1>1. ASSUME NEW j \in 0 .. r - 1 PROVE cur(j - 1) = cur(j)
  <2>1. Byte(pos - 1, j) = Byte(pos, j)
    BY DEF Same
  <2>2. pos - 1 - Window + j = pos - Window + (j - 1)
    BY SizesAssumption
  <2>3. Byte(pos - 1, j) = Byte(pos, j - 1)
    BY <2>2 DEF Byte
  <2>. QED  BY <2>1, <2>3 DEF cur
<1>2. T = {}
  <2>1. SUFFICES ASSUME T # {} PROVE FALSE
    OBVIOUS
  <2>2. PICK j \in T : \A i \in T : j <= i
    <3>1. T \subseteq Nat
      OBVIOUS
    <3>. HIDE DEF T
    <3>. QED  BY <2>1, <3>1, LeastExists
  <2>3. j # 0
    <3>1. 0 \in 0 .. r - 1
      OBVIOUS
    <3>2. cur(0 - 1) = cur(0)
      BY <1>1, <3>1
    <3>. QED  BY <2>2, <3>2
  <2>4. PICK i \in 0 .. r - 1 : i = j - 1
    BY <2>2, <2>3
  <2>5. i \notin T
    BY <2>2, <2>4
  <2>6. cur(i - 1) = cur(0) /\ cur(i - 1) = cur(i)
    BY <1>1, <2>5
  <2>. QED  BY <2>2, <2>4, <2>6
<1>3. ASSUME NEW k \in -1 .. r - 1 PROVE cur(k) = cur(0)
  <2>1. PICK j \in 0 .. r : j - 1 = k
    <3>1. k + 1 \in 0 .. r /\ (k + 1) - 1 = k
      OBVIOUS
    <3>. QED  BY <3>1
  <2>2. j \notin T
    BY <1>2
  <2>. QED  BY <2>1, <2>2
<1>. QED  BY <1>3

\* A repetition that is not all that is left: the search begins at the position before.
LEMMA RepetitionOrder ==
  ASSUME IInv, RootInv, OrderInv, GetMatches2, Repeated # lenLimit
  PROVE  OrderInv' /\ RootInv' /\ FastInv' /\ RleInv' /\ Surpassed(pos - 1, curMatch') /\ curMatch' < pos - 1
<1>. USE SizesAssumption
<1>1. /\ ~running /\ Repeated >= MinMatch /\ lenl >= MaxMatch /\ in' = in /\ op' = "GetMatches2" /\ running' = TRUE
      /\ hash' = [hash EXCEPT ![HashAt(pos)] = pos] /\ pos' = pos /\ cyclicBufferPos' = cyclicBufferPos
      /\ rle_len' = Repeated /\ maxLen' = Repeated /\ curMatch_rle' = pos
  BY DEF GetMatches2, Call
<1>2. /\ TreeInv /\ pos \in Nat /\ pos >= Window /\ lowest \in Nat /\ cyclicBufferPos \in 0 .. Window - 1
      /\ \A m \in lowest .. pos : m \in Nat /\ pos - m \in 0 .. Window - 1
      /\ hash \in [Buckets -> Nat] /\ son \in [0 .. 2 * Window - 1 -> Nat] /\ lenLimit <= MaxMatch
  BY WindowIs DEF IInv, TreeInv
<1>3. PICK q \in lowest .. pos - 1, r \in Nat :
        /\ q = pos - 1 /\ q \in Nat /\ hash[HashAt(pos)] = q /\ HashAt(q) = HashAt(pos) /\ r = Repeated /\ r < lenLimit
        /\ Same(q, pos, r) /\ Byte(q, r) # cur(r) /\ r >= MinMatch /\ lenLimit \in Nat
  BY <1>1, RepetitionIs
<1>4. PICK S \in [Nat -> Nat] : \E x : AtRoot(S, x)
  BY <1>1, RootOrder
<1>5. PICK x \in [{0, 1} -> Nat] : AtRoot(S, x)
  BY <1>4 DEF AtRoot
<1>6. /\ x[0] = pos /\ x[1] = pos /\ Bounded(S) /\ Sorted(S, lowest, pos) /\ Tied(S, lowest)
      /\ SearchTree(S, Hashes, Sons, pos, lowest, q, x)
  BY <1>3, <1>5 DEF AtRoot
<1>7. Place(x, 0) = Own /\ Place(x, 1) = Own + 1
  BY <1>2, <1>6, RootPlaces
<1>. DEFINE d == IF Byte(q, r) < cur(r) THEN 0 ELSE 1
<1>8. d \in {0, 1} /\ Side(d, S[q], S[pos])
  BY <1>2, <1>3, <1>6, SideOfByte
<1>9. Byte(q, r) = cur(r - 1)
  <2>1. q - Window + r = pos - Window + (r - 1)
    BY <1>2, <1>3
  <2>. QED  BY <2>1 DEF Byte, cur
<1>10. /\ d = 0 => /\ son' = [son EXCEPT ![Own] = q] /\ ptr1' = Pair(q) + 1 /\ ptr0' = Own + 1
                   /\ curMatch' = son[Pair(q) + 1] /\ len1' = r /\ len0' = 0
       /\ d = 1 => /\ son' = [son EXCEPT ![Own + 1] = q] /\ ptr0' = Pair(q) /\ ptr1' = Own
                   /\ curMatch' = son[Pair(q)] /\ len0' = r /\ len1' = 0
  BY <1>1, <1>3, <1>9 DEF GetMatches2
<1>. HIDE DEF d
<1>11. PICK b \in {0, 1} : b = 1 - d
  BY <1>8
<1>12. Pair(q) = At(cyclicBufferPos, 1, 0) /\ Pair(q) + 1 = At(cyclicBufferPos, 1, 1)
  <2>1. pos - q = 1
    BY <1>2, <1>3
  <2>. QED  BY <1>2, <1>3, <2>1, WindowIs
<1>13. curMatch' = son[At(cyclicBufferPos, 1, b)]
  BY <1>8, <1>10, <1>11, <1>12
<1>14. At(cyclicBufferPos, 1, b) \in 0 .. 2 * Window - 1 /\ 1 \in 0 .. Window - 1
  <2>1. 1 \in 0 .. Window - 1
    OBVIOUS
  <2>. QED  BY <1>2, <2>1, Places
<1>15. curMatch' \in Nat /\ curMatch' < q /\ IsNode(curMatch')
  <2>1. IsSon(At(cyclicBufferPos, 1, b), cyclicBufferPos, 1)
    <3>1. PICK u \in 0 .. Window - 1 : u = Slot(cyclicBufferPos, 1)
      BY <1>2, <1>14, SlotIs
    <3>. QED  BY <3>1 DEF At, IsSon
  <2>2. son[At(cyclicBufferPos, 1, b)] < pos - 1
    BY <1>2, <1>14, <2>1 DEF TreeInv, SonsBack
  <2>. QED  BY <1>2, <1>3, <1>13, <1>14, <2>2 DEF RootInv
<1>16. Sons[1 - d][q] = curMatch'
  <2>1. pos - q = 1
    BY <1>2, <1>3
  <2>2. Sons[b][q] = son[At(cyclicBufferPos, pos - q, b)]
    BY <1>3 DEF Sons, SonsAt
  <2>. QED  BY <1>11, <1>13, <2>1, <2>2
<1>17. OrderInv'
  <2>1. PICK e \in Nat : e = curMatch' /\ e < q /\ e = Sons[1 - d][q]
    BY <1>15, <1>16
  <2>2. Agrees(x, 1 - d, 0)
    BY <1>6, <1>11 DEF Agrees
  <2>3. r <= lenLimit
    BY <1>3
  <2>4. /\ d = 0 => ptr1' = Pair(q) + 1 /\ ptr0' = Place(x, 1) /\ len1' = r /\ len0' = 0
        /\ d = 1 => ptr0' = Pair(q) /\ ptr1' = Place(x, 0) /\ len0' = r /\ len1' = 0
        /\ son' = [son EXCEPT ![Place(x, d)] = q]
    BY <1>7, <1>8, <1>10
  <2>5. S \in [Nat -> Nat] /\ x \in [{0, 1} -> Nat] /\ q \in lowest .. pos - 1 /\ Same(q, pos, r)
    BY <1>3, <1>4, <1>5
  <2>6. GoesDown(S, x, d, q, e, r, 0)
    BY <1>6, <1>8, <2>1, <2>2, <2>3, <2>4, <2>5 DEF GoesDown
  <2>. QED  BY <1>1, <1>2, <2>6, DownOrder
<1>18. RootInv'
  <2>1. ASSUME NEW i \in 0 .. 2 * Window - 1 PROVE IsNode(son'[i])
    <3>1. IsNode(q) /\ IsNode(son[i])
      <4>1. q >= Window
        BY <1>2, <1>3, LowIs DEF lowest
      <4>. QED  BY <4>1 DEF RootInv, IsNode
    <3>. QED  BY <1>2, <1>8, <1>10, <3>1
  <2>2. HashAt(pos) \in Buckets
    BY <1>2, Bucket DEF TreeInv
  <2>3. /\ hash' \in [Buckets -> Nat] /\ hash'[HashAt(pos)] = pos
        /\ \A h \in Buckets : h # HashAt(pos) => hash'[h] = hash[h]
    BY <1>1, <1>2, <2>2
  <2>. QED  BY <1>1, <1>2, <1>15, <2>1, <2>3, RunningRoot
<1>19. FastInv'
  <2>1. \A k \in -1 .. r - 1 : cur(k) = cur(0)
    <3>1. Same(pos - 1, pos, r) /\ r > 0
      BY <1>3
    <3>. QED  BY <1>2, <3>1, OneByte
  <2>2. \A k : cur(k)' = cur(k)
    BY <1>1 DEF cur, Byte
  <2>3. lenl' >= MaxMatch
    BY <1>1 DEF lenl
  <2>4. r < MaxMatch
    BY <1>2, <1>3
  <2>5. rle_len' = r /\ maxLen' = r
    BY <1>1, <1>3
  <2>. QED  BY <1>1, <1>3, <2>1, <2>2, <2>3, <2>4, <2>5 DEF FastInv
<1>20. RleInv'
  BY <1>1, <1>2, <1>3, <1>15 DEF RleInv
<1>21. Surpassed(q, curMatch')
  BY <1>2, <1>6, <1>8, <1>15, <1>16, PassedAgree
<1>. QED  BY <1>3, <1>15, <1>17, <1>18, <1>19, <1>20, <1>21

\* A call that searches from the root.
LEMMA StartJoint ==
  ASSUME JInv, GetMatches \/ Skip \/ GetMatches3
  PROVE  JInv'
<1>. USE SizesAssumption
<1>1. IInv /\ RootInv /\ OrderInv /\ IInv' /\ TreeInv
  BY CallInv DEF JInv, IInv
<1>2. PICK f, d : /\ Start(f, d) /\ ~running /\ f # "GetMatches2"
                  /\ f = "GetMatches3" => /\ lenl >= MaxMatch /\ d \in 1 .. Least(Window - 1, pos - Window)
                                          /\ GetMatch(pos, pos - d, 0, MaxMatch) = MaxMatch
  BY DEF GetMatches, Skip, GetMatches3, Start, Call
<1>3. OrderInv' /\ RootInv'
  BY <1>1, <1>2, StartOrder
<1>4. /\ in' = in /\ pos' = pos /\ running' = TRUE /\ op' = f /\ maxLen' = 2 /\ dist_258' = d
      /\ curMatch' = hash[HashAt(pos)] /\ curMatch_rle' = pos
  BY <1>2 DEF Start, Call
<1>5. FastInv'
  <2>1. lenl' = lenl /\ maxLen' \in Nat
    BY <1>4 DEF lenl
  <2>2. CASE f # "GetMatches3"
    BY <1>2, <1>4, <2>1, <2>2 DEF FastInv
  <2>3. CASE f = "GetMatches3"
    <3>1. PICK q \in Nat : q = pos - d /\ d \in 1 .. pos - Window
      BY <1>1, <1>2, <2>3 DEF Least, TreeInv
    <3>2. Same(pos, q, 0)
      BY DEF Same
    <3>3. Same(pos, q, MaxMatch)
      <4>1. \E n \in 0 .. MaxMatch : /\ n = GetMatch(pos, q, 0, MaxMatch) /\ Same(pos, q, n)
                                     /\ n = MaxMatch \/ Byte(pos, n) # Byte(q, n)
        BY <3>2, MatchIs
      <4>. QED  BY <1>2, <2>3, <3>1, <4>1
    <3>4. Same(pos - d, pos, MaxMatch)
      BY <3>1, <3>3 DEF Same
    <3>5. \A m, n : Same(m, n, MaxMatch)' <=> Same(m, n, MaxMatch)
      BY <1>4 DEF Same, Byte
    <3>6. Same(pos - dist_258, pos, MaxMatch)' <=> Same(pos - d, pos, MaxMatch)
      BY <1>4 DEF Same, Byte
    <3>. QED  BY <1>2, <1>4, <2>1, <2>3, <3>1, <3>4, <3>6 DEF FastInv
  <2>. QED  BY <2>2, <2>3
<1>6. RleInv'
  <2>1. HashAt(pos) \in Buckets
    BY <1>1, Bucket DEF TreeInv
  <2>2. hash[HashAt(pos)] < pos /\ hash[HashAt(pos)] \in Nat /\ pos \in Nat
    BY <1>1, <1>2, <2>1 DEF TreeInv
  <2>. QED  BY <1>4, <2>2 DEF RleInv
<1>. QED  BY <1>1, <1>3, <1>5, <1>6 DEF JInv

\* A call for a repetition.
LEMMA RepetitionJoint ==
  ASSUME JInv, Skip2 \/ GetMatches2
  PROVE  JInv'
<1>. USE SizesAssumption
<1>1. IInv /\ RootInv /\ OrderInv /\ FastInv /\ IInv' /\ TreeInv
  BY Skip2Inv, GetMatches2Inv DEF JInv, IInv
<1>2. ~running /\ Repeated \in Nat
  BY <1>1, RepeatedIsNat DEF Skip2, GetMatches2, Call
<1>3. CASE Skip2
  <2>1. /\ Call("Skip2") /\ MOVE_POS /\ Repeated = MaxMatch /\ maxLen' = maxLen
        /\ son' = [son EXCEPT ![Own] = son[Pair(pos - 1)], ![Own + 1] = son[Pair(pos - 1) + 1]]
    BY <1>3 DEF Skip2
  <2>2. Repeated >= MinMatch /\ Repeated = lenLimit
    <3>1. Repeated <= lenLimit /\ lenLimit <= MaxMatch /\ lenLimit \in Nat /\ Repeated >= MinMatch
      BY <1>1, <1>2, <2>1, WindowIs, RepetitionIs
    <3>. QED  BY <2>1, <3>1
  <2>3. OrderInv' /\ RootInv'
    BY <1>1, <1>2, <2>1, <2>2, AtOnce
  <2>. QED  BY <1>1, <2>1, <2>3 DEF JInv, FastInv, RleInv, MOVE_POS
<1>4. CASE GetMatches2 /\ Repeated = lenLimit
  <2>1. /\ Call("GetMatches2") /\ MOVE_POS /\ Repeated >= MinMatch /\ maxLen' = Repeated
        /\ son' = [son EXCEPT ![Own] = son[Pair(pos - 1)], ![Own + 1] = son[Pair(pos - 1) + 1]]
    BY <1>4 DEF GetMatches2
  <2>2. OrderInv' /\ RootInv'
    BY <1>1, <1>2, <1>4, <2>1, AtOnce
  <2>. QED  BY <1>1, <1>2, <2>1, <2>2 DEF JInv, FastInv, RleInv, MOVE_POS
<1>5. CASE GetMatches2 /\ Repeated # lenLimit
  BY <1>1, <1>5, RepetitionOrder DEF JInv
<1>. QED  BY <1>3, <1>4, <1>5

\* The trees are empty at first.
LEMMA InitJoint ==
  ASSUME Init
  PROVE  JInv
<1>. USE SizesAssumption
<1>1. IInv /\ TreeInv /\ ~running /\ maxLen \in Nat
  BY InitInv DEF IInv, Init
<1>2. pos = Window /\ lowest = Window /\ son = [k \in 0 .. 2 * Window - 1 |-> 0] /\ hash = [h \in Buckets |-> 0]
  BY DEF Init, lowest, Low
<1>3. OrderInv
  <2>. DEFINE R == [n \in Nat |-> 0]
  <2>1. R \in [Nat -> Nat] /\ Bounded(R)
    BY DEF Bounded
  <2>. HIDE DEF R
  <2>2. \A m : m \notin lowest .. pos - 1
    BY <1>2
  <2>3. Sorted(R, lowest, pos - 1) /\ Tree(R, Hashes, Sons, pos, lowest)
    BY <2>2 DEF Sorted, Tree
  <2>. QED  BY <1>1, <2>1, <2>3 DEF OrderInv, Ordered
<1>4. RootInv
  <2>1. \A m : m \notin lowest .. pos - 1
    BY <1>2
  <2>. QED  BY <1>1, <1>2, <2>1 DEF RootInv, IsNode
<1>. QED  BY <1>1, <1>3, <1>4 DEF JInv, FastInv, RleInv

\* Nothing changes.
LEMMA SameJoint ==
  ASSUME JInv, UNCHANGED vars
  PROVE  JInv'
<1>1. /\ in' = in /\ pos' = pos /\ cyclicBufferPos' = cyclicBufferPos /\ hash' = hash /\ son' = son /\ op' = op
      /\ running' = running /\ curMatch' = curMatch /\ ptr0' = ptr0 /\ ptr1' = ptr1 /\ len0' = len0 /\ len1' = len1
      /\ maxLen' = maxLen /\ dist_258' = dist_258 /\ rle_len' = rle_len /\ curMatch_rle' = curMatch_rle /\ below' = below
  BY DEF vars, tree, path, repetition
<1>2. TreeInv' <=> TreeInv
  BY <1>1 DEF TreeInv, SonsBack, lenl
<1>3. SearchInv' <=> SearchInv
  BY <1>1 DEF SearchInv, Newer
<1>4. /\ \A n, k : Byte(n, k)' = Byte(n, k)
      /\ \A R, lo, hi : Sorted(R, lo, hi)' <=> Sorted(R, lo, hi)
      /\ Hashes' = Hashes /\ \A n : HashAt(n)' = HashAt(n)
  BY <1>1, SameWords
<1>5. lowest' = lowest /\ lenLimit' = lenLimit /\ Sons' = Sons /\ lenl' = lenl
  BY <1>1 DEF lowest, Low, lenLimit, lenl, Sons, SonsAt
<1>6. \A R, x : SearchOrder(R, x)' <=> SearchOrder(R, x)
  BY <1>1, <1>4, <1>5 DEF SearchOrder, Place, Agrees, lens, Same
<1>7. \A R, lo : Tied(R, lo)' <=> Tied(R, lo)
  BY <1>1, <1>4, <1>5 DEF Tied, IsTie, Same
<1>8. OrderInv' <=> OrderInv
  BY <1>1, <1>4, <1>5, <1>6, <1>7 DEF OrderInv, Ordered
<1>9. RootInv' <=> RootInv
  BY <1>1, <1>4, <1>5 DEF RootInv
<1>10. FastInv' <=> FastInv
  BY <1>1, <1>4, <1>5 DEF FastInv, Same, cur
<1>11. RleInv' <=> RleInv
  BY <1>1, <1>4 DEF RleInv, Repeats, cur
<1>. QED  BY <1>2, <1>3, <1>8, <1>9, <1>10, <1>11 DEF JInv, IInv

\* Each step keeps the whole of it.
LEMMA StepJoint ==
  ASSUME JInv, [Next]_vars
  PROVE  JInv'
<1>1. IInv /\ RootInv /\ OrderInv /\ FastInv /\ RleInv /\ KnownAhead
  BY KnownFound DEF JInv
<1>2. IInv'
  BY <1>1, StepInv
<1>3. CASE GetMatches \/ Skip \/ GetMatches3
  BY <1>3, StartJoint
<1>4. CASE Skip2 \/ GetMatches2
  BY <1>4, RepetitionJoint
<1>5. CASE Leave
  BY <1>1, <1>2, <1>5, LeaveOrder DEF JInv
<1>6. CASE Replace
  BY <1>1, <1>2, <1>6, ReplaceOrder DEF JInv
<1>7. CASE Descend
  BY <1>1, <1>2, <1>7, DescendOrder, DescendRle DEF JInv
<1>8. CASE DescendRepeated
  BY <1>1, <1>2, <1>8, DescendRepeatedOrder DEF JInv
<1>9. CASE AtEnd \/ UNCHANGED vars
  BY <1>9, SameJoint DEF AtEnd
<1>. QED  BY <1>3, <1>4, <1>5, <1>6, <1>7, <1>8, <1>9 DEF Next

\* In every state there are ranks of the positions, consistent with the bytes, by
\* which the tree of each bucket is sorted; during a call it is so but for the two
\* places, and what is known to agree at each does.
THEOREM SortedTrees == Spec => []JInv
<1>1. Init => JInv
  BY InitJoint
<1>2. JInv /\ [Next]_vars => JInv'
  BY StepJoint
<1>. QED  BY <1>1, <1>2, PTL DEF Spec

\* GetMatches3, which does not look at the window, never passes the match that it
\* was promised ("assumes a ZOPFLI_MAX_MATCH len match is available", LzFind.c:358).
THEOREM MeetsItsMatch == Spec => []KnownAhead
<1>1. JInv => KnownAhead
  BY KnownFound DEF JInv
<1>. QED  BY <1>1, SortedTrees, PTL

\* The sons of a node are older than the node, also across the places that the
\* cyclic buffer reuses.
THEOREM OlderBelow == Spec => []IInv
<1>1. JInv => IInv
  BY DEF JInv
<1>. QED  BY <1>1, SortedTrees, PTL

\* The loops of GetMatches, GetMatches2, GetMatches3 and Skip go on with an older
\* node each time, with every input, hash and size of the window, so that they
\* end, and pos - curMatch never wraps.
THEOREM SearchGoesBack == Spec => GoesBack
<1>1. ASSUME IInv, KnownAhead, [Next]_vars
      PROVE  [running /\ running' => curMatch' < curMatch]_vars
  BY <1>1, StepInv
<1>. QED  BY <1>1, OlderBelow, MeetsItsMatch, PTL DEF Spec, GoesBack
-----------------------------------------------------------------------------
(* The report *)

\* of L[d], how far the bytes d before agree: where it is greater than nearer by
Best(L, N) == {d \in 1 .. N : L[d] >= MinMatch /\ \A e \in 1 .. d - 1 : L[e] < L[d]}
\* what the report says
Told(ds) == {ds[k] : k \in DOMAIN ds}
\* from the nearest on
Increasing(ds) == \A j, k \in DOMAIN ds : j < k => ds[j][2] < ds[k][2]

\* The report ds is right for the distances below c, among which m is the greatest length.
ReportOf(L, N, ds, c, m) ==
  /\ ds \in Seq(Nat \X Nat) /\ Told(ds) = {<<L[d], d>> : d \in {e \in Best(L, N) : e < c}} /\ Increasing(ds)
  /\ \A e \in 1 .. N : e < c => L[e] <= m
  /\ m \in Nat /\ m >= 2 /\ (m = 2 \/ \E e \in 1 .. N : e < c /\ L[e] = m)

\* nothing from a to b is longer than m
NoLonger(L, N, a, b, m) == \A e \in 1 .. N : e >= a /\ e < b => L[e] <= m

\* at first nothing is seen
LEMMA EmptyReport ==
  ASSUME NEW N \in Nat, NEW L \in [1 .. N -> Nat]
  PROVE  ReportOf(L, N, <<>>, 1, 2)
<1>1. <<>> \in Seq(Nat \X Nat) /\ Told(<<>>) = {} /\ Increasing(<<>>)
  BY DEF Told, Increasing
<1>2. {e \in Best(L, N) : e < 1} = {}
  BY DEF Best
<1>. QED  BY <1>1, <1>2 DEF ReportOf

\* what is no longer is not reported
LEMMA ReportGoesOn ==
  ASSUME NEW N \in Nat, NEW L \in [1 .. N -> Nat], NEW ds, NEW a \in Nat, NEW b \in Nat, NEW m, a <= b,
         ReportOf(L, N, ds, a, m), NoLonger(L, N, a, b, m)
  PROVE  ReportOf(L, N, ds, b, m)
<1>1. ASSUME NEW e \in 1 .. N, e < b PROVE L[e] <= m
  BY <1>1 DEF ReportOf, NoLonger
<1>2. ASSUME NEW d \in Best(L, N), d < b PROVE d < a
  <2>1. SUFFICES ASSUME d >= a PROVE FALSE
    BY DEF Best
  <2>2. d \in 1 .. N /\ L[d] >= 3 /\ \A e \in 1 .. d - 1 : L[e] < L[d]
    BY SizesAssumption DEF Best
  <2>3. L[d] <= m /\ L[d] \in Nat
    BY <1>1, <1>2, <2>2
  <2>4. m \in Nat /\ (m = 2 \/ \E e \in 1 .. N : e < a /\ L[e] = m)
    BY DEF ReportOf
  <2>5. PICK e \in 1 .. N : e < a /\ L[e] = m
    BY <2>2, <2>3, <2>4
  <2>6. e \in 1 .. d - 1
    BY <2>1, <2>2, <2>5
  <2>. QED  BY <2>2, <2>3, <2>4, <2>5, <2>6
<1>3. {e \in Best(L, N) : e < a} = {e \in Best(L, N) : e < b}
  <2>1. \A e \in Best(L, N) : e < a => e < b
    BY DEF Best
  <2>. QED  BY <1>2, <2>1
<1>4. \A e \in 1 .. N : e < a => e < b
  OBVIOUS
<1>. QED  BY <1>1, <1>3, <1>4 DEF ReportOf

\* what is longer is
LEMMA ReportLonger ==
  ASSUME NEW N \in Nat, NEW L \in [1 .. N -> Nat], NEW ds, NEW c \in 1 .. N, NEW m, NEW k, k = L[c], m < k,
         ReportOf(L, N, ds, c, m)
  PROVE  ReportOf(L, N, Append(ds, <<k, c>>), c + 1, k)
<1>. DEFINE s == Append(ds, <<k, c>>)
<1>1. m \in Nat /\ m >= 2 /\ k \in Nat /\ ds \in Seq(Nat \X Nat) /\ c \in Nat
  BY DEF ReportOf
<1>2. ASSUME NEW e \in 1 .. N, e < c + 1 PROVE L[e] <= k
  <2>1. CASE e = c
    BY <1>1, <2>1
  <2>2. CASE e # c
    <3>1. L[e] <= m /\ L[e] \in Nat
      BY <1>2, <2>2 DEF ReportOf
    <3>. QED  BY <1>1, <3>1
  <2>. QED  BY <2>1, <2>2
<1>3. c \in Best(L, N)
  <2>1. L[c] >= 3
    BY <1>1
  <2>2. ASSUME NEW e \in 1 .. c - 1 PROVE L[e] < L[c]
    <3>1. e \in 1 .. N /\ e < c
      OBVIOUS
    <3>2. L[e] <= m /\ L[e] \in Nat
      BY <3>1 DEF ReportOf
    <3>. QED  BY <1>1, <3>2
  <2>. QED  BY <2>1, <2>2, SizesAssumption DEF Best
<1>4. {e \in Best(L, N) : e < c + 1} = {e \in Best(L, N) : e < c} \cup {c}
  <2>1. \A e \in Best(L, N) : e < c + 1 <=> e < c \/ e = c
    BY DEF Best
  <2>. QED  BY <1>3, <2>1
<1>5. /\ s \in Seq(Nat \X Nat) /\ Len(ds) \in Nat /\ DOMAIN ds = 1 .. Len(ds) /\ DOMAIN s = 1 .. Len(ds) + 1
      /\ \A i \in 1 .. Len(ds) : s[i] = ds[i]
      /\ s[Len(ds) + 1] = <<k, c>>
  <2>1. <<k, c>> \in Nat \X Nat
    BY <1>1
  <2>. QED  BY <1>1, <2>1, AppendProperties, LenProperties
<1>. HIDE DEF s
<1>6. Told(s) = Told(ds) \cup {<<k, c>>}
  <2>1. \A i : i \in DOMAIN s <=> i \in DOMAIN ds \/ i = Len(ds) + 1
    BY <1>5
  <2>2. \A i \in DOMAIN ds : s[i] = ds[i]
    BY <1>5
  <2>. QED  BY <1>5, <2>1, <2>2 DEF Told
<1>7. Told(s) = {<<L[d], d>> : d \in {e \in Best(L, N) : e < c + 1}}
  <2>1. Told(ds) = {<<L[d], d>> : d \in {e \in Best(L, N) : e < c}}
    BY DEF ReportOf
  <2>. QED  BY <1>4, <1>6, <2>1
<1>8. Increasing(s)
  <2>. SUFFICES ASSUME NEW i \in DOMAIN s, NEW j \in DOMAIN s, i < j PROVE s[i][2] < s[j][2]
    BY DEF Increasing
  <2>1. i \in DOMAIN ds /\ s[i] = ds[i]
    <3>1. PICK n \in Nat : n = Len(ds)
      BY <1>5
    <3>2. i \in 1 .. n + 1 /\ j \in 1 .. n + 1
      BY <1>5, <3>1
    <3>3. i \in 1 .. n
      BY <3>1, <3>2
    <3>. QED  BY <1>5, <3>1, <3>3
  <2>2. CASE j \in DOMAIN ds
    BY <1>5, <2>1, <2>2 DEF ReportOf, Increasing
  <2>3. CASE j \notin DOMAIN ds
    <3>1. j = Len(ds) + 1 /\ s[j] = <<k, c>>
      BY <1>5, <2>3
    <3>2. ds[i] \in Told(ds)
      BY <2>1 DEF Told
    <3>3. PICK d \in Best(L, N) : d < c /\ ds[i] = <<L[d], d>>
      BY <3>2 DEF ReportOf
    <3>. QED  BY <2>1, <3>1, <3>3
  <2>. QED  BY <2>2, <2>3
<1>9. k >= 2 /\ c < c + 1
  BY <1>1
<1>. QED  BY <1>1, <1>2, <1>5, <1>7, <1>8, <1>9 DEF ReportOf, s

\* the same while the call lasts
LEMMA SameLengths ==
  ASSUME in' = in, pos' = pos
  PROVE  Reach' = Reach /\ Lengths' = Lengths /\ lenLimit' = lenLimit
<1>1. Reach' = Reach /\ lenLimit' = lenLimit
  BY DEF Reach, lenLimit, lenl
<1>2. ASSUME NEW d PROVE Length(pos, d)' = Length(pos, d)
  BY DEF Length, GetMatch, Byte
<1>. QED  BY <1>1, <1>2 DEF Lengths

\* the report of the call that runs
Reports(ds, c, m) == ReportOf(Lengths, Reach, ds, c, m)

\* The report is right up to the node that is looked at, and not at an end.
ReportInv == running /\ op # "Skip" => Reports(distances, delta, maxLen) /\ maxLen < lenLimit

\* the report after a step from the node n to the node e
LEMMA ReportedStep ==
  ASSUME TreeInv, NEW n \in lowest .. pos - 1, NEW c, c = pos - n, NEW ds, NEW m, Reports(ds, c, m),
         NEW e \in Nat, e < n, NEW b, b = pos - e, Surpassed(n, e), NEW k, k = Lengths[c]
  PROVE  /\ m < k => Reports(Append(ds, <<k, c>>), b, k)
         /\ ~(m < k) => Reports(ds, b, m)
<1>. DEFINE L == Lengths
            N == Reach
<1>1. /\ pos \in Nat /\ lowest \in Nat /\ N \in Nat /\ L \in [1 .. N -> Nat] /\ MinMatch = 3
      /\ \A d \in 1 .. N : pos - d \in lowest .. pos - 1 /\ pos - (pos - d) = d
  BY LengthsAre, WindowIs, SizesAssumption DEF TreeInv
<1>2. n \in Nat /\ c \in 1 .. N /\ k \in Nat /\ m \in Nat /\ m >= 2
  <2>1. LengthOf(n)
    BY LengthsAre
  <2>. QED  BY <1>1, <2>1 DEF LengthOf, Reports, ReportOf
<1>3. ASSUME NEW w \in Nat, w >= m, w >= k PROVE NoLonger(L, N, c + 1, b, w)
  <2>. SUFFICES ASSUME NEW d \in 1 .. N, d >= c + 1, d < b, ~(L[d] <= w) PROVE FALSE
    BY DEF NoLonger
  <2>1. PICK q \in lowest .. pos - 1 : q = pos - d /\ pos - q = d /\ q > e
    BY <1>1, <1>2
  <2>2. PICK i \in Nat : i = L[d] /\ i > w /\ i >= 3
    BY <1>1, <1>2, <1>3
  <2>3. i \in 0 .. lenLimit /\ Same(q, pos, i)
    <3>1. LengthOf(q)
      BY LengthsAre
    <3>2. lenLimit \in Nat
      BY WindowIs
    <3>. QED  BY <2>1, <2>2, <3>1, <3>2 DEF LengthOf
  <2>4. PICK y \in lowest .. pos - 1 : y >= n /\ Same(y, pos, i)
    BY <1>1, <2>1, <2>2, <2>3 DEF Surpassed
  <2>5. PICK f \in 1 .. N : f = pos - y /\ f <= c /\ i <= L[f]
    <3>1. LengthOf(y)
      BY LengthsAre
    <3>2. pos - y \in 1 .. N /\ i <= L[pos - y]
      BY <2>3, <2>4, <3>1 DEF LengthOf
    <3>3. pos - y <= c
      BY <1>1, <1>2, <2>4
    <3>. QED  BY <3>2, <3>3
  <2>6. L[f] <= w
    <3>1. CASE f = c
      BY <1>2, <1>3, <3>1
    <3>2. CASE f < c
      <4>1. L[f] <= m /\ L[f] \in Nat
        BY <1>1, <3>2 DEF Reports, ReportOf
      <4>. QED  BY <1>2, <1>3, <4>1
    <3>. QED  BY <1>2, <2>5, <3>1, <3>2
  <2>. QED  BY <1>1, <2>2, <2>5, <2>6
<1>4. c + 1 \in Nat /\ b \in Nat /\ c + 1 <= b /\ c \in Nat /\ c <= b
  BY <1>1, <1>2
<1>5. ASSUME m < k PROVE Reports(Append(ds, <<k, c>>), b, k)
  <2>1. ReportOf(L, N, ds, c, m)
    BY DEF Reports
  <2>2. NoLonger(L, N, c + 1, b, k)
    BY <1>2, <1>3, <1>5
  <2>3. k = L[c]
    OBVIOUS
  <2>. HIDE DEF L, N
  <2>4. ReportOf(L, N, Append(ds, <<k, c>>), c + 1, k)
    BY <1>1, <1>2, <1>5, <2>1, <2>3, ReportLonger
  <2>5. PICK a \in Nat : a = c + 1
    BY <1>4
  <2>6. ReportOf(L, N, Append(ds, <<k, c>>), b, k)
    BY <1>1, <1>4, <2>2, <2>4, <2>5, ReportGoesOn
  <2>. QED  BY <2>6 DEF Reports, L, N
<1>6. ASSUME ~(m < k) PROVE Reports(ds, b, m)
  <2>1. ReportOf(L, N, ds, c, m)
    BY DEF Reports
  <2>2. NoLonger(L, N, c, b, m)
    <3>1. NoLonger(L, N, c + 1, b, m)
      BY <1>2, <1>3, <1>6
    <3>2. ASSUME NEW d \in 1 .. N, d >= c, d < b PROVE L[d] <= m
      <4>1. CASE d = c
        BY <1>2, <1>6, <4>1
      <4>2. CASE d # c
        BY <1>2, <3>1, <3>2, <4>2 DEF NoLonger
      <4>. QED  BY <4>1, <4>2
    <3>. QED  BY <3>2 DEF NoLonger
  <2>. HIDE DEF L, N
  <2>3. ReportOf(L, N, ds, b, m)
    BY <1>1, <1>4, <2>1, <2>2, ReportGoesOn
  <2>. QED  BY <2>3 DEF Reports, L, N
<1>. QED  BY <1>5, <1>6

\* what ReportsNearest says of the position p
Right(ds, p) ==
  /\ {ds[k] : k \in DOMAIN ds} = {<<Length(p, d), d>> : d \in Nearest(p)}
  /\ \A j, k \in DOMAIN ds : j < k => ds[j][2] < ds[k][2]

\* it says so after the call
LEMMA RightKept ==
  ASSUME in' = in, NEW p, p = pos' - 1, NEW ds, ds = distances', Right(ds, p)
  PROVE  ReportsNearest'
<1>1. \A d : Length(pos - 1, d)' = Length(p, d)
  BY DEF Length, GetMatch, Byte
<1>2. Nearest(pos - 1)' = Nearest(p)
  BY <1>1 DEF Nearest
<1>. QED  BY <1>1, <1>2 DEF ReportsNearest, Right

\* when the window was searched
LEMMA AllReported ==
  ASSUME TreeInv, NEW ds, NEW b, NEW m, Reports(ds, b, m), \A d \in 1 .. Reach : d < b
  PROVE  Right(ds, pos)
<1>1. Reach \in Nat /\ \A d \in 1 .. Reach : Lengths[d] = Length(pos, d)
  BY LengthsAre DEF Lengths
<1>2. Nearest(pos) = Best(Lengths, Reach)
  <2>1. ASSUME NEW d \in 1 .. Reach, NEW e \in 1 .. d - 1 PROVE Lengths[e] = Length(pos, e)
    BY <1>1
  <2>. QED  BY <1>1, <2>1 DEF Nearest, Best, Reach
<1>3. {e \in Best(Lengths, Reach) : e < b} = Best(Lengths, Reach)
  BY DEF Best
<1>4. {<<Lengths[d], d>> : d \in Best(Lengths, Reach)} = {<<Length(pos, d), d>> : d \in Best(Lengths, Reach)}
  BY <1>1 DEF Best
<1>. QED  BY <1>2, <1>3, <1>4 DEF Reports, ReportOf, Told, Increasing, Right

\* a search from the root
LEMMA StartReport ==
  ASSUME IInv, RootInv, GetMatches \/ GetMatches3
  PROVE  ReportInv'
<1>. USE SizesAssumption
<1>1. /\ TreeInv /\ ~running /\ in' = in /\ pos' = pos /\ curMatch' = hash[HashAt(pos)] /\ maxLen' = 2 /\ distances' = <<>>
      /\ (lenl >= MinMatch \/ lenl >= MaxMatch)
  BY DEF GetMatches, GetMatches3, Start, Call, IInv
<1>2. pos \in Nat /\ lowest \in Nat /\ lenLimit > 2
  <2>1. lenl \in Nat
    BY <1>1, RepeatedIsNat
  <2>2. PICK n \in Nat : n = lenl /\ n >= 3
    BY <1>1, <2>1
  <2>3. lenLimit > 2
    BY <2>2 DEF lenLimit, Least
  <2>. QED  BY <1>1, <2>3, WindowIs
<1>3. PICK h \in Nat : h = hash[HashAt(pos)] /\ h < pos
  <2>1. HashAt(pos) \in Buckets
    BY <1>1, Bucket DEF TreeInv
  <2>. QED  BY <1>1, <2>1 DEF TreeInv
<1>4. PICK b \in Nat : b = pos - h /\ 1 <= b
  BY <1>2, <1>3
<1>5. ASSUME NEW d \in 1 .. Reach, d < b PROVE Lengths[d] <= 2
  <2>1. PICK n \in lowest .. pos - 1 : n = pos - d /\ pos - n = d /\ n > h
    <3>1. pos - d \in lowest .. pos - 1 /\ pos - (pos - d) = d /\ Reach \in Nat
      BY <1>1, LengthsAre
    <3>2. pos - d > h
      BY <1>2, <1>3, <1>4, <1>5, <3>1
    <3>. QED  BY <3>1, <3>2
  <2>2. HashAt(n) # HashAt(pos)
    <3>1. n <= hash[HashAt(n)]
      BY DEF RootInv
    <3>. QED  BY <1>2, <1>3, <2>1, <3>1
  <2>3. ~Same(n, pos, 3)
    <3>1. SUFFICES ASSUME Same(n, pos, 3) PROVE FALSE
      OBVIOUS
    <3>2. 0 \in 0 .. 3 - 1 /\ 1 \in 0 .. 3 - 1 /\ 2 \in 0 .. 3 - 1
      OBVIOUS
    <3>3. Byte(n, 0) = Byte(pos, 0) /\ Byte(n, 1) = Byte(pos, 1) /\ Byte(n, 2) = Byte(pos, 2)
      BY <3>1, <3>2 DEF Same
    <3>. QED  BY <2>2, <3>3 DEF HashAt
  <2>4. LengthOf(n)
    BY <1>1, LengthsAre
  <2>5. 3 \in 0 .. lenLimit
    BY <1>1, <1>2, WindowIs
  <2>. QED  BY <2>1, <2>3, <2>4, <2>5 DEF LengthOf
<1>6. Reports(<<>>, b, 2)
  <2>. DEFINE L == Lengths
              N == Reach
  <2>1. N \in Nat /\ L \in [1 .. N -> Nat]
    BY <1>1, LengthsAre
  <2>2. NoLonger(L, N, 1, b, 2)
    BY <1>5 DEF NoLonger
  <2>. HIDE DEF L, N
  <2>3. ReportOf(L, N, <<>>, 1, 2)
    BY <2>1, EmptyReport
  <2>4. ReportOf(L, N, <<>>, b, 2)
    BY <1>4, <2>1, <2>2, <2>3, ReportGoesOn
  <2>. QED  BY <2>4 DEF Reports, L, N
<1>7. Reach' = Reach /\ Lengths' = Lengths /\ lenLimit' = lenLimit /\ delta' = b
  BY <1>1, <1>3, <1>4, SameLengths DEF delta
<1>. QED  BY <1>1, <1>2, <1>6, <1>7 DEF ReportInv, Reports

\* one step of a search
LEMMA DescendReport ==
  ASSUME JInv, ReportInv, Descend
  PROVE  ReportInv'
<1>1. IInv /\ RootInv /\ OrderInv /\ FastInv /\ TreeInv /\ KnownAhead
  BY KnownFound DEF JInv, IInv
<1>2. /\ running /\ in' = in /\ pos' = pos /\ op' = op /\ pos - curMatch < Window /\ len # lenLimit
  BY <1>1, InWindow DEF Descend, Searching, Full
<1>3. curMatch \in lowest .. pos - 1
  BY <1>1, <1>2, NodeInWindow
<1>4. curMatch' \in Nat /\ curMatch' < curMatch /\ Surpassed(curMatch, curMatch')
  <2>1. IInv' /\ curMatch' < curMatch
    BY <1>1, DescendInv
  <2>2. running'
    BY <1>2 DEF Descend
  <2>. QED  BY <1>1, <2>1, <2>2, DescendOrder DEF IInv, SearchInv
<1>5. AgreesOnly(curMatch, len) /\ len < lenLimit
  <2>1. PICK R, x : Searches(R, x)
    BY <1>1, <1>2, SearchExists
  <2>2. /\ len \in Nat /\ len <= lenLimit /\ Same(curMatch, pos, len) /\ lenLimit \in Nat
        /\ len = lenLimit \/ Byte(curMatch, len) # cur(len)
    BY <1>1, <1>2, <1>3, <2>1, Compared
  <2>. QED  BY <1>2, <2>2 DEF AgreesOnly
<1>6. PICK k \in Nat : k = len /\ k = Lengths[delta]
  <2>1. Lengths[pos - curMatch] = len /\ len \in Nat
    <3>1. len \in 0 .. lenLimit
      BY <1>5 DEF AgreesOnly
    <3>. QED  BY <1>1, <1>3, <1>5, <3>1, LengthIs
  <2>. QED  BY <2>1 DEF delta
<1>7. SUFFICES ASSUME op # "Skip" PROVE Reports(distances', delta', maxLen') /\ maxLen' < lenLimit
  <2>1. Reach' = Reach /\ Lengths' = Lengths /\ lenLimit' = lenLimit
    BY <1>2, SameLengths
  <2>. QED  BY <1>2, <1>7, <2>1 DEF ReportInv, Reports
<1>8. Reports(distances, delta, maxLen) /\ maxLen < lenLimit
  BY <1>2, <1>7 DEF ReportInv
<1>9. /\ maxLen < k => Reports(Append(distances, <<k, delta>>), delta', k)
      /\ ~(maxLen < k) => Reports(distances, delta', maxLen)
  <2>1. delta = pos - curMatch /\ delta' = pos - curMatch'
    BY <1>2 DEF delta
  <2>2. PICK n \in lowest .. pos - 1, e \in Nat : n = curMatch /\ e = curMatch' /\ e < n
    BY <1>3, <1>4
  <2>3. delta = pos - n /\ delta' = pos - e /\ Surpassed(n, e)
    BY <1>4, <2>1, <2>2
  <2>. QED  BY <1>1, <1>6, <1>8, <2>2, <2>3, ReportedStep
<1>10. Better <=> maxLen < k
  BY <1>6, <1>7 DEF Better
<1>11. IF Better THEN maxLen' = k /\ distances' = Append(distances, <<k, delta>>)
       ELSE maxLen' = maxLen /\ distances' = distances
  BY <1>6 DEF Descend
<1>. QED  BY <1>5, <1>6, <1>8, <1>9, <1>10, <1>11

\* one step in a repetition
LEMMA DescendRepeatedReport ==
  ASSUME JInv, ReportInv, DescendRepeated
  PROVE  ReportInv'
<1>1. IInv /\ RootInv /\ OrderInv /\ FastInv /\ RleInv /\ TreeInv
  BY DEF JInv, IInv
<1>2. /\ running /\ running' /\ in' = in /\ pos' = pos /\ op' = op /\ maxLen' = maxLen /\ distances' = distances
      /\ curMatch >= curMatch_rle
  BY DEF DescendRepeated
<1>3. curMatch \in lowest .. pos - 1
  <2>1. pos - curMatch < Window
    BY <1>1, <1>2, SizesAssumption DEF TreeInv, IInv, SearchInv
  <2>. QED  BY <1>1, <1>2, <2>1, NodeInWindow
<1>4. /\ curMatch' \in Nat /\ curMatch' < curMatch /\ Surpassed(curMatch, curMatch')
      /\ op = "GetMatches2" /\ \E h : AgreesOnly(curMatch, h) /\ h < maxLen
  <2>1. IInv' /\ curMatch' < curMatch
    BY <1>1, DescendRepeatedInv
  <2>. QED  BY <1>1, <1>2, <2>1, DescendRepeatedOrder DEF IInv, SearchInv
<1>5. PICK h : AgreesOnly(curMatch, h) /\ h < maxLen
  BY <1>4
<1>6. h = Lengths[delta]
  <2>1. Lengths[pos - curMatch] = h
    BY <1>1, <1>3, <1>5, LengthIs
  <2>. QED  BY <2>1 DEF delta
<1>7. Reports(distances, delta, maxLen) /\ maxLen < lenLimit /\ maxLen \in Nat /\ h \in Nat
  <2>1. h \in Nat
    BY <1>5 DEF AgreesOnly
  <2>. QED  BY <1>1, <1>2, <1>4, <2>1 DEF ReportInv, FastInv
<1>8. Reports(distances, delta', maxLen)
  <2>1. delta = pos - curMatch /\ delta' = pos - curMatch'
    BY <1>2 DEF delta
  <2>2. PICK n \in lowest .. pos - 1, e \in Nat : n = curMatch /\ e = curMatch' /\ e < n
    BY <1>3, <1>4
  <2>3. delta = pos - n /\ delta' = pos - e /\ Surpassed(n, e)
    BY <1>4, <2>1, <2>2
  <2>4. ~(maxLen < h)
    BY <1>5, <1>7
  <2>. QED  BY <1>1, <1>6, <1>7, <2>2, <2>3, <2>4, ReportedStep
<1>9. Reach' = Reach /\ Lengths' = Lengths /\ lenLimit' = lenLimit
  BY <1>2, SameLengths
<1>. QED  BY <1>2, <1>7, <1>8, <1>9 DEF ReportInv, Reports

\* Nothing agrees further than a node that agrees in full.
LEMMA FullSurpasses ==
  ASSUME TreeInv, NEW n \in lowest .. pos - 1, Same(n, pos, lenLimit), NEW e
  PROVE  Surpassed(n, e)
<1>1. lowest \in Nat /\ lenLimit \in Nat
  BY WindowIs
<1>2. \A k \in 0 .. lenLimit : \A j \in 0 .. k - 1 : j \in 0 .. lenLimit - 1
  BY <1>1
<1>3. \A k \in 0 .. lenLimit : Same(n, pos, k)
  BY <1>2 DEF Same
<1>4. n >= n
  BY <1>1
<1>. QED  BY <1>3, <1>4 DEF Surpassed

\* The report ends with a node that agrees in full.
LEMMA FullReported ==
  ASSUME TreeInv, NEW n \in lowest .. pos - 1, NEW c, c = pos - n, NEW ds, NEW m, Reports(ds, c, m),
         Same(n, pos, lenLimit), m < lenLimit
  PROVE  Right(Append(ds, <<lenLimit, c>>), pos)
<1>1. /\ pos \in Nat /\ lowest \in Nat /\ lowest >= Window /\ lenLimit \in Nat /\ pos >= Window
      /\ Reach \in Nat /\ Window \in Nat /\ Window > 1
  BY WindowIs, LengthsAre, SizesAssumption
<1>2. Lengths[c] = lenLimit
  <2>1. AgreesOnly(n, lenLimit)
    BY <1>1 DEF AgreesOnly
  <2>. QED  BY <2>1, LengthIs
<1>3. Surpassed(n, 0)
  BY FullSurpasses
<1>4. PICK b \in Nat : b = pos - 0
  BY <1>1
<1>5. PICK k \in Nat : k = lenLimit /\ k = Lengths[c] /\ m < k
  BY <1>1, <1>2
<1>6. 0 \in Nat /\ 0 < n
  BY <1>1
<1>7. Reports(Append(ds, <<k, c>>), b, k)
  BY <1>3, <1>4, <1>5, <1>6, ReportedStep
<1>8. \A d \in 1 .. Reach : d < b
  BY <1>1, <1>4 DEF Reach, Least
<1>. QED  BY <1>5, <1>7, <1>8, AllReported

\* no report before the first node
LEMMA NoReport ==
  ASSUME TreeInv
  PROVE  Reports(<<>>, 1, 2)
<1>. DEFINE L == Lengths
            N == Reach
<1>1. N \in Nat /\ L \in [1 .. N -> Nat]
  BY LengthsAre
<1>. HIDE DEF L, N
<1>2. ReportOf(L, N, <<>>, 1, 2)
  BY <1>1, EmptyReport
<1>. QED  BY <1>2 DEF Reports, L, N

\* what is reported of a repetition
LEMMA RepetitionReport ==
  ASSUME JInv, GetMatches2
  PROVE  ReportInv' /\ ReportsNearest'
<1>. USE SizesAssumption
<1>1. IInv /\ RootInv /\ OrderInv /\ TreeInv /\ ~running /\ Repeated >= MinMatch /\ in' = in
  BY DEF JInv, IInv, GetMatches2, Call
<1>2. PICK q \in lowest .. pos - 1, r \in Nat :
        /\ q = pos - 1 /\ pos - q = 1 /\ r = Repeated /\ r > 2 /\ AgreesOnly(q, r) /\ Same(q, pos, r) /\ lenLimit \in Nat
        /\ pos \in Nat /\ r <= lenLimit
  <2>1. pos \in Nat
    BY <1>1 DEF TreeInv
  <2>2. /\ Repeated \in Nat /\ Repeated <= lenLimit /\ lenLimit \in Nat
        /\ pos - 1 \in lowest .. pos - 1 /\ Same(pos - 1, pos, Repeated)
        /\ Repeated = lenLimit \/ Byte(pos - 1, Repeated) # cur(Repeated)
    BY <1>1, RepetitionIs
  <2>3. Repeated > 2 /\ Repeated \in 0 .. lenLimit /\ pos - (pos - 1) = 1
    BY <1>1, <2>1, <2>2
  <2>4. AgreesOnly(pos - 1, Repeated)
    BY <2>2, <2>3 DEF AgreesOnly
  <2>. QED  BY <2>1, <2>2, <2>3, <2>4
<1>3. /\ distances' = << <<r, 1>> >> /\ maxLen' = r
  BY <1>2 DEF GetMatches2
<1>4. Append(<<>>, <<r, 1>>) = << <<r, 1>> >>
  OBVIOUS
<1>5. Reports(<<>>, 1, 2)
  BY <1>1, NoReport
<1>6. CASE Repeated = lenLimit
  <2>1. running' = FALSE /\ pos' = pos + 1 /\ pos' - 1 = pos
    BY <1>2, <1>6 DEF GetMatches2, MOVE_POS
  <2>2. Right(Append(<<>>, <<lenLimit, 1>>), pos)
    BY <1>1, <1>2, <1>5, <1>6, FullReported
  <2>3. Right(distances', pos)
    BY <1>2, <1>3, <1>4, <1>6, <2>2
  <2>4. ReportsNearest'
    BY <1>1, <2>1, <2>3, RightKept
  <2>. QED  BY <2>1, <2>4 DEF ReportInv
<1>7. CASE Repeated # lenLimit
  <2>1. running' = TRUE /\ pos' = pos
    BY <1>7 DEF GetMatches2
  <2>2. PICK e \in Nat : e = curMatch' /\ e < q /\ Surpassed(q, e)
    <3>1. Surpassed(pos - 1, curMatch') /\ curMatch' < pos - 1
      BY <1>1, <1>7, RepetitionOrder DEF JInv
    <3>2. curMatch' \in Nat
      BY <1>1, <2>1, GetMatches2Inv DEF IInv, SearchInv
    <3>. QED  BY <1>2, <3>1, <3>2
  <2>3. PICK b \in Int : b = pos - e
    BY <1>2
  <2>4. r = Lengths[1]
    BY <1>1, <1>2, LengthIs
  <2>5. Reports(Append(<<>>, <<r, 1>>), b, r)
    BY <1>1, <1>2, <1>5, <2>2, <2>3, <2>4, ReportedStep
  <2>6. Reach' = Reach /\ Lengths' = Lengths /\ lenLimit' = lenLimit /\ delta' = b
    BY <1>1, <2>1, <2>2, <2>3, SameLengths DEF delta
  <2>7. r < lenLimit
    BY <1>2, <1>7
  <2>8. ReportInv'
    BY <1>3, <1>4, <2>1, <2>5, <2>6, <2>7 DEF ReportInv, Reports
  <2>. QED  BY <2>1, <2>8 DEF ReportsNearest
<1>. QED  BY <1>6, <1>7

\* what is reported when a search ends
LEMMA EndReport ==
  ASSUME JInv, ReportInv, Leave \/ Replace
  PROVE  ReportInv' /\ ReportsNearest'
<1>. USE SizesAssumption
<1>1. IInv /\ RootInv /\ OrderInv /\ FastInv /\ TreeInv /\ KnownAhead
  BY KnownFound DEF JInv, IInv
<1>2. running /\ in' = in /\ op' = op /\ running' = FALSE /\ pos' = pos + 1
  BY DEF Leave, Replace, Searching, MOVE_POS
<1>3. pos \in Nat /\ pos' - 1 = pos /\ curMatch \in Nat
  BY <1>1, <1>2 DEF TreeInv, IInv, SearchInv
<1>4. SUFFICES ASSUME op # "Skip" PROVE Right(distances', pos)
  <2>1. ReportInv'
    BY <1>2 DEF ReportInv
  <2>2. CASE op = "Skip"
    BY <1>2, <2>1, <2>2 DEF ReportsNearest
  <2>3. CASE op # "Skip"
    <3>1. Right(distances', pos)
      BY <1>4, <2>3
    <3>. QED  BY <1>2, <1>3, <2>1, <3>1, RightKept
  <2>. QED  BY <2>2, <2>3
<1>5. Reports(distances, delta, maxLen) /\ maxLen < lenLimit
  BY <1>2, <1>4 DEF ReportInv
<1>6. CASE Leave
  <2>1. distances' = distances /\ delta >= Window
    BY <1>6 DEF Leave, OutOfWindow
  <2>2. \A d \in 1 .. Reach : d < delta
    BY <1>3, <2>1 DEF Reach, Least, delta
  <2>. QED  BY <1>1, <1>5, <2>1, <2>2, AllReported
<1>7. CASE Replace
  <2>1. ~OutOfWindow /\ (AtKnown \/ Full)
    BY <1>7 DEF Replace
  <2>2. curMatch \in lowest .. pos - 1
    <3>1. pos - curMatch < Window
      BY <1>1, <1>2, <2>1, InWindow
    <3>. QED  BY <1>1, <1>2, <3>1, NodeInWindow
  <2>3. Same(curMatch, pos, lenLimit) /\ distances' = Append(distances, <<lenLimit, delta>>)
    <3>1. CASE AtKnown
      <4>1. op = "GetMatches3" /\ curMatch = pos - dist_258
        BY <1>1, <1>2, <1>3, <3>1 DEF AtKnown, delta, FastInv
      <4>2. Same(pos - dist_258, pos, MaxMatch) /\ lenl >= MaxMatch
        BY <1>1, <1>2, <4>1 DEF FastInv
      <4>3. lenLimit = MaxMatch
        <5>1. lenl \in Nat
          BY <1>1, RepeatedIsNat
        <5>. QED  BY <4>2, <5>1 DEF lenLimit, Least
      <4>. QED  BY <1>7, <3>1, <4>1, <4>2, <4>3 DEF Replace
    <3>2. CASE ~AtKnown
      <4>1. len = lenLimit
        BY <2>1, <3>2 DEF Full
      <4>2. Same(curMatch, pos, len)
        <5>1. PICK R, x : Searches(R, x)
          BY <1>1, <1>2, SearchExists
        <5>. QED  BY <1>1, <1>2, <2>2, <5>1, Compared
      <4>3. Better
        BY <1>4, <1>5, <4>1 DEF Better
      <4>. QED  BY <1>7, <3>2, <4>1, <4>2, <4>3 DEF Replace
    <3>. QED  BY <3>1, <3>2
  <2>4. delta = pos - curMatch
    BY DEF delta
  <2>. QED  BY <1>1, <1>5, <2>2, <2>3, <2>4, FullReported
<1>. QED  BY <1>6, <1>7

\* Nothing changes.
LEMMA SameReport ==
  ASSUME ReportInv, ReportsNearest, UNCHANGED vars
  PROVE  ReportInv' /\ ReportsNearest'
<1>1. /\ in' = in /\ pos' = pos /\ op' = op /\ running' = running /\ curMatch' = curMatch /\ maxLen' = maxLen
      /\ distances' = distances
  BY DEF vars, path
<1>2. Reach' = Reach /\ Lengths' = Lengths /\ lenLimit' = lenLimit /\ delta' = delta
  BY <1>1, SameLengths DEF delta
<1>3. ReportInv'
  BY <1>1, <1>2 DEF ReportInv, Reports
<1>4. ReportsNearest'
  <2>. DEFINE p == pos - 1
              ds == distances
  <2>1. ~running /\ op \in {"GetMatches", "GetMatches2", "GetMatches3"} => Right(ds, p)
    BY DEF ReportsNearest, Right
  <2>2. p = pos' - 1 /\ ds = distances'
    BY <1>1
  <2>. HIDE DEF p, ds
  <2>3. CASE ~running /\ op \in {"GetMatches", "GetMatches2", "GetMatches3"}
    BY <1>1, <2>1, <2>2, <2>3, RightKept
  <2>4. CASE running \/ op \notin {"GetMatches", "GetMatches2", "GetMatches3"}
    BY <1>1, <2>4 DEF ReportsNearest
  <2>. QED  BY <2>3, <2>4
<1>. QED  BY <1>3, <1>4

\* Each step keeps the reports right.
LEMMA StepReport ==
  ASSUME JInv, ReportInv, ReportsNearest, [Next]_vars
  PROVE  ReportInv' /\ ReportsNearest'
<1>1. IInv /\ RootInv
  BY DEF JInv
<1>2. CASE GetMatches \/ GetMatches3
  <2>1. ReportInv'
    BY <1>1, <1>2, StartReport
  <2>2. running' = TRUE
    BY <1>2 DEF GetMatches, GetMatches3, Start
  <2>. QED  BY <2>1, <2>2 DEF ReportsNearest
<1>3. CASE Skip \/ Skip2
  <2>1. op' \in {"Skip", "Skip2"} /\ (op' = "Skip2" => running' = FALSE)
    BY <1>3 DEF Skip, Skip2, Start, Call, MOVE_POS
  <2>. QED  BY <2>1 DEF ReportInv, ReportsNearest
<1>4. CASE GetMatches2
  BY <1>4, RepetitionReport
<1>5. CASE Leave \/ Replace
  BY <1>5, EndReport
<1>6. CASE Descend \/ DescendRepeated
  <2>1. ReportInv'
    BY <1>6, DescendReport, DescendRepeatedReport
  <2>2. running'
    BY <1>6 DEF Descend, DescendRepeated, Searching
  <2>. QED  BY <2>1, <2>2 DEF ReportsNearest
<1>7. CASE AtEnd \/ UNCHANGED vars
  BY <1>7, SameReport DEF AtEnd
<1>. QED  BY <1>2, <1>3, <1>4, <1>5, <1>6, <1>7 DEF Next

\* What GetMatches, GetMatches2 and GetMatches3 report is just the matches there are:
\* each one that is longer than all that are nearer, from the nearest to the longest;
\* though whole subtrees are skipped, bytes that the neighbours share are not compared,
\* and in a repetition none is.
THEOREM NearestReported == Spec => []ReportsNearest
<1>1. Init => ReportInv /\ ReportsNearest
  BY DEF Init, ReportInv, ReportsNearest
<1>2. JInv /\ ReportInv /\ ReportsNearest /\ [Next]_vars => (ReportInv /\ ReportsNearest)'
  BY StepReport
<1>. QED  BY <1>1, <1>2, SortedTrees, PTL DEF Spec
=============================================================================
