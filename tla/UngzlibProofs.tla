--------------------------- MODULE UngzlibProofs ----------------------------
(***************************************************************************)
(* Proofs about Ungzlib: for every file, every size of the buffer, and     *)
(* whatever reads and inflate do, the position stays within what was read, *)
(* the bytes in the buffer within the buffer, and inflate in step with     *)
(* them, also while the name of a header is copied away from the buffer.   *)
(* From this follows what the call writes, and that it returns what it has *)
(* done.                                                                   *)
(***************************************************************************)
EXTENDS Ungzlib, FiniteSetTheorems, WellFoundedInduction, SequenceTheorems, TLAPS

\* The position is within what was read, which is within the file; the bytes
\* that are left lie within ibuf.
Within ==
  /\ got \in Nat /\ rd \in Nat /\ off \in Nat
  /\ rd <= got /\ got <= Len(file)
  /\ off + avail <= Cap

\* An error ends the call at once.
ErrorEnds == ret \in {"data", "errno"} => pc = "done"

\* Where inflate is: behind what was taken out of the buffer, except for the
\* name, which it is given only when all of it has been copied.
FedInv ==
  /\ zin \in Nat /\ namefrom \in Nat
  /\ InName => zin = namefrom /\ namefrom <= rd
  /\ ~InName => zin = rd \/ ret \in {"data", "errno"}

\* ungzlib_parse_header: the whole fixed part is there before it is fed
HeaderInv ==
  /\ pc = "feed" => avail >= IF HasExtra THEN Fixed + 2 ELSE Fixed
  /\ pc = "extra" => xlen \in Nat
  /\ xlen \in Nat

IInv == Len(file) \in Nat /\ IsFile(file) /\ Within /\ ErrorEnds /\ FedInv /\ HeaderInv
-----------------------------------------------------------------------------
\* One call of buffer_fetch, with or without moving what is left to the front.
LEMMA Fetched ==
  ASSUME Len(file) \in Nat, Within, NEW need \in Nat, NEW result, Fetch(need, result)
  PROVE  /\ got' \in Nat /\ off' \in Nat /\ rd' = rd
         /\ got <= got' /\ got' <= Len(file) /\ off' + (got' - rd) <= Cap
         /\ result = "ok" => got' - rd >= need
<1>. USE SizesAssumption DEF Within, avail
<1>1. CASE avail >= need
  BY <1>1 DEF Fetch, buffer
<1>2. CASE ~(avail >= need)
  <2>. DEFINE n == IF Len(file) - got < Room(need) THEN Len(file) - got ELSE Room(need)
  <2>1. Room(need) \in Nat /\ (Moves(need) => Room(need) = Cap - avail)
        /\ (~Moves(need) => Room(need) = Cap - (off + avail))
    BY DEF Room, FetchRoom
  <2>2. n \in Nat /\ n <= Room(need) /\ got + n <= Len(file)
    BY <2>1
  <2>3. /\ off' = IF Moves(need) THEN 0 ELSE off
        /\ rd' = rd
        /\ \/ got' = got + n /\ result = IF avail + n >= need THEN "ok" ELSE "data"
           \/ result = "errno" /\ got' = got
    BY <1>2 DEF Fetch
  <2>. HIDE DEF n
  <2>. QED  BY <2>1, <2>2, <2>3
<1>. QED  BY <1>1, <1>2

\* A call of inflate with bytes that begin where inflate is.
LEMMA Moved ==
  ASSUME Within, zin = rd, NEW n \in Nat, n <= avail,
         zin' = zin + n, rd' = rd + n, off' = off + n, got' = got, job' = job
  PROVE  Within' /\ zin' = rd' /\ zin' \in Nat
<1>1. /\ rd' \in Nat /\ off' \in Nat /\ got' \in Nat /\ rd' <= got' /\ zin' = rd'
      /\ off' + (got' - rd') = off + (got - rd)
  BY DEF Within, avail
<1>. QED  BY <1>1 DEF Within, avail, file

LEMMA InitInv ==
  ASSUME Init
  PROVE  IInv
<1>1. IsFile(file) /\ Len(file) \in Nat
  BY JobsAssumption DEF Init, file, IsFile
<1>2. Within
  BY <1>1, SizesAssumption DEF Init, Within, avail
<1>. QED  BY <1>1, <1>2 DEF Init, IInv, ErrorEnds, FedInv, HeaderInv, InName

\* Everything between two members and in a header that only fetches.
LEMMA FetchingInv ==
  ASSUME IInv, Magic \/ FixedHeader \/ ExtraLength \/ FetchExtra \/ FetchName \/ FetchMember
  PROVE  IInv'
<1>. USE SizesAssumption DEF IInv
<1>1. /\ job' = job /\ zin' = zin /\ namefrom' = namefrom
      /\ \E need \in Nat, r \in Outcomes : Fetch(need, r)
  BY DEF Magic, FixedHeader, ExtraLength, FetchExtra, FetchName, FetchMember, inflater, header
<1>2. file' = file
  BY <1>1 DEF file
<1>3. Within' /\ rd' = rd /\ got <= got'
  <2>1. PICK need \in Nat, r \in Outcomes : Fetch(need, r)
    BY <1>1
  <2>2. /\ got' \in Nat /\ off' \in Nat /\ rd' = rd
        /\ got <= got' /\ got' <= Len(file) /\ off' + (got' - rd) <= Cap
    BY <2>1, Fetched
  <2>3. PICK g \in Nat, o \in Nat : g = got' /\ o = off'
    BY <2>2
  <2>4. /\ got <= g /\ g <= Len(file) /\ o + (g - rd) <= Cap /\ rd \in Nat /\ got \in Nat
        /\ rd <= got
    BY <2>2, <2>3 DEF Within
  <2>5. rd <= g
    BY <2>3, <2>4
  <2>6. Len(file)' = Len(file) /\ avail' = g - rd
    BY <1>2, <2>2, <2>3 DEF avail
  <2>7. Within'
    BY <2>2, <2>3, <2>4, <2>5, <2>6 DEF Within
  <2>. QED  BY <2>2, <2>7
<1>4. xlen' \in Nat
  <2>1. CASE ExtraLength
    <3>1. PICK r \in Outcomes :
            /\ Fetch(Fixed + 2, r)
            /\ IF r # "ok" THEN UNCHANGED xlen
               ELSE xlen' = IF file[rd + Fixed + 1].role = "xlen" THEN file[rd + Fixed + 1].n ELSE 0
      BY <2>1 DEF ExtraLength
    <3>2. CASE r = "ok"
      <4>1. got' - rd >= Fixed + 2 /\ got' <= Len(file)
        BY <3>1, <3>2, Fetched
      <4>2. rd + Fixed + 1 \in 1 .. Len(file)
        <5>1. PICK g \in Nat : g = got'
          BY <1>3 DEF Within
        <5>2. g - rd >= Fixed + 2 /\ g <= Len(file) /\ rd \in Nat /\ Len(file) \in Nat
          BY <4>1, <5>1 DEF Within
        <5>. QED  BY <5>2
      <4>. QED  BY <3>1, <3>2, <4>2 DEF IsFile
    <3>3. CASE r # "ok"
      BY <3>1, <3>3 DEF HeaderInv
    <3>. QED  BY <3>2, <3>3
  <2>2. CASE ~ExtraLength
    BY <2>2 DEF Magic, FixedHeader, FetchExtra, FetchName, FetchMember, header, HeaderInv
  <2>. QED  BY <2>1, <2>2
<1>5. pc' = "feed" => avail' >= IF HasExtra' THEN Fixed + 2 ELSE Fixed
  <2>1. CASE FixedHeader
    <3>1. PICK r \in Outcomes :
            Fetch(Fixed, r) /\ (pc' = "feed" => r = "ok" /\ ~HasExtra)
      BY <2>1 DEF FixedHeader, Parsed
    <3>2. r = "ok" => got' - rd >= Fixed
      BY <3>1, Fetched
    <3>3. HasExtra' = HasExtra
      BY <1>2, <1>3 DEF HasExtra
    <3>. QED  BY <1>3, <3>1, <3>2, <3>3 DEF avail
  <2>2. CASE ExtraLength
    <3>1. PICK r \in Outcomes : Fetch(Fixed + 2, r) /\ (pc' = "feed" => r = "ok")
      BY <2>2 DEF ExtraLength, Parsed
    <3>2. r = "ok" => got' - rd >= Fixed + 2
      BY <3>1, Fetched
    <3>3. PICK g \in Nat : g = got'
      BY <1>3 DEF Within
    <3>4. avail' = g - rd /\ rd \in Nat
      BY <1>3, <3>3 DEF Within, avail
    <3>5. g - rd >= Fixed + 2 => g - rd >= Fixed
      BY <3>4
    <3>. QED  BY <3>1, <3>2, <3>3, <3>4, <3>5
  <2>3. CASE ~FixedHeader /\ ~ExtraLength
    BY <2>3 DEF Magic, FetchExtra, FetchName, FetchMember, AfterMember, Parsed
  <2>. QED  BY <2>1, <2>2, <2>3
<1>6. pc # "done" /\ ret \notin {"data", "errno"}
  BY DEF Magic, FixedHeader, ExtraLength, FetchExtra, FetchName, FetchMember, ErrorEnds
<1>7. \/ pc' = "done" /\ InName /\ ret' \in {"data", "errno"}
      \/ pc' = "done" /\ ~InName
      \/ ret' \notin {"data", "errno"} /\ (InName' <=> InName)
  <2>1. CASE Magic
    BY <1>6, <2>1 DEF Magic, Parsed, InName
  <2>2. CASE FixedHeader \/ ExtraLength \/ FetchExtra
    BY <1>6, <2>2 DEF FixedHeader, ExtraLength, FetchExtra, Parsed, InName
  <2>3. CASE FetchName
    BY <1>6, <2>3 DEF FetchName, Parsed, InName, Outcomes
  <2>4. CASE FetchMember
    BY <1>6, <2>4 DEF FetchMember, AfterMember, InName
  <2>. QED  BY <2>1, <2>2, <2>3, <2>4
<1>8. ErrorEnds' /\ FedInv'
  BY <1>1, <1>3, <1>6, <1>7 DEF ErrorEnds, FedInv, InName
<1>. QED  BY <1>2, <1>3, <1>4, <1>5, <1>8 DEF HeaderInv

\* Bytes of the header are given to inflate out of the buffer.
LEMMA FeedingInv ==
  ASSUME IInv, FeedFixed \/ FeedExtra
  PROVE  IInv'
<1>. USE SizesAssumption DEF IInv
<1>. DEFINE size == IF FeedFixed THEN IF HasExtra THEN Fixed + 2 ELSE Fixed ELSE chunk
<1>1. size \in Nat /\ size <= avail
  BY DEF FeedFixed, FeedExtra, HeaderInv, chunk, Within, avail
<1>2. \E r : FeedHeader(size, r)
  BY DEF FeedFixed, FeedExtra
<1>3. PICK n \in 0 .. size : zin' = zin + n /\ rd' = rd + n /\ off' = off + n /\ got' = got
  BY <1>2 DEF FeedHeader
<1>4. job' = job /\ file' = file
  BY DEF FeedFixed, FeedExtra, file
<1>5. /\ pc # "done" /\ ret \notin {"data", "errno"} /\ ~InName /\ zin = rd
  BY DEF FeedFixed, FeedExtra, ErrorEnds, FedInv, InName
<1>6. Within' /\ zin' = rd' /\ zin' \in Nat
  <2>. HIDE DEF size
  <2>1. n \in Nat /\ n <= avail
    BY <1>1, <1>3 DEF Within, avail
  <2>. QED  BY <1>3, <1>4, <1>5, <2>1, Moved
<1>7. /\ ret' \in {"data", "errno"} => pc' = "done"
      /\ InName' => namefrom' = rd'
      /\ namefrom' \in {namefrom, rd'}
      /\ pc' # "feed"
  BY <1>5 DEF FeedFixed, FeedExtra, Parsed, InName
<1>8. xlen' \in Nat
  <2>1. CASE FeedFixed
    BY <2>1 DEF FeedFixed, HeaderInv
  <2>2. CASE FeedExtra
    BY <2>2 DEF FeedExtra, HeaderInv, chunk, Within, avail
  <2>. QED  BY <2>1, <2>2
<1>9. FedInv'
  BY <1>6, <1>7 DEF FedInv, Within
<1>. QED  BY <1>4, <1>6, <1>7, <1>8, <1>9 DEF ErrorEnds, HeaderInv

\* The name is copied, and its copy given to inflate.
LEMMA NameInv ==
  ASSUME IInv, Name \/ FeedName
  PROVE  IInv'
<1>. USE DEF IInv
<1>1. /\ pc # "done" /\ ret \notin {"data", "errno"} /\ InName
      /\ zin = namefrom /\ namefrom <= rd /\ namefrom \in Nat
  BY DEF Name, FeedName, ErrorEnds, FedInv, InName
<1>2. job' = job /\ file' = file
  BY DEF Name, FeedName, file
<1>3. CASE Name
  <2>. DEFINE ends == {p \in rd + 1 .. got : file[p].role = "nul"}
  <2>1. /\ \/ rd' = got /\ off' = off + avail /\ pc' = "fetchname"
           \/ \E p \in ends : rd' = p /\ off' = off + (p - rd) /\ pc' = "feedname"
        /\ got' = got /\ zin' = zin /\ namefrom' = namefrom /\ ret' = ret /\ xlen' = xlen
    BY <1>3 DEF Name, inflater, header
  <2>2. /\ rd' \in Nat /\ off' \in Nat /\ rd <= rd' /\ rd' <= got
        /\ off' + (got - rd') = off + (got - rd) /\ pc' \in {"fetchname", "feedname"}
    <3>1. \A p \in ends : p \in Nat /\ rd < p /\ p <= got
      BY DEF Within
    <3>. HIDE DEF ends
    <3>. QED  BY <2>1, <3>1 DEF Within, avail
  <2>3. Within'
    BY <1>2, <2>1, <2>2 DEF Within, avail
  <2>4. FedInv' /\ ErrorEnds' /\ HeaderInv'
    BY <1>1, <2>1, <2>2 DEF FedInv, ErrorEnds, HeaderInv, InName, Within
  <2>. QED  BY <1>2, <2>3, <2>4
<1>4. CASE FeedName
  <2>1. PICK n \in 0 .. copied :
          /\ zin' = zin + n
          /\ Parsed(IF n < copied THEN "data" ELSE InflateResult(namefrom, copied, n))
    BY <1>4 DEF FeedName
  <2>2. UNCHANGED <<got, rd, off, namefrom, xlen>>
    BY <1>4 DEF FeedName, buffer
  <2>3. copied \in Nat /\ n \in Nat /\ zin' \in Nat
    BY <1>1, <2>1 DEF copied, Within
  <2>4. n = copied => zin' = rd'
    BY <1>1, <2>1, <2>2, <2>3 DEF copied, Within
  <2>5. n # copied => ret' = "data"
    BY <2>1, <2>3 DEF Parsed
  <2>6. pc' \in {"member", "done"} /\ (ret' \in {"data", "errno"} => pc' = "done")
    BY <2>1 DEF Parsed
  <2>7. Within'
    BY <1>2, <2>2 DEF Within, avail
  <2>8. FedInv' /\ ErrorEnds' /\ HeaderInv'
    BY <1>1, <2>2, <2>3, <2>4, <2>5, <2>6 DEF FedInv, ErrorEnds, HeaderInv, InName
  <2>. QED  BY <1>2, <2>7, <2>8
<1>. QED  BY <1>3, <1>4

\* The content of a member.
LEMMA InflateInv ==
  ASSUME IInv, InflateMember
  PROVE  IInv'
<1>. USE DEF IInv
<1>1. PICK n \in 0 .. avail : zin' = zin + n /\ rd' = rd + n /\ off' = off + n
  BY DEF InflateMember
<1>2. job' = job /\ file' = file /\ UNCHANGED <<got, xlen, namefrom>>
  BY DEF InflateMember, file
<1>3. zin = rd /\ ret \notin {"data", "errno"}
  BY DEF InflateMember, ErrorEnds, FedInv, InName
<1>4. Within' /\ zin' = rd' /\ zin' \in Nat
  <2>1. n \in Nat /\ n <= avail
    BY <1>1 DEF Within, avail
  <2>. QED  BY <1>1, <1>2, <1>3, <2>1, Moved
<1>5. /\ pc' \in {"magic", "member", "done"}
      /\ ret' \in {"data", "errno"} => pc' = "done"
  BY DEF InflateMember, AfterMember, InflateResult
<1>. QED  BY <1>2, <1>4, <1>5 DEF FedInv, ErrorEnds, HeaderInv, InName

LEMMA StepInv ==
  ASSUME IInv, [Next]_vars
  PROVE  IInv'
<1>1. CASE Magic \/ FixedHeader \/ ExtraLength \/ FetchExtra \/ FetchName \/ FetchMember
  BY <1>1, FetchingInv
<1>2. CASE FeedFixed \/ FeedExtra
  BY <1>2, FeedingInv
<1>3. CASE Name \/ FeedName
  BY <1>3, NameInv
<1>4. CASE InflateMember
  BY <1>4, InflateInv
<1>5. CASE EnterInflate
  BY <1>5 DEF EnterInflate, buffer, inflater, header, IInv, Within, avail, file, ErrorEnds,
              FedInv, HeaderInv, InName
<1>6. CASE Stopped \/ UNCHANGED vars
  BY <1>6 DEF Stopped, vars, buffer, inflater, header, IInv, Within, avail, file, ErrorEnds,
              FedInv, HeaderInv, HasExtra, InName
<1>. QED  BY <1>1, <1>2, <1>3, <1>4, <1>5, <1>6 DEF Next
-----------------------------------------------------------------------------
(* The content is computed byte by byte. What the recursion of Content gives is *)
(* proved from its equation; each induction is about a least counterexample.    *)

\* a set of natural numbers has a least one
LEMMA LeastExists ==
  ASSUME NEW T, T \subseteq Nat, T # {}
  PROVE  \E m \in T : \A n \in T : m <= n
<1>1. PICK m \in T : \A n \in T : <<n, m>> \notin OpToRel(<, Nat)
  BY WFMin, NatLessThanWellFounded, Zenon
<1>2. ASSUME NEW n \in T PROVE m <= n
  <2>1. ~(n < m)
    BY <1>1, <1>2, Zenon DEF OpToRel
  <2>. QED  BY <2>1
<1>. QED  BY <1>2

StepOf(f, a, g, k) ==
  IF k = 0 THEN <<>> ELSE IF f[a + k].role = "data" THEN Append(g[k - 1], a + k) ELSE g[k - 1]
UpTo(f, a, n, g) == g = [k \in 0 .. n |-> StepOf(f, a, g, k)]
OfFile(f, a) == CHOOSE of : of = [k \in Nat |-> StepOf(f, a, of, k)]

LEMMA UpToAgree ==
  ASSUME NEW f, NEW a, NEW n \in Nat, NEW m \in Nat, n <= m, NEW g, NEW h,
         UpTo(f, a, n, g), UpTo(f, a, m, h)
  PROVE  \A k \in 0 .. n : g[k] = h[k]
<1>. DEFINE Differ == {k \in 0 .. n : g[k] # h[k]}
<1>1. SUFFICES ASSUME Differ # {} PROVE FALSE
  OBVIOUS
<1>2. PICK k \in Differ : \A j \in Differ : k <= j
  <2>1. Differ \subseteq Nat
    OBVIOUS
  <2>. HIDE DEF Differ
  <2>. QED  BY <1>1, <2>1, LeastExists
<1>3. k \in 0 .. n /\ k \in 0 .. m /\ g[k] # h[k]
  BY <1>2
<1>4. g[k] = StepOf(f, a, g, k) /\ h[k] = StepOf(f, a, h, k)
  BY <1>3 DEF UpTo
<1>5. k # 0 => g[k - 1] = h[k - 1]
  <2>1. SUFFICES ASSUME k # 0, g[k - 1] # h[k - 1] PROVE FALSE
    OBVIOUS
  <2>2. k - 1 \in 0 .. n /\ ~(k <= k - 1)
    BY <1>3, <2>1
  <2>. QED  BY <1>2, <2>1, <2>2
<1>. QED  BY <1>3, <1>4, <1>5 DEF StepOf

LEMMA UpToExists ==
  ASSUME NEW f, NEW a
  PROVE  \A n \in Nat : \E g : UpTo(f, a, n, g)
<1>. DEFINE Missing == {n \in Nat : ~\E g : UpTo(f, a, n, g)}
<1>1. SUFFICES ASSUME Missing # {} PROVE FALSE
  OBVIOUS
<1>2. PICK n \in Missing : \A j \in Missing : n <= j
  BY <1>1, LeastExists
<1>3. n # 0
  <2>. DEFINE g == [k \in 0 .. 0 |-> <<>>]
  <2>1. \A k \in 0 .. 0 : StepOf(f, a, g, k) = <<>>
    BY DEF StepOf
  <2>2. UpTo(f, a, 0, g)
    BY <2>1 DEF UpTo
  <2>. QED  BY <1>2, <2>2
<1>4. PICK h : UpTo(f, a, n - 1, h)
  <2>1. n - 1 \in Nat /\ ~(n <= n - 1)
    BY <1>2, <1>3
  <2>. QED  BY <1>2, <2>1
<1>5. n \in Nat
  BY <1>2
<1>. DEFINE g == [k \in 0 .. n |-> IF k = n THEN StepOf(f, a, h, n) ELSE h[k]]
<1>6. \A k \in 0 .. n : k # 0 => k - 1 \in 0 .. n - 1 /\ g[k - 1] = h[k - 1]
  BY <1>5
<1>7. ASSUME NEW k \in 0 .. n PROVE StepOf(f, a, g, k) = StepOf(f, a, h, k)
  <2>. HIDE DEF g
  <2>. QED  BY <1>6 DEF StepOf
<1>8. ASSUME NEW k \in 0 .. n PROVE g[k] = StepOf(f, a, g, k)
  <2>1. CASE k = n
    BY <1>7, <2>1
  <2>2. CASE k # n
    <3>1. k \in 0 .. n - 1
      BY <1>5, <2>2
    <3>2. h[k] = StepOf(f, a, h, k)
      BY <1>4, <3>1 DEF UpTo
    <3>. QED  BY <1>7, <2>2, <3>2
  <2>. QED  BY <2>1, <2>2
<1>9. UpTo(f, a, n, g)
  <2>1. g = [k \in 0 .. n |-> g[k]]
    OBVIOUS
  <2>. HIDE DEF g
  <2>. QED  BY <1>8, <2>1 DEF UpTo
<1>. QED  BY <1>2, <1>9

LEMMA OfFileIs ==
  ASSUME NEW f, NEW a
  PROVE  OfFile(f, a) = [k \in Nat |-> StepOf(f, a, OfFile(f, a), k)]
<1>. DEFINE G(n) == CHOOSE g : UpTo(f, a, n, g)
            of == [k \in Nat |-> G(k)[k]]
<1>1. ASSUME NEW n \in Nat PROVE UpTo(f, a, n, G(n))
  BY UpToExists
<1>. HIDE DEF G
<1>2. ASSUME NEW k \in Nat PROVE of[k] = StepOf(f, a, of, k)
  <2>1. G(k)[k] = StepOf(f, a, G(k), k)
    <3>1. k \in 0 .. k
      OBVIOUS
    <3>. QED  BY <1>1, <3>1 DEF UpTo
  <2>2. k # 0 => k - 1 \in Nat /\ G(k - 1)[k - 1] = G(k)[k - 1]
    <3>1. SUFFICES ASSUME k # 0 PROVE k - 1 \in Nat /\ G(k - 1)[k - 1] = G(k)[k - 1]
      OBVIOUS
    <3>2. k - 1 \in Nat /\ k - 1 <= k /\ k - 1 \in 0 .. k - 1
      BY <3>1
    <3>. QED  BY <1>1, <3>2, UpToAgree
  <2>. QED  BY <2>1, <2>2 DEF StepOf
<1>3. of = [k \in Nat |-> StepOf(f, a, of, k)]
  <2>1. of = [k \in Nat |-> of[k]]
    OBVIOUS
  <2>. HIDE DEF of
  <2>. QED  BY <1>2, <2>1
<1>. HIDE DEF of
<1>. QED  BY <1>3 DEF OfFile

LEMMA ContentIs ==
  ASSUME NEW a, NEW n
  PROVE  Content(a, n) = OfFile(file, a)[n]
<1>1. \A of, k : StepOf(file, a, of, k) = IF k = 0 THEN <<>>
                       ELSE IF file[a + k].role = "data" THEN Append(of[k - 1], a + k)
                       ELSE of[k - 1]
  BY DEF StepOf
<1>. QED  BY DEF Content, OfFile, StepOf

LEMMA OfFileBefore ==
  ASSUME NEW f, NEW a, NEW n \in Nat
  PROVE  OfFile(f, a)[n] = IF n = 0 THEN <<>>
                           ELSE IF f[a + n].role = "data" THEN Append(OfFile(f, a)[n - 1], a + n)
                           ELSE OfFile(f, a)[n - 1]
<1>. DEFINE of == OfFile(f, a)
<1>1. of = [k \in Nat |-> StepOf(f, a, of, k)]
  BY OfFileIs
<1>. HIDE DEF of
<1>2. of[n] = StepOf(f, a, of, n)
  BY <1>1
<1>. QED  BY <1>2 DEF StepOf, of

LEMMA OfFileType ==
  ASSUME NEW f, NEW a \in Nat
  PROVE  \A n \in Nat : OfFile(f, a)[n] \in Seq(Nat)
<1>. DEFINE Wrong == {n \in Nat : OfFile(f, a)[n] \notin Seq(Nat)}
<1>1. SUFFICES ASSUME Wrong # {} PROVE FALSE
  OBVIOUS
<1>2. PICK n \in Wrong : \A j \in Wrong : n <= j
  BY <1>1, LeastExists
<1>3. n # 0
  <2>1. OfFile(f, a)[0] = <<>>
    BY OfFileBefore
  <2>2. OfFile(f, a)[0] \in Seq(Nat)
    BY <2>1, EmptySeq
  <2>. QED  BY <1>2, <2>2
<1>4. n - 1 \in Nat /\ ~(n <= n - 1) /\ (n - 1) + 1 = n
  BY <1>2, <1>3
<1>5. OfFile(f, a)[n - 1] \in Seq(Nat)
  BY <1>2, <1>4
<1>6. OfFile(f, a)[n] = IF f[a + n].role = "data" THEN Append(OfFile(f, a)[n - 1], a + n)
                       ELSE OfFile(f, a)[n - 1]
  BY <1>4, OfFileBefore
<1>7. a + n \in Nat
  BY <1>2
<1>8. Append(OfFile(f, a)[n - 1], a + n) \in Seq(Nat)
  BY <1>5, <1>7, AppendProperties
<1>. QED  BY <1>2, <1>5, <1>6, <1>8

\* What is taken in two calls is what is taken in one.
LEMMA OfFileJoins ==
  ASSUME NEW f, NEW a \in Nat
  PROVE  \A n \in Nat : OfFile(f, 0)[a] \o OfFile(f, a)[n] = OfFile(f, 0)[a + n]
<1>. DEFINE Wrong == {n \in Nat : OfFile(f, 0)[a] \o OfFile(f, a)[n] # OfFile(f, 0)[a + n]}
<1>1. SUFFICES ASSUME Wrong # {} PROVE FALSE
  OBVIOUS
<1>2. PICK n \in Wrong : \A j \in Wrong : n <= j
  BY <1>1, LeastExists
<1>. DEFINE s == OfFile(f, 0)[a]
<1>3. s \in Seq(Nat)
  BY OfFileType
<1>4. n # 0
  <2>1. OfFile(f, a)[0] = <<>> /\ a + 0 = a
    BY OfFileBefore
  <2>2. s \o <<>> = s
    BY <1>3, ConcatEmptySeq
  <2>. QED  BY <1>2, <2>1, <2>2
<1>5. /\ n - 1 \in Nat /\ ~(n <= n - 1) /\ (a + n) - 1 = a + (n - 1) /\ a + n \in Nat
      /\ a + n # 0 /\ 0 + (a + n) = a + n /\ n \in Nat
  BY <1>2, <1>4
<1>. DEFINE t == OfFile(f, a)[n - 1]
<1>6. s \o t = OfFile(f, 0)[a + (n - 1)]
  BY <1>2, <1>5
<1>7. t \in Seq(Nat)
  BY <1>5, OfFileType
<1>8. OfFile(f, a)[n] = IF f[a + n].role = "data" THEN Append(t, a + n) ELSE t
  BY <1>4, <1>5, OfFileBefore
<1>9. OfFile(f, 0)[a + n] = IF f[a + n].role = "data" THEN Append(s \o t, a + n) ELSE s \o t
  <2>1. OfFile(f, 0)[a + n] = IF f[0 + (a + n)].role = "data"
                               THEN Append(OfFile(f, 0)[(a + n) - 1], 0 + (a + n))
                               ELSE OfFile(f, 0)[(a + n) - 1]
    BY <1>5, OfFileBefore
  <2>. QED  BY <1>5, <1>6, <2>1
<1>10. s \o Append(t, a + n) = Append(s \o t, a + n)
  <2>1. a + n \in Nat
    BY <1>2
  <2>. HIDE DEF s, t
  <2>2. Append(t, a + n) = t \o <<a + n>> /\ Append(s \o t, a + n) = (s \o t) \o <<a + n>>
    BY <1>3, <1>7, <2>1, AppendIsConcat, ConcatProperties
  <2>. QED  BY <1>3, <1>7, <2>1, <2>2, ConcatAssociative
<1>. QED  BY <1>2, <1>8, <1>9, <1>10

LEMMA OfFileNone ==
  ASSUME NEW f, NEW a \in Nat, NEW m \in Nat, \A p \in a + 1 .. a + m : f[p].role # "data"
  PROVE  OfFile(f, a)[m] = <<>>
<1>. DEFINE Wrong == {n \in 0 .. m : OfFile(f, a)[n] # <<>>}
<1>1. SUFFICES ASSUME Wrong # {} PROVE FALSE
  OBVIOUS
<1>2. PICK n \in Wrong : \A j \in Wrong : n <= j
  <2>1. Wrong \subseteq Nat
    OBVIOUS
  <2>. HIDE DEF Wrong
  <2>. QED  BY <1>1, <2>1, LeastExists
<1>3. n # 0
  BY <1>2, OfFileBefore
<1>4. /\ n - 1 \in 0 .. m /\ ~(n <= n - 1) /\ n \in Nat
      /\ a + n \in a + 1 .. a + m
  BY <1>2, <1>3
<1>5. OfFile(f, a)[n - 1] = <<>>
  BY <1>2, <1>4
<1>6. OfFile(f, a)[n] = OfFile(f, a)[n - 1]
  BY <1>3, <1>4, OfFileBefore
<1>. QED  BY <1>2, <1>5, <1>6
-----------------------------------------------------------------------------
\* The invariant holds for every file and every size of the buffer.
THEOREM Invariant == Spec => []IInv
<1>1. Init => IInv
  BY InitInv
<1>2. IInv /\ [Next]_vars => IInv'
  BY StepInv
<1>. QED  BY <1>1, <1>2, PTL DEF Spec

\* ungzlib_process_all and ungzlib_parse_header never take more out of the buffer
\* than was read into it, nor put more into it than it holds.
THEOREM StaysWithin == Spec => []Within
<1>1. IInv => Within
  BY DEF IInv
<1>. QED  BY <1>1, Invariant, PTL

\* What inflate is given goes on where it stopped, whether it comes from ibuf or
\* from the copy of a name that was longer than ibuf.
THEOREM InflateInStep == Spec => []InStep
<1>1. IInv => InStep
  BY DEF IInv, Within, FedInv, InStep
<1>. QED  BY <1>1, Invariant, PTL
-----------------------------------------------------------------------------
(* What is written and what is reported, on files as RFC 1950 and RFC 1952   *)
(* have them.                                                                 *)

\* up to p nothing is rejected
Accepted(f, p) == \A q \in 1 .. p : f[q].role # "bad"
IsLast(f, p) == IsWhole(f, p) /\ \A q \in p + 1 .. Len(f) : ~IsWhole(f, q)

\* in front of a header: all before it is whole and written
BetweenInv == pc \in {"magic", "fixed"} =>
  /\ IsWhole(file, rd) /\ out = OfFile(file, 0)[rd] /\ ~zend
  /\ IF rd = 0 THEN want ELSE ~want /\ ret = "end"
  /\ pc = "fixed" => IsGzip(file, rd)

\* in the header of the first member, which has a name: nothing that was given
\* to inflate reaches behind the name
Named == pc \in {"xlen", "feed", "fetchextra", "extra", "name", "fetchname", "feedname"}
NamedInv == Named =>
  /\ want /\ HasNamedHeader(file) /\ ~zend /\ out = <<>> /\ Accepted(file, zin)
  /\ pc \in {"xlen", "feed"} => rd = 0
  /\ pc = "xlen" => file[3].extra
  /\ pc = "feed" => (IF file[3].extra THEN Fixed + 2 ELSE Fixed) + xlen = NameBegins(file)
  /\ pc \in {"fetchextra", "extra"} => rd + xlen = NameBegins(file)
  /\ InName => namefrom = NameBegins(file)
  /\ pc \in {"name", "fetchname"} => \A p \in namefrom + 1 .. rd : file[p].role # "nul"
  /\ pc = "feedname" => \A p \in namefrom + 1 .. rd - 1 : file[p].role # "nul"

\* in a member, or behind one of which nothing is left in the buffer: every
\* member that has ended is followed by one
MemberInv == pc \in {"member", "inflate"} =>
  /\ Accepted(file, rd) /\ out = OfFile(file, 0)[rd]
  /\ IF ret = "end" THEN pc = "member" /\ zend /\ rd > 0 /\ file[rd].role = "end" /\ avail = 0
     ELSE ret = "ok" /\ ~zend /\ \A p \in 1 .. rd : IsWhole(file, p) => IsMember(file, p)

\* what each result says of the file
OkAt(f, o) == IsWhole(f, Len(f)) /\ Len(f) > 0 /\ o = OfFile(f, 0)[Len(f)]
EndAt(j, o) == \E p \in 0 .. Len(j.file) :
  /\ IsLast(j.file, p) /\ ~IsMember(j.file, p) /\ o = OfFile(j.file, 0)[p]
  /\ p > 0 \/ j.wantname
DataAt(j) ==
  (j.wantname => \A p \in 1 .. Len(j.file) : j.file[p].role = "flags" => ~j.file[p].name) =>
    \A p \in 0 .. Len(j.file) : IsLast(j.file, p) =>
       Len(j.file) = 0 \/ (p < Len(j.file) /\ (p = 0 \/ IsMember(j.file, p)))
DoneInv == pc = "done" =>
  /\ ret = "ok" => OkAt(file, out)
  /\ ret = "end" => EndAt(job, out)
  /\ ret = "data" => DataAt(job)

OutInv == IsFormat(file) /\ (want => job.wantname) /\ BetweenInv /\ NamedInv /\ MemberInv /\ DoneInv

\* A fetch that falls short has come to the end of the file.
LEMMA FellShort ==
  ASSUME Len(file) \in Nat, Within, NEW need \in Nat, need <= Cap, Fetch(need, "data")
  PROVE  got' = Len(file) /\ rd' = rd /\ Len(file) - rd < need
<1>. USE SizesAssumption DEF Within, avail
<1>1. avail < need /\ rd' = rd
  BY DEF Fetch, buffer
<1>. DEFINE n == IF Len(file) - got < Room(need) THEN Len(file) - got ELSE Room(need)
<1>2. Room(need) \in Nat /\ avail + Room(need) >= need
  <2>1. CASE Moves(need)
    BY <2>1 DEF Room
  <2>2. CASE ~Moves(need)
    BY <2>2 DEF Room, Moves, FetchRoom
  <2>. QED  BY <2>1, <2>2
<1>3. got' = got + n /\ avail + n < need
  <2>1. got' = got + n /\ "data" = IF avail + n >= need THEN "ok" ELSE "data"
    <3>1. ~(avail >= need)
      BY <1>1
    <3>. HIDE DEF n
    <3>. QED  BY <3>1 DEF Fetch, n
  <2>2. n \in Nat /\ avail \in Nat
    BY <1>2
  <2>. HIDE DEF n
  <2>. QED  BY <2>1, <2>2
<1>4. n = Len(file) - got
  <2>1. CASE Len(file) - got < Room(need)
    BY <2>1
  <2>2. CASE ~(Len(file) - got < Room(need))
    BY <1>2, <1>3, <2>2
  <2>. QED  BY <2>1, <2>2
<1>. HIDE DEF n
<1>. QED  BY <1>1, <1>3, <1>4

\* A fetch that succeeds has what was asked for.
LEMMA FetchedIn ==
  ASSUME Len(file) \in Nat, Within, NEW need \in Nat, NEW result, Fetch(need, result)
  PROVE  rd' = rd /\ rd \in 0 .. Len(file) /\ (result = "ok" => rd + need <= Len(file))
<1>1. /\ rd' = rd /\ got <= got' /\ got' <= Len(file) /\ got' \in Nat
      /\ result = "ok" => got' - rd >= need
  BY Fetched
<1>2. PICK g \in Nat : g = got'
  BY <1>1
<1>3. g <= Len(file) /\ got <= g /\ rd \in Nat /\ rd <= got /\ got \in Nat
  BY <1>1, <1>2 DEF Within
<1>4. rd \in 0 .. Len(file)
  BY <1>3
<1>5. g - rd >= need => rd + need <= Len(file)
  BY <1>3
<1>. QED  BY <1>1, <1>2, <1>4, <1>5

\* Behind a whole member that no other follows.
LEMMA NoMemberFollows ==
  ASSUME Len(file) \in Nat, IsFormat(file), rd \in 0 .. Len(file), IsWhole(file, rd),
         ~IsMember(file, rd), out = OfFile(file, 0)[rd], rd > 0 \/ job.wantname
  PROVE  EndAt(job, out)
<1>1. IsLast(file, rd)
  <2>1. ASSUME NEW q \in rd + 1 .. Len(file), IsWhole(file, q) PROVE FALSE
    <3>1. q \in 0 .. Len(file) /\ rd < q
      OBVIOUS
    <3>. QED  BY <2>1, <3>1 DEF IsFormat
  <2>. QED  BY <2>1 DEF IsLast
<1>. QED  BY <1>1 DEF EndAt, file

\* The header of a member is in order, and not fed.
LEMMA MemberFollows ==
  ASSUME Len(file) \in Nat, IsFormat(file), rd \in 0 .. Len(file), IsWhole(file, rd), IsMember(file, rd)
  PROVE  /\ Accepted(file, rd)
         /\ \A p \in 1 .. rd : IsWhole(file, p) => IsMember(file, p)
<1>1. ASSUME NEW p \in 1 .. rd, IsWhole(file, p) PROVE IsMember(file, p)
  <2>1. CASE p = rd
    BY <2>1
  <2>2. CASE p # rd
    <3>1. p \in 0 .. Len(file) /\ p < rd
      BY <2>2
    <3>. QED  BY <1>1, <3>1 DEF IsFormat
  <2>. QED  BY <2>1, <2>2
<1>. QED  BY <1>1 DEF IsWhole, Accepted
\* The magic bytes tell whether there is another member.
LEMMA MagicOut ==
  ASSUME IInv, OutInv, Magic
  PROVE  OutInv'
<1>. USE SizesAssumption DEF IInv
<1>1. PICK r \in Outcomes :
        /\ Fetch(2, r)
        /\ IF r # "ok" THEN Parsed(IF r = "errno" THEN r ELSE "end")
           ELSE IF file[rd + 1].role = "1F" /\ file[rd + 2].role = "8B"
             THEN pc' = "fixed" /\ UNCHANGED ret
           ELSE Parsed(IF file[rd + 1].role = "78" THEN "ok" ELSE "end")
  BY DEF Magic
<1>2. pc = "magic" /\ job' = job /\ file' = file /\ UNCHANGED <<zin, zend, want, xlen, namefrom, named, out>>
  BY DEF Magic, file, inflater, header
<1>3. /\ IsFormat(file) /\ IsWhole(file, rd) /\ out = OfFile(file, 0)[rd] /\ ~zend
      /\ IF rd = 0 THEN want ELSE ~want /\ ret = "end"
      /\ want => job.wantname
  BY <1>2 DEF OutInv, BetweenInv
<1>4. rd' = rd /\ rd \in 0 .. Len(file) /\ (r = "ok" => rd + 2 <= Len(file))
  BY <1>1, FetchedIn
<1>5. rd > 0 \/ job.wantname
  BY <1>3, <1>4
<1>6. CASE r = "ok" /\ file[rd + 1].role = "1F" /\ file[rd + 2].role = "8B"
  <2>1. pc' = "fixed" /\ ret' = ret
    BY <1>1, <1>6
  <2>2. IsGzip(file, rd)
    BY <1>4, <1>6 DEF IsGzip
  <2>. QED  BY <1>2, <1>3, <1>4, <2>1, <2>2 DEF OutInv, BetweenInv, NamedInv, Named, MemberInv, DoneInv
<1>7. CASE r = "ok" /\ ~(file[rd + 1].role = "1F" /\ file[rd + 2].role = "8B") /\ file[rd + 1].role = "78"
  <2>1. pc' = "member" /\ ret' = "ok"
    BY <1>1, <1>7 DEF Parsed
  <2>2. IsMember(file, rd)
    BY <1>4, <1>7 DEF IsMember
  <2>3. Accepted(file, rd) /\ \A p \in 1 .. rd : IsWhole(file, p) => IsMember(file, p)
    BY <1>3, <1>4, <2>2, MemberFollows
  <2>. QED  BY <1>2, <1>3, <1>4, <2>1, <2>3 DEF OutInv, BetweenInv, NamedInv, Named, MemberInv, DoneInv
<1>8. CASE r = "errno"
  <2>1. pc' = "done" /\ ret' = "errno"
    BY <1>1, <1>8 DEF Parsed
  <2>. QED  BY <1>2, <1>3, <2>1 DEF OutInv, BetweenInv, NamedInv, Named, MemberInv, DoneInv
<1>9. CASE \/ r = "data"
           \/ r = "ok" /\ ~(file[rd + 1].role = "1F" /\ file[rd + 2].role = "8B") /\ file[rd + 1].role # "78"
  <2>1. pc' = "done" /\ ret' = "end"
    BY <1>1, <1>9 DEF Parsed
  <2>2. ~IsMember(file, rd)
    <3>1. CASE r = "data"
      <4>1. Len(file) - rd < 2
        BY <1>1, <3>1, FellShort
      <4>. QED  BY <1>4, <4>1 DEF IsMember, IsGzip
    <3>2. CASE r # "data"
      BY <1>9, <3>2 DEF IsMember, IsGzip
    <3>. QED  BY <3>1, <3>2
  <2>3. EndAt(job, out)
    BY <1>3, <1>4, <1>5, <2>2, NoMemberFollows
  <2>. QED  BY <1>2, <1>3, <2>1, <2>3 DEF OutInv, BetweenInv, NamedInv, Named, MemberInv, DoneInv
<1>. QED  BY <1>6, <1>7, <1>8, <1>9 DEF Outcomes

\* The fixed part of a header: it is all there, or the file is cut short.
LEMMA FixedHeaderOut ==
  ASSUME IInv, OutInv, FixedHeader
  PROVE  OutInv'
<1>. USE SizesAssumption DEF IInv
<1>1. PICK r \in Outcomes :
        /\ Fetch(Fixed, r)
        /\ IF r # "ok" THEN Parsed(r)
           ELSE IF ~want \/ ~HasName THEN Parsed("ok")
           ELSE pc' = (IF HasExtra THEN "xlen" ELSE "feed") /\ UNCHANGED ret
  BY DEF FixedHeader
<1>2. /\ pc = "fixed" /\ job' = job /\ file' = file /\ xlen' = 0
      /\ UNCHANGED <<zin, zend, want, namefrom, named, out>>
  BY DEF FixedHeader, file, inflater
<1>3. /\ IsFormat(file) /\ IsWhole(file, rd) /\ out = OfFile(file, 0)[rd] /\ ~zend
      /\ IF rd = 0 THEN want ELSE ~want /\ ret = "end"
      /\ IsGzip(file, rd) /\ (want => job.wantname)
  BY <1>2 DEF OutInv, BetweenInv
<1>4. rd' = rd /\ rd \in 0 .. Len(file) /\ (r = "ok" => rd + Fixed <= Len(file))
  BY <1>1, FetchedIn
<1>5. IsMember(file, rd)
  BY <1>3 DEF IsMember
<1>6. Accepted(file, rd) /\ \A p \in 1 .. rd : IsWhole(file, p) => IsMember(file, p)
  BY <1>3, <1>4, <1>5, MemberFollows
<1>7. CASE r = "ok" /\ (~want \/ ~HasName)
  <2>1. pc' = "member" /\ ret' = "ok"
    BY <1>1, <1>7 DEF Parsed
  <2>. QED  BY <1>2, <1>3, <1>4, <1>6, <2>1 DEF OutInv, BetweenInv, NamedInv, Named, MemberInv, DoneInv
<1>8. CASE r = "ok" /\ want /\ HasName
  <2>1. pc' = (IF HasExtra THEN "xlen" ELSE "feed") /\ ret' = ret /\ rd = 0
    BY <1>1, <1>3, <1>8
  <2>2. HasNamedHeader(file) /\ (HasExtra <=> file[3].extra)
    BY <1>3, <1>4, <1>8, <2>1 DEF HasNamedHeader, HasName, HasExtra
  <2>3. out = <<>> /\ zin = 0
    <3>1. out = <<>>
      BY <1>3, <2>1, OfFileBefore
    <3>2. zin = rd
      BY <1>2 DEF FedInv, InName, ErrorEnds
    <3>. QED  BY <2>1, <3>1, <3>2
  <2>4. Accepted(file, zin)
    BY <2>3 DEF Accepted
  <2>5. pc' = "feed" => (IF file[3].extra THEN Fixed + 2 ELSE Fixed) + xlen' = NameBegins(file)
    BY <1>2, <2>1, <2>2 DEF NameBegins
  <2>. QED  BY <1>2, <1>3, <1>4, <1>8, <2>1, <2>2, <2>3, <2>4, <2>5
           DEF OutInv, BetweenInv, NamedInv, Named, MemberInv, DoneInv, InName
<1>9. CASE r = "errno"
  <2>1. pc' = "done" /\ ret' = "errno"
    BY <1>1, <1>9 DEF Parsed
  <2>. QED  BY <1>2, <1>3, <2>1 DEF OutInv, BetweenInv, NamedInv, Named, MemberInv, DoneInv
<1>10. CASE r = "data"
  <2>1. pc' = "done" /\ ret' = "data"
    BY <1>1, <1>10 DEF Parsed
  <2>2. Len(file) - rd < Fixed
    BY <1>1, <1>10, FellShort
  <2>3. ASSUME NEW p \in 0 .. Len(file), IsLast(file, p)
        PROVE  p < Len(file) /\ (p = 0 \/ IsMember(file, p))
    <3>1. p >= rd
      <4>1. SUFFICES ASSUME p < rd PROVE FALSE
        BY <1>4
      <4>2. rd \in p + 1 .. Len(file)
        BY <1>4, <4>1
      <4>. QED  BY <1>3, <2>3, <4>2 DEF IsLast
    <3>2. p = rd
      <4>1. SUFFICES ASSUME rd < p PROVE FALSE
        BY <1>4, <3>1
      <4>2. p >= rd + Fixed
        BY <1>3, <1>4, <2>3, <4>1 DEF IsFormat, IsLast
      <4>. QED  BY <1>4, <2>2, <4>2
    <3>. QED  BY <1>3, <1>5, <3>2 DEF IsGzip
  <2>4. DataAt(job)
    BY <2>3 DEF DataAt, file
  <2>. QED  BY <1>2, <1>3, <2>1, <2>4 DEF OutInv, BetweenInv, NamedInv, Named, MemberInv, DoneInv
<1>. QED  BY <1>7, <1>8, <1>9, <1>10 DEF Outcomes
(* The header that has a name *)

\* Up to the byte behind the name there is neither content nor an end.
LEMMA NoneInHeader ==
  ASSUME IsFormat(file), HasNamedHeader(file), NEW p \in 1 .. Len(file),
         \A z \in NameBegins(file) + 1 .. p - 1 : file[z].role # "nul"
  PROVE  file[p].role \notin {"data", "end"}
BY DEF IsFormat

\* A file that is asked for the name it has is left out of NoFalseAlarmPlain.
LEMMA NamedIsNotPlain ==
  ASSUME Len(file) \in Nat, HasNamedHeader(file), job.wantname
  PROVE  DataAt(job)
<1>1. 3 \in 1 .. Len(file) /\ file[3].role = "flags" /\ file[3].name
  BY DEF HasNamedHeader
<1>. QED  BY <1>1 DEF DataAt, file

\* The next n bytes of the buffer, none of which ends a member, are fed.
LEMMA FedHeader ==
  ASSUME Within, zin = rd, ~zend, Accepted(file, zin), NEW n \in Nat, n <= avail, NEW r, FeedHeader(n, r),
         \A p \in rd + 1 .. rd + n : file[p].role # "end"
  PROVE  /\ r \in {"ok", "data"} /\ ~zend' /\ (file' = file => Accepted(file', zin'))
         /\ r = "ok" => rd' = rd + n /\ zin' = zin + n
<1>1. PICK c \in 0 .. n :
        /\ TakesAll(rd, n, c) /\ zin' = zin + c /\ zend' = (InflateResult(rd, n, c) = "end")
        /\ rd' = rd + c
        /\ r = IF avail - c # 0 THEN "data" ELSE InflateResult(rd, n, c)
  BY DEF FeedHeader
<1>2. InflateResult(rd, n, c) \in {"ok", "data"}
  <2>1. c > 0 => rd + c \in rd + 1 .. rd + n
    BY DEF Within
  <2>. QED  BY <2>1 DEF InflateResult
<1>3. ASSUME NEW q \in 1 .. rd + c PROVE file[q].role # "bad"
  <2>1. CASE q <= rd
    BY <1>3, <2>1 DEF Accepted, Within
  <2>2. CASE ~(q <= rd)
    <3>1. c > 0 /\ q \in rd + 1 .. rd + c
      BY <1>3, <2>2 DEF Within
    <3>. QED  BY <1>1, <3>1 DEF TakesAll, Takes, Rejects
  <2>. QED  BY <2>1, <2>2
<1>4. Accepted(file, rd + c)
  BY <1>3 DEF Accepted
<1>5. avail - c = 0 => c = n
  BY DEF Within, avail
<1>6. r \in {"ok", "data"} /\ (r = "ok" => avail - c = 0)
  BY <1>1, <1>2
<1>. QED  BY <1>1, <1>2, <1>4, <1>5, <1>6

\* What holds in the header of the first member.
LEMMA InNamed ==
  ASSUME IInv, OutInv, Named
  PROVE  /\ want /\ job.wantname /\ HasNamedHeader(file) /\ IsFormat(file) /\ ~zend /\ out = <<>>
         /\ Accepted(file, zin) /\ ret \notin {"data", "errno"}
         /\ ~InName => zin = rd
         /\ Len(file) \in Nat /\ rd \in Nat /\ rd <= Len(file) /\ NameBegins(file) \in Nat
<1>1. want /\ HasNamedHeader(file) /\ ~zend /\ out = <<>> /\ Accepted(file, zin)
  BY DEF OutInv, NamedInv
<1>2. ret \notin {"data", "errno"}
  BY DEF IInv, ErrorEnds, Named
<1>3. NameBegins(file) \in Nat
  <2>1. Len(file) > Fixed /\ file[Fixed + 1].role = "xlen" => file[Fixed + 1].n \in Nat
    BY SizesAssumption DEF IInv, IsFile
  <2>. QED  BY <2>1, SizesAssumption DEF NameBegins
<1>. QED  BY <1>1, <1>2, <1>3 DEF OutInv, IInv, FedInv, Within

\* The fetches, and the length of the extra field.
LEMMA HeaderFetchOut ==
  ASSUME IInv, OutInv, ExtraLength \/ FetchExtra \/ FetchName
  PROVE  OutInv'
<1>. USE SizesAssumption
<1>1. /\ Named /\ job' = job /\ file' = file
      /\ UNCHANGED <<zin, zend, want, namefrom, out>>
  BY DEF ExtraLength, FetchExtra, FetchName, Named, file, inflater, header
<1>2. /\ want /\ job.wantname /\ HasNamedHeader(file) /\ IsFormat(file) /\ ~zend /\ out = <<>>
      /\ Accepted(file, zin) /\ ret \notin {"data", "errno"} /\ Len(file) \in Nat
  BY <1>1, InNamed
<1>3. DataAt(job)
  BY <1>2, NamedIsNotPlain
<1>4. \/ pc' = "done" /\ ret' \in {"data", "errno"}
      \/ Named' /\ NamedInv'
  <2>1. CASE ExtraLength
    <3>1. PICK r \in Outcomes :
            /\ Fetch(Fixed + 2, r)
            /\ IF r # "ok" THEN Parsed(r) /\ UNCHANGED xlen
               ELSE /\ xlen' = IF file[rd + Fixed + 1].role = "xlen" THEN file[rd + Fixed + 1].n ELSE 0
                    /\ pc' = "feed" /\ UNCHANGED ret
      BY <2>1 DEF ExtraLength
    <3>2. CASE r = "ok"
      <4>1. pc' = "feed" /\ rd = 0 /\ file[3].extra
        BY <2>1, <3>1, <3>2 DEF ExtraLength, OutInv, NamedInv, Named
      <4>2. rd' = rd /\ rd + (Fixed + 2) <= Len(file)
        BY <3>1, <3>2, FetchedIn DEF IInv
      <4>3. Len(file) > Fixed /\ rd + Fixed + 1 = Fixed + 1
        BY <1>2, <4>1, <4>2
      <4>4. Fixed + 2 + xlen' = NameBegins(file)
        BY <3>1, <3>2, <4>1, <4>3 DEF NameBegins
      <4>. QED  BY <1>1, <1>2, <4>1, <4>2, <4>4 DEF NamedInv, Named, InName
    <3>. QED  BY <3>1, <3>2 DEF Outcomes, Parsed
  <2>2. CASE FetchExtra
    <3>1. PICK r \in Outcomes :
            /\ Fetch(1, r) /\ IF r # "ok" THEN Parsed(r) ELSE pc' = "extra" /\ UNCHANGED ret
      BY <2>2 DEF FetchExtra
    <3>2. xlen' = xlen /\ rd + xlen = NameBegins(file) /\ rd' = rd
      BY <1>1, <2>2, <3>1, FetchedIn DEF FetchExtra, header, OutInv, NamedInv, IInv
    <3>. QED  BY <1>1, <1>2, <3>1, <3>2 DEF Outcomes, Parsed, NamedInv, Named, InName
  <2>3. CASE FetchName
    <3>1. PICK r \in Outcomes :
            /\ Fetch(1, r) /\ IF r # "ok" THEN Parsed(r) ELSE pc' = "name" /\ UNCHANGED ret
      BY <2>3 DEF FetchName
    <3>2. /\ namefrom = NameBegins(file) /\ rd' = rd
          /\ \A p \in namefrom + 1 .. rd : file[p].role # "nul"
      BY <1>1, <2>3, <3>1, FetchedIn DEF FetchName, OutInv, NamedInv, InName, IInv
    <3>. QED  BY <1>1, <1>2, <3>1, <3>2 DEF Outcomes, Parsed, NamedInv, Named, InName
  <2>. QED  BY <2>1, <2>2, <2>3
<1>5. Named' => pc' \notin {"magic", "fixed", "member", "inflate", "done"}
  BY DEF Named
<1>. QED  BY <1>1, <1>2, <1>3, <1>4, <1>5 DEF OutInv, BetweenInv, NamedInv, Named, MemberInv, DoneInv
\* The fixed part and the extra field are fed out of the buffer.
LEMMA HeaderFeedOut ==
  ASSUME IInv, OutInv, FeedFixed \/ FeedExtra
  PROVE  OutInv'
<1>. USE SizesAssumption
<1>1. Named /\ ~InName /\ job' = job /\ file' = file /\ want' = want /\ out' = out
  BY DEF FeedFixed, FeedExtra, Named, InName, file
<1>2. /\ want /\ job.wantname /\ HasNamedHeader(file) /\ IsFormat(file) /\ ~zend /\ out = <<>>
      /\ Accepted(file, zin) /\ ret \notin {"data", "errno"} /\ Len(file) \in Nat
      /\ zin = rd /\ rd \in Nat /\ NameBegins(file) \in Nat
  BY <1>1, InNamed
<1>. DEFINE size == IF FeedFixed THEN IF HasExtra THEN Fixed + 2 ELSE Fixed ELSE chunk
            left == IF FeedFixed THEN xlen ELSE xlen - chunk
<1>3. /\ size \in Nat /\ size <= avail /\ left \in Nat /\ rd + size + left = NameBegins(file)
  <2>1. CASE FeedFixed
    <3>1. pc = "feed" /\ rd = 0 /\ (IF file[3].extra THEN Fixed + 2 ELSE Fixed) + xlen = NameBegins(file)
          /\ (HasExtra <=> file[3].extra) /\ xlen \in Nat
      BY <1>1, <1>2, <2>1 DEF FeedFixed, OutInv, NamedInv, IInv, HeaderInv, HasExtra, HasNamedHeader
    <3>2. avail >= IF HasExtra THEN Fixed + 2 ELSE Fixed
      BY <3>1 DEF IInv, HeaderInv
    <3>. QED  BY <2>1, <3>1, <3>2 DEF IInv, Within, avail
  <2>2. CASE ~FeedFixed
    <3>1. pc = "extra" /\ rd + xlen = NameBegins(file) /\ xlen \in Nat /\ avail \in Nat
      BY <1>1, <2>2 DEF FeedExtra, OutInv, NamedInv, IInv, HeaderInv, Within, avail
    <3>2. chunk \in Nat /\ chunk <= avail /\ chunk <= xlen
      BY <3>1 DEF chunk
    <3>. QED  BY <1>2, <2>2, <3>1, <3>2
  <2>. QED  BY <2>1, <2>2
<1>4. PICK r \in Outcomes \cup {"end"} :
        /\ FeedHeader(size, r)
        /\ IF r # "ok" THEN Parsed(r)
           ELSE pc' = (IF left > 0 THEN "fetchextra" ELSE "name") /\ namefrom' = rd' /\ UNCHANGED ret
  BY DEF FeedFixed, FeedExtra
<1>5. xlen' = left
  BY DEF FeedFixed, FeedExtra
<1>. HIDE DEF size, left
<1>6. ASSUME NEW p \in rd + 1 .. rd + size PROVE file[p].role # "end"
  <2>1. p \in 1 .. Len(file)
    BY <1>2, <1>3 DEF IInv, Within, avail
  <2>2. \A z \in NameBegins(file) + 1 .. p - 1 : file[z].role # "nul"
    BY <1>2, <1>3
  <2>. QED  BY <1>2, <2>1, <2>2, NoneInHeader
<1>7. /\ r \in {"ok", "data"} /\ ~zend' /\ Accepted(file, zin')
      /\ r = "ok" => rd' = rd + size
  BY <1>1, <1>2, <1>3, <1>4, <1>6, FedHeader DEF IInv
<1>8. CASE r = "data"
  <2>1. pc' = "done" /\ ret' = "data"
    BY <1>4, <1>8 DEF Parsed
  <2>2. DataAt(job)
    BY <1>2, NamedIsNotPlain
  <2>. QED  BY <1>1, <1>2, <2>1, <2>2 DEF OutInv, BetweenInv, NamedInv, Named, MemberInv, DoneInv
<1>9. CASE r = "ok"
  <2>1. pc' = (IF left > 0 THEN "fetchextra" ELSE "name") /\ namefrom' = rd'
    BY <1>4, <1>9
  <2>2. rd' + left = NameBegins(file) /\ rd' \in Nat
    BY <1>2, <1>3, <1>7, <1>9
  <2>3. left = 0 => \A p \in namefrom' + 1 .. rd' : file[p].role # "nul"
    <3>1. \A k \in Nat : k + 1 .. k = {}
      OBVIOUS
    <3>. QED  BY <2>1, <2>2, <3>1
  <2>4. left > 0 \/ (left = 0 /\ rd' = NameBegins(file))
    BY <1>2, <1>3, <2>2
  <2>5. pc' \in {"fetchextra", "name"} /\ (pc' = "fetchextra" <=> left > 0)
    BY <2>1
  <2>. QED  BY <1>1, <1>2, <1>3, <1>5, <1>7, <2>1, <2>2, <2>3, <2>4, <2>5
           DEF OutInv, BetweenInv, NamedInv, Named, MemberInv, DoneInv, InName
<1>. QED  BY <1>7, <1>8, <1>9

\* The name is looked for in the buffer, up to its end or that of the buffer.
LEMMA NameOut ==
  ASSUME IInv, OutInv, Name
  PROVE  OutInv'
<1>1. /\ Named /\ InName /\ pc = "name" /\ job' = job /\ file' = file
      /\ UNCHANGED <<got, zin, zend, want, xlen, namefrom, named, ret, out>>
  BY DEF Name, Named, InName, file, inflater, header
<1>2. /\ want /\ job.wantname /\ HasNamedHeader(file) /\ IsFormat(file) /\ ~zend /\ out = <<>>
      /\ Accepted(file, zin)
  BY <1>1, InNamed
<1>3. /\ namefrom = NameBegins(file) /\ \A p \in namefrom + 1 .. rd : file[p].role # "nul"
  BY <1>1 DEF OutInv, NamedInv
<1>4. /\ rd \in Nat /\ got \in Nat /\ namefrom \in Nat /\ namefrom <= rd /\ rd <= got
  BY <1>1 DEF IInv, Within, FedInv
<1>. DEFINE ends == {p \in rd + 1 .. got : file[p].role = "nul"}
<1>5. \/ ends = {} /\ rd' = got /\ pc' = "fetchname"
      \/ \E p \in ends : (\A q \in ends : p <= q) /\ rd' = p /\ pc' = "feedname"
  BY DEF Name
<1>6. CASE ends = {} /\ rd' = got /\ pc' = "fetchname"
  <2>1. ASSUME NEW p \in namefrom + 1 .. got PROVE file[p].role # "nul"
    <3>1. p \in namefrom + 1 .. rd \/ p \in rd + 1 .. got
      BY <1>4
    <3>. QED  BY <1>3, <1>6, <3>1
  <2>. QED  BY <1>1, <1>2, <1>3, <1>6, <2>1 DEF OutInv, BetweenInv, NamedInv, Named, MemberInv, DoneInv, InName
<1>7. CASE \E p \in ends : (\A q \in ends : p <= q) /\ rd' = p /\ pc' = "feedname"
  <2>1. PICK e \in ends : (\A q \in ends : e <= q) /\ rd' = e /\ pc' = "feedname"
    BY <1>7
  <2>2. ASSUME NEW p \in namefrom + 1 .. e - 1 PROVE file[p].role # "nul"
    <3>1. p \in namefrom + 1 .. rd \/ (p \in rd + 1 .. got /\ ~(e <= p))
      BY <1>4
    <3>. QED  BY <1>3, <2>1, <3>1
  <2>. QED  BY <1>1, <1>2, <1>3, <2>1, <2>2 DEF OutInv, BetweenInv, NamedInv, Named, MemberInv, DoneInv, InName
<1>. QED  BY <1>5, <1>6, <1>7

\* The copy of the name is fed; then the content of the first member begins.
LEMMA FeedNameOut ==
  ASSUME IInv, OutInv, FeedName
  PROVE  OutInv'
<1>1. /\ Named /\ InName /\ pc = "feedname" /\ job' = job /\ file' = file
      /\ UNCHANGED <<got, rd, off, want, xlen, namefrom, out>>
  BY DEF FeedName, Named, InName, file, buffer
<1>2. /\ want /\ job.wantname /\ HasNamedHeader(file) /\ IsFormat(file) /\ ~zend /\ out = <<>>
      /\ Accepted(file, zin) /\ Len(file) \in Nat
  BY <1>1, InNamed
<1>3. /\ namefrom = NameBegins(file) /\ \A p \in namefrom + 1 .. rd - 1 : file[p].role # "nul"
  BY <1>1 DEF OutInv, NamedInv
<1>4. /\ rd \in Nat /\ got \in Nat /\ namefrom \in Nat /\ namefrom <= rd /\ rd <= Len(file)
      /\ zin = namefrom /\ copied \in Nat /\ namefrom + copied = rd
  BY <1>1, <1>2 DEF IInv, Within, FedInv, copied
<1>5. PICK n \in 0 .. copied :
        /\ TakesAll(namefrom, copied, n)
        /\ zend' = (InflateResult(namefrom, copied, n) = "end")
        /\ Parsed(IF n < copied THEN "data" ELSE InflateResult(namefrom, copied, n))
  BY DEF FeedName
<1>6. ASSUME NEW p \in 1 .. rd PROVE file[p].role \notin {"data", "end"}
  <2>1. p \in 1 .. Len(file)
    BY <1>2, <1>4
  <2>2. \A z \in NameBegins(file) + 1 .. p - 1 : file[z].role # "nul"
    BY <1>3, <1>4
  <2>. QED  BY <1>2, <2>1, <2>2, NoneInHeader
<1>7. InflateResult(namefrom, copied, n) \in {"ok", "data"}
  <2>1. n > 0 => namefrom + n \in 1 .. rd
    BY <1>4
  <2>. QED  BY <1>2, <1>6, <2>1 DEF InflateResult
<1>8. CASE n < copied \/ InflateResult(namefrom, copied, n) = "data"
  <2>1. pc' = "done" /\ ret' = "data"
    BY <1>5, <1>8 DEF Parsed
  <2>2. DataAt(job)
    BY <1>2, NamedIsNotPlain
  <2>. QED  BY <1>1, <1>2, <2>1, <2>2 DEF OutInv, BetweenInv, NamedInv, Named, MemberInv, DoneInv
<1>9. CASE n = copied /\ InflateResult(namefrom, copied, n) = "ok"
  <2>1. pc' = "member" /\ ret' = "ok"
    <3>1. ~(n < copied)
      BY <1>4, <1>9
    <3>. QED  BY <1>5, <1>9, <3>1 DEF Parsed
  <2>2. ASSUME NEW q \in 1 .. rd PROVE file[q].role # "bad"
    <3>1. CASE q <= namefrom
      BY <1>2, <1>4, <3>1 DEF Accepted
    <3>2. CASE ~(q <= namefrom)
      <4>1. copied > 0 /\ q \in namefrom + 1 .. namefrom + copied
        BY <1>4, <3>2
      <4>. QED  BY <1>5, <1>9, <4>1 DEF TakesAll, Takes, Rejects
    <3>. QED  BY <3>1, <3>2
  <2>3. Accepted(file, rd)
    BY <2>2 DEF Accepted
  <2>4. out = OfFile(file, 0)[rd]
    <3>1. \A p \in 0 + 1 .. 0 + rd : file[p].role # "data"
      BY <1>4, <1>6
    <3>. QED  BY <1>2, <1>4, <3>1, OfFileNone
  <2>5. \A p \in 1 .. rd : ~IsWhole(file, p)
    BY <1>6 DEF IsWhole
  <2>. QED  BY <1>1, <1>2, <1>5, <1>9, <2>1, <2>3, <2>4, <2>5
           DEF OutInv, BetweenInv, NamedInv, Named, MemberInv, DoneInv
<1>10. n < copied \/ n = copied
  BY <1>4
<1>. QED  BY <1>7, <1>8, <1>9, <1>10
(* Between and in the members *)

LEMMA FetchMemberOut ==
  ASSUME IInv, OutInv, FetchMember
  PROVE  OutInv'
<1>. USE SizesAssumption
<1>1. PICK r \in Outcomes :
        /\ Fetch(1, r)
        /\ IF r # "ok" THEN ret' = EndOfFile(r) /\ pc' = "done" /\ UNCHANGED <<zend, want>>
           ELSE IF ret = "end" THEN AfterMember
           ELSE pc' = "inflate" /\ UNCHANGED <<ret, zend, want>>
  BY DEF FetchMember
<1>2. /\ pc = "member" /\ avail = 0 /\ job' = job /\ file' = file
      /\ UNCHANGED <<zin, xlen, namefrom, named, out>>
  BY DEF FetchMember, file
<1>3. /\ IsFormat(file) /\ Accepted(file, rd) /\ out = OfFile(file, 0)[rd] /\ (want => job.wantname)
      /\ \/ ret = "end" /\ zend /\ rd > 0 /\ file[rd].role = "end"
         \/ ret = "ok" /\ ~zend /\ \A p \in 1 .. rd : IsWhole(file, p) => IsMember(file, p)
  BY <1>2 DEF OutInv, MemberInv
<1>4. rd' = rd /\ rd \in 0 .. Len(file) /\ Len(file) \in Nat
  BY <1>1, FetchedIn DEF IInv
<1>5. CASE r = "data"
  <2>1. Len(file) = rd
    <3>1. Len(file) - rd < 1
      BY <1>1, <1>5, FellShort DEF IInv
    <3>. QED  BY <1>4, <3>1
  <2>2. pc' = "done" /\ ret' = IF ret = "end" THEN "ok" ELSE "data"
    BY <1>1, <1>5 DEF EndOfFile
  <2>3. CASE ret = "end"
    <3>1. OkAt(file, out)
      BY <1>3, <1>4, <2>1, <2>3 DEF OkAt, IsWhole, Accepted
    <3>. QED  BY <1>1, <1>2, <1>3, <1>5, <2>2, <2>3, <3>1
             DEF OutInv, BetweenInv, NamedInv, Named, MemberInv, DoneInv
  <2>4. CASE ret # "end"
    <3>1. ASSUME NEW p \in 0 .. Len(file), IsLast(file, p), Len(file) # 0
          PROVE  p < Len(file) /\ (p = 0 \/ IsMember(file, p))
      <4>1. p = 0 \/ IsMember(file, p)
        BY <1>3, <2>1, <2>4, <3>1 DEF IsLast
      <4>2. p = Len(file) => ~IsMember(file, p)
        BY <1>4 DEF IsMember, IsGzip
      <4>. QED  BY <1>4, <3>1, <4>1, <4>2
    <3>2. DataAt(job)
      BY <3>1 DEF DataAt, file
    <3>. QED  BY <1>1, <1>2, <1>3, <1>5, <2>2, <2>4, <3>2
             DEF OutInv, BetweenInv, NamedInv, Named, MemberInv, DoneInv
  <2>. QED  BY <2>3, <2>4
<1>6. CASE r = "errno"
  <2>1. pc' = "done" /\ ret' = "errno" /\ want' = want
    BY <1>1, <1>6 DEF EndOfFile
  <2>. QED  BY <1>2, <1>3, <2>1 DEF OutInv, BetweenInv, NamedInv, Named, MemberInv, DoneInv
<1>7. CASE r = "ok" /\ ret = "end"
  <2>1. pc' = "magic" /\ ret' = "end" /\ want' = FALSE /\ zend' = FALSE
    BY <1>1, <1>7 DEF AfterMember, NextMember
  <2>2. IsWhole(file, rd) /\ rd # 0
    BY <1>3, <1>4, <1>7 DEF IsWhole, Accepted
  <2>. QED  BY <1>2, <1>3, <1>4, <2>1, <2>2 DEF OutInv, BetweenInv, NamedInv, Named, MemberInv, DoneInv
<1>8. CASE r = "ok" /\ ret # "end"
  <2>1. pc' = "inflate" /\ ret' = ret /\ want' = want /\ zend' = zend
    BY <1>1, <1>8
  <2>. QED  BY <1>2, <1>3, <1>4, <1>8, <2>1 DEF OutInv, BetweenInv, NamedInv, Named, MemberInv, DoneInv
<1>. QED  BY <1>5, <1>6, <1>7, <1>8 DEF Outcomes

\* One call of inflate: what it puts out is what it has taken.
LEMMA InflateOut ==
  ASSUME IInv, OutInv, InflateMember
  PROVE  OutInv'
<1>1. PICK n \in 0 .. avail :
        /\ Takes(rd, n) /\ rd' = rd + n
        /\ \E r \in {InflateResult(rd, avail, n)} \cup (IF n > 0 THEN {InflateResult(rd, n, n)} ELSE {}) :
             \/ /\ out' = out \o Content(rd, n)
                /\ IF r = "end" /\ got > rd' THEN AfterMember
                   ELSE /\ ret' = r /\ zend' = (r = "end") /\ UNCHANGED want
                        /\ pc' = IF r = "data" THEN "done" ELSE "member"
             \/ ret' = "errno" /\ pc' = "done" /\ UNCHANGED <<want, out>>
  BY DEF InflateMember
<1>2. pc = "inflate" /\ job' = job /\ file' = file /\ got' = got
  BY DEF InflateMember, file
<1>3. /\ IsFormat(file) /\ Accepted(file, rd) /\ out = OfFile(file, 0)[rd] /\ (want => job.wantname)
      /\ ret = "ok" /\ ~zend /\ \A p \in 1 .. rd : IsWhole(file, p) => IsMember(file, p)
  BY <1>2 DEF OutInv, MemberInv
<1>4. /\ rd \in Nat /\ n \in Nat /\ got \in Nat /\ Len(file) \in Nat /\ got <= Len(file) /\ rd + n <= got
      /\ avail = got - rd /\ zin = rd
  BY <1>1, <1>2, <1>3 DEF IInv, Within, avail, FedInv, InName
<1>5. out \o Content(rd, n) = OfFile(file, 0)[rd + n]
  BY <1>3, <1>4, ContentIs, OfFileJoins
<1>6. Accepted(file, rd + n)
  <2>1. ASSUME NEW q \in 1 .. rd + n PROVE file[q].role # "bad"
    <3>1. CASE q <= rd
      BY <1>3, <3>1 DEF Accepted
    <3>2. CASE ~(q <= rd)
      <4>1. n > 0 /\ q \in rd + 1 .. rd + n
        BY <1>4, <3>2
      <4>. QED  BY <1>1, <4>1 DEF Takes, Rejects
    <3>. QED  BY <3>1, <3>2
  <2>. QED  BY <2>1 DEF Accepted
<1>. DEFINE Ended == n > 0 /\ file[rd + n].role = "end"
<1>7. ~Ended => \A p \in 1 .. rd + n : IsWhole(file, p) => p \in 1 .. rd
  <2>1. SUFFICES ASSUME ~Ended, NEW p \in 1 .. rd + n, IsWhole(file, p), ~(p <= rd) PROVE FALSE
    BY <1>4
  <2>2. n > 0 /\ p \in rd + 1 .. rd + n
    BY <1>4, <2>1
  <2>3. file[p].role = "end"
    BY <2>1, <2>2, <1>4 DEF IsWhole
  <2>4. p \in rd + 1 .. rd + n - 1
    BY <1>4, <2>1, <2>2, <2>3
  <2>. QED  BY <1>1, <2>2, <2>3, <2>4 DEF Takes
<1>8. PICK r \in {"ok", "data", "end"} :
        /\ r = "end" <=> Ended
        /\ r = "data" => n < avail /\ ~Takes(rd, n + 1)
        /\ \/ /\ out' = out \o Content(rd, n)
              /\ IF r = "end" /\ got > rd' THEN AfterMember
                 ELSE /\ ret' = r /\ zend' = (r = "end") /\ UNCHANGED want
                      /\ pc' = IF r = "data" THEN "done" ELSE "member"
           \/ ret' = "errno" /\ pc' = "done" /\ UNCHANGED <<want, out>>
  <2>1. PICK r \in {InflateResult(rd, avail, n), InflateResult(rd, n, n)} :
             \/ /\ out' = out \o Content(rd, n)
                /\ IF r = "end" /\ got > rd' THEN AfterMember
                   ELSE /\ ret' = r /\ zend' = (r = "end") /\ UNCHANGED want
                        /\ pc' = IF r = "data" THEN "done" ELSE "member"
             \/ ret' = "errno" /\ pc' = "done" /\ UNCHANGED <<want, out>>
    BY <1>1
  <2>2. ~(n < n)
    BY <1>4
  <2>3. /\ InflateResult(rd, avail, n) = IF Ended THEN "end" ELSE IF n < avail /\ ~Takes(rd, n + 1) THEN "data" ELSE "ok"
        /\ InflateResult(rd, n, n) = IF Ended THEN "end" ELSE "ok"
    BY <1>3, <2>2 DEF InflateResult
  <2>. HIDE DEF Ended
  <2>4. r \in {"ok", "data", "end"} /\ (r = "end" <=> Ended) /\ (r = "data" => n < avail /\ ~Takes(rd, n + 1))
    BY <2>1, <2>3
  <2>. QED  BY <2>1, <2>4
<1>9. CASE ret' = "errno" /\ pc' = "done" /\ UNCHANGED <<want, out>>
  BY <1>2, <1>3, <1>9 DEF OutInv, BetweenInv, NamedInv, Named, MemberInv, DoneInv
<1>. DEFINE Put == /\ out' = out \o Content(rd, n)
                   /\ IF r = "end" /\ got > rd' THEN AfterMember
                      ELSE /\ ret' = r /\ zend' = (r = "end") /\ UNCHANGED want
                           /\ pc' = IF r = "data" THEN "done" ELSE "member"
<1>10. CASE Put /\ r = "end"
  <2>1. n > 0 /\ file[rd + n].role = "end" /\ out' = OfFile(file, 0)[rd + n]
    BY <1>5, <1>8, <1>10
  <2>2. CASE got > rd'
    <3>1. pc' = "magic" /\ ret' = "end" /\ want' = FALSE /\ zend' = FALSE
      BY <1>10, <2>2 DEF AfterMember, NextMember
    <3>2. IsWhole(file, rd') /\ rd' # 0
      BY <1>1, <1>4, <1>6, <2>1 DEF IsWhole, Accepted
    <3>. QED  BY <1>1, <1>2, <1>3, <2>1, <3>1, <3>2 DEF OutInv, BetweenInv, NamedInv, Named, MemberInv, DoneInv
  <2>3. CASE ~(got > rd')
    <3>1. pc' = "member" /\ ret' = "end" /\ want' = want /\ zend'
      BY <1>10, <2>3
    <3>2. rd' > 0 /\ avail' = 0
      BY <1>1, <1>2, <1>4, <2>1, <2>3 DEF avail
    <3>. QED  BY <1>1, <1>2, <1>3, <1>6, <2>1, <3>1, <3>2
             DEF OutInv, BetweenInv, NamedInv, Named, MemberInv, DoneInv
  <2>. QED  BY <2>2, <2>3
<1>11. CASE Put /\ r = "ok"
  <2>1. pc' = "member" /\ ret' = "ok" /\ want' = want /\ ~zend'
    BY <1>11
  <2>2. \A p \in 1 .. rd' : IsWhole(file, p) => IsMember(file, p)
    BY <1>1, <1>3, <1>7, <1>8, <1>11
  <2>. QED  BY <1>1, <1>2, <1>3, <1>5, <1>6, <1>11, <2>1, <2>2
           DEF OutInv, BetweenInv, NamedInv, Named, MemberInv, DoneInv
<1>12. CASE Put /\ r = "data"
  <2>1. pc' = "done" /\ ret' = "data" /\ want' = want
    BY <1>12
  <2>2. ~Ended /\ n < avail /\ ~Takes(rd, n + 1)
    BY <1>8, <1>12
  <2>3. file[rd + n + 1].role = "bad"
    <3>1. SUFFICES ASSUME file[rd + n + 1].role # "bad" PROVE Takes(rd, n + 1)
      BY <2>2
    <3>2. ASSUME NEW p \in rd + 1 .. rd + (n + 1) PROVE ~Rejects(p)
      <4>1. CASE p <= rd + n
        BY <1>4, <1>6, <4>1 DEF Accepted, Rejects
      <4>2. CASE ~(p <= rd + n)
        <5>1. p = rd + n + 1
          BY <1>4, <4>2
        <5>. QED  BY <3>1, <5>1 DEF Rejects
      <4>. QED  BY <4>1, <4>2
    <3>3. ASSUME NEW p \in rd + 1 .. rd + (n + 1) - 1 PROVE file[p].role # "end"
      <4>1. n > 0 /\ (p = rd + n \/ p \in rd + 1 .. rd + n - 1)
        BY <1>4
      <4>. QED  BY <1>1, <2>2, <4>1 DEF Takes
    <3>. QED  BY <1>3, <1>4, <3>2, <3>3 DEF Takes
  <2>4. ASSUME NEW p \in 0 .. Len(file), IsLast(file, p)
        PROVE  p < Len(file) /\ (p = 0 \/ IsMember(file, p))
    <3>1. p <= rd + n
      <4>1. SUFFICES ASSUME ~(p <= rd + n) PROVE FALSE
        OBVIOUS
      <4>2. rd + n + 1 \in 1 .. p
        BY <1>4, <4>1
      <4>. QED  BY <2>3, <2>4, <4>2 DEF IsLast, IsWhole
    <3>2. p = 0 \/ p \in 1 .. rd
      BY <1>4, <1>7, <2>2, <2>4, <3>1 DEF IsLast
    <3>. QED  BY <1>3, <1>4, <2>2, <2>4, <3>1, <3>2 DEF IsLast
  <2>5. DataAt(job)
    BY <2>4 DEF DataAt, file
  <2>. QED  BY <1>2, <1>3, <2>1, <2>5 DEF OutInv, BetweenInv, NamedInv, Named, MemberInv, DoneInv
<1>. QED  BY <1>8, <1>9, <1>10, <1>11, <1>12

LEMMA InitOut ==
  ASSUME Init
  PROVE  OutInv
<1>1. IsFormat(file) /\ job.wantname \in BOOLEAN
  BY JobsAssumption DEF Init, file
<1>2. OfFile(file, 0)[0] = <<>> /\ IsWhole(file, 0) /\ Accepted(file, 0)
  BY OfFileBefore DEF IsWhole, Accepted
<1>. QED  BY <1>1, <1>2 DEF Init, OutInv, BetweenInv, NamedInv, Named, MemberInv, DoneInv

LEMMA StepOut ==
  ASSUME IInv, OutInv, [Next]_vars
  PROVE  OutInv'
<1>1. CASE EnterInflate
  <2>1. pc = "member" /\ pc' = "inflate" /\ avail # 0
    BY <1>1 DEF EnterInflate, IInv, Within, avail
  <2>. QED  BY <1>1, <2>1 DEF EnterInflate, buffer, inflater, header, file, avail, OutInv, BetweenInv, NamedInv,
                       Named, MemberInv, DoneInv, InName
<1>2. CASE Stopped \/ UNCHANGED vars
  BY <1>2 DEF Stopped, vars, buffer, inflater, header, file, avail, OutInv, BetweenInv, NamedInv,
              Named, MemberInv, DoneInv, InName
<1>. QED  BY <1>1, <1>2, MagicOut, FixedHeaderOut, HeaderFetchOut, HeaderFeedOut, NameOut, FeedNameOut,
             FetchMemberOut, InflateOut DEF Next

THEOREM Written == Spec => [](IInv /\ OutInv)
<1>1. Init => IInv /\ OutInv
  BY InitInv, InitOut
<1>2. IInv /\ OutInv /\ [Next]_vars => IInv' /\ OutInv'
  BY StepInv, StepOut
<1>. QED  BY <1>1, <1>2, PTL DEF Spec

\* What ungzlib_process_all returns is what it has done: with Z_OK the whole file
\* was written, with Z_STREAM_END all members up to what is none, each byte once
\* and in order, wherever the reads of the buffer have cut the file.
THEOREM HonestResult == Spec => []Honest
<1>1. IInv /\ OutInv => Honest
  <2>1. ASSUME NEW p PROVE Content(0, p) = OfFile(file, 0)[p]
    BY ContentIs
  <2>. QED  BY <2>1 DEF OutInv, DoneInv, OkAt, EndAt, IsLast, Honest, Whole, LastWhole, StartsMember, file
<1>. QED  BY <1>1, Written, PTL

\* An error is reported only for an empty file and for one whose members are
\* followed by a broken one, but for names that are asked for.
THEOREM NoFalseAlarmWithoutName == Spec => []NoFalseAlarmPlain
<1>1. IInv /\ OutInv => NoFalseAlarmPlain
  BY DEF OutInv, DoneInv, DataAt, IsLast, NoFalseAlarmPlain, NoFalseAlarm, Whole, LastWhole, StartsMember, file
<1>. QED  BY <1>1, Written, PTL
=============================================================================
