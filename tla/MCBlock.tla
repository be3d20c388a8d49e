------------------------------ MODULE MCBlock ------------------------------
(* Blocks written by hand, each with what it is good for; the data is what     *)
(* their entries stand for.                                                    *)
EXTENDS Block

Lit(x) == [litlen |-> x, dist |-> 0]
Match(l, x) == [litlen |-> l, dist |-> x]
Times(n, s) == Flat([j \in 1 .. n |-> s])
Row(from, n) == [j \in 1 .. n |-> Lit(from + j - 1)]

\* the bytes, behind those of before, that the entries stand for
RECURSIVE Expanded(_, _)
Expanded(before, todo) ==
  IF todo = <<>> THEN before
  ELSE LET e == Head(todo) IN
       Expanded(before \o (IF e.dist = 0 THEN <<e.litlen>>
                           ELSE [j \in 1 .. e.litlen |-> before[Len(before) - e.dist + 1 + ((j - 1) % e.dist)]]),
                Tail(todo))

RECURSIVE WithData(_, _)
WithData(blocks, before) ==
  IF blocks = <<>> THEN <<>>
  ELSE LET all == Expanded(before, blocks[1].entries) IN
       <<[btype |-> blocks[1].btype, entries |-> blocks[1].entries,
          data |-> SubSeq(all, Len(before) + 1, Len(all))]>> \o WithData(Tail(blocks), all)

FixedBlock(s) == [btype |-> 1, entries |-> s]
DynamicBlock(s) == [btype |-> 2, entries |-> s]

\* matches that cost more than the cheap bytes they stand for
Cheap == Times(30, <<Lit(0)>>) \o <<Lit(1), Match(3, 20), Lit(2), Match(4, 9), Lit(0), Match(5, 25), Match(258, 1)>>
Cheaper2 == Times(12, <<Lit(7), Lit(7), Lit(8)>>) \o <<Match(3, 3), Match(3, 17), Lit(9), Match(7, 30), Match(6, 2)>>
\* rows of equal lengths of 6, 7, 8 and 9, and of zeros longer than 138
Rows8 == Row(0, 8) \o Row(20, 7) \o <<Lit(255)>>
Rows9 == Row(65, 9) \o Row(200, 6) \o <<Match(15, 15), Match(11, 3), Match(19, 14)>>
\* the longest and shortest of the symbols for lengths
Lengths258 == <<Lit(5), Match(258, 1), Match(257, 1), Match(3, 2), Match(130, 259), Match(131, 500), Lit(6)>>
\* no distance, one, and one that is not the first
Alone == <<Lit(77)>>
OneDistance == <<Lit(1), Lit(2), Lit(3), Match(3, 3), Match(3, 3)>>
\* counts that are nearly equal, in long rows
Nearly == Flat([j \in 1 .. 9 |-> Times(8 + (j % 2), <<Lit(j)>>)])

Job(blocks, hq, n, advanced, header, trailer) ==
  [blocks |-> WithData(blocks, <<>>), hq |-> hq, replaceCodes |-> n, advanced |-> advanced,
   header |-> header, trailer |-> trailer]

Entries == {Cheap, Cheaper2, Rows8, Rows9, Lengths258, Alone, OneDistance, Nearly}
MCJobs ==
  {Job(<<DynamicBlock(s)>>, 1, n, FALSE, 10, 8) : s \in {Cheap, Cheaper2, OneDistance}, n \in 0 .. 5}
  \cup {Job(<<DynamicBlock(s)>>, hq, n, advanced, 0, 0) :
          s \in Entries, hq \in 0 .. 2, n \in {0, 1001}, advanced \in BOOLEAN}
  \cup {Job(<<FixedBlock(s)>>, 1, n, FALSE, 2, 4) : s \in Entries, n \in {0, 1}}
  \cup {Job(<<DynamicBlock(s)>>, 2, n, TRUE, 10, 8) : s \in {Cheap, Cheaper2}, n \in {1, 2, 3}}
  \cup {Job(<<x, y>>, 1, 1001, advanced, 10, 8) :
          x \in {DynamicBlock(Cheap), FixedBlock(Alone)}, y \in {FixedBlock(OneDistance), DynamicBlock(Cheaper2)},
          advanced \in BOOLEAN}
  \cup {Job(<<>>, 1, 1001, TRUE, c[1], c[2]) : c \in {<<0, 0>>, <<2, 4>>, <<10, 8>>, <<13, 8>>}}
=============================================================================
