---------------------------- MODULE MCBlockSplit -----------------------------
(* Small parts for BlockSplit: every sequence of entry lengths for the short *)
(* stores, one alternating sequence for the long ones.                       *)
EXTENDS BlockSplit

\* offsets of the entries when those of long are matches of 3 bytes
Offsets(n, long) ==
  LET at[k \in 0 .. n] == IF k = 0 THEN 4 ELSE at[k - 1] + IF k \in long THEN 3 ELSE 1
  IN at

All(n) == SUBSET (1 .. n)
Alternating(n) == {{k \in 1 .. n : k % 2 = 0}}

JobsOf(n, longs, options) ==
  [size : {n}, at : {Offsets(n, long) : long \in longs}, opts : options]

Options(num, manys, entropies, min) ==
  [num : {num}, many : manys, entropysplit : entropies, noblocksplit : {6}, noblocksplitlz : {min}]

\* the fast levels take three samples, the slow ones nine
CoarseJobs ==
  LET options == Options(3, {FALSE}, BOOLEAN, 3)
  IN JobsOf(3, All(3), options) \cup JobsOf(5, All(5), options)
       \cup JobsOf(9, Alternating(9), options) \cup JobsOf(12, Alternating(12), options)

FineJobs ==
  LET options == Options(9, BOOLEAN, {FALSE}, 12)
  IN JobsOf(3, All(3), options) \cup JobsOf(12, Alternating(12), options)
       \cup JobsOf(15, Alternating(15), options)

MCJobs == CoarseJobs \cup FineJobs
=============================================================================
