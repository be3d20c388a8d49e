---------------------------- MODULE MCSqueeze ------------------------------
(* The two halves of a run of squeeze.c, one after the other: the search    *)
(* (Squeeze) of a small part and the trace (PathTrace) of a small block.    *)
(* They share the sizes of matches and nothing else, since a search leaves  *)
(* open which of the steps it considers is the cheapest; so one of the two  *)
(* is as small as can be while the other takes every value.                 *)
(*                                                                          *)
(* Parts: every pattern of equal neighbours and every way to split the      *)
(* short ones; one repetition, broken at most once, for the long ones.      *)
(* Blocks: short ones with steps of every length at each position, and long *)
(* ones with one length wherever it fits.                                   *)
EXTENDS Squeeze, PathTrace, FiniteSets

\* the lengths of the repetitions when exactly the positions of same repeat
\* the byte before them
RunsOf(n, same) ==
  LET run[k \in 0 .. n] == IF k \in same THEN run[k + 1] + 1 ELSE 0
  IN run

Short(n) == SUBSET (1 .. n - 1)
Long(n) == {1 .. n - 1} \cup {(1 .. n - 1) \ {k} : k \in 1 .. n - 1}

JobsOf(n, patterns, maxblocks, options) ==
  [n : {n},
   run : {RunsOf(n, same) : same \in patterns},
   splits : {s \in SUBSET (1 .. n - 1) : Cardinality(s) < maxblocks},
   opts : options]

Options(iterations, ultras, caches, skips, statics) ==
  [numiterations : iterations, ultra : ultras, useCache : caches,
   skipdynamic : skips, reuse : {TRUE}, trystatic : statics]

SingleRuns ==
  LET options == Options({1}, {0}, {TRUE}, {0, 2}, {TRUE})
  IN JobsOf(5, Short(5), 3, options) \cup JobsOf(8, Short(8), 2, options)
       \cup JobsOf(11, Long(11), 3, options) \cup JobsOf(14, {1 .. 13}, 1, options)

Replays ==
  JobsOf(5, Short(5), 2, Options({2}, {0, 3}, {TRUE}, {1}, {FALSE}))
    \cup JobsOf(5, Short(5), 1, Options({3}, {0, 3}, {TRUE}, {1}, {FALSE}))
    \cup JobsOf(8, Long(8), 2, Options({2}, {2}, {TRUE}, {1}, {FALSE}))

SmallJob == [n |-> 1, run |-> RunsOf(1, {}), splits |-> {},
             opts |-> CHOOSE o \in Options({1}, {0}, {TRUE}, {0}, {FALSE}) : TRUE]
MCJobs == {SmallJob} \cup SingleRuns \cup Replays

StepAt(k, length) == [length |-> length, byte |-> k % 128, dist |-> 32769 - k]
LengthsAt(k) == {1} \cup {l \in MinMatch .. MaxMatch : l <= k}

LengthsOf(m) == {f \in [1 .. m -> {1} \cup MinMatch .. MaxMatch] :
                   \A k \in 1 .. m : f[k] \in LengthsAt(k)}

MCBlocks ==
  {[n |-> 8, step |-> [k \in 1 .. 8 |-> StepAt(k, lengths[k])]] : lengths \in LengthsOf(8)}
  \cup {[n |-> m, step |-> [k \in 1 .. m |->
                              StepAt(k, IF k >= length /\ k > from THEN length ELSE 1)]] :
          m \in 1 .. 60, from \in {0, 20, 40}, length \in {1} \cup MinMatch .. MaxMatch}
SmallBlock == [n |-> 1, step |-> <<StepAt(1, 1)>>]
-----------------------------------------------------------------------------
RunInit == \/ job = SmallJob /\ Init /\ TraceInit
           \/ block = SmallBlock /\ TraceInit /\ Init

RunNext == \/ Next /\ UNCHANGED tracevars
           \/ pc = "done" /\ TraceNext /\ UNCHANGED vars

RunSpec == RunInit /\ [][RunNext]_<<vars, tracevars>> /\ WF_<<vars, tracevars>>(RunNext)
=============================================================================
