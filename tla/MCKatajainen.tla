---------------------------- MODULE MCKatajainen -----------------------------
(* All small frequencies of five symbols; Fibonacci numbers, for which the     *)
(* limit matters most, in several orders; and more symbols than any part of    *)
(* the sort handles at once.                                                   *)
EXTENDS Katajainen

Job(f, m) == [freq |-> f, maxbits |-> m]
AsFreq(s) == [k \in 0 .. Len(s) - 1 |-> s[k + 1]]

Small == {Job(f, m) : f \in [0 .. 4 -> {0, 1, 2, 5}], m \in {3, 4}}
Fibonacci == {<<1, 1, 2, 3, 5, 8>>, <<8, 5, 3, 2, 1, 1>>, <<5, 1, 8, 0, 2, 3, 1>>}
Many == {<<1, 1, 2, 3, 5, 8, 13, 21, 34, 55>>, <<55, 34, 21, 13, 8, 5, 3, 2, 1, 1>>,
         <<3, 3, 3, 3, 3, 3, 3, 3, 3, 3, 3, 3>>, <<2, 9, 4, 9, 2, 0, 7, 1, 2, 30, 9, 1, 4>>,
         <<9, 8, 7, 6, 5, 4, 3, 2, 1, 10, 11, 12>>, <<1, 100, 2, 90, 1, 80, 2, 70, 1, 60, 2>>}
MCJobs == Small \cup {Job(AsFreq(s), m) : s \in Fibonacci, m \in {3, 4, 5}}
                \cup {Job(AsFreq(s), m) : s \in Many, m \in {4, 5, 7, 15}}
=============================================================================
