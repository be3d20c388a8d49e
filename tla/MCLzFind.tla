------------------------------- MODULE MCLzFind -------------------------------
(* All inputs of ten bytes of two kinds, and inputs of repetitions that are    *)
(* broken twice, each time by a smaller or a greater byte.                     *)
EXTENDS LzFind

Ones(n) == [k \in 1 .. n |-> 1]
Repetitions ==
  {Ones(m) \o <<x>> \o Ones(n) \o <<y>> \o Ones(4) :
     m \in 4 .. 8, n \in 4 .. 7, x \in {0, 2}, y \in {0, 2}}
MCInputs == [1 .. 10 -> {0, 1}] \cup Repetitions
\* the first byte and the others fall together
MCHash(b) == (b[1] + b[2] * 2 + b[3]) % 2
MCBuckets == {0, 1}
=============================================================================
