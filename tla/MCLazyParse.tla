----------------------------- MODULE MCLazyParse ------------------------------
(* All parts of seven bytes of two kinds; parts that start behind some bytes  *)
(* of the input; repetitions around the longest match; and matches that turn   *)
(* out to be worse than the one behind them.                                   *)
EXTENDS LazyParse

Rep(s, n) == [k \in 1 .. n |-> s[((k - 1) % Len(s)) + 1]]
\* three bytes behind the part, and what else is loaded there
Job(s, start, greed, behind) ==
  [data |-> s \o Rep(behind, 17), instart |-> start, inend |-> Len(s), greed |-> greed]

Short == {Job(s, 0, 258, <<0, 1, 0>>) : s \in [1 .. 7 -> {0, 1}]}
Behind == {Job(Rep(<<0, 0, 1>>, 34) \o s, 37, 258, t) :
             s \in [1 .. 5 -> {0, 1}], t \in {<<0, 0, 0>>, <<1, 0, 1>>}}
Long == {Job(<<7>> \o Rep(s, n) \o t, 0, g, <<0, 1, 0>>) :
           s \in {<<0>>, <<0, 1>>, <<0, 1, 2, 3>>}, n \in {40, 220, 263},
           t \in {<<>>, <<5, 0, 1, 0, 1, 0>>}, g \in {50, 258}}
Repeated3 == {Job(Rep(<<0>>, n), 0, 258, <<0, 0, 0>>) : n \in {517, 518, 777}}
\* a match of three bytes, and one from the next byte on
Worse == {Job(<<1, 2, 3, 9>> \o s \o <<1>> \o s \o t, 0, 258, <<0, 1, 0>>) :
            s \in {<<2, 3, 4>>, <<2, 3, 4, 5>>, <<2, 3, 4, 5, 6>>, <<2, 3, 4, 5, 6, 7>>},
            t \in {<<>>, <<8>>, <<1, 2, 3, 4, 5, 6, 7, 1, 2>>}}
         \cup {Job(<<1, 2, 3, 9>> \o Rep(<<2, 3, 4, 1>>, n), 0, 258, <<1, 2, 3>>) : n \in {9, 262, 270}}
MCJobs == Short \cup Behind \cup Long \cup Repeated3 \cup Worse

\* bytes fall together
MCHash(b) == (b[1] + b[2] + b[4]) % 3
MCHash3(b) == (b[1] * 2 + b[3]) % 3
=============================================================================
