----------------------------- MODULE MatchSizes -----------------------------
(* The least and the greatest length of a match (util.h), which the search   *)
(* of a block and the trace of its path share.                               *)
EXTENDS Integers

CONSTANTS
  MaxMatch,  \* ZOPFLI_MAX_MATCH
  MinMatch   \* ZOPFLI_MIN_MATCH

ASSUME SizesAssumption ==
  /\ MaxMatch \in Nat /\ MinMatch \in Nat
  /\ 1 < MinMatch /\ MinMatch < MaxMatch
=============================================================================
