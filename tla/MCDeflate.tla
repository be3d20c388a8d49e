------------------------------ MODULE MCDeflate ------------------------------
(* Small inputs for Deflate, with up to three parts.                         *)
EXTENDS Deflate

CONSTANTS Sizes, PNGs, Twices

MCRequests ==
  [insize : Sizes, final : BOOLEAN, isPNG : PNGs, once : {TRUE}, reuse : {TRUE}, twice : Twices,
   noblocksplit : {2}, skipdynamic : {1}, trystatic : {0, 1}]
=============================================================================
