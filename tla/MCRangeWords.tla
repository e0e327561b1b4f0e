----------------------------- MODULE MCRangeWords ----------------------------
(* Model checking RangeWords; words.cfg gives the constants.  Among 12 words *)
(* 1, 2, 3, 4 and 6 divide the words into whole ranges and 5 and 7 do not.   *)
EXTENDS RangeWords

Sizes == 1..7
Delays == 0..4
=============================================================================
