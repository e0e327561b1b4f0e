------------------------------ MODULE RangeIndex -----------------------------
(***************************************************************************)
(* Height arithmetic of the range indexes (package rangeindex and the      *)
(* helpers of sync.go).  Heights are natural numbers: none comes near the  *)
(* 2^64 the overflow branches of the code guard against.                   *)
(***************************************************************************)
EXTENDS Integers

CONSTANT RangeSize  \* hashes per range index (DefaultRangeSize is 2500)

ASSUME RangeSizeAssumption == RangeSize \in Nat \ {0}

(* First height of the range that contains height.                         *)
StartHeight(height) == (height \div RangeSize) * RangeSize

(* Last height of the range that starts at start.                          *)
EndOfRange(start) == start + RangeSize - 1

RangeHeights(start) == start..EndOfRange(start)

NextRangeStart(start) == start + RangeSize
=============================================================================
