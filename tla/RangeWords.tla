------------------------------ MODULE RangeWords -----------------------------
(***************************************************************************)
(* The height arithmetic on machine words, up to the last of them, and the *)
(* bytes of a range index: package rangeindex, the helpers of sync.go that *)
(* guard against overflow, and the loops that use them, which are those of *)
(* UploadOnce and of uploadRangeIndex.  Here a height is a number modulo   *)
(* MaxWord + 1, as a uint64 is one modulo 2^64.                            *)
(*                                                                         *)
(* A step is one round of the loop of UploadOnce, all of whose calls are   *)
(* answered.                                                               *)
(***************************************************************************)
EXTENDS Integers, Sequences

CONSTANTS
  MaxWord,      \* the greatest word: ^uint64(0) of the code
  RangeSizes,   \* what --range-size may be
  StableDelays, \* what --stable-delay may be
  HashSize      \* bytes in a hash (32)

Words == 0..MaxWord

ASSUME WordAssumption ==
  /\ MaxWord \in Nat \ {0}
  /\ RangeSizes \subseteq 1..MaxWord
  /\ StableDelays \subseteq Words
  /\ HashSize \in Nat \ {0}

VARIABLES
  rangeSize, stableDelay,
  from,        \* the flag --from-height
  tip,         \* getblockcount
  to,          \* endHeight: the tip, or the flag --to-height
  pc,
  start,       \* the range of the loop
  uploaded,    \* heights whose block was uploaded
  index        \* range start -> bytes of its index

inputVars == <<rangeSize, stableDelay, from, tip, to>>
vars == <<inputVars, pc, start, uploaded, index>>

Word(n) == n % (MaxWord + 1)

-----------------------------------------------------------------------------
(* Package rangeindex.                                                     *)

StartHeight(height) == (height \div rangeSize) * rangeSize

(* The bytes of the hash of a height.  What matters is that they differ.   *)
HashBytes(height) == [i \in 1..HashSize |-> height + i]

Error == <<>>

Encode(hashes) ==
  IF Len(hashes) # rangeSize
  THEN Error
  ELSE [i \in 1..(rangeSize * HashSize) |->
          hashes[((i - 1) \div HashSize) + 1][((i - 1) % HashSize) + 1]]

(* Mutant: the offset is that of the next hash of the range, circularly.   *)
NextOffset(first, height) == (Word(height - first + 1) % rangeSize) * HashSize

Offset(first, height) == Word(height - first) * HashSize

HashAt(bin, first, height) ==
  IF height < first \/ Word(height - first) >= rangeSize \/ Len(bin) # rangeSize * HashSize
  THEN Error
  ELSE SubSeq(bin, Offset(first, height) + 1, Offset(first, height) + HashSize)

-----------------------------------------------------------------------------
(* The helpers of sync.go.                                                 *)

(* Mutant: the end of the last range wraps around.                         *)
EndOfRangeUnguarded(first) == Word(first + rangeSize - 1)

EndOfRange(first) ==
  IF first > Word(MaxWord - rangeSize + 1) THEN MaxWord ELSE Word(first + rangeSize - 1)

LastRange(first) == first > Word(MaxWord - rangeSize)

(* The heights of the loop of uploadRangeIndex.                            *)
IndexedHeights(first) == {h \in Words : first <= h /\ h < Word(first + rangeSize)}

RangeIndexBytes(first) ==
  Encode(IF IndexedHeights(first) = {}
         THEN <<>>
         ELSE [i \in 1..rangeSize |-> HashBytes(first + i - 1)])

(* Mutant: the tip itself is left out of the stable heights.               *)
StableExclusive(height) == tip >= stableDelay /\ height < tip - stableDelay

Stable(height) == tip >= stableDelay /\ height <= tip - stableDelay

-----------------------------------------------------------------------------
(* UploadOnce.  A chain has fewer blocks than there are words.             *)
Init ==
  /\ rangeSize \in RangeSizes
  /\ stableDelay \in StableDelays
  /\ from \in Words
  /\ tip \in Words \ {MaxWord}
  /\ to \in 0..tip
  /\ uploaded = {}
  /\ index = [s \in {} |-> s]
  /\ IF from > to
     THEN pc = "done" /\ start = 0
     ELSE pc = "range" /\ start = StartHeight(from)

UploadEnd == IF EndOfRange(start) > to THEN to ELSE EndOfRange(start)

Publishable == EndOfRange(start) <= to /\ Stable(EndOfRange(start))

NextRange ==
  IF LastRange(start) \/ Word(start + rangeSize) > to
  THEN pc' = "done" /\ UNCHANGED start
  ELSE start' = Word(start + rangeSize) /\ UNCHANGED pc

Range ==
  /\ pc = "range"
  /\ uploaded' = uploaded \cup (start..UploadEnd)
  /\ IF Publishable
     THEN /\ index' = [s \in DOMAIN index \cup {start} |->
                         IF s = start THEN RangeIndexBytes(start) ELSE index[s]]
          /\ IF RangeIndexBytes(start) = Error THEN pc' = "failed" /\ UNCHANGED start ELSE NextRange
     ELSE NextRange /\ UNCHANGED index
  /\ UNCHANGED inputVars

Next == Range

Spec == Init /\ [][Next]_vars /\ WF_vars(Next)

-----------------------------------------------------------------------------
(* Properties, stated on natural numbers.                                  *)

(* No range is entered twice, as it is once an addition has wrapped, and a *)
(* run ends well having uploaded the heights it was asked for, from the    *)
(* start of a range on, and indexed the ranges that are complete and       *)
(* stable, no other, the ranges at the end of the words among them.        *)
CoversRequest ==
  /\ pc = "range" => \A h \in uploaded : h < start
  /\ pc = "done" /\ from <= to =>
       /\ uploaded = ((from \div rangeSize) * rangeSize)..to
       /\ DOMAIN index = {s \in Words : /\ s % rangeSize = 0
                                        /\ s + rangeSize > from
                                        /\ s + rangeSize - 1 <= to
                                        /\ s + rangeSize - 1 + stableDelay <= tip}

(* An index answers for its range with the hash of each height, and for no *)
(* other height.                                                           *)
IndexReadsBack ==
  \A s \in DOMAIN index : \A h \in Words :
    HashAt(index[s], s, h) = IF s <= h /\ h < s + rangeSize THEN HashBytes(h) ELSE Error

(* The loop ends for every input, without an error.                        *)
Ends == <>(pc = "done")
=============================================================================
