-------------------------------- MODULE Bucket -------------------------------
(***************************************************************************)
(* The R2 bucket: block objects keyed by hash, and range indexes keyed by  *)
(* the start of their range.  A block object holds exactly the bytes its   *)
(* hash names, so the set of stored hashes is all there is to know.        *)
(***************************************************************************)
EXTENDS NodeChain, RangeIndex

CONSTANT PrePublished  \* starts of the ranges earlier shards have published

ASSUME PrePublishedAssumption ==
  \A s \in PrePublished :
     /\ s \in Nat
     /\ s % RangeSize = 0
     /\ EndOfRange(s) + ReorgDepth <= InitialTip

VARIABLES
  blocks,  \* the hashes h for which blocks/{h}.blk exists
  index    \* range start -> the hashes in index/range/v1/.../{start}.bin

archiveVars == <<blocks, index>>

(* Mutant: the put overwrites.                                             *)
PutObjectAnyway(store, key, data) ==
  [k \in DOMAIN store \cup {key} |-> IF k = key THEN data ELSE store[k]]

(* PutObject sends If-None-Match: * and treats PreconditionFailed as       *)
(* success: an object that exists is left as it is.                        *)
PutObject(store, key, data) ==
  IF key \in DOMAIN store
  THEN store
  ELSE [k \in DOMAIN store \cup {key} |-> IF k = key THEN data ELSE store[k]]

(* The index of a range, read off the active chain in one look.            *)
ChainHashes(start) == [h \in RangeHeights(start) |-> BlockAt(h)]

(* The bucket as the shards that finished before this one left it.         *)
BucketInit ==
  /\ blocks = {BlockAt(h) : h \in UNION {RangeHeights(s) : s \in PrePublished}}
  /\ index = [s \in PrePublished |-> ChainHashes(s)]

NodeMoves == (Extend \/ RollBack) /\ UNCHANGED archiveVars

(* A list of hashes, of some of the heights.                               *)
HashesByHeight(f) == DOMAIN f \subseteq Heights /\ f \in [DOMAIN f -> BlockHashes]

BucketTypeOK ==
  /\ blocks \subseteq BlockHashes
  /\ DOMAIN index \subseteq Nat
  /\ \A s \in DOMAIN index : HashesByHeight(index[s])
=============================================================================
