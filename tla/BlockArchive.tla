----------------------------- MODULE BlockArchive ----------------------------
(***************************************************************************)
(* What the provider promises about the bucket, whatever its internal      *)
(* steps are.  Blocks are only ever added.  A range index appears once, is *)
(* never replaced, and at the instant it appears it is the active chain's  *)
(* own list of hashes over a range no reorganisation can reach any more,   *)
(* every one of them naming a block that is already stored.                *)
(***************************************************************************)
EXTENDS Bucket

Store ==
  /\ \E b \in BlockHashes : blocks' = blocks \cup {b}
  /\ UNCHANGED <<index, chainVars>>

Publish(start) ==
  /\ start \notin DOMAIN index
  /\ EndOfRange(start) <= tip
  /\ Final(EndOfRange(start))
  /\ \A h \in RangeHeights(start) : BlockAt(h) \in blocks
  /\ index' = PutObject(index, start, ChainHashes(start))
  /\ UNCHANGED <<blocks, chainVars>>

Next == NodeMoves \/ Store \/ \E start \in Heights : Publish(start)

Init == ChainInit /\ BucketInit

Spec == Init /\ [][Next]_<<chainVars, archiveVars>>
=============================================================================
