--------------------------- MODULE MCShardedUpload ---------------------------
(* ShardedUpload with shards that overlap, and a history variable for what *)
(* holds only on a calm chain and bucket.                                  *)
EXTENDS ShardedUpload, TLC

CONSTANTS left, right

Overlapping == {left, right}

FromLeft == left :> 0 @@ right :> 2

ToRight == left :> MaxHeight @@ right :> MaxHeight

Alone == {left}

FromGenesis == left :> 0

ToLast == left :> MaxHeight

VARIABLE calm  \* no reorganisation and no conflict so far

MCVars == <<vars, calm>>

MCInit == Init /\ calm = TRUE

MCNext ==
  \/ (\E u \in Uploaders : Conflict(u)) /\ calm' = FALSE
  \/ (ChainMoves \/ \E u \in Uploaders : Run(u) \/ Stops(u)) /\ calm' = (calm /\ tip' >= tip)

MCSpec == MCInit /\ [][MCNext]_MCVars

-----------------------------------------------------------------------------
(* Uploading one block at a time, while the chain only grows and no put is *)
(* refused for a concurrent one, the blocks of a range are stored from its *)
(* start on, so that every published index names stored blocks only,       *)
(* although uploaders are killed between any two calls and meet in one     *)
(* range.                                                                  *)
CalmIndexComplete == calm => StoredFromRangeStart /\ IndexComplete

(* And a run that ends well has left no block and no stable range behind.  *)
GoodRunComplete == [][calm' => EndsComplete]_MCVars
=============================================================================
