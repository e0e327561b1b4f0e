--------------------------- MODULE MCFollowerAtRest --------------------------
(* UploadFollower on chains of a few blocks, for TLC, with two history     *)
(* variables: what the node did to the process that runs, and what the     *)
(* processes before it left in the bucket.                                 *)
EXTENDS UploadFollower

VARIABLES
  movedMidAttempt,  \* the chain moved during an attempt of this process
  gapPassed         \* the probes of its start passed over a missing block

historyVars == <<movedMidAttempt, gapPassed>>

MCVars == <<vars, historyVars>>

MCInit == Init /\ movedMidAttempt = FALSE /\ gapPassed = FALSE

ProbesChoose == pc = "probe" /\ pc' = "upload"

(* An unpublished block below the upload the probes choose is not stored.  *)
MissedGap == \E h \in nextIndexStart..(uploadStart' - 1) : BlockAt(h) \notin blocks

(* Set by the probes, cleared when a start begins anew.                    *)
RecordGap ==
  gapPassed' = IF ProbesChoose THEN MissedGap ELSE gapPassed /\ pc' # "findStart"

(* movedMidAttempt is set by a move under way of an attempt; a restart     *)
(* clears both.                                                            *)
MCNext ==
  \/ Crash /\ movedMidAttempt' = FALSE /\ gapPassed' = FALSE
  \/ (Step \/ CallFails) /\ UNCHANGED movedMidAttempt /\ RecordGap
  \/ ChainMoves /\ movedMidAttempt' = (movedMidAttempt \/ pc # "idle") /\ UNCHANGED gapPassed

MCSpec == MCInit /\ [][MCNext]_MCVars /\ WF_vars(Step)

-----------------------------------------------------------------------------
(* When an attempt ends well, every hash it remembers is the chain's: the  *)
(* one comparison at the last tip, and the walk below it, miss no change   *)
(* of the polls before.                                                    *)
CacheCurrent ==
  [][pc # "idle" /\ outcome' \in {"work", "waiting"} /\ ~movedMidAttempt =>
       \A h \in DOMAIN recentHashes' : h <= tip /\ recentHashes'[h] = BlockAt(h)]_MCVars

(* Between attempts every unpublished block the follower remembers is      *)
(* stored, whatever failed and however the chain moved between attempts:   *)
(* the tail it reports as uploaded really is in the bucket.  Two things    *)
(* are excepted.  Hashes are remembered that were read after the upload,   *)
(* so the chain must not have moved in between; and a start probes every   *)
(* ProbeStep-th block only, so a gap it passed over, which a crash in a    *)
(* parallel upload leaves, stays until its range is published.             *)
TailArchived ==
  pc = "idle" /\ initialized /\ outcome \in {"work", "waiting"} /\ ~movedMidAttempt /\ ~gapPassed =>
    \A h \in DOMAIN recentHashes : h >= nextIndexStart => recentHashes[h] \in blocks
=============================================================================
