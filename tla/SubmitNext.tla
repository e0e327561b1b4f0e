------------------------------ MODULE SubmitNext -----------------------------
(***************************************************************************)
(* How a user finds the block to submit, and what an answer of submitblock *)
(* counts as, against a node that may be on a fork: SubmitNext of sync.go, *)
(* run again and again (submit without --follow), or, with Follow, the     *)
(* pipeline of submit --follow with a window of one, where submitPipeline  *)
(* is the same sequence of calls for one height after the other.           *)
(*                                                                         *)
(* A step is one call to the node or to R2 with the code up to the next.   *)
(***************************************************************************)
EXTENDS ForkedNode, RangeIndex

CONSTANTS
  Main,             \* the branch whose ranges the provider indexes
  StableDelay,      \* how far below its tip it does
  RecentWalkLimit,
  BootstrapFromR2,
  Follow

ASSUME SubmitAssumption ==
  /\ Main \in Mined
  /\ StableDelay \in Nat
  /\ RecentWalkLimit \in Nat
  /\ BootstrapFromR2 \in BOOLEAN
  /\ Follow \in BOOLEAN

VARIABLES
  archived,   \* the blocks in the bucket
  index,      \* range start -> height -> block
  pc,         \* the call to make next, "idle" between runs
  target,     \* the height to submit
  headers,    \* getblockchaininfo's headers when the run started
  hash,       \* the block found for target, or where its walk has got to
  walked,     \* headers walked over so far
  missing,    \* range indexes the run found missing (only kept by Follow)
  counted,    \* the last block the run counted as submitted
  outcome     \* how the last run ended

bucketVars == <<archived, index>>
searchVars == <<hash, walked>>
runVars == <<pc, target, headers, searchVars, missing, counted, outcome>>
vars == <<nodeVars, bucketVars, runVars>>

NoBlock == <<"none">>

-----------------------------------------------------------------------------
(* The rest of the world: the node's peers and the provider.               *)

ArchiveBlock ==
  /\ \E b \in Mined \ archived :
       /\ Ancestors(b) \ {b} \subseteq archived
       /\ archived' = archived \cup {b}
  /\ UNCHANGED <<nodeVars, index, runVars>>

IndexRange ==
  /\ \E s \in {StartHeight(h) : h \in 0..Len(Main)} \ DOMAIN index :
       /\ EndOfRange(s) + StableDelay <= Len(Main)
       /\ SubSeq(Main, 1, EndOfRange(s)) \in archived
       /\ index' = [t \in DOMAIN index \cup {s} |->
                      IF t = s THEN [h \in RangeHeights(s) |-> SubSeq(Main, 1, h)] ELSE index[t]]
  /\ UNCHANGED <<nodeVars, archived, runVars>>

Peers == (\E b \in Mined : HearHeader(b) \/ HearBlock(b)) /\ UNCHANGED <<bucketVars, runVars>>

-----------------------------------------------------------------------------
(* A run ends, well or not: its locals are gone.                           *)
EndRun(how) ==
  /\ pc' = "idle"
  /\ outcome' = how
  /\ target' = 0 /\ headers' = 0
  /\ hash' = <<>> /\ walked' = 0
  /\ missing' = {}

Fail(why) == EndRun(why) /\ UNCHANGED <<nodeVars, bucketVars, counted>>

(* Whether the local headers, or the index alone, tell the hash at height. *)
Resolve(height, tipHeaders) ==
  IF height > tipHeaders /\ ~BootstrapFromR2
  THEN EndRun("waitHeaders")
  ELSE /\ pc' = "readIndex"
       /\ target' = height
       /\ headers' = tipHeaders
       /\ outcome' = "none"
       /\ UNCHANGED <<searchVars, missing>>

(* Mutant: the block after the next one.                                   *)
SkipsOne == Len(active) + 2

NextHeight == Len(active) + 1

GetBlockchainInfo ==
  /\ pc = "idle"
  /\ Resolve(NextHeight, Len(best))
  /\ counted' = NoBlock
  /\ UNCHANGED <<nodeVars, bucketVars>>

HashAt(bin, height) == bin[height]

IndexFound ==
  /\ pc = "readIndex"
  /\ StartHeight(target) \in DOMAIN index \ missing
  /\ pc' = "download"
  /\ hash' = HashAt(index[StartHeight(target)], target)
  /\ UNCHANGED <<nodeVars, bucketVars, target, headers, walked, missing, counted, outcome>>

IndexMissing ==
  /\ pc = "readIndex"
  /\ StartHeight(target) \notin DOMAIN index \ missing
  /\ IF target > headers
     THEN EndRun("waitIndex")
     ELSE /\ pc' = "readTips"
          /\ missing' = IF Follow THEN missing \cup {StartHeight(target)} ELSE {}
          /\ UNCHANGED <<target, headers, searchVars, outcome>>
  /\ UNCHANGED <<nodeVars, bucketVars, counted>>

-----------------------------------------------------------------------------
(* resolveRecentHash: from the best tip down to the target.                *)

(* Mutant: only the height of a tip counts.                                *)
AnyStatus(status) == 0

TipStatusRank(status) ==
  IF status = "active" THEN 3
  ELSE IF status = "headers-only" THEN 2
  ELSE IF status = "valid-fork" THEN 1
  ELSE 0

(* Mutant: tips below the target are not left out.                         *)
AnyTip == ChainTips

(* Mutant: a tip at the target is not enough.                              *)
TipsAboveTarget == {b \in ChainTips : Len(b) > target}

TipsAtTarget == {b \in ChainTips : Len(b) >= target}

Better(b, c) ==
  \/ TipStatusRank(Status(b)) > TipStatusRank(Status(c))
  \/ TipStatusRank(Status(b)) = TipStatusRank(Status(c)) /\ Len(b) > Len(c)

BestChainTip(b) == b \in TipsAtTarget /\ \A c \in TipsAtTarget : ~Better(c, b)

ReadTips ==
  /\ pc = "readTips"
  /\ IF TipsAtTarget = {}
     THEN Fail("noTip")
     ELSE /\ \E b \in TipsAtTarget : BestChainTip(b) /\ hash' = b
          /\ pc' = "walk"
          /\ walked' = 0
          /\ UNCHANGED <<nodeVars, bucketVars, target, headers, missing, counted, outcome>>

(* Mutant: the limit counts the headers read, not the steps between them.  *)
LimitReachedEarly == walked + 1 >= RecentWalkLimit

LimitReached == walked + 1 > RecentWalkLimit

(* GetBlockHeader of hash.                                                 *)
HeaderAtTarget ==
  /\ pc = "walk"
  /\ Len(hash) = target
  /\ pc' = "download"
  /\ UNCHANGED <<nodeVars, bucketVars, target, headers, searchVars, missing, counted, outcome>>

HeaderElsewhere ==
  /\ pc = "walk"
  /\ Len(hash) # target
  /\ Len(hash) > target => ~LimitReached
  /\ IF Len(hash) < target
     THEN Fail("passedTarget")
     ELSE /\ hash' = Front(hash)
          /\ walked' = walked + 1
          /\ UNCHANGED <<nodeVars, bucketVars, pc, target, headers, missing, counted, outcome>>

WalkTooLong == pc = "walk" /\ Len(hash) > target /\ LimitReached /\ Fail("limit")

-----------------------------------------------------------------------------
Download ==
  /\ pc = "download"
  /\ hash \in archived
  /\ pc' = "submit"
  /\ UNCHANGED <<nodeVars, bucketVars, target, headers, searchVars, missing, counted, outcome>>

BlockMissing == pc = "download" /\ hash \notin archived /\ Fail("missing")

(* Mutant: whatever is not a rejection is known.                           *)
NotRejected(answer) == answer # "rejected"

(* A block counts as submitted if the node took it or knows it.            *)
CountsAsSubmitted(answer) == answer = "null" \/ answer \in Known

(* The block counts: the run ends, or goes on with the next height.        *)
Count ==
  /\ counted' = hash
  /\ IF Follow THEN Resolve(target + 1, headers) ELSE EndRun("submitted")

SubmitBlock ==
  /\ pc = "submit"
  /\ \E answer \in Answers :
       /\ Submitted(hash, answer)
       /\ IF CountsAsSubmitted(answer) THEN Count ELSE EndRun("refused") /\ UNCHANGED counted
  /\ UNCHANGED bucketVars

(* The call fails, before or after the node has taken the block.           *)
SubmitFails ==
  /\ pc = "submit"
  /\ \/ UNCHANGED nodeVars
     \/ \E answer \in Answers : Submitted(hash, answer)
  /\ IF Follow
     THEN /\ pc' = "checkHeight"
          /\ UNCHANGED <<target, headers, searchVars, missing, outcome>>
     ELSE EndRun("failed")
  /\ UNCHANGED <<bucketVars, counted>>

(* Mutant: one block less is enough.                                       *)
HeightNearlyAccepted == Len(active) >= target - 1

SubmittedHeightAccepted == Len(active) >= target

CheckHeight ==
  /\ pc = "checkHeight"
  /\ IF SubmittedHeightAccepted THEN Count ELSE EndRun("failed") /\ UNCHANGED counted
  /\ UNCHANGED <<nodeVars, bucketVars>>

(* Any other call fails, or the process is killed.                         *)
CallFails == pc # "idle" /\ Fail("failed")

Init ==
  /\ NodeInit
  /\ archived = Ancestors(InitialTip)
  /\ index = [s \in {} |-> s]
  /\ pc = "idle"
  /\ target = 0 /\ headers = 0
  /\ hash = <<>> /\ walked = 0
  /\ missing = {}
  /\ counted = NoBlock
  /\ outcome = "none"

ResolveTargetHash ==
  \/ IndexFound \/ IndexMissing
  \/ ReadTips
  \/ HeaderAtTarget \/ HeaderElsewhere \/ WalkTooLong

Run == GetBlockchainInfo \/ ResolveTargetHash \/ Download \/ BlockMissing \/ SubmitBlock \/ CheckHeight

Next == ArchiveBlock \/ IndexRange \/ Peers \/ Run \/ SubmitFails \/ CallFails

Spec == Init /\ [][Next]_vars

(* The run goes on as long as its calls are answered.                      *)
FairSpec == Spec /\ WF_vars(Run)

-----------------------------------------------------------------------------
(* Properties                                                              *)

(* The node, the bucket and the locals of a run.                           *)
TypeOK ==
  /\ NodeTypeOK
  /\ archived \subseteq Mined
  /\ \A s \in DOMAIN index : index[s] \in [RangeHeights(s) -> archived]
  /\ pc \in {"idle", "readIndex", "readTips", "walk", "download", "submit", "checkHeight"}
  /\ target \in Nat /\ headers \in Nat
  /\ hash \in Mined
  /\ walked \in 0..RecentWalkLimit
  /\ \A s \in missing : s \in Nat
  /\ counted \in Mined \cup {NoBlock}

(* The search always gets to the target: the height it was computed from   *)
(* is one that getchaintips still reaches later on, even if the branch it  *)
(* came from has been found invalid, no step of the walk misses it, and    *)
(* what is downloaded is a block of that height, walk or index.            *)
WalkArrives ==
  /\ outcome \notin {"noTip", "passedTarget"}
  /\ pc \in {"download", "submit", "checkHeight"} => Len(hash) = target

(* A walk starts on a branch the node has found invalid only if the node   *)
(* knows of no other branch as high as the target.                         *)
WalksViableBranch ==
  [][pc = "readTips" /\ pc' = "walk" /\ BuildsOn(hash', failed) =>
       \A block \in known : Len(block) >= target => BuildsOn(block, failed)]_vars

(* SubmitNext "submits the next missing block": its parent is not missing. *)
SubmitsNextMissing == pc = "submit" => Front(hash) \in held

(* So it is as long as the node has heard of one branch only, though peers *)
(* overtake the run and answers are lost.                                  *)
OneBranch == known \subseteq Ancestors(Main)

SubmitsNextOnOneBranch == OneBranch => SubmitsNextMissing

(* Then a block counts as submitted only if the node's chain has got       *)
(* there, also when the answer was lost or somebody else was faster.       *)
SubmittedIsActive ==
  [][OneBranch' /\ counted' # counted /\ counted' # NoBlock => counted' \in Ancestors(active')]_vars

(* Among forks an answer makes a valid block count only if the node holds  *)
(* it, though perhaps not in its active chain.                             *)
SubmittedIsHeld ==
  [][pc = "submit" /\ counted' # counted /\ ~BuildsOn(counted', Rejected) => counted' \in held']_vars

(* The provider has indexed what is stable below the headers the node      *)
(* knows of.  Its best header is not enough: it falls back to the active   *)
(* chain when a block is found invalid, the tips a walk starts from do not.*)
Prompt ==
  \A b \in known : \A h \in 0..Len(b) :
    EndOfRange(StartHeight(h)) + StableDelay <= Len(b) => StartHeight(h) \in DOMAIN index

(* With a limit that covers stable_delay and a range, a run that gives up  *)
(* a walk finds the index the next time, unless the provider is behind.    *)
LimitMeansPublished ==
  [][pc # "idle" /\ outcome' = "limit" /\ Prompt => StartHeight(target) \in DOMAIN index]_vars

(* The next block of the node's best branch can be had.                    *)
NextAvailable ==
  /\ NextHeight <= Len(best)
  /\ SubSeq(best, 1, NextHeight) \in archived
  /\ \/ StartHeight(NextHeight) \in DOMAIN index
     \/ Len(best) - NextHeight <= RecentWalkLimit

(* A node that hears of one branch only ends up with every block of its    *)
(* headers that can be had, once the world rests and calls are answered.   *)
CatchesUp == []OneBranch /\ <>[][Run]_vars => <>[]~NextAvailable
=============================================================================
