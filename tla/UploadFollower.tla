---------------------------- MODULE UploadFollower ---------------------------
(***************************************************************************)
(* The provider in follow mode: type UploadFollower of sync.go, driven by  *)
(* the loop of runUpload, which calls its UploadOnce again and again.      *)
(*                                                                         *)
(* An attempt is a chain of calls to bitcoind and to R2.  Each step below  *)
(* is one call together with the code up to the next one, so the node's    *)
(* chain may move between any two calls of one attempt, and the attempt    *)
(* may fail or the process die between any two.  Block uploads run on      *)
(* UploadWorkers goroutines, whose calls interleave.                       *)
(***************************************************************************)
EXTENDS Bucket, UploadProbes, FiniteSets, Functions

CONSTANTS
  StableDelay,    \* blocks near the tip that get no range index
  FromHeight,     \* the range containing it is the first one managed
  ToHeight,       \* last height to upload, or NoHeight
  UploadWorkers   \* block uploads in flight at once

NoHeight == -1

ASSUME FollowerAssumption ==
  /\ StableDelay \in Nat
  /\ FromHeight \in Nat
  /\ ToHeight \in Nat \cup {NoHeight}
  /\ UploadWorkers \in Nat \ {0}

VARIABLES
  initialized,     \* the four fields of the UploadFollower that change
  lastTip,
  nextIndexStart,
  recentHashes,
  pc,              \* the call the attempt makes next, "idle" between attempts
  caller,          \* who called uploadBlocksFrom
  localTip,        \* GetBlockCount of this attempt
  uploadStart,     \* first height of the upload in hand
  cursor,          \* height of the loop in hand
  todo,            \* heights whose hash is still to be read
  missing,         \* probed heights that turned out not to be stored
  inflight,        \* height -> hash read for it, being uploaded
  hashes,          \* the hashes slice of uploadRangeIndex
  progress,        \* the result's HasWork so far
  outcome          \* how the last attempt ended

followerVars == <<initialized, lastTip, nextIndexStart, recentHashes>>
batchVars == <<todo, missing, inflight>>
callVars == <<pc, caller, localTip, uploadStart, cursor, batchVars, hashes, progress, outcome>>
vars == <<chainVars, archiveVars, followerVars, callVars>>

NoHashes == [h \in {} |-> h]

ManagedStart == StartHeight(FromHeight)

EndHeight(height) == IF ToHeight # NoHeight /\ ToHeight < height THEN ToHeight ELSE height

End == EndHeight(localTip)

RangeEnd == EndOfRange(nextIndexStart)

(* publishedBoundary: the last height of the published ranges, if any.     *)
HasBoundary == nextIndexStart > ManagedStart

Boundary == nextIndexStart - 1

(* Mutant: the published boundary is taken to be visible always.           *)
BoundaryAlwaysVisible(end) == TRUE

BoundaryVisible(end) == HasBoundary => end >= Boundary

(* Mutant: the cache starts at the first unpublished height.               *)
RecentCacheStartAtTail(nextStart, end) == IF end < nextStart THEN end ELSE nextStart

RecentCacheStart(nextStart, end) ==
  LET start == IF nextStart > ManagedStart THEN nextStart - 1 ELSE ManagedStart
  IN  IF end < start THEN end ELSE start

Pruned(known, nextStart, end) ==
  Restrict(known, {h \in DOMAIN known : RecentCacheStart(nextStart, end) <= h /\ h <= end})

Learn(known, height, hash) ==
  [h \in DOMAIN known \cup {height} |-> IF h = height THEN hash ELSE known[h]]

Forget(known, heights) == Restrict(known, DOMAIN known \ heights)

(* The heights a worker may be busy with: they are handed out in order,    *)
(* one per worker, so a height waits until all but UploadWorkers - 1 of    *)
(* the lower ones are done.                                                *)
HandedOut(h) == Cardinality({g \in todo \cup DOMAIN inflight : g < h}) < UploadWorkers

-----------------------------------------------------------------------------
(* How an attempt ends.  An error leaves the fields of the follower as     *)
(* they are at that point.                                                 *)

NoCall ==
  /\ caller' = "none"
  /\ localTip' = 0
  /\ uploadStart' = 0
  /\ cursor' = 0
  /\ todo' = {}
  /\ missing' = {}
  /\ inflight' = NoHashes
  /\ hashes' = NoHashes
  /\ progress' = FALSE

Return(how) == pc' = "idle" /\ outcome' = how /\ NoCall

(* finishResult: Waiting is the negation of HasWork.                       *)
FinishResult(hasWork) == Return(IF hasWork THEN "work" ELSE "waiting")

TouchesPublishedIndex ==
  /\ Return("reorgTouchesIndex")
  /\ UNCHANGED <<chainVars, archiveVars, followerVars>>

(* uploadBlocksFrom is called for the heights from .. to.                  *)
StartUpload(from, to, by) ==
  /\ pc' = "upload"
  /\ caller' = by
  /\ uploadStart' = from
  /\ todo' = from..to
  /\ UNCHANGED <<cursor, missing, inflight, hashes, localTip, progress, outcome>>

StartRefresh(from) ==
  /\ pc' = "refresh"
  /\ caller' = "none"
  /\ uploadStart' = 0
  /\ cursor' = from
  /\ UNCHANGED <<batchVars, hashes, localTip, progress, outcome>>

Goto(next) ==
  /\ pc' = next
  /\ caller' = "none"
  /\ uploadStart' = 0
  /\ cursor' = 0
  /\ UNCHANGED <<batchVars, hashes, localTip, progress, outcome>>

-----------------------------------------------------------------------------
(* The start of an attempt: GetBlockCount, and the code up to the next     *)
(* call.                                                                   *)

StartAttempt(next) ==
  /\ pc' = next
  /\ localTip' = tip
  /\ progress' = (EndHeight(tip) # lastTip)
  /\ outcome' = "none"
  /\ UNCHANGED <<caller, uploadStart, cursor, batchVars, hashes>>

NothingManaged ==
  /\ pc = "idle"
  /\ FromHeight > EndHeight(tip)
  /\ FinishResult(EndHeight(tip) # lastTip)
  /\ UNCHANGED <<chainVars, archiveVars, followerVars>>

StartInitialize ==
  /\ pc = "idle"
  /\ FromHeight <= EndHeight(tip)
  /\ ~initialized
  /\ nextIndexStart' = ManagedStart
  /\ recentHashes' = NoHashes
  /\ StartAttempt("findStart")
  /\ UNCHANGED <<chainVars, archiveVars, initialized, lastTip>>

StartIncrement ==
  /\ pc = "idle"
  /\ FromHeight <= EndHeight(tip)
  /\ initialized
  /\ BoundaryVisible(EndHeight(tip))
  /\ StartAttempt("checkTip")
  /\ UNCHANGED <<chainVars, archiveVars, followerVars>>

IncrementBehindBoundary ==
  /\ pc = "idle"
  /\ FromHeight <= EndHeight(tip)
  /\ initialized
  /\ ~BoundaryVisible(EndHeight(tip))
  /\ TouchesPublishedIndex

-----------------------------------------------------------------------------
(* initialize: find the first range without an index, then upload from the *)
(* first block the probes do not find stored.                              *)

SkipPublishedRange ==
  /\ pc = "findStart"
  /\ nextIndexStart \in DOMAIN index
  /\ nextIndexStart' = NextRangeStart(nextIndexStart)
  /\ Goto(IF nextIndexStart' <= End THEN "findStart" ELSE "foundStart")
  /\ UNCHANGED <<chainVars, archiveVars, initialized, lastTip, recentHashes>>

StopAtUnpublishedRange ==
  /\ pc = "findStart"
  /\ nextIndexStart \notin DOMAIN index
  /\ Goto("foundStart")
  /\ UNCHANGED <<chainVars, archiveVars, followerVars>>

StartBehindBoundary ==
  /\ pc = "foundStart"
  /\ ~BoundaryVisible(End)
  /\ TouchesPublishedIndex

NothingToUpload ==
  /\ pc = "foundStart"
  /\ BoundaryVisible(End)
  /\ nextIndexStart > End
  /\ Goto("publish")
  /\ UNCHANGED <<chainVars, archiveVars, followerVars>>

StartProbes ==
  /\ pc = "foundStart"
  /\ BoundaryVisible(End)
  /\ nextIndexStart <= End
  /\ pc' = "probe"
  /\ uploadStart' = nextIndexStart
  /\ todo' = UploadProbeHeights(nextIndexStart, End)
  /\ UNCHANGED <<chainVars, archiveVars, followerVars>>
  /\ UNCHANGED <<caller, cursor, missing, inflight, hashes, localTip, progress, outcome>>

(* One getUploadBlockState of checkUploadProbes.                           *)
Probe(h) ==
  /\ pc = "probe"
  /\ h \in todo
  /\ HandedOut(h)
  /\ h <= tip
  /\ todo' = todo \ {h}
  /\ missing' = IF BlockAt(h) \in blocks THEN missing ELSE missing \cup {h}
  /\ UNCHANGED <<chainVars, archiveVars, followerVars>>
  /\ UNCHANGED <<pc, caller, uploadStart, cursor, inflight, hashes, localTip, progress, outcome>>

(* findUploadStart: upload from before the lowest probe that is missing.   *)
ProbesDone ==
  /\ pc = "probe"
  /\ todo = {}
  /\ missing' = {}
  /\ pc' = "upload"
  /\ caller' = "initial"
  /\ \/ /\ missing = {}
        /\ uploadStart' = FinalUploadWindowStart(uploadStart, End)
     \/ \E m \in missing :
          /\ \A other \in missing : m <= other
          /\ uploadStart' = PreviousUploadWindowStart(uploadStart, m)
  /\ todo' = uploadStart'..End
  /\ UNCHANGED <<chainVars, archiveVars, followerVars>>
  /\ UNCHANGED <<cursor, inflight, hashes, localTip, progress, outcome>>

-----------------------------------------------------------------------------
(* uploadBlock, on one of the workers.  Of its four calls getblockhash is  *)
(* joined with the HEAD that follows it, because only this height's worker *)
(* could store that hash in between, and getblock, which any block the     *)
(* node ever had answers, with the put that follows it.                    *)

ReadBlock(h) ==
  /\ pc = "upload"
  /\ h \in todo
  /\ HandedOut(h)
  /\ h <= tip
  /\ todo' = todo \ {h}
  /\ inflight' = IF BlockAt(h) \in blocks THEN inflight ELSE Learn(inflight, h, BlockAt(h))
  /\ UNCHANGED <<chainVars, archiveVars, followerVars>>
  /\ UNCHANGED <<pc, caller, uploadStart, cursor, missing, hashes, localTip, progress, outcome>>

Store(hash) == blocks' = blocks \cup {hash}

PutBlock(h) ==
  /\ pc = "upload"
  /\ h \in DOMAIN inflight
  /\ Store(inflight[h])
  /\ inflight' = Forget(inflight, {h})
  /\ progress' = TRUE
  /\ UNCHANGED <<chainVars, index, followerVars>>
  /\ UNCHANGED <<pc, caller, uploadStart, cursor, todo, missing, hashes, localTip, outcome>>

(* Mutant: the workers are not waited for.                                 *)
UploadHandedOut(by) == pc = "upload" /\ caller = by /\ todo = {}

UploadDone(by) == pc = "upload" /\ caller = by /\ todo = {} /\ inflight = NoHashes

InitialUploadDone ==
  /\ UploadDone("initial")
  /\ Goto("publish")
  /\ UNCHANGED <<chainVars, archiveVars, followerVars>>

IncrementUploadDone ==
  /\ UploadDone("increment")
  /\ StartRefresh(uploadStart)
  /\ UNCHANGED <<chainVars, archiveVars, followerVars>>

ReorgUploadDone ==
  /\ UploadDone("reorg")
  /\ recentHashes' = Forget(recentHashes, {h \in DOMAIN recentHashes : h >= uploadStart})
  /\ StartRefresh(uploadStart)
  /\ UNCHANGED <<chainVars, archiveVars, initialized, lastTip, nextIndexStart>>

RangeUploadDone ==
  /\ UploadDone("range")
  /\ Goto("headIndex")
  /\ UNCHANGED <<chainVars, archiveVars, followerVars>>

-----------------------------------------------------------------------------
(* uploadIncrement: compare the block remembered at the last tip with the  *)
(* node's.  The branch for a check height below the managed range is left  *)
(* out: StartIncrement's guard keeps End, and LastTipManaged keeps lastTip, *)
(* at or above it.                                                         *)

CheckHeight == IF lastTip < End THEN lastTip ELSE End

(* Mutant: the height is compared and not the hash.                        *)
RememberedHeight(h) == h \in DOMAIN recentHashes

Remembered(h) == h \in DOMAIN recentHashes /\ recentHashes[h] = BlockAt(h)

(* Mutant: the last tip is left behind.                                    *)
SettleCache(known) ==
  /\ recentHashes' = Pruned(known, nextIndexStart, End)
  /\ UNCHANGED <<initialized, lastTip, nextIndexStart>>

(* The tail from here on is settled: lastTip and the cache follow End.     *)
SettleTip(known) ==
  /\ lastTip' = End
  /\ recentHashes' = Pruned(known, nextIndexStart, End)
  /\ UNCHANGED <<initialized, nextIndexStart>>

TipUnchanged ==
  /\ pc = "checkTip"
  /\ CheckHeight <= tip
  /\ Remembered(CheckHeight)
  /\ End <= lastTip
  /\ SettleTip(recentHashes)
  /\ Goto("publish")
  /\ UNCHANGED <<chainVars, archiveVars>>

TipExtended ==
  /\ pc = "checkTip"
  /\ CheckHeight <= tip
  /\ Remembered(CheckHeight)
  /\ End > lastTip
  /\ StartUpload(lastTip + 1, End, "increment")
  /\ UNCHANGED <<chainVars, archiveVars, followerVars>>

(* Mutant: the first unpublished height counts as published.               *)
PublishedOrNext(h) == HasBoundary /\ h <= nextIndexStart

Published(h) == HasBoundary /\ h < nextIndexStart

(* uploadReorg refuses a mismatch below the unpublished tail at once.      *)
PublishedTipReorged ==
  /\ pc = "checkTip"
  /\ CheckHeight <= tip
  /\ ~Remembered(CheckHeight)
  /\ Published(CheckHeight)
  /\ TouchesPublishedIndex

WalkBottom ==
  LET start == RecentCacheStart(nextIndexStart, lastTip)
  IN  IF CheckHeight < start THEN CheckHeight ELSE start

(* The cached heights findCommonAncestor has still to look at.             *)
Unwalked(top) == {h \in DOMAIN recentHashes : WalkBottom <= h /\ h <= top}

WalkTo(h, top) ==
  /\ h \in Unwalked(top)
  /\ \A other \in Unwalked(top) : other <= h
  /\ pc' = "walk"
  /\ cursor' = h
  /\ UNCHANGED <<caller, uploadStart, batchVars, hashes, localTip, progress, outcome>>
  /\ UNCHANGED followerVars

(* Mutant: an upload is started even if there is nothing above the ancestor. *)
UploadReorgFromAlways(start) ==
  IF Published(start)
  THEN Return("reorgTouchesIndex") /\ UNCHANGED followerVars
  ELSE StartUpload(start, End, "reorg") /\ UNCHANGED followerVars

(* The end of uploadReorg's walk: upload from just above the ancestor.     *)
UploadReorgFrom(start) ==
  IF Published(start)
  THEN Return("reorgTouchesIndex") /\ UNCHANGED followerVars
  ELSE IF start <= End
       THEN StartUpload(start, End, "reorg") /\ UNCHANGED followerVars
       ELSE /\ SettleTip(Forget(recentHashes, {h \in DOMAIN recentHashes : h >= start}))
            /\ Goto("publish")

NoAncestor ==
  IF Published(WalkBottom)
  THEN Return("reorgTouchesIndex") /\ UNCHANGED followerVars
  ELSE UploadReorgFrom(nextIndexStart)

WalkDown(top) ==
  \/ \E h \in DOMAIN recentHashes : WalkTo(h, top)
  \/ Unwalked(top) = {} /\ NoAncestor

TipReorged ==
  /\ pc = "checkTip"
  /\ CheckHeight <= tip
  /\ ~Remembered(CheckHeight)
  /\ ~Published(CheckHeight)
  /\ WalkDown(CheckHeight)
  /\ UNCHANGED <<chainVars, archiveVars>>

AncestorFound ==
  /\ pc = "walk"
  /\ cursor <= tip
  /\ Remembered(cursor)
  /\ UploadReorgFrom(cursor + 1)
  /\ UNCHANGED <<chainVars, archiveVars>>

WalkOn ==
  /\ pc = "walk"
  /\ cursor <= tip
  /\ ~Remembered(cursor)
  /\ WalkDown(cursor - 1)
  /\ UNCHANGED <<chainVars, archiveVars>>

-----------------------------------------------------------------------------
(* publishStableIndexes: one complete stable range after another.          *)

(* Mutants: stable_delay is ignored; it is one block short; it is one more. *)
PublishableAtTip == RangeEnd <= End

PublishableEarly ==
  /\ localTip >= StableDelay
  /\ RangeEnd <= End
  /\ RangeEnd <= localTip - StableDelay + 1

PublishableLate ==
  /\ localTip >= StableDelay
  /\ RangeEnd <= End
  /\ RangeEnd < localTip - StableDelay

Publishable ==
  /\ localTip >= StableDelay
  /\ RangeEnd <= End
  /\ RangeEnd <= localTip - StableDelay

(* Mutant: as in the one-shot upload, the range is not looked at again.    *)
TrustTail == Goto("headIndex")

UploadRange == StartUpload(nextIndexStart, RangeEnd, "range")

BeginRange ==
  /\ pc = "publish"
  /\ Publishable
  /\ UploadRange
  /\ UNCHANGED <<chainVars, archiveVars, followerVars>>

InitialPublishDone ==
  /\ pc = "publish"
  /\ ~Publishable
  /\ ~initialized
  /\ StartRefresh(RecentCacheStart(nextIndexStart, End))
  /\ UNCHANGED <<chainVars, archiveVars, followerVars>>

PublishDone ==
  /\ pc = "publish"
  /\ ~Publishable
  /\ initialized
  /\ FinishResult(progress)
  /\ UNCHANGED <<chainVars, archiveVars, followerVars>>

(* uploadRangeIndexIfMissing                                               *)
IndexExists ==
  /\ pc = "headIndex"
  /\ nextIndexStart \in DOMAIN index
  /\ Goto("boundary")
  /\ UNCHANGED <<chainVars, archiveVars, followerVars>>

IndexMissing ==
  /\ pc = "headIndex"
  /\ nextIndexStart \notin DOMAIN index
  /\ pc' = "readHashes"
  /\ cursor' = nextIndexStart
  /\ UNCHANGED <<chainVars, archiveVars, followerVars>>
  /\ UNCHANGED <<caller, uploadStart, batchVars, hashes, localTip, progress, outcome>>

ReadRangeHash ==
  /\ pc = "readHashes"
  /\ cursor <= tip
  /\ hashes' = Learn(hashes, cursor, BlockAt(cursor))
  /\ cursor' = cursor + 1
  /\ pc' = IF cursor = RangeEnd THEN "putIndex" ELSE "readHashes"
  /\ UNCHANGED <<chainVars, archiveVars, followerVars>>
  /\ UNCHANGED <<caller, uploadStart, batchVars, localTip, progress, outcome>>

PutIndex ==
  /\ pc = "putIndex"
  /\ index' = PutObject(index, nextIndexStart, hashes)
  /\ progress' = TRUE
  /\ hashes' = NoHashes
  /\ pc' = "boundary"
  /\ cursor' = 0
  /\ UNCHANGED <<chainVars, blocks, followerVars>>
  /\ UNCHANGED <<caller, uploadStart, batchVars, localTip, outcome>>

ReadBoundary ==
  /\ pc = "boundary"
  /\ RangeEnd <= tip
  /\ nextIndexStart' = NextRangeStart(nextIndexStart)
  /\ recentHashes' = Pruned(Learn(recentHashes, RangeEnd, BlockAt(RangeEnd)), nextIndexStart', End)
  /\ Goto("publish")
  /\ UNCHANGED <<chainVars, archiveVars, initialized, lastTip>>

-----------------------------------------------------------------------------
(* refreshRecentHashes, and what follows it.  Only initialize returns from *)
(* here: the two other callers go on to publishStableIndexes.              *)

ReadRecentHash ==
  /\ pc = "refresh"
  /\ cursor <= tip
  /\ cursor < End
  /\ recentHashes' = Learn(recentHashes, cursor, BlockAt(cursor))
  /\ cursor' = cursor + 1
  /\ UNCHANGED <<chainVars, archiveVars, initialized, lastTip, nextIndexStart>>
  /\ UNCHANGED <<pc, caller, uploadStart, batchVars, hashes, localTip, progress, outcome>>

RefreshDone ==
  /\ pc = "refresh"
  /\ cursor <= tip
  /\ cursor = End
  /\ recentHashes' = Pruned(Learn(recentHashes, cursor, BlockAt(cursor)), nextIndexStart, End)
  /\ lastTip' = End
  /\ initialized' = TRUE
  /\ IF initialized THEN Goto("publish") ELSE FinishResult(progress)
  /\ UNCHANGED <<chainVars, archiveVars, nextIndexStart>>

-----------------------------------------------------------------------------
(* What can go wrong.  A call is one of the heights below, or an R2 call.  *)

AwaitedHeights ==
  CASE pc = "checkTip" -> {CheckHeight}
    [] pc \in {"probe", "upload"} -> {h \in todo : HandedOut(h)}
    [] pc \in {"walk", "readHashes", "refresh"} -> {cursor}
    [] pc = "boundary" -> {RangeEnd}
    [] OTHER -> {}

R2CallPending == pc \in {"findStart", "headIndex", "putIndex"} \/ DOMAIN inflight # {}

(* bitcoind has no block at the height any more: getblockhash fails.       *)
HashUnavailable ==
  /\ \E h \in AwaitedHeights : h > tip
  /\ Return("error")
  /\ UNCHANGED <<chainVars, archiveVars, followerVars>>

(* Any call may fail, getblockcount included.  A put whose effect is lost  *)
(* fails before it, one whose answer is lost fails after it.               *)
CallFails ==
  /\ pc = "idle" \/ AwaitedHeights # {} \/ R2CallPending
  /\ Return("error")
  /\ UNCHANGED <<chainVars, archiveVars, followerVars>>

(* The process dies and is started again: only the bucket survives.        *)
Crash ==
  /\ initialized' = FALSE
  /\ lastTip' = 0
  /\ nextIndexStart' = ManagedStart
  /\ recentHashes' = NoHashes
  /\ Return("none")
  /\ UNCHANGED <<chainVars, archiveVars>>

ChainMoves ==
  /\ NodeMoves
  /\ UNCHANGED <<followerVars, callVars>>

-----------------------------------------------------------------------------
(* NewUploadFollower, before its first UploadOnce.                         *)
Init ==
  /\ ChainInit
  /\ BucketInit
  /\ initialized = FALSE
  /\ lastTip = 0
  /\ nextIndexStart = ManagedStart
  /\ recentHashes = NoHashes
  /\ pc = "idle"
  /\ caller = "none"
  /\ localTip = 0
  /\ uploadStart = 0
  /\ cursor = 0
  /\ todo = {}
  /\ missing = {}
  /\ inflight = NoHashes
  /\ hashes = NoHashes
  /\ progress = FALSE
  /\ outcome = "none"

Initialize ==
  \/ StartInitialize \/ SkipPublishedRange \/ StopAtUnpublishedRange
  \/ StartBehindBoundary \/ NothingToUpload \/ StartProbes
  \/ \E h \in todo : Probe(h)
  \/ ProbesDone

UploadBlocks ==
  \/ \E h \in todo : ReadBlock(h)
  \/ \E h \in DOMAIN inflight : PutBlock(h)
  \/ InitialUploadDone \/ IncrementUploadDone \/ ReorgUploadDone \/ RangeUploadDone

UploadIncrement ==
  \/ StartIncrement \/ IncrementBehindBoundary
  \/ TipUnchanged \/ TipExtended \/ PublishedTipReorged
  \/ TipReorged \/ AncestorFound \/ WalkOn

PublishStableIndexes ==
  \/ BeginRange \/ InitialPublishDone \/ PublishDone
  \/ IndexExists \/ IndexMissing \/ ReadRangeHash \/ PutIndex \/ ReadBoundary

RefreshRecentHashes == ReadRecentHash \/ RefreshDone

(* The follower's own steps: those of an attempt whose calls all answer.   *)
Step ==
  \/ NothingManaged \/ Initialize \/ UploadBlocks \/ UploadIncrement
  \/ PublishStableIndexes \/ RefreshRecentHashes \/ HashUnavailable

Next == Step \/ CallFails \/ Crash \/ ChainMoves

Spec == Init /\ [][Next]_vars

FairSpec == Spec /\ WF_vars(Step)

-----------------------------------------------------------------------------
(* Properties                                                              *)

Locations ==
  {"idle", "findStart", "foundStart", "probe", "upload", "checkTip", "walk", "publish",
   "headIndex", "readHashes", "putIndex", "boundary", "refresh"}

FollowerTypeOK ==
  /\ initialized \in BOOLEAN
  /\ lastTip \in Heights
  /\ nextIndexStart \in Nat
  /\ HashesByHeight(recentHashes)

CallTypeOK ==
  /\ pc \in Locations
  /\ caller \in {"none", "initial", "increment", "reorg", "range"}
  /\ localTip \in Heights
  /\ uploadStart \in Nat
  /\ cursor \in Nat
  /\ todo \subseteq Heights
  /\ missing \subseteq Heights
  /\ HashesByHeight(inflight)
  /\ HashesByHeight(hashes)
  /\ progress \in BOOLEAN
  /\ outcome \in {"none", "work", "waiting", "error", "reorgTouchesIndex"}

(* The type of the node's chain, the bucket, the follower's fields and the *)
(* locals of an attempt.                                                   *)
TypeOK == ChainTypeOK /\ BucketTypeOK /\ FollowerTypeOK /\ CallTypeOK

(* Every hash in a published range index names a stored block: the upload  *)
(* of the range, the reading of its hashes and the put of the index are    *)
(* many calls, and the chain moves between them.                           *)
IndexComplete ==
  \A s \in DOMAIN index : \A h \in RangeHeights(s) : index[s][h] \in blocks

(* A published index agrees with the active chain wherever the chain       *)
(* reaches: no reorganisation shorter than stable_delay, and no read that  *)
(* straddles one, leaves an index with a hash of a replaced block.         *)
IndexMatchesChain ==
  \A s \in DOMAIN index : \A h \in RangeHeights(s) :
     h <= tip => index[s][h] = BlockAt(h)

-----------------------------------------------------------------------------
(* Why the two hold when StableDelay >= ReorgDepth: the invariant their    *)
(* proof needs.                                                            *)

StableDelayCovers == ReorgDepth <= StableDelay

PublishingCalls == {"headIndex", "readHashes", "putIndex"}

Publishing == pc \in PublishingCalls \/ pc = "boundary" \/ (pc = "upload" /\ caller = "range")

(* No reorganisation reaches the range in hand any more.                   *)
RangeFinal == localTip <= peak /\ (Publishing => Final(RangeEnd))

(* Each block of the range in hand is unread, being uploaded, or stored.   *)
RangeAccounted ==
  pc = "upload" /\ caller = "range" =>
    \A h \in RangeHeights(nextIndexStart) :
       \/ h \in todo
       \/ h \in DOMAIN inflight /\ inflight[h] = BlockAt(h)
       \/ BlockAt(h) \in blocks

RangeStored ==
  pc \in PublishingCalls => \A h \in RangeHeights(nextIndexStart) : BlockAt(h) \in blocks

(* The hashes slice is a prefix of the range, and the chain's own.         *)
HashesRead ==
  /\ pc = "readHashes" =>
       /\ cursor \in RangeHeights(nextIndexStart)
       /\ hashes = [h \in nextIndexStart..(cursor - 1) |-> BlockAt(h)]
  /\ pc = "putIndex" => hashes = ChainHashes(nextIndexStart)
  /\ pc \notin {"readHashes", "putIndex"} => hashes = NoHashes

PublishedFinal ==
  \A s \in DOMAIN index :
     /\ Final(EndOfRange(s))
     /\ index[s] = ChainHashes(s)
     /\ \A h \in RangeHeights(s) : BlockAt(h) \in blocks

(* The inductive invariant.                                                *)
IndexInv ==
  /\ StableDelayCovers
  /\ TypeOK
  /\ RangeFinal
  /\ RangeAccounted
  /\ RangeStored
  /\ HashesRead
  /\ PublishedFinal

-----------------------------------------------------------------------------
(* The cache never loses the block below the first unpublished range, the  *)
(* one a reorganisation of published blocks is recognised by; pruning to a *)
(* shorter chain and forgetting reorganised heights come close to it.      *)
BoundaryCached ==
  initialized /\ HasBoundary => Boundary \in DOMAIN recentHashes

(* An initialized follower's last tip is a managed height, at or above the *)
(* last published one, so uploadIncrement's first branch is never taken.   *)
LastTipManaged ==
  initialized => lastTip >= ManagedStart /\ (HasBoundary => lastTip >= Boundary)

(* uploadBlocksFrom is never called with from > to: its loop stops at      *)
(* height = to only, and would run to 2^64.                                *)
UploadsNotEmpty == [][pc' = "upload" /\ pc # "upload" => todo' # {}]_vars

(* ErrUploadReorgTouchesPublishedIndex is returned only when the chain no  *)
(* longer reaches the published boundary or has another block there.  A    *)
(* to_height below the boundary is excepted: for it a chain that stops     *)
(* there and one that was cut off there are the same.                      *)
AlarmJustified ==
  [][Step /\ outcome' = "reorgTouchesIndex" /\ (ToHeight # NoHeight => Boundary <= ToHeight) =>
       \/ (IF pc = "idle" THEN tip ELSE localTip) < Boundary
       \/ Boundary \in DOMAIN recentHashes /\ Boundary <= tip /\ ~Remembered(Boundary)]_vars

(* The chain ends below FromHeight, and not at the last tip: UploadOnce    *)
(* returns before it does anything, with a Tip that is not LastTip, so its *)
(* HasWork is true.                                                        *)
TipUnmanaged == FromHeight > EndHeight(tip) /\ EndHeight(tip) # lastTip

(* If the chain comes to rest, and no call fails from then on, the         *)
(* follower comes to rest too: it stops reporting work, so runUpload       *)
(* sleeps between polls instead of calling again at once.  There is one    *)
(* exception, a chain that rests below FromHeight.                         *)
QuietChainRests ==
  <>[][Step]_vars => <>[](TipUnmanaged \/ outcome \in {"none", "waiting"})

(* And then every complete managed range that is stable, and not above     *)
(* ToHeight, has its index.                                                *)
StableRangesPublished ==
  <>[][Step]_vars =>
    <>[](\A s \in Heights :
           s % RangeSize = 0 /\ ManagedStart <= s
             /\ EndOfRange(s) + StableDelay <= tip /\ EndOfRange(s) <= EndHeight(tip)
                => s \in DOMAIN index)

-----------------------------------------------------------------------------
(* The bucket as BlockArchive specifies it.                                *)
Archive == INSTANCE BlockArchive

(* The follower implements the archive: reading a range's hashes one call  *)
(* at a time and putting the index later amounts to one atomic Publish.    *)
ImplementsArchive == Archive!Spec
=============================================================================
