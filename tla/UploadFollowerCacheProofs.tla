----------------------- MODULE UploadFollowerCacheProofs ----------------------
(***************************************************************************)
(* Machine-checked properties of the fields an UploadFollower keeps        *)
(* between attempts, recentHashes, lastTip and nextIndexStart.  The first  *)
(* part holds whatever the chain does, the second, from Current on, while  *)
(* it moves only between attempts; nothing in either assumes that          *)
(* StableDelay covers the depth of a reorganisation.                       *)
(***************************************************************************)
EXTENDS UploadFollowerProofs, MCFollowerAtRest

Initializing ==
  pc \in {"findStart", "foundStart", "probe"} \/ (pc = "upload" /\ caller = "initial")

Incrementing ==
  pc \in {"checkTip", "walk"} \/ (pc = "upload" /\ caller \in {"increment", "reorg"})

(* What an attempt under way has established.                              *)
AttemptStarted ==
  /\ nextIndexStart >= ManagedStart
  /\ pc # "idle" => outcome = "none" /\ ManagedStart <= End
  /\ pc \notin {"idle", "findStart", "foundStart"} => BoundaryVisible(End)
  /\ Incrementing => initialized
  /\ Initializing => ~initialized

(* The probes and the windows they lead to stay within the upload.         *)
ProbesInReach ==
  /\ pc = "probe" => uploadStart <= End /\ \A h \in todo \cup missing : h <= End
  /\ missing # {} => pc = "probe"

(* The walk back does not pass the published boundary.                     *)
WalkInReach == pc = "walk" => ~(HasBoundary /\ cursor < Boundary)

UploadsInReach ==
  /\ pc = "upload" /\ caller = "reorg" => ~Published(uploadStart)
  /\ Publishing => RangeEnd <= End
  /\ (Publishing \/ pc = "publish") /\ initialized => lastTip = End

(* The first refresh starts low enough to read the boundary's hash.        *)
RefreshInReach ==
  pc = "refresh" /\ ~initialized /\ HasBoundary =>
    cursor <= Boundary \/ Boundary \in DOMAIN recentHashes

(* The inductive invariant.                                                *)
CacheInv ==
  /\ TypeOK
  /\ BoundaryCached
  /\ LastTipManaged
  /\ AttemptStarted
  /\ ProbesInReach
  /\ WalkInReach
  /\ UploadsInReach
  /\ RefreshInReach

-----------------------------------------------------------------------------
(* The numbers the steps compare.                                          *)
LEMMA Numbers ==
  ASSUME TypeOK
  PROVE  /\ lastTip \in Nat /\ nextIndexStart \in Nat /\ cursor \in Nat /\ uploadStart \in Nat
         /\ localTip \in Nat /\ tip \in Nat /\ End \in Nat /\ ManagedStart \in Nat
         /\ RangeEnd \in Nat /\ nextIndexStart <= RangeEnd /\ Boundary \in Int
BY EndType, ManagedStartType, RangeTypes, ChainAssumption
   DEF TypeOK, FollowerTypeOK, CallTypeOK, ChainTypeOK, Heights, Boundary

(* The managed range begins at or below from_height.                       *)
LEMMA ManagedStartBelow == ManagedStart <= FromHeight
<1> DEFINE q == FromHeight \div RangeSize
           r == FromHeight % RangeSize
<1>1. q \in Nat /\ r \in 0..(RangeSize - 1) /\ FromHeight = RangeSize * q + r
  BY FollowerAssumption, RangeSizeAssumption
<1>2. RangeSize * q = q * RangeSize /\ q * RangeSize \in Nat
  BY <1>1, RangeSizeAssumption
<1> HIDE DEF q, r
<1>3. q * RangeSize <= FromHeight
  BY <1>1, <1>2, RangeSizeAssumption
<1> QED
  BY <1>3 DEF ManagedStart, StartHeight, q

(* Pruning to a chain that reaches the boundary keeps the boundary's hash. *)
LEMMA PrunedKeepsBoundary ==
  ASSUME NEW known, NEW n \in Nat, NEW e \in Nat, n > ManagedStart, n - 1 <= e,
         n - 1 \in DOMAIN known
  PROVE  n - 1 \in DOMAIN Pruned(known, n, e)
<1>1. RecentCacheStart(n, e) <= n - 1
  BY ManagedStartType DEF RecentCacheStart
<1> QED BY <1>1 DEF Pruned, Restrict

(* What a step that leaves the fields and the attempt's tip alone keeps.   *)
LEMMA Frame ==
  ASSUME CacheInv, UNCHANGED <<followerVars, localTip>>
  PROVE  /\ BoundaryCached' /\ LastTipManaged' /\ nextIndexStart' >= ManagedStart
         /\ End' = End /\ Boundary' = Boundary /\ RangeEnd' = RangeEnd
         /\ HasBoundary' <=> HasBoundary
         /\ BoundaryVisible(End)' <=> BoundaryVisible(End)
<1>1. End' = End /\ Boundary' = Boundary /\ RangeEnd' = RangeEnd
  BY DEF End, Boundary, RangeEnd, followerVars
<1>2. HasBoundary' <=> HasBoundary
  BY DEF HasBoundary, followerVars
<1>3. BoundaryVisible(End)' <=> BoundaryVisible(End)
  BY <1>1, <1>2 DEF BoundaryVisible
<1>4. BoundaryCached' /\ LastTipManaged'
  BY <1>1, <1>2 DEF CacheInv, BoundaryCached, LastTipManaged, followerVars
<1>5. nextIndexStart' >= ManagedStart
  BY DEF CacheInv, AttemptStarted, followerVars
<1> QED BY <1>1, <1>2, <1>3, <1>4, <1>5

(* Every step that ends an attempt and leaves the fields alone.            *)
LEMMA ReturnCache ==
  ASSUME CacheInv, TypeOK', NEW how, Return(how), UNCHANGED followerVars
  PROVE  CacheInv'
<1>1. BoundaryCached' /\ LastTipManaged' /\ nextIndexStart' >= ManagedStart
  BY DEF CacheInv, BoundaryCached, LastTipManaged, AttemptStarted, HasBoundary, Boundary,
         followerVars
<1>2. pc' = "idle" /\ missing' = {}
  BY DEF Return, NoCall
<1> QED
  BY <1>1, <1>2
     DEF CacheInv, AttemptStarted, Initializing, Incrementing, ProbesInReach, WalkInReach, UploadsInReach,
         Publishing, PublishingCalls, RefreshInReach

(* The steps that end an attempt without touching the fields.              *)
LEMMA IdleStepsCache ==
  ASSUME CacheInv, TypeOK',
         NothingManaged \/ IncrementBehindBoundary \/ StartBehindBoundary
           \/ PublishedTipReorged \/ PublishDone \/ HashUnavailable \/ CallFails
  PROVE  CacheInv'
BY ReturnCache
   DEF NothingManaged, IncrementBehindBoundary, StartBehindBoundary, PublishedTipReorged,
       PublishDone, HashUnavailable, CallFails, FinishResult, TouchesPublishedIndex

(* A restart begins with an empty struct.                                  *)
LEMMA CrashCache ==
  ASSUME CacheInv, TypeOK', Crash
  PROVE  CacheInv'
<1>1. initialized' = FALSE /\ nextIndexStart' = ManagedStart /\ pc' = "idle" /\ missing' = {}
  BY DEF Crash, Return, NoCall
<1> QED
  BY <1>1, ManagedStartType
     DEF CacheInv, BoundaryCached, LastTipManaged, AttemptStarted, Initializing, Incrementing, ProbesInReach,
         WalkInReach, UploadsInReach, Publishing, PublishingCalls, RefreshInReach

(* The parts of the invariant about where an attempt stands, for a step    *)
(* that leaves the fields and the attempt's tip alone and goes on.         *)
LEMMA MoveCache ==
  ASSUME CacheInv, TypeOK', UNCHANGED <<followerVars, localTip, outcome>>,
         pc # "idle",
         pc \in {"findStart", "foundStart"} =>
            pc' = "foundStart" \/ (BoundaryVisible(End) /\ (pc' = "publish" \/ Initializing')),
         Initializing' => ~initialized,
         Incrementing' => initialized,
         ProbesInReach', WalkInReach', RefreshInReach',
         pc' = "upload" /\ caller' = "reorg" => ~Published(uploadStart'),
         Publishing' => RangeEnd <= End,
         (Publishing' \/ pc' = "publish") /\ initialized => lastTip = End
  PROVE  CacheInv'
<1>1. AttemptStarted'
  BY Frame DEF CacheInv, AttemptStarted, followerVars
<1>2. UploadsInReach'
  <2>1. Published(uploadStart)' <=> Published(uploadStart')
    BY Frame DEF Published, followerVars
  <2> QED BY <2>1, Frame DEF UploadsInReach, followerVars
<1> QED BY <1>1, <1>2, Frame DEF CacheInv

(* An attempt starts.                                                      *)
LEMMA StartCache ==
  ASSUME CacheInv, TypeOK', StartInitialize \/ StartIncrement
  PROVE  CacheInv'
<1>1. End' = EndHeight(tip) /\ FromHeight <= End' /\ outcome' = "none"
  BY DEF StartInitialize, StartIncrement, StartAttempt, End
<1>2. pc # "probe" /\ UNCHANGED missing
  BY DEF StartInitialize, StartIncrement, StartAttempt, batchVars
<1>3. End' \in Nat /\ ManagedStart <= End'
  BY <1>1, Numbers, ManagedStartBelow, ManagedStartType, EndHeightType, FollowerAssumption,
     ChainAssumption DEF CacheInv, TypeOK, ChainTypeOK, Heights
<1>4. CASE StartInitialize
  <2>1. pc' = "findStart" /\ ~initialized' /\ nextIndexStart' = ManagedStart
    BY <1>4 DEF StartInitialize, StartAttempt, CacheInv
  <2> QED
    BY <1>2, <1>1, <1>3, <2>1, ManagedStartType
       DEF CacheInv, BoundaryCached, LastTipManaged, AttemptStarted, Initializing, Incrementing, ProbesInReach,
           WalkInReach, UploadsInReach, Publishing, PublishingCalls, RefreshInReach
<1>5. CASE StartIncrement
  <2>1. pc' = "checkTip" /\ initialized /\ BoundaryVisible(End') /\ UNCHANGED followerVars
    BY <1>1, <1>5 DEF StartIncrement, StartAttempt
  <2>2. AttemptStarted'
    BY <1>1, <1>3, <2>1
       DEF CacheInv, AttemptStarted, Initializing, Incrementing, BoundaryVisible, HasBoundary, Boundary,
           followerVars
  <2> QED
    BY <1>2, <2>1, <2>2
       DEF CacheInv, BoundaryCached, LastTipManaged, HasBoundary, Boundary, ProbesInReach,
           WalkInReach, UploadsInReach, Publishing, PublishingCalls, RefreshInReach, followerVars
<1> QED BY <1>4, <1>5

(* The first attempt passes a published range.                             *)
LEMMA SkipPublishedRangeCache ==
  ASSUME CacheInv, TypeOK', SkipPublishedRange
  PROVE  CacheInv'
<1>1. /\ ~initialized' /\ pc' \in {"findStart", "foundStart"}
      /\ pc # "probe" /\ UNCHANGED <<localTip, outcome, missing>>
      /\ nextIndexStart' = nextIndexStart + RangeSize
  BY DEF SkipPublishedRange, Goto, batchVars, NextRangeStart, CacheInv, AttemptStarted, Initializing
<1>2. End' = End
  BY <1>1 DEF End
<1>3. nextIndexStart' >= ManagedStart
  BY <1>1, Numbers, RangeSizeAssumption DEF CacheInv, AttemptStarted
<1> QED
  BY <1>1, <1>2, <1>3
     DEF CacheInv, BoundaryCached, LastTipManaged, AttemptStarted, Initializing, Incrementing, ProbesInReach,
         WalkInReach, UploadsInReach, Publishing, PublishingCalls, RefreshInReach,
         SkipPublishedRange

(* It goes on to the probes and to the uploads.                            *)
LEMMA InitializeCache ==
  ASSUME CacheInv, TypeOK', Initialize
  PROVE  CacheInv'
<1> USE DEF WalkInReach, RefreshInReach, Publishing, PublishingCalls, Initializing, Incrementing
<1>1. CASE StopAtUnpublishedRange \/ NothingToUpload
  <2>1. ~initialized
    BY <1>1 DEF CacheInv, AttemptStarted, StopAtUnpublishedRange, NothingToUpload
  <2>2. ProbesInReach'
    BY <1>1 DEF CacheInv, StopAtUnpublishedRange, NothingToUpload, Goto, ProbesInReach, batchVars
  <2> QED
    BY <1>1, <2>1, <2>2, MoveCache
       DEF StopAtUnpublishedRange, NothingToUpload, Goto
<1>2. CASE StartProbes
  <2>1. ~initialized
    BY <1>2 DEF CacheInv, AttemptStarted, StartProbes
  <2>2. \A h \in UploadProbeHeights(nextIndexStart, End) : h <= End
    BY Numbers DEF CacheInv, UploadProbeHeights
  <2>3. missing = {}
    BY <1>2 DEF StartProbes, CacheInv, ProbesInReach
  <2>4. ProbesInReach'
    BY <1>2, <2>2, <2>3, Frame DEF StartProbes, ProbesInReach
  <2> QED
    BY <1>2, <2>1, <2>4, MoveCache DEF StartProbes
<1>3. ASSUME NEW h \in todo, Probe(h) PROVE CacheInv'
  <2>1. ~initialized
    BY <1>3 DEF CacheInv, AttemptStarted, Probe
  <2>2. ProbesInReach'
    BY <1>3, Frame DEF Probe, ProbesInReach, CacheInv
  <2> QED
    BY <1>3, <2>1, <2>2, MoveCache DEF Probe
<1>4. CASE ProbesDone
  <2>1. ~initialized
    BY <1>4 DEF CacheInv, AttemptStarted, ProbesDone
  <2> QED
    BY <1>4, <2>1, MoveCache DEF ProbesDone, ProbesInReach
<1>5. CASE StartBehindBoundary
  BY <1>5, IdleStepsCache
<1> QED
  BY <1>1, <1>2, <1>3, <1>4, <1>5, StartCache, SkipPublishedRangeCache DEF Initialize

(* Blocks are read and put.                                                *)
LEMMA UploadBlocksCache ==
  ASSUME CacheInv, TypeOK', UploadBlocks
  PROVE  CacheInv'
<1> USE DEF WalkInReach, Publishing, PublishingCalls, Initializing, Incrementing
<1>1. ASSUME NEW h \in todo, ReadBlock(h) PROVE CacheInv'
  BY <1>1, MoveCache
     DEF ReadBlock, CacheInv, AttemptStarted, ProbesInReach, UploadsInReach, RefreshInReach
<1>2. ASSUME NEW h \in DOMAIN inflight, PutBlock(h) PROVE CacheInv'
  BY <1>2, MoveCache
     DEF PutBlock, CacheInv, AttemptStarted, ProbesInReach, UploadsInReach, RefreshInReach
<1>3. CASE InitialUploadDone \/ RangeUploadDone
  BY <1>3, MoveCache
     DEF InitialUploadDone, RangeUploadDone, UploadDone, Goto, batchVars, CacheInv,
         AttemptStarted, ProbesInReach, UploadsInReach, RefreshInReach
<1>4. CASE IncrementUploadDone
  <2>1. /\ pc = "upload" /\ pc' = "refresh" /\ initialized
        /\ UNCHANGED <<followerVars, localTip, outcome, missing>>
    BY <1>4 DEF IncrementUploadDone, UploadDone, StartRefresh, batchVars, CacheInv, AttemptStarted
  <2>2. ProbesInReach' /\ RefreshInReach'
    BY <2>1 DEF CacheInv, ProbesInReach, RefreshInReach, followerVars
  <2> QED BY <2>1, <2>2, MoveCache
<1>5. CASE ReorgUploadDone
  <2>1. /\ pc' = "refresh" /\ initialized /\ UNCHANGED <<initialized, lastTip, nextIndexStart>>
        /\ UNCHANGED <<localTip, outcome, missing>>
    BY <1>5 DEF ReorgUploadDone, UploadDone, StartRefresh, batchVars, CacheInv, AttemptStarted
  <2>2. HasBoundary => Boundary < uploadStart
    BY <1>5, Numbers DEF ReorgUploadDone, UploadDone, CacheInv, UploadsInReach, Published, Boundary
  <2>3. BoundaryCached'
    <3>1. HasBoundary => Boundary \in DOMAIN recentHashes /\ ~(Boundary >= uploadStart)
      BY <2>1, <2>2, Numbers DEF CacheInv, BoundaryCached
    <3>2. DOMAIN recentHashes' = DOMAIN recentHashes \ {h \in DOMAIN recentHashes : h >= uploadStart}
      BY <1>5 DEF ReorgUploadDone, Forget, Restrict
    <3> QED BY <2>1, <3>1, <3>2 DEF BoundaryCached, HasBoundary, Boundary
  <2>4. End' = End
    BY <2>1 DEF End
  <2> QED
    BY <1>5, <2>1, <2>3, <2>4
       DEF ReorgUploadDone, UploadDone, CacheInv, LastTipManaged, AttemptStarted, ProbesInReach,
           UploadsInReach, RefreshInReach, HasBoundary, Boundary, BoundaryVisible
<1> QED BY <1>1, <1>2, <1>3, <1>4, <1>5 DEF UploadBlocks

(* The tail is settled: lastTip becomes End and the boundary stays cached. *)
LEMMA SettleTipCache ==
  ASSUME CacheInv, TypeOK', Incrementing, NEW known, SettleTip(known), Goto("publish"),
         HasBoundary => Boundary \in DOMAIN known
  PROVE  CacheInv'
<1>1. /\ pc' = "publish" /\ initialized /\ lastTip' = End
      /\ UNCHANGED <<initialized, nextIndexStart, localTip, outcome, missing>>
      /\ pc # "probe" /\ pc \notin {"idle", "findStart", "foundStart"}
  BY DEF SettleTip, Goto, batchVars, CacheInv, AttemptStarted, Incrementing
<1>2. End' = End /\ (HasBoundary' <=> HasBoundary) /\ Boundary' = Boundary
  BY <1>1 DEF End, HasBoundary, Boundary
<1>3. HasBoundary => Boundary <= End
  BY <1>1 DEF CacheInv, AttemptStarted, BoundaryVisible
<1>4. BoundaryCached'
  <2>1. HasBoundary => Boundary \in DOMAIN Pruned(known, nextIndexStart, End)
    BY <1>3, Numbers, PrunedKeepsBoundary DEF CacheInv, HasBoundary, Boundary
  <2> QED BY <1>2, <2>1 DEF SettleTip, BoundaryCached
<1>5. LastTipManaged'
  BY <1>1, <1>2, <1>3 DEF LastTipManaged, CacheInv, AttemptStarted
<1>6. AttemptStarted' /\ ProbesInReach'
  BY <1>1, <1>2, <1>3
     DEF CacheInv, AttemptStarted, Initializing, Incrementing, BoundaryVisible, ProbesInReach
<1> QED
  BY <1>1, <1>2, <1>4, <1>5, <1>6
     DEF CacheInv, WalkInReach, UploadsInReach, Publishing, PublishingCalls, RefreshInReach

(* An upload from the fork on starts above the published boundary.         *)
LEMMA UploadReorgFromCache ==
  ASSUME CacheInv, TypeOK', pc \in {"checkTip", "walk"}, NEW start \in Nat,
         UploadReorgFrom(start)
  PROVE  CacheInv'
<1>1. CASE Published(start)
  BY <1>1, ReturnCache DEF UploadReorgFrom
<1>2. CASE ~Published(start) /\ start <= End
  <2>1. StartUpload(start, End, "reorg") /\ UNCHANGED followerVars
    BY <1>2 DEF UploadReorgFrom
  <2> QED
    BY <1>2, <2>1, MoveCache
       DEF StartUpload, CacheInv, AttemptStarted, Initializing, Incrementing, ProbesInReach,
           WalkInReach, RefreshInReach, Publishing, PublishingCalls
<1>3. CASE ~Published(start) /\ ~(start <= End)
  <2> DEFINE forgotten == Forget(recentHashes, {h \in DOMAIN recentHashes : h >= start})
  <2>1. SettleTip(forgotten) /\ Goto("publish")
    BY <1>3 DEF UploadReorgFrom
  <2>2. HasBoundary => Boundary \in DOMAIN recentHashes /\ ~(Boundary >= start)
    BY <1>3, Numbers
       DEF Published, Boundary, CacheInv, AttemptStarted, Incrementing, BoundaryCached
  <2>3. HasBoundary => Boundary \in DOMAIN forgotten
    BY <2>2 DEF Forget, Restrict
  <2> HIDE DEF forgotten
  <2> QED BY <2>1, <2>3, SettleTipCache DEF Incrementing
<1> QED BY <1>1, <1>2, <1>3

(* With a boundary the walk's lower end is the boundary.                   *)
LEMMA WalkBottomIsBoundary ==
  ASSUME CacheInv, pc \in {"checkTip", "walk"}, HasBoundary
  PROVE  /\ WalkBottom = Boundary /\ Boundary <= CheckHeight
         /\ Boundary \in DOMAIN recentHashes
<1>1. initialized /\ Boundary <= End /\ Boundary <= lastTip
  BY DEF CacheInv, AttemptStarted, Incrementing, BoundaryVisible, LastTipManaged
<1>2. Boundary <= CheckHeight
  BY <1>1 DEF CheckHeight
<1>3. RecentCacheStart(nextIndexStart, lastTip) = Boundary
  BY <1>1, Numbers DEF RecentCacheStart, HasBoundary, Boundary, CacheInv
<1>4. CheckHeight \in Nat
  BY Numbers DEF CheckHeight, CacheInv
<1> QED
  BY <1>1, <1>2, <1>3, <1>4, Numbers DEF WalkBottom, CacheInv, BoundaryCached

(* The walk goes down by one height, or ends at the boundary.              *)
LEMMA WalkDownCache ==
  ASSUME CacheInv, TypeOK', pc \in {"checkTip", "walk"}, NEW top, WalkDown(top)
  PROVE  CacheInv'
<1>1. ASSUME NEW h \in DOMAIN recentHashes, WalkTo(h, top)
      PROVE  CacheInv'
  <2>1. HasBoundary => Boundary <= h
    BY <1>1, WalkBottomIsBoundary DEF WalkTo, Unwalked
  <2>2. pc' = "walk" /\ cursor' = h /\ initialized
    BY <1>1 DEF WalkTo, CacheInv, AttemptStarted, Incrementing
  <2>3. h \in Nat
    BY ChainAssumption DEF CacheInv, TypeOK, FollowerTypeOK, HashesByHeight, Heights
  <2>4. WalkInReach'
    BY <1>1, <2>1, <2>2, <2>3, Numbers DEF WalkTo, WalkInReach, HasBoundary, Boundary, followerVars, CacheInv
  <2> QED
    BY <1>1, <2>2, <2>4, MoveCache
       DEF WalkTo, CacheInv, AttemptStarted, Initializing, Incrementing, ProbesInReach,
           RefreshInReach, Publishing, PublishingCalls, batchVars
<1>2. CASE NoAncestor
  <2>1. CASE Published(WalkBottom)
    BY <1>2, <2>1, ReturnCache DEF NoAncestor
  <2>2. CASE ~Published(WalkBottom)
    BY <1>2, <2>2, UploadReorgFromCache, Numbers DEF NoAncestor, CacheInv
  <2> QED BY <2>1, <2>2
<1> QED BY <1>1, <1>2 DEF WalkDown

(* The check of the last tip and what follows from it.                     *)
LEMMA UploadIncrementCache ==
  ASSUME CacheInv, TypeOK', UploadIncrement
  PROVE  CacheInv'
<1>1. CASE StartIncrement
  BY <1>1, StartCache
<1>2. CASE IncrementBehindBoundary \/ PublishedTipReorged
  BY <1>2, IdleStepsCache
<1>3. CASE TipUnchanged
  BY <1>3, SettleTipCache
     DEF TipUnchanged, Incrementing, CacheInv, AttemptStarted, BoundaryCached
<1>4. CASE TipExtended
  BY <1>4, MoveCache
     DEF TipExtended, StartUpload, CacheInv, AttemptStarted, Initializing, Incrementing,
         ProbesInReach, WalkInReach, RefreshInReach, Publishing, PublishingCalls
<1>5. CASE TipReorged \/ WalkOn
  BY <1>5, WalkDownCache DEF TipReorged, WalkOn
<1>6. CASE AncestorFound
  <2>1. cursor + 1 \in Nat
    BY Numbers DEF CacheInv
  <2> QED BY <1>6, <2>1, UploadReorgFromCache DEF AncestorFound
<1> QED BY <1>1, <1>2, <1>3, <1>4, <1>5, <1>6 DEF UploadIncrement

(* What the steps of publishStableIndexes read of the invariant.           *)
LEMMA PublishingStands ==
  ASSUME CacheInv, Publishing \/ pc = "publish"
  PROVE  /\ pc # "probe" /\ missing = {} /\ BoundaryVisible(End) /\ ManagedStart <= End
         /\ initialized => lastTip = End
         /\ Publishing => RangeEnd <= End
BY DEF CacheInv, AttemptStarted, ProbesInReach, UploadsInReach, Publishing, PublishingCalls

(* Publishing a range caches its last hash, the new boundary.              *)
LEMMA ReadBoundaryCache ==
  ASSUME CacheInv, TypeOK', ReadBoundary
  PROVE  CacheInv'
<1>1. /\ pc = "boundary" /\ pc' = "publish"
      /\ UNCHANGED <<initialized, lastTip, localTip, outcome, missing>>
  BY DEF ReadBoundary, Goto, batchVars
<1>2. /\ nextIndexStart' = RangeEnd + 1 /\ nextIndexStart' > ManagedStart
      /\ Boundary' = RangeEnd
  BY Numbers, RangeSizeAssumption
     DEF ReadBoundary, NextRangeStart, RangeEnd, EndOfRange, Boundary, CacheInv, AttemptStarted
<1>3. End' = End /\ RangeEnd <= End /\ (initialized => lastTip = End) /\ missing = {}
  BY <1>1, PublishingStands DEF End, Publishing
<1>4. BoundaryCached'
  <2> DEFINE known == Learn(recentHashes, RangeEnd, BlockAt(RangeEnd))
  <2>1. RangeEnd \in DOMAIN known
    BY DEF Learn
  <2>2. recentHashes' = Pruned(known, nextIndexStart', End)
    BY DEF ReadBoundary
  <2>3. nextIndexStart' \in Nat /\ nextIndexStart' - 1 = RangeEnd /\ End \in Nat
    BY <1>2, Numbers DEF CacheInv
  <2> HIDE DEF known
  <2>4. RangeEnd \in DOMAIN Pruned(known, nextIndexStart', End)
    BY <1>2, <1>3, <2>1, <2>3, PrunedKeepsBoundary
  <2> QED BY <1>2, <2>2, <2>4 DEF BoundaryCached
<1>5. LastTipManaged' /\ AttemptStarted'
  BY <1>1, <1>2, <1>3, Numbers
     DEF CacheInv, LastTipManaged, AttemptStarted, Initializing, Incrementing, BoundaryVisible
<1> QED
  BY <1>1, <1>3, <1>4, <1>5
     DEF CacheInv, ProbesInReach, WalkInReach, UploadsInReach, Publishing, PublishingCalls,
         RefreshInReach

(* The other steps of publishing.                                          *)
LEMMA PublishCache ==
  ASSUME CacheInv, TypeOK', PublishStableIndexes
  PROVE  CacheInv'
<1> USE DEF WalkInReach, Publishing, PublishingCalls, Initializing, Incrementing, ProbesInReach
<1>1. CASE BeginRange
  BY <1>1, MoveCache, PublishingStands
     DEF BeginRange, UploadRange, Publishable, StartUpload, RefreshInReach
<1>2. CASE InitialPublishDone
  <2>1. /\ pc' = "refresh" /\ ~initialized /\ pc = "publish"
        /\ cursor' = RecentCacheStart(nextIndexStart, End)
        /\ UNCHANGED <<followerVars, localTip, outcome, missing>>
    BY <1>2 DEF InitialPublishDone, StartRefresh, batchVars
  <2>2. HasBoundary => cursor' <= Boundary
    BY <2>1, PublishingStands, Numbers
       DEF CacheInv, RecentCacheStart, HasBoundary, Boundary, BoundaryVisible
  <2>3. RefreshInReach'
    BY <2>1, <2>2, Frame DEF RefreshInReach
  <2> QED BY <2>1, <2>3, MoveCache, PublishingStands
<1>3. CASE PublishDone
  BY <1>3, IdleStepsCache
<1>4. CASE IndexExists
  BY <1>4, MoveCache, PublishingStands DEF IndexExists, Goto, batchVars, RefreshInReach
<1>5. CASE IndexMissing
  BY <1>5, MoveCache, PublishingStands DEF IndexMissing, batchVars, RefreshInReach
<1>6. CASE ReadRangeHash
  BY <1>6, MoveCache, PublishingStands DEF ReadRangeHash, batchVars, RefreshInReach
<1>7. CASE PutIndex
  BY <1>7, MoveCache, PublishingStands DEF PutIndex, batchVars, RefreshInReach
<1>8. CASE ReadBoundary
  BY <1>8, ReadBoundaryCache
<1> QED BY <1>1, <1>2, <1>3, <1>4, <1>5, <1>6, <1>7, <1>8 DEF PublishStableIndexes

(* Refreshing the cache, the first time and later.                         *)
LEMMA RefreshCache ==
  ASSUME CacheInv, TypeOK', RefreshRecentHashes
  PROVE  CacheInv'
<1> DEFINE learnt == Learn(recentHashes, cursor, BlockAt(cursor))
<1>1. /\ pc = "refresh" /\ UNCHANGED <<nextIndexStart, chainVars>>
      /\ BoundaryVisible(End) /\ ManagedStart <= End /\ missing = {} /\ outcome = "none"
  BY DEF RefreshRecentHashes, ReadRecentHash, RefreshDone, CacheInv, AttemptStarted,
         ProbesInReach
<1>2. DOMAIN learnt = DOMAIN recentHashes \cup {cursor}
  BY DEF Learn
<1> HIDE DEF learnt
<1>3. (HasBoundary' <=> HasBoundary) /\ Boundary' = Boundary
  BY <1>1 DEF HasBoundary, Boundary
<1>4. HasBoundary => Boundary \in DOMAIN recentHashes \/ (~initialized /\ cursor <= Boundary)
  BY <1>1 DEF CacheInv, BoundaryCached, RefreshInReach
<1>5. CASE ReadRecentHash
  <2>1. /\ recentHashes' = learnt /\ cursor' = cursor + 1 /\ pc' = pc
        /\ UNCHANGED <<initialized, lastTip, nextIndexStart, localTip, outcome, missing>>
    BY <1>5 DEF ReadRecentHash, batchVars, learnt
  <2>2. BoundaryCached'
    BY <1>2, <1>3, <2>1 DEF CacheInv, BoundaryCached
  <2>3. RefreshInReach'
    BY <1>2, <1>3, <1>4, <2>1, Numbers DEF CacheInv, RefreshInReach
  <2>4. End' = End
    BY <2>1 DEF End
  <2> QED
    BY <1>1, <1>3, <2>1, <2>2, <2>3, <2>4
       DEF CacheInv, LastTipManaged, AttemptStarted, Initializing, Incrementing, BoundaryVisible,
           ProbesInReach, WalkInReach, UploadsInReach, Publishing, PublishingCalls
<1>6. CASE RefreshDone
  <2>1. /\ recentHashes' = Pruned(learnt, nextIndexStart, End) /\ lastTip' = End /\ initialized'
        /\ cursor = End
    BY <1>6 DEF RefreshDone, learnt
  <2>2. BoundaryCached'
    <3>1. HasBoundary => Boundary <= End
      BY <1>1 DEF BoundaryVisible
    <3>2. HasBoundary => Boundary \in DOMAIN learnt
      BY <1>2, <1>4, <2>1, <3>1, Numbers DEF CacheInv
    <3>3. HasBoundary => Boundary \in DOMAIN Pruned(learnt, nextIndexStart, End)
      BY <3>1, <3>2, Numbers, PrunedKeepsBoundary DEF CacheInv, HasBoundary, Boundary
    <3> QED BY <1>3, <2>1, <3>3 DEF BoundaryCached
  <2>3. LastTipManaged'
    BY <1>1, <1>3, <2>1 DEF LastTipManaged, BoundaryVisible
  <2>4. nextIndexStart' >= ManagedStart
    BY <1>1 DEF CacheInv, AttemptStarted
  <2>5. CASE initialized
    <3>1. pc' = "publish" /\ UNCHANGED <<localTip, outcome, missing>>
      BY <1>6, <2>5 DEF RefreshDone, Goto, batchVars
    <3>2. End' = End
      BY <3>1 DEF End
    <3> QED
      BY <1>1, <1>3, <2>1, <2>2, <2>3, <2>4, <3>1, <3>2
         DEF CacheInv, AttemptStarted, Initializing, Incrementing, BoundaryVisible,
             ProbesInReach, WalkInReach, UploadsInReach, Publishing, PublishingCalls,
             RefreshInReach
  <2>6. CASE ~initialized
    <3>1. pc' = "idle" /\ missing' = {}
      BY <1>6, <2>6 DEF RefreshDone, FinishResult, Return, NoCall
    <3> QED
      BY <2>2, <2>3, <2>4, <3>1
         DEF CacheInv, AttemptStarted, Initializing, Incrementing, ProbesInReach, WalkInReach,
             UploadsInReach, Publishing, PublishingCalls, RefreshInReach
  <2> QED BY <2>5, <2>6
<1> QED BY <1>5, <1>6 DEF RefreshRecentHashes

(* A step of the chain or of nothing changes no field and no local.        *)
LEMMA ElsewhereCache ==
  ASSUME CacheInv, TypeOK', UNCHANGED <<followerVars, callVars>>
  PROVE  CacheInv'
<1>1. /\ UNCHANGED <<localTip, outcome, pc, caller, todo, missing, uploadStart, cursor>>
      /\ UNCHANGED <<initialized, lastTip, recentHashes, nextIndexStart>>
  BY DEF followerVars, callVars, batchVars
<1>2. UNCHANGED <<End, Boundary, RangeEnd>>
  BY <1>1 DEF End, Boundary, RangeEnd
<1> QED
  BY <1>1, <1>2
     DEF CacheInv, BoundaryCached, LastTipManaged, AttemptStarted, Initializing, Incrementing,
         BoundaryVisible, HasBoundary, ProbesInReach, WalkInReach, UploadsInReach, Published,
         Publishing, PublishingCalls, RefreshInReach

(* The invariant holds at first.                                           *)
LEMMA InitCache == Init => CacheInv
BY InitType, ManagedStartType
   DEF Init, CacheInv, BoundaryCached, LastTipManaged, AttemptStarted, Initializing,
       Incrementing, ProbesInReach, WalkInReach, UploadsInReach, Publishing, PublishingCalls,
       RefreshInReach

(* Every step keeps it.                                                    *)
LEMMA NextCache == CacheInv /\ [Next]_vars => CacheInv'
<1> SUFFICES ASSUME CacheInv, [Next]_vars PROVE CacheInv'
  OBVIOUS
<1>1. TypeOK'
  BY NextType DEF CacheInv
<1>2. CASE Step
  BY <1>1, <1>2, IdleStepsCache, InitializeCache, UploadBlocksCache, UploadIncrementCache,
     PublishCache, RefreshCache DEF Step
<1>3. CASE CallFails
  BY <1>1, <1>3, IdleStepsCache
<1>4. CASE Crash
  BY <1>1, <1>4, CrashCache
<1>5. CASE ChainMoves
  BY <1>1, <1>5, ElsewhereCache DEF ChainMoves
<1>6. CASE UNCHANGED vars
  BY <1>1, <1>6, ElsewhereCache DEF vars
<1> QED BY <1>2, <1>3, <1>4, <1>5, <1>6 DEF Next

(* What an attempt relies on at each of its calls, and what it leaves for  *)
(* the next attempt, whatever the chain does between the calls.            *)
THEOREM CacheInvariant == Spec => []CacheInv
<1> QED BY InitCache, NextCache, PTL DEF Spec

(* recentHashes always holds the block below the first unpublished range,  *)
(* through pruning to a shorter chain, forgetting reorganised heights,     *)
(* errors halfway and restarts: uploadReorg always has a block to compare. *)
THEOREM BoundaryStaysCached == Spec => []BoundaryCached
<1>1. CacheInv => BoundaryCached
  BY DEF CacheInv
<1> QED BY <1>1, CacheInvariant, PTL

(* lastTip never falls below the managed range or the published boundary,  *)
(* so uploadIncrement's branch for such a check height is dead code.       *)
THEOREM LastTipStaysManaged == Spec => []LastTipManaged
<1>1. CacheInv => LastTipManaged
  BY DEF CacheInv
<1> QED BY <1>1, CacheInvariant, PTL

-----------------------------------------------------------------------------
(* Uploads that are started, and alarms that are raised.                   *)

(* A window that is not empty has a height to hand out.                    *)
LEMMA StartUploadNotEmpty ==
  ASSUME NEW from \in Nat, NEW to \in Nat, from <= to, NEW by, StartUpload(from, to, by)
  PROVE  todo' # {}
<1>1. from \in from..to
  OBVIOUS
<1> QED BY <1>1 DEF StartUpload

(* The upload from the fork on.                                            *)
LEMMA UploadReorgFromNotEmpty ==
  ASSUME CacheInv, NEW start \in Nat, UploadReorgFrom(start), pc' = "upload"
  PROVE  todo' # {}
<1>1. ~Published(start) /\ start <= End
  BY DEF UploadReorgFrom, Return, Goto
<1>2. StartUpload(start, End, "reorg")
  BY <1>1 DEF UploadReorgFrom
<1> QED BY <1>1, <1>2, StartUploadNotEmpty, Numbers DEF CacheInv

(* The upload after a walk that met the boundary.                          *)
LEMMA WalkDownNotEmpty ==
  ASSUME CacheInv, NEW top, WalkDown(top), pc' = "upload"
  PROVE  todo' # {}
<1>1. NoAncestor
  BY DEF WalkDown, WalkTo
<1>2. UploadReorgFrom(nextIndexStart)
  BY <1>1 DEF NoAncestor, Return
<1> QED BY <1>2, UploadReorgFromNotEmpty, Numbers DEF CacheInv

(* The upload after the probes.                                            *)
LEMMA ProbesDoneNotEmpty ==
  ASSUME CacheInv, ProbesDone
  PROVE  todo' # {}
<1>1. uploadStart <= End /\ uploadStart \in Nat /\ End \in Nat
  BY Numbers DEF ProbesDone, CacheInv, ProbesInReach
<1>2. uploadStart' \in Nat /\ uploadStart' <= End
  <2>1. FinalUploadWindowStart(uploadStart, End) \in Nat
        /\ FinalUploadWindowStart(uploadStart, End) <= End
    BY <1>1, ProbeAssumption DEF FinalUploadWindowStart
  <2>2. ASSUME NEW m \in missing
        PROVE  /\ PreviousUploadWindowStart(uploadStart, m) \in Nat
               /\ PreviousUploadWindowStart(uploadStart, m) <= End
    <3>1. m \in Nat /\ m <= End
      BY ChainAssumption
         DEF ProbesDone, CacheInv, ProbesInReach, TypeOK, CallTypeOK, Heights
    <3> QED BY <1>1, <3>1, ProbeAssumption DEF PreviousUploadWindowStart
  <2> QED BY <2>1, <2>2 DEF ProbesDone
<1>3. todo' = uploadStart'..End /\ uploadStart' \in uploadStart'..End
  BY <1>1, <1>2 DEF ProbesDone
<1> QED BY <1>3

(* No step begins an empty upload.                                         *)
LEMMA StepsUploadSomething ==
  ASSUME CacheInv, Next, pc' = "upload", pc # "upload"
  PROVE  todo' # {}
<1>1. CASE Initialize
  <2>1. ProbesDone
    BY <1>1
       DEF Initialize, StartInitialize, StartAttempt, SkipPublishedRange, StopAtUnpublishedRange,
           StartBehindBoundary, TouchesPublishedIndex, NothingToUpload, StartProbes, Probe,
           Goto, Return
  <2> QED BY <2>1, ProbesDoneNotEmpty
<1>2. CASE UploadIncrement
  <2>1. CASE TipExtended
    <3>1. lastTip + 1 \in Nat /\ End \in Nat /\ lastTip + 1 <= End
      BY <2>1, Numbers DEF TipExtended, CacheInv
    <3> QED BY <2>1, <3>1, StartUploadNotEmpty DEF TipExtended
  <2>2. CASE TipReorged \/ WalkOn
    BY <2>2, WalkDownNotEmpty DEF TipReorged, WalkOn
  <2>3. CASE AncestorFound
    <3>1. cursor + 1 \in Nat
      BY Numbers DEF CacheInv
    <3> QED BY <2>3, <3>1, UploadReorgFromNotEmpty DEF AncestorFound
  <2>4. CASE StartIncrement \/ IncrementBehindBoundary \/ TipUnchanged \/ PublishedTipReorged
    BY <2>4
       DEF StartIncrement, StartAttempt, IncrementBehindBoundary, TipUnchanged,
           PublishedTipReorged, TouchesPublishedIndex, Goto, Return
  <2> QED BY <1>2, <2>1, <2>2, <2>3, <2>4 DEF UploadIncrement
<1>3. CASE PublishStableIndexes
  <2>1. BeginRange
    BY <1>3
       DEF PublishStableIndexes, InitialPublishDone, StartRefresh, PublishDone, FinishResult,
           Return, IndexExists, Goto, IndexMissing, ReadRangeHash, PutIndex, ReadBoundary
  <2> QED BY <2>1, StartUploadNotEmpty, Numbers DEF BeginRange, UploadRange, CacheInv
<1>4. CASE UploadBlocks
  <2>1. pc = "upload"
    BY <1>4
       DEF UploadBlocks, ReadBlock, PutBlock, InitialUploadDone, IncrementUploadDone,
           ReorgUploadDone, RangeUploadDone, UploadDone
  <2> QED BY <2>1
<1>5. CASE NothingManaged \/ RefreshRecentHashes \/ HashUnavailable \/ CallFails \/ Crash
  BY <1>5
     DEF NothingManaged, RefreshRecentHashes, ReadRecentHash, RefreshDone, HashUnavailable,
         CallFails, Crash, FinishResult, Return, Goto
<1>6. CASE ChainMoves
  BY <1>6 DEF ChainMoves, callVars
<1> QED BY <1>1, <1>2, <1>3, <1>4, <1>5, <1>6 DEF Next, Step

(* No call of uploadBlocksFrom has from > to, so the loop that hands out   *)
(* the heights, which stops at height = to only, always stops.             *)
THEOREM UploadsAreNotEmpty == Spec => UploadsNotEmpty
<1>1. CacheInv /\ [Next]_vars => [pc' = "upload" /\ pc # "upload" => todo' # {}]_vars
  BY StepsUploadSomething
<1> QED BY <1>1, CacheInvariant, PTL DEF Spec, UploadsNotEmpty

(* The chain is below the published boundary or differs from it there.     *)
Justified ==
  \/ (IF pc = "idle" THEN tip ELSE localTip) < Boundary
  \/ Boundary \in DOMAIN recentHashes /\ Boundary <= tip /\ ~Remembered(Boundary)

(* An upload from the fork on raises no alarm.                             *)
LEMMA UploadReorgFromQuietly ==
  ASSUME CacheInv, pc \in {"checkTip", "walk"}, NEW start \in Nat, ~Published(start),
         UploadReorgFrom(start)
  PROVE  outcome' # "reorgTouchesIndex"
BY DEF UploadReorgFrom, StartUpload, Goto, CacheInv, AttemptStarted

(* The walk raises an alarm only when it would pass the boundary.          *)
LEMMA WalkDownJustified ==
  ASSUME CacheInv, pc \in {"checkTip", "walk"}, NEW top \in Int, WalkDown(top),
         outcome' = "reorgTouchesIndex"
  PROVE  HasBoundary /\ top < Boundary
<1>1. outcome = "none"
  BY DEF CacheInv, AttemptStarted
<1>2. Unwalked(top) = {} /\ NoAncestor
  BY <1>1 DEF WalkDown, WalkTo
<1>3. ~Published(nextIndexStart)
  BY Numbers DEF Published, CacheInv
<1>4. Published(WalkBottom)
  BY <1>2, <1>3, UploadReorgFromQuietly, Numbers DEF NoAncestor, CacheInv
<1>5. HasBoundary
  BY <1>4 DEF Published
<1>6. Boundary \in DOMAIN recentHashes /\ WalkBottom <= Boundary
  BY <1>5, WalkBottomIsBoundary, Numbers DEF CacheInv
<1>7. ~(Boundary <= top)
  BY <1>2, <1>6 DEF Unwalked
<1> QED BY <1>5, <1>7, Numbers DEF CacheInv

BoundaryWanted == ToHeight # NoHeight => Boundary <= ToHeight

(* A boundary that is out of sight is so because the chain is shorter.     *)
LEMMA BehindBoundary ==
  ASSUME TypeOK, BoundaryWanted, NEW height \in Heights, ~BoundaryVisible(EndHeight(height))
  PROVE  height < Boundary
<1>1. EndHeight(height) \in Nat /\ height \in Nat /\ EndHeight(height) < Boundary
  BY Numbers, EndHeightType, ChainAssumption DEF BoundaryVisible, Heights
<1> QED BY <1>1, Numbers, FollowerAssumption DEF EndHeight, BoundaryWanted, NoHeight

(* Every alarm of an increment is justified.                               *)
LEMMA UploadIncrementJustified ==
  ASSUME BoundaryWanted, CacheInv, UploadIncrement, outcome' = "reorgTouchesIndex"
  PROVE  Justified
<1>1. CASE IncrementBehindBoundary
  <2>1. pc = "idle" /\ tip \in Heights /\ ~BoundaryVisible(EndHeight(tip))
    BY <1>1 DEF IncrementBehindBoundary, CacheInv, TypeOK, ChainTypeOK, Heights
  <2>2. tip < Boundary
    BY <2>1, BehindBoundary DEF CacheInv
  <2> QED BY <2>1, <2>2 DEF Justified
<1>2. CASE PublishedTipReorged
  <2>1. HasBoundary /\ CheckHeight < nextIndexStart /\ CheckHeight <= tip /\ ~Remembered(CheckHeight)
    BY <1>2 DEF PublishedTipReorged, Published
  <2>2. Boundary <= CheckHeight /\ Boundary \in DOMAIN recentHashes
    BY <1>2, <2>1, WalkBottomIsBoundary DEF PublishedTipReorged
  <2>3. CheckHeight \in Nat
    BY Numbers DEF CheckHeight, CacheInv
  <2>4. CheckHeight = Boundary
    BY <2>1, <2>2, <2>3, Numbers DEF Boundary, CacheInv
  <2> QED BY <2>1, <2>2, <2>4 DEF Justified
<1>3. CASE TipReorged
  <2>1. CheckHeight \in Nat
    BY Numbers DEF CheckHeight, CacheInv
  <2>2. pc = "checkTip" /\ WalkDown(CheckHeight)
    BY <1>3 DEF TipReorged
  <2>3. HasBoundary /\ CheckHeight < Boundary
    BY <2>1, <2>2, WalkDownJustified
  <2> QED BY <2>1, <2>2, <2>3, WalkBottomIsBoundary, Numbers DEF CacheInv
<1>4. CASE WalkOn
  <2>1. pc = "walk" /\ cursor <= tip /\ ~Remembered(cursor) /\ WalkDown(cursor - 1)
    BY <1>4 DEF WalkOn
  <2>2. HasBoundary /\ cursor - 1 < Boundary
    BY <2>1, WalkDownJustified, Numbers DEF CacheInv
  <2>3. cursor = Boundary
    BY <2>1, <2>2, Numbers DEF CacheInv, WalkInReach
  <2> QED BY <2>1, <2>2, <2>3, WalkBottomIsBoundary DEF Justified
<1>5. CASE AncestorFound
  <2>1. pc = "walk" /\ UploadReorgFrom(cursor + 1) /\ cursor + 1 \in Nat
    BY <1>5, Numbers DEF AncestorFound, CacheInv
  <2>2. ~Published(cursor + 1)
    BY <2>1, Numbers DEF CacheInv, WalkInReach, Published, HasBoundary, Boundary
  <2> QED BY <2>1, <2>2, UploadReorgFromQuietly
<1>6. CASE StartIncrement \/ TipUnchanged \/ TipExtended
  BY <1>6
     DEF StartIncrement, StartAttempt, TipUnchanged, TipExtended, StartUpload, Goto, CacheInv,
         AttemptStarted
<1> QED BY <1>1, <1>2, <1>3, <1>4, <1>5, <1>6 DEF UploadIncrement

(* And no other step raises one that is not.                               *)
LEMMA StepsJustified ==
  ASSUME BoundaryWanted, CacheInv, Step, outcome' = "reorgTouchesIndex"
  PROVE  Justified
<1>1. pc # "idle" => outcome = "none"
  BY DEF CacheInv, AttemptStarted
<1>2. CASE Initialize
  <2>1. StartBehindBoundary
    BY <1>1, <1>2
       DEF Initialize, StartInitialize, StartAttempt, SkipPublishedRange, StopAtUnpublishedRange,
           NothingToUpload, StartProbes, Probe, ProbesDone, Goto
  <2> QED
    BY <2>1, BehindBoundary
       DEF StartBehindBoundary, End, Justified, CacheInv, TypeOK, CallTypeOK
<1>3. CASE UploadIncrement
  BY <1>3, UploadIncrementJustified
<1>4. CASE UploadBlocks
  BY <1>1, <1>4
     DEF UploadBlocks, ReadBlock, PutBlock, InitialUploadDone, IncrementUploadDone,
         ReorgUploadDone, RangeUploadDone, UploadDone, Goto, StartRefresh
<1>5. CASE PublishStableIndexes
  BY <1>1, <1>5
     DEF PublishStableIndexes, BeginRange, UploadRange, StartUpload, InitialPublishDone, StartRefresh,
         PublishDone, FinishResult, Return, IndexExists, Goto, IndexMissing, ReadRangeHash,
         PutIndex, ReadBoundary
<1>6. CASE NothingManaged \/ RefreshRecentHashes \/ HashUnavailable
  BY <1>1, <1>6
     DEF NothingManaged, RefreshRecentHashes, ReadRecentHash, RefreshDone, HashUnavailable,
         FinishResult, Return, Goto
<1> QED BY <1>2, <1>3, <1>4, <1>5, <1>6 DEF Step

(* ErrUploadReorgTouchesPublishedIndex, which stops the provider for good, *)
(* is returned only for a chain that is below the published boundary or    *)
(* has another block there, unless a to_height below that boundary hides   *)
(* it from a follower whose node has it.                                   *)
THEOREM AlarmsAreJustified == Spec => AlarmJustified
<1>1. CacheInv /\ [Next]_vars
        => [Step /\ outcome' = "reorgTouchesIndex"
              /\ (ToHeight # NoHeight => Boundary <= ToHeight) =>
              \/ (IF pc = "idle" THEN tip ELSE localTip) < Boundary
              \/ Boundary \in DOMAIN recentHashes /\ Boundary <= tip
                    /\ ~Remembered(Boundary)]_vars
  BY StepsJustified DEF Justified, BoundaryWanted
<1> QED BY <1>1, CacheInvariant, PTL DEF Spec, AlarmJustified

-----------------------------------------------------------------------------
(* While the chain moves only between attempts: what is remembered is what *)
(* the node had when an attempt last read it.                              *)

Current(h) == h <= tip /\ recentHashes[h] = BlockAt(h)

(* Up to the last tip the remembered hashes are those of one chain, which  *)
(* may no longer be the active one.                                        *)
CacheCoherent ==
  initialized =>
    \A h \in DOMAIN recentHashes : \A l \in DOMAIN recentHashes :
      l <= h /\ h <= lastTip => recentHashes[l] = [i \in 0..l |-> recentHashes[h][i]]

CacheManaged ==
  /\ \A h \in DOMAIN recentHashes : h >= ManagedStart
  /\ pc = "probe" => uploadStart = nextIndexStart
  /\ pc = "upload" => uploadStart >= ManagedStart
  /\ pc = "refresh" => cursor >= ManagedStart

(* Where an attempt has compared or read every hash it remembers.          *)
Settled ==
  \/ pc = "publish" \/ Publishing
  \/ pc # "idle" /\ ~initialized

(* What the walk, and the refresh, have established.                       *)
CurrentBelow ==
  /\ Settled => \A h \in DOMAIN recentHashes : Current(h)
  /\ pc = "upload" /\ caller \in {"increment", "reorg"} =>
       \A h \in DOMAIN recentHashes : h < uploadStart => Current(h)
  /\ pc = "upload" /\ caller = "increment" => uploadStart = lastTip + 1
  /\ pc = "refresh" =>
       \A h \in DOMAIN recentHashes : h < cursor => Current(h)
  /\ pc = "refresh" /\ initialized =>
       \A h \in DOMAIN recentHashes : h < cursor \/ lastTip < h

WalkRemembered == pc = "walk" => cursor \in DOMAIN recentHashes /\ cursor <= lastTip

CacheAtRest ==
  /\ CacheCoherent
  /\ CacheManaged
  /\ CurrentBelow
  /\ WalkRemembered

(* The inductive invariant of the cache.                                   *)
RestInv == ~movedMidAttempt => CacheAtRest

-----------------------------------------------------------------------------
(* Hashes of one chain.                                                    *)

(* Only heights are remembered.                                             *)
LEMMA RememberedHeights ==
  ASSUME TypeOK
  PROVE  \A h \in DOMAIN recentHashes : h \in Nat
BY ChainAssumption DEF TypeOK, FollowerTypeOK, HashesByHeight, Heights

TipCurrent == \A h \in DOMAIN recentHashes : h <= lastTip => Current(h)

(* What agrees with the chain up to the last tip is coherent.              *)
LEMMA CoherentWhenCurrent == TypeOK /\ TipCurrent => CacheCoherent
<1> SUFFICES ASSUME TypeOK, TipCurrent,
                    NEW h \in DOMAIN recentHashes, NEW l \in DOMAIN recentHashes,
                    l <= h, h <= lastTip
             PROVE  recentHashes[l] = [i \in 0..l |-> recentHashes[h][i]]
  BY DEF CacheCoherent
<1>1. h \in Nat /\ l \in Nat /\ l <= lastTip
  BY RememberedHeights, Numbers
<1>2. recentHashes[l] = BlockAt(l) /\ recentHashes[h] = BlockAt(h)
  BY <1>1 DEF TipCurrent, Current
<1>3. [i \in 0..l |-> BlockAt(h)[i]] = BlockAt(l)
  BY <1>1 DEF BlockAt
<1> QED BY <1>2, <1>3

(* Below a remembered hash that is the chain's all of them are.            *)
LEMMA CurrentBelowCurrent ==
  ASSUME TypeOK, CacheCoherent, initialized,
         NEW h \in DOMAIN recentHashes, h <= lastTip, Current(h),
         NEW l \in DOMAIN recentHashes, l <= h
  PROVE  Current(l)
<1>1. h \in Nat /\ l \in Nat /\ h <= tip /\ recentHashes[h] = BlockAt(h) /\ l <= tip
  BY RememberedHeights, Numbers DEF Current
<1>2. recentHashes[l] = [i \in 0..l |-> BlockAt(h)[i]]
  BY <1>1 DEF CacheCoherent
<1>3. [i \in 0..l |-> BlockAt(h)[i]] = BlockAt(l)
  BY <1>1 DEF BlockAt
<1> QED BY <1>1, <1>2, <1>3 DEF Current

-----------------------------------------------------------------------------
(* Steps that leave the fields of the follower alone.                      *)

(* They keep what is known of the fields.                                   *)
LEMMA FieldsRest ==
  ASSUME CacheAtRest, UNCHANGED <<chainVars, followerVars>>
  PROVE  /\ CacheCoherent'
         /\ \A h \in DOMAIN recentHashes' : h >= ManagedStart
         /\ DOMAIN recentHashes' = DOMAIN recentHashes
         /\ \A h : Current(h)' <=> Current(h)
         /\ initialized' = initialized /\ lastTip' = lastTip /\ nextIndexStart' = nextIndexStart
<1>1. \A h : BlockAt(h)' = BlockAt(h)
  BY DEF BlockAt, chainVars
<1>2. UNCHANGED <<recentHashes, initialized, lastTip, nextIndexStart, tip>>
  BY DEF chainVars, followerVars
<1> QED
  BY <1>1, <1>2 DEF CacheAtRest, CacheCoherent, CacheManaged, Current

(* An attempt ends.                                                        *)
LEMMA ReturnRest ==
  ASSUME CacheAtRest, UNCHANGED <<chainVars, followerVars>>, pc' = "idle"
  PROVE  CacheAtRest'
BY FieldsRest
   DEF CacheAtRest, CacheManaged, CurrentBelow, Settled, Publishing, PublishingCalls, WalkRemembered

(* A step of the goroutines.                                               *)
LEMMA SamePlaceRest ==
  ASSUME CacheAtRest, UNCHANGED <<chainVars, followerVars, pc, caller, uploadStart, cursor>>
  PROVE  CacheAtRest'
<1>1. Settled' <=> Settled
  BY FieldsRest DEF Settled, Publishing, PublishingCalls
<1>2. CurrentBelow'
  BY <1>1, FieldsRest DEF CacheAtRest, CurrentBelow
<1> QED
  BY <1>1, <1>2, FieldsRest DEF CacheAtRest, CacheManaged, WalkRemembered, followerVars

(* A step of an attempt that has nothing left to compare.                  *)
LEMMA SettledRest ==
  ASSUME CacheAtRest, UNCHANGED <<chainVars, followerVars>>, Settled,
         pc' # "walk", pc' = "refresh" => ~initialized,
         pc' = "upload" => caller' # "increment",
         pc' = "probe" => uploadStart' = nextIndexStart,
         pc' = "upload" => uploadStart' >= ManagedStart,
         pc' = "refresh" => cursor' >= ManagedStart
  PROVE  CacheAtRest'
<1>1. \A h \in DOMAIN recentHashes' : Current(h)'
  BY FieldsRest DEF CacheAtRest, CurrentBelow
<1>2. CacheManaged' /\ WalkRemembered'
  BY FieldsRest DEF CacheManaged, WalkRemembered
<1>3. CurrentBelow'
  BY <1>1, FieldsRest DEF CurrentBelow
<1> QED BY <1>2, <1>3, FieldsRest DEF CacheAtRest

-----------------------------------------------------------------------------
(* The steps of an attempt.                                                *)

(* The start: nothing is remembered until its upload is done.               *)
LEMMA InitializeRest ==
  ASSUME CacheInv, CacheInv', CacheAtRest, Initialize
  PROVE  CacheAtRest'
<1>0. nextIndexStart \in Nat /\ nextIndexStart >= ManagedStart
  BY Numbers DEF CacheInv, AttemptStarted
<1>1. CASE StartInitialize
  <2>1. ~initialized' /\ pc' = "findStart" /\ DOMAIN recentHashes' = {}
    BY <1>1 DEF StartInitialize, StartAttempt, NoHashes
  <2> QED
    BY <2>1 DEF CacheAtRest, CacheCoherent, CacheManaged, CurrentBelow, WalkRemembered
<1>2. CASE SkipPublishedRange
  <2>1. pc = "findStart" /\ ~initialized /\ pc' \in {"findStart", "foundStart"}
        /\ UNCHANGED <<chainVars, initialized, lastTip, recentHashes>>
    BY <1>2 DEF SkipPublishedRange, Goto, CacheInv, AttemptStarted, Initializing
  <2>2. \A h : Current(h)' <=> Current(h)
    BY <2>1 DEF Current, BlockAt, chainVars
  <2>3. Settled
    BY <2>1 DEF Settled
  <2> QED
    BY <2>1, <2>2, <2>3 DEF CacheAtRest, CacheCoherent, CacheManaged, CurrentBelow, WalkRemembered
<1>3. CASE StopAtUnpublishedRange \/ NothingToUpload \/ StartProbes
  <2>1. ~initialized /\ pc # "idle"
    BY <1>3 DEF StopAtUnpublishedRange, NothingToUpload, StartProbes, CacheInv, AttemptStarted,
                Initializing
  <2>2. Settled
    BY <2>1 DEF Settled
  <2> QED
    BY <1>3, <2>2, SettledRest DEF StopAtUnpublishedRange, NothingToUpload, StartProbes, Goto
<1>4. CASE StartBehindBoundary
  BY <1>4, ReturnRest DEF StartBehindBoundary, TouchesPublishedIndex, Return
<1>5. ASSUME NEW h \in todo, Probe(h) PROVE CacheAtRest'
  BY <1>5, SamePlaceRest DEF Probe
<1>6. CASE ProbesDone
  <2>1. Settled
    BY <1>6 DEF ProbesDone, CacheInv, AttemptStarted, Initializing, Settled
  <2>2. uploadStart = nextIndexStart
    BY <1>6 DEF CacheAtRest, CacheManaged, ProbesDone
  <2>3. uploadStart' >= ManagedStart
    <3>1. FinalUploadWindowStart(uploadStart, End) >= uploadStart
      BY <2>2, <1>0, Numbers, ProbeAssumption DEF FinalUploadWindowStart, CacheInv
    <3>2. \A m \in missing : PreviousUploadWindowStart(uploadStart, m) >= uploadStart
      BY <2>2, <1>0, ProbeAssumption, ChainAssumption
         DEF PreviousUploadWindowStart, CacheInv, TypeOK, CallTypeOK, Heights
    <3>3. uploadStart' >= uploadStart
      BY <1>6, <3>1, <3>2 DEF ProbesDone
    <3>4. uploadStart' \in Nat
      BY DEF CacheInv, TypeOK, CallTypeOK
    <3> QED BY <2>2, <3>3, <3>4, <1>0, ManagedStartType
  <2> QED BY <1>6, <2>1, <2>3, SettledRest DEF ProbesDone
<1> QED BY <1>1, <1>2, <1>3, <1>4, <1>5, <1>6 DEF Initialize

(* The goroutines hand out and report; the callers go on.                   *)
LEMMA UploadBlocksRest ==
  ASSUME CacheInv, CacheInv', CacheAtRest, UploadBlocks
  PROVE  CacheAtRest'
<1>1. ASSUME NEW h \in todo, ReadBlock(h) PROVE CacheAtRest'
  BY <1>1, SamePlaceRest DEF ReadBlock
<1>2. ASSUME NEW h \in DOMAIN inflight, PutBlock(h) PROVE CacheAtRest'
  BY <1>2, SamePlaceRest DEF PutBlock
<1>3. CASE InitialUploadDone \/ RangeUploadDone
  <2>1. Settled
    BY <1>3 DEF InitialUploadDone, RangeUploadDone, UploadDone, Settled, Publishing, CacheInv,
                AttemptStarted, Initializing
  <2> QED BY <1>3, <2>1, SettledRest DEF InitialUploadDone, RangeUploadDone, Goto
<1>4. CASE IncrementUploadDone
  <2>1. /\ pc = "upload" /\ caller = "increment" /\ initialized
        /\ pc' = "refresh" /\ cursor' = uploadStart /\ uploadStart = lastTip + 1
        /\ uploadStart >= ManagedStart /\ UNCHANGED <<chainVars, followerVars>>
    BY <1>4 DEF IncrementUploadDone, UploadDone, StartRefresh, CacheAtRest, CurrentBelow, CacheManaged,
                CacheInv, AttemptStarted, Incrementing
  <2>2. \A h \in DOMAIN recentHashes : h < uploadStart => Current(h)
    BY <2>1 DEF CacheAtRest, CurrentBelow
  <2>3. \A h \in DOMAIN recentHashes : h < uploadStart \/ lastTip < h
    BY <2>1, RememberedHeights, Numbers DEF CacheInv
  <2>4. ~Settled'
    BY <2>1, FieldsRest DEF Settled, Publishing, PublishingCalls
  <2>5. CurrentBelow'
    BY <2>1, <2>2, <2>3, <2>4, FieldsRest DEF CurrentBelow
  <2> QED BY <2>1, <2>5, FieldsRest DEF CacheAtRest, CacheManaged, WalkRemembered
<1>5. CASE ReorgUploadDone
  <2>1. /\ pc = "upload" /\ caller = "reorg" /\ initialized
        /\ pc' = "refresh" /\ cursor' = uploadStart
        /\ uploadStart >= ManagedStart /\ UNCHANGED <<chainVars, initialized, lastTip>>
    BY <1>5 DEF ReorgUploadDone, UploadDone, StartRefresh, CacheAtRest, CacheManaged,
                CacheInv, AttemptStarted, Incrementing
  <2>2. \A h : BlockAt(h)' = BlockAt(h)
    BY <2>1 DEF BlockAt, chainVars
  <2>3. /\ DOMAIN recentHashes' \subseteq DOMAIN recentHashes
        /\ \A h \in DOMAIN recentHashes' : ~(h >= uploadStart) /\ recentHashes'[h] = recentHashes[h]
    BY <1>5 DEF ReorgUploadDone, Forget, Restrict
  <2>4. \A h \in DOMAIN recentHashes' : h < uploadStart
    BY <2>3, RememberedHeights, Numbers DEF CacheInv
  <2>5. \A h \in DOMAIN recentHashes' : Current(h)'
    BY <2>1, <2>2, <2>3, <2>4 DEF CacheAtRest, CurrentBelow, Current, chainVars
  <2>6. CacheCoherent'
    <3>1. TypeOK' /\ TipCurrent'
      BY <2>5 DEF CacheInv, TipCurrent
    <3> QED BY <3>1, CoherentWhenCurrent, PTL
  <2>7. CurrentBelow'
    BY <2>1, <2>4, <2>5 DEF CurrentBelow
  <2>8. CacheManaged' /\ WalkRemembered'
    BY <2>1, <2>3 DEF CacheAtRest, CacheManaged, WalkRemembered
  <2> QED BY <2>6, <2>7, <2>8 DEF CacheAtRest
<1> QED BY <1>1, <1>2, <1>3, <1>4, <1>5 DEF UploadBlocks

(* The tail is settled, on hashes that are the chain's.                    *)
LEMMA SettleTipRest ==
  ASSUME CacheInv, CacheInv', CacheAtRest, UNCHANGED chainVars, initialized,
         NEW known, SettleTip(known), Goto("publish"),
         \A h \in DOMAIN known : h <= End =>
            h >= ManagedStart /\ h <= tip /\ known[h] = BlockAt(h)
  PROVE  CacheAtRest'
<1>1. pc' = "publish"
  BY DEF Goto
<1>2. \A h : BlockAt(h)' = BlockAt(h)
  BY DEF BlockAt, chainVars
<1>3. /\ DOMAIN recentHashes' \subseteq DOMAIN known
      /\ \A h \in DOMAIN recentHashes' : h <= End /\ recentHashes'[h] = known[h]
  BY DEF SettleTip, Pruned, Restrict
<1>4. \A h \in DOMAIN recentHashes' : Current(h)' /\ h >= ManagedStart
  BY <1>2, <1>3 DEF Current, chainVars
<1>5. CacheCoherent'
  <2>1. TypeOK' /\ TipCurrent'
    BY <1>4 DEF CacheInv, TipCurrent
  <2> QED BY <2>1, CoherentWhenCurrent, PTL
<1> QED
  BY <1>1, <1>4, <1>5 DEF CacheAtRest, CacheManaged, CurrentBelow, WalkRemembered

(* An upload starts above the hashes that are known to be the chain's.     *)
LEMMA StartUploadRest ==
  ASSUME CacheAtRest, UNCHANGED <<chainVars, followerVars>>, initialized,
         NEW from, NEW by \in {"increment", "reorg"}, StartUpload(from, End, by),
         from >= ManagedStart, by = "increment" => from = lastTip + 1,
         \A h \in DOMAIN recentHashes : h < from => Current(h)
  PROVE  CacheAtRest'
<1>1. pc' = "upload" /\ caller' = by /\ uploadStart' = from
  BY DEF StartUpload
<1>2. ~Settled'
  BY <1>1, FieldsRest DEF Settled, Publishing, PublishingCalls
<1>3. CurrentBelow'
  BY <1>1, <1>2, FieldsRest DEF CurrentBelow
<1> QED BY <1>1, <1>3, FieldsRest DEF CacheAtRest, CacheManaged, WalkRemembered

(* What is forgotten above the fork was of another chain.                   *)
LEMMA UploadReorgFromRest ==
  ASSUME CacheInv, CacheInv', CacheAtRest, UNCHANGED chainVars, initialized,
         NEW start \in Nat, UploadReorgFrom(start), start >= ManagedStart,
         \A h \in DOMAIN recentHashes : h < start => Current(h)
  PROVE  CacheAtRest'
<1>1. CASE Published(start)
  BY <1>1, ReturnRest DEF UploadReorgFrom, Return
<1>2. CASE ~Published(start) /\ start <= End
  <2>1. StartUpload(start, End, "reorg") /\ UNCHANGED followerVars
    BY <1>2 DEF UploadReorgFrom
  <2> QED BY <2>1, StartUploadRest
<1>3. CASE ~Published(start) /\ ~(start <= End)
  <2> DEFINE known == Forget(recentHashes, {h \in DOMAIN recentHashes : h >= start})
  <2>1. SettleTip(known) /\ Goto("publish")
    BY <1>3 DEF UploadReorgFrom
  <2>2. /\ DOMAIN known \subseteq DOMAIN recentHashes
        /\ \A h \in DOMAIN known : ~(h >= start) /\ known[h] = recentHashes[h]
    BY DEF Forget, Restrict
  <2> HIDE DEF known
  <2>3. \A h \in DOMAIN known : h >= ManagedStart /\ Current(h)
    BY <2>2, RememberedHeights, Numbers DEF CacheInv, CacheAtRest, CacheManaged
  <2> QED BY <2>1, <2>2, <2>3, SettleTipRest DEF Current
<1> QED BY <1>1, <1>2, <1>3

(* The walk goes on below heights found to differ, to the boundary.         *)
LEMMA WalkDownRest ==
  ASSUME CacheInv, CacheInv', CacheAtRest, UNCHANGED chainVars,
         pc \in {"checkTip", "walk"}, NEW top \in Int, top <= lastTip, WalkDown(top)
  PROVE  CacheAtRest'
<1>0. initialized
  BY DEF CacheInv, AttemptStarted, Incrementing
<1>1. ASSUME NEW h \in DOMAIN recentHashes, WalkTo(h, top)
      PROVE  CacheAtRest'
  <2>1. pc' = "walk" /\ cursor' = h /\ h <= top /\ UNCHANGED followerVars
    BY <1>1 DEF WalkTo, Unwalked
  <2>2. ~Settled'
    BY <1>0, <2>1, FieldsRest DEF Settled, Publishing, PublishingCalls
  <2>3. h <= lastTip
    BY <2>1, RememberedHeights, Numbers DEF CacheInv
  <2>4. CurrentBelow' /\ WalkRemembered'
    BY <2>1, <2>2, <2>3, FieldsRest DEF CurrentBelow, WalkRemembered
  <2> QED BY <2>1, <2>4, FieldsRest DEF CacheAtRest, CacheManaged
<1>2. CASE NoAncestor
  <2>1. CASE Published(WalkBottom)
    BY <1>2, <2>1, ReturnRest DEF NoAncestor, Return
  <2>2. CASE ~Published(WalkBottom)
    <3>1. ~HasBoundary
      BY <2>2, WalkBottomIsBoundary, Numbers DEF Published, Boundary, CacheInv
    <3>2. nextIndexStart = ManagedStart
      BY <3>1, Numbers, ManagedStartType DEF HasBoundary, CacheInv, AttemptStarted
    <3>3. \A h \in DOMAIN recentHashes : ~(h < nextIndexStart)
      BY <3>2, RememberedHeights, ManagedStartType DEF CacheInv, CacheAtRest, CacheManaged
    <3>4. UploadReorgFrom(nextIndexStart) /\ nextIndexStart \in Nat
          /\ nextIndexStart >= ManagedStart
      BY <1>2, <2>2, <3>2, Numbers DEF NoAncestor, CacheInv
    <3> QED BY <1>0, <3>3, <3>4, UploadReorgFromRest
  <2> QED BY <2>1, <2>2
<1> QED BY <1>1, <1>2 DEF WalkDown

(* The check of the last tip, and the walk below it.                       *)
LEMMA UploadIncrementRest ==
  ASSUME CacheInv, CacheInv', CacheAtRest, UploadIncrement
  PROVE  CacheAtRest'
<1>0. /\ lastTip \in Nat /\ End \in Nat /\ CheckHeight \in Nat /\ CheckHeight <= lastTip
      /\ (End <= lastTip => CheckHeight = End) /\ (End > lastTip => CheckHeight = lastTip)
  BY Numbers DEF CheckHeight, CacheInv
<1>1. CASE StartIncrement
  <2>1. initialized /\ pc' = "checkTip" /\ UNCHANGED <<chainVars, followerVars>>
    BY <1>1 DEF StartIncrement, StartAttempt
  <2>2. ~Settled'
    BY <2>1, FieldsRest DEF Settled, Publishing, PublishingCalls
  <2>3. CurrentBelow' /\ CacheManaged' /\ WalkRemembered'
    BY <2>1, <2>2, FieldsRest DEF CurrentBelow, CacheManaged, WalkRemembered
  <2> QED BY <2>1, <2>3, FieldsRest DEF CacheAtRest
<1>2. CASE IncrementBehindBoundary \/ PublishedTipReorged
  BY <1>2, ReturnRest DEF IncrementBehindBoundary, PublishedTipReorged, TouchesPublishedIndex, Return
<1>3. ASSUME pc = "checkTip", CheckHeight <= tip, Remembered(CheckHeight)
      PROVE  initialized /\ \A h \in DOMAIN recentHashes : h <= CheckHeight => Current(h)
  <2>1. initialized /\ CheckHeight \in DOMAIN recentHashes /\ Current(CheckHeight)
    BY <1>3 DEF CacheInv, AttemptStarted, Incrementing, Remembered, Current
  <2> QED BY <1>0, <2>1, CurrentBelowCurrent DEF CacheInv, CacheAtRest
<1>4. CASE TipUnchanged
  <2>1. /\ initialized /\ CheckHeight = End /\ UNCHANGED chainVars
        /\ SettleTip(recentHashes) /\ Goto("publish")
        /\ \A h \in DOMAIN recentHashes : h <= End => Current(h)
    BY <1>0, <1>3, <1>4 DEF TipUnchanged
  <2> QED BY <2>1, SettleTipRest DEF CacheAtRest, CacheManaged, Current
<1>5. CASE TipExtended
  <2>1. /\ initialized /\ StartUpload(lastTip + 1, End, "increment")
        /\ UNCHANGED <<chainVars, followerVars>>
        /\ \A h \in DOMAIN recentHashes : h <= lastTip => Current(h)
    BY <1>0, <1>3, <1>5 DEF TipExtended
  <2>2. \A h \in DOMAIN recentHashes : h < lastTip + 1 => Current(h)
    BY <2>1, <1>0, RememberedHeights DEF CacheInv
  <2>3. lastTip + 1 >= ManagedStart
    BY <2>1, <1>0, ManagedStartType DEF CacheInv, LastTipManaged
  <2> QED BY <2>1, <2>2, <2>3, StartUploadRest
<1>6. CASE TipReorged
  BY <1>0, <1>6, WalkDownRest DEF TipReorged
<1>7. CASE WalkOn
  <2>1. pc = "walk" /\ WalkDown(cursor - 1) /\ UNCHANGED chainVars
    BY <1>7 DEF WalkOn
  <2>2. cursor - 1 \in Int /\ cursor - 1 <= lastTip
    BY <2>1, <1>0, Numbers DEF CacheInv, CacheAtRest, WalkRemembered
  <2> QED BY <2>1, <2>2, WalkDownRest
<1>8. CASE AncestorFound
  <2>1. /\ initialized /\ pc = "walk" /\ cursor \in DOMAIN recentHashes /\ cursor <= lastTip
        /\ Current(cursor) /\ UploadReorgFrom(cursor + 1) /\ UNCHANGED chainVars
    BY <1>8 DEF AncestorFound, CacheAtRest, WalkRemembered, CacheInv, AttemptStarted, Incrementing,
                Remembered, Current
  <2>2. \A h \in DOMAIN recentHashes : h <= cursor => Current(h)
    BY <2>1, CurrentBelowCurrent DEF CacheInv, CacheAtRest
  <2>3. /\ cursor + 1 \in Nat /\ cursor + 1 >= ManagedStart
        /\ \A h \in DOMAIN recentHashes : h < cursor + 1 => Current(h)
    BY <2>1, <2>2, RememberedHeights, ManagedStartType DEF CacheInv, CacheAtRest, CacheManaged
  <2> QED BY <2>1, <2>3, UploadReorgFromRest
<1> QED BY <1>1, <1>2, <1>4, <1>5, <1>6, <1>7, <1>8 DEF UploadIncrement

(* Publishing and refreshing.                                              *)
LEMMA ReadBoundaryRest ==
  ASSUME CacheInv, CacheInv', CacheAtRest, ReadBoundary
  PROVE  CacheAtRest'
<1>1. /\ pc = "boundary" /\ RangeEnd <= tip /\ pc' = "publish"
      /\ UNCHANGED <<chainVars, initialized, lastTip>>
  BY DEF ReadBoundary, Goto
<1>2. \A h : BlockAt(h)' = BlockAt(h)
  BY <1>1 DEF BlockAt, chainVars
<1>3. RangeEnd \in Nat /\ RangeEnd >= ManagedStart
  BY Numbers, ManagedStartType DEF CacheInv, AttemptStarted
<1>4. \A h \in DOMAIN recentHashes : Current(h)
  BY <1>1 DEF CacheAtRest, CurrentBelow, Settled, Publishing
<1>5. \A h \in DOMAIN recentHashes' :
        \/ h = RangeEnd /\ recentHashes'[h] = BlockAt(RangeEnd)
        \/ h \in DOMAIN recentHashes /\ recentHashes'[h] = recentHashes[h]
  BY DEF ReadBoundary, Learn, Pruned, Restrict
<1>6. \A h \in DOMAIN recentHashes' : Current(h)' /\ h >= ManagedStart
  BY <1>1, <1>2, <1>3, <1>4, <1>5 DEF Current, chainVars, CacheAtRest, CacheManaged
<1>7. CacheCoherent'
  <2>1. TypeOK' /\ TipCurrent'
    BY <1>6 DEF CacheInv, TipCurrent
  <2> QED BY <2>1, CoherentWhenCurrent, PTL
<1> QED
  BY <1>1, <1>6, <1>7 DEF CacheAtRest, CacheManaged, CurrentBelow, WalkRemembered

(* Publishing touches the cache at the boundary only.                       *)
LEMMA PublishRest ==
  ASSUME CacheInv, CacheInv', CacheAtRest, PublishStableIndexes
  PROVE  CacheAtRest'
<1>1. Settled
  BY DEF PublishStableIndexes, BeginRange, InitialPublishDone, PublishDone, IndexExists, IndexMissing,
         ReadRangeHash, PutIndex, ReadBoundary, Settled, Publishing, PublishingCalls
<1>2. CASE BeginRange
  <2>1. nextIndexStart >= ManagedStart
    BY DEF CacheInv, AttemptStarted
  <2> QED BY <1>1, <1>2, <2>1, SettledRest DEF BeginRange, UploadRange, StartUpload
<1>3. CASE InitialPublishDone
  <2>1. RecentCacheStart(nextIndexStart, End) >= ManagedStart
    BY <1>3, Numbers DEF RecentCacheStart, CacheInv, AttemptStarted, InitialPublishDone
  <2> QED BY <1>1, <1>3, <2>1, SettledRest DEF InitialPublishDone, StartRefresh
<1>4. CASE PublishDone
  BY <1>4, ReturnRest DEF PublishDone, FinishResult, Return
<1>5. CASE IndexExists \/ IndexMissing \/ PutIndex
  BY <1>1, <1>5, SettledRest DEF IndexExists, IndexMissing, PutIndex, Goto
<1>6. CASE ReadRangeHash
  BY <1>1, <1>6, SettledRest DEF ReadRangeHash
<1>7. CASE ReadBoundary
  BY <1>7, ReadBoundaryRest
<1> QED BY <1>2, <1>3, <1>4, <1>5, <1>6, <1>7 DEF PublishStableIndexes

(* A refresh that is done has read or compared every hash remembered.      *)
LEMMA RefreshDoneReads ==
  ASSUME CacheInv, CacheAtRest, RefreshDone
  PROVE  \A h \in DOMAIN recentHashes' :
           h <= tip /\ recentHashes'[h] = BlockAt(h) /\ h >= ManagedStart
<1>1. pc = "refresh" /\ cursor <= tip /\ cursor = End
  BY DEF RefreshDone
<1>2. \A h \in DOMAIN recentHashes' :
        /\ h <= End
        /\ \/ h = End /\ recentHashes'[h] = BlockAt(End)
           \/ h \in DOMAIN recentHashes /\ recentHashes'[h] = recentHashes[h]
  BY <1>1 DEF RefreshDone, Learn, Pruned, Restrict
<1>3. \A h \in DOMAIN recentHashes : h <= End => h = End \/ Current(h)
  BY <1>1, RememberedHeights, Numbers DEF CacheInv, CacheAtRest, CurrentBelow
<1>4. \A h \in DOMAIN recentHashes' : h = End =>  recentHashes'[h] = BlockAt(End)
  BY <1>1 DEF RefreshDone, Learn, Pruned, Restrict
<1>5. End >= ManagedStart
  BY <1>1 DEF CacheAtRest, CacheManaged
<1> QED BY <1>1, <1>2, <1>3, <1>4, <1>5 DEF Current, CacheAtRest, CacheManaged

(* The refresh: what it prunes, keeps, or reads anew.                       *)
LEMMA RefreshRest ==
  ASSUME CacheInv, CacheInv', CacheAtRest, RefreshRecentHashes
  PROVE  CacheAtRest'
<1>1. pc = "refresh" /\ UNCHANGED chainVars /\ \A h : BlockAt(h)' = BlockAt(h)
  BY DEF RefreshRecentHashes, ReadRecentHash, RefreshDone, BlockAt, chainVars
<1>2. CASE ReadRecentHash
  <2>1. /\ cursor <= tip /\ cursor' = cursor + 1 /\ pc' = pc /\ caller' = caller
        /\ UNCHANGED <<initialized, lastTip, nextIndexStart>>
    BY <1>2 DEF ReadRecentHash
  <2>2. cursor \in Nat /\ cursor >= ManagedStart /\ lastTip \in Nat
    BY <1>1, Numbers DEF CacheInv, CacheAtRest, CacheManaged
  <2>3. \A h \in DOMAIN recentHashes' :
          \/ h = cursor /\ recentHashes'[h] = BlockAt(cursor)
          \/ h # cursor /\ h \in DOMAIN recentHashes /\ recentHashes'[h] = recentHashes[h]
    BY <1>2 DEF ReadRecentHash, Learn
  <2>4. \A h \in DOMAIN recentHashes' : h < cursor' => Current(h)'
    BY <1>1, <2>1, <2>2, <2>3, RememberedHeights DEF CacheInv, CacheAtRest, CurrentBelow, Current, chainVars
  <2>5. initialized => \A h \in DOMAIN recentHashes' : h < cursor' \/ lastTip < h
    BY <1>1, <2>1, <2>2, <2>3, RememberedHeights DEF CacheInv, CacheAtRest, CurrentBelow
  <2>6. ~initialized => \A h \in DOMAIN recentHashes' : Current(h)'
    BY <1>1, <2>1, <2>3 DEF CacheAtRest, CurrentBelow, Settled, Current, chainVars
  <2>7. CacheCoherent'
    <3>1. CASE initialized
      <4>1. \A h \in DOMAIN recentHashes' : h \in Nat
        BY <2>2, <2>3, RememberedHeights DEF CacheInv
      <4>2. \A h \in DOMAIN recentHashes' : h <= lastTip => h < cursor'
        BY <2>2, <2>5, <3>1, <4>1
      <4>3. TypeOK' /\ TipCurrent'
        BY <2>1, <2>4, <4>2 DEF CacheInv, TipCurrent
      <4> QED BY <4>3, CoherentWhenCurrent, PTL
    <3>2. CASE ~initialized
      BY <2>1, <3>2 DEF CacheCoherent
    <3> QED BY <3>1, <3>2
  <2>8. CurrentBelow'
    BY <1>1, <2>1, <2>4, <2>5, <2>6 DEF CurrentBelow, Settled, Publishing, PublishingCalls
  <2>9. CacheManaged' /\ WalkRemembered'
    BY <1>1, <2>1, <2>2, <2>3, ManagedStartType DEF CacheAtRest, CacheManaged, WalkRemembered
  <2> QED BY <2>7, <2>8, <2>9 DEF CacheAtRest
<1>3. CASE RefreshDone
  <2>1. \A h \in DOMAIN recentHashes' : Current(h)' /\ h >= ManagedStart
    BY <1>1, <1>3, RefreshDoneReads DEF Current, chainVars
  <2>2. pc' \in {"publish", "idle"}
    BY <1>3 DEF RefreshDone, Goto, FinishResult, Return
  <2>3. CacheCoherent'
    <3>1. TypeOK' /\ TipCurrent'
      BY <2>1 DEF CacheInv, TipCurrent
    <3> QED BY <3>1, CoherentWhenCurrent, PTL
  <2> QED
    BY <2>1, <2>2, <2>3 DEF CacheAtRest, CacheManaged, CurrentBelow, WalkRemembered
<1> QED BY <1>2, <1>3 DEF RefreshRecentHashes

(* A step of the process, or a call that fails.                            *)
LEMMA StepRest ==
  ASSUME CacheInv, CacheInv', CacheAtRest, Step \/ CallFails
  PROVE  CacheAtRest'
<1>1. CASE NothingManaged \/ HashUnavailable \/ CallFails
  BY <1>1, ReturnRest DEF NothingManaged, HashUnavailable, CallFails, FinishResult, Return
<1> QED
  BY <1>1, InitializeRest, UploadBlocksRest, UploadIncrementRest, PublishRest, RefreshRest DEF Step

(* A restart forgets everything.                                           *)
LEMMA CrashRest ==
  ASSUME Crash
  PROVE  CacheAtRest'
<1>1. ~initialized' /\ pc' = "idle" /\ DOMAIN recentHashes' = {}
  BY DEF Crash, Return, NoHashes
<1> QED
  BY <1>1
     DEF CacheAtRest, CacheCoherent, CacheManaged, CurrentBelow, Settled, Publishing, PublishingCalls,
         WalkRemembered

(* The chain moves between attempts, when nothing is taken for current.    *)
LEMMA IdleMovesRest ==
  ASSUME CacheAtRest, UNCHANGED <<followerVars, callVars>>, pc = "idle"
  PROVE  CacheAtRest'
<1>1. UNCHANGED <<recentHashes, initialized, lastTip, pc>>
  BY DEF followerVars, callVars
<1> QED
  BY <1>1
     DEF CacheAtRest, CacheCoherent, CacheManaged, CurrentBelow, Settled, Publishing, PublishingCalls,
         WalkRemembered

(* Every step keeps the hashes of one chain.                                *)
LEMMA MCNextRest ==
  ASSUME CacheInv, CacheInv', RestInv, [MCNext]_MCVars
  PROVE  RestInv'
<1> SUFFICES ASSUME ~movedMidAttempt' PROVE CacheAtRest'
  BY DEF RestInv
<1>1. CASE Crash
  BY <1>1, CrashRest
<1>2. CASE (Step \/ CallFails) /\ UNCHANGED movedMidAttempt /\ RecordGap
  BY <1>2, StepRest DEF RestInv
<1>3. CASE ChainMoves /\ movedMidAttempt' = (movedMidAttempt \/ pc # "idle") /\ UNCHANGED gapPassed
  BY <1>3, IdleMovesRest DEF RestInv, ChainMoves
<1>4. CASE UNCHANGED MCVars
  <2>1. CacheAtRest /\ UNCHANGED <<chainVars, followerVars, pc, caller, uploadStart, cursor>>
    BY <1>4 DEF RestInv, MCVars, historyVars, vars, callVars
  <2> QED BY <2>1, SamePlaceRest
<1> QED BY <1>1, <1>2, <1>3, <1>4 DEF MCNext

(* The history variables hide no step.                                     *)
LEMMA MCRefines ==
  /\ MCInit => Init
  /\ [MCNext]_MCVars => [Next]_vars
BY DEF MCInit, MCNext, MCVars, Next

(* The invariant of the fields holds with the history variables as well.    *)
LEMMA MCCacheInvariant == MCSpec => []CacheInv
<1>1. MCInit => CacheInv
  BY MCRefines, InitCache
<1>2. CacheInv /\ [MCNext]_MCVars => CacheInv'
  BY MCRefines, NextCache
<1> QED BY <1>1, <1>2, PTL DEF MCSpec

(* While the chain moves only between attempts, the hashes up to the last  *)
(* tip are always those of one chain, and each place of an attempt knows   *)
(* which of them are the active chain's.                                   *)
THEOREM RestInvariant == MCSpec => []RestInv
<1>1. MCInit => RestInv
  BY DEF MCInit, Init, RestInv, CacheAtRest, CacheCoherent, CacheManaged, CurrentBelow, Settled,
         Publishing, PublishingCalls, WalkRemembered, NoHashes
<1>2. CacheInv /\ CacheInv' /\ RestInv /\ [MCNext]_MCVars => RestInv'
  BY MCNextRest
<1> QED BY <1>1, <1>2, MCCacheInvariant, PTL DEF MCSpec

(* An attempt that ends well does so from one of two places.               *)
LEMMA GoodEnds ==
  ASSUME CacheInv, Next, pc # "idle", outcome' \in {"work", "waiting"}
  PROVE  PublishDone \/ RefreshDone
<1>1. outcome = "none"
  BY DEF CacheInv, AttemptStarted
<1>2. CASE Initialize
  BY <1>1, <1>2
     DEF Initialize, StartInitialize, StartAttempt, SkipPublishedRange, StopAtUnpublishedRange,
         StartBehindBoundary, TouchesPublishedIndex, NothingToUpload, StartProbes, Probe, ProbesDone,
         Goto, Return
<1>3. CASE UploadBlocks
  BY <1>1, <1>3
     DEF UploadBlocks, ReadBlock, PutBlock, InitialUploadDone, IncrementUploadDone,
         ReorgUploadDone, RangeUploadDone, Goto, StartRefresh
<1>4. CASE UploadIncrement
  BY <1>1, <1>4
     DEF UploadIncrement, StartIncrement, StartAttempt, IncrementBehindBoundary, TipUnchanged,
         TipExtended, PublishedTipReorged, TipReorged, AncestorFound, WalkOn, WalkDown, WalkTo,
         NoAncestor, UploadReorgFrom, StartUpload, TouchesPublishedIndex, Goto, Return
<1>5. CASE PublishStableIndexes
  BY <1>1, <1>5
     DEF PublishStableIndexes, BeginRange, UploadRange, StartUpload, InitialPublishDone, StartRefresh,
         IndexExists, IndexMissing, ReadRangeHash, PutIndex, ReadBoundary, Goto
<1>6. CASE RefreshRecentHashes \/ NothingManaged \/ HashUnavailable \/ CallFails \/ Crash \/ ChainMoves
  BY <1>1, <1>6
     DEF RefreshRecentHashes, ReadRecentHash, NothingManaged, HashUnavailable, CallFails, Crash,
         ChainMoves, callVars, Return
<1> QED BY <1>2, <1>3, <1>4, <1>5, <1>6 DEF Next, Step

(* What an attempt that ends well remembers is the chain.                  *)
LEMMA GoodEndsCurrent ==
  ASSUME CacheInv, RestInv, MCNext, pc # "idle", outcome' \in {"work", "waiting"},
         ~movedMidAttempt
  PROVE  \A h \in DOMAIN recentHashes' : h <= tip /\ recentHashes'[h] = BlockAt(h)
<1>1. CacheAtRest /\ (PublishDone \/ RefreshDone)
  BY GoodEnds DEF MCNext, Next, RestInv
<1>2. CASE PublishDone
  <2>1. Settled /\ recentHashes' = recentHashes
    BY <1>2 DEF PublishDone, Settled, followerVars
  <2> QED BY <1>1, <2>1 DEF CacheAtRest, CurrentBelow, Current
<1>3. CASE RefreshDone
  BY <1>1, <1>3, RefreshDoneReads
<1> QED BY <1>1, <1>2, <1>3

(* One comparison at the last tip, and the walk below it, miss no change:  *)
(* if the chain moves only between attempts, however deep, an attempt that *)
(* returns a result remembers only hashes of the active chain.             *)
THEOREM CacheIsCurrent == MCSpec => CacheCurrent
<1>1. CacheInv /\ RestInv /\ [MCNext]_MCVars
        => [pc # "idle" /\ outcome' \in {"work", "waiting"} /\ ~movedMidAttempt =>
              \A h \in DOMAIN recentHashes' : h <= tip /\ recentHashes'[h] = BlockAt(h)]_MCVars
  BY GoodEndsCurrent
<1> QED BY <1>1, MCCacheInvariant, RestInvariant, PTL DEF MCSpec, CacheCurrent

-----------------------------------------------------------------------------
(* The tail that is reported as uploaded.                                  *)

TailRemembered ==
  initialized => \A h \in DOMAIN recentHashes : h >= nextIndexStart => recentHashes[h] \in blocks

(* Each height of the window is unread, being uploaded, or stored, and the *)
(* unpublished blocks below the window of a start are stored.              *)
WindowAccounted ==
  /\ pc = "upload" /\ caller \in {"initial", "increment", "reorg"} =>
       \A h \in uploadStart..End :
         \/ h \in todo
         \/ h \in DOMAIN inflight /\ inflight[h] = BlockAt(h)
         \/ BlockAt(h) \in blocks
  /\ pc = "upload" /\ caller = "initial" =>
       \A h \in nextIndexStart..(uploadStart - 1) : BlockAt(h) \in blocks

(* What a refresh is to read is stored.                                    *)
TailUploaded ==
  /\ ~initialized /\ (pc \in {"publish", "refresh"} \/ Publishing) =>
       \A h \in nextIndexStart..End : BlockAt(h) \in blocks
  /\ initialized /\ pc = "refresh" => \A h \in cursor..End : BlockAt(h) \in blocks

TailAtRest == TailRemembered /\ WindowAccounted /\ TailUploaded

(* The inductive invariant of the tail.                                    *)
TailInv == ~movedMidAttempt /\ ~gapPassed => TailAtRest

-----------------------------------------------------------------------------
(* Blocks and hashes of a step of an attempt.                              *)
LEMMA FieldsTail ==
  ASSUME UNCHANGED <<chainVars, followerVars, localTip>>, blocks \subseteq blocks'
  PROVE  /\ TailRemembered => TailRemembered'
         /\ End' = End /\ initialized' = initialized /\ nextIndexStart' = nextIndexStart
         /\ \A h : BlockAt(h)' = BlockAt(h)
BY DEF TailRemembered, End, BlockAt, chainVars, followerVars

(* A step that goes on elsewhere.                                          *)
LEMMA MoveTail ==
  ASSUME TailAtRest, UNCHANGED <<chainVars, followerVars>>, blocks \subseteq blocks',
         pc' # "idle" => localTip' = localTip, pc' # "upload" \/ caller' = "range",
         ~initialized /\ (pc' \in {"publish", "refresh"} \/ Publishing') =>
            (pc \in {"publish", "refresh"} \/ Publishing),
         initialized => pc' # "refresh"
  PROVE  TailAtRest'
<1>1. initialized' = initialized /\ TailRemembered'
  BY DEF TailAtRest, TailRemembered, followerVars
<1>2. CASE pc' = "idle"
  BY <1>1, <1>2 DEF TailAtRest, WindowAccounted, TailUploaded, Publishing, PublishingCalls
<1>3. CASE pc' # "idle"
  BY <1>1, <1>3, FieldsTail DEF TailAtRest, WindowAccounted, TailUploaded
<1> QED BY <1>2, <1>3

(* An upload of blocks starts.                                             *)
LEMMA StartUploadTail ==
  ASSUME TailAtRest, UNCHANGED <<chainVars, archiveVars, followerVars, localTip>>,
         pc' = "upload", caller' \in {"increment", "reorg"}, todo' = uploadStart'..End
  PROVE  TailAtRest'
<1>1. blocks \subseteq blocks'
  BY DEF archiveVars
<1> QED
  BY <1>1, FieldsTail DEF TailAtRest, WindowAccounted, TailUploaded, Publishing, PublishingCalls

(* The tail is settled on some of the hashes remembered.                   *)
LEMMA SettleTipTail ==
  ASSUME TailAtRest, UNCHANGED <<chainVars, archiveVars>>, initialized,
         NEW known, SettleTip(known), Goto("publish"),
         \A h \in DOMAIN known : h \in DOMAIN recentHashes /\ known[h] = recentHashes[h]
  PROVE  TailAtRest'
<1>1. /\ pc' = "publish" /\ UNCHANGED <<initialized, nextIndexStart, blocks>>
      /\ \A h \in DOMAIN recentHashes' : h \in DOMAIN known /\ recentHashes'[h] = known[h]
  BY DEF SettleTip, Goto, Pruned, Restrict, archiveVars
<1> QED
  BY <1>1 DEF TailAtRest, TailRemembered, WindowAccounted, TailUploaded

(* A start begins anew: it remembers nothing and has uploaded nothing.     *)
LEMMA StartsAnewTail ==
  ASSUME CacheInv', pc' = "findStart"
  PROVE  TailAtRest'
<1>1. ~initialized'
  BY DEF CacheInv, AttemptStarted, Initializing
<1> QED
  BY <1>1 DEF TailAtRest, TailRemembered, WindowAccounted, TailUploaded, Publishing, PublishingCalls

(* The probes choose a window below which no block is missing.             *)
LEMMA ProbesDoneTail ==
  ASSUME CacheInv, ProbesDone, ~MissedGap
  PROVE  TailAtRest'
<1>1. /\ pc' = "upload" /\ caller' = "initial" /\ todo' = uploadStart'..End
      /\ ~initialized /\ UNCHANGED <<chainVars, archiveVars, followerVars, localTip>>
  BY DEF ProbesDone, CacheInv, AttemptStarted, Initializing
<1>2. /\ End' = End /\ blocks' = blocks /\ \A h : BlockAt(h)' = BlockAt(h)
      /\ initialized' = initialized /\ nextIndexStart' = nextIndexStart
  BY <1>1 DEF End, BlockAt, chainVars, archiveVars, followerVars
<1>3. WindowAccounted'
  BY <1>1, <1>2 DEF WindowAccounted, MissedGap
<1> QED
  BY <1>1, <1>2, <1>3 DEF TailAtRest, TailRemembered, TailUploaded, Publishing, PublishingCalls

(* No other step goes from the probes to an upload.                        *)
LEMMA ProbesChooseLast ==
  ASSUME Step \/ CallFails, ProbesChoose
  PROVE  ProbesDone
<1>1. CASE Initialize
  BY <1>1
     DEF ProbesChoose, Initialize, StartInitialize, SkipPublishedRange, StopAtUnpublishedRange,
         StartBehindBoundary, NothingToUpload, StartProbes, Probe
<1>2. CASE UploadBlocks \/ RefreshRecentHashes
  BY <1>2
     DEF ProbesChoose, UploadBlocks, ReadBlock, PutBlock, InitialUploadDone, IncrementUploadDone,
         ReorgUploadDone, RangeUploadDone, UploadDone, RefreshRecentHashes, ReadRecentHash, RefreshDone
<1>3. CASE UploadIncrement
  BY <1>3
     DEF ProbesChoose, UploadIncrement, StartIncrement, IncrementBehindBoundary, TipUnchanged,
         TipExtended, PublishedTipReorged, TipReorged, AncestorFound, WalkOn
<1>4. CASE PublishStableIndexes
  BY <1>4
     DEF ProbesChoose, PublishStableIndexes, BeginRange, InitialPublishDone, PublishDone, IndexExists,
         IndexMissing, ReadRangeHash, PutIndex, ReadBoundary
<1>5. CASE NothingManaged \/ HashUnavailable \/ CallFails
  BY <1>5 DEF ProbesChoose, NothingManaged, HashUnavailable, CallFails, FinishResult, Return
<1> QED BY <1>1, <1>2, <1>3, <1>4, <1>5 DEF Step

(* The start, up to the probes.                                            *)
LEMMA InitializeTail ==
  ASSUME CacheInv, TailAtRest, Initialize, ~ProbesDone
  PROVE  TailAtRest'
<1>1. CASE StartInitialize \/ SkipPublishedRange \/ StopAtUnpublishedRange \/ StartBehindBoundary
  <2>1. pc' \in {"findStart", "foundStart", "idle"} /\ initialized' = initialized
        /\ (pc' = "idle" \/ ~initialized)
    BY <1>1 DEF StartInitialize, StartAttempt, SkipPublishedRange, StopAtUnpublishedRange,
                StartBehindBoundary, TouchesPublishedIndex, Goto, Return, CacheInv, AttemptStarted,
                Initializing, followerVars
  <2>2. CASE ~initialized
    BY <2>1, <2>2 DEF TailAtRest, TailRemembered, WindowAccounted, TailUploaded, Publishing,
                      PublishingCalls
  <2>3. CASE initialized
    <3>1. StartBehindBoundary
      BY <1>1, <2>1, <2>3
         DEF StartInitialize, StartAttempt, SkipPublishedRange, StopAtUnpublishedRange, Goto
    <3> QED BY <3>1, <2>1, <2>3, MoveTail DEF StartBehindBoundary, TouchesPublishedIndex, archiveVars,
                                          Publishing, PublishingCalls, Return
  <2> QED BY <2>2, <2>3
<1>2. CASE NothingToUpload
  <2>1. /\ ~initialized /\ pc' = "publish" /\ nextIndexStart > End
        /\ UNCHANGED <<chainVars, archiveVars, followerVars, localTip>>
    BY <1>2 DEF NothingToUpload, Goto, CacheInv, AttemptStarted, Initializing
  <2>2. nextIndexStart..End = {}
    BY <2>1, Numbers DEF CacheInv
  <2> QED
    BY <2>1, <2>2, FieldsTail
       DEF TailAtRest, WindowAccounted, TailUploaded, archiveVars
<1>3. CASE StartProbes
  <2>1. pc' = "probe" /\ UNCHANGED <<chainVars, archiveVars, followerVars, localTip>>
    BY <1>3 DEF StartProbes
  <2> QED
    BY <2>1, MoveTail DEF Publishing, PublishingCalls, archiveVars
<1>4. ASSUME NEW h \in todo, Probe(h) PROVE TailAtRest'
  <2>1. pc' = "probe" /\ UNCHANGED <<chainVars, archiveVars, followerVars, localTip>>
    BY <1>4 DEF Probe
  <2> QED
    BY <2>1, MoveTail DEF Publishing, PublishingCalls, archiveVars
<1> QED BY <1>1, <1>2, <1>3, <1>4 DEF Initialize

(* The uploads: of the window, and of the range.                           *)
LEMMA UploadBlocksTail ==
  ASSUME CacheInv, TailAtRest, UploadBlocks
  PROVE  TailAtRest'
<1> DEFINE Window == pc = "upload" /\ caller \in {"initial", "increment", "reorg"}
<1>0. pc = "upload" /\ uploadStart \in Nat /\ End \in Nat /\ nextIndexStart \in Nat
  BY Numbers DEF UploadBlocks, ReadBlock, PutBlock, InitialUploadDone, IncrementUploadDone,
                 ReorgUploadDone, RangeUploadDone, UploadDone, CacheInv
<1>1. ASSUME NEW h \in todo, ReadBlock(h) PROVE TailAtRest'
  <2>1. UNCHANGED <<chainVars, archiveVars, followerVars, localTip, pc, caller, uploadStart, cursor>>
    BY <1>1 DEF ReadBlock
  <2>2. blocks' = blocks
    BY <2>1 DEF archiveVars
  <2>3. pc = "upload" /\ caller = "initial" =>
           \A g \in nextIndexStart..(uploadStart - 1) : BlockAt(g) \in blocks'
    BY <2>2 DEF TailAtRest, WindowAccounted
  <2>4. WindowAccounted'
    <3> SUFFICES ASSUME Window, NEW g \in uploadStart..End
                 PROVE  \/ g \in todo'
                        \/ g \in DOMAIN inflight' /\ inflight'[g] = BlockAt(g)
                        \/ BlockAt(g) \in blocks
      BY <2>1, <2>2, <2>3, FieldsTail DEF WindowAccounted
    <3>1. \/ g \in todo
          \/ g \in DOMAIN inflight /\ inflight[g] = BlockAt(g)
          \/ BlockAt(g) \in blocks
      BY DEF TailAtRest, WindowAccounted
    <3>2. CASE g = h
      BY <1>1, <3>2 DEF ReadBlock, Learn
    <3>3. CASE g # h
      BY <1>1, <3>1, <3>3 DEF ReadBlock, Learn
    <3> QED BY <3>2, <3>3
  <2> QED
    BY <2>1, <2>2, <2>4, <1>0, FieldsTail
       DEF TailAtRest, TailUploaded, Publishing, PublishingCalls
<1>2. ASSUME NEW h \in DOMAIN inflight, PutBlock(h) PROVE TailAtRest'
  <2>1. UNCHANGED <<chainVars, followerVars, localTip, pc, caller, uploadStart, cursor, todo>>
    BY <1>2 DEF PutBlock
  <2>2. blocks' = blocks \cup {inflight[h]}
    BY <1>2 DEF PutBlock, Store
  <2>3. pc = "upload" /\ caller = "initial" =>
           \A g \in nextIndexStart..(uploadStart - 1) : BlockAt(g) \in blocks'
    BY <2>2 DEF TailAtRest, WindowAccounted
  <2>4. WindowAccounted'
    <3> SUFFICES ASSUME Window, NEW g \in uploadStart..End
                 PROVE  \/ g \in todo
                        \/ g \in DOMAIN inflight' /\ inflight'[g] = BlockAt(g)
                        \/ BlockAt(g) \in blocks'
      BY <2>1, <2>2, <2>3, FieldsTail DEF WindowAccounted
    <3>1. \/ g \in todo
          \/ g \in DOMAIN inflight /\ inflight[g] = BlockAt(g)
          \/ BlockAt(g) \in blocks
      BY DEF TailAtRest, WindowAccounted
    <3>2. CASE g = h
      BY <2>2, <3>1, <3>2
    <3>3. CASE g # h
      BY <1>2, <2>2, <3>1, <3>3 DEF PutBlock, Forget, Restrict
    <3> QED BY <3>2, <3>3
  <2> QED
    BY <2>1, <2>2, <2>4, <1>0, FieldsTail
       DEF TailAtRest, TailUploaded, Publishing, PublishingCalls
<1>3. CASE RangeUploadDone
  <2>1. pc' = "headIndex" /\ Publishing /\ UNCHANGED <<chainVars, archiveVars, followerVars, localTip>>
    BY <1>3 DEF RangeUploadDone, UploadDone, Goto, Publishing
  <2> QED BY <2>1, MoveTail DEF archiveVars
<1>4. ASSUME Window, todo = {}, inflight = NoHashes
      PROVE  \A h \in uploadStart..End : BlockAt(h) \in blocks
  BY <1>4 DEF TailAtRest, WindowAccounted, NoHashes
<1>5. CASE InitialUploadDone
  <2>1. /\ pc' = "publish" /\ UNCHANGED <<chainVars, archiveVars, followerVars, localTip>>
        /\ \A h \in uploadStart..End : BlockAt(h) \in blocks
        /\ \A h \in nextIndexStart..(uploadStart - 1) : BlockAt(h) \in blocks
    BY <1>4, <1>5 DEF InitialUploadDone, UploadDone, Goto, TailAtRest, WindowAccounted
  <2>2. \A h \in nextIndexStart..End : BlockAt(h) \in blocks
    BY <1>0, <2>1
  <2> QED
    BY <2>1, <2>2, FieldsTail DEF TailAtRest, WindowAccounted, TailUploaded, archiveVars
<1>6. CASE IncrementUploadDone \/ ReorgUploadDone
  <2>1. /\ initialized /\ pc' = "refresh" /\ cursor' = uploadStart
        /\ UNCHANGED <<chainVars, archiveVars, localTip, initialized, nextIndexStart>>
        /\ \A h \in uploadStart..End : BlockAt(h) \in blocks
    BY <1>4, <1>6 DEF IncrementUploadDone, ReorgUploadDone, UploadDone, StartRefresh, followerVars,
                      CacheInv, AttemptStarted, Incrementing
  <2>2. \A h \in DOMAIN recentHashes' : h \in DOMAIN recentHashes /\ recentHashes'[h] = recentHashes[h]
    BY <1>6 DEF IncrementUploadDone, ReorgUploadDone, Forget, Restrict, followerVars
  <2>3. End' = End /\ blocks' = blocks /\ \A h : BlockAt(h)' = BlockAt(h)
    BY <2>1 DEF End, BlockAt, chainVars, archiveVars
  <2> QED
    BY <2>1, <2>2, <2>3 DEF TailAtRest, TailRemembered, WindowAccounted, TailUploaded
<1> QED BY <1>1, <1>2, <1>3, <1>5, <1>6 DEF UploadBlocks

(* The blocks above the fork are the window of the upload that follows.     *)
LEMMA UploadReorgFromTail ==
  ASSUME CacheInv, TailAtRest, initialized, UNCHANGED <<chainVars, archiveVars>>, NEW start,
         UploadReorgFrom(start)
  PROVE  TailAtRest'
<1>1. CASE Published(start)
  BY <1>1, MoveTail DEF UploadReorgFrom, Return, archiveVars, Publishing, PublishingCalls
<1>2. CASE ~Published(start) /\ start <= End
  BY <1>2, StartUploadTail DEF UploadReorgFrom, StartUpload
<1>3. CASE ~Published(start) /\ ~(start <= End)
  <2> DEFINE known == Forget(recentHashes, {h \in DOMAIN recentHashes : h >= start})
  <2>1. SettleTip(known) /\ Goto("publish")
    BY <1>3 DEF UploadReorgFrom
  <2>2. \A h \in DOMAIN known : h \in DOMAIN recentHashes /\ known[h] = recentHashes[h]
    BY DEF Forget, Restrict
  <2> HIDE DEF known
  <2> QED BY <2>1, <2>2, SettleTipTail
<1> QED BY <1>1, <1>2, <1>3

(* The check of the last tip: the window begins where the chain differs.    *)
LEMMA UploadIncrementTail ==
  ASSUME CacheInv, TailAtRest, UploadIncrement
  PROVE  TailAtRest'
<1>0. pc \in {"checkTip", "walk"} => initialized
  BY DEF CacheInv, AttemptStarted, Incrementing
<1>1. CASE StartIncrement
  <2>1. initialized /\ pc' = "checkTip" /\ UNCHANGED <<chainVars, archiveVars, followerVars>>
    BY <1>1 DEF StartIncrement, StartAttempt
  <2> QED
    BY <2>1 DEF TailAtRest, TailRemembered, WindowAccounted, TailUploaded, followerVars, archiveVars
<1>2. CASE IncrementBehindBoundary \/ PublishedTipReorged
  BY <1>2, MoveTail
     DEF IncrementBehindBoundary, PublishedTipReorged, TouchesPublishedIndex, Return, archiveVars,
         Publishing, PublishingCalls
<1>3. CASE TipUnchanged
  BY <1>0, <1>3, SettleTipTail DEF TipUnchanged
<1>4. CASE TipExtended
  BY <1>4, StartUploadTail DEF TipExtended, StartUpload
<1>5. ASSUME pc \in {"checkTip", "walk"}, NEW top, WalkDown(top), UNCHANGED <<chainVars, archiveVars>>
      PROVE  TailAtRest'
  <2>1. ASSUME NEW h \in DOMAIN recentHashes, WalkTo(h, top)
        PROVE  TailAtRest'
    BY <1>0, <1>5, <2>1, MoveTail DEF WalkTo, archiveVars, Publishing, PublishingCalls
  <2>2. CASE NoAncestor /\ Published(WalkBottom)
    BY <1>0, <1>5, <2>2, MoveTail DEF NoAncestor, Return, archiveVars, Publishing, PublishingCalls
  <2>3. CASE NoAncestor /\ ~Published(WalkBottom)
    BY <1>0, <1>5, <2>3, UploadReorgFromTail DEF NoAncestor
  <2> QED BY <1>5, <2>1, <2>2, <2>3 DEF WalkDown
<1>6. CASE TipReorged \/ WalkOn
  BY <1>5, <1>6 DEF TipReorged, WalkOn
<1>7. CASE AncestorFound
  BY <1>0, <1>7, UploadReorgFromTail DEF AncestorFound
<1> QED BY <1>1, <1>2, <1>3, <1>4, <1>6, <1>7 DEF UploadIncrement

(* Publishing uploads its range once more and takes nothing away.           *)
LEMMA PublishTail ==
  ASSUME CacheInv, TailAtRest, PublishStableIndexes
  PROVE  TailAtRest'
<1>1. CASE BeginRange \/ InitialPublishDone \/ PublishDone
  <2>1. /\ pc = "publish" /\ UNCHANGED <<chainVars, archiveVars, followerVars>>
        /\ pc' # "idle" => localTip' = localTip
        /\ pc' # "upload" \/ caller' = "range"
        /\ initialized => pc' # "refresh"
    BY <1>1 DEF BeginRange, UploadRange, InitialPublishDone, PublishDone, StartUpload, StartRefresh,
                FinishResult, Return
  <2> QED BY <2>1, MoveTail DEF archiveVars
<1>2. CASE IndexExists \/ IndexMissing \/ ReadRangeHash \/ PutIndex
  <2>1. /\ Publishing /\ UNCHANGED <<chainVars, blocks, followerVars, localTip>>
        /\ pc' \in {"boundary", "readHashes", "putIndex"}
    BY <1>2 DEF IndexExists, IndexMissing, ReadRangeHash, PutIndex, Goto, Publishing, PublishingCalls,
                archiveVars
  <2> QED BY <2>1, MoveTail
<1>3. CASE ReadBoundary
  <2>1. /\ pc' = "publish" /\ Publishing
        /\ UNCHANGED <<chainVars, archiveVars, initialized, localTip>>
        /\ nextIndexStart' = RangeEnd + 1
    BY <1>3, Numbers, RangeSizeAssumption
       DEF ReadBoundary, Goto, Publishing, NextRangeStart, RangeEnd, EndOfRange, CacheInv
  <2>2. \A h \in DOMAIN recentHashes' :
          \/ h = RangeEnd
          \/ h \in DOMAIN recentHashes /\ recentHashes'[h] = recentHashes[h]
    BY <1>3 DEF ReadBoundary, Learn, Pruned, Restrict
  <2>3. nextIndexStart \in Nat /\ RangeEnd \in Nat /\ nextIndexStart <= RangeEnd /\ End \in Nat
    BY Numbers DEF CacheInv
  <2>4. End' = End /\ blocks' = blocks /\ \A h : BlockAt(h)' = BlockAt(h)
    BY <2>1 DEF End, BlockAt, chainVars, archiveVars
  <2>5. TailRemembered'
    BY <2>1, <2>2, <2>3, <2>4, RememberedHeights DEF TailAtRest, TailRemembered, CacheInv
  <2>6. ~initialized => \A h \in nextIndexStart'..End : BlockAt(h) \in blocks
    BY <2>1, <2>3 DEF TailAtRest, TailUploaded
  <2> QED
    BY <2>1, <2>4, <2>5, <2>6 DEF TailAtRest, WindowAccounted, TailUploaded
<1> QED BY <1>1, <1>2, <1>3 DEF PublishStableIndexes

(* The refresh remembers hashes of the window, or of the tail before it.    *)
LEMMA RefreshTail ==
  ASSUME CacheInv, CacheAtRest, TailAtRest, RefreshRecentHashes
  PROVE  TailAtRest'
<1>1. /\ pc = "refresh" /\ UNCHANGED <<chainVars, archiveVars, nextIndexStart>>
      /\ blocks' = blocks /\ \A h : BlockAt(h)' = BlockAt(h)
  BY DEF RefreshRecentHashes, ReadRecentHash, RefreshDone, BlockAt, chainVars, archiveVars
<1>2. cursor \in Nat /\ End \in Nat /\ nextIndexStart \in Nat
  BY Numbers DEF CacheInv
<1>3. CASE ReadRecentHash
  <2>1. /\ cursor < End /\ cursor' = cursor + 1 /\ pc' = "refresh" /\ End' = End
        /\ UNCHANGED <<initialized>>
    BY <1>1, <1>3 DEF ReadRecentHash, End
  <2>2. \A h \in DOMAIN recentHashes' :
          \/ h = cursor /\ recentHashes'[h] = BlockAt(cursor)
          \/ h \in DOMAIN recentHashes /\ recentHashes'[h] = recentHashes[h]
    BY <1>3 DEF ReadRecentHash, Learn
  <2>3. initialized => BlockAt(cursor) \in blocks
    BY <1>1, <1>2, <2>1 DEF TailAtRest, TailUploaded
  <2>4. TailRemembered'
    BY <1>1, <2>1, <2>2, <2>3 DEF TailAtRest, TailRemembered
  <2>5. TailUploaded'
    BY <1>1, <1>2, <2>1 DEF TailAtRest, TailUploaded
  <2> QED BY <2>1, <2>4, <2>5 DEF TailAtRest, WindowAccounted
<1>4. CASE RefreshDone
  <2>1. cursor = End /\ pc' \in {"publish", "idle"} /\ initialized'
    BY <1>4 DEF RefreshDone, Goto, FinishResult, Return
  <2>2. \A h \in DOMAIN recentHashes' :
          /\ h <= End
          /\ \/ h = End /\ recentHashes'[h] = BlockAt(End)
             \/ h \in DOMAIN recentHashes /\ recentHashes'[h] = recentHashes[h]
    BY <1>4, <2>1 DEF RefreshDone, Learn, Pruned, Restrict
  <2>3. TailRemembered'
    <3>1. CASE initialized
      <4>1. BlockAt(End) \in blocks
        BY <1>1, <1>2, <2>1, <3>1 DEF TailAtRest, TailUploaded
      <4> QED BY <1>1, <2>2, <3>1, <4>1 DEF TailAtRest, TailRemembered
    <3>2. CASE ~initialized
      <4>1. \A h \in nextIndexStart..End : BlockAt(h) \in blocks
        BY <1>1, <3>2 DEF TailAtRest, TailUploaded
      <4>2. \A h \in DOMAIN recentHashes' : h \in Nat /\ recentHashes'[h] = BlockAt(h)
        BY <1>2, <1>4, <2>2, RefreshDoneReads, RememberedHeights DEF CacheInv
      <4>3. \A h \in DOMAIN recentHashes' : h >= nextIndexStart => h \in nextIndexStart..End
        BY <1>2, <2>2, <4>2
      <4> QED BY <1>1, <4>1, <4>2, <4>3 DEF TailRemembered
    <3> QED BY <3>1, <3>2
  <2> QED BY <2>1, <2>3 DEF TailAtRest, WindowAccounted, TailUploaded, Publishing, PublishingCalls
<1> QED BY <1>3, <1>4 DEF RefreshRecentHashes

(* Every step keeps the tail accounted for.                                 *)
LEMMA MCNextTail ==
  ASSUME CacheInv, CacheInv', RestInv, TailInv, [MCNext]_MCVars
  PROVE  TailInv'
<1> SUFFICES ASSUME ~movedMidAttempt', ~gapPassed' PROVE TailAtRest'
  BY DEF TailInv
<1>1. CASE Crash
  <2>1. ~initialized' /\ pc' = "idle"
    BY <1>1 DEF Crash, Return
  <2> QED
    BY <2>1 DEF TailAtRest, TailRemembered, WindowAccounted, TailUploaded, Publishing, PublishingCalls
<1>2. CASE (Step \/ CallFails) /\ UNCHANGED movedMidAttempt /\ RecordGap
  <2>1. CASE pc' = "findStart"
    BY <2>1, StartsAnewTail
  <2>2. CASE ProbesDone
    <3>1. ~MissedGap
      BY <1>2, <2>2 DEF RecordGap, ProbesChoose, ProbesDone
    <3> QED BY <2>2, <3>1, ProbesDoneTail
  <2>3. CASE pc' # "findStart" /\ ~ProbesDone
    <3>1. ~ProbesChoose
      BY <1>2, <2>3, ProbesChooseLast
    <3>2. TailAtRest /\ CacheAtRest
      BY <1>2, <2>3, <3>1 DEF RecordGap, TailInv, RestInv
    <3>3. CASE NothingManaged \/ HashUnavailable \/ CallFails
      BY <3>2, <3>3, MoveTail
         DEF NothingManaged, HashUnavailable, CallFails, FinishResult, Return, archiveVars, Publishing,
             PublishingCalls
    <3> QED
      BY <1>2, <2>3, <3>2, <3>3, InitializeTail, UploadBlocksTail, UploadIncrementTail, PublishTail,
         RefreshTail DEF Step
  <2> QED BY <2>1, <2>2, <2>3
<1>3. CASE /\ ChainMoves
           /\ movedMidAttempt' = (movedMidAttempt \/ pc # "idle")
           /\ UNCHANGED gapPassed
  <2>1. pc = "idle" /\ TailAtRest /\ UNCHANGED <<followerVars, pc, blocks>>
    BY <1>3 DEF TailInv, ChainMoves, NodeMoves, callVars, archiveVars
  <2> QED
    BY <2>1 DEF TailAtRest, TailRemembered, WindowAccounted, TailUploaded, Publishing, PublishingCalls,
                followerVars
<1>4. CASE UNCHANGED MCVars
  <2>1. /\ TailAtRest /\ UNCHANGED <<initialized, nextIndexStart, recentHashes, blocks>>
        /\ UNCHANGED <<pc, caller, uploadStart, cursor, todo, inflight>>
    BY <1>4 DEF TailInv, MCVars, historyVars, vars, callVars, batchVars, followerVars, archiveVars
  <2>2. End' = End /\ \A h : BlockAt(h)' = BlockAt(h)
    BY <1>4 DEF MCVars, vars, callVars, chainVars, End, BlockAt
  <2> QED
    BY <2>1, <2>2 DEF TailAtRest, TailRemembered, WindowAccounted, TailUploaded, Publishing,
                      PublishingCalls
<1> QED BY <1>1, <1>2, <1>3, <1>4 DEF MCNext

(* While the chain moves only between attempts, every unpublished block    *)
(* that the follower remembers is stored, but for a gap that an earlier    *)
(* process left and the probes of this one passed over: the uploads that   *)
(* follow leave none, whatever fails between their calls.                  *)
THEOREM TailsStayArchived == MCSpec => []TailArchived
<1>1. MCInit => TailInv
  BY DEF MCInit, Init, TailInv, TailAtRest, TailRemembered, WindowAccounted, TailUploaded, Publishing,
         PublishingCalls
<1>2. CacheInv /\ CacheInv' /\ RestInv /\ TailInv /\ [MCNext]_MCVars => TailInv'
  BY MCNextTail
<1>3. TailInv => TailArchived
  BY DEF TailInv, TailAtRest, TailRemembered, TailArchived
<1> QED BY <1>1, <1>2, <1>3, MCCacheInvariant, RestInvariant, PTL DEF MCSpec
=============================================================================
