------------------------ MODULE UploadFollowerProofs -------------------------
(***************************************************************************)
(* Machine-checked properties of UploadFollower, for every chain, every    *)
(* range size, delay, number of workers and bound.                         *)
(***************************************************************************)
EXTENDS UploadFollower, TLAPS

(* The managed range starts at a height.                                   *)
LEMMA ManagedStartType == ManagedStart \in Nat
<1> DEFINE q == FromHeight \div RangeSize
<1>1. q \in Nat
  BY FollowerAssumption, RangeSizeAssumption
<1>2. \A n \in Nat : n * RangeSize \in Nat
  BY RangeSizeAssumption
<1> QED BY <1>1, <1>2 DEF ManagedStart, StartHeight

(* endHeight never exceeds the tip it is computed from.                    *)
LEMMA EndHeightType ==
  ASSUME NEW height \in Heights
  PROVE  EndHeight(height) \in Heights /\ EndHeight(height) <= height
BY FollowerAssumption, ChainAssumption DEF EndHeight, Heights, NoHeight

(* The hash the node returns for a height of its chain is a hash.          *)
LEMMA BlockAtType ==
  ASSUME ChainTypeOK, NEW h \in 0..tip
  PROVE  BlockAt(h) \in BlockHashes
<1>1. h \in Heights
  BY ChainAssumption DEF ChainTypeOK, Heights
<1>2. BlockAt(h) \in [0..h -> Branches]
  BY ChainAssumption DEF ChainTypeOK, BlockAt
<1> QED BY <1>1, <1>2 DEF BlockHashes

(* A cache of hashes stays one when it learns, forgets or is pruned.       *)
LEMMA LearnType ==
  ASSUME NEW known, HashesByHeight(known), NEW h \in Heights, NEW hash \in BlockHashes
  PROVE  HashesByHeight(Learn(known, h, hash))
BY DEF HashesByHeight, Learn

LEMMA ForgetType ==
  ASSUME NEW known, HashesByHeight(known), NEW hs
  PROVE  HashesByHeight(Forget(known, hs))
BY DEF HashesByHeight, Forget, Restrict

LEMMA PrunedType ==
  ASSUME NEW known, HashesByHeight(known), NEW n, NEW e
  PROVE  HashesByHeight(Pruned(known, n, e))
BY DEF HashesByHeight, Pruned, Restrict

LEMMA NoHashesType == HashesByHeight(NoHashes)
BY DEF HashesByHeight, NoHashes

(* The chain's own steps keep its type.                                    *)
LEMMA ChainMoveType ==
  ASSUME ChainTypeOK, Extend \/ RollBack
  PROVE  ChainTypeOK'
<1>1. CASE Extend
  BY <1>1, ChainAssumption DEF Extend, ChainTypeOK
<1>2. CASE RollBack
  BY <1>2, ChainAssumption DEF RollBack, ChainTypeOK
<1> QED BY <1>1, <1>2

(* A final height is below the tip, and the chain's steps change neither   *)
(* its finality nor the block at it.                                       *)
LEMMA FinalHeights ==
  ASSUME ChainTypeOK, NEW h \in Nat, Final(h)
  PROVE  h <= tip
BY ChainAssumption DEF ChainTypeOK, Final

LEMMA FinalStays ==
  ASSUME ChainTypeOK, Extend \/ RollBack, NEW h \in Nat, Final(h)
  PROVE  Final(h)' /\ BlockAt(h)' = BlockAt(h)
<1>1. CASE Extend
  BY <1>1, ChainAssumption DEF Extend, ChainTypeOK, Final, BlockAt
<1>2. CASE RollBack
  BY <1>2, ChainAssumption DEF RollBack, ChainTypeOK, Final, BlockAt
<1> QED BY <1>1, <1>2

-----------------------------------------------------------------------------
(* Type correctness.                                                       *)

LEMMA InitType == Init => TypeOK
<1> SUFFICES ASSUME Init PROVE TypeOK
  OBVIOUS
<1>1. ChainTypeOK
  <2>1. MainBranch \in Branches
    BY ChainAssumption DEF MainBranch
  <2> QED BY <2>1, ChainAssumption DEF Init, ChainInit, ChainTypeOK
<1>2. \A s \in PrePublished : \A h \in RangeHeights(s) : h \in 0..tip
  BY PrePublishedAssumption, ChainAssumption, RangeSizeAssumption
     DEF RangeHeights, EndOfRange, Init, ChainInit
<1>3. BucketTypeOK
  <2>1. \A s \in PrePublished : s \in Nat /\ RangeHeights(s) \subseteq Heights
    BY PrePublishedAssumption, ChainAssumption, RangeSizeAssumption
       DEF RangeHeights, EndOfRange, Heights
  <2>2. \A s \in PrePublished : \A h \in RangeHeights(s) : BlockAt(h) \in BlockHashes
    BY <1>1, <1>2, BlockAtType
  <2>3. blocks \subseteq BlockHashes
    BY <2>2 DEF Init, BucketInit
  <2>4. \A s \in PrePublished : HashesByHeight(ChainHashes(s))
    BY <2>1, <2>2 DEF HashesByHeight, ChainHashes
  <2> QED
    BY <2>1, <2>3, <2>4 DEF BucketTypeOK, Init, BucketInit
<1>4. 0 \in Heights
  BY ChainAssumption DEF Heights
<1>5. FollowerTypeOK
  BY <1>4, ManagedStartType, NoHashesType DEF Init, FollowerTypeOK
<1>6. CallTypeOK
  BY <1>4, NoHashesType DEF Init, CallTypeOK, Locations
<1> QED
  BY <1>1, <1>3, <1>5, <1>6 DEF TypeOK

LEMMA UnchangedType ==
  ASSUME TypeOK
  PROVE  /\ UNCHANGED chainVars => ChainTypeOK'
         /\ UNCHANGED archiveVars => BucketTypeOK'
         /\ UNCHANGED followerVars => FollowerTypeOK'
         /\ UNCHANGED callVars => CallTypeOK'
BY DEF TypeOK, ChainTypeOK, BucketTypeOK, FollowerTypeOK, CallTypeOK,
       chainVars, archiveVars, followerVars, callVars, batchVars

(* Every way an attempt can end, and every way it can go on.               *)
LEMMA ReturnType ==
  ASSUME NEW how \in {"none", "work", "waiting", "error", "reorgTouchesIndex"},
         Return(how)
  PROVE  CallTypeOK'
<1>1. 0 \in Heights
  BY ChainAssumption DEF Heights
<1> QED BY <1>1, NoHashesType DEF Return, NoCall, CallTypeOK, Locations

LEMMA GotoType ==
  ASSUME CallTypeOK, NEW next \in Locations, Goto(next)
  PROVE  CallTypeOK'
BY DEF Goto, CallTypeOK, batchVars

LEMMA StartUploadType ==
  ASSUME CallTypeOK, NEW from \in Nat, NEW to \in Heights,
         NEW by \in {"increment", "reorg", "range"}, StartUpload(from, to, by)
  PROVE  CallTypeOK'
<1>1. from..to \subseteq Heights
  BY ChainAssumption DEF Heights
<1> QED BY <1>1 DEF StartUpload, CallTypeOK, Locations

LEMMA StartRefreshType ==
  ASSUME CallTypeOK, NEW from \in Nat, StartRefresh(from)
  PROVE  CallTypeOK'
BY DEF StartRefresh, CallTypeOK, Locations, batchVars

LEMMA EndType ==
  ASSUME TypeOK
  PROVE  End \in Heights /\ End <= localTip
BY EndHeightType DEF End, TypeOK, CallTypeOK

LEMMA RecentCacheStartType ==
  ASSUME NEW n \in Nat, NEW e \in Nat
  PROVE  RecentCacheStart(n, e) \in Nat /\ RecentCacheStart(n, e) <= e
BY ManagedStartType DEF RecentCacheStart

LEMMA IdleStepsType ==
  ASSUME TypeOK,
         NothingManaged \/ IncrementBehindBoundary \/ StartBehindBoundary
           \/ PublishedTipReorged \/ PublishDone \/ HashUnavailable \/ CallFails \/ Crash
  PROVE  TypeOK'
<1>1. CASE NothingManaged \/ PublishDone
  BY <1>1, ReturnType, UnchangedType DEF NothingManaged, PublishDone, FinishResult, TypeOK
<1>2. CASE IncrementBehindBoundary \/ StartBehindBoundary \/ PublishedTipReorged
  BY <1>2, ReturnType, UnchangedType
     DEF IncrementBehindBoundary, StartBehindBoundary, PublishedTipReorged,
         TouchesPublishedIndex, TypeOK
<1>3. CASE HashUnavailable \/ CallFails
  BY <1>3, ReturnType, UnchangedType DEF HashUnavailable, CallFails, TypeOK
<1>4. CASE Crash
  <2>1. 0 \in Heights
    BY ChainAssumption DEF Heights
  <2>2. FollowerTypeOK'
    BY <1>4, <2>1, ManagedStartType, NoHashesType DEF Crash, FollowerTypeOK
  <2> QED BY <1>4, <2>2, ReturnType, UnchangedType DEF Crash, TypeOK
<1> QED BY <1>1, <1>2, <1>3, <1>4

LEMMA InitializeType ==
  ASSUME TypeOK, Initialize
  PROVE  TypeOK'
<1>1. UNCHANGED <<chainVars, archiveVars>>
  BY DEF Initialize, StartInitialize, SkipPublishedRange, StopAtUnpublishedRange,
         StartBehindBoundary, TouchesPublishedIndex, NothingToUpload, StartProbes,
         Probe, ProbesDone
<1>2. ASSUME FollowerTypeOK', CallTypeOK' PROVE TypeOK'
  BY <1>1, <1>2, UnchangedType DEF TypeOK
<1>3. CASE StartInitialize
  <2>1. FollowerTypeOK'
    BY <1>3, ManagedStartType, NoHashesType DEF StartInitialize, FollowerTypeOK, TypeOK
  <2>2. CallTypeOK'
    BY <1>3 DEF StartInitialize, StartAttempt, CallTypeOK, TypeOK, ChainTypeOK,
                Locations, Heights, batchVars
  <2> QED BY <2>1, <2>2, <1>2
<1>4. CASE SkipPublishedRange
  <2>1. FollowerTypeOK'
    BY <1>4, RangeSizeAssumption
       DEF SkipPublishedRange, NextRangeStart, FollowerTypeOK, TypeOK
  <2>2. CallTypeOK'
    BY <1>4, GotoType DEF SkipPublishedRange, TypeOK, Locations
  <2> QED BY <2>1, <2>2, <1>2
<1>5. CASE StopAtUnpublishedRange \/ NothingToUpload
  BY <1>5, <1>2, GotoType, UnchangedType
     DEF StopAtUnpublishedRange, NothingToUpload, TypeOK, Locations
<1>6. CASE StartBehindBoundary
  BY <1>6, IdleStepsType
<1>7. CASE StartProbes
  <2>1. End \in Heights
    BY EndType
  <2>2. UploadProbeHeights(nextIndexStart, End) \subseteq Heights
    BY <2>1, ChainAssumption DEF UploadProbeHeights, Heights, TypeOK, FollowerTypeOK
  <2>3. CallTypeOK'
    BY <1>7, <2>2 DEF StartProbes, CallTypeOK, TypeOK, FollowerTypeOK, Locations
  <2> QED BY <1>7, <2>3, <1>2, UnchangedType DEF StartProbes
<1>8. ASSUME NEW h \in todo, Probe(h) PROVE TypeOK'
  <2>1. CallTypeOK'
    BY <1>8 DEF Probe, CallTypeOK, TypeOK
  <2> QED BY <1>8, <2>1, <1>2, UnchangedType DEF Probe
<1>9. CASE ProbesDone
  <2>1. End \in Heights /\ uploadStart \in Nat
    BY EndType DEF TypeOK, CallTypeOK
  <2>2. uploadStart' \in Nat
    <3>1. FinalUploadWindowStart(uploadStart, End) \in Nat
      BY <2>1, ProbeAssumption, ChainAssumption DEF FinalUploadWindowStart, Heights
    <3>2. \A m \in missing : PreviousUploadWindowStart(uploadStart, m) \in Nat
      BY <2>1, ProbeAssumption, ChainAssumption
         DEF PreviousUploadWindowStart, Heights, TypeOK, CallTypeOK
    <3> QED BY <1>9, <3>1, <3>2 DEF ProbesDone
  <2>3. uploadStart'..End \subseteq Heights
    BY <2>1, <2>2, ChainAssumption DEF Heights
  <2>4. CallTypeOK'
    BY <1>9, <2>2, <2>3 DEF ProbesDone, CallTypeOK, TypeOK, Locations
  <2> QED BY <1>9, <2>4, <1>2, UnchangedType DEF ProbesDone
<1> QED BY <1>3, <1>4, <1>5, <1>6, <1>7, <1>8, <1>9 DEF Initialize

LEMMA UploadBlocksType ==
  ASSUME TypeOK, UploadBlocks
  PROVE  TypeOK'
<1>1. ASSUME NEW h \in todo, ReadBlock(h) PROVE TypeOK'
  <2>1. h \in Heights /\ h \in 0..tip
    BY <1>1 DEF ReadBlock, TypeOK, CallTypeOK, Heights, ChainTypeOK
  <2>2. HashesByHeight(Learn(inflight, h, BlockAt(h)))
    BY <2>1, BlockAtType, LearnType DEF TypeOK, CallTypeOK
  <2>3. CallTypeOK'
    BY <1>1, <2>2 DEF ReadBlock, CallTypeOK, TypeOK
  <2> QED BY <1>1, <2>3, UnchangedType DEF ReadBlock, TypeOK
<1>2. ASSUME NEW h \in DOMAIN inflight, PutBlock(h) PROVE TypeOK'
  <2>1. inflight[h] \in BlockHashes /\ HashesByHeight(Forget(inflight, {h}))
    BY ForgetType DEF TypeOK, CallTypeOK, HashesByHeight
  <2>2. CallTypeOK'
    BY <1>2, <2>1 DEF PutBlock, Store, CallTypeOK, TypeOK
  <2>3. BucketTypeOK'
    BY <1>2, <2>1 DEF PutBlock, Store, BucketTypeOK, TypeOK
  <2> QED BY <1>2, <2>2, <2>3, UnchangedType DEF PutBlock, Store, TypeOK
<1>3. CASE InitialUploadDone \/ RangeUploadDone
  BY <1>3, GotoType, UnchangedType DEF InitialUploadDone, RangeUploadDone, TypeOK, Locations
<1>4. CASE IncrementUploadDone
  BY <1>4, StartRefreshType, UnchangedType DEF IncrementUploadDone, TypeOK, CallTypeOK
<1>5. CASE ReorgUploadDone
  <2>1. CallTypeOK'
    BY <1>5, StartRefreshType DEF ReorgUploadDone, TypeOK, CallTypeOK
  <2>2. FollowerTypeOK'
    BY <1>5, ForgetType DEF ReorgUploadDone, TypeOK, FollowerTypeOK
  <2> QED BY <1>5, <2>1, <2>2, UnchangedType DEF ReorgUploadDone, TypeOK
<1> QED BY <1>1, <1>2, <1>3, <1>4, <1>5 DEF UploadBlocks

LEMMA SettleTipType ==
  ASSUME TypeOK, NEW known, HashesByHeight(known), SettleTip(known)
  PROVE  FollowerTypeOK'
BY PrunedType, EndType DEF SettleTip, FollowerTypeOK, TypeOK

LEMMA UploadReorgFromType ==
  ASSUME TypeOK, NEW start \in Nat, UploadReorgFrom(start)
  PROVE  FollowerTypeOK' /\ CallTypeOK'
<1>1. CASE Published(start)
  BY <1>1, ReturnType, UnchangedType DEF UploadReorgFrom
<1>2. CASE ~Published(start) /\ start <= End
  <2>1. StartUpload(start, End, "reorg") /\ UNCHANGED followerVars
    BY <1>2 DEF UploadReorgFrom
  <2> QED BY <2>1, EndType, StartUploadType, UnchangedType DEF TypeOK
<1>3. CASE ~Published(start) /\ ~(start <= End)
  <2> DEFINE forgotten == Forget(recentHashes, {h \in DOMAIN recentHashes : h >= start})
  <2>1. SettleTip(forgotten) /\ Goto("publish")
    BY <1>3 DEF UploadReorgFrom
  <2>2. HashesByHeight(forgotten)
    BY ForgetType DEF TypeOK, FollowerTypeOK
  <2>3. FollowerTypeOK'
    BY <2>1, <2>2, SettleTipType
  <2>4. CallTypeOK'
    BY <2>1, GotoType DEF TypeOK, Locations
  <2> QED BY <2>3, <2>4
<1> QED BY <1>1, <1>2, <1>3

LEMMA WalkDownType ==
  ASSUME TypeOK, NEW top, WalkDown(top)
  PROVE  FollowerTypeOK' /\ CallTypeOK'
<1>1. ASSUME NEW h \in DOMAIN recentHashes, WalkTo(h, top)
      PROVE  FollowerTypeOK' /\ CallTypeOK'
  <2>1. h \in Nat
    BY ChainAssumption DEF TypeOK, FollowerTypeOK, HashesByHeight, Heights
  <2> QED
    BY <1>1, <2>1, UnchangedType DEF WalkTo, CallTypeOK, TypeOK, Locations, batchVars
<1>2. CASE NoAncestor
  <2>1. CASE Published(WalkBottom)
    BY <1>2, <2>1, ReturnType, UnchangedType DEF NoAncestor
  <2>2. CASE ~Published(WalkBottom)
    BY <1>2, <2>2, UploadReorgFromType DEF NoAncestor, TypeOK, FollowerTypeOK
  <2> QED BY <2>1, <2>2
<1> QED BY <1>1, <1>2 DEF WalkDown

LEMMA UploadIncrementType ==
  ASSUME TypeOK, UploadIncrement
  PROVE  TypeOK'
<1>1. CASE StartIncrement
  <2>1. CallTypeOK'
    BY <1>1 DEF StartIncrement, StartAttempt, CallTypeOK, TypeOK, ChainTypeOK,
                Locations, Heights, batchVars
  <2> QED BY <1>1, <2>1, UnchangedType DEF StartIncrement, TypeOK
<1>2. CASE IncrementBehindBoundary \/ PublishedTipReorged
  BY <1>2, IdleStepsType
<1>3. CASE TipUnchanged
  <2>1. FollowerTypeOK'
    BY <1>3, SettleTipType DEF TipUnchanged, TypeOK, FollowerTypeOK
  <2>2. CallTypeOK'
    BY <1>3, GotoType DEF TipUnchanged, TypeOK, Locations
  <2> QED BY <1>3, <2>1, <2>2, UnchangedType DEF TipUnchanged, TypeOK
<1>4. CASE TipExtended
  <2>1. lastTip + 1 \in Nat
    BY DEF TypeOK, FollowerTypeOK, Heights
  <2>2. CallTypeOK'
    BY <1>4, <2>1, EndType, StartUploadType DEF TipExtended, TypeOK
  <2> QED BY <1>4, <2>2, UnchangedType DEF TipExtended, TypeOK
<1>5. CASE TipReorged
  BY <1>5, WalkDownType, UnchangedType DEF TipReorged, TypeOK
<1>6. CASE AncestorFound
  <2>1. cursor + 1 \in Nat
    BY DEF TypeOK, CallTypeOK
  <2> QED BY <1>6, <2>1, UploadReorgFromType, UnchangedType DEF AncestorFound, TypeOK
<1>7. CASE WalkOn
  BY <1>7, WalkDownType, UnchangedType DEF WalkOn, TypeOK
<1> QED BY <1>1, <1>2, <1>3, <1>4, <1>5, <1>6, <1>7 DEF UploadIncrement

LEMMA PublishType ==
  ASSUME TypeOK, PublishStableIndexes
  PROVE  TypeOK'
<1>1. CASE BeginRange
  <2>1. RangeEnd \in Heights /\ nextIndexStart \in Nat
    BY <1>1, EndType, RangeSizeAssumption, ChainAssumption
       DEF BeginRange, Publishable, RangeEnd, EndOfRange, Heights, TypeOK, FollowerTypeOK
  <2>2. CallTypeOK'
    BY <1>1, <2>1, StartUploadType DEF BeginRange, UploadRange, TypeOK
  <2> QED BY <1>1, <2>2, UnchangedType DEF BeginRange, TypeOK
<1>2. CASE InitialPublishDone
  <2>1. End \in Nat /\ nextIndexStart \in Nat
    BY EndType DEF TypeOK, FollowerTypeOK, Heights
  <2>2. RecentCacheStart(nextIndexStart, End) \in Nat
    BY <2>1, RecentCacheStartType
  <2> QED BY <1>2, <2>2, StartRefreshType, UnchangedType DEF InitialPublishDone, TypeOK
<1>3. CASE PublishDone
  BY <1>3, IdleStepsType
<1>4. CASE IndexExists
  BY <1>4, GotoType, UnchangedType DEF IndexExists, TypeOK, Locations
<1>5. CASE IndexMissing
  <2>1. CallTypeOK'
    BY <1>5 DEF IndexMissing, CallTypeOK, TypeOK, FollowerTypeOK, Locations, batchVars
  <2> QED BY <1>5, <2>1, UnchangedType DEF IndexMissing, TypeOK
<1>6. CASE ReadRangeHash
  <2>1. cursor \in 0..tip /\ cursor \in Heights /\ cursor + 1 \in Nat
    BY <1>6, ChainAssumption DEF ReadRangeHash, TypeOK, CallTypeOK, ChainTypeOK, Heights
  <2>2. HashesByHeight(Learn(hashes, cursor, BlockAt(cursor)))
    BY <2>1, BlockAtType, LearnType DEF TypeOK, CallTypeOK
  <2>3. CallTypeOK'
    BY <1>6, <2>1, <2>2 DEF ReadRangeHash, CallTypeOK, TypeOK, Locations, batchVars
  <2> QED BY <1>6, <2>3, UnchangedType DEF ReadRangeHash, TypeOK
<1>7. CASE PutIndex
  <2>1. CallTypeOK'
    BY <1>7, NoHashesType DEF PutIndex, CallTypeOK, TypeOK, Locations, batchVars
  <2>2. nextIndexStart \in Nat /\ HashesByHeight(hashes)
    BY DEF TypeOK, FollowerTypeOK, CallTypeOK
  <2>3. BucketTypeOK'
    BY <1>7, <2>2 DEF PutIndex, PutObject, BucketTypeOK, TypeOK
  <2> QED BY <1>7, <2>1, <2>3, UnchangedType DEF PutIndex, TypeOK
<1>8. CASE ReadBoundary
  <2>1. RangeEnd \in 0..tip /\ RangeEnd \in Heights /\ nextIndexStart' \in Nat
    BY <1>8, RangeSizeAssumption, ChainAssumption
       DEF ReadBoundary, RangeEnd, EndOfRange, NextRangeStart, TypeOK, FollowerTypeOK,
           ChainTypeOK, Heights
  <2>2. HashesByHeight(Learn(recentHashes, RangeEnd, BlockAt(RangeEnd)))
    BY <2>1, BlockAtType, LearnType DEF TypeOK, FollowerTypeOK
  <2>3. FollowerTypeOK'
    BY <1>8, <2>1, <2>2, PrunedType DEF ReadBoundary, TypeOK, FollowerTypeOK
  <2>4. CallTypeOK'
    BY <1>8, GotoType DEF ReadBoundary, TypeOK, Locations
  <2> QED BY <1>8, <2>3, <2>4, UnchangedType DEF ReadBoundary, TypeOK
<1> QED BY <1>1, <1>2, <1>3, <1>4, <1>5, <1>6, <1>7, <1>8 DEF PublishStableIndexes

LEMMA RefreshType ==
  ASSUME TypeOK, RefreshRecentHashes
  PROVE  TypeOK'
<1> DEFINE learnt == Learn(recentHashes, cursor, BlockAt(cursor))
<1>1. cursor \in 0..tip /\ cursor \in Heights /\ cursor + 1 \in Nat
  BY ChainAssumption
     DEF RefreshRecentHashes, ReadRecentHash, RefreshDone, TypeOK, CallTypeOK, ChainTypeOK,
         Heights
<1>2. HashesByHeight(learnt)
  BY <1>1, BlockAtType, LearnType DEF TypeOK, FollowerTypeOK
<1>3. CASE ReadRecentHash
  <2>1. FollowerTypeOK'
    BY <1>2, <1>3 DEF ReadRecentHash, FollowerTypeOK, TypeOK
  <2>2. CallTypeOK'
    BY <1>1, <1>3 DEF ReadRecentHash, CallTypeOK, TypeOK, batchVars
  <2> QED BY <1>3, <2>1, <2>2, UnchangedType DEF ReadRecentHash, TypeOK
<1>4. CASE RefreshDone
  <2>1. FollowerTypeOK'
    BY <1>2, <1>4, PrunedType, EndType DEF RefreshDone, FollowerTypeOK, TypeOK
  <2>2. CallTypeOK'
    BY <1>4, GotoType, ReturnType DEF RefreshDone, FinishResult, TypeOK, Locations
  <2> QED BY <1>4, <2>1, <2>2, UnchangedType DEF RefreshDone, TypeOK
<1> QED BY <1>3, <1>4 DEF RefreshRecentHashes

LEMMA ChainMovesType ==
  ASSUME TypeOK, ChainMoves
  PROVE  TypeOK'
<1>1. ChainTypeOK'
  BY ChainMoveType DEF ChainMoves, NodeMoves, TypeOK
<1> QED BY <1>1, UnchangedType DEF ChainMoves, NodeMoves, TypeOK

LEMMA NextType == TypeOK /\ [Next]_vars => TypeOK'
<1> SUFFICES ASSUME TypeOK, [Next]_vars PROVE TypeOK'
  OBVIOUS
<1>1. CASE Step
  <2>1. CASE NothingManaged \/ HashUnavailable
    BY <2>1, IdleStepsType
  <2>2. CASE Initialize
    BY <2>2, InitializeType
  <2>3. CASE UploadBlocks
    BY <2>3, UploadBlocksType
  <2>4. CASE UploadIncrement
    BY <2>4, UploadIncrementType
  <2>5. CASE PublishStableIndexes
    BY <2>5, PublishType
  <2>6. CASE RefreshRecentHashes
    BY <2>6, RefreshType
  <2> QED BY <1>1, <2>1, <2>2, <2>3, <2>4, <2>5, <2>6 DEF Step
<1>2. CASE CallFails \/ Crash
  BY <1>2, IdleStepsType
<1>3. CASE ChainMoves
  BY <1>3, ChainMovesType
<1>4. CASE UNCHANGED vars
  BY <1>4, UnchangedType DEF vars, TypeOK
<1> QED BY <1>1, <1>2, <1>3, <1>4 DEF Next

(* The chain, the bucket, the follower's fields and an attempt's locals    *)
(* always have their types: the windows, walks and refreshes of sync.go    *)
(* never leave the heights the chain has had.                              *)
THEOREM TypeCorrect == Spec => []TypeOK
<1> QED BY InitType, NextType, PTL DEF Spec

-----------------------------------------------------------------------------
(* The index invariant.  Most steps neither touch the bucket nor leave the *)
(* follower publishing: for those a lemma says all of IndexInv holds on.   *)

NotPublishing ==
  /\ ~Publishing'
  /\ hashes' = NoHashes
  /\ localTip' <= peak

LEMMA QuietStep ==
  ASSUME IndexInv, TypeOK', UNCHANGED <<chainVars, archiveVars>>, NotPublishing
  PROVE  IndexInv'
<1>1. StableDelayCovers'
  BY DEF IndexInv, StableDelayCovers
<1>2. RangeFinal' /\ RangeAccounted' /\ RangeStored' /\ HashesRead'
  BY DEF NotPublishing, Publishing, PublishingCalls, RangeFinal, RangeAccounted, RangeStored,
         HashesRead, chainVars
<1>3. PublishedFinal'
  BY DEF IndexInv, PublishedFinal, chainVars, archiveVars, Final, ChainHashes, BlockAt
<1> QED BY <1>1, <1>2, <1>3 DEF IndexInv

LEMMA ReturnQuiet ==
  ASSUME TypeOK, NEW how, Return(how)
  PROVE  NotPublishing
<1>1. peak \in Nat
  BY ChainAssumption DEF TypeOK, ChainTypeOK
<1> QED BY <1>1 DEF Return, NoCall, NotPublishing, Publishing, PublishingCalls

(* A step that stays clear of the publishing calls keeps hashes empty.     *)
LEMMA ElsewhereQuiet ==
  ASSUME IndexInv, pc \notin {"readHashes", "putIndex"},
         UNCHANGED <<hashes, localTip>>,
         pc' \in Locations \ (PublishingCalls \cup {"boundary"}),
         pc' = "upload" => caller' # "range"
  PROVE  NotPublishing
BY DEF NotPublishing, Publishing, PublishingCalls, IndexInv, RangeFinal, HashesRead

LEMMA InitializeQuiet ==
  ASSUME IndexInv, Initialize
  PROVE  NotPublishing
<1>1. CASE StartInitialize
  BY <1>1, ChainAssumption
     DEF StartInitialize, StartAttempt, NotPublishing, Publishing, PublishingCalls,
         IndexInv, HashesRead, TypeOK, ChainTypeOK
<1>2. CASE SkipPublishedRange \/ StopAtUnpublishedRange \/ NothingToUpload
  BY <1>2, ElsewhereQuiet
     DEF SkipPublishedRange, StopAtUnpublishedRange, NothingToUpload, Goto, Locations,
         PublishingCalls
<1>3. CASE StartBehindBoundary
  BY <1>3, ReturnQuiet DEF StartBehindBoundary, TouchesPublishedIndex, IndexInv
<1>4. CASE StartProbes \/ ProbesDone
  BY <1>4, ElsewhereQuiet DEF StartProbes, ProbesDone, Locations, PublishingCalls
<1>5. ASSUME NEW h \in todo, Probe(h) PROVE NotPublishing
  BY <1>5, ElsewhereQuiet DEF Probe, Locations, PublishingCalls
<1> QED BY <1>1, <1>2, <1>3, <1>4, <1>5 DEF Initialize

LEMMA UploadReorgFromQuiet ==
  ASSUME IndexInv, pc \in {"checkTip", "walk"}, NEW start, UploadReorgFrom(start)
  PROVE  NotPublishing
<1>1. CASE Published(start)
  BY <1>1, ReturnQuiet DEF UploadReorgFrom, IndexInv
<1>2. CASE ~Published(start)
  BY <1>2, ElsewhereQuiet
     DEF UploadReorgFrom, StartUpload, Goto, Locations, PublishingCalls
<1> QED BY <1>1, <1>2

LEMMA WalkDownQuiet ==
  ASSUME IndexInv, pc \in {"checkTip", "walk"}, NEW top, WalkDown(top)
  PROVE  NotPublishing
<1>1. ASSUME NEW h, WalkTo(h, top) PROVE NotPublishing
  BY <1>1, ElsewhereQuiet DEF WalkTo, Locations, PublishingCalls
<1>2. CASE NoAncestor
  BY <1>2, ReturnQuiet, UploadReorgFromQuiet DEF NoAncestor, IndexInv
<1> QED BY <1>1, <1>2 DEF WalkDown

LEMMA UploadIncrementQuiet ==
  ASSUME IndexInv, UploadIncrement
  PROVE  NotPublishing
<1>1. CASE StartIncrement
  BY <1>1, ChainAssumption
     DEF StartIncrement, StartAttempt, NotPublishing, Publishing, PublishingCalls,
         IndexInv, HashesRead, TypeOK, ChainTypeOK
<1>2. CASE IncrementBehindBoundary \/ PublishedTipReorged
  BY <1>2, ReturnQuiet
     DEF IncrementBehindBoundary, PublishedTipReorged, TouchesPublishedIndex, IndexInv
<1>3. CASE TipUnchanged \/ TipExtended
  BY <1>3, ElsewhereQuiet
     DEF TipUnchanged, TipExtended, StartUpload, Goto, Locations, PublishingCalls
<1>4. CASE TipReorged \/ WalkOn
  BY <1>4, WalkDownQuiet DEF TipReorged, WalkOn
<1>5. CASE AncestorFound
  BY <1>5, UploadReorgFromQuiet DEF AncestorFound
<1> QED BY <1>1, <1>2, <1>3, <1>4, <1>5 DEF UploadIncrement

LEMMA OtherQuiet ==
  ASSUME IndexInv,
         NothingManaged \/ HashUnavailable \/ CallFails \/ Crash
           \/ InitialUploadDone \/ IncrementUploadDone \/ ReorgUploadDone
           \/ InitialPublishDone \/ PublishDone \/ ReadBoundary \/ RefreshRecentHashes
  PROVE  NotPublishing
<1>1. CASE NothingManaged \/ HashUnavailable \/ CallFails \/ Crash \/ PublishDone
  BY <1>1, ReturnQuiet
     DEF NothingManaged, HashUnavailable, CallFails, Crash, PublishDone, FinishResult, IndexInv
<1>2. CASE InitialUploadDone \/ IncrementUploadDone \/ ReorgUploadDone
  BY <1>2, ElsewhereQuiet
     DEF InitialUploadDone, IncrementUploadDone, ReorgUploadDone, UploadDone, StartRefresh,
         Goto, Locations, PublishingCalls
<1>3. CASE InitialPublishDone \/ ReadBoundary
  BY <1>3, ElsewhereQuiet
     DEF InitialPublishDone, ReadBoundary, StartRefresh, Goto, Locations, PublishingCalls
<1>4. CASE ReadRecentHash
  BY <1>4, ElsewhereQuiet DEF ReadRecentHash, Locations, PublishingCalls
<1>5. CASE RefreshDone
  BY <1>5, ElsewhereQuiet, ReturnQuiet
     DEF RefreshDone, FinishResult, Goto, Locations, PublishingCalls, IndexInv
<1> QED BY <1>1, <1>2, <1>3, <1>4, <1>5 DEF RefreshRecentHashes

(* The steps that publish, one lemma each.                                 *)

LEMMA RangeTypes ==
  ASSUME TypeOK
  PROVE  /\ nextIndexStart \in Nat
         /\ RangeEnd \in Nat /\ nextIndexStart <= RangeEnd
         /\ RangeHeights(nextIndexStart) = nextIndexStart..RangeEnd
BY RangeSizeAssumption DEF TypeOK, FollowerTypeOK, RangeEnd, EndOfRange, RangeHeights

(* A lower height than a final one is final.                               *)
LEMMA FinalBelow ==
  ASSUME TypeOK, NEW e \in Nat, Final(e), NEW h \in 0..e
  PROVE  Final(h) /\ h \in 0..tip
<1>1. Final(h)
  BY ChainAssumption DEF Final, TypeOK, ChainTypeOK
<1> QED BY <1>1, FinalHeights DEF TypeOK

LEMMA BeginRangeInv ==
  ASSUME IndexInv, TypeOK', BeginRange
  PROVE  IndexInv'
<1>1. UNCHANGED <<chainVars, archiveVars, followerVars, inflight, localTip, hashes>>
  BY DEF BeginRange, UploadRange, StartUpload
<1>2. Final(RangeEnd)
  <2>1. RangeEnd + StableDelay <= localTip /\ localTip <= peak
    BY RangeTypes, FollowerAssumption, ChainAssumption
       DEF BeginRange, Publishable, IndexInv, RangeFinal, TypeOK, CallTypeOK, Heights
  <2> QED
    BY <2>1, RangeTypes, FollowerAssumption, ChainAssumption
       DEF Final, IndexInv, StableDelayCovers, TypeOK, CallTypeOK, ChainTypeOK, Heights
<1>3. RangeFinal'
  BY <1>1, <1>2 DEF RangeFinal, IndexInv, Final, RangeEnd, followerVars, chainVars
<1>4. RangeAccounted'
  BY <1>1, RangeTypes
     DEF BeginRange, UploadRange, StartUpload, RangeAccounted, IndexInv, followerVars
<1>5. RangeStored' /\ HashesRead'
  BY <1>1 DEF BeginRange, UploadRange, StartUpload, RangeStored, HashesRead, PublishingCalls, IndexInv
<1>6. PublishedFinal'
  BY <1>1 DEF IndexInv, PublishedFinal, chainVars, archiveVars, Final, ChainHashes, BlockAt
<1> QED BY <1>3, <1>4, <1>5, <1>6 DEF IndexInv, StableDelayCovers

LEMMA ReadBlockInv ==
  ASSUME IndexInv, TypeOK', NEW h \in todo, ReadBlock(h)
  PROVE  IndexInv'
<1>1. UNCHANGED <<chainVars, archiveVars, followerVars, localTip, hashes, pc, caller>>
  BY DEF ReadBlock
<1>2. pc = "upload"
  BY DEF ReadBlock
<1>3. RangeFinal' /\ RangeStored' /\ HashesRead'
  BY <1>1, <1>2
     DEF RangeFinal, RangeStored, HashesRead, PublishingCalls, IndexInv, Publishing,
         Final, RangeEnd, followerVars, chainVars
<1>4. RangeAccounted'
  <2> SUFFICES ASSUME caller = "range", NEW g \in RangeHeights(nextIndexStart)
               PROVE  \/ g \in todo'
                      \/ g \in DOMAIN inflight' /\ inflight'[g] = BlockAt(g)
                      \/ BlockAt(g) \in blocks
    BY <1>1, <1>2 DEF RangeAccounted, followerVars, archiveVars, chainVars, BlockAt
  <2>1. \/ g \in todo
        \/ g \in DOMAIN inflight /\ inflight[g] = BlockAt(g)
        \/ BlockAt(g) \in blocks
    BY <1>2 DEF IndexInv, RangeAccounted
  <2>2. CASE g = h
    BY <2>2 DEF ReadBlock, Learn
  <2>3. CASE g # h
    BY <2>1, <2>3 DEF ReadBlock, Learn
  <2> QED BY <2>2, <2>3
<1>5. PublishedFinal'
  BY <1>1 DEF IndexInv, PublishedFinal, chainVars, archiveVars, Final, ChainHashes, BlockAt
<1> QED BY <1>3, <1>4, <1>5 DEF IndexInv, StableDelayCovers

LEMMA PutBlockInv ==
  ASSUME IndexInv, TypeOK', NEW h \in DOMAIN inflight, PutBlock(h)
  PROVE  IndexInv'
<1>1. UNCHANGED <<chainVars, index, followerVars, localTip, hashes, pc, caller, todo>>
  BY DEF PutBlock, Store
<1>2. pc = "upload" /\ blocks' = blocks \cup {inflight[h]}
  BY DEF PutBlock, Store
<1>3. RangeFinal' /\ RangeStored' /\ HashesRead'
  BY <1>1, <1>2
     DEF RangeFinal, RangeStored, HashesRead, PublishingCalls, IndexInv, Publishing,
         Final, RangeEnd, followerVars, chainVars
<1>4. RangeAccounted'
  <2> SUFFICES ASSUME caller = "range", NEW g \in RangeHeights(nextIndexStart)
               PROVE  \/ g \in todo
                      \/ g \in DOMAIN inflight' /\ inflight'[g] = BlockAt(g)
                      \/ BlockAt(g) \in blocks'
    BY <1>1, <1>2 DEF RangeAccounted, followerVars, chainVars, BlockAt
  <2>1. \/ g \in todo
        \/ g \in DOMAIN inflight /\ inflight[g] = BlockAt(g)
        \/ BlockAt(g) \in blocks
    BY <1>2 DEF IndexInv, RangeAccounted
  <2>2. CASE g = h
    BY <1>2, <2>1, <2>2
  <2>3. CASE g # h
    BY <1>2, <2>1, <2>3 DEF PutBlock, Store, Forget, Restrict
  <2> QED BY <2>2, <2>3
<1>5. PublishedFinal'
  BY <1>1, <1>2 DEF IndexInv, PublishedFinal, chainVars, Final, ChainHashes, BlockAt
<1> QED BY <1>3, <1>4, <1>5 DEF IndexInv, StableDelayCovers

LEMMA RangeUploadDoneInv ==
  ASSUME IndexInv, TypeOK', RangeUploadDone
  PROVE  IndexInv'
<1>1. UNCHANGED <<chainVars, archiveVars, followerVars, localTip, hashes>>
  BY DEF RangeUploadDone, Goto
<1>2. /\ pc = "upload" /\ caller = "range" /\ todo = {} /\ DOMAIN inflight = {}
      /\ pc' = "headIndex"
  BY DEF RangeUploadDone, UploadDone, Goto, NoHashes
<1>3. RangeFinal' /\ RangeAccounted' /\ HashesRead'
  BY <1>1, <1>2
     DEF RangeFinal, RangeAccounted, HashesRead, PublishingCalls, IndexInv, Publishing,
         Final, RangeEnd, followerVars, chainVars
<1>4. RangeStored'
  BY <1>1, <1>2
     DEF RangeStored, RangeAccounted, IndexInv, followerVars, archiveVars, chainVars, BlockAt
<1>5. PublishedFinal'
  BY <1>1 DEF IndexInv, PublishedFinal, chainVars, archiveVars, Final, ChainHashes, BlockAt
<1> QED BY <1>3, <1>4, <1>5 DEF IndexInv, StableDelayCovers

LEMMA HeadIndexInv ==
  ASSUME IndexInv, TypeOK', IndexExists \/ IndexMissing
  PROVE  IndexInv'
<1>1. UNCHANGED <<chainVars, archiveVars, followerVars, localTip, hashes>>
  BY DEF IndexExists, IndexMissing, Goto
<1>2. /\ pc = "headIndex"
      /\ \/ pc' = "boundary"
         \/ pc' = "readHashes" /\ cursor' = nextIndexStart
  BY DEF IndexExists, IndexMissing, Goto
<1>3. RangeFinal' /\ RangeAccounted'
  BY <1>1, <1>2
     DEF RangeFinal, RangeAccounted, PublishingCalls, IndexInv, Publishing,
         Final, RangeEnd, followerVars, chainVars
<1>4. RangeStored'
  BY <1>1, <1>2
     DEF RangeStored, PublishingCalls, IndexInv, followerVars, archiveVars, chainVars, BlockAt
<1>5. HashesRead'
  <2>1. nextIndexStart..(nextIndexStart - 1) = {} /\ nextIndexStart \in RangeHeights(nextIndexStart)
    BY RangeTypes DEF IndexInv
  <2>2. hashes = NoHashes
    BY <1>2 DEF IndexInv, HashesRead
  <2>3. CASE pc' = "boundary"
    BY <1>1, <2>2, <2>3 DEF HashesRead
  <2>4. CASE pc' = "readHashes" /\ cursor' = nextIndexStart
    <3>1. hashes' = [g \in nextIndexStart'..(cursor' - 1) |-> BlockAt(g)']
      BY <1>1, <2>1, <2>2, <2>4 DEF NoHashes, followerVars
    <3> QED BY <1>1, <2>1, <2>4, <3>1 DEF HashesRead, followerVars
  <2> QED BY <1>2, <2>3, <2>4
<1>6. PublishedFinal'
  BY <1>1 DEF IndexInv, PublishedFinal, chainVars, archiveVars, Final, ChainHashes, BlockAt
<1> QED BY <1>3, <1>4, <1>5, <1>6 DEF IndexInv, StableDelayCovers

LEMMA ReadRangeHashInv ==
  ASSUME IndexInv, TypeOK', ReadRangeHash
  PROVE  IndexInv'
<1>1. UNCHANGED <<chainVars, archiveVars, followerVars, localTip>>
  BY DEF ReadRangeHash
<1>2. /\ pc = "readHashes"
      /\ hashes' = Learn(hashes, cursor, BlockAt(cursor))
      /\ cursor' = cursor + 1
      /\ pc' = IF cursor = RangeEnd THEN "putIndex" ELSE "readHashes"
  BY DEF ReadRangeHash
<1>3. RangeFinal' /\ RangeAccounted'
  BY <1>1, <1>2
     DEF RangeFinal, RangeAccounted, PublishingCalls, IndexInv, Publishing,
         Final, RangeEnd, followerVars, chainVars
<1>4. RangeStored'
  BY <1>1, <1>2
     DEF RangeStored, PublishingCalls, IndexInv, followerVars, archiveVars, chainVars, BlockAt
<1>5. HashesRead'
  <2>1. /\ cursor \in nextIndexStart..RangeEnd
        /\ hashes = [g \in nextIndexStart..(cursor - 1) |-> BlockAt(g)]
    BY <1>2, RangeTypes DEF IndexInv, HashesRead
  <2>2. /\ nextIndexStart \in Nat /\ RangeEnd \in Nat /\ cursor \in Nat
        /\ RangeHeights(nextIndexStart) = nextIndexStart..RangeEnd
    BY <2>1, RangeTypes DEF IndexInv
  <2>3. (nextIndexStart..(cursor - 1)) \cup {cursor} = nextIndexStart..cursor
    BY <2>1, <2>2
  <2>4. Learn(hashes, cursor, BlockAt(cursor)) = [g \in nextIndexStart..cursor |-> BlockAt(g)]
    <3>1. DOMAIN hashes = nextIndexStart..(cursor - 1)
      BY <2>1
    <3>2. \A g \in nextIndexStart..cursor :
             (IF g = cursor THEN BlockAt(cursor) ELSE hashes[g]) = BlockAt(g)
      BY <2>1, <2>2
    <3> QED BY <2>3, <3>1, <3>2 DEF Learn
  <2>5. CASE cursor = RangeEnd
    <3>1. pc' = "putIndex" /\ hashes' = ChainHashes(nextIndexStart)
      BY <1>2, <2>2, <2>4, <2>5 DEF ChainHashes
    <3> QED
      BY <1>1, <3>1 DEF HashesRead, ChainHashes, followerVars, chainVars, BlockAt
  <2>6. CASE cursor # RangeEnd
    <3>1. /\ pc' = "readHashes"
          /\ cursor' \in RangeHeights(nextIndexStart)
          /\ cursor' - 1 = cursor
      BY <1>2, <2>1, <2>2, <2>6
    <3>2. hashes' = [g \in nextIndexStart..(cursor' - 1) |-> BlockAt(g)]
      BY <1>2, <2>4, <3>1
    <3> QED
      BY <1>1, <3>1, <3>2 DEF HashesRead, followerVars, chainVars, BlockAt
  <2> QED BY <2>5, <2>6
<1>6. PublishedFinal'
  BY <1>1 DEF IndexInv, PublishedFinal, chainVars, archiveVars, Final, ChainHashes, BlockAt
<1> QED BY <1>3, <1>4, <1>5, <1>6 DEF IndexInv, StableDelayCovers

(* What the put writes, if it writes: the active chain's hashes.           *)
LEMMA PutIndexWrites ==
  ASSUME IndexInv, PutIndex
  PROVE  /\ hashes = ChainHashes(nextIndexStart)
         /\ Final(RangeEnd)
         /\ \A h \in RangeHeights(nextIndexStart) : BlockAt(h) \in blocks
BY DEF PutIndex, IndexInv, HashesRead, RangeFinal, Publishing, RangeStored, PublishingCalls

LEMMA PutIndexInv ==
  ASSUME IndexInv, TypeOK', PutIndex
  PROVE  IndexInv'
<1>1. UNCHANGED <<chainVars, blocks, followerVars, localTip>>
  BY DEF PutIndex
<1>2. pc = "putIndex" /\ pc' = "boundary" /\ hashes' = NoHashes
  BY DEF PutIndex
<1>3. RangeFinal' /\ RangeAccounted' /\ RangeStored' /\ HashesRead'
  BY <1>1, <1>2
     DEF RangeFinal, RangeAccounted, RangeStored, HashesRead, PublishingCalls, IndexInv,
         Publishing, Final, RangeEnd, followerVars, chainVars
<1>4. \A s \in DOMAIN index' :
         /\ Final(EndOfRange(s))
         /\ index'[s] = ChainHashes(s)
         /\ \A h \in RangeHeights(s) : BlockAt(h) \in blocks
  BY PutIndexWrites DEF PutIndex, PutObject, IndexInv, PublishedFinal, RangeEnd
<1>5. PublishedFinal'
  BY <1>1, <1>4 DEF PublishedFinal, chainVars, Final, ChainHashes, BlockAt
<1> QED BY <1>3, <1>5 DEF IndexInv, StableDelayCovers

(* The chain moves, but not below the heights the invariant is about.      *)
LEMMA ChainMovesInv ==
  ASSUME IndexInv, TypeOK', ChainMoves
  PROVE  IndexInv'
<1>1. (Extend \/ RollBack) /\ UNCHANGED <<archiveVars, followerVars, callVars>>
  BY DEF ChainMoves, NodeMoves
<1>2. TypeOK /\ ChainTypeOK
  BY DEF IndexInv, TypeOK
<1>3. \A h \in Nat : Final(h) => Final(h)' /\ BlockAt(h)' = BlockAt(h)
  BY <1>1, <1>2, FinalStays
<1>4. ASSUME NEW s \in Nat, Final(EndOfRange(s))
      PROVE  \A h \in RangeHeights(s) : BlockAt(h)' = BlockAt(h)
  <2>1. EndOfRange(s) \in Nat /\ RangeHeights(s) \subseteq 0..EndOfRange(s)
    BY RangeSizeAssumption DEF EndOfRange, RangeHeights
  <2> QED BY <1>2, <1>3, <1>4, <2>1, FinalBelow
<1>5. ASSUME Publishing
      PROVE  \A h \in RangeHeights(nextIndexStart) : BlockAt(h)' = BlockAt(h)
  BY <1>2, <1>4, <1>5 DEF IndexInv, RangeFinal, RangeEnd, TypeOK, FollowerTypeOK
<1>6. RangeFinal'
  <2>1. peak <= peak'
    BY <1>1, <1>2, ChainAssumption DEF Extend, RollBack, ChainTypeOK
  <2>2. localTip' <= peak'
    BY <1>1, <1>2, <2>1, ChainAssumption
       DEF IndexInv, RangeFinal, callVars, TypeOK, CallTypeOK, ChainTypeOK, Heights
  <2>3. Publishing => Final(RangeEnd)'
    BY <1>1, <1>2, <1>3, RangeTypes DEF IndexInv, RangeFinal, RangeEnd, followerVars
  <2> QED BY <1>1, <2>2, <2>3 DEF RangeFinal, Publishing, PublishingCalls, callVars
<1>7. RangeAccounted'
  BY <1>1, <1>5
     DEF IndexInv, RangeAccounted, Publishing, callVars, batchVars, followerVars, archiveVars
<1>8. RangeStored'
  BY <1>1, <1>5
     DEF IndexInv, RangeStored, Publishing, PublishingCalls, callVars, followerVars, archiveVars
<1>9. HashesRead'
  <2>1. CASE pc = "readHashes"
    <3>1. /\ cursor \in RangeHeights(nextIndexStart)
          /\ hashes = [h \in nextIndexStart..(cursor - 1) |-> BlockAt(h)]
      BY <2>1 DEF IndexInv, HashesRead
    <3>2. nextIndexStart..(cursor - 1) \subseteq RangeHeights(nextIndexStart)
      BY <1>2, <3>1, RangeTypes
    <3>3. hashes = [h \in nextIndexStart..(cursor - 1) |-> BlockAt(h)']
      BY <1>5, <2>1, <3>1, <3>2 DEF Publishing, PublishingCalls
    <3> QED BY <1>1, <2>1, <3>1, <3>3 DEF HashesRead, callVars, followerVars
  <2>2. CASE pc = "putIndex"
    <3>1. hashes = [h \in RangeHeights(nextIndexStart) |-> BlockAt(h)']
      BY <1>5, <2>2 DEF IndexInv, HashesRead, ChainHashes, Publishing, PublishingCalls
    <3> QED BY <1>1, <2>2, <3>1 DEF HashesRead, ChainHashes, callVars, followerVars
  <2>3. CASE pc \notin {"readHashes", "putIndex"}
    BY <1>1, <2>3 DEF IndexInv, HashesRead, callVars
  <2> QED BY <2>1, <2>2, <2>3
<1>10. PublishedFinal'
  <2> SUFFICES ASSUME NEW s \in DOMAIN index
               PROVE  /\ Final(EndOfRange(s))'
                      /\ index[s] = ChainHashes(s)'
                      /\ \A h \in RangeHeights(s) : BlockAt(h)' \in blocks
    BY <1>1 DEF PublishedFinal, archiveVars
  <2>1. s \in Nat /\ EndOfRange(s) \in Nat
    BY <1>2, RangeSizeAssumption DEF TypeOK, BucketTypeOK, EndOfRange
  <2>2. /\ Final(EndOfRange(s))
        /\ index[s] = ChainHashes(s)
        /\ \A h \in RangeHeights(s) : BlockAt(h) \in blocks
    BY DEF IndexInv, PublishedFinal
  <2>3. \A h \in RangeHeights(s) : BlockAt(h)' = BlockAt(h)
    BY <1>4, <2>1, <2>2
  <2> QED BY <1>3, <2>1, <2>2, <2>3 DEF ChainHashes
<1> QED BY <1>6, <1>7, <1>8, <1>9, <1>10 DEF IndexInv, StableDelayCovers

LEMMA InitInv == Init /\ StableDelayCovers => IndexInv
<1> SUFFICES ASSUME Init, StableDelayCovers PROVE IndexInv
  OBVIOUS
<1>1. TypeOK
  BY InitType
<1>2. RangeFinal /\ RangeAccounted /\ RangeStored /\ HashesRead
  BY ChainAssumption
     DEF Init, ChainInit, RangeFinal, RangeAccounted, RangeStored, HashesRead, Publishing,
         PublishingCalls
<1>3. PublishedFinal
  BY PrePublishedAssumption
     DEF Init, ChainInit, BucketInit, PublishedFinal, Final, ChainHashes
<1> QED BY <1>1, <1>2, <1>3 DEF IndexInv

LEMMA NextInv == IndexInv /\ [Next]_vars => IndexInv'
<1> SUFFICES ASSUME IndexInv, [Next]_vars PROVE IndexInv'
  OBVIOUS
<1>1. TypeOK'
  BY NextType DEF IndexInv
<1>2. CASE Initialize
  <2>1. UNCHANGED <<chainVars, archiveVars>>
    BY <1>2 DEF Initialize, StartInitialize, SkipPublishedRange, StopAtUnpublishedRange,
         StartBehindBoundary, TouchesPublishedIndex, NothingToUpload, StartProbes,
         Probe, ProbesDone
  <2> QED BY <1>1, <1>2, <2>1, InitializeQuiet, QuietStep
<1>3. CASE UploadIncrement
  <2>1. UNCHANGED <<chainVars, archiveVars>>
    BY <1>3 DEF UploadIncrement, StartIncrement, IncrementBehindBoundary, PublishedTipReorged,
         TouchesPublishedIndex, TipUnchanged, TipExtended, TipReorged, AncestorFound, WalkOn
  <2> QED BY <1>1, <1>3, <2>1, UploadIncrementQuiet, QuietStep
<1>4. CASE NothingManaged \/ HashUnavailable \/ CallFails \/ Crash
             \/ InitialUploadDone \/ IncrementUploadDone \/ ReorgUploadDone
             \/ InitialPublishDone \/ PublishDone \/ ReadBoundary \/ RefreshRecentHashes
  <2>1. UNCHANGED <<chainVars, archiveVars>>
    BY <1>4 DEF NothingManaged, HashUnavailable, CallFails, Crash, InitialUploadDone,
         IncrementUploadDone, ReorgUploadDone, InitialPublishDone, PublishDone, ReadBoundary,
         RefreshRecentHashes, ReadRecentHash, RefreshDone
  <2> QED BY <1>1, <1>4, <2>1, OtherQuiet, QuietStep
<1>5. CASE UploadBlocks
  <2>1. ASSUME NEW h \in todo, ReadBlock(h) PROVE IndexInv'
    BY <1>1, <2>1, ReadBlockInv
  <2>2. ASSUME NEW h \in DOMAIN inflight, PutBlock(h) PROVE IndexInv'
    BY <1>1, <2>2, PutBlockInv
  <2>3. CASE RangeUploadDone
    BY <1>1, <2>3, RangeUploadDoneInv
  <2> QED BY <1>4, <1>5, <2>1, <2>2, <2>3 DEF UploadBlocks
<1>6. CASE PublishStableIndexes
  <2>1. CASE BeginRange
    BY <1>1, <2>1, BeginRangeInv
  <2>2. CASE IndexExists \/ IndexMissing
    BY <1>1, <2>2, HeadIndexInv
  <2>3. CASE ReadRangeHash
    BY <1>1, <2>3, ReadRangeHashInv
  <2>4. CASE PutIndex
    BY <1>1, <2>4, PutIndexInv
  <2> QED BY <1>4, <1>6, <2>1, <2>2, <2>3, <2>4 DEF PublishStableIndexes
<1>7. CASE ChainMoves
  BY <1>1, <1>7, ChainMovesInv
<1>8. CASE UNCHANGED vars
  BY <1>8
     DEF vars, chainVars, archiveVars, followerVars, callVars, batchVars, IndexInv,
         StableDelayCovers, TypeOK, ChainTypeOK, BucketTypeOK, FollowerTypeOK, CallTypeOK,
         RangeFinal, RangeAccounted, RangeStored, HashesRead, PublishedFinal, Publishing,
         PublishingCalls, Final, RangeEnd, ChainHashes, BlockAt
<1> QED BY <1>2, <1>3, <1>4, <1>5, <1>6, <1>7, <1>8 DEF Next, Step

(* A follower whose stable delay covers the deepest reorganisation keeps   *)
(* the invariant the next three theorems rest on.                          *)
THEOREM IndexInvariant == StableDelayCovers /\ Spec => []IndexInv
<1>1. StableDelayCovers /\ Init => IndexInv
  BY InitInv
<1>2. IndexInv /\ [Next]_vars => IndexInv'
  BY NextInv
<1> QED BY <1>1, <1>2, PTL DEF Spec

(* However the calls of its workers interleave with chain moves, failures  *)
(* and restarts, a published index names stored blocks only.               *)
THEOREM IndexesAreComplete == StableDelayCovers /\ Spec => []IndexComplete
<1>1. IndexInv => IndexComplete
  BY DEF IndexInv, PublishedFinal, IndexComplete, ChainHashes
<1> QED BY <1>1, IndexInvariant, PTL

(* And it never disagrees with the active chain.                           *)
THEOREM IndexesMatchChain == StableDelayCovers /\ Spec => []IndexMatchesChain
<1>1. IndexInv => IndexMatchesChain
  BY DEF IndexInv, PublishedFinal, IndexMatchesChain, ChainHashes
<1> QED BY <1>1, IndexInvariant, PTL

-----------------------------------------------------------------------------
(* The follower implements the archive.                                    *)

LEMMA InitRefines == Init => Archive!Init
BY DEF Init, ChainInit, BucketInit, MainBranch, BlockAt, ChainHashes, RangeHeights, EndOfRange,
       Archive!Init, Archive!ChainInit, Archive!BucketInit, Archive!MainBranch, Archive!BlockAt,
       Archive!ChainHashes, Archive!RangeHeights, Archive!EndOfRange

LEMMA PutIndexRefines ==
  ASSUME IndexInv, PutIndex
  PROVE  [Archive!Next]_<<chainVars, archiveVars>>
<1>1. CASE nextIndexStart \in DOMAIN index
  BY <1>1 DEF PutIndex, PutObject, archiveVars
<1>2. CASE nextIndexStart \notin DOMAIN index
  <2>1. TypeOK /\ ChainTypeOK /\ RangeEnd \in Nat /\ nextIndexStart \in Nat
    BY RangeTypes DEF IndexInv, TypeOK
  <2>2. RangeEnd <= tip
    BY <2>1, FinalHeights, PutIndexWrites
  <2>3. nextIndexStart \in Archive!Heights
    BY <2>1, <2>2, RangeTypes, ChainAssumption DEF Archive!Heights, ChainTypeOK
  <2>4. Archive!Publish(nextIndexStart)
    BY <1>2, <2>2, PutIndexWrites
       DEF PutIndex, Archive!Publish, RangeEnd, EndOfRange, Archive!EndOfRange, Final,
           Archive!Final, RangeHeights, Archive!RangeHeights, BlockAt, Archive!BlockAt,
           PutObject, Archive!PutObject, ChainHashes, Archive!ChainHashes, chainVars,
           Archive!chainVars
  <2> QED BY <2>3, <2>4 DEF Archive!Next
<1> QED BY <1>1, <1>2

LEMMA NextRefines ==
  IndexInv /\ [Next]_vars => [Archive!Next]_<<chainVars, archiveVars>>
<1> SUFFICES ASSUME IndexInv, [Next]_vars PROVE [Archive!Next]_<<chainVars, archiveVars>>
  OBVIOUS
<1>1. ASSUME NEW h \in DOMAIN inflight, PutBlock(h)
      PROVE  Archive!Next
  <2>1. inflight[h] \in Archive!BlockHashes
    BY DEF IndexInv, TypeOK, CallTypeOK, HashesByHeight, BlockHashes, Heights,
           Archive!BlockHashes, Archive!Heights
  <2> QED
    BY <1>1, <2>1 DEF PutBlock, Store, Archive!Next, Archive!Store, chainVars, Archive!chainVars
<1>2. CASE PutIndex
  BY <1>2, PutIndexRefines
<1>3. CASE ChainMoves
  BY <1>3
     DEF ChainMoves, NodeMoves, Extend, RollBack, archiveVars, Archive!Next, Archive!NodeMoves,
         Archive!Extend, Archive!RollBack, Archive!archiveVars
<1>4. CASE UNCHANGED <<chainVars, archiveVars>>
  BY <1>4
<1>5. CASE Initialize \/ UploadIncrement
  BY <1>4, <1>5
     DEF Initialize, StartInitialize, SkipPublishedRange, StopAtUnpublishedRange,
         StartBehindBoundary, TouchesPublishedIndex, NothingToUpload, StartProbes,
         Probe, ProbesDone, UploadIncrement, StartIncrement, IncrementBehindBoundary,
         PublishedTipReorged, TipUnchanged, TipExtended, TipReorged, AncestorFound, WalkOn
<1>6. CASE NothingManaged \/ HashUnavailable \/ CallFails \/ Crash \/ RefreshRecentHashes
  BY <1>4, <1>6
     DEF NothingManaged, HashUnavailable, CallFails, Crash, RefreshRecentHashes,
         ReadRecentHash, RefreshDone
<1>7. CASE UploadBlocks
  <2>1. ASSUME NEW h \in todo, ReadBlock(h) PROVE UNCHANGED <<chainVars, archiveVars>>
    BY <2>1 DEF ReadBlock
  <2> QED
    BY <1>1, <1>4, <1>7, <2>1
       DEF UploadBlocks, InitialUploadDone, IncrementUploadDone, ReorgUploadDone,
           RangeUploadDone
<1>8. CASE PublishStableIndexes
  BY <1>2, <1>4, <1>8
     DEF PublishStableIndexes, BeginRange, InitialPublishDone, PublishDone, IndexExists,
         IndexMissing, ReadRangeHash, ReadBoundary
<1>9. CASE UNCHANGED vars
  BY <1>9 DEF vars
<1> QED BY <1>2, <1>3, <1>5, <1>6, <1>7, <1>8, <1>9 DEF Next, Step

(* The bucket behaves as BlockArchive says: blocks and indexes are only    *)
(* added, and each index appears as one atomic look at a chain that can    *)
(* no longer change there, although the code takes RangeSize + 2 calls.    *)
THEOREM FollowerImplementsArchive == StableDelayCovers /\ Spec => ImplementsArchive
<1>1. Init => Archive!Init
  BY InitRefines
<1>2. IndexInv /\ [Next]_vars => [Archive!Next]_<<chainVars, archiveVars>>
  BY NextRefines
<1>3. IndexInv /\ [Next]_vars => [Archive!Next]_<<Archive!chainVars, Archive!archiveVars>>
  BY <1>2 DEF chainVars, archiveVars, Archive!chainVars, Archive!archiveVars
<1> QED BY <1>1, <1>3, IndexInvariant, PTL DEF Spec, ImplementsArchive, Archive!Spec
=============================================================================
