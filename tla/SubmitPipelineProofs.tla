------------------------ MODULE SubmitPipelineProofs -------------------------
(***************************************************************************)
(* Machine-checked properties of SubmitPipeline, for every number of       *)
(* workers, window, walk limit, range size and bound on the chain.         *)
(***************************************************************************)
EXTENDS SubmitPipeline, FiniteSetTheorems, TLAPS

(* A height lies in the range it is looked up in.                          *)
LEMMA HeightInRange ==
  ASSUME NEW h \in Nat
  PROVE  RangeOf(h) \in Nat /\ RangeOf(h) <= h /\ h <= EndOfRange(RangeOf(h))
<1> DEFINE q == h \div RangeSize
           r == h % RangeSize
<1>1. q \in Nat /\ r \in 0..(RangeSize - 1) /\ h = RangeSize * q + r
  BY RangeSizeAssumption
<1>2. RangeSize * q = q * RangeSize /\ q * RangeSize \in Nat
  BY <1>1, RangeSizeAssumption
<1> HIDE DEF q, r
<1>3. q * RangeSize <= h /\ h <= q * RangeSize + RangeSize - 1
  BY <1>1, <1>2, RangeSizeAssumption
<1> QED
  BY <1>2, <1>3 DEF RangeOf, StartHeight, EndOfRange, q

(* A height of an indexed range is a height of the chain.                  *)
LEMMA IndexedHeight ==
  ASSUME TypeOK, NEW h \in Nat, RangeOf(h) \in indexed
  PROVE  h \in Heights
<1>1. EndOfRange(RangeOf(h)) <= archived /\ archived \in Heights /\ EndOfRange(RangeOf(h)) \in Int
  BY HeightInRange, RangeSizeAssumption DEF TypeOK, EndOfRange
<1> QED
  BY <1>1, HeightInRange, PipelineAssumption DEF Heights

(* The maps of downloads by height stay maps.                              *)
LEMMA PutType ==
  ASSUME NEW map, DownloadMap(map), NEW h \in Heights, NEW value \in {"good", "error"}
  PROVE  DownloadMap(Put(map, h, value)) /\ DOMAIN Put(map, h, value) = DOMAIN map \cup {h}
BY DEF DownloadMap, Put

LEMMA DeleteType ==
  ASSUME NEW map, DownloadMap(map), NEW h
  PROVE  DownloadMap(Delete(map, h)) /\ DOMAIN Delete(map, h) = DOMAIN map \ {h}
BY DEF DownloadMap, Delete, Restrict

LEMMA NoHeightsType == DownloadMap(NoHeights) /\ DOMAIN NoHeights = {}
BY DEF DownloadMap, NoHeights

(* While the window is being filled, its size is what Room compares.       *)
LEMMA WindowSize ==
  ASSUME PipelineInv, pc = "fill"
  PROVE  Cardinality(DOMAIN ready \cup pending) = nextSchedule - currentHeight
<1>1. DOMAIN ready \cup pending = currentHeight..(nextSchedule - 1)
  BY DEF PipelineInv, WindowContiguous, Window, Running
<1>2. currentHeight \in Int /\ nextSchedule \in Int /\ currentHeight <= nextSchedule
  BY PipelineAssumption DEF PipelineInv, TypeOK, InOrder, Running
<1>3. Cardinality(currentHeight..(nextSchedule - 1)) = nextSchedule - currentHeight
  <2> DEFINE last == nextSchedule - 1
  <2>1. last \in Int
    BY <1>2
  <2>2. Cardinality(currentHeight..last) = IF currentHeight > last THEN 0 ELSE last - currentHeight + 1
    BY <1>2, <2>1, FS_Interval
  <2> QED BY <1>2, <2>2
<1> QED BY <1>1, <1>3

-----------------------------------------------------------------------------
(* The initial states.                                                     *)

LEMMA InitInv == Init => PipelineInv
<1> SUFFICES ASSUME Init PROVE PipelineInv
  OBVIOUS
<1>1. 0 \in Heights /\ 0 \in 0..(MaxHeight + 1)
  BY PipelineAssumption DEF Heights
<1>2. [w \in Workers |-> Exited] \in [Workers -> WorkerStates]
  BY DEF WorkerStates
<1>3. TypeOK
  <2>1. nodeBlocks \in Heights /\ nodeHeaders \in Heights /\ nodeBlocks <= nodeHeaders
    BY <1>1 DEF Init
  <2>2. archived \in Heights /\ indexed \subseteq {s \in Heights : EndOfRange(s) <= archived}
    BY <1>1 DEF Init
  <2> QED
    BY <1>1, <1>2, <2>1, <2>2, NoHeightsType DEF Init, TypeOK
<1>4. ~Running
  BY DEF Init, Running
<1>5. Resolving /\ NothingLeft
  BY NoHeightsType DEF Init, Resolving, NothingLeft
<1> QED
  BY <1>3, <1>4, <1>5
     DEF PipelineInv, InOrder, StoppedAboveHeaders, WindowContiguous, PendingAccounted, ParentConnected

-----------------------------------------------------------------------------
(* The world's steps leave the run alone, and only ever add to it.         *)

LEMMA WorldInv ==
  ASSUME PipelineInv, World
  PROVE  PipelineInv'
<1>1. UNCHANGED <<interrupted, runVars>>
  BY DEF World, HearHeader, HearBlock, ArchiveBlock, IndexRange
<1>2. TypeOK'
  <2>1. CASE HearHeader
    BY <2>1, <1>1, PipelineAssumption
       DEF HearHeader, PipelineInv, TypeOK, Heights, runVars, windowVars, cacheVars, channelVars, bucketVars
  <2>2. CASE HearBlock
    BY <2>2, <1>1, PipelineAssumption
       DEF HearBlock, PipelineInv, TypeOK, Heights, runVars, windowVars, cacheVars, channelVars, bucketVars
  <2>3. CASE ArchiveBlock
    <3>1. \A s \in Heights : EndOfRange(s) \in Int
      BY RangeSizeAssumption, PipelineAssumption DEF EndOfRange, Heights
    <3>2. archived' = archived + 1 /\ archived \in Heights /\ archived' \in Heights /\ indexed' = indexed
      BY <2>3, PipelineAssumption DEF ArchiveBlock, PipelineInv, TypeOK, Heights
    <3>3. \A s \in Heights : EndOfRange(s) <= archived => EndOfRange(s) <= archived'
      BY <3>1, <3>2, PipelineAssumption DEF Heights
    <3> QED
      BY <2>3, <1>1, <3>2, <3>3
         DEF ArchiveBlock, PipelineInv, TypeOK, runVars, windowVars, cacheVars, channelVars, nodeVars
  <2>4. CASE IndexRange
    <3>1. \A h \in Heights : StartHeight(h) \in Heights
      BY HeightInRange, PipelineAssumption DEF Heights, RangeOf
    <3>2. /\ indexed' \subseteq {s \in Heights : EndOfRange(s) <= archived}
          /\ indexed \subseteq indexed'
      BY <2>4, <3>1 DEF IndexRange, PipelineInv, TypeOK
    <3> QED
      BY <2>4, <1>1, <3>2
         DEF IndexRange, PipelineInv, TypeOK, runVars, windowVars, cacheVars, channelVars, nodeVars
  <2> QED BY <2>1, <2>2, <2>3, <2>4 DEF World
<1>3. nodeBlocks \in Int /\ nodeBlocks' \in Int /\ nodeBlocks <= nodeBlocks'
  BY PipelineAssumption
     DEF World, HearHeader, HearBlock, ArchiveBlock, IndexRange, nodeVars, PipelineInv, TypeOK, Heights
<1>4. ParentConnected'
  <2>1. currentHeight \in Int /\ currentHeight' = currentHeight /\ pc' = pc
    BY <1>1, PipelineAssumption DEF PipelineInv, TypeOK, runVars, windowVars
  <2>2. pc \notin {"idle", "teardown", "exited"} => currentHeight <= nodeBlocks + 1
    BY DEF PipelineInv, ParentConnected, Running
  <2>3. \A h, b, c \in Int : h <= b + 1 /\ b <= c => h <= c + 1
    OBVIOUS
  <2> QED
    BY <1>3, <2>1, <2>2, <2>3 DEF ParentConnected, Running
<1>5. Resolving' /\ InOrder' /\ NothingLeft' /\ StoppedAboveHeaders' /\ WindowContiguous'
  BY <1>1
     DEF PipelineInv, Resolving, InOrder, NothingLeft, StoppedAboveHeaders, WindowContiguous,
         Window, Running, runVars, windowVars, channelVars
<1>6. PendingAccounted'
  BY <1>1
     DEF PipelineInv, PendingAccounted, InFlight, BusyHeights, Busy, Running, runVars, windowVars, channelVars
<1> QED BY <1>2, <1>4, <1>5, <1>6 DEF PipelineInv

-----------------------------------------------------------------------------
(* Steps after which no run is in progress.                                *)

LEMMA NotRunningInv ==
  ASSUME TypeOK', NothingLeft', pc' \in {"idle", "teardown", "exited"}
  PROVE  PipelineInv'
BY DEF PipelineInv, Resolving, InOrder, StoppedAboveHeaders, WindowContiguous, PendingAccounted,
       ParentConnected, Running

(* Every way a run is given up leads to the teardown.                      *)
LEMMA ReturnInv ==
  ASSUME PipelineInv, NEW how \in {"wait", "error", "interrupted"}, Return(how),
         DownloadMap(ready)',
         UNCHANGED <<world, interrupted, headers, currentHeight, nextSchedule, pending>>,
         UNCHANGED <<stoppedScheduling, cacheVars, channelVars, worker>>
  PROVE  PipelineInv'
<1>1. TypeOK'
  BY DEF PipelineInv, TypeOK, Return, DownloadMap, world, nodeVars, bucketVars, cacheVars, channelVars
<1>2. pc' = "teardown"
  BY DEF Return
<1> QED
  BY <1>1, <1>2, NotRunningInv DEF NothingLeft

LEMMA GivenUpInv ==
  ASSUME PipelineInv,
         WalkFails \/ HeightNotAccepted \/ DownloadError \/ WaitForHeaders \/ ContextDone \/ CallFails
  PROVE  PipelineInv'
<1>1. DownloadMap(ready)
  BY DEF PipelineInv, TypeOK
<1>2. CASE DownloadError
  <2>1. DownloadMap(ready)'
    BY <1>1, <1>2, DeleteType DEF DownloadError
  <2> QED
    BY <1>2, <2>1, ReturnInv DEF DownloadError
<1>3. CASE WalkFails \/ HeightNotAccepted \/ WaitForHeaders \/ ContextDone \/ CallFails
  <2>1. /\ UNCHANGED <<world, interrupted, windowVars, cacheVars, channelVars, worker>>
        /\ \E how \in {"wait", "error", "interrupted"} : Return(how)
    BY <1>3 DEF WalkFails, HeightNotAccepted, WaitForHeaders, ContextDone, CallFails
  <2>2. /\ DownloadMap(ready)'
        /\ UNCHANGED <<world, interrupted, headers, currentHeight, nextSchedule, pending>>
        /\ UNCHANGED <<stoppedScheduling, cacheVars, channelVars, worker>>
    BY <1>1, <2>1 DEF windowVars, DownloadMap
  <2> QED
    BY <2>1, <2>2, ReturnInv
<1> QED BY <1>2, <1>3

(* The fields of the pipeline when they are reset.                         *)
LEMMA ResetInv ==
  ASSUME PipelineInv, Reset, UNCHANGED <<world, interrupted>>,
         pc' \in {"idle", "exited"},
         worker' \in [Workers -> WorkerStates], \A w \in Workers : worker'[w] = Exited,
         outcome' \in {"none", "wait", "error", "interrupted", "killed"}
  PROVE  PipelineInv'
<1>1. 0 \in Heights /\ 0 \in 0..(MaxHeight + 1)
  BY PipelineAssumption DEF Heights
<1>2. DownloadMap(ready)' /\ DownloadMap(results)' /\ DOMAIN ready' = {} /\ DOMAIN results' = {}
  BY NoHeightsType DEF Reset, NoneScheduled, DownloadMap
<1>3. TypeOK'
  <2>1. pc' \in {"idle", "fill", "walk", "send", "loop", "confirm", "teardown", "exited"}
    OBVIOUS
  <2> QED
    BY <1>1, <1>2, <2>1 DEF PipelineInv, TypeOK, Reset, NoneScheduled, world, nodeVars, bucketVars
<1>4. NothingLeft'
  BY <1>2 DEF NothingLeft, Reset, NoneScheduled
<1> QED BY <1>3, <1>4, NotRunningInv

(* The steps of the process around the runs.                               *)
LEMMA ProcessInv ==
  ASSUME PipelineInv, StopBetweenRuns \/ StartFails \/ Launch \/ TeardownDone \/ Kill
  PROVE  PipelineInv'
<1>1. CASE StopBetweenRuns \/ StartFails \/ Launch
  <2>1. /\ UNCHANGED <<world, windowVars, cacheVars, channelVars, worker>>
        /\ interrupted' \in BOOLEAN
        /\ pc \in {"idle", "exited"} /\ pc' \in {"idle", "exited"}
        /\ outcome' \in {"none", "error", "interrupted"}
    <3>1. interrupted \in BOOLEAN
      BY DEF PipelineInv, TypeOK
    <3> QED
      BY <1>1, <3>1 DEF StopBetweenRuns, StartFails, Launch
  <2>2. TypeOK'
    BY <2>1 DEF PipelineInv, TypeOK, DownloadMap, world, nodeVars, bucketVars, windowVars, cacheVars, channelVars
  <2>3. NothingLeft'
    BY <2>1 DEF PipelineInv, NothingLeft, windowVars, channelVars
  <2> QED BY <2>1, <2>2, <2>3, NotRunningInv
<1>2. CASE TeardownDone
  <2>1. worker' \in [Workers -> WorkerStates] /\ outcome' \in {"none", "wait", "error", "interrupted", "killed"}
    BY <1>2 DEF TeardownDone, PipelineInv, TypeOK
  <2>2. \A w \in Workers : worker'[w] = Exited
    BY <1>2 DEF TeardownDone
  <2> QED
    BY <2>2, <1>2, <2>1, ResetInv DEF TeardownDone
<1>3. CASE Kill
  <2>1. worker' \in [Workers -> WorkerStates] /\ \A w \in Workers : worker'[w] = Exited
    BY <1>3 DEF Kill, WorkerStates
  <2> QED
    BY <1>3, <2>1, ResetInv DEF Kill
<1> QED BY <1>1, <1>2, <1>3

LEMMA InterruptInv ==
  ASSUME PipelineInv, Interrupt
  PROVE  PipelineInv'
<1>1. UNCHANGED <<world, runVars>> /\ interrupted' = TRUE
  BY DEF Interrupt, world
<1>2. TypeOK'
  BY <1>1
     DEF PipelineInv, TypeOK, DownloadMap, world, nodeVars, bucketVars, runVars, windowVars, cacheVars, channelVars
<1>3. Resolving' /\ InOrder' /\ NothingLeft' /\ StoppedAboveHeaders' /\ WindowContiguous' /\ ParentConnected'
  BY <1>1
     DEF PipelineInv, Resolving, InOrder, NothingLeft, StoppedAboveHeaders, WindowContiguous, ParentConnected,
         Window, Running, world, nodeVars, runVars, windowVars, channelVars
<1>4. PendingAccounted'
  BY <1>1
     DEF PipelineInv, PendingAccounted, InFlight, BusyHeights, Busy, Running, runVars, windowVars, channelVars
<1> QED BY <1>2, <1>3, <1>4 DEF PipelineInv

LEMMA StartRunInv ==
  ASSUME PipelineInv, StartRun
  PROVE  PipelineInv'
<1>1. worker' \in [Workers -> WorkerStates]
  BY DEF StartRun, WorkerStates
<1>2. nodeBlocks \in 0..MaxHeight
  BY DEF PipelineInv, TypeOK, Heights
<1>3. nodeBlocks + 1 \in 0..(MaxHeight + 1) /\ nodeBlocks \in Int
  BY <1>2, PipelineAssumption
<1>4. TypeOK'
  BY <1>1, <1>3
     DEF StartRun, PipelineInv, TypeOK, DownloadMap, world, nodeVars, bucketVars, cacheVars, channelVars
<1>5. DOMAIN ready' = {} /\ pending' = {} /\ jobs' = {} /\ DOMAIN results' = {} /\ ~stoppedScheduling'
  BY DEF StartRun, PipelineInv, NothingLeft, channelVars
<1>6. Resolving' /\ NothingLeft' /\ StoppedAboveHeaders'
  BY <1>5 DEF StartRun, Resolving, NothingLeft, StoppedAboveHeaders
<1>7. InOrder' /\ ParentConnected'
  BY <1>3 DEF StartRun, InOrder, ParentConnected, world, nodeVars
<1>8. WindowContiguous'
  <2>1. currentHeight' = nodeBlocks + 1 /\ nextSchedule' = nodeBlocks + 1 /\ pc' = "fill"
    BY DEF StartRun
  <2>2. Window' = {}
    BY <1>3, <2>1 DEF Window
  <2>3. nextSchedule' - currentHeight' <= PrefetchWindow
    BY <1>3, <2>1, PipelineAssumption
  <2> QED
    BY <1>5, <2>1, <2>2, <2>3 DEF WindowContiguous
<1>9. PendingAccounted'
  <2>1. \A w \in Workers : ~Busy(w)'
    BY DEF StartRun, Busy, Idle
  <2>2. BusyHeights' = {}
    BY <2>1 DEF BusyHeights
  <2> QED
    BY <1>5, <2>1, <2>2 DEF PendingAccounted, InFlight
<1> QED BY <1>4, <1>6, <1>7, <1>8, <1>9 DEF PipelineInv

-----------------------------------------------------------------------------
(* Filling the window.                                                     *)

(* Resolving a height touches the cache of indexes only.                   *)
LEMMA ResolveInv ==
  ASSUME PipelineInv, pc \in {"fill", "walk"}, pc' \in {"walk", "send", "loop"},
         UNCHANGED <<world, interrupted, headers, currentHeight, nextSchedule, ready, pending>>,
         UNCHANGED <<channelVars, worker, outcome>>,
         stoppedScheduling' \in BOOLEAN, cachedRange' \in indexed \cup {NoRange}, missingRanges' \subseteq Int,
         Resolving', StoppedAboveHeaders'
  PROVE  PipelineInv'
<1>1. TypeOK'
  <2>1. pc' \in {"idle", "fill", "walk", "send", "loop", "confirm", "teardown", "exited"}
    OBVIOUS
  <2> QED
    BY <2>1 DEF PipelineInv, TypeOK, DownloadMap, world, nodeVars, bucketVars, channelVars
<1>2. Running /\ Running' /\ pc # "confirm" /\ pc' # "confirm"
  BY DEF Running
<1>3. InOrder' /\ NothingLeft' /\ ParentConnected'
  BY <1>2 DEF PipelineInv, InOrder, NothingLeft, ParentConnected, Running, world, nodeVars
<1>4. WindowContiguous'
  <2>1. Window' = Window
    BY <1>2 DEF Window
  <2> QED
    BY <1>2, <2>1 DEF PipelineInv, WindowContiguous, Resolving
<1>5. PendingAccounted'
  BY <1>2 DEF PipelineInv, PendingAccounted, InFlight, BusyHeights, Busy, channelVars
<1> QED BY <1>1, <1>3, <1>4, <1>5 DEF PipelineInv

(* There is room exactly while the window is smaller than PrefetchWindow.  *)
LEMMA RoomLeft ==
  ASSUME PipelineInv, pc = "fill", Room
  PROVE  ~stoppedScheduling /\ nextSchedule - currentHeight < PrefetchWindow
BY WindowSize DEF Room

LEMMA ResolveStepsInv ==
  ASSUME PipelineInv,
         WindowFull \/ HashFromCache \/ HashFromIndex \/ WalkHeaders \/ StopAtHeaders \/ HashFromHeaders
  PROVE  PipelineInv'
<1>1. /\ nextSchedule \in Nat /\ headers \in Heights
      /\ stoppedScheduling \in BOOLEAN /\ cachedRange \in indexed \cup {NoRange} /\ missingRanges \subseteq Int
  BY PipelineAssumption DEF PipelineInv, TypeOK
<1>2. RangeOf(nextSchedule) \in Int
  BY <1>1, HeightInRange
<1>3. CASE WindowFull
  <2>1. Resolving' /\ StoppedAboveHeaders'
    BY <1>3 DEF WindowFull, PipelineInv, Resolving, StoppedAboveHeaders, Running, windowVars
  <2> QED
    BY <1>1, <1>3, <2>1, ResolveInv DEF WindowFull, windowVars, cacheVars
<1>4. CASE HashFromCache \/ HashFromIndex
  <2>1. /\ pc = "fill" /\ pc' = "send" /\ Room
        /\ UNCHANGED <<world, interrupted, windowVars, channelVars, worker, outcome>>
        /\ RangeOf(nextSchedule) \in indexed
        /\ cachedRange' \in indexed \cup {NoRange}
        /\ missingRanges' = missingRanges
    BY <1>1, <1>2, <1>4, HeightInRange DEF HashFromCache, Cached, HashFromIndex, NoRange, cacheVars
  <2>2. nextSchedule \in Heights
    BY <1>1, <2>1, IndexedHeight DEF PipelineInv
  <2>3. Resolving' /\ StoppedAboveHeaders'
    BY <2>1, <2>2, RoomLeft DEF Resolving, StoppedAboveHeaders, windowVars
  <2> QED
    BY <1>1, <2>1, <2>3, ResolveInv DEF windowVars
<1>5. CASE WalkHeaders
  <2>1. nextSchedule \in Heights
    BY <1>1, <1>5, PipelineAssumption DEF WalkHeaders, Heights
  <2>2. Room /\ pc = "fill"
    BY <1>5 DEF WalkHeaders, NoIndex
  <2>3. Resolving' /\ StoppedAboveHeaders'
    BY <1>5, <2>1, <2>2, RoomLeft DEF WalkHeaders, Resolving, StoppedAboveHeaders, windowVars
  <2> QED
    BY <1>1, <1>2, <1>5, <2>3, ResolveInv DEF WalkHeaders, NoIndex, windowVars
<1>6. CASE StopAtHeaders
  <2>1. Resolving' /\ StoppedAboveHeaders'
    BY <1>6 DEF StopAtHeaders, AboveHeaders, Resolving, StoppedAboveHeaders
  <2>2. cachedRange' = cachedRange /\ missingRanges' \subseteq Int
    BY <1>1, <1>2, <1>6 DEF StopAtHeaders, AboveHeaders, NoIndex, cacheVars
  <2> QED
    BY <1>1, <1>6, <2>1, <2>2, ResolveInv DEF StopAtHeaders
<1>7. CASE HashFromHeaders
  <2>1. Resolving' /\ StoppedAboveHeaders'
    BY <1>7 DEF HashFromHeaders, PipelineInv, Resolving, StoppedAboveHeaders, windowVars
  <2> QED
    BY <1>1, <1>7, <2>1, ResolveInv DEF HashFromHeaders, windowVars, cacheVars
<1> QED BY <1>3, <1>4, <1>5, <1>6, <1>7

(* A height is sent that is in neither the window nor any channel.         *)
LEMMA SendJobInv ==
  ASSUME PipelineInv, SendJob
  PROVE  PipelineInv'
<1>1. /\ nextSchedule \in Heights /\ nextSchedule \in Int /\ currentHeight \in Int
      /\ nextSchedule - currentHeight < PrefetchWindow /\ currentHeight <= nextSchedule
      /\ pc = "send" /\ pc' = "fill" /\ ~stoppedScheduling
  BY PipelineAssumption DEF SendJob, PipelineInv, TypeOK, Resolving, InOrder, Running
<1>2. /\ pending \cup DOMAIN ready = currentHeight..(nextSchedule - 1)
      /\ pending \cap DOMAIN ready = {}
  BY <1>1 DEF PipelineInv, WindowContiguous, Window, Running
<1>3. nextSchedule \notin pending /\ nextSchedule \notin DOMAIN ready
  BY <1>1, <1>2
<1>4. TypeOK'
  <2>1. nextSchedule + 1 \in 0..(MaxHeight + 1)
    BY <1>1, PipelineAssumption DEF Heights
  <2>2. pending' \subseteq Heights /\ jobs' \subseteq Heights
    BY <1>1 DEF SendJob, PipelineInv, TypeOK
  <2> QED
    BY <2>1, <2>2
       DEF SendJob, PipelineInv, TypeOK, DownloadMap, world, nodeVars, bucketVars, cacheVars
<1>5. Resolving' /\ InOrder' /\ NothingLeft' /\ StoppedAboveHeaders'
  BY <1>1 DEF SendJob, Resolving, InOrder, NothingLeft, StoppedAboveHeaders
<1>6. ParentConnected'
  BY <1>1 DEF SendJob, PipelineInv, ParentConnected, Running, world, nodeVars
<1>7. WindowContiguous'
  <2>1. Window' = Window \cup {nextSchedule}
    BY <1>1 DEF SendJob, Window
  <2>2. Window = currentHeight..(nextSchedule - 1)
    BY <1>1 DEF Window
  <2>3. pending' \cup DOMAIN ready' = Window' /\ pending' \cap DOMAIN ready' = {}
    BY <1>2, <1>3, <2>1, <2>2 DEF SendJob
  <2>4. nextSchedule' - currentHeight' <= PrefetchWindow
    BY <1>1, PipelineAssumption DEF SendJob
  <2> QED
    BY <1>1, <2>3, <2>4 DEF WindowContiguous
<1>8. PendingAccounted'
  <2>1. /\ jobs \cup BusyHeights \cup DOMAIN results \subseteq pending
        /\ ~interrupted => pending \subseteq jobs \cup BusyHeights \cup DOMAIN results
        /\ jobs \cap BusyHeights = {}
        /\ jobs \cap DOMAIN results = {}
        /\ BusyHeights \cap DOMAIN results = {}
        /\ \A v, w \in Workers : Busy(v) /\ Busy(w) /\ worker[v].height = worker[w].height => v = w
    BY <1>1 DEF PipelineInv, PendingAccounted, InFlight, Running
  <2>2. worker' = worker /\ results' = results
    BY DEF SendJob
  <2>3. BusyHeights' = BusyHeights /\ \A w \in Workers : Busy(w)' = Busy(w)
    BY <2>2 DEF BusyHeights, Busy
  <2>4. jobs' = jobs \cup {nextSchedule} /\ pending' = pending \cup {nextSchedule}
    BY DEF SendJob
  <2> QED
    BY <1>3, <2>1, <2>2, <2>3, <2>4 DEF PendingAccounted, InFlight, SendJob
<1> QED BY <1>4, <1>5, <1>6, <1>7, <1>8 DEF PipelineInv

-----------------------------------------------------------------------------
(* The workers hand heights on: from the jobs to a worker to the results.  *)

(* What a worker's step leaves alone.                                      *)
LEMMA WorkerFrame ==
  ASSUME PipelineInv, TypeOK', PendingAccounted',
         UNCHANGED <<world, interrupted, pc, windowVars, cacheVars, outcome>>,
         pc \notin {"idle", "exited"}
  PROVE  PipelineInv'
<1>1. Resolving' /\ InOrder' /\ StoppedAboveHeaders' /\ WindowContiguous' /\ ParentConnected'
  BY DEF PipelineInv, Resolving, InOrder, StoppedAboveHeaders, WindowContiguous, ParentConnected,
         Window, Running, world, nodeVars, windowVars
<1>2. NothingLeft'
  BY DEF NothingLeft
<1> QED BY <1>1, <1>2 DEF PipelineInv

(* A worker's state and what it holds.                                     *)
LEMMA WorkerType ==
  ASSUME TypeOK, NEW w \in Workers
  PROVE  /\ worker[w].at \in {"idle", "exited", "downloading", "sending"}
         /\ Busy(w) => worker[w].height \in Heights
         /\ worker[w].at = "sending" => worker[w].raw \in {"good", "error"}
         /\ worker[w] = Idle <=> worker[w].at = "idle"
<1>1. worker[w] \in WorkerStates
  BY DEF TypeOK
<1>2. CASE worker[w] = Idle \/ worker[w] = Exited
  BY <1>2 DEF Idle, Exited, Busy
<1>3. ASSUME NEW h \in Heights, worker[w] = Downloading(h)
      PROVE  /\ worker[w].at = "downloading" /\ worker[w].height \in Heights
             /\ worker[w] # Idle
  BY <1>3 DEF Downloading, Idle
<1>4. ASSUME NEW h \in Heights, NEW raw \in {"good", "error"}, worker[w] = Sending(h, raw)
      PROVE  /\ worker[w].at = "sending" /\ worker[w].height \in Heights
             /\ worker[w].raw \in {"good", "error"}
             /\ worker[w] # Idle
  BY <1>4 DEF Sending, Idle
<1> QED
  BY <1>1, <1>2, <1>3, <1>4 DEF WorkerStates, Busy, Idle

LEMMA TakeInv ==
  ASSUME PipelineInv, NEW w \in Workers, Take(w)
  PROVE  PipelineInv'
<1>1. PICK h \in jobs : jobs' = jobs \ {h} /\ worker' = [worker EXCEPT ![w] = Downloading(h)]
  BY DEF Take
<1>2. h \in Heights /\ worker \in [Workers -> WorkerStates] /\ worker[w] = Idle
  BY DEF Take, PipelineInv, TypeOK
<1>3. UNCHANGED <<world, interrupted, pc, windowVars, cacheVars, results, outcome>>
  BY DEF Take
<1>4. TypeOK'
  <2>1. worker' \in [Workers -> WorkerStates]
    BY <1>1, <1>2 DEF WorkerStates
  <2> QED
    BY <1>1, <1>3, <2>1
       DEF PipelineInv, TypeOK, DownloadMap, world, nodeVars, bucketVars, windowVars, cacheVars
<1>5. PendingAccounted'
  <2> SUFFICES ASSUME Running
               PROVE  PendingAccounted'
    BY <1>3 DEF PendingAccounted, Running
  <2>1. /\ jobs \cup BusyHeights \cup DOMAIN results \subseteq pending
        /\ ~interrupted => pending \subseteq jobs \cup BusyHeights \cup DOMAIN results
        /\ jobs \cap BusyHeights = {}
        /\ jobs \cap DOMAIN results = {}
        /\ BusyHeights \cap DOMAIN results = {}
        /\ \A u, v \in Workers : Busy(u) /\ Busy(v) /\ worker[u].height = worker[v].height => u = v
    BY DEF PipelineInv, PendingAccounted, InFlight
  <2>2. ~Busy(w) /\ Busy(w)' /\ worker'[w].height = h
    BY <1>1, <1>2 DEF Busy, Idle, Downloading
  <2>3. \A v \in Workers \ {w} : (Busy(v)' <=> Busy(v)) /\ worker'[v].height = worker[v].height
    BY <1>1, <1>2 DEF Busy
  <2>4. BusyHeights' = BusyHeights \cup {h}
    BY <2>2, <2>3 DEF BusyHeights
  <2>5. \A v \in Workers : Busy(v) => worker[v].height \in BusyHeights
    BY DEF BusyHeights
  <2>6. \A u, v \in Workers : Busy(u)' /\ Busy(v)' /\ worker'[u].height = worker'[v].height => u = v
    BY <1>1, <2>1, <2>2, <2>3, <2>5
  <2>7. results' = results /\ pending' = pending
    BY <1>3 DEF windowVars
  <2> QED
    BY <1>1, <1>3, <2>1, <2>4, <2>6, <2>7 DEF PendingAccounted, InFlight
<1>6. pc \notin {"idle", "exited"}
  BY <1>1 DEF PipelineInv, NothingLeft
<1> QED
  BY <1>3, <1>4, <1>5, <1>6, WorkerFrame

LEMMA DownloadEndsInv ==
  ASSUME PipelineInv, NEW w \in Workers, NEW raw \in {"good", "error"}, DownloadEnds(w, raw)
  PROVE  PipelineInv'
<1> DEFINE h == worker[w].height
<1>1. UNCHANGED <<world, interrupted, pc, windowVars, cacheVars, jobs, results, outcome>>
  BY DEF DownloadEnds, channelVars
<1>2. /\ worker \in [Workers -> WorkerStates] /\ worker[w].at = "downloading"
      /\ Busy(w) /\ worker[w].height \in Heights
  BY WorkerType DEF DownloadEnds, PipelineInv, TypeOK, Busy
<1>3. worker' = [worker EXCEPT ![w] = Sending(worker[w].height, raw)]
  BY DEF DownloadEnds
<1>4. TypeOK'
  <2>1. worker' \in [Workers -> WorkerStates]
    BY <1>2, <1>3 DEF WorkerStates
  <2> QED
    BY <1>1, <2>1
       DEF PipelineInv, TypeOK, DownloadMap, world, nodeVars, bucketVars, windowVars, cacheVars
<1>5. PendingAccounted'
  <2>1. \A v \in Workers : (Busy(v)' <=> Busy(v)) /\ worker'[v].height = worker[v].height
    BY <1>2, <1>3 DEF Busy, Sending
  <2>2. BusyHeights' = BusyHeights
    BY <2>1 DEF BusyHeights
  <2> QED
    BY <1>1, <2>1, <2>2 DEF PipelineInv, PendingAccounted, InFlight, Running, windowVars
<1>6. pc \notin {"idle", "exited"}
  BY <1>2 DEF PipelineInv, NothingLeft, Exited
<1> QED
  BY <1>1, <1>4, <1>5, <1>6, WorkerFrame

LEMMA DeliverInv ==
  ASSUME PipelineInv, NEW w \in Workers, Deliver(w)
  PROVE  PipelineInv'
<1>1. UNCHANGED <<world, interrupted, pc, windowVars, cacheVars, jobs, outcome>>
  BY DEF Deliver
<1>2. /\ worker \in [Workers -> WorkerStates] /\ Busy(w)
      /\ worker[w].height \in Heights /\ worker[w].raw \in {"good", "error"}
  BY WorkerType DEF Deliver, PipelineInv, TypeOK, Busy
<1>3. worker' = [worker EXCEPT ![w] = Idle]
  BY DEF Deliver
<1>4. DownloadMap(results') /\ DOMAIN results' = DOMAIN results \cup {worker[w].height}
  <2>1. results' = Put(results, worker[w].height, worker[w].raw)
    BY DEF Deliver
  <2>2. DownloadMap(results)
    BY DEF PipelineInv, TypeOK
  <2> QED
    BY <1>2, <2>1, <2>2, PutType
<1>5. TypeOK'
  <2>1. worker' \in [Workers -> WorkerStates]
    BY <1>2, <1>3 DEF WorkerStates
  <2> QED
    BY <1>1, <1>4, <2>1
       DEF PipelineInv, TypeOK, DownloadMap, world, nodeVars, bucketVars, windowVars, cacheVars
<1>6. PendingAccounted'
  <2> SUFFICES ASSUME Running
               PROVE  PendingAccounted'
    BY <1>1 DEF PendingAccounted, Running
  <2>1. /\ jobs \cup BusyHeights \cup DOMAIN results \subseteq pending
        /\ ~interrupted => pending \subseteq jobs \cup BusyHeights \cup DOMAIN results
        /\ jobs \cap BusyHeights = {}
        /\ jobs \cap DOMAIN results = {}
        /\ BusyHeights \cap DOMAIN results = {}
        /\ \A u, v \in Workers : Busy(u) /\ Busy(v) /\ worker[u].height = worker[v].height => u = v
    BY DEF PipelineInv, PendingAccounted, InFlight
  <2>2. ~Busy(w)'
    BY <1>2, <1>3 DEF Busy, Idle
  <2>3. \A v \in Workers \ {w} : (Busy(v)' <=> Busy(v)) /\ worker'[v].height = worker[v].height
    BY <1>2, <1>3 DEF Busy
  <2>4. BusyHeights' = BusyHeights \ {worker[w].height} /\ worker[w].height \in BusyHeights
    BY <1>2, <2>1, <2>2, <2>3 DEF BusyHeights
  <2>5. \A u, v \in Workers : Busy(u)' /\ Busy(v)' /\ worker'[u].height = worker'[v].height => u = v
    BY <2>1, <2>2, <2>3
  <2>6. jobs' = jobs /\ pending' = pending
    BY <1>1 DEF windowVars
  <2> QED
    BY <1>1, <1>4, <2>1, <2>4, <2>5, <2>6 DEF PendingAccounted, InFlight
<1>7. pc \notin {"idle", "exited"}
  BY <1>2 DEF PipelineInv, NothingLeft, Busy, Exited
<1> QED
  BY <1>1, <1>5, <1>6, <1>7, WorkerFrame

LEMMA WorkerExitInv ==
  ASSUME PipelineInv, NEW w \in Workers, WorkerExit(w)
  PROVE  PipelineInv'
<1>1. UNCHANGED <<world, interrupted, pc, windowVars, cacheVars, jobs, results, outcome>>
  BY DEF WorkerExit, channelVars
<1>2. worker' \in [Workers -> WorkerStates]
  BY DEF WorkerExit, PipelineInv, TypeOK, WorkerStates
<1>3. TypeOK'
  BY <1>1, <1>2
     DEF PipelineInv, TypeOK, DownloadMap, world, nodeVars, bucketVars, windowVars, cacheVars
<1>4. PendingAccounted'
  <2> SUFFICES ASSUME Running
               PROVE  PendingAccounted'
    BY <1>1 DEF PendingAccounted, Running
  <2>1. interrupted /\ interrupted' = interrupted
    BY <1>1 DEF WorkerExit, Cancelled, Running
  <2>2. /\ jobs \cup BusyHeights \cup DOMAIN results \subseteq pending
        /\ jobs \cap BusyHeights = {}
        /\ jobs \cap DOMAIN results = {}
        /\ BusyHeights \cap DOMAIN results = {}
        /\ \A u, v \in Workers : Busy(u) /\ Busy(v) /\ worker[u].height = worker[v].height => u = v
    BY DEF PipelineInv, PendingAccounted, InFlight
  <2>3. \A v \in Workers : Busy(v)' => Busy(v) /\ worker'[v].height = worker[v].height
    BY DEF WorkerExit, PipelineInv, TypeOK, Busy, Exited
  <2>4. BusyHeights' \subseteq BusyHeights
    BY <2>3 DEF BusyHeights
  <2> QED
    BY <1>1, <2>1, <2>2, <2>3, <2>4 DEF PendingAccounted, InFlight, windowVars
<1>5. pc \notin {"idle", "exited"}
  BY DEF WorkerExit, PipelineInv, NothingLeft, Exited
<1> QED
  BY <1>1, <1>3, <1>4, <1>5, WorkerFrame

-----------------------------------------------------------------------------
(* Submitting and receiving.                                               *)

(* The window while the loop looks at it.                                  *)
LEMMA LoopWindow ==
  ASSUME PipelineInv, pc = "loop"
  PROVE  /\ currentHeight \in 0..(MaxHeight + 1) /\ nextSchedule \in 0..(MaxHeight + 1)
         /\ currentHeight <= nextSchedule /\ nextSchedule - currentHeight <= PrefetchWindow
         /\ pending \cup DOMAIN ready = currentHeight..(nextSchedule - 1)
         /\ pending \cap DOMAIN ready = {}
         /\ currentHeight <= nodeBlocks + 1
BY DEF PipelineInv, TypeOK, InOrder, WindowContiguous, Window, ParentConnected, Running

(* The node's blocks and headers only grow, whatever becomes of a submit.  *)
LEMMA NodeGrows ==
  ASSUME TypeOK, NEW h \in Heights, NodeConnects(h) \/ UNCHANGED nodeVars
  PROVE  /\ nodeBlocks' \in Heights /\ nodeHeaders' \in Heights
         /\ nodeBlocks' <= nodeHeaders' /\ nodeBlocks <= nodeBlocks'
         /\ NodeConnects(h) => h <= nodeBlocks'
BY PipelineAssumption DEF TypeOK, Heights, NodeConnects, nodeVars

(* What leaves the channels and the workers alone accounts for pending.    *)
LEMMA AccountedFrame ==
  ASSUME PipelineInv, Running, UNCHANGED <<interrupted, pending, channelVars, worker>>
  PROVE  PendingAccounted'
BY DEF PipelineInv, PendingAccounted, InFlight, BusyHeights, Busy, channelVars

LEMMA SubmitBlockInv ==
  ASSUME PipelineInv, SubmitBlock
  PROVE  PipelineInv'
<1>1. /\ pc = "loop" /\ pc' = "fill" /\ currentHeight' = currentHeight + 1
      /\ currentHeight \in DOMAIN ready /\ ready' = Delete(ready, currentHeight)
      /\ NodeConnects(currentHeight)
      /\ UNCHANGED <<bucketVars, interrupted, headers, nextSchedule, pending, stoppedScheduling>>
      /\ UNCHANGED <<cacheVars, channelVars, worker, outcome>>
  BY DEF SubmitBlock, ReadyToSubmit, Accepted
<1>2. /\ DownloadMap(ready') /\ DOMAIN ready' = DOMAIN ready \ {currentHeight}
      /\ currentHeight \in Heights
  BY <1>1, DeleteType DEF PipelineInv, TypeOK, DownloadMap
<1>3. /\ nodeBlocks' \in Heights /\ nodeHeaders' \in Heights
      /\ nodeBlocks' <= nodeHeaders' /\ currentHeight <= nodeBlocks'
  BY <1>1, <1>2, NodeGrows DEF PipelineInv
<1>4. /\ currentHeight \in Int /\ nextSchedule \in Int /\ nodeBlocks' \in Int
      /\ currentHeight < nextSchedule /\ currentHeight + 1 \in 0..(MaxHeight + 1)
  BY <1>1, <1>2, <1>3, LoopWindow, PipelineAssumption DEF Heights
<1>5. TypeOK'
  BY <1>1, <1>2, <1>3, <1>4 DEF PipelineInv, TypeOK, DownloadMap, bucketVars, cacheVars, channelVars
<1>6. Resolving' /\ NothingLeft' /\ InOrder'
  BY <1>1, <1>4 DEF Resolving, NothingLeft, InOrder
<1>7. StoppedAboveHeaders'
  BY <1>1 DEF PipelineInv, StoppedAboveHeaders, Running
<1>8. ParentConnected'
  BY <1>1, <1>3, <1>4 DEF ParentConnected
<1>9. WindowContiguous'
  <2>1. Window' = (currentHeight + 1)..(nextSchedule - 1)
    BY <1>1 DEF Window
  <2>2. pending' \cup DOMAIN ready' = Window' /\ pending' \cap DOMAIN ready' = {}
    BY <1>1, <1>2, <1>4, <2>1, LoopWindow
  <2>3. nextSchedule' - currentHeight' <= PrefetchWindow
    BY <1>1, <1>4, LoopWindow, PipelineAssumption
  <2> QED
    BY <1>1, <2>2, <2>3 DEF WindowContiguous
<1>10. PendingAccounted'
  BY <1>1, AccountedFrame DEF Running
<1> QED BY <1>5, <1>6, <1>7, <1>8, <1>9, <1>10 DEF PipelineInv

LEMMA SubmitUnansweredInv ==
  ASSUME PipelineInv, SubmitUnanswered
  PROVE  PipelineInv'
<1>1. /\ pc = "loop" /\ pc' = "confirm"
      /\ currentHeight \in DOMAIN ready /\ ready' = Delete(ready, currentHeight)
      /\ NodeConnects(currentHeight) \/ UNCHANGED nodeVars
      /\ UNCHANGED <<bucketVars, interrupted, headers, currentHeight, nextSchedule, pending>>
      /\ UNCHANGED <<stoppedScheduling, cacheVars, channelVars, worker, outcome>>
  BY DEF SubmitUnanswered, ReadyToSubmit
<1>2. /\ DownloadMap(ready') /\ DOMAIN ready' = DOMAIN ready \ {currentHeight}
      /\ currentHeight \in Heights
  BY <1>1, DeleteType DEF PipelineInv, TypeOK, DownloadMap
<1>3. /\ nodeBlocks' \in Heights /\ nodeHeaders' \in Heights
      /\ nodeBlocks' <= nodeHeaders' /\ nodeBlocks <= nodeBlocks'
  BY <1>1, <1>2, NodeGrows DEF PipelineInv
<1>4. /\ currentHeight \in Int /\ nextSchedule \in Int /\ nodeBlocks \in Int /\ nodeBlocks' \in Int
      /\ currentHeight < nextSchedule
  BY <1>1, <1>2, <1>3, LoopWindow, PipelineAssumption DEF Heights, PipelineInv, TypeOK
<1>5. TypeOK'
  BY <1>1, <1>2, <1>3, <1>4 DEF PipelineInv, TypeOK, DownloadMap, bucketVars, cacheVars, channelVars
<1>6. Resolving' /\ NothingLeft' /\ InOrder'
  BY <1>1, <1>4 DEF Resolving, NothingLeft, InOrder
<1>7. StoppedAboveHeaders'
  BY <1>1 DEF PipelineInv, StoppedAboveHeaders, Running
<1>8. ParentConnected'
  <2>1. \A h, b, c \in Int : h <= b + 1 /\ b <= c => h <= c + 1
    OBVIOUS
  <2> QED
    BY <1>1, <1>3, <1>4, <2>1, LoopWindow DEF ParentConnected
<1>9. WindowContiguous'
  <2>1. Window' = (currentHeight + 1)..(nextSchedule - 1)
    BY <1>1 DEF Window
  <2>2. pending' \cup DOMAIN ready' = Window' /\ pending' \cap DOMAIN ready' = {}
    BY <1>1, <1>2, <1>4, <2>1, LoopWindow
  <2> QED
    BY <1>1, <2>2, LoopWindow DEF WindowContiguous
<1>10. PendingAccounted'
  BY <1>1, AccountedFrame DEF Running
<1> QED BY <1>5, <1>6, <1>7, <1>8, <1>9, <1>10 DEF PipelineInv

LEMMA HeightAcceptedInv ==
  ASSUME PipelineInv, HeightAccepted
  PROVE  PipelineInv'
<1>1. /\ pc = "confirm" /\ pc' = "fill" /\ currentHeight' = currentHeight + 1
      /\ currentHeight <= nodeBlocks
      /\ UNCHANGED <<world, interrupted, headers, nextSchedule, ready, pending>>
      /\ UNCHANGED <<stoppedScheduling, cacheVars, channelVars, worker, outcome>>
  BY PipelineAssumption DEF HeightAccepted, SubmittedHeightAccepted, Accepted, PipelineInv,
    TypeOK, Heights
<1>2. /\ currentHeight \in Int /\ nextSchedule \in Int /\ nodeBlocks \in Int
      /\ currentHeight + 1 \in 0..(MaxHeight + 1)
      /\ currentHeight < nextSchedule /\ nextSchedule - currentHeight <= PrefetchWindow
  BY <1>1, PipelineAssumption
     DEF PipelineInv, TypeOK, Heights, InOrder, WindowContiguous, Running
<1>3. TypeOK'
  BY <1>1, <1>2
     DEF PipelineInv, TypeOK, DownloadMap, world, nodeVars, bucketVars, cacheVars, channelVars
<1>4. Resolving' /\ NothingLeft' /\ InOrder'
  BY <1>1, <1>2 DEF Resolving, NothingLeft, InOrder
<1>5. StoppedAboveHeaders'
  BY <1>1 DEF PipelineInv, StoppedAboveHeaders, Running
<1>6. ParentConnected'
  BY <1>1, <1>2 DEF ParentConnected, world, nodeVars
<1>7. WindowContiguous'
  <2>1. Window = (currentHeight + 1)..(nextSchedule - 1) /\ Window' = Window
    BY <1>1 DEF Window
  <2>2. nextSchedule' - currentHeight' <= PrefetchWindow
    BY <1>1, <1>2, PipelineAssumption
  <2> QED
    BY <1>1, <2>1, <2>2 DEF PipelineInv, WindowContiguous, Running
<1>8. PendingAccounted'
  BY <1>1, AccountedFrame DEF Running
<1> QED BY <1>3, <1>4, <1>5, <1>6, <1>7, <1>8 DEF PipelineInv

LEMMA ReceiveResultInv ==
  ASSUME PipelineInv, ReceiveResult
  PROVE  PipelineInv'
<1>1. PICK h \in DOMAIN results : /\ results' = Delete(results, h)
                                  /\ ready' = Put(ready, h, results[h])
                                  /\ pending' = pending \ {h}
  BY DEF ReceiveResult, NotPending
<1>2. /\ pc = "loop" /\ pc' = "loop"
      /\ UNCHANGED <<world, interrupted, headers, currentHeight, nextSchedule>>
      /\ UNCHANGED <<stoppedScheduling, cacheVars, jobs, worker, outcome>>
  BY DEF ReceiveResult, NotPending, Receiving
<1>3. DownloadMap(results) /\ DownloadMap(ready)
  BY DEF PipelineInv, TypeOK
<1>4. h \in Heights /\ results[h] \in {"good", "error"}
  BY <1>1, <1>3 DEF DownloadMap
<1>5. /\ DownloadMap(results') /\ DOMAIN results' = DOMAIN results \ {h}
      /\ DownloadMap(ready') /\ DOMAIN ready' = DOMAIN ready \cup {h}
  BY <1>1, <1>3, <1>4, PutType, DeleteType
<1>6. TypeOK'
  <2>1. pending' \subseteq Heights
    BY <1>1 DEF PipelineInv, TypeOK
  <2> QED
    BY <1>2, <1>5, <2>1
       DEF PipelineInv, TypeOK, DownloadMap, world, nodeVars, bucketVars, cacheVars
<1>7. Resolving' /\ NothingLeft' /\ InOrder'
  BY <1>2 DEF PipelineInv, Resolving, NothingLeft, InOrder, Running
<1>8. StoppedAboveHeaders' /\ ParentConnected'
  BY <1>2 DEF PipelineInv, StoppedAboveHeaders, ParentConnected, Running, world, nodeVars
<1>9. /\ InFlight \subseteq pending
      /\ ~interrupted => pending \subseteq InFlight
      /\ jobs \cap BusyHeights = {}
      /\ jobs \cap DOMAIN results = {}
      /\ BusyHeights \cap DOMAIN results = {}
      /\ \A u, v \in Workers : Busy(u) /\ Busy(v) /\ worker[u].height = worker[v].height => u = v
  BY <1>2 DEF PipelineInv, PendingAccounted, Running
<1>10. WindowContiguous'
  <2>1. h \in pending
    BY <1>1, <1>9 DEF InFlight
  <2>2. Window' = Window
    BY <1>2 DEF Window
  <2>3. pending \cup DOMAIN ready = Window /\ pending \cap DOMAIN ready = {}
    BY <1>2 DEF PipelineInv, WindowContiguous, Running
  <2>4. pending' \cup DOMAIN ready' = Window' /\ pending' \cap DOMAIN ready' = {}
    BY <1>1, <1>5, <2>1, <2>2, <2>3
  <2>5. nextSchedule' - currentHeight' <= PrefetchWindow
    BY <1>2 DEF PipelineInv, WindowContiguous, Running
  <2> QED
    BY <1>2, <2>4, <2>5 DEF WindowContiguous
<1>11. PendingAccounted'
  <2>1. BusyHeights' = BusyHeights /\ \A w \in Workers : Busy(w)' = Busy(w)
    BY <1>2 DEF BusyHeights, Busy
  <2>2. worker' = worker /\ jobs' = jobs /\ interrupted' = interrupted
    BY <1>2
  <2>3. /\ InFlight' \subseteq pending'
        /\ ~interrupted => pending' \subseteq InFlight'
    BY <1>1, <1>5, <1>9, <2>1, <2>2 DEF InFlight
  <2>4. jobs' \cap DOMAIN results' = {} /\ BusyHeights' \cap DOMAIN results' = {}
    BY <1>5, <1>9, <2>1, <2>2
  <2> QED
    BY <1>9, <2>1, <2>2, <2>3, <2>4 DEF PendingAccounted
<1> QED BY <1>6, <1>7, <1>8, <1>10, <1>11 DEF PipelineInv

-----------------------------------------------------------------------------
(* The theorems.                                                           *)

LEMMA NextInv == PipelineInv /\ [Next]_vars => PipelineInv'
<1> SUFFICES ASSUME PipelineInv, [Next]_vars
             PROVE  PipelineInv'
  OBVIOUS
<1>1. CASE World
  BY <1>1, WorldInv
<1>2. CASE StopBetweenRuns \/ StartFails \/ Launch \/ TeardownDone \/ Kill
  BY <1>2, ProcessInv
<1>3. CASE Interrupt
  BY <1>3, InterruptInv
<1>4. CASE StartRun
  BY <1>4, StartRunInv
<1>5. CASE WindowFull \/ HashFromCache \/ HashFromIndex \/ WalkHeaders \/ StopAtHeaders \/ HashFromHeaders
  BY <1>5, ResolveStepsInv
<1>6. CASE SendJob
  BY <1>6, SendJobInv
<1>7. CASE WalkFails \/ HeightNotAccepted \/ DownloadError \/ WaitForHeaders \/ ContextDone \/ CallFails
  BY <1>7, GivenUpInv
<1>8. CASE SubmitBlock
  BY <1>8, SubmitBlockInv
<1>9. CASE SubmitUnanswered
  BY <1>9, SubmitUnansweredInv
<1>10. CASE HeightAccepted
  BY <1>10, HeightAcceptedInv
<1>11. CASE ReceiveResult
  BY <1>11, ReceiveResultInv
<1>12. ASSUME NEW w \in Workers, WorkerStep(w) \/ DownloadFails(w)
       PROVE  PipelineInv'
  <2>1. CASE Download(w) \/ DownloadFails(w)
    <3>1. \E raw \in {"good", "error"} : DownloadEnds(w, raw)
      BY <2>1 DEF Download, DownloadFails
    <3> QED BY <3>1, DownloadEndsInv
  <2> QED
    BY <1>12, <2>1, TakeInv, DeliverInv, WorkerExitInv DEF WorkerStep
<1>13. CASE UNCHANGED vars
  <2>1. UNCHANGED <<world, interrupted, runVars>>
    BY <1>13 DEF vars
  <2>2. TypeOK'
    BY <2>1
       DEF PipelineInv, TypeOK, DownloadMap, world, nodeVars, bucketVars, runVars, windowVars, cacheVars, channelVars
  <2>3. Resolving' /\ InOrder' /\ NothingLeft' /\ StoppedAboveHeaders' /\ WindowContiguous' /\ ParentConnected'
    BY <2>1
       DEF PipelineInv, Resolving, InOrder, NothingLeft, StoppedAboveHeaders, WindowContiguous, ParentConnected,
           Window, Running, world, nodeVars, runVars, windowVars, channelVars
  <2>4. PendingAccounted'
    BY <2>1
       DEF PipelineInv, PendingAccounted, InFlight, BusyHeights, Busy, Running, runVars, windowVars, channelVars
  <2> QED BY <2>2, <2>3, <2>4 DEF PipelineInv
<1> QED
  BY <1>1, <1>2, <1>3, <1>4, <1>5, <1>6, <1>7, <1>8, <1>9, <1>10, <1>11, <1>12, <1>13
     DEF Next, Workings, MainStep, FillWindow, Loop, Failures

(* The inductive invariant of the pipeline holds in every run of runs,     *)
(* whatever fails, is cancelled or is killed.                              *)
THEOREM PipelineInvariant == Spec => []PipelineInv
<1>1. Init => PipelineInv
  BY InitInv
<1>2. PipelineInv /\ [Next]_vars => PipelineInv'
  BY NextInv
<1> QED BY <1>1, <1>2, PTL DEF Spec

(* The state of the pipeline keeps its type.                               *)
THEOREM PipelineTypeCorrect == Spec => []TypeOK
<1>1. PipelineInv => TypeOK
  BY DEF PipelineInv
<1> QED BY <1>1, PipelineInvariant, PTL

(* The heights in flight are contiguous, none skipped and none twice.      *)
THEOREM WindowStaysContiguous == Spec => []WindowContiguous
<1>1. PipelineInv => WindowContiguous
  BY DEF PipelineInv
<1> QED BY <1>1, PipelineInvariant, PTL

(* Every pending height is in exactly one place.                           *)
THEOREM PendingIsAccounted == Spec => []PendingAccounted
<1>1. PipelineInv => PendingAccounted
  BY DEF PipelineInv
<1> QED BY <1>1, PipelineInvariant, PTL

(* No block is submitted before its parent is connected.                   *)
THEOREM ParentsConnected == Spec => []ParentConnected
<1>1. PipelineInv => ParentConnected
  BY DEF PipelineInv
<1> QED BY <1>1, PipelineInvariant, PTL

(* No operation on a channel waits for room in its buffer.                 *)
THEOREM SendsNeverBlock == Spec => []ChannelsHaveRoom
<1>1. PipelineInv => ChannelsHaveRoom
  <2> SUFFICES ASSUME PipelineInv, Running
               PROVE  /\ pc = "send" => Cardinality(jobs) < PrefetchWindow
                      /\ BusyHeights # {} => Cardinality(DOMAIN results) < PrefetchWindow
    BY DEF ChannelsHaveRoom
  <2> DEFINE span == currentHeight..(nextSchedule - 1)
             size == nextSchedule - currentHeight
  <2>1. /\ currentHeight \in Int /\ nextSchedule \in Int /\ nextSchedule - 1 \in Int
        /\ currentHeight <= nextSchedule /\ size <= PrefetchWindow
        /\ pc = "send" => size < PrefetchWindow
    BY PipelineAssumption DEF PipelineInv, TypeOK, InOrder, WindowContiguous
  <2>2. IsFiniteSet(span) /\ Cardinality(span) = size
    <3> DEFINE last == nextSchedule - 1
    <3>1. last \in Int
      BY <2>1
    <3>2. /\ IsFiniteSet(currentHeight..last)
          /\ Cardinality(currentHeight..last) = IF currentHeight > last THEN 0 ELSE last - currentHeight + 1
      BY <2>1, <3>1, FS_Interval
    <3> QED BY <2>1, <3>2
  <2>3. pending \subseteq span
    <3>1. Window \subseteq span
      BY <2>1 DEF Window
    <3> QED
      BY <3>1 DEF PipelineInv, WindowContiguous
  <2>4. /\ jobs \subseteq span /\ DOMAIN results \subseteq span
        /\ BusyHeights \subseteq span /\ BusyHeights \cap DOMAIN results = {}
    BY <2>3 DEF PipelineInv, PendingAccounted, InFlight
  <2> HIDE DEF span, size
  <2>5. Cardinality(jobs) <= size /\ Cardinality(jobs) \in Nat
    BY <2>2, <2>4, FS_Subset, FS_CardinalityType
  <2>6. Cardinality(DOMAIN results) <= size /\ Cardinality(DOMAIN results) \in Nat
    BY <2>2, <2>4, FS_Subset, FS_CardinalityType
  <2>7. BusyHeights # {} => Cardinality(DOMAIN results) # size
    <3>1. BusyHeights # {} => DOMAIN results # span
      BY <2>4
    <3> QED BY <2>2, <2>4, <3>1, FS_Subset
  <2>8. size \in Int
    BY <2>1 DEF size
  <2> QED
    BY <2>1, <2>5, <2>6, <2>7, <2>8, PipelineAssumption
<1> QED BY <1>1, PipelineInvariant, PTL

(* A run that says it waits for headers has nothing left to submit, and    *)
(* its next height really is above the headers it started with.            *)
THEOREM WaitingIsDrained == Spec => WaitsDrained
<1> DEFINE A == outcome' = "wait" /\ outcome # "wait" =>
                  /\ pending = {} /\ DOMAIN ready = {}
                  /\ currentHeight = nextSchedule
                  /\ currentHeight > headers
<1>1. PipelineInv /\ [Next]_vars => [A]_vars
  <2> SUFFICES ASSUME PipelineInv, [Next]_vars, outcome' = "wait", outcome # "wait"
               PROVE  /\ pending = {} /\ DOMAIN ready = {}
                      /\ currentHeight = nextSchedule
                      /\ currentHeight > headers
    OBVIOUS
  <2>1. WaitForHeaders
    <3>1. ~(UNCHANGED vars)
      BY DEF vars, runVars
    <3>2. ~World
      BY DEF World, HearHeader, HearBlock, ArchiveBlock, IndexRange, runVars
    <3>3. ~(StartRun \/ StopBetweenRuns \/ TeardownDone \/ StartFails \/ Launch \/ Kill)
      BY DEF StartRun, StopBetweenRuns, TeardownDone, StartFails, Launch, Kill
    <3>4. ~Interrupt
      BY DEF Interrupt, runVars
    <3>5. ~FillWindow
      BY DEF FillWindow, WindowFull, HashFromCache, HashFromIndex, WalkHeaders, StopAtHeaders,
             HashFromHeaders, WalkFails, SendJob, Return
    <3>6. ~(SubmitBlock \/ HeightAccepted \/ HeightNotAccepted \/ DownloadError \/ ReceiveResult \/ ContextDone)
      BY DEF SubmitBlock, HeightAccepted, HeightNotAccepted, DownloadError, ReceiveResult, ContextDone, Return
    <3>7. ~(CallFails \/ SubmitUnanswered)
      BY DEF CallFails, SubmitUnanswered, Return
    <3>8. \A w \in Workers : ~WorkerStep(w) /\ ~DownloadFails(w)
      BY DEF WorkerStep, Take, Download, DownloadFails, DownloadEnds, Deliver, WorkerExit
    <3> QED
      BY <3>1, <3>2, <3>3, <3>4, <3>5, <3>6, <3>7, <3>8 DEF Next, Workings, MainStep, Loop, Failures
  <2>2. /\ pc = "loop" /\ stoppedScheduling
        /\ currentHeight \notin DOMAIN ready /\ currentHeight \notin pending
    BY <2>1 DEF WaitForHeaders, Drained
  <2>3. currentHeight = nextSchedule
    <3>1. currentHeight \in Int /\ nextSchedule \in Int /\ currentHeight <= nextSchedule
      BY <2>2, LoopWindow, PipelineAssumption
    <3>2. currentHeight \notin currentHeight..(nextSchedule - 1)
      BY <2>2, LoopWindow
    <3> QED BY <3>1, <3>2
  <2>4. currentHeight \in Int /\ currentHeight..(nextSchedule - 1) = {}
    BY <2>2, <2>3, LoopWindow, PipelineAssumption
  <2>5. pending = {} /\ DOMAIN ready = {}
    BY <2>2, <2>4, LoopWindow
  <2>6. nextSchedule > headers
    BY <2>2 DEF PipelineInv, StoppedAboveHeaders, Running
  <2> QED BY <2>3, <2>5, <2>6
<1>2. [][A]_vars => WaitsDrained
  BY PTL DEF WaitsDrained
<1> QED
  BY <1>1, <1>2, PipelineInvariant, PTL DEF Spec
=============================================================================
