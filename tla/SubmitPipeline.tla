---------------------------- MODULE SubmitPipeline ---------------------------
(***************************************************************************)
(* The user side in follow mode: submitPipeline of sync.go, run again and  *)
(* again by the loop of runSubmit.  One goroutine resolves the hashes of   *)
(* the next heights, keeps at most PrefetchWindow of them in flight, and   *)
(* submits the verified blocks to the local node in height order.  The     *)
(* Workers download and verify.  They talk over two buffered channels.     *)
(*                                                                         *)
(* Heights enter the jobs channel in increasing order, so a channel of     *)
(* jobs is the set of its heights and a receive takes the lowest.  Results *)
(* are put in a map by height, so the order they are received in is left   *)
(* open.  The chain is one chain: a height stands for its hash.            *)
(*                                                                         *)
(* A step is one call to the node or to R2, or one channel operation, with *)
(* the code up to the next one.  runSubmit returns the first error, so the *)
(* process exits; docker-compose starts it again.                          *)
(***************************************************************************)
EXTENDS RangeIndex, FiniteSets, Functions

CONSTANTS
  Workers,          \* download goroutines (DownloadWorkers of them)
  PrefetchWindow,   \* heights resolved but not yet submitted, at most
  RecentWalkLimit,  \* headers walked back from the best tip, at most
  BootstrapFromR2,  \* may heights above the local headers be resolved
  MaxHeight         \* bound: no chain grows above it

ASSUME PipelineAssumption ==
  /\ Workers # {}
  /\ PrefetchWindow \in Nat \ {0}
  /\ RecentWalkLimit \in Nat
  /\ BootstrapFromR2 \in BOOLEAN
  /\ MaxHeight \in Nat

VARIABLES
  nodeBlocks,    \* the local node: height of its active chain,
  nodeHeaders,   \*   and of its best header
  archived,      \* the bucket: blocks 0 .. archived can be downloaded,
  indexed,       \*   and these ranges have an index
  interrupted,   \* the process's context is done
  pc,            \* where the pipeline goroutine is
  headers,       \* the fields of submitPipeline
  currentHeight,
  nextSchedule,
  ready,
  pending,
  stoppedScheduling,
  cachedRange,   \* the fields of submitRangeIndexCache
  missingRanges,
  jobs,          \* the channels
  results,
  worker,        \* the download goroutines
  outcome        \* how the last run ended

nodeVars == <<nodeBlocks, nodeHeaders>>
bucketVars == <<archived, indexed>>
world == <<nodeVars, bucketVars>>
windowVars == <<headers, currentHeight, nextSchedule, ready, pending, stoppedScheduling>>
cacheVars == <<cachedRange, missingRanges>>
channelVars == <<jobs, results>>
runVars == <<pc, windowVars, cacheVars, channelVars, worker, outcome>>
vars == <<world, interrupted, runVars>>

NoRange == -1
NoHeights == [h \in {} |-> h]
Heights == 0..MaxHeight

Put(map, key, value) ==
  [k \in DOMAIN map \cup {key} |-> IF k = key THEN value ELSE map[k]]

Delete(map, key) == Restrict(map, DOMAIN map \ {key})

Exited == [at |-> "exited", height |-> 0, raw |-> "none"]
Idle == [at |-> "idle", height |-> 0, raw |-> "none"]
Downloading(h) == [at |-> "downloading", height |-> h, raw |-> "none"]
Sending(h, raw) == [at |-> "sending", height |-> h, raw |-> raw]

(* downloadCtx is done: the run is being torn down, or the process is.     *)
Cancelled == pc = "teardown" \/ interrupted

-----------------------------------------------------------------------------
(* The rest of the world.                                                  *)

(* The node learns a header, or connects a block a peer sent it.           *)
HearHeader ==
  /\ nodeHeaders < MaxHeight
  /\ nodeHeaders' = nodeHeaders + 1
  /\ UNCHANGED <<nodeBlocks, bucketVars, interrupted, runVars>>

HearBlock ==
  /\ nodeBlocks < nodeHeaders
  /\ nodeBlocks' = nodeBlocks + 1
  /\ UNCHANGED <<nodeHeaders, bucketVars, interrupted, runVars>>

(* The provider uploads the next block, or publishes a range index.        *)
ArchiveBlock ==
  /\ archived < MaxHeight
  /\ archived' = archived + 1
  /\ UNCHANGED <<nodeVars, indexed, interrupted, runVars>>

IndexRange ==
  /\ \E s \in {StartHeight(h) : h \in Heights} \ indexed :
        /\ EndOfRange(s) <= archived
        /\ indexed' = indexed \cup {s}
  /\ UNCHANGED <<nodeVars, archived, interrupted, runVars>>

World == HearHeader \/ HearBlock \/ ArchiveBlock \/ IndexRange

-----------------------------------------------------------------------------
(* A run starts with GetBlockchainInfo and ends in the deferred teardown.  *)

(* Mutant: the next run inherits stoppedScheduling.                        *)
NonePending == pending' = {} /\ UNCHANGED stoppedScheduling

NoneScheduled == pending' = {} /\ stoppedScheduling' = FALSE

Reset ==
  /\ headers' = 0 /\ currentHeight' = 0 /\ nextSchedule' = 0
  /\ ready' = NoHeights
  /\ NoneScheduled
  /\ cachedRange' = NoRange /\ missingRanges' = {}
  /\ jobs' = {} /\ results' = NoHeights

StartRun ==
  /\ pc = "idle"
  /\ ~interrupted
  /\ pc' = "fill"
  /\ headers' = nodeHeaders
  /\ currentHeight' = nodeBlocks + 1
  /\ nextSchedule' = nodeBlocks + 1
  /\ worker' = [w \in Workers |-> Idle]
  /\ outcome' = "none"
  /\ UNCHANGED <<world, interrupted, ready, pending, stoppedScheduling>>
  /\ UNCHANGED <<cacheVars, channelVars>>

(* The context is done between two runs, in the sleep or in the call.      *)
StopBetweenRuns ==
  /\ pc = "idle"
  /\ interrupted
  /\ pc' = "exited"
  /\ outcome' = "interrupted"
  /\ UNCHANGED <<world, interrupted, windowVars, cacheVars, channelVars, worker>>

(* cancel(); close(p.jobs); workerWG.Wait()                                *)
Return(how) == pc' = "teardown" /\ outcome' = how

(* Then runSubmit either runs the pipeline again or ends the process.      *)
TeardownDone ==
  /\ pc = "teardown"
  /\ \A w \in Workers : worker[w] = Exited
  /\ pc' = IF outcome = "wait" THEN "idle" ELSE "exited"
  /\ Reset
  /\ UNCHANGED <<world, interrupted, worker, outcome>>

-----------------------------------------------------------------------------
(* fillWindow: resolve the next height, and send it to the workers.        *)

(* Mutant: the window is one too large.                                    *)
RoomForOneMore == ~stoppedScheduling /\ Cardinality(DOMAIN ready \cup pending) <= PrefetchWindow

Room == ~stoppedScheduling /\ Cardinality(DOMAIN ready \cup pending) < PrefetchWindow

WindowFull ==
  /\ pc = "fill"
  /\ ~Room
  /\ pc' = "loop"
  /\ UNCHANGED <<world, interrupted, windowVars, cacheVars, channelVars, worker, outcome>>

RangeOf(h) == StartHeight(h)

(* Above the headers the indexes are only used to bootstrap.               *)
MayAskIndex == nextSchedule <= headers \/ BootstrapFromR2

Cached == cachedRange = RangeOf(nextSchedule)

(* hashAt without a call: the range is the cached one, or known missing.   *)
HashFromCache ==
  /\ pc = "fill"
  /\ Room
  /\ MayAskIndex
  /\ Cached
  /\ RangeOf(nextSchedule) \notin missingRanges
  /\ pc' = "send"
  /\ UNCHANGED <<world, interrupted, windowVars, cacheVars, channelVars, worker, outcome>>

(* DownloadObject of the range index succeeds.                             *)
HashFromIndex ==
  /\ pc = "fill"
  /\ Room
  /\ MayAskIndex
  /\ cachedRange # RangeOf(nextSchedule)
  /\ RangeOf(nextSchedule) \notin missingRanges
  /\ RangeOf(nextSchedule) \in indexed
  /\ cachedRange' = RangeOf(nextSchedule)
  /\ pc' = "send"
  /\ UNCHANGED <<world, interrupted, windowVars, missingRanges, channelVars, worker, outcome>>

(* ErrNotFound, from R2 or from the cache of missing ranges.               *)
NoIndex ==
  /\ Room
  /\ \/ RangeOf(nextSchedule) \in missingRanges
     \/ cachedRange # RangeOf(nextSchedule) /\ RangeOf(nextSchedule) \notin indexed
  /\ missingRanges' = missingRanges \cup {RangeOf(nextSchedule)}
  /\ UNCHANGED cachedRange

WalkHeaders ==
  /\ pc = "fill"
  /\ nextSchedule <= headers
  /\ NoIndex
  /\ pc' = "walk"
  /\ UNCHANGED <<world, interrupted, windowVars, channelVars, worker, outcome>>

AboveHeaders == nextSchedule > headers

(* Above the headers read when the run started there is nothing to walk:   *)
(* the run will wait for headers (waitHeaders is stoppedScheduling, unless *)
(* heights reach 2^64).                                                    *)
StopAtHeaders ==
  /\ pc = "fill"
  /\ AboveHeaders
  /\ IF BootstrapFromR2 THEN NoIndex ELSE Room /\ UNCHANGED cacheVars
  /\ stoppedScheduling' = TRUE
  /\ pc' = "loop"
  /\ UNCHANGED <<world, interrupted, headers, currentHeight, nextSchedule, ready, pending>>
  /\ UNCHANGED <<channelVars, worker, outcome>>

(* resolveRecentHash: from the best tip back to the height, if it is near. *)
BestTip(h) == IF h <= nodeBlocks THEN nodeBlocks ELSE nodeHeaders

WalkReaches(h) == h <= BestTip(h) /\ BestTip(h) - h <= RecentWalkLimit

HashFromHeaders ==
  /\ pc = "walk"
  /\ WalkReaches(nextSchedule)
  /\ pc' = "send"
  /\ UNCHANGED <<world, interrupted, windowVars, cacheVars, channelVars, worker, outcome>>

WalkFails ==
  /\ pc = "walk"
  /\ ~WalkReaches(nextSchedule)
  /\ Return("error")
  /\ UNCHANGED <<world, interrupted, windowVars, cacheVars, channelVars, worker>>

SendJob ==
  /\ pc = "send"
  /\ Cardinality(jobs) < PrefetchWindow
  /\ jobs' = jobs \cup {nextSchedule}
  /\ pending' = pending \cup {nextSchedule}
  /\ nextSchedule' = nextSchedule + 1
  /\ pc' = "fill"
  /\ UNCHANGED <<world, interrupted, headers, currentHeight, ready, stoppedScheduling>>
  /\ UNCHANGED <<cacheVars, results, worker, outcome>>

-----------------------------------------------------------------------------
(* runSubmitDownloadWorker.  A select with two ready cases takes either,   *)
(* so a cancelled worker may still take a job or deliver a result.         *)

Take(w) ==
  /\ worker[w] = Idle
  /\ \E h \in jobs :
       /\ \A other \in jobs : h <= other
       /\ jobs' = jobs \ {h}
       /\ worker' = [worker EXCEPT ![w] = Downloading(h)]
  /\ UNCHANGED <<world, interrupted, pc, windowVars, cacheVars, results, outcome>>

(* downloadAndVerifySubmitBlock: the block if it is there, else its error. *)
DownloadEnds(w, raw) ==
  /\ worker[w].at = "downloading"
  /\ worker' = [worker EXCEPT ![w] = Sending(worker[w].height, raw)]
  /\ UNCHANGED <<world, interrupted, pc, windowVars, cacheVars, channelVars, outcome>>

Download(w) == DownloadEnds(w, IF worker[w].height <= archived THEN "good" ELSE "error")

(* Mutant: a failed download is dropped instead of delivered.              *)
DownloadForgotten(w) ==
  /\ worker[w].at = "downloading"
  /\ worker' = [worker EXCEPT ![w] = Idle]
  /\ UNCHANGED <<world, interrupted, pc, windowVars, cacheVars, channelVars, outcome>>

(* The call fails, or the bytes do not have the hash.                      *)
DownloadFails(w) == DownloadEnds(w, "error")

Deliver(w) ==
  /\ worker[w].at = "sending"
  /\ Cardinality(DOMAIN results) < PrefetchWindow
  /\ results' = Put(results, worker[w].height, worker[w].raw)
  /\ worker' = [worker EXCEPT ![w] = Idle]
  /\ UNCHANGED <<world, interrupted, pc, windowVars, cacheVars, jobs, outcome>>

WorkerExit(w) ==
  /\ Cancelled
  /\ worker[w].at \in {"idle", "sending"}
  /\ worker' = [worker EXCEPT ![w] = Exited]
  /\ UNCHANGED <<world, interrupted, pc, windowVars, cacheVars, channelVars, outcome>>

WorkerStep(w) == Take(w) \/ Download(w) \/ Deliver(w) \/ WorkerExit(w)

-----------------------------------------------------------------------------
(* The loop of run: submit what is ready in height order, else receive.    *)

ReadyToSubmit ==
  /\ pc = "loop"
  /\ currentHeight \in DOMAIN ready
  /\ ready[currentHeight] = "good"

(* Mutant: the window is not filled again after a submit.                  *)
AcceptedOnly == currentHeight' = currentHeight + 1 /\ pc' = "loop"

(* delete(p.ready, p.currentHeight), and after the submit the next height. *)
Accepted == currentHeight' = currentHeight + 1 /\ pc' = "fill"

(* submitblock connects the block if it follows the active chain; one that *)
(* is known already is a duplicate, which counts as submitted.             *)
NodeConnects(h) ==
  /\ h <= nodeBlocks + 1
  /\ nodeBlocks' = IF nodeBlocks < h THEN h ELSE nodeBlocks
  /\ nodeHeaders' = IF nodeHeaders < h THEN h ELSE nodeHeaders

SubmitBlock ==
  /\ ReadyToSubmit
  /\ NodeConnects(currentHeight)
  /\ ready' = Delete(ready, currentHeight)
  /\ Accepted
  /\ UNCHANGED <<bucketVars, interrupted, headers, nextSchedule, pending, stoppedScheduling>>
  /\ UNCHANGED <<cacheVars, channelVars, worker, outcome>>

(* The call fails, before or after its effect: ask the node.               *)
SubmitUnanswered ==
  /\ ReadyToSubmit
  /\ NodeConnects(currentHeight) \/ UNCHANGED nodeVars
  /\ ready' = Delete(ready, currentHeight)
  /\ pc' = "confirm"
  /\ UNCHANGED <<bucketVars, interrupted, headers, currentHeight, nextSchedule, pending>>
  /\ UNCHANGED <<stoppedScheduling, cacheVars, channelVars, worker, outcome>>

(* Mutant: an unanswered submit counts as accepted.                        *)
SubmittedAnyHow(height) == TRUE

SubmittedHeightAccepted(height) == nodeBlocks >= height

HeightAccepted ==
  /\ pc = "confirm"
  /\ SubmittedHeightAccepted(currentHeight)
  /\ Accepted
  /\ UNCHANGED <<world, interrupted, headers, nextSchedule, ready, pending>>
  /\ UNCHANGED <<stoppedScheduling, cacheVars, channelVars, worker, outcome>>

HeightNotAccepted ==
  /\ pc = "confirm"
  /\ ~SubmittedHeightAccepted(currentHeight)
  /\ Return("error")
  /\ UNCHANGED <<world, interrupted, windowVars, cacheVars, channelVars, worker>>

(* The block at currentHeight could not be downloaded.                     *)
DownloadError ==
  /\ pc = "loop"
  /\ currentHeight \in DOMAIN ready
  /\ ready[currentHeight] = "error"
  /\ ready' = Delete(ready, currentHeight)
  /\ Return("error")
  /\ UNCHANGED <<world, interrupted, headers, currentHeight, nextSchedule, pending>>
  /\ UNCHANGED <<stoppedScheduling, cacheVars, channelVars, worker>>

(* Mutant: a height still being downloaded is not waited for.              *)
DrainedButPending == currentHeight \notin DOMAIN ready /\ stoppedScheduling

Drained == currentHeight \notin DOMAIN ready /\ currentHeight \notin pending /\ stoppedScheduling

WaitForHeaders ==
  /\ pc = "loop"
  /\ Drained
  /\ Return("wait")
  /\ UNCHANGED <<world, interrupted, windowVars, cacheVars, channelVars, worker>>

Receiving == pc = "loop" /\ currentHeight \notin DOMAIN ready /\ ~Drained

(* Mutant: a received height stays pending.                                *)
StillPending(h) == UNCHANGED pending

NotPending(h) == pending' = pending \ {h}

ReceiveResult ==
  /\ Receiving
  /\ \E h \in DOMAIN results :
       /\ results' = Delete(results, h)
       /\ ready' = Put(ready, h, results[h])
       /\ NotPending(h)
  /\ UNCHANGED <<world, interrupted, pc, headers, currentHeight, nextSchedule>>
  /\ UNCHANGED <<stoppedScheduling, cacheVars, jobs, worker, outcome>>

(* The ctx.Done case of the two selects.                                   *)
ContextDone ==
  /\ interrupted
  /\ pc = "send" \/ Receiving
  /\ Return("interrupted")
  /\ UNCHANGED <<world, interrupted, windowVars, cacheVars, channelVars, worker>>

-----------------------------------------------------------------------------
(* What can go wrong, and the process around the pipeline.                 *)

IndexCallPending ==
  /\ pc = "fill"
  /\ Room
  /\ MayAskIndex
  /\ cachedRange # RangeOf(nextSchedule)
  /\ RangeOf(nextSchedule) \notin missingRanges

(* A call of the pipeline goroutine fails, or the node refuses the block.  *)
CallFails ==
  /\ IndexCallPending \/ pc \in {"walk", "confirm"} \/ ReadyToSubmit
  /\ Return("error")
  /\ UNCHANGED <<world, interrupted, windowVars, cacheVars, channelVars, worker>>

(* GetBlockchainInfo fails at the start of a run.                          *)
StartFails ==
  /\ pc = "idle"
  /\ pc' = "exited"
  /\ outcome' = "error"
  /\ UNCHANGED <<world, interrupted, windowVars, cacheVars, channelVars, worker>>

Interrupt ==
  /\ pc # "exited"
  /\ ~interrupted
  /\ interrupted' = TRUE
  /\ UNCHANGED <<world, runVars>>

Kill ==
  /\ pc # "exited"
  /\ pc' = "exited"
  /\ outcome' = "killed"
  /\ worker' = [w \in Workers |-> Exited]
  /\ Reset
  /\ UNCHANGED <<world, interrupted>>

(* restart: unless-stopped                                                 *)
Launch ==
  /\ pc = "exited"
  /\ pc' = "idle"
  /\ interrupted' = FALSE
  /\ outcome' = "none"
  /\ UNCHANGED <<world, windowVars, cacheVars, channelVars, worker>>

-----------------------------------------------------------------------------
(* The node has the genesis block, at least.                               *)
Init ==
  /\ nodeBlocks = 0
  /\ nodeHeaders = 0
  /\ archived = 0
  /\ indexed = {}
  /\ interrupted = FALSE
  /\ pc = "idle"
  /\ headers = 0
  /\ currentHeight = 0
  /\ nextSchedule = 0
  /\ ready = NoHeights
  /\ pending = {}
  /\ stoppedScheduling = FALSE
  /\ cachedRange = NoRange
  /\ missingRanges = {}
  /\ jobs = {}
  /\ results = NoHeights
  /\ worker = [w \in Workers |-> Exited]
  /\ outcome = "none"

FillWindow ==
  \/ WindowFull \/ HashFromCache \/ HashFromIndex \/ WalkHeaders \/ StopAtHeaders
  \/ HashFromHeaders \/ WalkFails \/ SendJob

Loop ==
  \/ SubmitBlock \/ HeightAccepted \/ HeightNotAccepted \/ DownloadError
  \/ WaitForHeaders \/ ReceiveResult \/ ContextDone

(* The pipeline goroutine, when its calls are answered.                    *)
MainStep == StartRun \/ StopBetweenRuns \/ FillWindow \/ Loop \/ TeardownDone

Workings == MainStep \/ \E w \in Workers : WorkerStep(w)

Failures ==
  \/ CallFails \/ StartFails \/ SubmitUnanswered
  \/ \E w \in Workers : DownloadFails(w)

Next == Workings \/ World \/ Failures \/ Interrupt \/ Kill \/ Launch

Spec == Init /\ [][Next]_vars

FairSpec ==
  /\ Spec
  /\ WF_vars(MainStep)
  /\ \A w \in Workers : WF_vars(WorkerStep(w))
  /\ WF_vars(Launch)

-----------------------------------------------------------------------------
(* Properties                                                              *)

Running == pc \notin {"idle", "teardown", "exited"}

WorkerStates ==
  {Idle, Exited} \cup {Downloading(h) : h \in Heights}
     \cup {Sending(h, raw) : h \in Heights, raw \in {"good", "error"}}

DownloadMap(f) == DOMAIN f \subseteq Heights /\ f \in [DOMAIN f -> {"good", "error"}]

(* The type of the node, the bucket, the fields of the pipeline, its       *)
(* channels and its workers.  No height above MaxHeight is scheduled.      *)
TypeOK ==
  /\ nodeBlocks \in Heights /\ nodeHeaders \in Heights /\ nodeBlocks <= nodeHeaders
  /\ archived \in Heights
  /\ indexed \subseteq {s \in Heights : EndOfRange(s) <= archived}
  /\ interrupted \in BOOLEAN
  /\ pc \in {"idle", "fill", "walk", "send", "loop", "confirm", "teardown", "exited"}
  /\ headers \in Heights
  /\ currentHeight \in 0..(MaxHeight + 1)
  /\ nextSchedule \in 0..(MaxHeight + 1)
  /\ DownloadMap(ready)
  /\ pending \subseteq Heights
  /\ stoppedScheduling \in BOOLEAN
  /\ cachedRange \in indexed \cup {NoRange}
  /\ missingRanges \subseteq Int
  /\ jobs \subseteq Heights
  /\ DownloadMap(results)
  /\ worker \in [Workers -> WorkerStates]
  /\ outcome \in {"none", "wait", "error", "interrupted", "killed"}

(* The heights scheduled and not yet submitted are contiguous from         *)
(* currentHeight, each either pending or ready: none is skipped, fetched   *)
(* twice or left behind, however the downloads overtake one another.       *)
Window == IF pc = "confirm" THEN (currentHeight + 1)..(nextSchedule - 1)
                            ELSE currentHeight..(nextSchedule - 1)

WindowContiguous ==
  Running =>
    /\ pending \cup DOMAIN ready = Window
    /\ pending \cap DOMAIN ready = {}
    /\ nextSchedule - currentHeight <= PrefetchWindow
    /\ pc = "send" => nextSchedule - currentHeight < PrefetchWindow

Busy(w) == worker[w].at \in {"downloading", "sending"}

BusyHeights == {worker[w].height : w \in {v \in Workers : Busy(v)}}

(* While a run is not cancelled every pending height is in exactly one     *)
(* place: queued, with one worker, or delivered.  Cancelled workers drop   *)
(* theirs, but nothing else ever is in two places or not pending.          *)
InFlight == jobs \cup BusyHeights \cup DOMAIN results

PendingAccounted ==
  Running =>
    /\ InFlight \subseteq pending
    /\ ~interrupted => pending \subseteq InFlight
    /\ jobs \cap BusyHeights = {}
    /\ jobs \cap DOMAIN results = {}
    /\ BusyHeights \cap DOMAIN results = {}
    /\ \A v, w \in Workers : Busy(v) /\ Busy(w) /\ worker[v].height = worker[w].height => v = w

(* So no channel operation ever waits for room: both buffers, of the size  *)
(* of the window, hold whatever the other side has not yet received.       *)
ChannelsHaveRoom ==
  Running =>
    /\ pc = "send" => Cardinality(jobs) < PrefetchWindow
    /\ BusyHeights # {} => Cardinality(DOMAIN results) < PrefetchWindow

(* The height to submit is never past the node's next block, so no block   *)
(* is submitted before its parent is connected: an unanswered submit is    *)
(* counted only once the node has the height.                              *)
ParentConnected == Running => currentHeight <= nodeBlocks + 1

(* A run that reports it waits for headers has submitted everything it     *)
(* scheduled, and its next height is above the headers it started with.    *)
WaitsDrained ==
  [][outcome' = "wait" /\ outcome # "wait" =>
       /\ pending = {} /\ DOMAIN ready = {}
       /\ currentHeight = nextSchedule
       /\ currentHeight > headers]_vars

-----------------------------------------------------------------------------
(* Why they hold: the invariant their proof needs.                         *)

(* A height being resolved is known to exist, and there is room for it.    *)
Resolving ==
  pc \in {"walk", "send"} =>
    /\ ~stoppedScheduling
    /\ nextSchedule \in Heights
    /\ nextSchedule - currentHeight < PrefetchWindow

InOrder ==
  Running =>
    /\ currentHeight <= nextSchedule
    /\ pc = "confirm" => currentHeight < nextSchedule

(* Between runs the pipeline's fields hold nothing of the last run.        *)
NothingLeft ==
  pc \in {"idle", "exited"} =>
    /\ DOMAIN ready = {} /\ pending = {}
    /\ jobs = {} /\ DOMAIN results = {}
    /\ ~stoppedScheduling
    /\ \A w \in Workers : worker[w] = Exited

StoppedAboveHeaders == Running /\ stoppedScheduling => nextSchedule > headers

(* The inductive invariant.                                                *)
PipelineInv ==
  /\ TypeOK
  /\ Resolving
  /\ InOrder
  /\ NothingLeft
  /\ StoppedAboveHeaders
  /\ WindowContiguous
  /\ PendingAccounted
  /\ ParentConnected

-----------------------------------------------------------------------------
(* Every run ends, whatever fails or is cancelled: the teardown does not   *)
(* wait for a worker for ever, nor the loop for a result that never comes. *)
RunEnds == pc \notin {"idle", "exited"} ~> pc \in {"idle", "exited"}

(* The pipeline could get the block at this height.                        *)
Available(h) ==
  /\ h <= archived
  /\ \/ RangeOf(h) \in indexed /\ (h <= nodeHeaders \/ BootstrapFromR2)
     \/ h <= nodeHeaders /\ WalkReaches(h)

(* Once the world rests and no call fails, the node gets every next block  *)
(* that can be had.                                                        *)
CatchesUp ==
  <>[][Workings \/ Launch]_vars => <>[]~Available(nodeBlocks + 1)
=============================================================================
