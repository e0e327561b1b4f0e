# fractal-block-sync in TLA+

fractal-block-sync moves Bitcoin blocks from a provider's node to a user's node
through a Cloudflare R2 bucket. The provider runs `upload`, the user runs
`submit`. This directory models both sides in TLA+, checks the models with TLC on
small instances and proves the main results with TLAPS for every instance.

Provider:

    NodeChain   RangeIndex   UploadProbes        UploadPool --- UploadPoolProofs
         \       /             /      \               | implements
          Bucket             /        \          UploadBatch
         /   |  \           /          \
        /    |   ShardedUpload          |
       /     |        |                 |
      /      |   MCShardedUpload --- ShardedUploadProofs
     /       |                          |
    /        +---- UploadFollower ------+
    BlockArchive <---'  |   |  |
      (implements)      |   |  UploadFollowerProofs --- UploadFollowerCacheProofs
                        |   MCFollowerAtRest ------------------'
                  MCUploadFollower

User and the rest:

    RangeIndex      ForkedNode  RangeIndex        RangeIndex       RangeWords
        |                 \      /                     |               |
    SubmitPipeline       SubmitNext             BenchDownload     MCRangeWords
        |      \           |       \              |        \      |
        |  SubmitPipeline-  |   SubmitNext-       |  BenchDownload-  RangeWords-
        |  Proofs           |   Proofs            |  Proofs          Proofs
    MCSubmitPipeline    MCSubmitNext        MCBenchDownload

## 1. The system

| Part | Code | State | Operations |
|---|---|---|---|
| Upload follower | `sync.go` 156-836, `main.go` 102-133 | `initialized`, `lastTip`, `nextIndexStart`, `recentHashes`; the locals of an attempt | `UploadOnce`: initialize (find the first range without index, probe, upload), increment, reorg, publish stable indexes, refresh the cache |
| Submit pipeline | `sync.go` 945-1259, 1292-1366, `main.go` 173-199 | the window (`currentHeight`, `nextSchedule`, `ready`, `pending`), two channels, the workers, the index cache | fill the window, download and verify, submit in order, confirm after an error, wait, tear down |
| One-shot upload | `sync.go` 77-153 | locals | every range from `from-height` on, once |
| One-shot submit | `sync.go` 882-943 | locals | the next missing block, once |
| Goroutine pool | `sync.go` 646-708, 724-796 | jobs, results and error channels, a counter | hand out heights, collect the first error |
| Range index | `rangeindex/`, helpers in `sync.go` | none | start, end and key of a range; encode, look up a hash |
| R2, provider | `r2store/store.go` 83-197 | the bucket | HEAD, put if absent |
| R2, user | `r2store/store.go` 228-289 | none | GET: found, 404, failed |
| bitcoind client | `btcrpc/client.go` | none | JSON-RPC calls |
| Block hash | `blockhash/` | none | hash of a raw block |
| Download benchmark | `bench.go` | counters under a mutex, a jobs channel | enqueue, download, report |
| Command line | `cmd/`, `r2.go` | flags | parse, loop, exit |

The follower calls bitcoind (`getblockcount`, `getblockhash`, `getblock`) and R2
(HEAD, PUT). The pipeline calls bitcoind (`getblockchaininfo`, `getchaintips`,
`getblockheader`, `submitblock`) and reads R2 over HTTP. The two sides meet in the
bucket only: block objects keyed by hash, and range indexes of `range_size` hashes
keyed by the start of their range. A range index is written once and never
replaced, so what it says must be right for good: no range is published before its
last block is `stable_delay` deep.

What is hard in this code, each with its line in the `hazards` of PROJECT.json:

- **An attempt of the follower is many calls** and the node's chain may move between
  any two of them. The hashes an index is made of are read after the upload, the
  hashes the cache is made of are read again after the upload.
- **One comparison stands for the whole tail**: the follower remembers hashes and
  compares the one at its last tip; the walk back, the pruning and the forgetting
  must keep the cache good enough for it, over any sequence of attempts.
- **Failures leave partial state**: an error returns with the fields as they are, a
  crash loses all but the bucket, parallel uploads leave gaps.
- **The pipeline's only receiver is also the sender**: channel sizes, the window and
  the two maps must fit, and downloads overtake one another.
- **Lost answers**: `submitblock` may have connected the block although the call failed.
- **Boundaries**: stable by one block or not, the last height of a range, a probe
  step, an upload from a height above its end.

What makes each part correct:

- Upload follower: a published index is complete, is the active chain's, and stays so;
  the tail is uploaded; the reorganisation alarm is raised when and only when
  published blocks are gone; it rests when the chain rests at or above `from_height`.
- Submit pipeline: blocks are submitted in height order above a connected parent; no
  height is skipped, duplicated or forgotten; no channel operation blocks; every run
  ends; every block that can be had is submitted in the end.
- One-shot upload and submit: the same promises to the bucket and to the node.
- Goroutine pool: returns only when its workers are done, and no error is lost.
- Range index: the arithmetic is right up to the top of the 64-bit range.
- Benchmark: what it counts is what was downloaded.

## 2. The plan and where it stands

In this order, the most important first; every item is modelled, checked and, but for
liveness, proved.

1. `NodeChain`, `RangeIndex`, `Bucket`: what every provider module stands on.
2. `UploadFollower`, its abstract specification `BlockArchive`, and their proofs: of the
   bucket (UploadFollowerProofs) and of the fields (UploadFollowerCacheProofs).
3. `SubmitPipeline` and its proofs.
4. `UploadPool`, the channels of `uploadBlocksFrom`, shown to implement `UploadBatch`, the
   set of heights in flight that `UploadFollower` uses; proofs.
5. `ShardedUpload`: one-shot uploaders sharing a bucket, with puts in flight; proofs.
6. `SubmitNext` on `ForkedNode`: forks, the header walk step by step, the answers of
   `submitblock`; proofs.
7. `RangeWords`: heights on machine words, and the bytes of an index; proofs.
8. `BenchDownload` and its proofs.
9. The cache and the tail of a follower that the chain leaves alone during its attempts:
   `MCFollowerAtRest`, proved in UploadFollowerCacheProofs.

No safety property that a run checks is without a theorem. Left: what can be proved of the
properties at weaker premises (section 6 has the states in which each premise is needed).

## 3. The provider side

### Modules and correspondence

**NodeChain** is external code, modelled from how `sync.go` uses it. A block hash
commits to all of its ancestors, so a block is the sequence of branches taken up to
its height, and `BlockAt(h)` is what `getblockhash(h)` returns: equal exactly when
the chains agree up to `h`. The chain grows by one block (`Extend`) or loses blocks
from its top (`RollBack`); a reorganisation is a `RollBack` followed by `Extend`s, so
the follower also meets a node in the middle of one. `peak` is the highest tip
so far, and `ReorgDepth` bounds how far below it a block can be replaced.

**Bucket** holds the hashes stored (a block object's bytes are determined by its
hash) and the indexes. `PutObject` leaves an object that exists as it is, as the
`If-None-Match` put does. `PrePublished` are ranges that earlier shards finished.

**UploadFollower** has the four fields of the Go struct that change, the locals of an
attempt, and `pc`, the call the attempt makes next. A step is one call and the code up to
the next one; the guards are the code's conditions in their order.

| pc | the attempt is about to | actions |
|---|---|---|
| idle | be started by `runUpload` | NothingManaged, StartInitialize, StartIncrement, IncrementBehindBoundary |
| findStart, foundStart | HEAD the next range index; go on | SkipPublishedRange, StopAtUnpublishedRange, StartBehindBoundary, NothingToUpload, StartProbes |
| probe | look at the probed heights | Probe, ProbesDone |
| upload | upload blocks, for one of four callers | ReadBlock, PutBlock, and one ...UploadDone per caller |
| checkTip | compare the block at the last tip | TipUnchanged, TipExtended, PublishedTipReorged, TipReorged |
| walk | look for the common ancestor | AncestorFound, WalkOn |
| publish | decide whether the next range is stable | BeginRange, InitialPublishDone, PublishDone |
| headIndex, readHashes, putIndex, boundary | publish it | IndexExists, IndexMissing, ReadRangeHash, PutIndex, ReadBoundary |
| refresh | read the tail's hashes into the cache | ReadRecentHash, RefreshDone |

Two things are joined. `getblockhash` and the HEAD that follows it are one step: only
the worker of that height could store that hash in between. `getblock` by hash and
the put are one step: the node answers for a block it no longer has on its active
chain. The goroutine pool is a set of heights to hand out in order and a map
of those in flight, at most `UploadWorkers` of them; that its channels do just this is
shown in `UploadPool`. `CallFails` lets any call fail and end the attempt, `HashUnavailable`
is the height the node no longer has, `Crash` is a restart with an empty struct.
`outcome` and `progress` are the result and its `HasWork`.

One branch is left out: the check height below the managed start (`sync.go` 346).
`LastTipManaged` is the reason, and is checked and proved.

**BlockArchive** is what the provider promises: blocks are only added; an index
appears once, atomically, is the active chain's own list at that instant, over a
range that is final and whose blocks are stored. `UploadFollower` implements it,
with `blocks`, `index` and the chain mapped to themselves.

### Runs

| Run | Shows | Bounds |
|---|---|---|
| follower_stable | `IndexMatchesChain`, `ImplementsArchive` (which includes `IndexComplete`) | from the genesis block to height 4: two whole ranges of 2 and a block more, `to_height` at the end of the second range, 2 branches, reorganisations of 1 = stable_delay, two uploads at a time |
| follower_deep | `TypeOK`, `BoundaryCached`, `LastTipManaged`, `UploadsNotEmpty`, `AlarmJustified` | no stable_delay, reorganisations of 2 into published ranges, one range published by another shard |
| follower_live | `TailArchived`, `IndexComplete`, `CacheCurrent`, `QuietChainRests`, `StableRangesPublished` | heights to 4, the first tip 1, a range of 3 and a tail, probes two apart, `from_height` 2, stable_delay 2, reorganisations of 1, two uploads at a time |

Ranges of two blocks have a first and a last block; a second range exercises the
boundary below the first unpublished one; two branches are enough to make a block
differ from the one that was read. `StableDelay = ReorgDepth` is the tight case of the
assumption the proofs make, and `ReorgDepth > StableDelay` (follower_deep) is the case in
which the alarm matters. With `to_height` 3 the node's tip passes the last height to upload,
so the second range is uploaded before it is stable.

In follower_live a range becomes stable when the chain is two blocks longer, so a start may find
four unpublished heights or more, 0 to 3, and its probes, two apart, leave out 1. A crash while 2 is
stored and 1 still under way leaves the gap just there: the next start finds 0 and 2 stored and
uploads from 2 on. `IndexComplete` is in this run too, because the gap must be closed before the
index is put. The tip is 1 at first, below `from_height`.

`MCFollowerAtRest` adds two history variables. `movedMidAttempt` says whether the chain has
moved during an attempt of this process, `gapPassed` whether the probes of its start passed over
a block that is not stored. `CacheCurrent` is stated for processes for which the first is false,
`TailArchived` for those for which both are; section 6 says what happens otherwise.

Liveness assumes weak fairness of `Step`, the follower's own steps: `runUpload`
calls `UploadOnce` again after every attempt, failed or not, after at most a second.
The properties have `<>[][Step]_vars` as a premise: from some moment on the chain
rests, calls are answered, and the process is not killed. Nothing is assumed of how
the chain moves before that. `QuietChainRests` excepts a chain that rests below `from_height`
(`TipUnmanaged`), for which the code does not come to rest.

### Proofs (UploadFollowerProofs)

`TypeCorrect` is `Spec => []TypeOK`, from the constants' assumptions alone.
The others assume `StableDelayCovers`, that is `ReorgDepth <= StableDelay`.
`IndexComplete` is not inductive: the put of an index is right because of what
was true when its range was chosen. `IndexInv` says what is: while a range is in hand
its end is final (`RangeFinal`, from the stable test on a tip that is at most the
peak); each of its blocks is still to be read, in flight with the chain's own hash, or
stored (`RangeAccounted`, which needs that a final block's hash cannot change between
the read and the put); then all are stored (`RangeStored`); the hashes read
so far are the chain's (`HashesRead`); and published ranges are final, the chain's and
stored (`PublishedFinal`). The lemma `FinalStays` carries all of it through
chain moves, and every step outside publishing leaves it alone (the `Quiet` lemmas).
`IndexesAreComplete` and `IndexesMatchChain` follow; `FollowerImplementsArchive` maps
`PutIndex` to `Publish`, `PutBlock` to `Store`, a chain move to itself and every
other step, `CallFails` and `Crash` included, to a stutter.

### Proofs (UploadFollowerCacheProofs)

These are about the fields, and assume nothing of the depth of a reorganisation. That
`recentHashes` holds the hash below the first unpublished range (`BoundaryCached`) is
what a published reorganisation is recognised by; every place that writes the cache could
lose it. `CacheInv` says why none does: every attempt past its first checks
has a tip at or above the boundary (`AttemptStarted`), so pruning keeps it
(`PrunedKeepsBoundary`); the walk back stops at the boundary (`WalkInReach`) and an upload
from the fork on starts above it (`UploadsInReach`), so forgetting keeps it; the first refresh,
with an empty cache, starts low enough to read it (`RefreshInReach`). `LastTipManaged` and
`UploadsNotEmpty` follow from the same invariant, and so does `AlarmsAreJustified`, for any `to_height`:
`AlarmJustified` itself excepts one below the boundary.

The second half is about `MCSpec`, the follower with its history variables, for processes in
whose attempts the chain did not move; between attempts it may, and by any depth. `CacheIsCurrent`
says why one comparison at the last tip misses no change. `RestInv` is the invariant behind it:

- `CacheCoherent`: up to `lastTip` the remembered hashes are those of one chain, of the active one
  or of one it replaced. A hash that is the chain's therefore vouches for all below it, and the
  walk may stop at the first that agrees. Above `lastTip` this is false: a refresh that was cut short
  leaves hashes there that nobody compares, and the next one reads every height above `lastTip` again.
- `CurrentBelow`: what each place of an attempt knows to be the active chain's: everything once
  the comparison or the walk is done and the rest is forgotten, everything below the upload's start
  while it runs, everything below the refresh's cursor.
- `WalkRemembered`, `CacheManaged`: the walk does not leave the cache before it meets the boundary.

`TailsStayArchived` is `TailArchived`, with no premise but those the property names. `TailInv` says
that what is remembered above the published ranges is stored (`TailRemembered`); that each height of an
upload's window is to be read, in flight with its hash, or stored, and that nothing is missing
below the window of a start (`WindowAccounted`); and that what a refresh will read is stored
(`TailUploaded`). All of it is claimed while both history variables are false: the probes set
`gapPassed` or else establish the part about what is below the window (`ProbesDoneTail`), and a
start that begins anew clears it when nothing is remembered yet (`StartsAnewTail`). Section 6 has two ways
in which a gap comes to be.

### UploadPool and UploadBatch

One call of `uploadBlocksFrom`, for any team of workers. A step is one channel operation,
one `uploadBlock` or one `cancel()`: `Receive` (the hand-over on the unbuffered channel),
`StopHandingOut` (the `Done` arm of the loop's select), `Upload`, `UploadFails`, `Report`
(the worker's select on the one-slot channel), `Cancel`, `LeaveLoop`, `Return`; with one
worker (`sequential`) `FailSequentially` stands for the early return. `Interrupt` is the
caller's own context. In the run one, two or three workers share four heights, so that
two can fail while the caller offers a height and one is left.

`UploadBatch` is what the caller may rely on: heights are taken up in order, at most as many
as there are workers in flight, and success means that all of them are done.
`ImplementsBatch` shows the goroutines to be that. `SuccessIsComplete`, `CauseReported`
(never "context canceled" for a call that failed first) and `CallReturns` are what
the one-slot channel could get wrong. Fairness: every goroutine that can move does; calls end.

`PoolInv` (UploadPoolProofs) is inductive for any workers and heights: heights in hand are
distinct and below the next one, everything handed out is in hand or stored and
counted, a cancellation comes from the interrupt or from an error that is in the slot,
and each place of the caller knows which workers are left.

### ShardedUpload and UploadProbes

`UploadOnce` without `--follow`, by several uploaders whose shards overlap, each running
again and again and killed between any two calls (`Stops`). `UploadProbes` has the
arithmetic of the probes, for the follower too. `StartRun`, `RangePublished`, `StartProbes`,
`ProbesDone`, `RangeUploaded`, `TailUploaded`, `IndexMissing`, `ReadRangeHash` follow the
loop. A put is sent (`SendPut`), takes effect (`PutLands`), and is answered (`PutAnswered`),
so two uploaders can have the same object under way; `PutConflicts` and
`IndexConflicts` are ConditionalRequestConflict, which the code counts as done.

| Run | Shows | Bounds |
|---|---|---|
| shards | `CalmIndexComplete`, `IndexNeverReplaced`, `GoodRunComplete` | two uploaders, one from 0 and one from 2, one upload at a time each, a range of 3 and a tail, probes 2 apart, reorganisations of 1, conflicting puts |
| oneshot_gap | `IndexComplete` fails | one uploader, two uploads at a time, a range of 4 |

Three blocks with probes two apart leave one block that no probe looks at. A history
variable, `calm`, says that the chain has not shrunk and no put was refused for a
concurrent one: then no block of a range is stored before those below it, which is why a
stored probe vouches for the blocks it skips, and indexes are complete.
`IndexNeverReplaced` needs no such premise. The model states no liveness: a shard's run
ends by itself and is started by an operator.

ShardedUploadProofs proves the three for any uploaders, shards, range size, delay and probe
step, `CalmIndexComplete` and `GoodRunComplete` for `UploadWorkers = 1`. `CalmInv` says what is true while `calm` holds: only
blocks of the chain are stored, those of a range from its start on, and indexes
name stored blocks (`BucketInv`); a run has probed, uploaded and read what its place says
(`Probing`, `Uploading`, `Indexing`), and is done with the ranges behind it (`BlocksBehind`,
`RangesBehind`). With one block at a time nothing below the block in flight is left
(`HandedOutAlone`), which is why its put keeps the bucket's part (`PutLandsInv`), and a stored
probe vouches for the blocks between it and the one before (`StoredVouches`, from
`PreviousProbe` and `LastProbe`). `OtherRunsStay` is the frame: a run's invariant survives
whatever the others do to a bucket that only grows.

## 4. The user side

### Module and correspondence

**SubmitPipeline** has the fields of `submitPipeline` and `submitRangeIndexCache`, the
two channels and the workers under their Go names. The node is two heights, of its
active chain and of its best header, and may learn headers and blocks by
itself; the bucket is a height up to which blocks are stored and the set of ranges with
an index. Both grow at any moment. The chain has no forks here, so a height stands for its
hash, and verifying a download is one of the ways `DownloadFails`.

| Go | actions |
|---|---|
| `SubmitPipeline`, start of `run` | StartRun, StartFails |
| `fillWindow`, `resolveHash`, `hashAt` | WindowFull, HashFromCache, HashFromIndex, WalkHeaders, StopAtHeaders, SendJob |
| `resolveRecentHash` | HashFromHeaders, WalkFails |
| `runSubmitDownloadWorker` | Take, Download, DownloadFails, Deliver, WorkerExit |
| loop of `run` | SubmitBlock, SubmitUnanswered, HeightAccepted, HeightNotAccepted, DownloadError, WaitForHeaders, ReceiveResult, ContextDone |
| deferred teardown | Return, TeardownDone |
| `runSubmit`, `run` | StopBetweenRuns, Interrupt, CallFails |
| outside | HearHeader, HearBlock, ArchiveBlock, IndexRange, Kill, Launch |

`jobs` is a set, because heights are sent in increasing order and a receive takes the
lowest. `results` is a map, because the receiver puts what it gets into a map by height:
the model lets it receive in any order, which includes the channel's. A `select` with
two ready cases takes either, so a cancelled worker may still take a job or deliver
a result. `waitHeaders` and `waitR2Index` are not variables: `waitHeaders` equals
`stoppedScheduling` below the 2^64 boundary, `waitR2Index` is only logged.

### Runs

| Run | Shows | Bounds |
|---|---|---|
| pipeline | `WindowContiguous`, `PendingAccounted`, `ChannelsHaveRoom`, `ParentConnected`, `WaitsDrained`, `RunEnds`, `CatchesUp` | two workers, a window of 2, heights to 3, ranges of 2, a walk limit of 1, bootstrap from R2 |
| pipeline_walk | `CatchesUp` fails | one worker, a walk limit of 0 |

Two workers and a window of two let a later height overtake an earlier one, fill both
channels, and make the window move while a download is under way; three heights cross a
range boundary, so that an index is cached, missing, or appears during a run. With
heights to 3 a walk limit of 1 is reached, but never by a height ahead of one that an
index answers for; a limit of 0 is.

Fairness: weak fairness of the pipeline goroutine and of each worker, which the Go
scheduler gives to a goroutine that can run (calls have timeouts, so they
end), and of `Launch`, which docker-compose's `restart: unless-stopped` gives. Failures, the
interrupt and the kill are not fair. `CatchesUp` supposes that from some moment on only
the pipeline and the restart act; restarts are needed, because `runSubmit` ends the
process on the first error, a 404 for a block not archived yet included.

### Proofs (SubmitPipelineProofs)

`PipelineInvariant` is `Spec => []PipelineInv`, for any set of workers, any window,
walk limit, range size and bound. `WindowContiguous` and `PendingAccounted` need each
other, and more: what is in hand while a hash is being resolved (`Resolving`), the
order of the two heights (`InOrder`), that nothing survives a run (`NothingLeft`), and
that scheduling stops above the headers only (`StoppedAboveHeaders`). `WorkerFrame`
reduces a worker's step to what it does to the heights in flight. `SendsNeverBlock` is
a counting argument on finite sets: what is in flight is part of the window, the window has at
most `PrefetchWindow` heights, and the one to be sent is not among those in the
channel. `WaitingIsDrained` is the action property, from the same invariant.

Assumed by the proofs: `PipelineAssumption` (there is a worker, the window is not
empty), `RangeSizeAssumption`, `NodeAssumption` (blocks are mined on blocks, and the node starts on a
valid one), `SubmitAssumption` and `WordAssumption` (a range size is not zero, and it and the delay
fit a word); for the provider `ChainAssumption`,
`PrePublishedAssumption`, `FollowerAssumption`, `ProbeAssumption` and `ShardAssumption`; each says
which values the constants may have. The code replaces a zero worker
count, window or range size by its default.

### SubmitNext on ForkedNode

`ForkedNode` is bitcoind with forks, external: headers known, blocks held, blocks found
invalid, the active chain and the best header. A block is the sequence of the branches
taken to it, so its height is its length. `StoreBlock` activates the longest chain of
stored blocks up to an invalid one, `Submitted` gives the answer of `submitblock`,
`Status` and `ChainTips` those of `getchaintips`.

`SubmitNext` is the run that finds a hash and submits its block, one call to a step:
`GetBlockchainInfo`, `IndexFound` or `IndexMissing`, `ReadTips` (`bestChainTip`), the walk
(`HeaderAtTarget`, `HeaderElsewhere`, `WalkTooLong`), `Download`, `SubmitBlock`. With `Follow` the
loop goes on as `submitPipeline` does with a window of one, and asks for the height after
a call that failed (`SubmitFails`, `CheckHeight`). The provider archives and indexes
`Main`, the branch it follows. Peers bring headers and blocks at any moment.

| Run | Shows | Bounds |
|---|---|---|
| submit | `WalkArrives`, `SubmitsNextOnOneBranch`, `WalksViableBranch`, `SubmittedIsActive`, `SubmittedIsHeld`, `LimitMeansPublished`, `CatchesUp` | from height 1, a main branch to height 4 and a stale one of two blocks whose upper one is invalid, ranges of 2, a delay of 1, a walk limit of 1, follow mode |
| submit_fork | `SubmitsNextMissing` fails | the same branches, all valid, the node's chain ending on the stale one |

The second range, 2..3, is stable at height 4 and not at 3: the walk from 3 to its first height must be
allowed, the one from 4 to 2 is longer than the limit, and the index answers for 3 when the
node's chain is on the stale branch, which lacks its parent. A walk limit of
`stable_delay + range_size - 2`, here 1 + 2 - 2, is the least for which `LimitMeansPublished` holds. Fairness of `Run` is that of a loop that
goes on while its calls are answered.

### Proofs (SubmitNextProofs)

`SubmitInvariant` is `Spec => []SubmitInv`, for any set of blocks, whichever of them are invalid,
any main branch and any limit. The node's part (`NodeInv`): headers come with their ancestors;
a block found invalid was connected when it was (`FailedConnected`); and no stored chain is
longer than the active one, but those the node knows to be invalid (`ActiveIsBest`). From it:

- `WalksArrive`: a walk starts at a tip at or above the target, goes down by one, and stops
  at the target, so `bestChainTip` never finds no tip (`TipAbove`, from the heights the node
  reported) and no walk passes its target. `Walking` adds that a walk is as far below a known header as it
  has gone.
- `WalksStayViable`: the tip a walk starts from is not one the node has marked invalid, and none of
  its ancestors is.
- `ParentsOnOneBranch` and `CountedIsActive`, for a node that hears of one branch: the target is
  the height after the active chain's at most (`NextToActive`), and a block that counts as submitted is on
  it, whether by an answer, a `duplicate`, or the height read after a call that failed. Both suppose
  that the block the provider follows is valid (`MainIsValid`), as its own node has found.
- `CountedIsHeld`: with any forks, a valid block that an answer makes count is held by the node.
- `LimitsMeanPublished`: if `RecentWalkLimit >= StableDelay + RangeSize - 2`, a run gives up a walk only
  below a range that the provider has indexed by then, unless the provider is behind (`Prompt`). `Prompt`
  speaks of every header the node knows of. Its best header would not do: when a block is found
  invalid the best header falls back to the active chain, while a walk may be on a longer branch.

### BenchDownload

`BenchDownload` with `enqueueBenchDownloadJobs` (`Start`, `IndexFound`, `IndexMissing`,
`IndexFails`, `HandOut`, `StopHandingOut`, `RangeDone`), its workers (`Receive`,
`ChannelClosed`, `DownloadSucceeds`, `DownloadFails`) and the buffered channel, while the provider
publishes ranges and the user interrupts. The run has one worker or two, ranges of 4 and
three requests: no last height, one below the first, one inside a range; one worker's
channel holds four of the seven heights, so the hand-over blocks.
`Accounted`, `UninterruptedIsComplete` and `ResultIsFinal` are invariants of what is counted;
`Returns` is that neither side waits for the other for ever. BenchDownloadProofs proves the
first three for any workers and heights, from `BenchInv`: the height accounting, what each place
of the call knows of the heights (`HeightInPlace`) and why a worker left (`ExitsExplained`).

## 5. Machine words

`RangeWords` has the arithmetic of `rangeindex` and of `endOfRange` and `nextRangeStart` on
numbers modulo `MaxWord + 1`, with the loops of `UploadOnce` and `uploadRangeIndex`, and the bytes of
an index. The run takes all requests, tips, range sizes from 1 to 7 and stable delays from 0 to 4
on twelve words: sizes that divide the words, where the last range ends with them, and
sizes that do not, where `endOfRange` saturates. Small words are as good as large ones: the code
compares, adds and divides, and no constant is near 2^64 but the greatest word. A chain
is shorter than the words. The properties are on natural numbers: no range is entered
twice, exactly the blocks and ranges asked for are handled (`CoversRequest`), an index answers
for its range only (`IndexReadsBack`), and the loop ends (`Ends`).

RangeWordsProofs proves the two for every word width, and with it 2^64, every range size and delay
that fit a word, and every hash size. `WordsInv` is the loop's invariant: the start of the loop is a multiple of the range
size between the first range and `to`; everything from the first range's start to below it is
uploaded, and the complete, stable ranges below it are indexed (`Looping`); and no indexed range
ends above the greatest word (`Indexes`), although `endOfRange` saturates there: the highest tip is one
less than the greatest word, so a range that saturates is not complete. `Helpers` shows that no
helper wraps where the loop calls it, `AlignedApart` that two starts are a range apart, and
`HashesReadBack` that the bytes of an index give back the hash that was put at each of its heights.

## 6. What the code does not do

### The three violated properties

- *An index over a gap* (oneshot_gap). A parallel upload is killed with a later block stored
  and an earlier one not; the next run probes blocks around the gap, finds them, and publishes the index.
  No run looks at the range again. A reorganisation between two uploads does the same
  with a single upload at a time (`UploadWorkers = 1`, `ReorgDepth = StableDelay = 2`, heights from 2 to 5), and a put that is refused because another uploader's is under
  way, which then fails, with two uploaders: both without `calm` in `CalmIndexComplete`.
- *The wrong next block* (submit_fork). The target is `blocks + 1` on the node's active chain, but the
  index or the walk answers for the best branch: the parent is missing, and the fork point
  is never submitted.
- *A far height stops a near one* (pipeline_walk). The window resolves heights ahead of the one to submit;
  when the walk to a later one is too long the run ends before the block that was resolved is
  submitted, and every restarted process does the same. With the defaults a tip 2500 blocks above a
  range without index is enough, and `stable_delay + range_size` lets it be 4998.

### Premises the properties need

Each of these holds only under the premise named, which is part of its statement, of its
constants or of its specification. What happens without it:

| Property | Premise | Without it |
|---|---|---|
| `TailArchived` | no chain move during an attempt (`movedMidAttempt`) | a block uploaded, replaced before its hash is read again, and the new one remembered and not stored: it is stored when its range is published |
| `TailArchived` | the probes of the start passed over no gap (`gapPassed`) | in follower_live's bounds, a crash in the parallel upload of 0..3 leaves 1 as a gap, and the next start, which probes 0 and 2, does not look there. One upload at a time is not enough (`UploadWorkers = 1`, `ReorgDepth = StableDelay = 2`, `RangeSize = 8`, `ProbeStep = 2`, heights 4 to 5): 0..3 are uploaded, the chain is replaced from 3 on, the new 4 is stored and the process killed; the next one probes 0, 2 and 4, finds them, and uploads from 4 on, so the new 3 is missing. `IndexComplete` holds all the same, because publishing uploads the whole range |
| `AlarmJustified` | no `to_height` below the published boundary (in the property) | `ToHeight = 0` with range 0..1 published raises the alarm although the chain never changed |
| `QuietChainRests` | the chain rests at or above `from_height` (`TipUnmanaged`) | in follower_live's bounds, `FromHeight = 2` with the tip at 1 makes `HasWork` true at every attempt, and `runUpload` calls again without a pause |
| `CatchesUp` (pipeline) | a restart after every exit (`Launch`) | the process exits at the first 404 for a block heard of before it is archived |
| `SubmittedIsHeld` | the block is valid | `duplicate-invalid` contains `duplicate`, so a block the node has refused counts as submitted when it is submitted again, as does any block above it |
| `SubmittedIsActive` | one branch | after a lost answer the height alone is compared, so another branch's block counts as this one |
| `SubmitsNextOnOneBranch`, `SubmittedIsActive` | the branch the provider follows is valid (the theorems: `MainIsValid`) | an invalid block of it is refused once, counts by its `duplicate-invalid` the next time, and the run goes on to a height above a block that is not connected |
| `LimitMeansPublished` | the limit covers `stable_delay` and a range | the default limit of 2500 is below the 4998 the other defaults need; the client fails until the index appears |
| `UninterruptedIsComplete` | nobody interrupts | a worker whose download fails after the interrupt drops its height, and `err` is nil |

## 7. Only model-checked, and not modelled

Only model-checked: liveness (`RunEnds`, `CatchesUp`, `QuietChainRests`,
`StableRangesPublished`, `CallReturns`, `Returns`, `Ends`), which needs fairness and so is out
of the prover's reach. Every other property of a passing run has a theorem, some under a premise
that section 6 names. `IndexInv`, `CacheInv`, `RestInv`, `TailInv`, `CalmInv`, `PipelineInv`, `PoolInv`,
`SubmitInv`, `WordsInv` and `BenchInv` are only proved, in no configuration; TLC agrees when they are added to one. So are the type invariants of the smaller
modules: TLC agrees, and the configurations keep to what the code could get wrong.

Not modelled: HTTP, JSON-RPC and authentication (`btcrpc`, a call answers or fails), S3 signing
and URLs, the double SHA-256 (`blockhash`, that a download is checked against it is one of the ways a
download fails), hex and key formatting, flags and the environment, the benchmark's
reporter, which only reads the counters, and its stops at the greatest 64-bit height (`bench.go`
166-175; `RangeWords` has the loop of `UploadOnce` only), log lines. None keeps state the properties
depend on.

## 8. Running

    tlc -workers 2 -config follower_stable.cfg MCUploadFollower.tla
    tlc -workers 2 -config pipeline.cfg MCSubmitPipeline.tla
    tlapm UploadFollowerProofs.tla
    tlapm UploadFollowerCacheProofs.tla
    tlapm ShardedUploadProofs.tla
    tlapm SubmitPipelineProofs.tla
    tlapm UploadPoolProofs.tla
    tlapm SubmitNextProofs.tla
    tlapm RangeWordsProofs.tla
    tlapm BenchDownloadProofs.tla

The module of each configuration is in PROJECT.json. Definitions marked *Mutant* in
the modules are what a plausible mistake would make of the definition that follows
them; PROJECT.json pairs each with the property it breaks.
