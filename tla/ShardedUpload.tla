----------------------------- MODULE ShardedUpload ---------------------------
(***************************************************************************)
(* The provider without --follow: runs of the package function UploadOnce  *)
(* of sync.go, by several uploaders that share one bucket and whose shards *)
(* of heights may overlap.  A run goes through the ranges from from-height *)
(* on; it probes and uploads each range without an index, and indexes it   *)
(* if it is complete and stable.                                           *)
(*                                                                         *)
(* A step is one call with the code up to the next one.  A put is three    *)
(* steps: it is sent, it takes effect, it is answered.  R2 may refuse one  *)
(* of two concurrent puts of one object with ConditionalRequestConflict.   *)
(***************************************************************************)
EXTENDS Bucket, UploadProbes, FiniteSets, Functions

CONSTANTS
  Uploaders,
  FromHeight,     \* uploader -> first height of its shard
  ToHeight,       \* uploader -> last height of its shard
  StableDelay,
  UploadWorkers,  \* block uploads one uploader has in flight at once
  PutsConflict    \* whether R2 answers ConditionalRequestConflict

ASSUME ShardAssumption ==
  /\ Uploaders # {}
  /\ FromHeight \in [Uploaders -> Nat]
  /\ ToHeight \in [Uploaders -> Nat]
  /\ StableDelay \in Nat
  /\ UploadWorkers \in Nat \ {0}
  /\ PutsConflict \in BOOLEAN

VARIABLES
  pc,           \* the call each uploader makes next, "idle" between runs
  localTip,     \* GetBlockCount of its run
  start,        \* the range in hand
  uploadStart,  \* where the upload in it starts
  todo,         \* heights whose hash is still to be read
  missing,      \* probed heights that turned out not to be stored
  inflight,     \* height -> hash read for it, being uploaded
  putting,      \* those of them whose put has been sent
  cursor,       \* height of the loop of uploadRangeIndex
  hashes,       \* its hashes slice
  outcome       \* how the last run ended

rangeVars == <<localTip, start>>
batchVars == <<uploadStart, todo, missing, inflight, putting>>
indexVars == <<cursor, hashes>>
runVars == <<pc, rangeVars, batchVars, indexVars, outcome>>
vars == <<chainVars, archiveVars, runVars>>

NoHashes == [h \in {} |-> h]

Set(f, u, value) == [f EXCEPT ![u] = value]

Learn(known, height, hash) ==
  [h \in DOMAIN known \cup {height} |-> IF h = height THEN hash ELSE known[h]]

EndHeight(u, height) == IF ToHeight[u] < height THEN ToHeight[u] ELSE height

End(u) == EndHeight(u, localTip[u])

RangeEnd(u) == EndOfRange(start[u])

UploadEnd(u) == IF RangeEnd(u) > End(u) THEN End(u) ELSE RangeEnd(u)

(* As in UploadFollower: handed out in order, one height per worker.       *)
HandedOut(u, h) ==
  Cardinality({g \in todo[u] \cup DOMAIN inflight[u] : g < h}) < UploadWorkers

Goto(u, next) == pc' = Set(pc, u, next)

-----------------------------------------------------------------------------
(* A run ends: its locals are gone.                                        *)
EndRun(u, how) ==
  /\ Goto(u, "idle")
  /\ localTip' = Set(localTip, u, 0)
  /\ start' = Set(start, u, 0)
  /\ uploadStart' = Set(uploadStart, u, 0)
  /\ todo' = Set(todo, u, {})
  /\ missing' = Set(missing, u, {})
  /\ inflight' = Set(inflight, u, NoHashes)
  /\ putting' = Set(putting, u, {})
  /\ cursor' = Set(cursor, u, 0)
  /\ hashes' = Set(hashes, u, NoHashes)
  /\ outcome' = Set(outcome, u, how)

(* The end of the loop's body: the next range, or the end of the run.      *)
NextRange(u) ==
  IF NextRangeStart(start[u]) <= End(u)
  THEN /\ Goto(u, "headRange")
       /\ start' = Set(start, u, NextRangeStart(start[u]))
       /\ hashes' = Set(hashes, u, NoHashes)
       /\ cursor' = Set(cursor, u, 0)
       /\ UNCHANGED <<localTip, batchVars, outcome>>
  ELSE EndRun(u, "done")

StartRun(u) ==
  /\ pc[u] = "idle"
  /\ FromHeight[u] <= EndHeight(u, tip)
  /\ Goto(u, "headRange")
  /\ localTip' = Set(localTip, u, tip)
  /\ start' = Set(start, u, StartHeight(FromHeight[u]))
  /\ outcome' = Set(outcome, u, "none")
  /\ UNCHANGED <<chainVars, archiveVars, batchVars, indexVars>>

NothingToDo(u) ==
  /\ pc[u] = "idle"
  /\ FromHeight[u] > EndHeight(u, tip)
  /\ outcome' = Set(outcome, u, "done")
  /\ UNCHANGED <<chainVars, archiveVars, pc, rangeVars, batchVars, indexVars>>

RangePublished(u) ==
  /\ pc[u] = "headRange"
  /\ start[u] \in DOMAIN index
  /\ NextRange(u)
  /\ UNCHANGED <<chainVars, archiveVars>>

StartProbes(u) ==
  /\ pc[u] = "headRange"
  /\ start[u] \notin DOMAIN index
  /\ Goto(u, "probe")
  /\ todo' = Set(todo, u, UploadProbeHeights(start[u], UploadEnd(u)))
  /\ UNCHANGED <<chainVars, archiveVars, rangeVars, indexVars, outcome>>
  /\ UNCHANGED <<uploadStart, missing, inflight, putting>>

Probe(u, h) ==
  /\ pc[u] = "probe"
  /\ h \in todo[u]
  /\ HandedOut(u, h)
  /\ h <= tip
  /\ todo' = Set(todo, u, todo[u] \ {h})
  /\ missing' = IF BlockAt(h) \in blocks THEN missing ELSE Set(missing, u, missing[u] \cup {h})
  /\ UNCHANGED <<chainVars, archiveVars, pc, rangeVars, indexVars, outcome>>
  /\ UNCHANGED <<uploadStart, inflight, putting>>

ProbesDone(u) ==
  /\ pc[u] = "probe"
  /\ todo[u] = {}
  /\ Goto(u, "upload")
  /\ missing' = Set(missing, u, {})
  /\ \/ /\ missing[u] = {}
        /\ uploadStart' = Set(uploadStart, u, FinalUploadWindowStart(start[u], UploadEnd(u)))
     \/ \E m \in missing[u] :
          /\ \A other \in missing[u] : m <= other
          /\ uploadStart' = Set(uploadStart, u, PreviousUploadWindowStart(start[u], m))
  /\ todo' = Set(todo, u, uploadStart'[u]..UploadEnd(u))
  /\ UNCHANGED <<chainVars, archiveVars, rangeVars, indexVars, outcome, inflight, putting>>

-----------------------------------------------------------------------------
(* uploadBlock, on one of the workers: getblockhash and HEAD, then         *)
(* getblock and the put.  A block that another uploader stores between the *)
(* first two is found stored by the HEAD or by the put, all the same.      *)

ReadBlock(u, h) ==
  /\ pc[u] = "upload"
  /\ h \in todo[u]
  /\ HandedOut(u, h)
  /\ h <= tip
  /\ todo' = Set(todo, u, todo[u] \ {h})
  /\ inflight' = IF BlockAt(h) \in blocks
                 THEN inflight
                 ELSE Set(inflight, u, Learn(inflight[u], h, BlockAt(h)))
  /\ UNCHANGED <<chainVars, archiveVars, pc, rangeVars, indexVars, outcome>>
  /\ UNCHANGED <<uploadStart, missing, putting>>

SendPut(u, h) ==
  /\ pc[u] = "upload"
  /\ h \in DOMAIN inflight[u] \ putting[u]
  /\ putting' = Set(putting, u, putting[u] \cup {h})
  /\ UNCHANGED <<chainVars, archiveVars, pc, rangeVars, indexVars, outcome>>
  /\ UNCHANGED <<uploadStart, todo, missing, inflight>>

(* R2 creates the object, unless it exists.                                *)
PutLands(u, h) ==
  /\ h \in putting[u]
  /\ blocks' = blocks \cup {inflight[u][h]}
  /\ UNCHANGED <<chainVars, index, runVars>>

PutSettled(u, h) ==
  /\ inflight' = Set(inflight, u, Restrict(inflight[u], DOMAIN inflight[u] \ {h}))
  /\ putting' = Set(putting, u, putting[u] \ {h})
  /\ UNCHANGED <<chainVars, archiveVars, pc, rangeVars, indexVars, outcome>>
  /\ UNCHANGED <<uploadStart, todo, missing>>

(* The object was created, or PreconditionFailed says that it exists.      *)
PutAnswered(u, h) ==
  /\ h \in putting[u]
  /\ inflight[u][h] \in blocks
  /\ PutSettled(u, h)

(* ConditionalRequestConflict: another put of the object is under way.     *)
PutConflicts(u, h) ==
  /\ PutsConflict
  /\ h \in putting[u]
  /\ \E v \in Uploaders \ {u} : \E g \in putting[v] : inflight[v][g] = inflight[u][h]
  /\ PutSettled(u, h)

(* Mutant: a range must be one block more than stable.                     *)
IndexableLate(u) ==
  /\ localTip[u] >= StableDelay
  /\ RangeEnd(u) <= End(u)
  /\ RangeEnd(u) < localTip[u] - StableDelay

Indexable(u) ==
  /\ localTip[u] >= StableDelay
  /\ RangeEnd(u) <= End(u)
  /\ RangeEnd(u) <= localTip[u] - StableDelay

UploadDone(u) == pc[u] = "upload" /\ todo[u] = {} /\ inflight[u] = NoHashes

RangeUploaded(u) ==
  /\ UploadDone(u)
  /\ Indexable(u)
  /\ Goto(u, "headIndex")
  /\ UNCHANGED <<chainVars, archiveVars, rangeVars, batchVars, indexVars, outcome>>

TailUploaded(u) ==
  /\ UploadDone(u)
  /\ ~Indexable(u)
  /\ NextRange(u)
  /\ UNCHANGED <<chainVars, archiveVars>>

-----------------------------------------------------------------------------
(* uploadRangeIndexIfMissing.                                              *)

IndexExists(u) ==
  /\ pc[u] = "headIndex"
  /\ start[u] \in DOMAIN index
  /\ NextRange(u)
  /\ UNCHANGED <<chainVars, archiveVars>>

IndexMissing(u) ==
  /\ pc[u] = "headIndex"
  /\ start[u] \notin DOMAIN index
  /\ Goto(u, "readHashes")
  /\ cursor' = Set(cursor, u, start[u])
  /\ UNCHANGED <<chainVars, archiveVars, rangeVars, batchVars, hashes, outcome>>

ReadRangeHash(u) ==
  /\ pc[u] = "readHashes"
  /\ cursor[u] <= tip
  /\ hashes' = Set(hashes, u, Learn(hashes[u], cursor[u], BlockAt(cursor[u])))
  /\ cursor' = Set(cursor, u, cursor[u] + 1)
  /\ Goto(u, IF cursor[u] = RangeEnd(u) THEN "putIndex" ELSE "readHashes")
  /\ UNCHANGED <<chainVars, archiveVars, rangeVars, batchVars, outcome>>

IndexLands(u) ==
  /\ pc[u] = "putIndex"
  /\ index' = PutObject(index, start[u], hashes[u])
  /\ UNCHANGED <<chainVars, blocks, runVars>>

IndexAnswered(u) ==
  /\ pc[u] = "putIndex"
  /\ start[u] \in DOMAIN index
  /\ NextRange(u)
  /\ UNCHANGED <<chainVars, archiveVars>>

IndexConflicts(u) ==
  /\ PutsConflict
  /\ pc[u] = "putIndex"
  /\ \E v \in Uploaders \ {u} : pc[v] = "putIndex" /\ start[v] = start[u]
  /\ NextRange(u)
  /\ UNCHANGED <<chainVars, archiveVars>>

-----------------------------------------------------------------------------
(* A call fails, or the process is killed.  A put that was sent has taken  *)
(* effect by then or never will.                                           *)
Stops(u) ==
  /\ pc[u] # "idle"
  /\ EndRun(u, "stopped")
  /\ UNCHANGED <<chainVars, archiveVars>>

ChainMoves == NodeMoves /\ UNCHANGED runVars

Init ==
  /\ ChainInit
  /\ BucketInit
  /\ pc = [u \in Uploaders |-> "idle"]
  /\ localTip = [u \in Uploaders |-> 0]
  /\ start = [u \in Uploaders |-> 0]
  /\ uploadStart = [u \in Uploaders |-> 0]
  /\ todo = [u \in Uploaders |-> {}]
  /\ missing = [u \in Uploaders |-> {}]
  /\ inflight = [u \in Uploaders |-> NoHashes]
  /\ putting = [u \in Uploaders |-> {}]
  /\ cursor = [u \in Uploaders |-> 0]
  /\ hashes = [u \in Uploaders |-> NoHashes]
  /\ outcome = [u \in Uploaders |-> "none"]

UploadBlocks(u) ==
  \/ StartProbes(u) \/ \E h \in todo[u] : Probe(u, h)
  \/ ProbesDone(u)
  \/ \E h \in todo[u] : ReadBlock(u, h)
  \/ \E h \in DOMAIN inflight[u] : SendPut(u, h) \/ PutLands(u, h) \/ PutAnswered(u, h)
  \/ RangeUploaded(u) \/ TailUploaded(u)

UploadRangeIndex(u) ==
  \/ IndexExists(u) \/ IndexMissing(u) \/ ReadRangeHash(u)
  \/ IndexLands(u) \/ IndexAnswered(u)

Run(u) == StartRun(u) \/ NothingToDo(u) \/ RangePublished(u) \/ UploadBlocks(u) \/ UploadRangeIndex(u)

Conflict(u) == IndexConflicts(u) \/ \E h \in DOMAIN inflight[u] : PutConflicts(u, h)

Next == ChainMoves \/ \E u \in Uploaders : Run(u) \/ Conflict(u) \/ Stops(u)

Spec == Init /\ [][Next]_vars

-----------------------------------------------------------------------------
(* Properties                                                              *)

(* The types of each run's locals, the bucket and the chain.               *)
TypeOK ==
  /\ ChainTypeOK
  /\ BucketTypeOK
  /\ pc \in [Uploaders -> {"idle", "headRange", "probe", "upload", "headIndex", "readHashes", "putIndex"}]
  /\ localTip \in [Uploaders -> Heights]
  /\ start \in [Uploaders -> Heights]
  /\ uploadStart \in [Uploaders -> Heights]
  /\ todo \in [Uploaders -> SUBSET Heights]
  /\ missing \in [Uploaders -> SUBSET Heights]
  /\ \A u \in Uploaders :
       /\ HashesByHeight(inflight[u])
       /\ putting[u] \subseteq DOMAIN inflight[u]
       /\ HashesByHeight(hashes[u])
  /\ cursor \in [Uploaders -> Nat]
  /\ outcome \in [Uploaders -> {"none", "done", "stopped"}]

(* Every hash in a published index names a stored block, whichever of the  *)
(* uploaders published it and whatever the others were doing.              *)
IndexComplete ==
  \A s \in DOMAIN index : \A h \in RangeHeights(s) : index[s][h] \in blocks

(* Why the probes suffice: no block of a range is stored before the blocks *)
(* below it in the range, so a stored probe vouches for all of them.       *)
StoredFromRangeStart ==
  \A h \in 0..tip :
     BlockAt(h) \in blocks => \A g \in StartHeight(h)..h : BlockAt(g) \in blocks

(* A run that ends well leaves nothing behind: the blocks of its shard are *)
(* stored, and its complete stable ranges have their index.                *)
EndsComplete ==
  \A u \in Uploaders :
    pc[u] # "idle" /\ outcome'[u] = "done" =>
      /\ \A h \in StartHeight(FromHeight[u])..End(u) : BlockAt(h) \in blocks'
      /\ \A s \in StartHeight(FromHeight[u])..End(u) :
           s % RangeSize = 0 /\ EndOfRange(s) <= End(u) /\ EndOfRange(s) + StableDelay <= localTip[u]
             => s \in DOMAIN index'

(* An index, once seen, stays as it is: of two uploaders that found it     *)
(* missing and read its hashes before and after a reorganisation, the      *)
(* second does not replace what clients may have read already.             *)
IndexNeverReplaced ==
  [][\A s \in DOMAIN index : s \in DOMAIN index' /\ index'[s] = index[s]]_vars

=============================================================================
