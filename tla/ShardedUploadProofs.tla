------------------------- MODULE ShardedUploadProofs -------------------------
(***************************************************************************)
(* Machine-checked properties of one-shot uploads that share a bucket, for *)
(* any number of uploaders, any shards, range size, delay and probe step,  *)
(* each uploading one block at a time.                                     *)
(***************************************************************************)
EXTENDS MCShardedUpload, FiniteSetTheorems, TLAPS

(* Quotients are unique.                                                   *)
LEMMA Quotients ==
  ASSUME NEW n \in Nat \ {0}, NEW d \in Int, NEW q \in Int, NEW x \in Int,
         n * d <= x, x <= n * d + n - 1, n * q <= x, x <= n * q + n - 1
  PROVE  d = q
<1>1. ASSUME NEW a \in Int, NEW c \in Int, a > c
      PROVE  n * a >= n * c + n
  <2>1. n * (a - c - 1) >= 0
    BY <1>1
  <2>2. n * (a - c - 1) = n * a - n * c - n
    OBVIOUS
  <2> QED BY <2>1, <2>2
<1>2. n * d \in Int /\ n * q \in Int
  OBVIOUS
<1>3. CASE d > q
  <2>1. n * d >= n * q + n
    BY <1>1, <1>3
  <2> QED BY <2>1, <1>2
<1>4. CASE q > d
  <2>1. n * q >= n * d + n
    BY <1>1, <1>4
  <2> QED BY <2>1, <1>2
<1> QED BY <1>3, <1>4

(* The heights of an aligned range have its start as their range start.    *)
LEMMA StartHeightOf ==
  ASSUME NEW q \in Nat, NEW h \in Nat, q * RangeSize <= h, h <= q * RangeSize + RangeSize - 1
  PROVE  StartHeight(h) = q * RangeSize
<1> DEFINE d == h \div RangeSize
           r == h % RangeSize
<1>1. d \in Nat /\ r \in 0..(RangeSize - 1) /\ h = RangeSize * d + r
  BY RangeSizeAssumption
<1>2. RangeSize * q = q * RangeSize /\ RangeSize * q \in Int /\ RangeSize * d \in Int
  BY <1>1, RangeSizeAssumption
<1> HIDE DEF d, r
<1>3. RangeSize * d <= h /\ h <= RangeSize * d + RangeSize - 1
  BY <1>1, <1>2, RangeSizeAssumption
<1>4. d = q
  BY <1>1, <1>2, <1>3, Quotients, RangeSizeAssumption
<1> QED BY <1>4 DEF StartHeight, d

(* A height lies in the range that starts at its StartHeight.              *)
LEMMA StartHeightBounds ==
  ASSUME NEW h \in Nat
  PROVE  /\ \E q \in Nat : StartHeight(h) = q * RangeSize
         /\ StartHeight(h) \in Nat /\ StartHeight(h) <= h /\ h <= EndOfRange(StartHeight(h))
<1> DEFINE d == h \div RangeSize
           r == h % RangeSize
<1>1. d \in Nat /\ r \in 0..(RangeSize - 1) /\ h = RangeSize * d + r
  BY RangeSizeAssumption
<1>2. RangeSize * d = d * RangeSize /\ d * RangeSize \in Nat
  BY <1>1, RangeSizeAssumption
<1> HIDE DEF d, r
<1>3. d * RangeSize <= h /\ h <= d * RangeSize + RangeSize - 1
  BY <1>1, <1>2, RangeSizeAssumption
<1> QED BY <1>1, <1>2, <1>3 DEF StartHeight, EndOfRange, d

-----------------------------------------------------------------------------
(* The inductive invariant, for a calm chain and bucket.                   *)

Stored(h) == BlockAt(h) \in blocks

(* Only blocks of the active chain are stored and indexed, those of a      *)
(* range are stored from its start on, and indexed ones are stored.        *)
BucketInv ==
  /\ tip \in Nat
  /\ \A b \in blocks : \E h \in 0..tip : b = BlockAt(h)
  /\ StoredFromRangeStart
  /\ IndexComplete
  /\ \A s \in DOMAIN index :
       /\ s \in Nat /\ EndOfRange(s) <= tip
       /\ \A h \in RangeHeights(s) : index[s][h] = BlockAt(h)

Aligned(s) == \E q \in Nat : s = q * RangeSize

LocalTypes(u) ==
  /\ localTip[u] \in 0..tip
  /\ Aligned(start[u])
  /\ putting[u] \subseteq DOMAIN inflight[u]
  /\ pc[u] # "idle" =>
       start[u] <= End(u) /\ StartHeight(FromHeight[u]) <= start[u] /\ outcome[u] = "none"

(* What a run leaves empty for its next range.                             *)
LocalsReset(u) ==
  /\ pc[u] # "probe" => missing[u] = {}
  /\ pc[u] # "upload" => inflight[u] = NoHashes
  /\ pc[u] \notin {"readHashes", "putIndex"} => hashes[u] = NoHashes

(* Every probe is still to be made, has found its block missing, or has    *)
(* found it stored.                                                        *)
Probing(u) ==
  LET heights == UploadProbeHeights(start[u], UploadEnd(u))
  IN  pc[u] = "probe" =>
        /\ todo[u] \subseteq heights
        /\ missing[u] \subseteq heights
        /\ \A h \in heights : h \in todo[u] \/ h \in missing[u] \/ Stored(h)

(* Every block of the range is unread, in flight or stored, and nothing    *)
(* lower than a block in flight is left.                                   *)
Uploading(u) ==
  pc[u] = "upload" =>
    /\ todo[u] \cup DOMAIN inflight[u] \subseteq start[u]..UploadEnd(u)
    /\ \A h \in start[u]..UploadEnd(u) :
         h \in todo[u] \/ h \in DOMAIN inflight[u] \/ Stored(h)
    /\ \A h \in DOMAIN inflight[u] :
         inflight[u][h] = BlockAt(h) /\ \A g \in todo[u] \cup DOMAIN inflight[u] : h <= g

Indexing(u) ==
  /\ pc[u] \in {"headIndex", "readHashes", "putIndex"} =>
       RangeEnd(u) <= End(u) /\ \A h \in start[u]..RangeEnd(u) : Stored(h)
  /\ pc[u] = "readHashes" =>
       /\ cursor[u] \in start[u]..RangeEnd(u)
       /\ hashes[u] = [h \in start[u]..(cursor[u] - 1) |-> BlockAt(h)]
  /\ pc[u] = "putIndex" => hashes[u] = [h \in start[u]..RangeEnd(u) |-> BlockAt(h)]

(* The ranges below the one in hand are done with.                         *)
BlocksBehind(u) ==
  pc[u] # "idle" => \A h \in StartHeight(FromHeight[u])..(start[u] - 1) : Stored(h)

RangesBehind(u) ==
  pc[u] # "idle" =>
    \A s \in StartHeight(FromHeight[u])..(start[u] - 1) :
       Aligned(s) /\ EndOfRange(s) <= End(u) /\ EndOfRange(s) + StableDelay <= localTip[u]
         => s \in DOMAIN index

RunInv(u) ==
  /\ LocalTypes(u)
  /\ LocalsReset(u)
  /\ Probing(u)
  /\ Uploading(u)
  /\ Indexing(u)
  /\ BlocksBehind(u)
  /\ RangesBehind(u)

(* A local variable of the runs is a function of the uploader.             *)
RunMap(f) == f = [u \in Uploaders |-> f[u]]

RunMaps ==
  /\ RunMap(pc) /\ RunMap(localTip) /\ RunMap(start) /\ RunMap(uploadStart)
  /\ RunMap(todo) /\ RunMap(missing) /\ RunMap(inflight) /\ RunMap(putting)
  /\ RunMap(cursor) /\ RunMap(hashes) /\ RunMap(outcome)

CalmState == RunMaps /\ BucketInv /\ \A u \in Uploaders : RunInv(u)

CalmInv == calm => CalmState

-----------------------------------------------------------------------------
(* The locals of the runs.                                                 *)

Locals(u) ==
  <<pc[u], localTip[u], start[u], uploadStart[u], todo[u], missing[u], inflight[u], putting[u],
    cursor[u], hashes[u], outcome[u]>>

(* Setting one uploader's local leaves a function of the uploaders.        *)
LEMMA SetMap ==
  ASSUME NEW f, RunMap(f), NEW u \in Uploaders, NEW v
  PROVE  /\ RunMap(Set(f, u, v)) /\ Set(f, u, v)[u] = v
         /\ \A w \in Uploaders : w # u => Set(f, u, v)[w] = f[w]
BY DEF RunMap, Set

(* A variable that a step changes at u at most.                            *)
At(u, f, g) == g = f \/ \E v : g = Set(f, u, v)

(* The same for any step that changes one uploader's local.                *)
LEMMA AtMap ==
  ASSUME NEW f, NEW g, RunMap(f), NEW u \in Uploaders, At(u, f, g)
  PROVE  RunMap(g) /\ \A w \in Uploaders : w # u => g[w] = f[w]
BY SetMap DEF At

OnlyAt(u) ==
  /\ At(u, pc, pc') /\ At(u, localTip, localTip') /\ At(u, start, start')
  /\ At(u, uploadStart, uploadStart') /\ At(u, todo, todo') /\ At(u, missing, missing')
  /\ At(u, inflight, inflight') /\ At(u, putting, putting') /\ At(u, cursor, cursor')
  /\ At(u, hashes, hashes') /\ At(u, outcome, outcome')

(* A step of one uploader leaves the others' locals alone.                 *)
LEMMA OnlyAtStays ==
  ASSUME RunMaps, NEW u \in Uploaders, OnlyAt(u)
  PROVE  RunMaps' /\ \A w \in Uploaders : w # u => UNCHANGED Locals(w)
<1>1. RunMaps'
  BY AtMap DEF RunMaps, OnlyAt, RunMap
<1>2. ASSUME NEW w \in Uploaders, w # u PROVE UNCHANGED Locals(w)
  <2>1. pc'[w] = pc[w]
    BY <1>2, AtMap DEF RunMaps, OnlyAt
  <2>2. localTip'[w] = localTip[w]
    BY <1>2, AtMap DEF RunMaps, OnlyAt
  <2>3. start'[w] = start[w]
    BY <1>2, AtMap DEF RunMaps, OnlyAt
  <2>4. uploadStart'[w] = uploadStart[w]
    BY <1>2, AtMap DEF RunMaps, OnlyAt
  <2>5. todo'[w] = todo[w]
    BY <1>2, AtMap DEF RunMaps, OnlyAt
  <2>6. missing'[w] = missing[w]
    BY <1>2, AtMap DEF RunMaps, OnlyAt
  <2>7. inflight'[w] = inflight[w]
    BY <1>2, AtMap DEF RunMaps, OnlyAt
  <2>8. putting'[w] = putting[w]
    BY <1>2, AtMap DEF RunMaps, OnlyAt
  <2>9. cursor'[w] = cursor[w]
    BY <1>2, AtMap DEF RunMaps, OnlyAt
  <2>10. hashes'[w] = hashes[w]
    BY <1>2, AtMap DEF RunMaps, OnlyAt
  <2>11. outcome'[w] = outcome[w]
    BY <1>2, AtMap DEF RunMaps, OnlyAt
  <2> QED
    BY <2>1, <2>2, <2>3, <2>4, <2>5, <2>6, <2>7, <2>8, <2>9, <2>10, <2>11 DEF Locals
<1> QED BY <1>1, <1>2

(* Going on to the next range touches one uploader only.                   *)
LEMMA NextRangeAt ==
  ASSUME NEW u, NextRange(u) \/ \E how : EndRun(u, how)
  PROVE  OnlyAt(u)
<1>1. ASSUME NEW how, EndRun(u, how) PROVE OnlyAt(u)
  BY <1>1 DEF EndRun, Goto, OnlyAt, At
<1>2. CASE NextRange(u) /\ NextRangeStart(start[u]) <= End(u)
  BY <1>2 DEF NextRange, Goto, OnlyAt, At, batchVars
<1>3. CASE NextRange(u) /\ ~(NextRangeStart(start[u]) <= End(u))
  BY <1>1, <1>3 DEF NextRange
<1> QED BY <1>1, <1>2, <1>3

(* So does every step of a run.                                            *)
LEMMA RunsAt ==
  ASSUME NEW u, Run(u) \/ Stops(u)
  PROVE  OnlyAt(u)
<1> USE DEF OnlyAt, At, runVars, rangeVars, batchVars, indexVars
<1>1. CASE Stops(u)
  BY <1>1, NextRangeAt DEF Stops
<1>2. CASE StartRun(u) \/ NothingToDo(u) \/ StartProbes(u)
  BY <1>2 DEF StartRun, NothingToDo, StartProbes, Goto
<1>3. CASE RangePublished(u) \/ TailUploaded(u) \/ IndexExists(u) \/ IndexAnswered(u)
  BY <1>3, NextRangeAt DEF RangePublished, TailUploaded, IndexExists, IndexAnswered
<1>4. ASSUME NEW h, Probe(u, h) PROVE OnlyAt(u)
  BY <1>4 DEF Probe
<1>5. CASE ProbesDone(u)
  BY <1>5 DEF ProbesDone, Goto
<1>6. ASSUME NEW h, ReadBlock(u, h) \/ SendPut(u, h) PROVE OnlyAt(u)
  BY <1>6 DEF ReadBlock, SendPut
<1>7. ASSUME NEW h, PutLands(u, h) \/ PutAnswered(u, h) PROVE OnlyAt(u)
  BY <1>7 DEF PutLands, PutAnswered, PutSettled
<1>8. CASE RangeUploaded(u) \/ IndexMissing(u) \/ ReadRangeHash(u) \/ IndexLands(u)
  BY <1>8 DEF RangeUploaded, IndexMissing, ReadRangeHash, IndexLands, Goto
<1> QED
  BY <1>1, <1>2, <1>3, <1>4, <1>5, <1>6, <1>7, <1>8 DEF Run, UploadBlocks, UploadRangeIndex

-----------------------------------------------------------------------------
(* What a step of the chain or of another run does to a run: nothing, as   *)
(* long as the chain and the bucket only grow.                             *)

Grows ==
  /\ tip' \in Nat /\ tip <= tip'
  /\ \A h \in 0..tip : BlockAt(h)' = BlockAt(h)
  /\ blocks \subseteq blocks'
  /\ DOMAIN index \subseteq DOMAIN index'

(* The range after an aligned one is aligned, and adjacent.                *)
LEMMA AlignedNumbers ==
  ASSUME NEW s, Aligned(s)
  PROVE  s \in Nat /\ Aligned(NextRangeStart(s)) /\ EndOfRange(s) \in Nat
         /\ s <= EndOfRange(s) /\ NextRangeStart(s) = EndOfRange(s) + 1
<1>1. PICK q \in Nat : s = q * RangeSize
  BY DEF Aligned
<1>2. s \in Nat
  BY <1>1, RangeSizeAssumption
<1>3. (q + 1) * RangeSize = q * RangeSize + RangeSize /\ q + 1 \in Nat
  BY <1>1, RangeSizeAssumption
<1> QED
  BY <1>1, <1>2, <1>3, RangeSizeAssumption DEF Aligned, NextRangeStart, EndOfRange

(* The numbers a run compares.                                             *)
LEMMA RunNumbers ==
  ASSUME BucketInv, NEW u \in Uploaders, LocalTypes(u)
  PROVE  /\ start[u] \in Nat /\ localTip[u] \in Nat /\ tip \in Nat /\ End(u) \in Nat
         /\ End(u) <= localTip[u] /\ localTip[u] <= tip
         /\ RangeEnd(u) \in Nat /\ UploadEnd(u) \in Nat /\ start[u] <= RangeEnd(u)
         /\ UploadEnd(u) <= RangeEnd(u) /\ UploadEnd(u) <= End(u)
         /\ RangeEnd(u) <= End(u) => UploadEnd(u) = RangeEnd(u)
         /\ pc[u] # "idle" => start[u] <= UploadEnd(u)
         /\ StartHeight(FromHeight[u]) \in Nat
<1>1. tip \in Nat /\ localTip[u] \in Nat /\ localTip[u] <= tip
  BY DEF BucketInv, LocalTypes
<1>2. End(u) \in Nat /\ End(u) <= localTip[u]
  BY <1>1, ShardAssumption DEF End, EndHeight
<1>3. start[u] \in Nat /\ RangeEnd(u) \in Nat /\ start[u] <= RangeEnd(u)
  BY AlignedNumbers DEF LocalTypes, RangeEnd
<1>4. StartHeight(FromHeight[u]) \in Nat
  BY StartHeightBounds, ShardAssumption
<1> QED BY <1>1, <1>2, <1>3, <1>4 DEF UploadEnd, LocalTypes

(* What holds of the other runs holds when bucket and chain grow.          *)
LEMMA OtherRunsStay ==
  ASSUME BucketInv, NEW w \in Uploaders, RunInv(w), Grows, UNCHANGED Locals(w)
  PROVE  RunInv(w)'
<1>1. /\ pc'[w] = pc[w] /\ localTip'[w] = localTip[w] /\ start'[w] = start[w]
      /\ uploadStart'[w] = uploadStart[w] /\ todo'[w] = todo[w] /\ missing'[w] = missing[w]
      /\ inflight'[w] = inflight[w] /\ putting'[w] = putting[w] /\ cursor'[w] = cursor[w]
      /\ hashes'[w] = hashes[w] /\ outcome'[w] = outcome[w]
  BY DEF Locals
<1>2. End(w)' = End(w) /\ RangeEnd(w)' = RangeEnd(w) /\ UploadEnd(w)' = UploadEnd(w)
  BY <1>1 DEF End, EndHeight, RangeEnd, UploadEnd
<1>3. LocalTypes(w)
  BY DEF RunInv
<1>4. \A h \in 0..tip : BlockAt(h)' = BlockAt(h) /\ (Stored(h) => Stored(h)')
  BY DEF Grows, Stored
<1>5. LocalTypes(w)' /\ LocalsReset(w)'
  BY <1>1, <1>2, <1>3, RunNumbers DEF RunInv, LocalTypes, LocalsReset, Grows, Aligned
<1>6. Probing(w)'
  <2>1. \A h \in UploadProbeHeights(start[w], UploadEnd(w)) : pc[w] = "probe" => h \in 0..tip
    BY <1>3, RunNumbers DEF UploadProbeHeights
  <2> QED BY <1>1, <1>2, <1>4, <2>1 DEF RunInv, Probing
<1>7. Uploading(w)'
  <2>1. \A h \in start[w]..UploadEnd(w) : h \in 0..tip
    BY <1>3, RunNumbers
  <2> QED BY <1>1, <1>2, <1>4, <2>1 DEF RunInv, Uploading
<1>8. Indexing(w)'
  <2>1. RangeEnd(w) <= End(w) => \A h \in start[w]..RangeEnd(w) : h \in 0..tip
    BY <1>3, RunNumbers
  <2>2. ASSUME pc[w] \in {"headIndex", "readHashes", "putIndex"}
        PROVE  RangeEnd(w) <= End(w) /\ \A h \in start[w]..RangeEnd(w) : Stored(h)'
    BY <1>4, <2>1, <2>2 DEF RunInv, Indexing
  <2>3. ASSUME pc[w] = "readHashes"
        PROVE  /\ cursor[w] \in start[w]..RangeEnd(w)
               /\ hashes[w] = [h \in start[w]..(cursor[w] - 1) |-> BlockAt(h)']
    <3>1. cursor[w] \in start[w]..RangeEnd(w)
          /\ hashes[w] = [h \in start[w]..(cursor[w] - 1) |-> BlockAt(h)]
      BY <2>3 DEF RunInv, Indexing
    <3>2. \A h \in start[w]..(cursor[w] - 1) : BlockAt(h)' = BlockAt(h)
      BY <1>3, <1>4, <2>1, <2>2, <2>3, <3>1, RunNumbers
    <3> QED BY <3>1, <3>2
  <2>4. ASSUME pc[w] = "putIndex"
        PROVE  hashes[w] = [h \in start[w]..RangeEnd(w) |-> BlockAt(h)']
    <3>1. \A h \in start[w]..RangeEnd(w) : BlockAt(h)' = BlockAt(h)
      BY <1>4, <2>1, <2>2, <2>4
    <3> QED BY <2>4, <3>1 DEF RunInv, Indexing
  <2> QED BY <1>1, <1>2, <2>2, <2>3, <2>4 DEF Indexing
<1>9. BlocksBehind(w)'
  <2>1. pc[w] # "idle" => \A h \in StartHeight(FromHeight[w])..(start[w] - 1) : h \in 0..tip
    BY <1>3, RunNumbers DEF LocalTypes
  <2> QED BY <1>1, <1>4, <2>1 DEF RunInv, BlocksBehind
<1>10. RangesBehind(w)'
  BY <1>1, <1>2 DEF RunInv, RangesBehind, Grows, Aligned
<1> QED BY <1>5, <1>6, <1>7, <1>8, <1>9, <1>10 DEF RunInv

-----------------------------------------------------------------------------
(* The steps of a run that read the world only.                            *)

QuietWorld == UNCHANGED <<chainVars, archiveVars>>

(* A step that leaves bucket and chain alone is such a growth.             *)
LEMMA QuietGrows ==
  ASSUME BucketInv, QuietWorld
  PROVE  /\ Grows /\ BucketInv'
         /\ \A h : BlockAt(h)' = BlockAt(h) /\ (Stored(h)' <=> Stored(h))
         /\ index' = index /\ tip' = tip
<1>1. \A h : BlockAt(h)' = BlockAt(h)
  BY DEF QuietWorld, chainVars, BlockAt
<1>2. index' = index /\ tip' = tip /\ blocks' = blocks
  BY DEF QuietWorld, chainVars, archiveVars
<1>3. Grows
  BY <1>1, <1>2 DEF Grows, BucketInv
<1>4. BucketInv'
  BY <1>1, <1>2 DEF BucketInv, StoredFromRangeStart, IndexComplete
<1> QED BY <1>1, <1>2, <1>3, <1>4 DEF Stored

(* A run that stays in its range.                                          *)
LEMMA SameRange ==
  ASSUME BucketInv, NEW u \in Uploaders, RunInv(u), QuietWorld, pc[u] # "idle",
         localTip'[u] = localTip[u], start'[u] = start[u], outcome'[u] = outcome[u],
         putting'[u] \subseteq DOMAIN inflight'[u]
  PROVE  /\ LocalTypes(u)' /\ BlocksBehind(u)' /\ RangesBehind(u)'
         /\ End(u)' = End(u) /\ RangeEnd(u)' = RangeEnd(u) /\ UploadEnd(u)' = UploadEnd(u)
<1>1. End(u)' = End(u) /\ RangeEnd(u)' = RangeEnd(u) /\ UploadEnd(u)' = UploadEnd(u)
  BY DEF End, EndHeight, RangeEnd, UploadEnd
<1>2. LocalTypes(u)'
  BY <1>1, QuietGrows DEF RunInv, LocalTypes, Aligned
<1>3. BlocksBehind(u)'
  BY QuietGrows DEF RunInv, BlocksBehind
<1>4. RangesBehind(u)'
  BY <1>1, QuietGrows DEF RunInv, RangesBehind, Aligned
<1> QED BY <1>1, <1>2, <1>3, <1>4

(* A run that ends keeps nothing.                                          *)
LEMMA EndRunInv ==
  ASSUME BucketInv, RunMaps, NEW u \in Uploaders, NEW how, EndRun(u, how), QuietWorld
  PROVE  RunInv(u)'
<1>1. /\ pc'[u] = "idle" /\ localTip'[u] = 0 /\ start'[u] = 0 /\ missing'[u] = {}
      /\ inflight'[u] = NoHashes /\ putting'[u] = {} /\ hashes'[u] = NoHashes
  BY DEF EndRun, Goto, RunMaps, RunMap, Set
<1>2. 0 \in 0..tip'
  BY QuietGrows DEF BucketInv
<1>3. Aligned(0)
  BY RangeSizeAssumption DEF Aligned
<1> QED
  BY <1>1, <1>2, <1>3
     DEF RunInv, LocalTypes, LocalsReset, Probing, Uploading, Indexing, BlocksBehind,
         RangesBehind, Aligned

(* Two aligned starts in one range are the same.                           *)
LEMMA AlignedUnique ==
  ASSUME NEW s, NEW t, Aligned(s), Aligned(t), s <= t, t <= EndOfRange(s)
  PROVE  t = s
<1>1. PICK d \in Nat : s = d * RangeSize
  BY DEF Aligned
<1>2. PICK q \in Nat : t = q * RangeSize
  BY DEF Aligned
<1>3. RangeSize * d = s /\ RangeSize * q = t /\ s \in Int /\ t \in Int
  BY <1>1, <1>2, RangeSizeAssumption
<1>4. RangeSize * d <= t /\ t <= RangeSize * d + RangeSize - 1
      /\ RangeSize * q <= t /\ t <= RangeSize * q + RangeSize - 1
  BY <1>3, RangeSizeAssumption DEF EndOfRange
<1>5. d = q
  BY <1>3, <1>4, Quotients, RangeSizeAssumption
<1> QED BY <1>1, <1>2, <1>5

(* The stable ranges have an index: of all below the next range, if the    *)
(* range in hand is stored, and indexed if it is stable.                   *)
RangeDone(u) ==
  /\ pc[u] # "idle"
  /\ missing[u] = {} /\ inflight[u] = NoHashes
  /\ \A h \in start[u]..UploadEnd(u) : Stored(h)
  /\ RangeEnd(u) <= End(u) /\ RangeEnd(u) + StableDelay <= localTip[u] => start[u] \in DOMAIN index

(* A range that is done joins those behind it.                             *)
LEMMA BehindNextRange ==
  ASSUME BucketInv, NEW u \in Uploaders, RunInv(u), RangeDone(u)
  PROVE  /\ \A h \in StartHeight(FromHeight[u])..UploadEnd(u) : Stored(h)
         /\ \A s \in StartHeight(FromHeight[u])..RangeEnd(u) :
              Aligned(s) /\ EndOfRange(s) <= End(u) /\ EndOfRange(s) + StableDelay <= localTip[u]
                => s \in DOMAIN index
<1>1. LocalTypes(u)
  BY DEF RunInv
<1>2. \A h \in StartHeight(FromHeight[u])..UploadEnd(u) : Stored(h)
  <2> SUFFICES ASSUME NEW h \in StartHeight(FromHeight[u])..UploadEnd(u) PROVE Stored(h)
    OBVIOUS
  <2>1. h \in StartHeight(FromHeight[u])..(start[u] - 1) \/ h \in start[u]..UploadEnd(u)
    BY <1>1, RunNumbers
  <2> QED BY <2>1 DEF RunInv, BlocksBehind, RangeDone
<1>3. ASSUME NEW s \in StartHeight(FromHeight[u])..RangeEnd(u), Aligned(s),
             EndOfRange(s) <= End(u), EndOfRange(s) + StableDelay <= localTip[u]
      PROVE  s \in DOMAIN index
  <2>1. CASE s < start[u]
    <3>1. s \in StartHeight(FromHeight[u])..(start[u] - 1)
      BY <1>1, <2>1, RunNumbers
    <3> QED BY <1>3, <3>1 DEF RunInv, RangesBehind, RangeDone
  <2>2. CASE ~(s < start[u])
    <3>1. s = start[u]
      BY <1>1, <1>3, <2>2, RunNumbers, AlignedUnique DEF LocalTypes, RangeEnd
    <3> QED BY <1>3, <3>1 DEF RangeDone, RangeEnd
  <2> QED BY <2>1, <2>2
<1> QED BY <1>2, <1>3

(* Going on after a range that is done keeps the run's invariant.          *)
LEMMA NextRangeInv ==
  ASSUME BucketInv, RunMaps, NEW u \in Uploaders, RunInv(u), RangeDone(u), NextRange(u),
         QuietWorld
  PROVE  RunInv(u)'
<1>1. CASE ~(NextRangeStart(start[u]) <= End(u))
  BY <1>1, EndRunInv DEF NextRange
<1>2. CASE NextRangeStart(start[u]) <= End(u)
  <2>1. LocalTypes(u)
    BY DEF RunInv
  <2>2. NextRangeStart(start[u]) = RangeEnd(u) + 1 /\ Aligned(NextRangeStart(start[u]))
    BY <2>1, AlignedNumbers DEF LocalTypes, RangeEnd
  <2>3. /\ pc'[u] = "headRange" /\ start'[u] = RangeEnd(u) + 1 /\ localTip'[u] = localTip[u]
        /\ missing'[u] = {} /\ inflight'[u] = NoHashes /\ putting'[u] = putting[u]
        /\ hashes'[u] = NoHashes /\ outcome'[u] = outcome[u]
    BY <1>2, <2>2 DEF NextRange, Goto, batchVars, RunMaps, RunMap, Set, RangeDone
  <2>4. End(u)' = End(u)
    BY <2>3 DEF End, EndHeight
  <2>5. UploadEnd(u) = RangeEnd(u)
    BY <1>2, <2>1, <2>2, RunNumbers
  <2>6. LocalTypes(u)'
    BY <1>2, <2>1, <2>2, <2>3, <2>4, RunNumbers, QuietGrows
       DEF LocalTypes, RangeDone, Aligned
  <2>7. start'[u] - 1 = RangeEnd(u)
    BY <2>1, <2>3, RunNumbers
  <2>8. BlocksBehind(u)' /\ RangesBehind(u)'
    BY <2>3, <2>4, <2>5, <2>7, BehindNextRange, QuietGrows DEF BlocksBehind, RangesBehind, Aligned
  <2> QED
    BY <2>3, <2>6, <2>8 DEF RunInv, LocalsReset, Probing, Uploading, Indexing
<1> QED BY <1>1, <1>2

(* Starting a run.                                                         *)
LEMMA StartsInv ==
  ASSUME BucketInv, RunMaps, NEW u \in Uploaders, RunInv(u), StartRun(u) \/ NothingToDo(u)
  PROVE  RunInv(u)'
<1>1. QuietWorld /\ pc[u] = "idle" /\ LocalTypes(u)
  BY DEF StartRun, NothingToDo, QuietWorld, RunInv
<1>2. /\ missing'[u] = {} /\ inflight'[u] = NoHashes /\ hashes'[u] = NoHashes
      /\ putting'[u] = putting[u] /\ putting[u] \subseteq DOMAIN inflight'[u]
  BY <1>1 DEF StartRun, NothingToDo, batchVars, indexVars, RunInv, LocalsReset, LocalTypes
<1>3. CASE StartRun(u)
  <2>1. /\ pc'[u] = "headRange" /\ localTip'[u] = tip /\ outcome'[u] = "none"
        /\ start'[u] = StartHeight(FromHeight[u]) /\ FromHeight[u] <= EndHeight(u, tip)
    BY <1>3 DEF StartRun, Goto, RunMaps, RunMap, Set
  <2>2. End(u)' = EndHeight(u, tip) /\ EndHeight(u, tip) \in Nat
    BY <1>1, <2>1, RunNumbers, ShardAssumption DEF End, EndHeight
  <2>3. FromHeight[u] \in Nat /\ Aligned(StartHeight(FromHeight[u]))
        /\ StartHeight(FromHeight[u]) \in Nat /\ StartHeight(FromHeight[u]) <= FromHeight[u]
    BY StartHeightBounds, ShardAssumption DEF Aligned
  <2>4. LocalTypes(u)'
    BY <1>1, <1>2, <2>1, <2>2, <2>3, QuietGrows DEF LocalTypes, Grows, Aligned
  <2>5. \A h : h \notin StartHeight(FromHeight[u])..(StartHeight(FromHeight[u]) - 1)
    BY <2>3
  <2> QED
    BY <1>2, <2>1, <2>4, <2>5
       DEF RunInv, LocalsReset, Probing, Uploading, Indexing, BlocksBehind, RangesBehind
<1>4. CASE NothingToDo(u)
  <2>1. pc'[u] = "idle" /\ localTip'[u] = localTip[u] /\ start'[u] = start[u]
    BY <1>1, <1>4 DEF NothingToDo, rangeVars
  <2>2. LocalTypes(u)'
    BY <1>1, <1>2, <2>1, QuietGrows DEF LocalTypes, Aligned
  <2> QED
    BY <1>2, <2>1, <2>2
       DEF RunInv, LocalsReset, Probing, Uploading, Indexing, BlocksBehind, RangesBehind
<1> QED BY <1>3, <1>4

(* Leaving a range: published before, tail stored, index answered.         *)
LEMMA RangeEndsInv ==
  ASSUME BucketInv, RunMaps, NEW u \in Uploaders, RunInv(u),
         RangePublished(u) \/ TailUploaded(u) \/ IndexExists(u) \/ IndexAnswered(u)
  PROVE  RangeDone(u) /\ RunInv(u)'
<1>1. QuietWorld /\ NextRange(u) /\ LocalTypes(u)
  BY DEF RangePublished, TailUploaded, IndexExists, IndexAnswered, QuietWorld, RunInv
<1>2. CASE RangePublished(u)
  <2>1. pc[u] = "headRange" /\ start[u] \in DOMAIN index
    BY <1>2 DEF RangePublished
  <2>2. \A h \in RangeHeights(start[u]) : Stored(h)
    BY <2>1 DEF BucketInv, IndexComplete, Stored
  <2>3. \A h \in start[u]..UploadEnd(u) : h \in RangeHeights(start[u])
    BY <1>1, RunNumbers DEF RangeHeights, RangeEnd
  <2> QED BY <2>1, <2>2, <2>3, <1>1, NextRangeInv DEF RangeDone, RunInv, LocalsReset
<1>3. CASE TailUploaded(u)
  <2>1. pc[u] = "upload" /\ todo[u] = {} /\ inflight[u] = NoHashes /\ ~Indexable(u)
    BY <1>3 DEF TailUploaded, UploadDone
  <2>2. \A h \in start[u]..UploadEnd(u) : Stored(h)
    BY <2>1 DEF RunInv, Uploading, NoHashes
  <2>3. ~(RangeEnd(u) <= End(u) /\ RangeEnd(u) + StableDelay <= localTip[u])
    BY <1>1, <2>1, RunNumbers, ShardAssumption DEF Indexable
  <2> QED BY <2>1, <2>2, <2>3, <1>1, NextRangeInv DEF RangeDone, RunInv, LocalsReset
<1>4. CASE IndexExists(u) \/ IndexAnswered(u)
  <2>1. pc[u] \in {"headIndex", "putIndex"} /\ start[u] \in DOMAIN index
    BY <1>4 DEF IndexExists, IndexAnswered
  <2>2. \A h \in start[u]..UploadEnd(u) : Stored(h)
    BY <1>1, <2>1, RunNumbers DEF RunInv, Indexing
  <2> QED BY <2>1, <2>2, <1>1, NextRangeInv DEF RangeDone, RunInv, LocalsReset
<1> QED BY <1>2, <1>3, <1>4

(* The probes begin with all of their heights to be looked at.             *)
LEMMA StartProbesInv ==
  ASSUME BucketInv, RunMaps, NEW u \in Uploaders, RunInv(u), StartProbes(u)
  PROVE  RunInv(u)'
<1>1. /\ QuietWorld /\ pc[u] = "headRange" /\ pc'[u] = "probe"
      /\ todo'[u] = UploadProbeHeights(start[u], UploadEnd(u))
      /\ UNCHANGED <<localTip, start, outcome, missing, inflight, putting, hashes>>
  BY DEF StartProbes, QuietWorld, Goto, RunMaps, RunMap, Set, rangeVars, indexVars
<1>2. missing'[u] = {} /\ inflight'[u] = NoHashes /\ hashes'[u] = NoHashes
  BY <1>1 DEF RunInv, LocalsReset
<1>3. putting'[u] \subseteq DOMAIN inflight'[u]
  BY <1>1 DEF RunInv, LocalTypes
<1>4. LocalTypes(u)' /\ BlocksBehind(u)' /\ RangesBehind(u)' /\ UploadEnd(u)' = UploadEnd(u)
  BY <1>1, <1>3, SameRange
<1> QED
  BY <1>1, <1>2, <1>4 DEF RunInv, LocalsReset, Probing, Uploading, Indexing

(* One probe.                                                              *)
LEMMA ProbeInv ==
  ASSUME BucketInv, RunMaps, NEW u \in Uploaders, RunInv(u), NEW h \in todo[u], Probe(u, h)
  PROVE  RunInv(u)'
<1>1. /\ QuietWorld /\ pc[u] = "probe" /\ pc'[u] = "probe"
      /\ todo'[u] = todo[u] \ {h}
      /\ missing'[u] = IF Stored(h) THEN missing[u] ELSE missing[u] \cup {h}
      /\ UNCHANGED <<localTip, start, outcome, inflight, putting, hashes>>
  BY DEF Probe, QuietWorld, RunMaps, RunMap, Set, rangeVars, indexVars, Stored
<1>2. inflight'[u] = NoHashes /\ hashes'[u] = NoHashes
  BY <1>1 DEF RunInv, LocalsReset
<1>3. putting'[u] \subseteq DOMAIN inflight'[u]
  BY <1>1 DEF RunInv, LocalTypes
<1>4. LocalTypes(u)' /\ BlocksBehind(u)' /\ RangesBehind(u)' /\ UploadEnd(u)' = UploadEnd(u)
  BY <1>1, <1>3, SameRange
<1>5. Probing(u)'
  BY <1>1, <1>4, QuietGrows DEF RunInv, Probing
<1> QED
  BY <1>1, <1>2, <1>4, <1>5 DEF RunInv, LocalsReset, Uploading, Indexing

(* A multiple of the step is no distance from a probe.                     *)
LEMMA MultipleMod ==
  ASSUME NEW n \in Nat \ {0}, NEW q \in Int, NEW x \in Nat, x = n * q
  PROVE  x % n = 0
<1> DEFINE d == x \div n
           r == x % n
<1>1. d \in Int /\ r \in 0..(n - 1) /\ x = n * d + r
  OBVIOUS
<1> HIDE DEF d, r
<1>2. n * d \in Int /\ n * d <= x /\ x <= n * d + n - 1 /\ n * q <= x /\ x <= n * q + n - 1
  BY <1>1
<1>3. d = q
  BY <1>1, <1>2, Quotients
<1>4. r = 0
  BY <1>1, <1>3
<1> QED BY <1>4 DEF r

(* The probe before a probe, and the last one.                             *)
LEMMA PreviousProbe ==
  ASSUME NEW from \in Nat, NEW to \in Nat, NEW m \in UploadProbeHeights(from, to),
         m - from > ProbeStep
  PROVE  m - ProbeStep \in UploadProbeHeights(from, to)
<1> DEFINE x == m - from
           q == x \div ProbeStep
<1>1. m \in from..to /\ x % ProbeStep = 0 /\ x \in Nat
  BY DEF UploadProbeHeights
<1>2. q \in Int /\ x = ProbeStep * q
  BY <1>1, ProbeAssumption
<1> HIDE DEF q
<1>3. x - ProbeStep = ProbeStep * (q - 1) /\ q - 1 \in Int
  BY <1>2, ProbeAssumption
<1>4. x - ProbeStep \in Nat
  BY <1>1, ProbeAssumption
<1>5. (x - ProbeStep) % ProbeStep = 0
  BY <1>3, <1>4, MultipleMod, ProbeAssumption
<1>6. m - ProbeStep \in from..to /\ m - ProbeStep - from = x - ProbeStep
  BY <1>1, <1>4, ProbeAssumption
<1> QED BY <1>5, <1>6 DEF UploadProbeHeights

(* The last height of an upload is probed.                                 *)
LEMMA LastProbe ==
  ASSUME NEW from \in Nat, NEW to \in Nat, from <= to
  PROVE  \E p \in UploadProbeHeights(from, to) : to - ProbeStep + 1 <= p
<1> DEFINE x == to - from
           q == x \div ProbeStep
           r == x % ProbeStep
<1>1. q \in Nat /\ r \in 0..(ProbeStep - 1) /\ x = ProbeStep * q + r
  BY ProbeAssumption
<1> HIDE DEF q, r
<1>2. ProbeStep * q \in Nat
  BY <1>1, ProbeAssumption
<1>3. (ProbeStep * q) % ProbeStep = 0
  BY <1>1, <1>2, MultipleMod, ProbeAssumption
<1>4. from + ProbeStep * q \in from..to /\ (from + ProbeStep * q) - from = ProbeStep * q
      /\ to - ProbeStep + 1 <= from + ProbeStep * q
  BY <1>1, <1>2, ProbeAssumption
<1> QED BY <1>3, <1>4 DEF UploadProbeHeights

(* A stored block of the range in hand vouches for the ones below it.      *)
LEMMA StoredVouches ==
  ASSUME BucketInv, NEW u \in Uploaders, LocalTypes(u),
         NEW h \in start[u]..UploadEnd(u), h <= tip, Stored(h), NEW g \in start[u]..h
  PROVE  Stored(g)
<1>1. h \in Nat /\ start[u] \in Nat /\ UploadEnd(u) <= RangeEnd(u)
      /\ UploadEnd(u) \in Nat /\ RangeEnd(u) \in Nat /\ h \in 0..tip
  BY RunNumbers
<1>2. PICK q \in Nat : start[u] = q * RangeSize
  BY DEF LocalTypes, Aligned
<1>3. start[u] <= h /\ h <= start[u] + RangeSize - 1
  BY <1>1, RangeSizeAssumption DEF RangeEnd, EndOfRange
<1>4. StartHeight(h) = start[u]
  BY <1>1, <1>2, <1>3, StartHeightOf
<1> QED BY <1>1, <1>4 DEF BucketInv, StoredFromRangeStart, Stored

(* The heights the probes leave out of the upload are stored.              *)
LEMMA BelowUploadStart ==
  ASSUME BucketInv, RunMaps, NEW u \in Uploaders, RunInv(u), ProbesDone(u),
         uploadStart'[u] \in Int,
         NEW h \in start[u]..UploadEnd(u), h < uploadStart'[u]
  PROVE  Stored(h)
<1> DEFINE heights == UploadProbeHeights(start[u], UploadEnd(u))
<1>1. LocalTypes(u) /\ pc[u] = "probe" /\ todo[u] = {}
  BY DEF ProbesDone, RunInv
<1>2. missing[u] \subseteq heights /\ \A p \in heights : p \in missing[u] \/ Stored(p)
  BY <1>1 DEF RunInv, Probing
<1>3. start[u] \in Nat /\ UploadEnd(u) \in Nat /\ start[u] <= UploadEnd(u) /\ UploadEnd(u) <= tip
      /\ tip \in Nat
  BY <1>1, RunNumbers
<1>4. heights \subseteq start[u]..UploadEnd(u)
  BY DEF UploadProbeHeights
<1> HIDE DEF heights
<1>5. ASSUME NEW p \in heights, p \notin missing[u], h <= p
      PROVE  Stored(h)
  <2>1. Stored(p) /\ p \in start[u]..UploadEnd(u) /\ p <= tip /\ h \in start[u]..p
    BY <1>2, <1>3, <1>4, <1>5
  <2> QED BY <1>1, <2>1, StoredVouches
<1>6. CASE missing[u] = {} /\ uploadStart'[u] = FinalUploadWindowStart(start[u], UploadEnd(u))
  <2>1. PICK p \in heights : UploadEnd(u) - ProbeStep + 1 <= p
    BY <1>3, LastProbe DEF heights
  <2>2. h <= p
    BY <1>3, <1>4, <1>6, <2>1, ProbeAssumption DEF FinalUploadWindowStart
  <2> QED BY <1>5, <1>6, <2>1, <2>2
<1>7. ASSUME NEW m \in missing[u], \A other \in missing[u] : m <= other,
             uploadStart'[u] = PreviousUploadWindowStart(start[u], m)
      PROVE  Stored(h)
  <2>1. m \in heights /\ m \in start[u]..UploadEnd(u)
    BY <1>2, <1>4, <1>7
  <2>2. m - start[u] > ProbeStep /\ h < m - ProbeStep
    BY <1>3, <1>7, <2>1, ProbeAssumption DEF PreviousUploadWindowStart
  <2>3. m - ProbeStep \in heights
    BY <1>3, <2>1, <2>2, PreviousProbe DEF heights
  <2>4. m - ProbeStep \notin missing[u]
    BY <1>7, <2>1, ProbeAssumption
  <2> QED BY <1>5, <2>1, <2>2, <2>3, <2>4, ProbeAssumption
<1> QED
  BY <1>6, <1>7 DEF ProbesDone, RunMaps, RunMap, Set

(* Where the upload of a range begins is a height of the range.            *)
LEMMA UploadStartType ==
  ASSUME BucketInv, RunMaps, NEW u \in Uploaders, RunInv(u), ProbesDone(u)
  PROVE  uploadStart'[u] \in Int /\ start[u] <= uploadStart'[u]
<1>1. LocalTypes(u) /\ pc[u] = "probe"
  BY DEF ProbesDone, RunInv
<1>2. start[u] \in Nat /\ UploadEnd(u) \in Nat /\ start[u] <= UploadEnd(u)
  BY <1>1, RunNumbers
<1>3. \A m \in missing[u] : m \in start[u]..UploadEnd(u)
  BY <1>1 DEF RunInv, Probing, UploadProbeHeights
<1>4. \/ uploadStart'[u] = FinalUploadWindowStart(start[u], UploadEnd(u))
      \/ \E m \in missing[u] : uploadStart'[u] = PreviousUploadWindowStart(start[u], m)
  BY DEF ProbesDone, RunMaps, RunMap, Set
<1> QED
  BY <1>2, <1>3, <1>4, ProbeAssumption DEF FinalUploadWindowStart, PreviousUploadWindowStart

(* The upload begins at or below every block that is not stored.           *)
LEMMA ProbesDoneInv ==
  ASSUME BucketInv, RunMaps, NEW u \in Uploaders, RunInv(u), ProbesDone(u)
  PROVE  RunInv(u)'
<1>1. /\ QuietWorld /\ pc[u] = "probe" /\ pc'[u] = "upload"
      /\ todo'[u] = uploadStart'[u]..UploadEnd(u) /\ missing'[u] = {}
      /\ UNCHANGED <<localTip, start, outcome, inflight, putting, hashes>>
  BY DEF ProbesDone, QuietWorld, Goto, RunMaps, RunMap, Set, rangeVars, indexVars
<1>2. inflight'[u] = NoHashes /\ hashes'[u] = NoHashes
  BY <1>1 DEF RunInv, LocalsReset
<1>3. putting'[u] \subseteq DOMAIN inflight'[u]
  BY <1>1 DEF RunInv, LocalTypes
<1>4. LocalTypes(u)' /\ BlocksBehind(u)' /\ RangesBehind(u)' /\ UploadEnd(u)' = UploadEnd(u)
  BY <1>1, <1>3, SameRange
<1>5. uploadStart'[u] \in Int /\ start[u] <= uploadStart'[u] /\ start[u] \in Nat
      /\ UploadEnd(u) \in Nat
  BY UploadStartType, RunNumbers DEF RunInv
<1>6. ASSUME NEW h \in start[u]..UploadEnd(u) PROVE h \in todo'[u] \/ Stored(h)
  <2>1. CASE h < uploadStart'[u]
    BY <1>5, <2>1, BelowUploadStart
  <2>2. CASE ~(h < uploadStart'[u])
    BY <1>1, <1>5, <2>2
  <2> QED BY <2>1, <2>2
<1>7. Uploading(u)'
  <2>1. DOMAIN inflight'[u] = {}
    BY <1>2 DEF NoHashes
  <2>2. todo'[u] \subseteq start[u]..UploadEnd(u)
    BY <1>1, <1>5
  <2> QED BY <1>1, <1>4, <1>6, <2>1, <2>2, QuietGrows DEF Uploading
<1> QED
  BY <1>1, <1>2, <1>4, <1>7 DEF RunInv, LocalsReset, Probing, Indexing

(* With one upload at a time a height is handed out when nothing below it  *)
(* is left.                                                                *)
LEMMA HandedOutAlone ==
  ASSUME UploadWorkers = 1, BucketInv, NEW u \in Uploaders, LocalTypes(u),
         todo[u] \cup DOMAIN inflight[u] \subseteq start[u]..UploadEnd(u),
         NEW h \in Int, HandedOut(u, h), NEW g \in todo[u] \cup DOMAIN inflight[u]
  PROVE  h <= g
<1> DEFINE below == {k \in todo[u] \cup DOMAIN inflight[u] : k < h}
<1>1. IsFiniteSet(start[u]..UploadEnd(u))
  <2>1. start[u] \in Int /\ UploadEnd(u) \in Int
    BY RunNumbers
  <2> QED BY <2>1, FS_Interval
<1>2. IsFiniteSet(below)
  BY <1>1, FS_Subset
<1>3. Cardinality(below) = 0
  BY <1>2, FS_CardinalityType DEF HandedOut
<1>4. below = {}
  BY <1>2, <1>3, FS_EmptySet
<1>5. g \in Int
  BY RunNumbers
<1> QED BY <1>4, <1>5

(* A worker takes a height and reads its hash.                             *)
LEMMA ReadBlockInv ==
  ASSUME UploadWorkers = 1, BucketInv, RunMaps, NEW u \in Uploaders, RunInv(u),
         NEW h \in todo[u], ReadBlock(u, h)
  PROVE  RunInv(u)'
<1>1. /\ QuietWorld /\ pc[u] = "upload" /\ pc'[u] = "upload"
      /\ todo'[u] = todo[u] \ {h}
      /\ inflight'[u] = IF Stored(h) THEN inflight[u] ELSE Learn(inflight[u], h, BlockAt(h))
      /\ UNCHANGED <<localTip, start, outcome, putting, missing, hashes>>
  BY DEF ReadBlock, QuietWorld, RunMaps, RunMap, Set, rangeVars, indexVars, Stored
<1>2. missing'[u] = {} /\ hashes'[u] = NoHashes /\ LocalTypes(u)
  BY <1>1 DEF RunInv, LocalsReset
<1>3. DOMAIN inflight[u] \subseteq DOMAIN inflight'[u]
      /\ DOMAIN inflight'[u] \subseteq DOMAIN inflight[u] \cup {h}
      /\ (Stored(h) \/ h \in DOMAIN inflight'[u])
      /\ \A g \in DOMAIN inflight'[u] :
            \/ g = h /\ inflight'[u][g] = BlockAt(h)
            \/ g \in DOMAIN inflight[u] /\ inflight'[u][g] = inflight[u][g]
  BY <1>1 DEF Learn
<1>4. putting'[u] \subseteq DOMAIN inflight'[u]
  BY <1>1, <1>3 DEF RunInv, LocalTypes
<1>5. LocalTypes(u)' /\ BlocksBehind(u)' /\ RangesBehind(u)' /\ UploadEnd(u)' = UploadEnd(u)
  BY <1>1, <1>4, SameRange
<1>6. /\ todo[u] \cup DOMAIN inflight[u] \subseteq start[u]..UploadEnd(u)
      /\ \A k \in start[u]..UploadEnd(u) : k \in todo[u] \/ k \in DOMAIN inflight[u] \/ Stored(k)
      /\ \A k \in DOMAIN inflight[u] :
           inflight[u][k] = BlockAt(k) /\ \A g \in todo[u] \cup DOMAIN inflight[u] : k <= g
  BY <1>1 DEF RunInv, Uploading
<1>7. h \in Int
  BY <1>2, <1>6, RunNumbers
<1>8. \A g \in todo[u] \cup DOMAIN inflight[u] : h <= g
  BY <1>2, <1>6, <1>7, HandedOutAlone DEF ReadBlock
<1>9. todo'[u] \cup DOMAIN inflight'[u] \subseteq todo[u] \cup DOMAIN inflight[u]
  BY <1>1, <1>3
<1>10. /\ todo'[u] \cup DOMAIN inflight'[u] \subseteq start[u]..UploadEnd(u)
       /\ \A k \in start[u]..UploadEnd(u) : k \in todo'[u] \/ k \in DOMAIN inflight'[u] \/ Stored(k)
       /\ \A k \in DOMAIN inflight'[u] :
            inflight'[u][k] = BlockAt(k) /\ \A g \in todo'[u] \cup DOMAIN inflight'[u] : k <= g
  BY <1>1, <1>3, <1>6, <1>8, <1>9
<1>11. Uploading(u)'
  BY <1>1, <1>5, <1>10, QuietGrows DEF Uploading
<1> QED
  BY <1>1, <1>2, <1>5, <1>11 DEF RunInv, LocalsReset, Probing, Indexing

(* Puts that are sent and answered.                                        *)
LEMMA PutsInv ==
  ASSUME BucketInv, RunMaps, NEW u \in Uploaders, RunInv(u), NEW h \in DOMAIN inflight[u],
         SendPut(u, h) \/ PutAnswered(u, h)
  PROVE  RunInv(u)'
<1>1. pc[u] = "upload" /\ QuietWorld /\ UNCHANGED <<pc, localTip, start, outcome, todo, missing, hashes>>
  BY DEF SendPut, PutAnswered, PutSettled, QuietWorld, RunInv, LocalsReset, NoHashes,
         rangeVars, indexVars
<1>2. missing'[u] = {} /\ hashes'[u] = NoHashes /\ putting[u] \subseteq DOMAIN inflight[u]
  BY <1>1 DEF RunInv, LocalsReset, LocalTypes
<1>3. /\ putting'[u] \subseteq DOMAIN inflight'[u]
      /\ DOMAIN inflight'[u] \subseteq DOMAIN inflight[u]
      /\ \A g \in DOMAIN inflight'[u] : inflight'[u][g] = inflight[u][g]
      /\ \A g \in DOMAIN inflight[u] : g \in DOMAIN inflight'[u] \/ inflight[u][g] \in blocks
  <2>1. CASE SendPut(u, h)
    BY <1>2, <2>1 DEF SendPut, RunMaps, RunMap, Set
  <2>2. CASE PutAnswered(u, h)
    <3>1. inflight'[u] = Restrict(inflight[u], DOMAIN inflight[u] \ {h})
          /\ putting'[u] = putting[u] \ {h} /\ inflight[u][h] \in blocks
      BY <2>2 DEF PutAnswered, PutSettled, RunMaps, RunMap, Set
    <3> QED BY <1>2, <3>1 DEF Restrict
  <2> QED BY <2>1, <2>2
<1>4. LocalTypes(u)' /\ BlocksBehind(u)' /\ RangesBehind(u)' /\ UploadEnd(u)' = UploadEnd(u)
  BY <1>1, <1>3, SameRange
<1>5. Uploading(u)'
  BY <1>1, <1>3, <1>4, QuietGrows DEF RunInv, Uploading, Stored
<1> QED
  BY <1>1, <1>2, <1>4, <1>5 DEF RunInv, LocalsReset, Probing, Indexing

(* The publication begins when the whole range is stored.                  *)
LEMMA BeginIndexInv ==
  ASSUME BucketInv, RunMaps, NEW u \in Uploaders, RunInv(u), RangeUploaded(u) \/ IndexMissing(u)
  PROVE  RunInv(u)'
<1>1. QuietWorld /\ pc[u] \in {"upload", "headIndex"} /\ LocalTypes(u)
      /\ UNCHANGED <<localTip, start, outcome, missing, inflight, putting, hashes>>
  BY DEF RangeUploaded, UploadDone, IndexMissing, QuietWorld, RunInv, rangeVars, batchVars,
         indexVars
<1>2. missing'[u] = {} /\ hashes'[u] = NoHashes /\ inflight'[u] = NoHashes
      /\ putting'[u] \subseteq DOMAIN inflight'[u]
  BY <1>1 DEF RangeUploaded, UploadDone, IndexMissing, RunInv, LocalsReset, LocalTypes
<1>3. LocalTypes(u)' /\ BlocksBehind(u)' /\ RangesBehind(u)' /\ End(u)' = End(u) /\ RangeEnd(u)' = RangeEnd(u)
  BY <1>1, <1>2, SameRange
<1>4. RangeEnd(u) <= End(u) /\ \A h \in start[u]..RangeEnd(u) : Stored(h)
  <2>1. CASE RangeUploaded(u)
    <3>1. pc[u] = "upload" /\ todo[u] = {} /\ inflight[u] = NoHashes /\ RangeEnd(u) <= End(u)
      BY <2>1 DEF RangeUploaded, UploadDone, Indexable
    <3>2. UploadEnd(u) = RangeEnd(u)
      BY <1>1, <3>1, RunNumbers
    <3> QED BY <3>1, <3>2 DEF RunInv, Uploading, NoHashes
  <2>2. CASE IndexMissing(u)
    BY <2>2 DEF IndexMissing, RunInv, Indexing
  <2> QED BY <2>1, <2>2
<1>5. CASE RangeUploaded(u)
  <2>1. pc'[u] = "headIndex"
    BY <1>5 DEF RangeUploaded, Goto, RunMaps, RunMap, Set
  <2> QED
    BY <1>1, <1>2, <1>3, <1>4, <2>1, QuietGrows DEF RunInv, LocalsReset, Probing, Uploading, Indexing
<1>6. CASE IndexMissing(u)
  <2>1. pc'[u] = "readHashes" /\ cursor'[u] = start[u]
    BY <1>6 DEF IndexMissing, Goto, RunMaps, RunMap, Set
  <2>2. cursor'[u] \in start[u]..RangeEnd(u) /\ start[u]..(cursor'[u] - 1) = {}
    BY <1>1, <2>1, RunNumbers
  <2>3. hashes'[u] = [h \in start[u]..(cursor'[u] - 1) |-> BlockAt(h)']
    BY <1>2, <2>2 DEF NoHashes
  <2>4. Indexing(u)'
    BY <1>1, <1>3, <1>4, <2>1, <2>2, <2>3, QuietGrows DEF Indexing
  <2> QED
    BY <1>2, <1>3, <2>1, <2>4 DEF RunInv, LocalsReset, Probing, Uploading
<1> QED BY <1>5, <1>6

(* One hash of the index is read.                                          *)
LEMMA ReadRangeHashInv ==
  ASSUME BucketInv, RunMaps, NEW u \in Uploaders, RunInv(u), ReadRangeHash(u)
  PROVE  RunInv(u)'
<1>1. /\ QuietWorld /\ pc[u] = "readHashes" /\ LocalTypes(u)
      /\ pc'[u] = IF cursor[u] = RangeEnd(u) THEN "putIndex" ELSE "readHashes"
      /\ cursor'[u] = cursor[u] + 1
      /\ hashes'[u] = Learn(hashes[u], cursor[u], BlockAt(cursor[u]))
      /\ UNCHANGED <<localTip, start, outcome, missing, inflight, putting>>
  BY DEF ReadRangeHash, QuietWorld, Goto, RunMaps, RunMap, Set, rangeVars, batchVars, RunInv
<1>2. missing'[u] = {} /\ inflight'[u] = NoHashes /\ putting'[u] \subseteq DOMAIN inflight'[u]
  BY <1>1 DEF RunInv, LocalsReset, LocalTypes
<1>3. LocalTypes(u)' /\ BlocksBehind(u)' /\ RangesBehind(u)' /\ End(u)' = End(u) /\ RangeEnd(u)' = RangeEnd(u)
  BY <1>1, <1>2, SameRange
<1>4. /\ cursor[u] \in start[u]..RangeEnd(u)
      /\ hashes[u] = [h \in start[u]..(cursor[u] - 1) |-> BlockAt(h)]
      /\ RangeEnd(u) <= End(u) /\ \A h \in start[u]..RangeEnd(u) : Stored(h)
  BY <1>1 DEF RunInv, Indexing
<1>5. start[u] \in Nat /\ RangeEnd(u) \in Nat
  BY <1>1, RunNumbers
<1>6. start[u]..(cursor[u] - 1) \cup {cursor[u]} = start[u]..cursor[u]
  BY <1>4, <1>5
<1>7. hashes'[u] = [h \in start[u]..cursor[u] |-> BlockAt(h)]
  <2>1. \A h \in start[u]..cursor[u] : h # cursor[u] => h \in start[u]..(cursor[u] - 1)
    BY <1>4, <1>5
  <2> QED BY <1>1, <1>4, <1>6, <2>1 DEF Learn
<1>8. \A n : [h \in start[u]..n |-> BlockAt(h)'] = [h \in start[u]..n |-> BlockAt(h)]
  BY <1>1, QuietGrows
<1>9. Indexing(u)'
  <2>1. CASE cursor[u] = RangeEnd(u)
    BY <1>1, <1>3, <1>4, <1>7, <1>8, <2>1, QuietGrows DEF Indexing
  <2>2. CASE cursor[u] # RangeEnd(u)
    <3>1. cursor'[u] \in start[u]..RangeEnd(u) /\ cursor'[u] - 1 = cursor[u]
      BY <1>1, <1>4, <1>5, <2>2
    <3> QED BY <1>1, <1>3, <1>4, <1>7, <1>8, <2>2, <3>1, QuietGrows DEF Indexing
  <2> QED BY <2>1, <2>2
<1> QED
  BY <1>1, <1>2, <1>3, <1>9 DEF RunInv, LocalsReset, Probing, Uploading

-----------------------------------------------------------------------------
(* The steps that change the bucket and the chain.                         *)

(* A put takes effect: the blocks below it in the range are stored.        *)
LEMMA PutLandsInv ==
  ASSUME BucketInv, NEW u \in Uploaders, RunInv(u), NEW h \in DOMAIN inflight[u], PutLands(u, h)
  PROVE  Grows /\ BucketInv'
<1>1. LocalTypes(u) /\ pc[u] = "upload"
  BY DEF RunInv, LocalsReset, NoHashes
<1>2. h \in start[u]..UploadEnd(u) /\ inflight[u][h] = BlockAt(h)
      /\ \A g \in todo[u] \cup DOMAIN inflight[u] : h <= g
  BY <1>1 DEF RunInv, Uploading
<1>3. /\ start[u] \in Nat /\ UploadEnd(u) \in Nat /\ UploadEnd(u) <= RangeEnd(u) /\ tip \in Nat
      /\ RangeEnd(u) \in Nat /\ h \in Nat /\ h <= tip /\ start[u] <= h /\ h <= RangeEnd(u)
  BY <1>1, <1>2, RunNumbers
<1>4. /\ blocks' = blocks \cup {BlockAt(h)} /\ index' = index /\ tip' = tip
      /\ \A g : BlockAt(g)' = BlockAt(g)
  BY <1>2 DEF PutLands, chainVars, BlockAt
<1>5. Grows
  BY <1>3, <1>4 DEF Grows
<1>6. StartHeight(h) = start[u]
  <2>1. PICK q \in Nat : start[u] = q * RangeSize
    BY <1>1 DEF LocalTypes, Aligned
  <2>2. h <= start[u] + RangeSize - 1
    BY <1>3, RangeSizeAssumption DEF RangeEnd, EndOfRange
  <2> QED BY <1>3, <2>1, <2>2, StartHeightOf
<1>7. \A g \in StartHeight(h)..h : BlockAt(g) \in blocks'
  <2> SUFFICES ASSUME NEW g \in start[u]..h PROVE BlockAt(g) \in blocks'
    BY <1>6
  <2>1. CASE g = h
    BY <1>4, <2>1
  <2>2. CASE g # h
    <3>1. g \in start[u]..UploadEnd(u) /\ ~(h <= g)
      BY <1>2, <1>3, <2>2
    <3>2. Stored(g)
      BY <1>1, <1>2, <3>1 DEF RunInv, Uploading
    <3> QED BY <1>4, <3>2 DEF Stored
  <2> QED BY <2>1, <2>2
<1>8. ASSUME NEW k \in 0..tip, BlockAt(k) \in blocks' PROVE \A g \in StartHeight(k)..k : BlockAt(g) \in blocks'
  <2>1. CASE BlockAt(k) \in blocks
    BY <1>4, <2>1 DEF BucketInv, StoredFromRangeStart
  <2>2. CASE BlockAt(k) = BlockAt(h)
    <3>1. 0..k = 0..h
      BY <2>2 DEF BlockAt
    <3>2. k \in 0..h /\ h \in 0..k
      BY <1>3, <3>1
    <3>3. k = h
      BY <1>3, <3>2
    <3> QED BY <1>7, <3>3
  <2> QED BY <1>4, <1>8, <2>1, <2>2
<1>9. StoredFromRangeStart' /\ IndexComplete'
  BY <1>4, <1>8 DEF BucketInv, StoredFromRangeStart, IndexComplete
<1>10. \A b \in blocks' : \E k \in 0..tip : b = BlockAt(k)
  BY <1>3, <1>4 DEF BucketInv
<1> QED BY <1>3, <1>4, <1>5, <1>9, <1>10 DEF BucketInv

(* An index takes effect: the blocks it names are stored.                  *)
LEMMA IndexLandsInv ==
  ASSUME BucketInv, NEW u \in Uploaders, RunInv(u), IndexLands(u)
  PROVE  Grows /\ BucketInv'
<1>1. /\ LocalTypes(u) /\ RangeEnd(u) <= End(u) /\ \A h \in start[u]..RangeEnd(u) : Stored(h)
      /\ hashes[u] = [h \in start[u]..RangeEnd(u) |-> BlockAt(h)]
  BY DEF IndexLands, RunInv, Indexing
<1>2. RangeHeights(start[u]) = start[u]..RangeEnd(u) /\ RangeEnd(u) = EndOfRange(start[u])
  BY DEF RangeHeights, RangeEnd
<1>3. start[u] \in Nat /\ RangeEnd(u) <= tip
  BY <1>1, RunNumbers
<1>4. blocks' = blocks /\ tip' = tip /\ \A g : BlockAt(g)' = BlockAt(g)
  BY DEF IndexLands, chainVars, BlockAt
<1>5. /\ DOMAIN index' = DOMAIN index \cup {start[u]}
      /\ \A s \in DOMAIN index' :
            \/ s \in DOMAIN index /\ index'[s] = index[s]
            \/ s = start[u] /\ index'[s] = hashes[u]
  BY DEF IndexLands, PutObject
<1>6. Grows
  BY <1>4, <1>5 DEF Grows, BucketInv
<1>7. \A h \in RangeHeights(start[u]) : hashes[u][h] = BlockAt(h) /\ hashes[u][h] \in blocks
  BY <1>1, <1>2 DEF Stored
<1>8. ASSUME NEW s \in DOMAIN index'
      PROVE  /\ s \in Nat /\ EndOfRange(s) <= tip
             /\ \A h \in RangeHeights(s) : index'[s][h] = BlockAt(h) /\ index'[s][h] \in blocks
  BY <1>2, <1>3, <1>5, <1>7 DEF BucketInv, IndexComplete
<1>9. IndexComplete'
  BY <1>4, <1>8 DEF IndexComplete
<1>10. StoredFromRangeStart'
  BY <1>4 DEF BucketInv, StoredFromRangeStart
<1> QED BY <1>4, <1>6, <1>8, <1>9, <1>10 DEF BucketInv

(* The chain gains a block.                                                *)
LEMMA GrowthInv ==
  ASSUME BucketInv, ChainMoves, tip' >= tip
  PROVE  Grows /\ BucketInv'
<1>1. Extend
  BY DEF ChainMoves, NodeMoves, RollBack, BucketInv
<1>2. blocks' = blocks /\ index' = index /\ tip' = tip + 1 /\ tip \in Nat
  BY <1>1 DEF Extend, ChainMoves, NodeMoves, archiveVars, BucketInv
<1>3. \A h \in 0..tip : BlockAt(h)' = BlockAt(h)
  BY <1>1, <1>2 DEF Extend, BlockAt
<1>4. Grows
  BY <1>2, <1>3 DEF Grows
<1>5. ASSUME NEW n \in Nat, n = tip + 1
      PROVE  BlockAt(n)' \notin blocks
  <2> SUFFICES ASSUME NEW h \in 0..tip, BlockAt(n)' = BlockAt(h) PROVE FALSE
    BY DEF BucketInv
  <2>1. 0..n = 0..h
    BY DEF BlockAt
  <2>2. n \in 0..h
    BY <1>5, <2>1
  <2> QED BY <1>2, <1>5, <2>2
<1>6. \A b \in blocks' : \E h \in 0..tip' : b = BlockAt(h)'
  <2>1. \A b \in blocks : \E h \in 0..tip : b = BlockAt(h)
    BY DEF BucketInv
  <2> QED BY <1>2, <1>3, <2>1
<1>7. ASSUME NEW h \in 0..tip', BlockAt(h)' \in blocks, NEW g \in StartHeight(h)..h
      PROVE  BlockAt(g)' \in blocks
  <2>1. h \in 0..tip
    BY <1>2, <1>5, <1>7
  <2>2. g \in 0..tip
    BY <1>2, <2>1, StartHeightBounds
  <2> QED BY <1>3, <1>7, <2>1, <2>2 DEF BucketInv, StoredFromRangeStart
<1>8. StoredFromRangeStart' /\ IndexComplete'
  BY <1>2, <1>7 DEF StoredFromRangeStart, IndexComplete, BucketInv
<1>9. ASSUME NEW s \in DOMAIN index
      PROVE  EndOfRange(s) <= tip' /\ \A h \in RangeHeights(s) : index[s][h] = BlockAt(h)'
  <2>1. s \in Nat /\ EndOfRange(s) <= tip /\ EndOfRange(s) \in Int
    BY RangeSizeAssumption DEF BucketInv, EndOfRange
  <2>2. \A h \in RangeHeights(s) : h \in 0..tip
    BY <1>2, <2>1 DEF RangeHeights
  <2> QED BY <1>2, <1>3, <2>1, <2>2 DEF BucketInv
<1> QED BY <1>2, <1>4, <1>6, <1>8, <1>9 DEF BucketInv

-----------------------------------------------------------------------------
(* The invariant of a calm chain and bucket, and what follows from it.     *)

(* The invariant holds at first.                                           *)
LEMMA InitCalm == Init => CalmState
<1> SUFFICES ASSUME Init PROVE CalmState
  OBVIOUS
<1>1. RunMaps
  BY DEF Init, RunMaps, RunMap
<1>2. tip \in Nat /\ \A s \in PrePublished : s \in Nat /\ EndOfRange(s) <= tip /\ EndOfRange(s) \in Int
  BY ChainAssumption, PrePublishedAssumption, RangeSizeAssumption DEF Init, ChainInit, EndOfRange
<1>3. \A s \in PrePublished : Aligned(s)
  <2> SUFFICES ASSUME NEW s \in PrePublished PROVE Aligned(s)
    OBVIOUS
  <2>1. s \in Nat /\ s % RangeSize = 0
    BY PrePublishedAssumption
  <2>2. s \div RangeSize \in Nat /\ s = RangeSize * (s \div RangeSize)
    BY <2>1, RangeSizeAssumption
  <2> QED BY <2>2, RangeSizeAssumption DEF Aligned
<1>4. \A s \in PrePublished : \A h \in RangeHeights(s) : h \in 0..tip /\ BlockAt(h) \in blocks
  BY <1>2 DEF Init, BucketInit, RangeHeights
<1>5. \A b \in blocks : \E s \in PrePublished : \E h \in RangeHeights(s) : b = BlockAt(h)
  BY DEF Init, BucketInit
<1>6. StoredFromRangeStart
  <2> SUFFICES ASSUME NEW h \in 0..tip, BlockAt(h) \in blocks, NEW g \in StartHeight(h)..h
               PROVE  BlockAt(g) \in blocks
    BY DEF StoredFromRangeStart
  <2>1. PICK s \in PrePublished : \E k \in RangeHeights(s) : BlockAt(h) = BlockAt(k)
    BY <1>5
  <2>2. PICK k \in RangeHeights(s) : BlockAt(h) = BlockAt(k)
    BY <2>1
  <2>3. 0..h = 0..k /\ k \in 0..tip
    BY <1>4, <2>2 DEF BlockAt
  <2>4. h \in 0..k /\ k \in 0..h
    BY <1>2, <2>3
  <2>5. h = k
    BY <1>2, <2>3, <2>4
  <2>6. s <= h /\ h <= s + RangeSize - 1 /\ h \in Nat
    BY <1>2, <2>2, <2>5, RangeSizeAssumption DEF RangeHeights, EndOfRange
  <2>7. StartHeight(h) = s
    <3>1. PICK q \in Nat : s = q * RangeSize
      BY <1>3 DEF Aligned
    <3> QED BY <2>6, <3>1, StartHeightOf
  <2>8. g \in RangeHeights(s)
    BY <1>2, <2>2, <2>5, <2>7 DEF RangeHeights
  <2> QED BY <1>4, <2>8
<1>7. \A s \in DOMAIN index : s \in PrePublished /\ index[s] = ChainHashes(s)
  BY DEF Init, BucketInit
<1>8. \A s \in DOMAIN index : \A h \in RangeHeights(s) : index[s][h] = BlockAt(h) /\ index[s][h] \in blocks
  BY <1>4, <1>7 DEF ChainHashes
<1>9. BucketInv
  BY <1>2, <1>4, <1>5, <1>6, <1>7, <1>8 DEF BucketInv, IndexComplete
<1>10. ASSUME NEW u \in Uploaders PROVE RunInv(u)
  <2>1. /\ pc[u] = "idle" /\ localTip[u] = 0 /\ start[u] = 0 /\ missing[u] = {}
        /\ inflight[u] = NoHashes /\ putting[u] = {} /\ hashes[u] = NoHashes
    BY DEF Init
  <2>2. 0 \in 0..tip /\ Aligned(0)
    BY <1>2, RangeSizeAssumption DEF Aligned
  <2> QED
    BY <2>1, <2>2
       DEF RunInv, LocalTypes, LocalsReset, Probing, Uploading, Indexing, BlocksBehind,
           RangesBehind
<1> QED BY <1>1, <1>9, <1>10 DEF CalmState

(* One step of one run.                                                    *)
LEMMA RunStep ==
  ASSUME UploadWorkers = 1, CalmState, NEW u \in Uploaders, Run(u) \/ Stops(u)
  PROVE  Grows /\ BucketInv' /\ RunInv(u)'
<1>1. BucketInv /\ RunMaps /\ RunInv(u)
  BY DEF CalmState
<1>2. ASSUME QuietWorld, RunInv(u)' PROVE Grows /\ BucketInv' /\ RunInv(u)'
  BY <1>1, <1>2, QuietGrows
<1>3. CASE Stops(u)
  BY <1>1, <1>2, <1>3, EndRunInv DEF Stops, QuietWorld
<1>4. CASE StartRun(u) \/ NothingToDo(u)
  BY <1>1, <1>2, <1>4, StartsInv DEF StartRun, NothingToDo, QuietWorld
<1>5. CASE RangePublished(u) \/ TailUploaded(u) \/ IndexExists(u) \/ IndexAnswered(u)
  BY <1>1, <1>2, <1>5, RangeEndsInv
     DEF RangePublished, TailUploaded, IndexExists, IndexAnswered, QuietWorld
<1>6. CASE StartProbes(u)
  BY <1>1, <1>2, <1>6, StartProbesInv DEF StartProbes, QuietWorld
<1>7. ASSUME NEW h \in todo[u], Probe(u, h) PROVE Grows /\ BucketInv' /\ RunInv(u)'
  BY <1>1, <1>2, <1>7, ProbeInv DEF Probe, QuietWorld
<1>8. CASE ProbesDone(u)
  BY <1>1, <1>2, <1>8, ProbesDoneInv DEF ProbesDone, QuietWorld
<1>9. ASSUME NEW h \in todo[u], ReadBlock(u, h) PROVE Grows /\ BucketInv' /\ RunInv(u)'
  BY <1>1, <1>2, <1>9, ReadBlockInv DEF ReadBlock, QuietWorld
<1>10. ASSUME NEW h \in DOMAIN inflight[u], SendPut(u, h) \/ PutAnswered(u, h)
       PROVE  Grows /\ BucketInv' /\ RunInv(u)'
  BY <1>1, <1>2, <1>10, PutsInv DEF SendPut, PutAnswered, PutSettled, QuietWorld
<1>11. CASE RangeUploaded(u) \/ IndexMissing(u)
  BY <1>1, <1>2, <1>11, BeginIndexInv DEF RangeUploaded, IndexMissing, QuietWorld
<1>12. CASE ReadRangeHash(u)
  BY <1>1, <1>2, <1>12, ReadRangeHashInv DEF ReadRangeHash, QuietWorld
<1>13. ASSUME NEW h \in DOMAIN inflight[u], PutLands(u, h) PROVE Grows /\ BucketInv' /\ RunInv(u)'
  <2>1. UNCHANGED Locals(u)
    BY <1>13 DEF PutLands, runVars, rangeVars, batchVars, indexVars, Locals
  <2> QED BY <1>1, <1>13, <2>1, PutLandsInv, OtherRunsStay
<1>14. CASE IndexLands(u)
  <2>1. UNCHANGED Locals(u)
    BY <1>14 DEF IndexLands, runVars, rangeVars, batchVars, indexVars, Locals
  <2> QED BY <1>1, <1>14, <2>1, IndexLandsInv, OtherRunsStay
<1> QED
  BY <1>3, <1>4, <1>5, <1>6, <1>7, <1>8, <1>9, <1>10, <1>11, <1>12, <1>13, <1>14
     DEF Run, UploadBlocks, UploadRangeIndex

(* Every step on a calm chain and bucket keeps it.                         *)
LEMMA CalmStep ==
  ASSUME UploadWorkers = 1, CalmState, tip' >= tip,
         ChainMoves \/ (\E u \in Uploaders : Run(u) \/ Stops(u)) \/ UNCHANGED vars
  PROVE  CalmState'
<1>1. BucketInv /\ RunMaps /\ \A w \in Uploaders : RunInv(w)
  BY DEF CalmState
<1>2. CASE ChainMoves \/ UNCHANGED vars
  <2>1. RunMaps' /\ \A w \in Uploaders : UNCHANGED Locals(w)
    BY <1>1, <1>2
       DEF ChainMoves, vars, runVars, rangeVars, batchVars, indexVars, Locals, RunMaps, RunMap
  <2>2. Grows /\ BucketInv'
    BY <1>1, <1>2, GrowthInv, QuietGrows DEF vars, QuietWorld
  <2> QED BY <1>1, <2>1, <2>2, OtherRunsStay DEF CalmState
<1>3. ASSUME NEW u \in Uploaders, Run(u) \/ Stops(u) PROVE CalmState'
  <2>1. Grows /\ BucketInv' /\ RunInv(u)'
    BY <1>3, RunStep
  <2>2. RunMaps' /\ \A w \in Uploaders : w # u => UNCHANGED Locals(w)
    BY <1>1, <1>3, RunsAt, OnlyAtStays
  <2>3. \A w \in Uploaders : w # u => RunInv(w)'
    BY <1>1, <2>1, <2>2, OtherRunsStay
  <2> QED BY <2>1, <2>2, <2>3 DEF CalmState
<1> QED BY <1>2, <1>3

(* A step after which all is still calm.                                   *)
LEMMA CalmSteps ==
  ASSUME [MCNext]_MCVars, calm'
  PROVE  /\ calm
         /\ (tip' >= tip /\ (ChainMoves \/ \E u \in Uploaders : Run(u) \/ Stops(u))) \/ UNCHANGED vars
<1>1. CASE MCNext
  BY <1>1 DEF MCNext
<1>2. CASE UNCHANGED MCVars
  BY <1>2 DEF MCVars
<1> QED BY <1>1, <1>2

(* Every step keeps it while the history stays calm.                       *)
LEMMA NextCalm ==
  ASSUME UploadWorkers = 1, CalmInv, [MCNext]_MCVars
  PROVE  CalmInv'
<1> SUFFICES ASSUME calm' PROVE CalmState'
  BY DEF CalmInv
<1>1. CalmState
  BY CalmSteps DEF CalmInv
<1>2. CASE UNCHANGED vars
  <2>1. tip' >= tip
    BY <1>1, <1>2 DEF vars, chainVars, CalmState, BucketInv
  <2> QED BY <1>1, <1>2, <2>1, CalmStep
<1>3. CASE tip' >= tip /\ (ChainMoves \/ \E u \in Uploaders : Run(u) \/ Stops(u))
  BY <1>1, <1>3, CalmStep
<1> QED BY <1>2, <1>3, CalmSteps

(* What is stored, probed, in flight and behind, for any uploaders and any *)
(* shards, one block at a time, while no block is replaced and no put is   *)
(* refused for a concurrent one.                                           *)
THEOREM CalmInvariant == UploadWorkers = 1 /\ MCSpec => []CalmInv
<1>1. MCInit => CalmInv
  BY InitCalm DEF MCInit, CalmInv
<1>2. UploadWorkers = 1 /\ CalmInv /\ [MCNext]_MCVars => CalmInv'
  BY NextCalm
<1> SUFFICES ASSUME UploadWorkers = 1 PROVE MCSpec => []CalmInv
  OBVIOUS
<1> QED BY <1>1, <1>2, PTL DEF MCSpec

(* Every published index names stored blocks only, however the uploaders   *)
(* interleave and wherever they are killed, and the blocks of a range are  *)
(* stored from its start on, which is what the probes rely on.             *)
THEOREM CalmIndexesAreComplete == UploadWorkers = 1 /\ MCSpec => []CalmIndexComplete
<1>1. CalmInv => CalmIndexComplete
  BY DEF CalmInv, CalmState, BucketInv, CalmIndexComplete
<1> QED BY <1>1, CalmInvariant, PTL

-----------------------------------------------------------------------------
(* Runs that end well, and indexes that are there.                         *)

(* A run ends well by leaving its last range only.                         *)
LEMMA DoneSteps ==
  ASSUME RunMaps, NEW u \in Uploaders, Run(u) \/ Stops(u), pc[u] # "idle", outcome[u] = "none",
         outcome'[u] = "done"
  PROVE  /\ RangePublished(u) \/ TailUploaded(u) \/ IndexExists(u) \/ IndexAnswered(u)
         /\ ~(NextRangeStart(start[u]) <= End(u))
<1> USE DEF RunMaps, RunMap, Set, runVars, rangeVars, batchVars, indexVars
<1>1. ~Stops(u)
  BY DEF Stops, EndRun
<1>2. ~StartRun(u) /\ ~NothingToDo(u) /\ ~StartProbes(u) /\ ~ProbesDone(u)
  BY DEF StartRun, NothingToDo, StartProbes, ProbesDone
<1>3. \A h : ~Probe(u, h) /\ ~ReadBlock(u, h) /\ ~SendPut(u, h) /\ ~PutLands(u, h) /\ ~PutAnswered(u, h)
  BY DEF Probe, ReadBlock, SendPut, PutLands, PutAnswered, PutSettled
<1>4. ~RangeUploaded(u) /\ ~IndexMissing(u) /\ ~ReadRangeHash(u) /\ ~IndexLands(u)
  BY DEF RangeUploaded, IndexMissing, ReadRangeHash, IndexLands
<1>5. RangePublished(u) \/ TailUploaded(u) \/ IndexExists(u) \/ IndexAnswered(u)
  BY <1>1, <1>2, <1>3, <1>4 DEF Run, UploadBlocks, UploadRangeIndex
<1>6. NextRange(u)
  BY <1>5 DEF RangePublished, TailUploaded, IndexExists, IndexAnswered
<1>7. ~(NextRangeStart(start[u]) <= End(u))
  BY <1>6 DEF NextRange
<1> QED BY <1>5, <1>7

(* Such a run has left nothing behind.                                     *)
LEMMA GoodEnds ==
  ASSUME UploadWorkers = 1, CalmInv, [MCNext]_MCVars, calm'
  PROVE  EndsComplete
<1>1. BucketInv /\ RunMaps /\ \A w \in Uploaders : RunInv(w)
  BY CalmSteps DEF CalmInv, CalmState
<1> SUFFICES ASSUME NEW u \in Uploaders, pc[u] # "idle", outcome'[u] = "done"
             PROVE  /\ \A h \in StartHeight(FromHeight[u])..End(u) : BlockAt(h) \in blocks'
                    /\ \A s \in StartHeight(FromHeight[u])..End(u) :
                         s % RangeSize = 0 /\ EndOfRange(s) <= End(u)
                           /\ EndOfRange(s) + StableDelay <= localTip[u]
                             => s \in DOMAIN index'
  BY DEF EndsComplete
<1>2. RunInv(u) /\ LocalTypes(u) /\ outcome[u] = "none"
  BY <1>1 DEF RunInv, LocalTypes
<1>3. Run(u) \/ Stops(u)
  <2>1. ~ChainMoves /\ ~UNCHANGED vars
    BY <1>2 DEF ChainMoves, vars, runVars
  <2>2. PICK w \in Uploaders : Run(w) \/ Stops(w)
    BY <2>1, CalmSteps
  <2>3. w = u
    <3>1. w # u => UNCHANGED Locals(u)
      BY <1>1, <2>2, RunsAt, OnlyAtStays
    <3> QED BY <1>2, <3>1 DEF Locals
  <2> QED BY <2>2, <2>3
<1>4. /\ RangePublished(u) \/ TailUploaded(u) \/ IndexExists(u) \/ IndexAnswered(u)
      /\ ~(NextRangeStart(start[u]) <= End(u))
  BY <1>1, <1>2, <1>3, DoneSteps
<1>5. RangeDone(u) /\ blocks' = blocks /\ index' = index
  BY <1>1, <1>2, <1>4, RangeEndsInv
     DEF RangePublished, TailUploaded, IndexExists, IndexAnswered, archiveVars
<1>6. NextRangeStart(start[u]) = RangeEnd(u) + 1
  BY <1>2, AlignedNumbers DEF LocalTypes, RangeEnd
<1>7. UploadEnd(u) = End(u) /\ End(u) <= RangeEnd(u) /\ End(u) \in Nat /\ RangeEnd(u) \in Nat
      /\ StartHeight(FromHeight[u]) \in Nat
  BY <1>1, <1>2, <1>4, <1>6, RunNumbers DEF UploadEnd
<1>8. \A h \in StartHeight(FromHeight[u])..End(u) : BlockAt(h) \in blocks'
  BY <1>1, <1>2, <1>5, <1>7, BehindNextRange DEF Stored
<1>9. ASSUME NEW s \in StartHeight(FromHeight[u])..End(u), s % RangeSize = 0,
             EndOfRange(s) <= End(u), EndOfRange(s) + StableDelay <= localTip[u]
      PROVE  s \in DOMAIN index'
  <2>1. s \in Nat /\ s \in StartHeight(FromHeight[u])..RangeEnd(u)
    BY <1>7
  <2>2. Aligned(s)
    <3>1. s \div RangeSize \in Nat /\ s = RangeSize * (s \div RangeSize)
      BY <1>9, <2>1, RangeSizeAssumption
    <3> QED BY <3>1, RangeSizeAssumption DEF Aligned
  <2> QED BY <1>1, <1>2, <1>5, <1>9, <2>1, <2>2, BehindNextRange
<1> QED BY <1>8, <1>9

(* A run that ends well has left no block of its shard and no stable range *)
(* of it behind, although it probes a few heights of a range only and may  *)
(* share ranges with other runs.                                           *)
THEOREM GoodRunsAreComplete == UploadWorkers = 1 /\ MCSpec => GoodRunComplete
<1> SUFFICES ASSUME UploadWorkers = 1 PROVE MCSpec => GoodRunComplete
  OBVIOUS
<1>1. CalmInv /\ [MCNext]_MCVars => [calm' => EndsComplete]_MCVars
  BY GoodEnds
<1> QED BY <1>1, CalmInvariant, PTL DEF MCSpec, GoodRunComplete

(* Only a put of an index changes the indexes.                             *)
LEMMA RunsKeepIndexes ==
  ASSUME NEW u, Run(u) \/ Conflict(u) \/ Stops(u)
  PROVE  index' = index \/ IndexLands(u)
<1> USE DEF archiveVars
<1>1. ASSUME NEW h, Probe(u, h) \/ ReadBlock(u, h) \/ SendPut(u, h) \/ PutLands(u, h)
                      \/ PutAnswered(u, h) \/ PutConflicts(u, h)
      PROVE  index' = index
  BY <1>1 DEF Probe, ReadBlock, SendPut, PutLands, PutAnswered, PutConflicts, PutSettled
<1>2. CASE StartRun(u) \/ NothingToDo(u) \/ RangePublished(u) \/ StartProbes(u) \/ ProbesDone(u)
           \/ RangeUploaded(u) \/ TailUploaded(u)
  BY <1>2
     DEF StartRun, NothingToDo, RangePublished, StartProbes, ProbesDone, RangeUploaded, TailUploaded
<1>3. CASE IndexExists(u) \/ IndexMissing(u) \/ ReadRangeHash(u) \/ IndexAnswered(u)
           \/ IndexConflicts(u) \/ Stops(u)
  BY <1>3 DEF IndexExists, IndexMissing, ReadRangeHash, IndexAnswered, IndexConflicts, Stops
<1> QED
  BY <1>1, <1>2, <1>3 DEF Run, UploadBlocks, UploadRangeIndex, Conflict

(* Whatever the chain and the uploaders do, any number of blocks at a time *)
(* and with puts refused, an index that a client may have read stays.      *)
THEOREM IndexesAreNeverReplaced == MCSpec => IndexNeverReplaced
<1> DEFINE Kept == \A s \in DOMAIN index : s \in DOMAIN index' /\ index'[s] = index[s]
<1>1. [MCNext]_MCVars => [Kept]_vars
  <2> SUFFICES ASSUME MCNext \/ UNCHANGED MCVars PROVE Kept \/ UNCHANGED vars
    OBVIOUS
  <2>1. CASE UNCHANGED MCVars
    BY <2>1 DEF MCVars
  <2>2. CASE ChainMoves
    BY <2>2 DEF ChainMoves, NodeMoves, archiveVars
  <2>3. ASSUME NEW u \in Uploaders, Run(u) \/ Conflict(u) \/ Stops(u) PROVE Kept
    BY <2>3, RunsKeepIndexes DEF IndexLands, PutObject
  <2> QED BY <2>1, <2>2, <2>3 DEF MCNext
<1> QED BY <1>1, PTL DEF MCSpec, IndexNeverReplaced
=============================================================================
