---------------------------- MODULE BenchDownload ----------------------------
(***************************************************************************)
(* BenchDownload of bench.go: one goroutine walks the range indexes and    *)
(* puts the blocks they name in a buffered channel, the Workers download   *)
(* them and count.  The provider publishes ranges meanwhile, and the user  *)
(* may interrupt the benchmark.                                            *)
(*                                                                         *)
(* Heights enter the channel in increasing order, so the channel is the    *)
(* set of its heights and a receive takes the lowest.  A block counted is  *)
(* counted once, so each counter is the set of the heights it has counted. *)
(* The reporter goroutine only reads, and is left out.                     *)
(***************************************************************************)
EXTENDS RangeIndex, FiniteSets

CONSTANTS
  Workers,     \* the goroutines there can be
  FromHeight,
  ToHeights,   \* what the last height may be, NoHeight among it
  MaxHeight    \* bound: ranges above it are not published

NoHeight == -1

ASSUME BenchAssumption ==
  /\ Workers # {}
  /\ FromHeight \in Nat
  /\ ToHeights \subseteq Nat \cup {NoHeight}
  /\ MaxHeight \in Nat

VARIABLES
  toHeight,     \* the last height asked for, or NoHeight
  indexed,      \* the published ranges
  interrupted,  \* benchCtx is done
  pc,           \* where BenchDownload is
  height,       \* the next height to hand out,
  end,          \*   and the last one of the index in hand
  jobs,         \* the channel; closed once pc says so
  worker,       \* the goroutines
  downloaded,   \* the counters
  failed,
  err           \* what enqueueBenchDownloadJobs returned

callVars == <<pc, height, end, err>>
statVars == <<downloaded, failed>>
vars == <<toHeight, indexed, interrupted, callVars, jobs, worker, statVars>>

Starts == {StartHeight(h) : h \in 0..MaxHeight}

(* A worker that downloads is at the height of its block.                  *)
Idle == -1
Exited == -2
Absent == -3   \* not started

Capacity == 4 * Cardinality({w \in Workers : worker[w] # Absent})

-----------------------------------------------------------------------------
PublishRange ==
  /\ \E s \in Starts \ indexed : indexed' = indexed \cup {s}
  /\ UNCHANGED <<toHeight, interrupted, callVars, jobs, worker, statVars>>

Interrupt ==
  /\ ~interrupted
  /\ pc # "returned"
  /\ interrupted' = TRUE
  /\ UNCHANGED <<toHeight, indexed, callVars, jobs, worker, statVars>>

-----------------------------------------------------------------------------
(* enqueueBenchDownloadJobs.  Its return closes the channel.               *)

Close(error) ==
  /\ pc' = "join"
  /\ err' = error
  /\ UNCHANGED <<height, end>>

Start ==
  /\ pc = "start"
  /\ IF toHeight # NoHeight /\ FromHeight > toHeight
     THEN Close("none")
     ELSE pc' = "readIndex" /\ UNCHANGED <<height, end, err>>
  /\ UNCHANGED <<toHeight, indexed, interrupted, jobs, worker, statVars>>

(* Mutant: the last range is read to its end.                              *)
WholeRange(start) == EndOfRange(start)

LastOfRange(start) ==
  IF toHeight # NoHeight /\ toHeight < EndOfRange(start) THEN toHeight ELSE EndOfRange(start)

IndexFound ==
  /\ pc = "readIndex"
  /\ StartHeight(height) \in indexed
  /\ pc' = "handOut"
  /\ end' = LastOfRange(StartHeight(height))
  /\ UNCHANGED <<toHeight, indexed, interrupted, height, err, jobs, worker, statVars>>

MissingIndex == IF toHeight = NoHeight THEN "none" ELSE "notFound"

IndexMissing ==
  /\ pc = "readIndex"
  /\ StartHeight(height) \notin indexed
  /\ Close(MissingIndex)
  /\ UNCHANGED <<toHeight, indexed, interrupted, jobs, worker, statVars>>

IndexFails ==
  /\ pc = "readIndex"
  /\ Close("failed")
  /\ UNCHANGED <<toHeight, indexed, interrupted, jobs, worker, statVars>>

Room == Cardinality(jobs) < Capacity

HandOut ==
  /\ pc = "handOut"
  /\ height <= end
  /\ Room
  /\ jobs' = jobs \cup {height}
  /\ height' = height + 1
  /\ UNCHANGED <<toHeight, indexed, interrupted, pc, end, err, worker, statVars>>

StopHandingOut ==
  /\ pc = "handOut"
  /\ height <= end
  /\ interrupted
  /\ Close("interrupted")
  /\ UNCHANGED <<toHeight, indexed, interrupted, jobs, worker, statVars>>

RangeDone ==
  /\ pc = "handOut"
  /\ height > end
  /\ IF toHeight # NoHeight /\ height > toHeight
     THEN Close("none")
     ELSE pc' = "readIndex" /\ UNCHANGED <<height, end, err>>
  /\ UNCHANGED <<toHeight, indexed, interrupted, jobs, worker, statVars>>

(* Mutant: nobody waits for the workers.                                   *)
NobodyAwaited == TRUE

WorkersDone == \A w \in Workers : worker[w] \in {Exited, Absent}

Return ==
  /\ pc = "join"
  /\ WorkersDone
  /\ pc' = "returned"
  /\ err' = IF err = "none" /\ failed # {} THEN "failedBlocks" ELSE err
  /\ UNCHANGED <<toHeight, indexed, interrupted, height, end, jobs, worker, statVars>>

-----------------------------------------------------------------------------
(* The workers.                                                            *)

SetWorker(w, state) == worker' = [worker EXCEPT ![w] = state]

Receive(w) ==
  /\ worker[w] = Idle
  /\ \E h \in jobs :
       /\ \A g \in jobs : h <= g
       /\ jobs' = jobs \ {h}
       /\ SetWorker(w, h)
  /\ UNCHANGED <<toHeight, indexed, interrupted, callVars, statVars>>

ChannelClosed(w) ==
  /\ worker[w] = Idle
  /\ jobs = {}
  /\ pc \in {"join", "returned"}
  /\ SetWorker(w, Exited)
  /\ UNCHANGED <<toHeight, indexed, interrupted, callVars, jobs, statVars>>

Downloads(w) == worker[w] \notin {Idle, Exited, Absent}

DownloadSucceeds(w) ==
  /\ Downloads(w)
  /\ downloaded' = downloaded \cup {worker[w]}
  /\ SetWorker(w, Idle)
  /\ UNCHANGED <<toHeight, indexed, interrupted, callVars, jobs, failed>>

(* Mutant: a worker stops at its first failure.                            *)
AfterFailureStop == Exited

AfterFailure == Idle

(* Mutant: every error ends the worker as the interrupt does.              *)
DownloadDropped(w) ==
  /\ Downloads(w)
  /\ SetWorker(w, Exited)
  /\ UNCHANGED <<toHeight, indexed, interrupted, callVars, jobs, statVars>>

DownloadFails(w) ==
  /\ Downloads(w)
  /\ IF interrupted
     THEN SetWorker(w, Exited) /\ UNCHANGED failed
     ELSE failed' = failed \cup {worker[w]} /\ SetWorker(w, AfterFailure)
  /\ UNCHANGED <<toHeight, indexed, interrupted, callVars, jobs, downloaded>>

(* As many of the goroutines as Workers says are started.                  *)
Init ==
  /\ toHeight \in ToHeights
  /\ indexed \in SUBSET Starts
  /\ interrupted = FALSE
  /\ pc = "start"
  /\ height = FromHeight
  /\ end = 0
  /\ jobs = {}
  /\ \E team \in (SUBSET Workers) \ {{}} :
       worker = [w \in Workers |-> IF w \in team THEN Idle ELSE Absent]
  /\ downloaded = {} /\ failed = {}
  /\ err = "none"

Enqueue ==
  \/ Start \/ IndexFound \/ IndexMissing \/ IndexFails
  \/ HandOut \/ StopHandingOut \/ RangeDone

Call == Enqueue \/ Return

Work(w) == Receive(w) \/ ChannelClosed(w) \/ DownloadSucceeds(w) \/ DownloadFails(w)

Next == PublishRange \/ Interrupt \/ Call \/ \E w \in Workers : Work(w)

Spec == Init /\ [][Next]_vars

(* The goroutines are scheduled, and HTTP requests end.                    *)
FairSpec == Spec /\ WF_vars(Call) /\ \A w \in Workers : WF_vars(Work(w))

-----------------------------------------------------------------------------
(* Properties                                                              *)

InHand == {worker[w] : w \in {v \in Workers : Downloads(v)}}

(* lastHeight of the result.                                               *)
LastHeight == IF downloaded \cup failed = {} THEN FromHeight
              ELSE CHOOSE h \in downloaded \cup failed : \A g \in downloaded \cup failed : g <= h

TypeOK ==
  /\ toHeight \in ToHeights
  /\ indexed \subseteq Starts
  /\ interrupted \in BOOLEAN
  /\ pc \in {"start", "readIndex", "handOut", "join", "returned"}
  /\ height \in FromHeight..(MaxHeight + RangeSize)
  /\ end \in 0..(MaxHeight + RangeSize)
  /\ jobs \subseteq FromHeight..(MaxHeight + RangeSize)
  /\ Cardinality(jobs) <= Capacity
  /\ InHand \cup downloaded \cup failed \subseteq FromHeight..(MaxHeight + RangeSize)
  /\ err \in {"none", "notFound", "failed", "interrupted", "failedBlocks"}

(* Every height handed out is in the channel, with one worker, or counted  *)
(* once, unless a worker dropped it because the benchmark was interrupted. *)
Accounted ==
  /\ jobs \cap InHand = {} /\ (jobs \cup InHand) \cap (downloaded \cup failed) = {}
  /\ downloaded \cap failed = {}
  /\ \A v, w \in Workers : v # w /\ Downloads(v) => worker[v] # worker[w]
  /\ jobs \cup InHand \cup downloaded \cup failed \subseteq FromHeight..(height - 1)
  /\ ~interrupted => FromHeight..(height - 1) = jobs \cup InHand \cup downloaded \cup failed

(* What each place of the call knows of the heights handed out.            *)
HeightInPlace ==
  /\ pc = "start" => height = FromHeight /\ err = "none"
  /\ toHeight # NoHeight /\ FromHeight <= toHeight => height <= toHeight + 1
  /\ toHeight # NoHeight /\ pc \in {"readIndex", "handOut"} => FromHeight <= toHeight
  /\ toHeight # NoHeight /\ pc = "handOut" => end <= toHeight
  /\ toHeight # NoHeight /\ FromHeight <= toHeight /\ pc \in {"join", "returned"} /\ err = "none" =>
       height = toHeight + 1
  /\ pc = "returned" /\ err = "none" => failed = {}

(* A worker leaves when it has been interrupted, or when all is handed out *)
(* and taken; a call that has returned has no worker left.  One at least   *)
(* was started.                                                            *)
ExitsExplained ==
  /\ \A w \in Workers :
       worker[w] = Exited /\ ~interrupted => jobs = {} /\ pc \in {"join", "returned"}
  /\ pc = "returned" => WorkersDone
  /\ \E w \in Workers : worker[w] # Absent

(* The types that do not depend on the bounds.                             *)
HeightTypes ==
  /\ height \in Nat /\ FromHeight <= height
  /\ end \in Int
  /\ jobs \subseteq Nat /\ downloaded \subseteq Nat /\ failed \subseteq Nat
  /\ worker \in [Workers -> Nat \cup {Idle, Exited, Absent}]
  /\ toHeight \in Nat \cup {NoHeight}

(* The inductive invariant.                                                *)
BenchInv == HeightTypes /\ Accounted /\ HeightInPlace /\ ExitsExplained

(* What a benchmark that reports no error has downloaded.                  *)
Complete ==
  /\ downloaded = FromHeight..(height - 1)
  /\ toHeight # NoHeight /\ FromHeight <= toHeight => height = toHeight + 1
  /\ downloaded # {} => LastHeight = height - 1

(* No error means that every block was downloaded, up to to-height or to   *)
(* the first index found missing, if nobody interrupted the benchmark.     *)
UninterruptedIsComplete == pc = "returned" /\ err = "none" /\ ~interrupted => Complete

(* The benchmark returns, and all of its workers have left by then: however*)
(* it is interrupted, neither side waits for the other for ever.           *)
Returns == <>(pc = "returned" /\ WorkersDone)

(* Counters of a result that was returned do not change any more.          *)
ResultIsFinal == [][pc = "returned" => UNCHANGED statVars]_vars
=============================================================================
