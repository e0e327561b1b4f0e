------------------------------ MODULE UploadPool -----------------------------
(***************************************************************************)
(* The goroutines of one call of uploadBlocksFrom (sync.go): the caller    *)
(* hands heights out over an unbuffered channel, workers upload them, the  *)
(* first error goes into a channel with one slot and cancels the others.   *)
(* With one worker the caller uploads itself, without channels.            *)
(*                                                                         *)
(* A step is one channel operation, one uploadBlock, or one cancel().      *)
(***************************************************************************)
EXTENDS Integers, FiniteSets

CONSTANTS
  Workers,   \* the goroutines there can be, with UploadWorkers of them started
  From,      \* fromHeight
  To,        \* tip
  Existing   \* heights whose block was in the bucket before the call

ASSUME PoolAssumption ==
  /\ IsFiniteSet(Workers) /\ Workers # {}
  /\ From \in Nat /\ To \in Nat /\ From <= To
  /\ Existing \subseteq From..To

VARIABLES
  sequential,   \* one worker: the loop without goroutines
  caller,       \* "handOut", "join", "joinCancelled" or "returned"
  next,         \* the height the loop offers
  at,           \* where each worker is
  job,          \* the height each worker received last
  failure,      \* the error each worker has in hand
  errs,         \* the error in the one-slot channel, if any
  cancelled,    \* uploadCtx is done
  interrupted,  \* because the caller's own context is
  stored,       \* heights whose block is in the bucket
  uploaded,     \* the counter, as the heights counted
  result        \* the error returned, "nil" among them

callerVars == <<caller, next, result>>
workerVars == <<at, job, failure>>
sharedVars == <<errs, cancelled, interrupted, stored, uploaded>>
vars == <<sequential, callerVars, workerVars, sharedVars>>

Errors == {"call", "canceled"}

Put(f, w, value) == [f EXCEPT ![w] = value]

-----------------------------------------------------------------------------
LastHeight == next = To

(* jobs <- height in the caller and the receive in a worker are one step:  *)
(* the channel is unbuffered.  After the last height jobs is closed.       *)
Receive(w) ==
  /\ caller = "handOut"
  /\ at[w] = "idle"
  /\ at' = Put(at, w, "busy")
  /\ job' = Put(job, w, next)
  /\ next' = next + 1
  /\ caller' = IF LastHeight THEN "join" ELSE "handOut"
  /\ UNCHANGED <<sequential, result, failure, sharedVars>>

(* The select of the loop: uploadCtx is done, so jobs is closed early.     *)
StopHandingOut ==
  /\ caller = "handOut"
  /\ ~sequential
  /\ cancelled
  /\ caller' = "joinCancelled"
  /\ UNCHANGED <<sequential, next, result, workerVars, sharedVars>>

(* uploadBlock succeeds, or finds the block stored.                        *)
Upload(w) ==
  /\ at[w] = "busy"
  /\ at' = Put(at, w, "idle")
  /\ stored' = stored \cup {job[w]}
  /\ uploaded' = IF job[w] \in Existing THEN uploaded ELSE uploaded \cup {job[w]}
  /\ UNCHANGED <<sequential, callerVars, job, failure, errs, cancelled, interrupted>>

(* uploadBlock fails: a call does, perhaps with its effect done, or the    *)
(* context ends it.                                                        *)
UploadFails(w) ==
  /\ at[w] = "busy"
  /\ at' = Put(at, w, "failed")
  /\ \/ failure' = Put(failure, w, "call")
     \/ cancelled /\ failure' = Put(failure, w, "canceled")
  /\ \/ stored' = stored \cup {job[w]}
     \/ UNCHANGED stored
  /\ UNCHANGED <<sequential, callerVars, job, errs, cancelled, interrupted, uploaded>>

(* Mutant: the context is cancelled before the error is sent.              *)
CancelThenReport(w) ==
  /\ at[w] = "failed"
  /\ ~sequential
  /\ \/ /\ ~cancelled
        /\ cancelled' = TRUE
        /\ UNCHANGED <<at, errs>>
     \/ /\ cancelled
        /\ errs' = IF errs = "none" THEN failure[w] ELSE errs
        /\ at' = Put(at, w, "exited")
        /\ UNCHANGED cancelled
  /\ UNCHANGED <<sequential, callerVars, job, failure, interrupted, stored, uploaded>>

(* Mutant: the first error does not cancel the other workers.              *)
NothingAfterReport == "exited"

AfterReport == "cancelling"

(* The worker's select: into the slot if it is free, else not at all.      *)
Report(w) ==
  /\ at[w] = "failed"
  /\ ~sequential
  /\ \/ errs = "none" /\ errs' = failure[w] /\ at' = Put(at, w, AfterReport)
     \/ errs # "none" /\ at' = Put(at, w, "exited") /\ UNCHANGED errs
  /\ UNCHANGED <<sequential, callerVars, job, failure, cancelled, interrupted, stored, uploaded>>

Cancel(w) ==
  /\ at[w] = "cancelling"
  /\ cancelled' = TRUE
  /\ at' = Put(at, w, "exited")
  /\ UNCHANGED <<sequential, callerVars, job, failure, errs, interrupted, stored, uploaded>>

(* range jobs ends: the channel is closed and empty.                       *)
LeaveLoop(w) ==
  /\ at[w] = "idle"
  /\ caller \in {"join", "joinCancelled"}
  /\ at' = Put(at, w, "exited")
  /\ UNCHANGED <<sequential, callerVars, job, failure, sharedVars>>

(* Without goroutines an error is returned at once.                        *)
FailSequentially(w) ==
  /\ at[w] = "failed"
  /\ sequential
  /\ result' = failure[w]
  /\ caller' = "returned"
  /\ at' = Put(at, w, "exited")
  /\ UNCHANGED <<sequential, next, job, failure, sharedVars>>

(* Mutant: the workers are not waited for.                                 *)
NobodyAwaited == TRUE

WorkersDone == \A w \in Workers : at[w] = "exited"

(* Mutant: the error channel is not looked at after the last height.       *)
OutcomeUnchecked ==
  IF caller = "join" THEN "nil" ELSE IF errs # "none" THEN errs ELSE "canceled"

Outcome ==
  IF errs # "none" THEN errs ELSE IF caller = "join" THEN "nil" ELSE "canceled"

(* wg.Wait(), then the error if there is one, else the context's.          *)
Return ==
  /\ caller \in {"join", "joinCancelled"}
  /\ WorkersDone
  /\ result' = Outcome
  /\ caller' = "returned"
  /\ UNCHANGED <<sequential, next, workerVars, sharedVars>>

(* The process is told to stop: the context of the caller's caller ends.   *)
Interrupt ==
  /\ caller # "returned"
  /\ interrupted' = TRUE
  /\ cancelled' = TRUE
  /\ UNCHANGED <<sequential, callerVars, workerVars, errs, stored, uploaded>>

Returned == caller = "returned" /\ UNCHANGED vars

(* UploadWorkers of the goroutines take part.                              *)
Init ==
  /\ \E team \in SUBSET Workers \ {{}} :
       /\ at = [w \in Workers |-> IF w \in team THEN "idle" ELSE "exited"]
       /\ sequential = (\E w \in team : team = {w})
  /\ caller = "handOut"
  /\ next = From
  /\ job = [w \in Workers |-> From]
  /\ failure = [w \in Workers |-> "none"]
  /\ errs = "none"
  /\ cancelled = FALSE
  /\ interrupted = FALSE
  /\ stored = Existing
  /\ uploaded = {}
  /\ result = "none"

Work(w) ==
  \/ Receive(w) \/ Upload(w) \/ UploadFails(w) \/ Report(w) \/ Cancel(w)
  \/ LeaveLoop(w) \/ FailSequentially(w)

Join == StopHandingOut \/ Return

Next == (\E w \in Workers : Work(w)) \/ Join \/ Interrupt \/ Returned

Spec == Init /\ [][Next]_vars

FairSpec == Spec /\ WF_vars(Join) /\ \A w \in Workers : WF_vars(Work(w))

-----------------------------------------------------------------------------
(* Properties                                                              *)

(* The types of the locals, the channels and the bucket.                   *)
TypeOK ==
  /\ sequential \in BOOLEAN
  /\ caller \in {"handOut", "join", "joinCancelled", "returned"}
  /\ next \in From..(To + 1)
  /\ at \in [Workers -> {"idle", "busy", "failed", "cancelling", "exited"}]
  /\ job \in [Workers -> From..To]
  /\ failure \in [Workers -> Errors \cup {"none"}]
  /\ errs \in Errors \cup {"none"}
  /\ cancelled \in BOOLEAN /\ interrupted \in BOOLEAN
  /\ stored \subseteq From..To
  /\ uploaded \subseteq From..To
  /\ result \in Errors \cup {"nil", "none"}

(* A call that reports success has every block in the bucket, and counts   *)
(* just the ones it put there, however errors and the interrupt raced.     *)
SuccessIsComplete ==
  result = "nil" => stored = From..To /\ uploaded = (From..To) \ Existing

(* The error returned is the one that stopped the pool, never the          *)
(* "context canceled" of the workers it stopped.                           *)
CauseReported == result = "canceled" => interrupted

(* Every call returns, although the caller may be waiting to hand out a    *)
(* height when the last worker has gone.                                   *)
CallReturns == <>(caller = "returned")

-----------------------------------------------------------------------------
(* The heights a worker was handed and has not stored with a good answer.  *)
Holders == {w \in Workers : at[w] = "busy" \/ failure[w] # "none"}

InHand == {job[w] : w \in Holders}

(* A worker that has an error in hand is on its way out.                   *)
FailedLeave ==
  \A w \in Workers :
     /\ failure[w] # "none" => at[w] \in {"failed", "cancelling", "exited"}
     /\ at[w] \in {"failed", "cancelling"} => failure[w] # "none"

(* No height is handed out twice.                                          *)
JobsDistinct ==
  /\ \A w \in Holders : job[w] < next
  /\ \A v, w \in Holders : job[v] = job[w] => v = w

(* Every height handed out is in hand, or stored and rightly counted.      *)
HandedOutAccounted ==
  /\ Existing \subseteq stored
  /\ uploaded \cap Existing = {}
  /\ \A h \in From..(next - 1) : h \in InHand \/ (h \in stored /\ h \in uploaded \cup Existing)

(* Without goroutines there is just the caller.                            *)
Alone ==
  sequential => \A v, w \in Workers : at[v] # "exited" /\ at[w] # "exited" => v = w

(* What the channel holds: the first error, until somebody reads it.       *)
FirstErrorKept ==
  /\ sequential => errs = "none" /\ \A w \in Workers : at[w] # "cancelling"
  /\ \A w \in Workers :
       at[w] \in {"cancelling", "exited"} /\ failure[w] # "none" =>
          IF sequential THEN result \in Errors ELSE errs # "none"

(* Who cancelled whom.                                                     *)
CancelExplained ==
  /\ cancelled => interrupted \/ errs # "none"
  /\ caller = "joinCancelled" => cancelled
  /\ \A w \in Workers : failure[w] = "canceled" => cancelled
  /\ errs = "canceled" => interrupted

CallerPlace ==
  /\ caller = "handOut" => next <= To
  /\ caller = "join" => next = To + 1
  /\ result # "none" <=> caller = "returned"
  /\ caller = "returned" => \A w \in Workers : at[w] = "exited"
  /\ result = "nil" => next = To + 1 /\ Holders = {}

(* The inductive invariant.                                                *)
PoolInv ==
  /\ TypeOK
  /\ FailedLeave
  /\ JobsDistinct
  /\ HandedOutAccounted
  /\ Alone
  /\ FirstErrorKept
  /\ CancelExplained
  /\ CallerPlace
  /\ CauseReported

-----------------------------------------------------------------------------
(* At most one height per worker is in flight.                             *)
Loads == {heights \in SUBSET (From..To) : Cardinality(heights) <= Cardinality(Workers)}

Batch == INSTANCE UploadBatch WITH
  todo <- next..To,
  inflight <- InHand,
  done <- stored,
  verdict <- IF result \in Errors THEN "failure" ELSE IF result = "nil" THEN "success" ELSE "none"

(* The pool is the set of heights in flight that UploadFollower uses.      *)
ImplementsBatch == Batch!Spec
=============================================================================
