--------------------------- MODULE UploadPoolProofs --------------------------
(***************************************************************************)
(* Machine-checked properties of UploadPool, for any workers and heights.  *)
(***************************************************************************)
EXTENDS UploadPool, FiniteSetTheorems, TLAPS

(* Each action preserves each part of the inductive invariant.             *)

(* The caller hands a height to a worker. *)
LEMMA ReceivePreserves ==
  ASSUME PoolInv, NEW w \in Workers, Receive(w)
  PROVE  PoolInv'
<1> USE PoolAssumption DEF PoolInv, Put, Errors, callerVars, workerVars, sharedVars
<1>1. TypeOK'
  BY DEF Receive, LastHeight, TypeOK, CallerPlace
<1>2. FailedLeave'
  BY DEF Receive, LastHeight, FailedLeave
<1>3. JobsDistinct'
  BY DEF Receive, LastHeight, JobsDistinct, Holders, TypeOK
<1>4. HandedOutAccounted'
  BY DEF Receive, LastHeight, HandedOutAccounted, Holders, InHand, TypeOK, FailedLeave
<1>5. FirstErrorKept'
  BY DEF Receive, LastHeight, FirstErrorKept
<1>6. CancelExplained'
  BY DEF Receive, LastHeight, CancelExplained
<1>7. CallerPlace'
  BY DEF Receive, LastHeight, CallerPlace, Holders, TypeOK
<1>8. CauseReported'
  BY DEF Receive, LastHeight, CauseReported, TypeOK, FailedLeave, FirstErrorKept, CancelExplained
<1>9. Alone'
  BY DEF Receive, LastHeight, Alone, TypeOK
<1> QED
  BY <1>1, <1>2, <1>3, <1>4, <1>5, <1>6, <1>7, <1>8, <1>9 DEF PoolInv

(* A block is stored. *)
LEMMA UploadPreserves ==
  ASSUME PoolInv, NEW w \in Workers, Upload(w)
  PROVE  PoolInv'
<1> USE PoolAssumption DEF PoolInv, Put, Errors, callerVars, workerVars, sharedVars
<1>1. TypeOK'
  BY DEF Upload, TypeOK
<1>2. FailedLeave'
  BY DEF Upload, FailedLeave
<1>3. JobsDistinct'
  BY DEF Upload, JobsDistinct, Holders
<1>4. HandedOutAccounted'
  BY DEF Upload, HandedOutAccounted, Holders, InHand
<1>5. FirstErrorKept'
  BY DEF Upload, FirstErrorKept
<1>6. CancelExplained'
  BY DEF Upload, CancelExplained
<1>7. CallerPlace'
  BY DEF Upload, CallerPlace, Holders
<1>8. CauseReported'
  BY DEF Upload, CauseReported
<1>9. Alone'
  BY DEF Upload, Alone, TypeOK
<1> QED
  BY <1>1, <1>2, <1>3, <1>4, <1>5, <1>6, <1>7, <1>8, <1>9 DEF PoolInv

(* An upload fails. *)
LEMMA UploadFailsPreserves ==
  ASSUME PoolInv, NEW w \in Workers, UploadFails(w)
  PROVE  PoolInv'
<1> USE PoolAssumption DEF PoolInv, Put, Errors, callerVars, workerVars, sharedVars
<1>1. TypeOK'
  BY DEF UploadFails, TypeOK
<1>2. FailedLeave'
  BY DEF UploadFails, FailedLeave, TypeOK
<1>3. JobsDistinct'
  BY DEF UploadFails, JobsDistinct, Holders, TypeOK
<1>4. HandedOutAccounted'
  BY DEF UploadFails, HandedOutAccounted, Holders, InHand, TypeOK
<1>5. FirstErrorKept'
  BY DEF UploadFails, FirstErrorKept, TypeOK
<1>6. CancelExplained'
  BY DEF UploadFails, CancelExplained, TypeOK
<1>7. CallerPlace'
  BY DEF UploadFails, CallerPlace, Holders
<1>8. CauseReported'
  BY DEF UploadFails, CauseReported
<1>9. Alone'
  BY DEF UploadFails, Alone, TypeOK
<1> QED
  BY <1>1, <1>2, <1>3, <1>4, <1>5, <1>6, <1>7, <1>8, <1>9 DEF PoolInv

(* A worker puts its error into the channel. *)
LEMMA ReportPreserves ==
  ASSUME PoolInv, NEW w \in Workers, Report(w)
  PROVE  PoolInv'
<1> USE PoolAssumption DEF PoolInv, Put, Errors, callerVars, workerVars, sharedVars
<1>1. TypeOK'
  BY DEF Report, AfterReport, TypeOK
<1>2. FailedLeave'
  BY DEF Report, AfterReport, FailedLeave, TypeOK
<1>3. JobsDistinct'
  BY DEF Report, AfterReport, JobsDistinct, Holders, TypeOK
<1>4. HandedOutAccounted'
  BY DEF Report, AfterReport, HandedOutAccounted, Holders, InHand, TypeOK
<1>5. FirstErrorKept'
  BY DEF Report, AfterReport, FirstErrorKept, TypeOK
<1>6. CancelExplained'
  BY DEF Report, AfterReport, CancelExplained
<1>7. CallerPlace'
  BY DEF Report, AfterReport, CallerPlace, Holders, TypeOK
<1>8. CauseReported'
  BY DEF Report, AfterReport, CauseReported
<1>9. Alone'
  BY DEF Report, AfterReport, Alone, TypeOK
<1> QED
  BY <1>1, <1>2, <1>3, <1>4, <1>5, <1>6, <1>7, <1>8, <1>9 DEF PoolInv

(* A worker cancels the others. *)
LEMMA CancelPreserves ==
  ASSUME PoolInv, NEW w \in Workers, Cancel(w)
  PROVE  PoolInv'
<1> USE PoolAssumption DEF PoolInv, Put, Errors, callerVars, workerVars, sharedVars
<1>1. TypeOK'
  BY DEF Cancel, TypeOK
<1>2. FailedLeave'
  BY DEF Cancel, FailedLeave
<1>3. JobsDistinct'
  BY DEF Cancel, JobsDistinct, Holders
<1>4. HandedOutAccounted'
  BY DEF Cancel, HandedOutAccounted, Holders, InHand
<1>5. FirstErrorKept'
  BY DEF Cancel, FirstErrorKept
<1>6. CancelExplained'
  BY DEF Cancel, CancelExplained, TypeOK, FailedLeave, FirstErrorKept
<1>7. CallerPlace'
  BY DEF Cancel, CallerPlace, Holders
<1>8. CauseReported'
  BY DEF Cancel, CauseReported
<1>9. Alone'
  BY DEF Cancel, Alone, TypeOK
<1> QED
  BY <1>1, <1>2, <1>3, <1>4, <1>5, <1>6, <1>7, <1>8, <1>9 DEF PoolInv

(* A worker ends. *)
LEMMA LeaveLoopPreserves ==
  ASSUME PoolInv, NEW w \in Workers, LeaveLoop(w)
  PROVE  PoolInv'
<1> USE PoolAssumption DEF PoolInv, Put, Errors, callerVars, workerVars, sharedVars
<1>1. TypeOK'
  BY DEF LeaveLoop, TypeOK
<1>2. FailedLeave'
  BY DEF LeaveLoop, FailedLeave
<1>3. JobsDistinct'
  BY DEF LeaveLoop, JobsDistinct, Holders
<1>4. HandedOutAccounted'
  BY DEF LeaveLoop, HandedOutAccounted, Holders, InHand
<1>5. FirstErrorKept'
  BY DEF LeaveLoop, FirstErrorKept, TypeOK, FailedLeave
<1>6. CancelExplained'
  BY DEF LeaveLoop, CancelExplained
<1>7. CallerPlace'
  BY DEF LeaveLoop, CallerPlace, Holders
<1>8. CauseReported'
  BY DEF LeaveLoop, CauseReported
<1>9. Alone'
  BY DEF LeaveLoop, Alone, TypeOK
<1> QED
  BY <1>1, <1>2, <1>3, <1>4, <1>5, <1>6, <1>7, <1>8, <1>9 DEF PoolInv

(* The single worker returns its error. *)
LEMMA FailSequentiallyPreserves ==
  ASSUME PoolInv, NEW w \in Workers, FailSequentially(w)
  PROVE  PoolInv'
<1> USE PoolAssumption DEF PoolInv, Put, Errors, callerVars, workerVars, sharedVars
<1>1. TypeOK'
  BY DEF FailSequentially, TypeOK
<1>2. FailedLeave'
  BY DEF FailSequentially, FailedLeave
<1>3. JobsDistinct'
  BY DEF FailSequentially, JobsDistinct, Holders
<1>4. HandedOutAccounted'
  BY DEF FailSequentially, HandedOutAccounted, Holders, InHand
<1>5. FirstErrorKept'
  BY DEF FailSequentially, FirstErrorKept, TypeOK, FailedLeave
<1>6. CancelExplained'
  BY DEF FailSequentially, CancelExplained
<1>7. CallerPlace'
  BY DEF FailSequentially, CallerPlace, Holders, TypeOK, FailedLeave, Alone
<1>8. CauseReported'
  BY DEF FailSequentially, CauseReported, TypeOK, FailedLeave, FirstErrorKept, CancelExplained
<1>9. Alone'
  BY DEF FailSequentially, Alone, TypeOK
<1> QED
  BY <1>1, <1>2, <1>3, <1>4, <1>5, <1>6, <1>7, <1>8, <1>9 DEF PoolInv

(* The caller stops handing out heights. *)
LEMMA StopHandingOutPreserves ==
  ASSUME PoolInv, StopHandingOut
  PROVE  PoolInv'
<1> USE PoolAssumption DEF PoolInv, Put, Errors, callerVars, workerVars, sharedVars
<1>1. TypeOK'
  BY DEF StopHandingOut, TypeOK
<1>2. FailedLeave'
  BY DEF StopHandingOut, FailedLeave
<1>3. JobsDistinct'
  BY DEF StopHandingOut, JobsDistinct, Holders
<1>4. HandedOutAccounted'
  BY DEF StopHandingOut, HandedOutAccounted, Holders, InHand
<1>5. FirstErrorKept'
  BY DEF StopHandingOut, FirstErrorKept
<1>6. CancelExplained'
  BY DEF StopHandingOut, CancelExplained
<1>7. CallerPlace'
  BY DEF StopHandingOut, CallerPlace, Holders
<1>8. CauseReported'
  BY DEF StopHandingOut, CauseReported
<1>9. Alone'
  BY DEF StopHandingOut, Alone, TypeOK
<1> QED
  BY <1>1, <1>2, <1>3, <1>4, <1>5, <1>6, <1>7, <1>8, <1>9 DEF PoolInv

(* The caller returns. *)
LEMMA ReturnPreserves ==
  ASSUME PoolInv, Return
  PROVE  PoolInv'
<1> USE PoolAssumption DEF PoolInv, Put, Errors, callerVars, workerVars, sharedVars
<1>1. TypeOK'
  BY DEF Return, Outcome, WorkersDone, TypeOK
<1>2. FailedLeave'
  BY DEF Return, Outcome, WorkersDone, FailedLeave
<1>3. JobsDistinct'
  BY DEF Return, Outcome, WorkersDone, JobsDistinct, Holders
<1>4. HandedOutAccounted'
  BY DEF Return, Outcome, WorkersDone, HandedOutAccounted, Holders, InHand
<1>5. FirstErrorKept'
  BY DEF Return, Outcome, WorkersDone, FirstErrorKept, TypeOK, CallerPlace
<1>6. CancelExplained'
  BY DEF Return, Outcome, WorkersDone, CancelExplained
<1>7. CallerPlace'
  BY DEF Return, Outcome, WorkersDone, CallerPlace, Holders, TypeOK, FirstErrorKept
<1>8. CauseReported'
  BY DEF Return, Outcome, WorkersDone, CauseReported, TypeOK, CancelExplained
<1>9. Alone'
  BY DEF Return, WorkersDone, Alone, TypeOK
<1> QED
  BY <1>1, <1>2, <1>3, <1>4, <1>5, <1>6, <1>7, <1>8, <1>9 DEF PoolInv

(* The caller is interrupted. *)
LEMMA InterruptPreserves ==
  ASSUME PoolInv, Interrupt
  PROVE  PoolInv'
<1> USE PoolAssumption DEF PoolInv, Put, Errors, callerVars, workerVars, sharedVars
<1>1. TypeOK'
  BY DEF Interrupt, TypeOK
<1>2. FailedLeave'
  BY DEF Interrupt, FailedLeave
<1>3. JobsDistinct'
  BY DEF Interrupt, JobsDistinct, Holders
<1>4. HandedOutAccounted'
  BY DEF Interrupt, HandedOutAccounted, Holders, InHand
<1>5. FirstErrorKept'
  BY DEF Interrupt, FirstErrorKept
<1>6. CancelExplained'
  BY DEF Interrupt, CancelExplained
<1>7. CallerPlace'
  BY DEF Interrupt, CallerPlace, Holders
<1>8. CauseReported'
  BY DEF Interrupt, CauseReported
<1>9. Alone'
  BY DEF Interrupt, Alone, TypeOK
<1> QED
  BY <1>1, <1>2, <1>3, <1>4, <1>5, <1>6, <1>7, <1>8, <1>9 DEF PoolInv
LEMMA InitInv ==
  ASSUME Init
  PROVE  PoolInv
<1> USE PoolAssumption DEF Init, Errors, Holders
<1>1. TypeOK
  <2>1. From \in From..To /\ next \in From..(To + 1)
    OBVIOUS
  <2>2. at \in [Workers -> {"idle", "exited"}] /\ job \in [Workers -> {From}] /\ failure \in [Workers -> {"none"}]
    OBVIOUS
  <2>3. stored \subseteq From..To /\ uploaded = {}
    OBVIOUS
  <2> QED
    BY <2>1, <2>2, <2>3 DEF TypeOK
<1>3. FailedLeave /\ JobsDistinct /\ CancelExplained /\ CauseReported
  BY DEF FailedLeave, JobsDistinct, CancelExplained, CauseReported
<1>4. CallerPlace
  BY DEF CallerPlace
<1>2. HandedOutAccounted /\ FirstErrorKept
  BY DEF HandedOutAccounted, FirstErrorKept
<1>5. Alone
  BY DEF Alone
<1> QED
  BY <1>1, <1>2, <1>3, <1>4, <1>5 DEF PoolInv

LEMMA StutterInv ==
  ASSUME PoolInv, UNCHANGED vars
  PROVE  PoolInv'
BY DEF PoolInv, vars, callerVars, workerVars, sharedVars, TypeOK, FailedLeave, JobsDistinct,
       HandedOutAccounted, Alone, FirstErrorKept, CancelExplained, CallerPlace, CauseReported, Holders, InHand

LEMMA NextInv ==
  ASSUME PoolInv, [Next]_vars
  PROVE  PoolInv'
<1>1. ASSUME NEW w \in Workers, Work(w)
      PROVE  PoolInv'
  BY <1>1, ReceivePreserves, UploadPreserves, UploadFailsPreserves, ReportPreserves,
     CancelPreserves, LeaveLoopPreserves, FailSequentiallyPreserves DEF Work
<1>2. CASE Join
  BY <1>2, StopHandingOutPreserves, ReturnPreserves DEF Join
<1>3. CASE Interrupt
  BY <1>3, InterruptPreserves
<1>4. CASE Returned \/ UNCHANGED vars
  BY <1>4, StutterInv DEF Returned
<1> QED
  BY <1>1, <1>2, <1>3, <1>4 DEF Next

(* The inductive invariant of the goroutines of uploadBlocksFrom.          *)
THEOREM PoolInvariant == Spec => []PoolInv
<1>1. Init => PoolInv
  BY InitInv
<1>2. PoolInv /\ [Next]_vars => PoolInv'
  BY NextInv
<1> QED
  BY <1>1, <1>2, PTL DEF Spec

(* A nil error means that every block is stored and rightly counted.       *)
THEOREM SuccessesAreComplete == Spec => []SuccessIsComplete
<1>1. ASSUME PoolInv, result = "nil"
      PROVE  stored = From..To /\ uploaded = (From..To) \ Existing
  <2>1. next = To + 1 /\ InHand = {}
    BY <1>1 DEF PoolInv, CallerPlace, InHand
  <2>2. From..(next - 1) = From..To
    BY <2>1, PoolAssumption
  <2> QED
    BY <1>1, <2>1, <2>2 DEF PoolInv, HandedOutAccounted, TypeOK
<1> QED
  BY <1>1, PoolInvariant, PTL DEF SuccessIsComplete

(* The error returned is the cause, not its consequence.                   *)
THEOREM CausesAreReported == Spec => []CauseReported
BY PoolInvariant, PTL DEF PoolInv

-----------------------------------------------------------------------------
(* The pool implements the set of heights in flight.                       *)

(* What is in hand is never more than the workers can hold.                *)
LEMMA InHandFits ==
  ASSUME PoolInv
  PROVE  InHand \in Loads
<1> DEFINE f == [v \in Holders |-> job[v]]
<1>1. IsFiniteSet(Holders) /\ Cardinality(Holders) <= Cardinality(Workers)
  BY PoolAssumption, FS_Subset DEF Holders
<1>2. f \in Surjection(Holders, InHand)
  BY DEF Surjection, InHand
<1>3. IsFiniteSet(InHand) /\ Cardinality(InHand) <= Cardinality(Holders)
  BY <1>1, <1>2, FS_Surjection
<1>4. Cardinality(InHand) <= Cardinality(Workers)
  BY <1>1, <1>3, PoolAssumption, FS_CardinalityType
<1>5. InHand \subseteq From..To
  BY DEF PoolInv, TypeOK, InHand, Holders
<1> QED
  BY <1>4, <1>5 DEF Loads

LEMMA TakesUp ==
  ASSUME PoolInv, NEW w \in Workers, Receive(w)
  PROVE  Batch!TakeUp(next)
<1> USE PoolAssumption DEF Receive, LastHeight, Put, callerVars, workerVars, sharedVars
<1>1. next \in next..To /\ \A g \in next..To : next <= g
  BY DEF PoolInv, CallerPlace, TypeOK
<1>2. (next..To)' = (next..To) \ {next}
  BY DEF PoolInv, TypeOK
<1>3. Holders' = Holders \cup {w} /\ w \notin Holders
  BY DEF PoolInv, TypeOK, FailedLeave, Holders
<1>4. InHand' = InHand \cup {next}
  BY <1>3 DEF PoolInv, TypeOK, InHand, Holders
<1>5. InHand' \in Loads
  <2>1. PoolInv'
    BY ReceivePreserves
  <2>2. (InHand \in Loads)'
    BY <2>1, InHandFits, PTL
  <2> QED
    BY <2>2 DEF Loads
<1> QED
  BY <1>1, <1>2, <1>4, <1>5 DEF Batch!TakeUp

LEMMA Finishes ==
  ASSUME PoolInv, NEW w \in Workers, Upload(w)
  PROVE  Batch!Finish(job[w])
<1> USE DEF Upload, Put, callerVars, workerVars, sharedVars
<1>1. w \in Holders /\ Holders' = Holders \ {w}
  BY DEF PoolInv, TypeOK, FailedLeave, Holders
<1>2. InHand' = InHand \ {job[w]}
  BY <1>1 DEF PoolInv, JobsDistinct, InHand
<1> QED
  BY <1>1, <1>2 DEF Batch!Finish, InHand

LEMMA SameInHand ==
  ASSUME UNCHANGED job, Holders' = Holders
  PROVE  InHand' = InHand
BY DEF InHand

LEMMA FailsOrLands ==
  ASSUME PoolInv, NEW w \in Workers, UploadFails(w)
  PROVE  Batch!Land(job[w]) \/ UNCHANGED Batch!vars
<1> USE DEF UploadFails, Put, callerVars, workerVars, sharedVars
<1>1. w \in Holders /\ Holders' = Holders
  BY DEF PoolInv, TypeOK, FailedLeave, Holders
<1>2. InHand' = InHand /\ job[w] \in InHand
  BY <1>1, SameInHand DEF InHand
<1> QED
  BY <1>2 DEF Batch!Land, Batch!vars

LEMMA QuietSteps ==
  ASSUME PoolInv,
         \/ \E w \in Workers : Report(w) \/ Cancel(w) \/ LeaveLoop(w)
         \/ StopHandingOut \/ Interrupt \/ UNCHANGED vars
  PROVE  UNCHANGED Batch!vars
<1> USE DEF Report, Cancel, LeaveLoop, StopHandingOut, Interrupt, Put, AfterReport, vars,
            callerVars, workerVars, sharedVars
<1>1. UNCHANGED <<job, next, stored, result>>
  OBVIOUS
<1>2. Holders' = Holders
  BY DEF PoolInv, TypeOK, FailedLeave, Holders
<1> QED
  BY <1>1, <1>2, SameInHand DEF Batch!vars

LEMMA FailsAlone ==
  ASSUME PoolInv, NEW w \in Workers, FailSequentially(w)
  PROVE  Batch!Fail
<1> USE DEF FailSequentially, Put, callerVars, workerVars, sharedVars
<1>1. result' \in Errors
  BY DEF PoolInv, TypeOK, FailedLeave
<1>2. Holders' = Holders
  BY DEF PoolInv, TypeOK, FailedLeave, Holders
<1> QED
  BY <1>1, <1>2, SameInHand DEF Batch!Fail

LEMMA Ends ==
  ASSUME PoolInv, Return
  PROVE  Batch!Succeed \/ Batch!Fail
<1> USE DEF Return, Outcome, callerVars, workerVars, sharedVars
<1>1. Holders' = Holders /\ InHand' = InHand
  BY SameInHand DEF Holders
<1>2. CASE result' = "nil"
  <2>1. next = To + 1 /\ InHand = {}
    BY <1>1, <1>2, ReturnPreserves DEF PoolInv, CallerPlace, InHand
  <2>2. next..To = {}
    BY <2>1, PoolAssumption
  <2> QED
    BY <1>1, <1>2, <2>1, <2>2 DEF Batch!Succeed, Errors
<1>3. CASE result' # "nil"
  <2>1. result' \in Errors
    BY <1>3 DEF PoolInv, TypeOK, Errors
  <2> QED
    BY <1>1, <2>1 DEF Batch!Fail
<1> QED
  BY <1>2, <1>3

(* The steps that move the batch are taken while the call is under way.    *)
LEMMA UnderWay ==
  ASSUME PoolInv,
         \/ \E w \in Workers : Receive(w) \/ Upload(w) \/ UploadFails(w) \/ FailSequentially(w)
         \/ Return
  PROVE  result = "none"
BY DEF PoolInv, CallerPlace, Receive, Upload, UploadFails, FailSequentially, Return

LEMMA BatchInit ==
  ASSUME Init
  PROVE  Batch!Init
BY PoolAssumption DEF Init, Batch!Init, InHand, Holders, Errors

LEMMA BatchNext ==
  ASSUME PoolInv, [Next]_vars
  PROVE  [Batch!Next]_Batch!vars
<1> DEFINE verdict ==
      IF result \in Errors THEN "failure" ELSE IF result = "nil" THEN "success" ELSE "none"
<1>1. result = "none" => verdict = "none"
  BY DEF Errors
<1>2. next \in From..(To + 1) /\ \A w \in Workers : job[w] \in From..To
  BY DEF PoolInv, TypeOK
<1>3. ASSUME NEW w \in Workers, Receive(w)
      PROVE  Batch!Next
  <2>1. next \in From..To
    BY <1>2, <1>3 DEF Receive, PoolInv, CallerPlace
  <2> QED
    BY <1>1, <1>3, <2>1, TakesUp, UnderWay DEF Batch!Next
<1>4. ASSUME NEW w \in Workers, Upload(w)
      PROVE  Batch!Next
  BY <1>1, <1>2, <1>4, Finishes, UnderWay DEF Batch!Next
<1>5. ASSUME NEW w \in Workers, UploadFails(w)
      PROVE  Batch!Next \/ UNCHANGED Batch!vars
  BY <1>1, <1>2, <1>5, FailsOrLands, UnderWay DEF Batch!Next
<1>6. ASSUME NEW w \in Workers, FailSequentially(w)
      PROVE  Batch!Next
  BY <1>1, <1>6, FailsAlone, UnderWay DEF Batch!Next
<1>7. CASE Return
  BY <1>1, <1>7, Ends, UnderWay DEF Batch!Next
<1>8. CASE \/ \E w \in Workers : Report(w) \/ Cancel(w) \/ LeaveLoop(w)
           \/ StopHandingOut \/ Interrupt \/ UNCHANGED vars
  BY <1>8, QuietSteps
<1> QED
  BY <1>3, <1>4, <1>5, <1>6, <1>7, <1>8 DEF Next, Work, Join, Returned

(* Whatever the goroutines and channels do amounts to a step of the batch  *)
(* or to none.                                                             *)
THEOREM PoolImplementsBatch == Spec => ImplementsBatch
<1>1. Init => Batch!Init
  BY BatchInit
<1>2. PoolInv /\ [Next]_vars => [Batch!Next]_Batch!vars
  BY BatchNext
<1> QED
  BY <1>1, <1>2, PoolInvariant, PTL DEF Spec, ImplementsBatch, Batch!Spec
=============================================================================
