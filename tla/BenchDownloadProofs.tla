------------------------- MODULE BenchDownloadProofs -------------------------
(***************************************************************************)
(* Machine-checked properties of BenchDownload, for any workers, heights   *)
(* and range size.                                                         *)
(***************************************************************************)
EXTENDS BenchDownload, TLAPS

(* The end of an index is a number. *)
LEMMA LastOfRangeType ==
  ASSUME NEW h \in Nat, toHeight \in Nat \cup {NoHeight}
  PROVE  LastOfRange(StartHeight(h)) \in Int /\ (toHeight # NoHeight => LastOfRange(StartHeight(h)) <= toHeight)
<1>1. h \div RangeSize \in Int
  BY RangeSizeAssumption
<1>2. StartHeight(h) \in Int
  BY <1>1, RangeSizeAssumption DEF StartHeight
<1> QED
  BY <1>2, RangeSizeAssumption, BenchAssumption DEF LastOfRange, EndOfRange, NoHeight

(* The steps that touch neither the channel nor a worker. *)
LEMMA CallPreserves ==
  ASSUME BenchInv, PublishRange \/ Interrupt \/ Start \/ IndexFound \/ IndexMissing \/ IndexFails
                     \/ StopHandingOut \/ RangeDone \/ Return
  PROVE  BenchInv'
<1> USE BenchAssumption, RangeSizeAssumption DEF BenchInv, callVars, statVars, NoHeight, Idle, Exited, Absent, Downloads
<1>1. Accounted'
  BY DEF Accounted, InHand, HeightInPlace, HeightTypes, PublishRange, Interrupt, Start, IndexFound, IndexMissing, IndexFails,
         StopHandingOut, RangeDone, Return, Close
<1>2. HeightTypes'
  BY LastOfRangeType DEF HeightTypes, PublishRange, Interrupt, Start, IndexFound, IndexMissing, IndexFails,
         StopHandingOut, RangeDone, Return, Close
<1>3. ExitsExplained'
  BY DEF ExitsExplained, WorkersDone, PublishRange, Interrupt, Start, IndexFound, IndexMissing, IndexFails,
         StopHandingOut, RangeDone, Return, Close
<1>4. HeightInPlace'
  <2>1. CASE PublishRange
    BY <2>1 DEF HeightInPlace, HeightTypes, PublishRange
  <2>2. CASE Interrupt
    BY <2>2 DEF HeightInPlace, HeightTypes, Interrupt
  <2>3. CASE Start
    BY <2>3 DEF HeightInPlace, HeightTypes, Start, Close
  <2>4. CASE IndexFound
    BY LastOfRangeType, <2>4 DEF HeightInPlace, HeightTypes, IndexFound
  <2>5. CASE IndexMissing
    BY <2>5 DEF HeightInPlace, HeightTypes, IndexMissing, Close, MissingIndex
  <2>6. CASE IndexFails
    BY <2>6 DEF HeightInPlace, HeightTypes, IndexFails, Close
  <2>7. CASE StopHandingOut
    BY <2>7 DEF HeightInPlace, HeightTypes, StopHandingOut, Close
  <2>8. CASE RangeDone
    BY <2>8 DEF HeightInPlace, HeightTypes, RangeDone, Close
  <2>9. CASE Return
    BY <2>9 DEF HeightInPlace, HeightTypes, Return
  <2> QED
    BY <2>1, <2>2, <2>3, <2>4, <2>5, <2>6, <2>7, <2>8, <2>9
<1> QED
  BY <1>1, <1>2, <1>3, <1>4

(* A height is handed out. *)
LEMMA HandOutPreserves ==
  ASSUME BenchInv, HandOut
  PROVE  BenchInv'
<1> USE BenchAssumption, RangeSizeAssumption DEF BenchInv, callVars, statVars, NoHeight, Idle, Exited, Absent, Downloads
<1>1. HeightTypes'
  BY DEF HandOut, HeightTypes
<1>2. Accounted'
  BY DEF HandOut, Accounted, HeightTypes, InHand
<1>3. HeightInPlace'
  BY DEF HandOut, HeightInPlace, HeightTypes
<1>4. ExitsExplained'
  BY DEF HandOut, ExitsExplained, HeightTypes, WorkersDone
<1> QED
  BY <1>1, <1>2, <1>3, <1>4

(* A worker takes a height. *)
LEMMA ReceivePreserves ==
  ASSUME BenchInv, NEW w \in Workers, Receive(w)
  PROVE  BenchInv'
<1> USE BenchAssumption, RangeSizeAssumption DEF BenchInv, callVars, statVars, NoHeight, Idle, Exited, Absent, Downloads
<1>1. HeightTypes'
  BY DEF Receive, SetWorker, HeightTypes
<1>2. Accounted'
  BY DEF Receive, SetWorker, Accounted, HeightTypes, InHand
<1>3. HeightInPlace'
  BY DEF Receive, SetWorker, HeightInPlace, HeightTypes
<1>4. ExitsExplained'
  BY DEF Receive, SetWorker, ExitsExplained, HeightTypes, WorkersDone
<1> QED
  BY <1>1, <1>2, <1>3, <1>4

(* A worker leaves. *)
LEMMA ChannelClosedPreserves ==
  ASSUME BenchInv, NEW w \in Workers, ChannelClosed(w)
  PROVE  BenchInv'
<1> USE BenchAssumption, RangeSizeAssumption DEF BenchInv, callVars, statVars, NoHeight, Idle, Exited, Absent, Downloads
<1>1. HeightTypes'
  BY DEF ChannelClosed, SetWorker, HeightTypes
<1>2. Accounted'
  BY DEF ChannelClosed, SetWorker, Accounted, HeightTypes, InHand
<1>3. HeightInPlace'
  BY DEF ChannelClosed, SetWorker, HeightInPlace, HeightTypes
<1>4. ExitsExplained'
  BY DEF ChannelClosed, SetWorker, ExitsExplained, HeightTypes, WorkersDone
<1> QED
  BY <1>1, <1>2, <1>3, <1>4

(* A block is downloaded. *)
LEMMA DownloadSucceedsPreserves ==
  ASSUME BenchInv, NEW w \in Workers, DownloadSucceeds(w)
  PROVE  BenchInv'
<1> USE BenchAssumption, RangeSizeAssumption DEF BenchInv, callVars, statVars, NoHeight, Idle, Exited, Absent, Downloads
<1>1. HeightTypes'
  BY DEF DownloadSucceeds, SetWorker, HeightTypes
<1>2. Accounted'
  BY DEF DownloadSucceeds, SetWorker, Accounted, HeightTypes, InHand
<1>3. HeightInPlace'
  BY DEF DownloadSucceeds, SetWorker, HeightInPlace, HeightTypes
<1>4. ExitsExplained'
  BY DEF DownloadSucceeds, SetWorker, ExitsExplained, HeightTypes, WorkersDone
<1> QED
  BY <1>1, <1>2, <1>3, <1>4

(* A download fails. *)
LEMMA DownloadFailsPreserves ==
  ASSUME BenchInv, NEW w \in Workers, DownloadFails(w)
  PROVE  BenchInv'
<1> USE BenchAssumption, RangeSizeAssumption DEF BenchInv, callVars, statVars, NoHeight, Idle, Exited, Absent, Downloads
<1>1. HeightTypes'
  BY DEF DownloadFails, SetWorker, AfterFailure, HeightTypes
<1>2. Accounted'
  BY DEF DownloadFails, SetWorker, AfterFailure, Accounted, HeightTypes, InHand
<1>3. HeightInPlace'
  BY DEF DownloadFails, SetWorker, AfterFailure, HeightInPlace, HeightTypes, ExitsExplained, WorkersDone
<1>4. ExitsExplained'
  BY DEF DownloadFails, SetWorker, AfterFailure, ExitsExplained, HeightTypes, WorkersDone
<1> QED
  BY <1>1, <1>2, <1>3, <1>4

(* The bookkeeping of the benchmark: every height handed out is in the     *)
(* channel, with one worker or counted once, and what each place of the    *)
(* call knows of the heights.                                              *)
THEOREM BenchInvariant == Spec => []BenchInv
<1>1. Init => BenchInv
  <2> SUFFICES ASSUME Init PROVE BenchInv
    OBVIOUS
  <2> USE BenchAssumption DEF Init, Idle, Exited, Absent, NoHeight
  <2>1. HeightTypes
    BY DEF HeightTypes
  <2>2. Accounted
    BY DEF Accounted, InHand, Downloads
  <2>3. HeightInPlace
    BY DEF HeightInPlace
  <2>4. ExitsExplained
    <3>1. PICK team \in (SUBSET Workers) \ {{}} :
             worker = [w \in Workers |-> IF w \in team THEN Idle ELSE Absent]
      OBVIOUS
    <3>2. PICK w \in team : TRUE
      BY <3>1
    <3>3. w \in Workers /\ worker[w] # Absent
      BY <3>1, <3>2
    <3>4. \A v \in Workers : worker[v] # Exited
      BY <3>1
    <3> QED
      BY <3>3, <3>4 DEF ExitsExplained
  <2> QED
    BY <2>1, <2>2, <2>3, <2>4 DEF BenchInv
<1>2. BenchInv /\ [Next]_vars => BenchInv'
  <2> SUFFICES ASSUME BenchInv, [Next]_vars PROVE BenchInv'
    OBVIOUS
  <2>1. CASE PublishRange \/ Interrupt
    BY <2>1, CallPreserves
  <2>2. CASE Call
    BY <2>2, CallPreserves, HandOutPreserves DEF Call, Enqueue
  <2>3. ASSUME NEW w \in Workers, Work(w) PROVE BenchInv'
    BY <2>3, ReceivePreserves, ChannelClosedPreserves, DownloadSucceedsPreserves, DownloadFailsPreserves DEF Work
  <2>4. CASE UNCHANGED vars
    BY <2>4 DEF vars, callVars, statVars, BenchInv, HeightTypes, Accounted, InHand, Downloads, HeightInPlace,
                ExitsExplained, WorkersDone
  <2> QED
    BY <2>1, <2>2, <2>3, <2>4 DEF Next
<1> QED
  BY <1>1, <1>2, PTL DEF Spec

(* Every height handed out is accounted for. *)
THEOREM HeightsAccounted == Spec => []Accounted
<1>1. BenchInv => Accounted
  BY DEF BenchInv
<1> QED
  BY <1>1, BenchInvariant, PTL

(* No error and no interrupt means that everything was downloaded. *)
THEOREM UninterruptedCompleteness == Spec => []UninterruptedIsComplete
<1>1. BenchInv => UninterruptedIsComplete
  <2> SUFFICES ASSUME BenchInv, pc = "returned", err = "none", ~interrupted PROVE Complete
    BY DEF UninterruptedIsComplete
  <2> USE BenchAssumption DEF BenchInv, NoHeight
  <2>1. WorkersDone /\ failed = {}
    BY DEF ExitsExplained, HeightInPlace
  <2>2. jobs = {} /\ InHand = {}
    BY <2>1 DEF ExitsExplained, WorkersDone, InHand, Downloads
  <2>3. downloaded = FromHeight..(height - 1)
    BY <2>1, <2>2 DEF Accounted
  <2>4. toHeight # NoHeight /\ FromHeight <= toHeight => height = toHeight + 1
    BY DEF HeightInPlace
  <2>5. ASSUME downloaded # {} PROVE LastHeight = height - 1
    <3>1. height - 1 \in downloaded /\ \A g \in downloaded : g <= height - 1
      BY <2>3, <2>5 DEF HeightTypes
    <3>2. downloaded \cup failed = downloaded
      BY <2>1
    <3>3. \A h \in downloaded : (\A g \in downloaded : g <= h) => h = height - 1
      BY <3>1, <2>3 DEF HeightTypes
    <3> QED
      BY <2>5, <3>1, <3>2, <3>3 DEF LastHeight
  <2> QED
    BY <2>3, <2>4, <2>5 DEF Complete
<1> QED
  BY <1>1, BenchInvariant, PTL

(* The counters of a returned result do not change. *)
THEOREM ResultsAreFinal == Spec => ResultIsFinal
<1>1. BenchInv /\ [Next]_vars => [pc = "returned" => UNCHANGED statVars]_vars
  <2> SUFFICES ASSUME BenchInv, [Next]_vars, pc = "returned" PROVE UNCHANGED statVars
    BY DEF BenchInv
  <2>1. \A w \in Workers : worker[w] \in {Exited, Absent}
    BY DEF BenchInv, ExitsExplained, WorkersDone
  <2>2. ASSUME NEW w \in Workers, Work(w) PROVE UNCHANGED statVars
    BY <2>1, <2>2 DEF Work, Receive, ChannelClosed, DownloadSucceeds, DownloadFails, Downloads, Idle, Exited, Absent
  <2> QED
    BY <2>2 DEF Next, Call, Enqueue, PublishRange, Interrupt, Start, IndexFound, IndexMissing, IndexFails, HandOut,
                StopHandingOut, RangeDone, Return, Close, statVars, callVars, vars
<1> QED
  BY <1>1, BenchInvariant, PTL DEF Spec, ResultIsFinal
=============================================================================
