----------------------------- MODULE UploadBatch -----------------------------
(***************************************************************************)
(* What a call of uploadBlocksFrom promises its caller, whatever its       *)
(* goroutines do: heights are taken up in order, so many of them at a     *)
(* time, a block lands only while the call is under way, and the call    *)
(* reports success only when every height is done.  UploadFollower models  *)
(* the call by these sets.                                                 *)
(***************************************************************************)
EXTENDS Integers

CONSTANTS
  From, To,
  Loads      \* the sets of heights that may be in flight at once

VARIABLES
  todo,      \* heights not yet taken up
  inflight,  \* heights taken up and not done
  done,      \* heights whose block is stored by now
  verdict    \* "none" while the call is under way

vars == <<todo, inflight, done, verdict>>

Init ==
  /\ todo = From..To
  /\ inflight = {}
  /\ done \subseteq From..To
  /\ verdict = "none"

TakeUp(h) ==
  /\ h \in todo
  /\ \A g \in todo : h <= g
  /\ todo' = todo \ {h}
  /\ inflight' = inflight \cup {h}
  /\ inflight' \in Loads
  /\ UNCHANGED <<done, verdict>>

(* The block is in the bucket, and the caller's goroutine knows.           *)
Finish(h) ==
  /\ h \in inflight
  /\ inflight' = inflight \ {h}
  /\ done' = done \cup {h}
  /\ UNCHANGED <<todo, verdict>>

(* The block is in the bucket, but the answer to the put is lost.          *)
Land(h) ==
  /\ h \in inflight
  /\ done' = done \cup {h}
  /\ UNCHANGED <<todo, inflight, verdict>>

Succeed ==
  /\ todo = {} /\ inflight = {}
  /\ verdict' = "success"
  /\ UNCHANGED <<todo, inflight, done>>

Fail == verdict' = "failure" /\ UNCHANGED <<todo, inflight, done>>

Next ==
  /\ verdict = "none"
  /\ \/ \E h \in From..To : TakeUp(h) \/ Finish(h) \/ Land(h)
     \/ Succeed \/ Fail

Spec == Init /\ [][Next]_vars
=============================================================================
