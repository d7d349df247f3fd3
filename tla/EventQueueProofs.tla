-------------------------- MODULE EventQueueProofs --------------------------
(***************************************************************************)
(* Proofs about SerialEventQueue, for any number of callbacks and any      *)
(* queue size.                                                             *)
(*                                                                         *)
(* HealthyLosesNothing is not inductive: a queue that has not started must *)
(* be known to be untouched, and a stop() that has yet to put its marker   *)
(* must be known to have left RUNNING behind.                              *)
(***************************************************************************)
EXTENDS EventQueue, TLAPS

NewIsUntouched ==
  state = "new" =>
    /\ queue = << >>
    /\ consumer = "none"
    /\ \A ev \in Event : emitter[ev] = "ready"

MarkerComesLate == stopper = "mark" => state \notin { "new", "running" }

HandlerIsAlive ==
  state = "running" => consumer \in { "get", "handle", "failing", "check" }

NothingRefused ==
  state = "running" => \A ev \in Event : emitter[ev] # "refused"

NoMarkerYet ==
  state = "running" => \A i \in DOMAIN queue : queue[i] # STOP

IInv ==
  /\ TypeOK
  /\ NewIsUntouched
  /\ MarkerComesLate
  /\ HandlerIsAlive
  /\ NothingRefused
  /\ NoMarkerYet

\* The invariant holds at the start ...
LEMMA InitIInv == Init => IInv
  BY DEF Init, IInv, TypeOK, NewIsUntouched, MarkerComesLate, HandlerIsAlive,
         NothingRefused, NoMarkerYet

\* ... every step preserves it ...
LEMMA NextIInv == IInv /\ [Next]_vars => IInv'
<1> SUFFICES ASSUME IInv, [Next]_vars
             PROVE  IInv'
  OBVIOUS
<1> USE EventQueueAssumption
    DEF IInv, TypeOK, NewIsUntouched, MarkerComesLate, HandlerIsAlive, NothingRefused,
        NoMarkerYet
<1>1. CASE UNCHANGED vars
  BY <1>1 DEF vars
<1>2. CASE start
  BY <1>2 DEF start
<1>3. CASE StopState
  BY <1>3 DEF StopState
<1>4. CASE StopMark
  <2>1. queue' \in Seq(Event \cup { STOP })
    BY <1>4 DEF StopMark
  <2> QED
    BY <1>4, <2>1 DEF StopMark
<1>5. CASE RunGet
  <2>1. /\ Head(queue) = queue[1] /\ 1 \in DOMAIN queue
        /\ Head(queue) \in Event \cup { STOP }
        /\ Tail(queue) \in Seq(Event \cup { STOP })
        /\ \A i \in DOMAIN Tail(queue) : i + 1 \in DOMAIN queue /\ Tail(queue)[i] = queue[i + 1]
    BY <1>5 DEF RunGet
  <2> QED
    BY <1>5, <2>1 DEF RunGet
<1>6. CASE RunHandle
  BY <1>6 DEF RunHandle
<1>7. CASE RunFail
  BY <1>7 DEF RunFail
<1>8. CASE RunCheck
  BY <1>8 DEF RunCheck
<1>9. ASSUME NEW ev \in Event, Emit(ev)
      PROVE  IInv'
  <2>1. CASE EmitCheck(ev)
    BY <2>1 DEF EmitCheck
  <2>2. CASE EmitPut(ev)
    <3>1. CASE Full
      BY <2>2, <3>1 DEF EmitPut
    <3>2. CASE ~ Full
      <4>1. queue' = Append(queue, ev) /\ state' = state
        BY <2>2, <3>2 DEF EmitPut
      <4>2. /\ queue' \in Seq(Event \cup { STOP })
            /\ \A i \in DOMAIN queue' : queue'[i] = ev \/ (i \in DOMAIN queue /\ queue'[i] = queue[i])
        BY <4>1
      <4>3. NoMarkerYet'
        BY <4>1, <4>2
      <4> QED
        BY <2>2, <3>2, <4>1, <4>2, <4>3 DEF EmitPut
    <3> QED
      BY <3>1, <3>2
  <2>3. CASE EmitFail(ev)
    BY <2>3 DEF EmitFail
  <2> QED
    BY <1>9, <2>1, <2>2, <2>3 DEF Emit
<1> QED
  BY <1>1, <1>2, <1>3, <1>4, <1>5, <1>6, <1>7, <1>8, <1>9 DEF Next, Run

\* ... so it holds for ever.
LEMMA Invariance == Spec => []IInv
  BY InitIInv, NextIInv, PTL DEF Spec

(***************************************************************************)
(* The queue, its threads and its state keep their types.                  *)
(***************************************************************************)
THEOREM TypeCorrect == Spec => []TypeOK
<1>1. IInv => TypeOK
  BY DEF IInv
<1> QED
  BY <1>1, Invariance, PTL

(***************************************************************************)
(* A RUNNING queue has refused no observation, holds no marker and has its *)
(* consumer, whatever the interleaving of callbacks, daemon and owner      *)
(* (event_queue.py:73-124).                                                *)
(***************************************************************************)
THEOREM HealthySound == Spec => []HealthyLosesNothing
<1>1. IInv => HealthyLosesNothing
  BY DEF IInv, HandlerIsAlive, NothingRefused, NoMarkerYet, HealthyLosesNothing, ToSet
<1> QED
  BY <1>1, Invariance, PTL

(***************************************************************************)
(* No interleaving of start(), stop(), overflow and handler failure brings *)
(* a queue back: FAILED is final, STOPPED can only become FAILED           *)
(* (event_queue.py:55-124).                                                *)
(***************************************************************************)
THEOREM UnhealthyForGood == Spec => NoRevival
<1>1. [Next]_vars => [/\ state = "failed" => state' = "failed"
                      /\ state = "stopped" => state' \in { "stopped", "failed" }]_vars
  BY DEF Next, vars, start, StopState, StopMark, Run, RunGet, RunHandle, RunFail, RunCheck,
         Emit, EmitCheck, EmitPut, EmitFail
<1> QED
  BY <1>1, PTL DEF Spec, NoRevival

=============================================================================
