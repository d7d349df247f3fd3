----------------------------- MODULE EventQueue -----------------------------
(***************************************************************************)
(* SerialEventQueue (event_queue.py): broker callback threads put          *)
(* observations into a bounded queue that one daemon thread consumes, and  *)
(* the owner starts and stops it.  _lock protects the state only: the put  *)
(* of try_emit() and of stop() happens after the lock is given back, so    *)
(* each method is two steps that other threads may come between.           *)
(*                                                                         *)
(* Each event is emitted by a callback thread of its own.  A try_emit()    *)
(* before start() only returns False and is not a step.                    *)
(***************************************************************************)
EXTENDS Naturals, Sequences, SequencesExt

CONSTANTS Event,          \* the observations the callbacks deliver
          MaxSize,        \* maxsize of the queue
          STOP            \* the _STOP marker

ASSUME EventQueueAssumption ==
  /\ MaxSize \in Nat \ {0}
  /\ STOP \notin Event

VARIABLES state,          \* EventQueueState
          queue,          \* the queue.Queue
          emitter,        \* event -> where the try_emit() of it stands
          stopper,        \* where stop() stands
          consumer,       \* where the daemon thread stands
          item            \* what the daemon thread took

vars == << state, queue, emitter, stopper, consumer, item >>

Init ==
  /\ state = "new"
  /\ queue = << >>
  /\ emitter = [ev \in Event |-> "ready"]
  /\ stopper = "ready"
  /\ consumer = "none"
  /\ item = STOP

Full == Len(queue) >= MaxSize

start ==
  /\ state = "new"
  /\ state' = "running"
  /\ consumer' = "get"
  /\ UNCHANGED << queue, emitter, stopper, item >>

-----------------------------------------------------------------------------
(***************************************************************************)
(* try_emit(): the check under the lock, then put_nowait(), then _fail()   *)
(* when the queue was full.                                                *)
(***************************************************************************)
EmitCheck(ev) ==
  /\ emitter[ev] = "ready" /\ state # "new"
  /\ emitter' = [emitter EXCEPT ![ev] = IF state = "running" THEN "checked" ELSE "refused"]
  /\ UNCHANGED << state, queue, stopper, consumer, item >>

EmitPut(ev) ==
  /\ emitter[ev] = "checked"
  /\ IF Full
     THEN /\ emitter' = [emitter EXCEPT ![ev] = "overflow"]
          /\ UNCHANGED queue
     ELSE /\ emitter' = [emitter EXCEPT ![ev] = "accepted"]
          /\ queue' = Append(queue, ev)
  /\ UNCHANGED << state, stopper, consumer, item >>

\* Mutant of EmitFail: an overflow only returns False.
OverflowIsSilent(ev) ==
  /\ emitter[ev] = "overflow"
  /\ emitter' = [emitter EXCEPT ![ev] = "refused"]
  /\ UNCHANGED << state, queue, stopper, consumer, item >>

EmitFail(ev) ==
  /\ emitter[ev] = "overflow"
  /\ state' = "failed"
  /\ emitter' = [emitter EXCEPT ![ev] = "refused"]
  /\ UNCHANGED << queue, stopper, consumer, item >>

\* Mutant of StopState: stop() hides a failure.
StopHidesFailure ==
  /\ stopper = "ready" /\ state # "stopped"
  /\ state' = "stopped"
  /\ stopper' = IF state = "running" THEN "mark" ELSE "ready"
  /\ UNCHANGED << queue, emitter, consumer, item >>

(***************************************************************************)
(* stop(): STOPPED under the lock, then the marker, which is dropped when  *)
(* the queue is full.                                                      *)
(***************************************************************************)
StopState ==
  /\ stopper = "ready" /\ state \in { "new", "running" }
  /\ state' = "stopped"
  /\ stopper' = IF state = "running" THEN "mark" ELSE "ready"
  /\ UNCHANGED << queue, emitter, consumer, item >>

\* Mutant of StopMark: the marker is not the one _run() compares with.
MarkIsOtherObject ==
  /\ stopper = "mark"
  /\ queue' = IF Full THEN queue ELSE Append(queue, "stop")
  /\ stopper' = "ready"
  /\ UNCHANGED << state, emitter, consumer, item >>

StopMark ==
  /\ stopper = "mark"
  /\ queue' = IF Full THEN queue ELSE Append(queue, STOP)
  /\ stopper' = "ready"
  /\ UNCHANGED << state, emitter, consumer, item >>

(***************************************************************************)
(* _run(): take an item, return on the marker, handle it; an exception of  *)
(* the handler fails the queue and ends the thread; after an item the      *)
(* thread ends when the queue is STOPPED and empty.                        *)
(***************************************************************************)
RunGet ==
  /\ consumer = "get" /\ queue # << >>
  /\ item' = Head(queue)
  /\ queue' = Tail(queue)
  /\ consumer' = IF Head(queue) = STOP THEN "ended" ELSE "handle"
  /\ UNCHANGED << state, emitter, stopper >>

RunHandle ==
  /\ consumer = "handle"
  /\ consumer' \in { "check", "failing" }
  /\ UNCHANGED << state, queue, emitter, stopper, item >>

RunFail ==
  /\ consumer = "failing"
  /\ state' = "failed"
  /\ consumer' = "ended"
  /\ UNCHANGED << queue, emitter, stopper, item >>

\* Mutants of RunCheck: the thread ends on an empty queue, or only on the marker.
EndsWhenEmpty ==
  /\ consumer = "check"
  /\ consumer' = IF queue = << >> THEN "ended" ELSE "get"
  /\ UNCHANGED << state, queue, emitter, stopper, item >>

EndsOnMarkerOnly ==
  /\ consumer = "check"
  /\ consumer' = "get"
  /\ UNCHANGED << state, queue, emitter, stopper, item >>

RunCheck ==
  /\ consumer = "check"
  /\ consumer' = IF state = "stopped" /\ queue = << >> THEN "ended" ELSE "get"
  /\ UNCHANGED << state, queue, emitter, stopper, item >>

Emit(ev) == EmitCheck(ev) \/ EmitPut(ev) \/ EmitFail(ev)
Run == RunGet \/ RunHandle \/ RunFail \/ RunCheck

Next == start \/ StopState \/ StopMark \/ Run \/ \E ev \in Event : Emit(ev)

Spec == Init /\ [][Next]_vars

\* A running thread goes on: the daemon, and the threads inside a method.
Fairness ==
  /\ WF_vars(Run) /\ WF_vars(StopMark)
  /\ \A ev \in Event : WF_vars(EmitPut(ev) \/ EmitFail(ev))

FairSpec == Spec /\ Fairness

-----------------------------------------------------------------------------
TypeOK ==
  /\ state \in { "new", "running", "stopped", "failed" }
  /\ queue \in Seq(Event \cup { STOP })
  /\ emitter \in [Event -> { "ready", "checked", "overflow", "accepted", "refused" }]
  /\ stopper \in { "ready", "mark" }
  /\ consumer \in { "none", "get", "handle", "failing", "check", "ended" }
  /\ item \in Event \cup { STOP }

(***************************************************************************)
(* What "healthy" promises to the order gate: while the state is RUNNING   *)
(* no callback has been turned away and the daemon thread is there to      *)
(* handle what is queued, although puts, failures and stop() are not under *)
(* the lock (event_queue.py:73-124).                                       *)
(***************************************************************************)
HealthyLosesNothing ==
  state = "running" =>
    /\ consumer \notin { "none", "ended" }
    /\ STOP \notin ToSet(queue)
    /\ \A ev \in Event : emitter[ev] # "refused"

(***************************************************************************)
(* Unhealthy for good: a queue that has failed or stopped never accepts    *)
(* the order path again, and FAILED is final (event_queue.py:55-67).       *)
(***************************************************************************)
NoRevival ==
  [][ /\ state = "failed" => state' = "failed"
      /\ state = "stopped" => state' \in { "stopped", "failed" } ]_vars

(***************************************************************************)
(* An accepted observation is taken out of the queue in the end, unless    *)
(* the queue stops being healthy.                                          *)
(***************************************************************************)
AcceptedIsHandled ==
  \A ev \in Event : emitter[ev] = "accepted" ~> (ev \notin ToSet(queue) \/ state # "running")

(***************************************************************************)
(* A stopped queue lets its thread go, with or without the marker          *)
(* (event_queue.py:95-96).  The exception is real: an overflow that comes  *)
(* late turns STOPPED into FAILED, and without its marker the thread then  *)
(* waits in get() for ever.                                                *)
(***************************************************************************)
StopEndsThread ==
  state = "stopped" ~> (consumer \in { "none", "ended" } \/ state = "failed")

=============================================================================
