---------------------------- MODULE PlainSession ----------------------------
(***************************************************************************)
(* ExecutionSession used on its own (an exclusive runtime): the pre-submit *)
(* coordination hook is the no-op default and every call returns straight  *)
(* to the strategy.                                                        *)
(***************************************************************************)
EXTENDS Session

vars == << brokerVars, sessionVars >>

Init == SessionInit

Step(e) ==
  \/ SessionStep(e) \/ NoCoordination(e) \/ Sidecar(e) \/ PlaceRejected(e)
  \/ Return(e)

BrokerNext == \E r \in Request : BrokerMove(r) /\ UNCHANGED sessionVars

Next == BrokerNext \/ \E e \in Exec : Step(e) \/ Call(e)

Spec == Init /\ [][Next]_vars

(***************************************************************************)
(* Fairness.  Code that runs goes on running, a stopped execution is       *)
(* opened again and the strategy keeps polling (nothing in the library     *)
(* does, OPERATIONS.md leaves both to the operator).  Strong fairness of   *)
(* the recovery steps: crashes and unanswered queries may be many but do   *)
(* not hit the same step for ever.  The broker finishes its orders.        *)
(***************************************************************************)
Fairness ==
  /\ \A r \in Request : WF_vars(BrokerMove(r) /\ UNCHANGED sessionVars)
  /\ \A e \in Exec :
       /\ WF_vars(Step(e)) /\ WF_vars(Open(e))
       /\ SF_vars(OpenInFlight(e)) /\ SF_vars(OpenUnknown(e)) /\ SF_vars(Recover(e))
       /\ SF_vars(ApplyRecovered(e)) /\ SF_vars(ObservedEvent(e)) /\ SF_vars(Return(e))
       /\ SF_vars(CallPoll(e)) /\ SF_vars(PollAnswered(e))

FairSpec == Spec /\ Fairness

-----------------------------------------------------------------------------
(***************************************************************************)
(* An order the broker took is settled in the journal in the end, with its *)
(* true outcome or as a quarantined FAILED, whatever crashes, lost answers *)
(* and cancels happen on the way (session.py:98-165, 265-295).             *)
(***************************************************************************)
Settled(journal, r) ==
  /\ journal.intent = r
  /\ \/ journal.state \in { "FILLED", "CANCELLED", "REJECTED" }
     \/ execution_finality(journal) = "QUARANTINED"

EveryOrderSettles == \A r \in Request : Live(r) ~> Settled(disk[Owner[r]], r)

(***************************************************************************)
(* SPECIFICATION.md:140, "FAILED + broker submit proven absent ->          *)
(* RESOLVED": a FAILED execution that may release its symbol has no order  *)
(* at the broker.                                                          *)
(***************************************************************************)
ResolvedFailureHasNoOrder ==
  \A e \in Exec :
    mem[e].state = "FAILED" /\ execution_finality(mem[e]) = "RESOLVED" /\ mem[e].intent # None
      => ~ Live(mem[e].intent)

(***************************************************************************)
(* journal.py:126 raises "journal already contains an intent" as an        *)
(* integrity error; a session that reached WAIT_TRIGGER through            *)
(* next_cycle() never meets it.                                            *)
(***************************************************************************)
IntentSlotIsFree ==
  \A e \in Exec : pc[e] = "intent" => mem[e].intent = None

=============================================================================
