---------------------------- MODULE TradeMachine ----------------------------
(***************************************************************************)
(* The execution state machine of qmt-execution-core: the declared         *)
(* transitions, advance(), assert_invariants() (state_machine.py), the     *)
(* mapping of broker observations to events (recovery.py) and the finality *)
(* of a snapshot (finality.py).                                            *)
(*                                                                         *)
(* This module has no variables.  A snapshot is any record with the fields *)
(* "state" and "facts"; SafetyFacts is the set of the facts that are True, *)
(* so replace(facts, x=True) is a union and x=False a difference.          *)
(***************************************************************************)

(***************************************************************************)
(* States, events, statuses and facts (domain.py).                         *)
(***************************************************************************)
TradeState ==
  { "IDLE", "WAIT_TRIGGER", "TRIGGER", "PRE_CHECK", "SUBMITTED", "ACCEPTED",
    "WORKING", "UNKNOWN", "PARTIALLY_FILLED", "FILLED", "PENDING_CANCEL",
    "CANCELLING", "CANCEL_REJECTED", "CANCELLED", "REJECTED", "FAILED" }

BrokerOrderStatus ==
  { "accepted", "working", "partially_filled", "cancel_pending",
    "partial_cancelled", "cancelled", "filled", "rejected", "unknown" }

PrecheckFacts == { "broker_snapshot", "position", "cash", "quote" }
SessionFacts  == { "environment", "account" }

SafetyFacts ==
  SessionFacts \cup PrecheckFacts \cup
  { "intent", "reservation", "unresolved", "terminal", "submitted_once",
    "cancel_intent" }

Snapshot == [state : TradeState, facts : SUBSET SafetyFacts]

initial_snapshot == [state |-> "IDLE", facts |-> {}]

(***************************************************************************)
(* TRANSITIONS.  In the code's table every event has the same target from  *)
(* every state that declares it, so the table is the target of each event  *)
(* and the set of events each state declares.                              *)
(***************************************************************************)
Target ==
  [ SESSION_READY           |-> "WAIT_TRIGGER",
    TRIGGERED               |-> "TRIGGER",
    BEGIN_PRECHECK          |-> "PRE_CHECK",
    PRECHECK_VERIFIED       |-> "PRE_CHECK",
    PRECHECK_REJECTED       |-> "REJECTED",
    INTENT_PERSISTED        |-> "SUBMITTED",
    PRE_BROKER_REJECTED     |-> "REJECTED",
    PRE_BROKER_ABORTED      |-> "FAILED",
    SUBMIT_ACCEPTED         |-> "ACCEPTED",
    SUBMIT_REJECTED         |-> "REJECTED",
    SUBMIT_AMBIGUOUS        |-> "UNKNOWN",
    ORDER_WORKING           |-> "WORKING",
    ORDER_PARTIAL           |-> "PARTIALLY_FILLED",
    ORDER_FILLED            |-> "FILLED",
    ORDER_REJECTED          |-> "REJECTED",
    CANCEL_REQUESTED        |-> "PENDING_CANCEL",
    CANCEL_SENT             |-> "CANCELLING",
    CANCEL_REQUEST_REJECTED |-> "CANCEL_REJECTED",
    CANCEL_STILL_PENDING    |-> "CANCELLING",
    CANCEL_CONFIRMED        |-> "CANCELLED",
    QUERY_AMBIGUOUS         |-> "UNKNOWN",
    RESTART_RECOVERY        |-> "UNKNOWN",
    RECOVERY_ACCEPTED       |-> "ACCEPTED",
    RECOVERY_WORKING        |-> "WORKING",
    RECOVERY_PARTIAL        |-> "PARTIALLY_FILLED",
    RECOVERY_CANCELLING     |-> "CANCELLING",
    RECOVERY_FILLED         |-> "FILLED",
    RECOVERY_CANCELLED      |-> "CANCELLED",
    RECOVERY_REJECTED       |-> "REJECTED",
    RECOVERY_FAILED         |-> "FAILED",
    NEXT_CYCLE              |-> "WAIT_TRIGGER",
    FATAL                   |-> "FAILED" ]

TradeEvent == DOMAIN Target

RecoveryEvents ==
  { "RECOVERY_WORKING", "RECOVERY_PARTIAL", "RECOVERY_CANCELLING",
    "RECOVERY_FILLED", "RECOVERY_CANCELLED", "RECOVERY_REJECTED",
    "RECOVERY_FAILED", "QUERY_AMBIGUOUS" }

\* Mutants of AbortEvents: an event the author forgot, and one too many.
AbortWithoutAmbiguity == { "RESTART_RECOVERY", "FATAL" }
AbortWithoutRestart == { "QUERY_AMBIGUOUS", "FATAL" }
AbortWithRetry == { "QUERY_AMBIGUOUS", "RESTART_RECOVERY", "FATAL", "NEXT_CYCLE" }

AbortEvents == { "QUERY_AMBIGUOUS", "RESTART_RECOVERY", "FATAL" }

WorkingEvents ==
  { "ORDER_WORKING", "ORDER_PARTIAL", "ORDER_FILLED", "ORDER_REJECTED",
    "CANCEL_REQUESTED", "CANCEL_CONFIRMED" } \cup AbortEvents

Declared ==
  [ IDLE             |-> { "SESSION_READY", "FATAL" },
    WAIT_TRIGGER     |-> { "TRIGGERED", "FATAL" },
    TRIGGER          |-> { "BEGIN_PRECHECK", "FATAL" },
    PRE_CHECK        |-> { "PRECHECK_VERIFIED", "PRECHECK_REJECTED",
                           "INTENT_PERSISTED", "FATAL" },
    SUBMITTED        |-> { "PRE_BROKER_REJECTED", "PRE_BROKER_ABORTED",
                           "SUBMIT_ACCEPTED", "SUBMIT_REJECTED",
                           "SUBMIT_AMBIGUOUS", "RESTART_RECOVERY", "FATAL" },
    ACCEPTED         |-> WorkingEvents,
    WORKING          |-> WorkingEvents,
    PARTIALLY_FILLED |-> WorkingEvents \ { "ORDER_WORKING", "ORDER_REJECTED" },
    PENDING_CANCEL   |-> { "CANCEL_SENT", "CANCEL_REQUEST_REJECTED",
                           "ORDER_WORKING", "ORDER_PARTIAL", "ORDER_FILLED",
                           "CANCEL_CONFIRMED" } \cup AbortEvents,
    CANCELLING       |-> { "CANCEL_STILL_PENDING", "ORDER_WORKING",
                           "ORDER_PARTIAL", "ORDER_FILLED",
                           "CANCEL_CONFIRMED" } \cup AbortEvents,
    CANCEL_REJECTED  |-> RecoveryEvents \cup { "RESTART_RECOVERY" },
    UNKNOWN          |-> RecoveryEvents \cup { "RECOVERY_ACCEPTED" },
    FILLED           |-> { "NEXT_CYCLE" },
    CANCELLED        |-> { "NEXT_CYCLE" },
    REJECTED         |-> { "NEXT_CYCLE" },
    FAILED           |-> {} ]

(***************************************************************************)
(* The facts advance() leaves after an event.  A ready SessionEvidence has *)
(* both session facts and an allowed PrecheckEvidence all six, or its      *)
(* validate() raises; neither event is raised without them.                *)
(***************************************************************************)
BrokerActiveEvents ==
  { "SUBMIT_ACCEPTED", "SUBMIT_AMBIGUOUS", "ORDER_WORKING", "ORDER_PARTIAL",
    "RECOVERY_ACCEPTED", "RECOVERY_WORKING", "RECOVERY_PARTIAL",
    "RECOVERY_CANCELLING", "CANCEL_STILL_PENDING" }

CancelEvents == { "CANCEL_REQUESTED", "CANCEL_SENT", "CANCEL_REQUEST_REJECTED" }

\* Mutants of ConfirmedEvents: a rejection that leaves the order unresolved,
\* and a failed recovery that counts as a confirmation.
ConfirmedWithoutRejected ==
  { "SUBMIT_REJECTED", "ORDER_FILLED", "CANCEL_CONFIRMED", "RECOVERY_FILLED",
    "RECOVERY_CANCELLED", "RECOVERY_REJECTED" }
ConfirmedByFailure ==
  { "SUBMIT_REJECTED", "ORDER_FILLED", "CANCEL_CONFIRMED", "RECOVERY_FILLED",
    "RECOVERY_CANCELLED", "RECOVERY_REJECTED", "ORDER_REJECTED", "RECOVERY_FAILED" }

ConfirmedEvents ==
  { "SUBMIT_REJECTED", "ORDER_FILLED", "CANCEL_CONFIRMED", "RECOVERY_FILLED",
    "RECOVERY_CANCELLED", "RECOVERY_REJECTED", "ORDER_REJECTED" }

NextFacts(f, event) ==
  CASE event = "SESSION_READY" -> f \cup SessionFacts
    [] event = "PRECHECK_VERIFIED" -> f \cup SessionFacts \cup PrecheckFacts
    [] event = "INTENT_PERSISTED" -> f \cup { "intent", "reservation" }
    [] event \in { "PRE_BROKER_REJECTED", "PRE_BROKER_ABORTED" } ->
         (f \ { "submitted_once", "unresolved" }) \cup { "terminal" }
    [] event \in BrokerActiveEvents -> f \cup { "submitted_once", "unresolved" }
    [] event \in CancelEvents -> f \cup { "cancel_intent", "unresolved" }
    [] event \in ConfirmedEvents ->
         (f \ { "unresolved" }) \cup { "submitted_once", "terminal" }
    [] event \in { "QUERY_AMBIGUOUS", "RESTART_RECOVERY" } ->
         (f \ { "broker_snapshot", "cash", "quote", "terminal" }) \cup
         (IF f \cap { "submitted_once", "intent" } # {} THEN { "unresolved" } ELSE {})
    [] event = "RECOVERY_FAILED" -> f \cup { "unresolved" }
    [] event = "NEXT_CYCLE" -> f \cap SessionFacts
    [] OTHER -> f

(***************************************************************************)
(* assert_invariants(): raised on every snapshot advance() produces and on *)
(* every snapshot the journal loads.                                       *)
(***************************************************************************)
InFlightStates ==
  { "SUBMITTED", "ACCEPTED", "WORKING", "PARTIALLY_FILLED", "PENDING_CANCEL",
    "CANCELLING", "CANCEL_REJECTED" }

assert_invariants(s) ==
  /\ "submitted_once" \in s.facts => { "intent", "reservation" } \subseteq s.facts
  /\ s.state \in InFlightStates \cup { "UNKNOWN", "FILLED", "CANCELLED" }
       => SessionFacts \subseteq s.facts
  /\ s.state = "SUBMITTED"
       => PrecheckFacts \cup { "intent", "reservation" } \subseteq s.facts
  /\ s.state \in { "WAIT_TRIGGER", "TRIGGER", "PRE_CHECK" }
       => "unresolved" \notin s.facts
  /\ s.state \in { "PENDING_CANCEL", "CANCELLING", "CANCEL_REJECTED" }
       => "cancel_intent" \in s.facts
  /\ s.state \in { "FILLED", "CANCELLED" }
       => "unresolved" \notin s.facts /\ "terminal" \in s.facts
  /\ s.state = "UNKNOWN" => "unresolved" \in s.facts

\* Mutant of Allowed: INTENT_PERSISTED without the precheck facts.
AllowedUnchecked(s, event) ==
  /\ event \in Declared[s.state]
  /\ event = "RECOVERY_CANCELLING" => "cancel_intent" \in s.facts

(***************************************************************************)
(* advance(): the InvalidTransition checks, and the successor.  The other  *)
(* fields of the record (the journal's data) are left alone.               *)
(***************************************************************************)
Allowed(s, event) ==
  /\ event \in Declared[s.state]
  /\ event = "RECOVERY_CANCELLING" => "cancel_intent" \in s.facts
  /\ event = "INTENT_PERSISTED" => PrecheckFacts \subseteq s.facts

advance(s, event) ==
  [s EXCEPT !.state = Target[event], !.facts = NextFacts(s.facts, event)]

\* advance() returns instead of raising InvalidTransition or InvariantViolation.
CanAdvance(s, event) == Allowed(s, event) /\ assert_invariants(advance(s, event))

(***************************************************************************)
(* event_for_observation(): the event a broker status means in a state,    *)
(* "NONE" when the observation changes nothing, "AMBIGUOUS" when           *)
(* RecoveryAmbiguous is raised.                                            *)
(***************************************************************************)
RecoveryEvent ==
  [ accepted          |-> "RECOVERY_ACCEPTED",
    working           |-> "RECOVERY_WORKING",
    partially_filled  |-> "RECOVERY_PARTIAL",
    cancel_pending    |-> "RECOVERY_CANCELLING",
    partial_cancelled |-> "RECOVERY_CANCELLED",
    cancelled         |-> "RECOVERY_CANCELLED",
    filled            |-> "RECOVERY_FILLED",
    rejected          |-> "RECOVERY_REJECTED" ]

PolledStates ==
  { "ACCEPTED", "WORKING", "PARTIALLY_FILLED", "PENDING_CANCEL", "CANCELLING" }

event_for_observation(current, status) ==
  CASE status = "unknown" -> "QUERY_AMBIGUOUS"
    [] status # "unknown" /\ current = "CANCEL_REJECTED" /\ status = "accepted" ->
         "QUERY_AMBIGUOUS"
    [] \/ status # "unknown" /\ current = "UNKNOWN"
       \/ status \notin { "unknown", "accepted" } /\ current = "CANCEL_REJECTED" ->
         RecoveryEvent[status]
    [] status = "accepted" /\ current = "ACCEPTED" -> "NONE"
    [] status = "working" /\ current \in PolledStates \ { "PARTIALLY_FILLED" } ->
         "ORDER_WORKING"
    [] status = "partially_filled" /\ current \in PolledStates -> "ORDER_PARTIAL"
    [] status = "cancel_pending" /\ current = "PENDING_CANCEL" -> "CANCEL_SENT"
    [] status = "cancel_pending" /\ current = "CANCELLING" -> "CANCEL_STILL_PENDING"
    [] status \in { "partial_cancelled", "cancelled" } /\ current \in PolledStates ->
         "CANCEL_CONFIRMED"
    [] status = "filled" /\ current \in PolledStates -> "ORDER_FILLED"
    [] status = "rejected" /\ current \in { "ACCEPTED", "WORKING" } -> "ORDER_REJECTED"
    [] OTHER -> "AMBIGUOUS"

(***************************************************************************)
(* execution_finality(): whether the shared symbol claim may be released.  *)
(***************************************************************************)
ExecutionFinality == { "OPEN", "RESOLVED", "QUARANTINED" }

\* Mutant of execution_finality: every FAILED snapshot may be released.
FinalityByStateOnly(s) ==
  IF s.state \in InFlightStates \cup { "UNKNOWN" } THEN "OPEN" ELSE "RESOLVED"

execution_finality(s) ==
  CASE s.state = "FAILED" /\ "unresolved" \in s.facts -> "QUARANTINED"
    [] s.state \in InFlightStates \cup { "UNKNOWN" } -> "OPEN"
    [] OTHER -> "RESOLVED"

=============================================================================
