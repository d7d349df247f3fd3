-------------------------- MODULE ExecutionMachine --------------------------
(***************************************************************************)
(* The life of one execution as the state machine alone allows it: from    *)
(* the initial snapshot, any event advance() accepts.  This is the         *)
(* specification the journal file of a session is shown to follow, and the *)
(* graph that verify_state_machine() explores.                             *)
(***************************************************************************)
EXTENDS TradeMachine

VARIABLE snapshot

Init == snapshot = initial_snapshot

Step(event) ==
  /\ CanAdvance(snapshot, event)
  /\ snapshot' = advance(snapshot, event)

Next == \E event \in TradeEvent : Step(event)

Spec == Init /\ [][Next]_snapshot

-----------------------------------------------------------------------------
TypeOK == snapshot \in Snapshot

(***************************************************************************)
(* advance() checks assert_invariants() only after it has built the        *)
(* successor, so a declared event could still raise InvariantViolation in  *)
(* the middle of a trade.  No event that passes the InvalidTransition      *)
(* checks (state_machine.py:162-179) ever does, from any reachable         *)
(* snapshot: the assertion at state_machine.py:300 is never what stops a   *)
(* session.                                                                *)
(***************************************************************************)
NoInvariantViolation ==
  \A event \in Declared[snapshot.state] :
     Allowed(snapshot, event) => assert_invariants(advance(snapshot, event))

(***************************************************************************)
(* Finality (finality.py) and the facts tell the same story in both        *)
(* directions: what may be released carries no unresolved order, and a     *)
(* FAILED snapshot of an execution whose submission the machine recorded   *)
(* is quarantined, whatever path of cancels, restarts and ambiguous        *)
(* queries led there.                                                      *)
(***************************************************************************)
ReleaseIsResolved ==
  /\ execution_finality(snapshot) = "RESOLVED" => "unresolved" \notin snapshot.facts
  /\ snapshot.state = "FAILED" /\ "submitted_once" \in snapshot.facts
       => execution_finality(snapshot) = "QUARANTINED"

(***************************************************************************)
(* While an order is in flight under a broker id, whatever status the      *)
(* broker reports has somewhere to go: event_for_observation() yields an   *)
(* event advance() accepts, or nothing, or an ambiguity for which          *)
(* QUERY_AMBIGUOUS is declared (session.py:399-412, 438-445).  The one     *)
(* exception the code makes is a cancel it never asked for                 *)
(* (state_machine.py:171).                                                 *)
(***************************************************************************)
ObservationsAreTotal ==
  snapshot.state \in PolledStates \cup { "CANCEL_REJECTED", "UNKNOWN" } =>
    \A status \in BrokerOrderStatus :
      LET event == event_for_observation(snapshot.state, status) IN
      \/ event = "NONE"
      \/ CanAdvance(snapshot, IF event = "AMBIGUOUS" THEN "QUERY_AMBIGUOUS" ELSE event)
      \/ event = "RECOVERY_CANCELLING" /\ "cancel_intent" \notin snapshot.facts

(***************************************************************************)
(* An unresolved order is only ever cleared by broker evidence: the step   *)
(* that drops the fact ends FILLED, CANCELLED or REJECTED with the         *)
(* terminal order confirmed (SubmitAmbiguous -> UNKNOWN -> resend would    *)
(* break it).                                                              *)
(***************************************************************************)
UnresolvedNeedsEvidence ==
  [][ "unresolved" \in snapshot.facts /\ "unresolved" \notin snapshot'.facts
        => /\ snapshot'.state \in { "FILLED", "CANCELLED", "REJECTED" }
           /\ { "terminal", "submitted_once" } \subseteq snapshot'.facts ]_snapshot

(***************************************************************************)
(* No blind retry: once an intent is durable, a new order path can only be *)
(* entered through NEXT_CYCLE from a terminal snapshot whose finality is   *)
(* RESOLVED (verifier.py:154-161 checks one state of this).                *)
(***************************************************************************)
NoBlindRetry ==
  [][ "intent" \in snapshot.facts
        /\ snapshot'.state \in { "WAIT_TRIGGER", "TRIGGER", "PRE_CHECK" }
        => /\ execution_finality(snapshot) = "RESOLVED"
           /\ snapshot.state \in { "FILLED", "CANCELLED", "REJECTED" }
           /\ snapshot'.facts \subseteq SessionFacts ]_snapshot

=============================================================================
