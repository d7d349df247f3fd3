--------------------------- MODULE OperatorLemmas ---------------------------
(***************************************************************************)
(* Facts about the operators the models are built from: sums over finite   *)
(* sets, and the execution state machine, what its table declares, what    *)
(* advance() returns, and the invariant every snapshot satisfies.          *)
(*                                                                         *)
(* assert_invariants() alone is not inductive: it says nothing of the      *)
(* facts of REJECTED and FAILED, and of ACCEPTED, WORKING and              *)
(* PARTIALLY_FILLED only that the session is verified, so a snapshot could *)
(* pass it and still fall into a violation on its next event.  Consistent  *)
(* says which facts each state really carries.                             *)
(***************************************************************************)
EXTENDS TradeMachine, Integers, FiniteSetsExt, FiniteSetTheorems, TLAPS

BeforeIntent == { "IDLE", "WAIT_TRIGGER", "TRIGGER", "PRE_CHECK" }

\* States in which the broker holds, or may hold, the order.
Working == PolledStates \cup { "CANCEL_REJECTED", "UNKNOWN" }

Consistent(s) ==
  /\ s.state \in BeforeIntent => s.facts \subseteq SessionFacts \cup PrecheckFacts
  /\ s.state \in BeforeIntent \ { "PRE_CHECK" } => s.facts \subseteq SessionFacts
  /\ s.state \notin { "IDLE", "FAILED" } => SessionFacts \subseteq s.facts
  /\ s.state = "SUBMITTED" =>
       /\ PrecheckFacts \cup { "intent", "reservation" } \subseteq s.facts
       /\ s.facts \cap { "unresolved", "submitted_once" } = {}
  /\ s.state \in Working => { "intent", "reservation", "unresolved" } \subseteq s.facts
  /\ s.state \in Working \ { "UNKNOWN" } => "submitted_once" \in s.facts
  /\ s.state \in { "PENDING_CANCEL", "CANCELLING", "CANCEL_REJECTED" } =>
       "cancel_intent" \in s.facts
  /\ s.state \in { "FILLED", "CANCELLED" } => "terminal" \in s.facts
  /\ s.state \in { "FILLED", "CANCELLED", "REJECTED" } => "unresolved" \notin s.facts
  /\ s.state = "FAILED" /\ "submitted_once" \in s.facts => "unresolved" \in s.facts
  /\ "submitted_once" \in s.facts => { "intent", "reservation" } \subseteq s.facts

\* What the broker says of an order it has accepted.
OrderEvents ==
  { "ORDER_WORKING", "ORDER_PARTIAL", "ORDER_FILLED", "ORDER_REJECTED",
    "CANCEL_REQUESTED", "CANCEL_SENT", "CANCEL_REQUEST_REJECTED",
    "CANCEL_STILL_PENDING", "CANCEL_CONFIRMED" }

USE DEF TradeState, SafetyFacts, SessionFacts, PrecheckFacts

-----------------------------------------------------------------------------
(***************************************************************************)
(* The table: its events, their sources and targets.                       *)
(***************************************************************************)

\* The events of domain.py:32-64 that the table of state_machine.py:29-141 uses.
LEMMA EventNames ==
  TradeEvent =
    { "SESSION_READY", "TRIGGERED", "BEGIN_PRECHECK", "PRECHECK_VERIFIED",
      "PRECHECK_REJECTED", "INTENT_PERSISTED", "PRE_BROKER_REJECTED",
      "PRE_BROKER_ABORTED", "SUBMIT_ACCEPTED", "SUBMIT_REJECTED",
      "SUBMIT_AMBIGUOUS", "RECOVERY_ACCEPTED", "RESTART_RECOVERY",
      "NEXT_CYCLE", "FATAL" } \cup OrderEvents \cup RecoveryEvents
  BY DEF TradeEvent, Target, OrderEvents, RecoveryEvents

\* No state declares an event the table has no target for.
LEMMA DeclaredAreEvents == \A state \in TradeState : Declared[state] \subseteq TradeEvent
  BY EventNames DEF Declared, WorkingEvents, RecoveryEvents, AbortEvents, OrderEvents

\* Every target is a state.
LEMMA TargetType == \A event \in TradeEvent : Target[event] \in TradeState
  BY EventNames DEF Target, OrderEvents, RecoveryEvents

\* The states from which each event can be taken.
LEMMA Sources ==
  ASSUME NEW state \in TradeState, NEW event \in Declared[state]
  PROVE  /\ event = "SESSION_READY" => state = "IDLE"
         /\ event = "TRIGGERED" => state = "WAIT_TRIGGER"
         /\ event = "BEGIN_PRECHECK" => state = "TRIGGER"
         /\ event \in { "PRECHECK_VERIFIED", "PRECHECK_REJECTED", "INTENT_PERSISTED" }
              => state = "PRE_CHECK"
         /\ event \in { "PRE_BROKER_REJECTED", "PRE_BROKER_ABORTED", "SUBMIT_ACCEPTED",
                        "SUBMIT_REJECTED", "SUBMIT_AMBIGUOUS" } => state = "SUBMITTED"
         /\ event \in OrderEvents => state \in PolledStates
         /\ event \in { "RECOVERY_ACCEPTED" } \cup (RecoveryEvents \ { "QUERY_AMBIGUOUS" })
              => state \in { "CANCEL_REJECTED", "UNKNOWN" }
         /\ event = "QUERY_AMBIGUOUS" => state \in Working
         /\ event = "RESTART_RECOVERY" => state \in InFlightStates
         /\ event = "NEXT_CYCLE" => state \in { "FILLED", "CANCELLED", "REJECTED" }
         /\ event = "FATAL" => state \in BeforeIntent \cup { "SUBMITTED" } \cup PolledStates
  BY DEF Declared, WorkingEvents, RecoveryEvents, AbortEvents, OrderEvents,
         PolledStates, InFlightStates, BeforeIntent, Working

(***************************************************************************)
(* advance(): the facts after each kind of event, and the fields of the    *)
(* successor.                                                              *)
(***************************************************************************)

\* state_machine.py:181-297 leaves only known facts.
LEMMA NextFactsType ==
  ASSUME NEW f \in SUBSET SafetyFacts, NEW event
  PROVE  NextFacts(f, event) \in SUBSET SafetyFacts
  BY DEF NextFacts

\* The event groups of state_machine.py:181-297 do not overlap.
LEMMA FactsAfter ==
  ASSUME NEW f, NEW event
  PROVE  /\ event = "SESSION_READY" => NextFacts(f, event) = f \cup SessionFacts
         /\ event = "PRECHECK_VERIFIED" =>
              NextFacts(f, event) = f \cup SessionFacts \cup PrecheckFacts
         /\ event = "INTENT_PERSISTED" =>
              NextFacts(f, event) = f \cup { "intent", "reservation" }
         /\ event \in { "PRE_BROKER_REJECTED", "PRE_BROKER_ABORTED" } =>
              NextFacts(f, event) = (f \ { "submitted_once", "unresolved" }) \cup { "terminal" }
         /\ event \in BrokerActiveEvents =>
              NextFacts(f, event) = f \cup { "submitted_once", "unresolved" }
         /\ event \in CancelEvents =>
              NextFacts(f, event) = f \cup { "cancel_intent", "unresolved" }
         /\ event \in ConfirmedEvents =>
              NextFacts(f, event) = (f \ { "unresolved" }) \cup { "submitted_once", "terminal" }
         /\ event \in { "QUERY_AMBIGUOUS", "RESTART_RECOVERY" } /\ "intent" \in f =>
              NextFacts(f, event) =
                (f \ { "broker_snapshot", "cash", "quote", "terminal" }) \cup { "unresolved" }
         /\ event = "RECOVERY_FAILED" => NextFacts(f, event) = f \cup { "unresolved" }
         /\ event = "NEXT_CYCLE" => NextFacts(f, event) = f \cap SessionFacts
         /\ event \in { "TRIGGERED", "BEGIN_PRECHECK", "PRECHECK_REJECTED", "FATAL" } =>
              NextFacts(f, event) = f
  BY DEF NextFacts, BrokerActiveEvents, CancelEvents, ConfirmedEvents

\* A snapshot, or any record with more fields (the journal's payload).
HasSnapshot(s) == s.state \in TradeState /\ s.facts \in SUBSET SafetyFacts

\* What advance() returns (state_machine.py:299-301).
LEMMA AdvanceFields ==
  ASSUME NEW s \in Snapshot, NEW event \in TradeEvent
  PROVE  /\ advance(s, event) \in Snapshot
         /\ advance(s, event).state = Target[event]
         /\ advance(s, event).facts = NextFacts(s.facts, event)
<1>1. Target[event] \in TradeState /\ NextFacts(s.facts, event) \in SUBSET SafetyFacts
  BY TargetType, NextFactsType DEF Snapshot
<1> QED
  BY <1>1 DEF advance, Snapshot

-----------------------------------------------------------------------------
(***************************************************************************)
(* The invariant, one case per group of events.                            *)
(***************************************************************************)

\* Every event advance() does not refuse keeps a consistent snapshot consistent.
LEMMA ConsistentPreserved ==
  ASSUME NEW s, HasSnapshot(s), Consistent(s),
         NEW event \in TradeEvent, Allowed(s, event),
         NEW t, t.state = Target[event], t.facts = NextFacts(s.facts, event)
  PROVE  Consistent(t)
<1>1. t.state = Target[event] /\ t.facts = NextFacts(s.facts, event)
  OBVIOUS
<1>2. s.state \in TradeState /\ s.facts \in SUBSET SafetyFacts /\ event \in Declared[s.state]
  BY DEF HasSnapshot, Allowed
<1> USE DEF Consistent, Target, BeforeIntent, PolledStates, Working
<1>3. CASE event \in { "SESSION_READY", "TRIGGERED", "BEGIN_PRECHECK" }
  BY <1>1, <1>2, <1>3, Sources, FactsAfter
<1>4. CASE event \in { "PRECHECK_VERIFIED", "PRECHECK_REJECTED" }
  BY <1>1, <1>2, <1>4, Sources, FactsAfter
<1>5. CASE event = "INTENT_PERSISTED"
  <2>1. s.state = "PRE_CHECK" /\ PrecheckFacts \subseteq s.facts
    BY <1>2, <1>5, Sources DEF Allowed
  <2> QED
    BY <1>1, <1>2, <1>5, <2>1, FactsAfter
<1>6. CASE event \in { "PRE_BROKER_REJECTED", "PRE_BROKER_ABORTED" }
  BY <1>1, <1>2, <1>6, Sources, FactsAfter
<1>7. CASE event \in BrokerActiveEvents
  <2>1. s.state \in { "SUBMITTED", "CANCEL_REJECTED", "UNKNOWN" } \cup PolledStates
    BY <1>2, <1>7, Sources DEF BrokerActiveEvents, OrderEvents, RecoveryEvents
  <2>2. event \in { "RECOVERY_CANCELLING", "CANCEL_STILL_PENDING" } => "cancel_intent" \in s.facts
    BY <1>2, <1>7, <2>1 DEF Allowed, Declared, AbortEvents, WorkingEvents, RecoveryEvents
  <2> QED
    BY <1>1, <1>2, <1>7, <2>1, <2>2, FactsAfter DEF BrokerActiveEvents
<1>8. CASE event \in CancelEvents
  <2>1. s.state \in PolledStates
    BY <1>2, <1>8, Sources DEF CancelEvents, OrderEvents
  <2> QED
    BY <1>1, <1>2, <1>8, <2>1, FactsAfter DEF CancelEvents
<1>9. CASE event \in ConfirmedEvents
  <2>1. s.state \in { "SUBMITTED", "CANCEL_REJECTED", "UNKNOWN" } \cup PolledStates
    BY <1>2, <1>9, Sources DEF ConfirmedEvents, OrderEvents, RecoveryEvents
  <2> QED
    BY <1>1, <1>2, <1>9, <2>1, FactsAfter DEF ConfirmedEvents
<1>10. CASE event \in { "QUERY_AMBIGUOUS", "RESTART_RECOVERY" }
  <2>1. s.state \in InFlightStates \cup { "UNKNOWN" }
    BY <1>2, <1>10, Sources DEF InFlightStates
  <2>2. "intent" \in s.facts
    BY <2>1 DEF InFlightStates
  <2> QED
    BY <1>1, <1>2, <1>10, <2>1, <2>2, FactsAfter DEF InFlightStates
<1>11. CASE event = "RECOVERY_FAILED"
  BY <1>1, <1>2, <1>11, Sources, FactsAfter DEF RecoveryEvents
<1>12. CASE event = "NEXT_CYCLE"
  BY <1>1, <1>2, <1>12, Sources, FactsAfter
<1>13. CASE event = "FATAL"
  BY <1>1, <1>2, <1>13, Sources, FactsAfter
<1> QED
  BY <1>3, <1>4, <1>5, <1>6, <1>7, <1>8, <1>9, <1>10, <1>11, <1>12, <1>13, EventNames
     DEF BrokerActiveEvents, CancelEvents, ConfirmedEvents, OrderEvents, RecoveryEvents

\* Consistent is at least as strong as the check of state_machine.py:304-357.
LEMMA ConsistentPasses ==
  ASSUME NEW s, HasSnapshot(s), Consistent(s)
  PROVE  assert_invariants(s)
  BY DEF HasSnapshot, Consistent, assert_invariants, InFlightStates, PolledStates, Working,
         BeforeIntent

\* So an event that is allowed never raises InvariantViolation.
LEMMA AllowedAdvances ==
  ASSUME NEW s, HasSnapshot(s), Consistent(s),
         NEW event \in Declared[s.state], Allowed(s, event),
         advance(s, event).state = Target[event],
         advance(s, event).facts = NextFacts(s.facts, event)
  PROVE  CanAdvance(s, event)
<1>1. event \in TradeEvent
  BY DeclaredAreEvents DEF HasSnapshot
<1>2. Consistent(advance(s, event))
  BY <1>1, ConsistentPreserved
<1>3. HasSnapshot(advance(s, event))
  BY <1>1, TargetType, NextFactsType DEF HasSnapshot
<1> QED
  BY <1>2, <1>3, ConsistentPasses DEF CanAdvance

(***************************************************************************)
(* What a transition from s to t may never do: drop an unresolved order    *)
(* without the broker's evidence, or enter the order path again over a     *)
(* durable intent that is not resolved.                                    *)
(***************************************************************************)
ClearedByEvidence(s, t) ==
  "unresolved" \in s.facts /\ "unresolved" \notin t.facts =>
    /\ t.state \in { "FILLED", "CANCELLED", "REJECTED" }
    /\ { "terminal", "submitted_once" } \subseteq t.facts

RetriedWhenResolved(s, t) ==
  "intent" \in s.facts /\ t.state \in { "WAIT_TRIGGER", "TRIGGER", "PRE_CHECK" } =>
    /\ execution_finality(s) = "RESOLVED"
    /\ s.state \in { "FILLED", "CANCELLED", "REJECTED" }
    /\ t.facts \subseteq SessionFacts

\* Only broker evidence clears an unresolved order (state_machine.py:261-274).
LEMMA EvidenceClears ==
  ASSUME NEW s, HasSnapshot(s), Consistent(s),
         NEW event \in TradeEvent, Allowed(s, event),
         NEW t, t.state = Target[event], t.facts = NextFacts(s.facts, event)
  PROVE  ClearedByEvidence(s, t)
<1>1. s.state \in TradeState /\ s.facts \in SUBSET SafetyFacts /\ event \in Declared[s.state]
  BY DEF HasSnapshot, Allowed
<1>2. CASE event \in ConfirmedEvents
  BY <1>1, <1>2, FactsAfter DEF ConfirmedEvents, Target, ClearedByEvidence
<1>3. CASE event \in { "PRE_BROKER_REJECTED", "PRE_BROKER_ABORTED", "NEXT_CYCLE" }
  <2>1. s.state \in { "SUBMITTED", "FILLED", "CANCELLED", "REJECTED" }
    BY <1>1, <1>3, Sources
  <2> QED
    BY <1>1, <2>1 DEF Consistent, ClearedByEvidence
<1>4. CASE event \notin ConfirmedEvents \cup { "PRE_BROKER_REJECTED", "PRE_BROKER_ABORTED", "NEXT_CYCLE" }
  <2>1. "unresolved" \in s.facts => "unresolved" \in NextFacts(s.facts, event)
    BY <1>4 DEF NextFacts
  <2> QED
    BY <2>1 DEF ClearedByEvidence
<1> QED
  BY <1>2, <1>3, <1>4

\* The order path is entered again only by NEXT_CYCLE (state_machine.py:29-141).
LEMMA ResolvedRetries ==
  ASSUME NEW s, HasSnapshot(s), Consistent(s),
         NEW event \in TradeEvent, Allowed(s, event),
         NEW t, t.state = Target[event], t.facts = NextFacts(s.facts, event)
  PROVE  RetriedWhenResolved(s, t)
<1>1. s.state \in TradeState /\ s.facts \in SUBSET SafetyFacts /\ event \in Declared[s.state]
  BY DEF HasSnapshot, Allowed
<1>2. CASE event = "NEXT_CYCLE"
  <2>1. s.state \in { "FILLED", "CANCELLED", "REJECTED" }
    BY <1>1, <1>2, Sources
  <2>2. execution_finality(s) = "RESOLVED"
    BY <2>1 DEF execution_finality, InFlightStates
  <2> QED
    BY <1>1, <1>2, <2>1, <2>2, FactsAfter DEF RetriedWhenResolved
<1>3. CASE event \in { "SESSION_READY", "TRIGGERED", "BEGIN_PRECHECK", "PRECHECK_VERIFIED" }
  <2>1. s.state \in BeforeIntent
    BY <1>1, <1>3, Sources DEF BeforeIntent
  <2> QED
    BY <1>1, <2>1 DEF Consistent, RetriedWhenResolved
<1>4. CASE event \notin { "NEXT_CYCLE", "SESSION_READY", "TRIGGERED", "BEGIN_PRECHECK",
                          "PRECHECK_VERIFIED" }
  <2>1. Target[event] \notin { "WAIT_TRIGGER", "TRIGGER", "PRE_CHECK" }
    BY <1>4, EventNames DEF Target, OrderEvents, RecoveryEvents
  <2> QED
    BY <2>1 DEF RetriedWhenResolved
<1> QED
  BY <1>2, <1>3, <1>4

-----------------------------------------------------------------------------
(***************************************************************************)
(* Sums.  MapThenSumSet is a recursive function on the subsets of a set.   *)
(* That it satisfies its recursion, and what follows from it, is shown for *)
(* every finite set by looking at a smallest set for which it would fail.  *)
(***************************************************************************)
Total(w, S) == MapThenSumSet(LAMBDA x : w[x], S)

Pick(s) == CHOOSE x \in s : TRUE

IsSum(w, g, S) ==
  g = [s \in SUBSET S |-> IF s = {} THEN 0 ELSE w[Pick(s)] + g[s \ { Pick(s) }]]

\* A family of finite sets that is not empty has a minimal member.
LEMMA MinimalSet ==
  ASSUME NEW S, IsFiniteSet(S), NEW F \in SUBSET (SUBSET S), F # {}
  PROVE  \E T \in F : \A U \in SUBSET T : U # T => U \notin F
<1>1. FiniteSubsetsOf(S) = SUBSET S
  BY FS_FiniteSubsetsOfFinite
<1>2. IsWellFoundedOn(StrictSubsetOrdering(S), SUBSET S)
  BY <1>1, FS_StrictSubsetOrderingWellFounded
<1>3. PICK T \in F : \A U \in F : << U, T >> \notin StrictSubsetOrdering(S)
  BY <1>2, WFMin
<1> QED
  BY <1>3 DEF StrictSubsetOrdering

\* The member a sum counts first is a member.
LEMMA PickIn == ASSUME NEW s, s # {} PROVE Pick(s) \in s
  BY DEF Pick

\* The sum is the value of the function that MapThenSumSet is defined by.
LEMMA TotalIsSum == ASSUME NEW w, NEW S PROVE Total(w, S) = (CHOOSE g : IsSum(w, g, S))[S]
  BY DEF Total, MapThenSumSet, MapThenFoldSet, IsSum, Pick

\* A sum function is determined by its recursion.
LEMMA SumsAgree ==
  ASSUME NEW S, IsFiniteSet(S), NEW w, NEW g, NEW h, IsSum(w, g, S), IsSum(w, h, S)
  PROVE  g[S] = h[S]
<1> DEFINE F == { s \in SUBSET S : g[s] # h[s] }
<1>1. SUFFICES ASSUME F # {}
               PROVE  FALSE
  OBVIOUS
<1>2. PICK T \in F : \A U \in SUBSET T : U # T => U \notin F
  <2>1. F \in SUBSET (SUBSET S)
    OBVIOUS
  <2> HIDE DEF F
  <2> QED
    BY <1>1, <2>1, MinimalSet
<1>3. \A s \in SUBSET S : g[s] = IF s = {} THEN 0 ELSE w[Pick(s)] + g[s \ { Pick(s) }]
  BY DEF IsSum
<1>4. \A s \in SUBSET S : h[s] = IF s = {} THEN 0 ELSE w[Pick(s)] + h[s \ { Pick(s) }]
  BY DEF IsSum
<1>5. T # {}
  BY <1>3, <1>4
<1>6. T \ { Pick(T) } \in SUBSET T /\ T \ { Pick(T) } # T
  BY <1>5, PickIn
<1>7. g[T \ { Pick(T) }] = h[T \ { Pick(T) }]
  BY <1>2, <1>6
<1> QED
  BY <1>3, <1>4, <1>7

\* The sum is a number, and that of the rest with one member more.
Unfolds(w, S) ==
  /\ Total(w, S) \in Nat
  /\ Total(w, S) = IF S = {} THEN 0 ELSE w[Pick(S)] + Total(w, S \ { Pick(S) })

\* MapThenSumSet satisfies the recursion it is defined by, for every finite set.
LEMMA TotalUnfolds ==
  ASSUME NEW R, IsFiniteSet(R), NEW w \in [R -> Nat]
  PROVE  \A S \in SUBSET R : Unfolds(w, S)
<1> DEFINE F == { S \in SUBSET R : ~ Unfolds(w, S) }
<1>1. SUFFICES ASSUME F # {}
               PROVE  FALSE
  OBVIOUS
<1>2. PICK T \in F : \A U \in SUBSET T : U # T => U \notin F
  <2>1. F \in SUBSET (SUBSET R)
    OBVIOUS
  <2> HIDE DEF F
  <2> QED
    BY <1>1, <2>1, MinimalSet
<1>3. T \in SUBSET R /\ IsFiniteSet(T) /\ \A U \in SUBSET T : U # T => Unfolds(w, U)
  BY <1>2, FS_Subset
<1> DEFINE h == [s \in SUBSET T |->
                   IF s = {} THEN 0 ELSE w[Pick(s)] + Total(w, s \ { Pick(s) })]
<1>4. \A U \in SUBSET T : U # T => h[U] = Total(w, U)
  BY <1>3 DEF Unfolds
<1>5. \A s \in SUBSET T : s # {} => s \ { Pick(s) } \in SUBSET T /\ s \ { Pick(s) } # T
  BY PickIn
<1>6. IsSum(w, h, T)
  <2>1. ASSUME NEW s \in SUBSET T
        PROVE  h[s] = IF s = {} THEN 0 ELSE w[Pick(s)] + h[s \ { Pick(s) }]
    BY <1>4, <1>5
  <2>2. h = [s \in SUBSET T |-> h[s]]
    OBVIOUS
  <2> HIDE DEF h
  <2> QED
    BY <2>1, <2>2 DEF IsSum
<1>7. h[T] = IF T = {} THEN 0 ELSE w[Pick(T)] + Total(w, T \ { Pick(T) })
  OBVIOUS
<1> HIDE DEF h
<1>8. IsSum(w, CHOOSE g : IsSum(w, g, T), T)
  BY <1>6
<1>9. Total(w, T) = h[T]
  BY <1>3, <1>6, <1>8, TotalIsSum, SumsAgree
<1>10. T # {} => w[Pick(T)] \in Nat /\ Total(w, T \ { Pick(T) }) \in Nat
  BY <1>3, <1>5, PickIn DEF Unfolds
<1>11. Total(w, T) \in Nat
  BY <1>7, <1>9, <1>10
<1> QED
  BY <1>2, <1>7, <1>9, <1>11 DEF Unfolds

\* Nothing sums to nothing.
LEMMA TotalOfNothing == ASSUME NEW w PROVE Total(w, {}) = 0
<1>1. IsSum(w, CHOOSE g : IsSum(w, g, {}), {})
  <2> DEFINE h == [s \in SUBSET {} |-> 0]
  <2>1. IsSum(w, h, {})
    BY DEF IsSum
  <2> HIDE DEF h
  <2> QED
    BY <2>1
<1> QED
  BY <1>1, TotalIsSum DEF IsSum

\* Any member may be counted first.
LEMMA TotalWithout ==
  ASSUME NEW R, IsFiniteSet(R), NEW w \in [R -> Nat]
  PROVE  \A S \in SUBSET R : \A x \in S : Total(w, S) = w[x] + Total(w, S \ { x })
<1> DEFINE F == { S \in SUBSET R : \E x \in S : Total(w, S) # w[x] + Total(w, S \ { x }) }
<1>1. SUFFICES ASSUME F # {}
               PROVE  FALSE
  OBVIOUS
<1>2. PICK T \in F : \A U \in SUBSET T : U # T => U \notin F
  <2>1. F \in SUBSET (SUBSET R)
    OBVIOUS
  <2> HIDE DEF F
  <2> QED
    BY <1>1, <2>1, MinimalSet
<1>3. PICK x \in T : Total(w, T) # w[x] + Total(w, T \ { x })
  BY <1>2
<1> DEFINE p == Pick(T)
<1>4. T \in SUBSET R /\ p \in T
  BY <1>2, <1>3, PickIn
<1>5. \A S \in SUBSET R : Total(w, S) \in Nat
  BY TotalUnfolds DEF Unfolds
<1>6. Total(w, T) = w[p] + Total(w, T \ { p })
  BY <1>4, TotalUnfolds DEF Unfolds
<1>7. x # p
  BY <1>3, <1>6
<1>8. Total(w, T \ { p }) = w[x] + Total(w, (T \ { p }) \ { x })
  <2>1. T \ { p } \in SUBSET T /\ T \ { p } # T /\ T \ { p } \in SUBSET R /\ x \in T \ { p }
    BY <1>3, <1>4, <1>7
  <2> QED
    BY <1>2, <2>1
<1>9. Total(w, T \ { x }) = w[p] + Total(w, (T \ { x }) \ { p })
  <2>1. T \ { x } \in SUBSET T /\ T \ { x } # T /\ T \ { x } \in SUBSET R /\ p \in T \ { x }
    BY <1>3, <1>4, <1>7
  <2> QED
    BY <1>2, <2>1
<1>10. (T \ { x }) \ { p } = (T \ { p }) \ { x } /\ (T \ { x }) \ { p } \in SUBSET R
  BY <1>4
<1>11. w[p] \in Nat /\ w[x] \in Nat
  BY <1>3, <1>4
<1> HIDE DEF p
<1> QED
  BY <1>3, <1>5, <1>6, <1>8, <1>9, <1>10, <1>11

\* SUM(required_cash) of reservations is a number (coordination.py:586-593, formal.py:440-453).
LEMMA TotalType ==
  ASSUME NEW R, IsFiniteSet(R), NEW w \in [R -> Nat], NEW S \in SUBSET R
  PROVE  Total(w, S) \in Nat
  BY TotalUnfolds DEF Unfolds

\* One reservation more adds its cash (coordination.py:594-605).
LEMMA TotalWith ==
  ASSUME NEW R, IsFiniteSet(R), NEW w \in [R -> Nat], NEW S \in SUBSET R, NEW x \in R \ S
  PROVE  Total(w, S \cup { x }) = w[x] + Total(w, S)
<1>1. S \cup { x } \in SUBSET R /\ x \in S \cup { x } /\ (S \cup { x }) \ { x } = S
  OBVIOUS
<1> QED
  BY <1>1, TotalWithout

\* More members, a larger sum.
LEMMA TotalGrows ==
  ASSUME NEW R, IsFiniteSet(R), NEW w \in [R -> Nat], NEW S \in SUBSET R, NEW U \in SUBSET S
  PROVE  Total(w, U) <= Total(w, S)
<1> DEFINE F == { T \in SUBSET R : U \in SUBSET T /\ ~ (Total(w, U) <= Total(w, T)) }
<1>1. SUFFICES ASSUME F # {}
               PROVE  FALSE
  OBVIOUS
<1>2. PICK T \in F : \A V \in SUBSET T : V # T => V \notin F
  <2>1. F \in SUBSET (SUBSET R)
    OBVIOUS
  <2> HIDE DEF F
  <2> QED
    BY <1>1, <2>1, MinimalSet
<1>3. \A V \in SUBSET R : Total(w, V) \in Nat
  BY TotalUnfolds DEF Unfolds
<1>4. PICK x \in T : x \notin U
  <2>1. U # T
    BY <1>2, <1>3
  <2> QED
    BY <1>2, <2>1
<1>5. T \ { x } \in SUBSET T /\ T \ { x } # T /\ T \ { x } \in SUBSET R /\ U \in SUBSET (T \ { x })
  BY <1>2, <1>4
<1>6. Total(w, U) <= Total(w, T \ { x })
  BY <1>2, <1>5
<1>7. Total(w, T) = w[x] + Total(w, T \ { x }) /\ w[x] \in Nat
  BY <1>2, <1>4, TotalWithout
<1> QED
  BY <1>2, <1>3, <1>5, <1>6, <1>7

=============================================================================
