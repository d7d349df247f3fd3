------------------------- MODULE ReleaseModelProofs -------------------------
(***************************************************************************)
(* Proofs about the two explorations of the release check: the properties  *)
(* of ExecutionMachine hold of every path, of any length, that advance()   *)
(* accepts, and the assertions of formal.py for any number of processes    *)
(* and any orders, where the code explores three processes in four         *)
(* scenarios.                                                              *)
(***************************************************************************)
EXTENDS ReleaseModel, OperatorLemmas

IInv == TypeOK /\ Consistent(snapshot)

USE DEF TradeState, SafetyFacts, SessionFacts, PrecheckFacts

\* A snapshot is one with no more than its two fields.
LEMMA SnapshotFields == ASSUME NEW s \in Snapshot PROVE HasSnapshot(s)
  BY DEF Snapshot, HasSnapshot

\* The invariant holds at the start ...
LEMMA InitIInv == Init => IInv
  BY DEF Init, initial_snapshot, IInv, TypeOK, Snapshot, Consistent, BeforeIntent,
         PolledStates, Working

\* ... every step preserves it ...
LEMMA NextIInv == IInv /\ [Next]_snapshot => IInv'
<1> SUFFICES ASSUME IInv, [Next]_snapshot
             PROVE  IInv'
  OBVIOUS
<1>1. CASE UNCHANGED snapshot
  BY <1>1 DEF IInv, TypeOK, Consistent
<1>2. ASSUME NEW event \in TradeEvent, Step(event)
      PROVE  IInv'
  <2>1. snapshot \in Snapshot /\ Consistent(snapshot) /\ Allowed(snapshot, event)
    BY <1>2 DEF IInv, TypeOK, Step, CanAdvance
  <2>2. snapshot' = advance(snapshot, event)
    BY <1>2 DEF Step
  <2>3. advance(snapshot, event) \in Snapshot /\ Consistent(advance(snapshot, event))
    BY <2>1, AdvanceFields, ConsistentPreserved, SnapshotFields
  <2> QED
    BY <2>2, <2>3 DEF IInv, TypeOK, Consistent
<1> QED
  BY <1>1, <1>2 DEF Next

\* ... so it holds for ever.
LEMMA Invariance == Spec => []IInv
  BY InitIInv, NextIInv, PTL DEF Spec

-----------------------------------------------------------------------------
(***************************************************************************)
(* Every snapshot advance() produces has one of the sixteen states and     *)
(* known facts.                                                            *)
(***************************************************************************)
THEOREM TypeCorrect == Spec => []TypeOK
<1>1. IInv => TypeOK
  BY DEF IInv
<1> QED
  BY <1>1, Invariance, PTL

(***************************************************************************)
(* The assertion of state_machine.py:300 never fires: an event that passes *)
(* the guards of state_machine.py:162-179 always yields a valid snapshot.  *)
(***************************************************************************)
THEOREM AssertionNeverFires == Spec => []NoInvariantViolation
<1>1. ASSUME IInv, NEW event \in Declared[snapshot.state], Allowed(snapshot, event)
      PROVE  assert_invariants(advance(snapshot, event))
  <2>1. snapshot \in Snapshot /\ HasSnapshot(snapshot) /\ Consistent(snapshot)
    BY <1>1, SnapshotFields DEF IInv, TypeOK
  <2>2. event \in TradeEvent
    BY <1>1, <2>1, DeclaredAreEvents DEF HasSnapshot
  <2> QED
    BY <1>1, <2>1, <2>2, AdvanceFields, AllowedAdvances DEF CanAdvance
<1>2. IInv => NoInvariantViolation
  BY <1>1 DEF NoInvariantViolation
<1> QED
  BY <1>2, Invariance, PTL

(***************************************************************************)
(* Finality agrees with the facts: what may be released has no unresolved  *)
(* order, and a FAILED execution whose submission was recorded is          *)
(* quarantined (finality.py:35-60).                                        *)
(***************************************************************************)
THEOREM ReleaseSound == Spec => []ReleaseIsResolved
<1>1. IInv => ReleaseIsResolved
  BY DEF IInv, TypeOK, Snapshot, ReleaseIsResolved, execution_finality, Consistent,
         InFlightStates, BeforeIntent, PolledStates, Working
<1> QED
  BY <1>1, Invariance, PTL

(***************************************************************************)
(* While the broker holds or may hold the order, no status it can report   *)
(* leaves the session without a transition (recovery.py:38-113,            *)
(* session.py:399-412).                                                    *)
(***************************************************************************)
THEOREM ObservationsTotal == Spec => []ObservationsAreTotal
<1>1. ASSUME IInv,
             snapshot.state \in PolledStates \cup { "CANCEL_REJECTED", "UNKNOWN" },
             NEW status \in BrokerOrderStatus,
             NEW event, event = event_for_observation(snapshot.state, status)
      PROVE  \/ event = "NONE"
             \/ CanAdvance(snapshot, IF event = "AMBIGUOUS" THEN "QUERY_AMBIGUOUS" ELSE event)
             \/ event = "RECOVERY_CANCELLING" /\ "cancel_intent" \notin snapshot.facts
  <2> DEFINE taken == IF event = "AMBIGUOUS" THEN "QUERY_AMBIGUOUS" ELSE event
  <2>1. event # "NONE" => taken \in Declared[snapshot.state] \ { "INTENT_PERSISTED" }
    BY <1>1 DEF PolledStates, BrokerOrderStatus, event_for_observation, RecoveryEvent,
                Declared, WorkingEvents, RecoveryEvents, AbortEvents
  <2>2. CASE event = "NONE" \/ (event = "RECOVERY_CANCELLING" /\ "cancel_intent" \notin snapshot.facts)
    BY <2>2
  <2>3. CASE event # "NONE" /\ (event = "RECOVERY_CANCELLING" => "cancel_intent" \in snapshot.facts)
    <3>1. Allowed(snapshot, taken)
      BY <2>1, <2>3 DEF Allowed
    <3>2. snapshot \in Snapshot /\ HasSnapshot(snapshot) /\ Consistent(snapshot)
      BY <1>1, SnapshotFields DEF IInv, TypeOK
    <3>3. taken \in TradeEvent
      BY <2>1, <2>3, <3>2, DeclaredAreEvents DEF HasSnapshot
    <3>4. CanAdvance(snapshot, taken)
      BY <2>1, <2>3, <3>1, <3>2, <3>3, AdvanceFields, AllowedAdvances
    <3> QED
      BY <3>4
  <2> QED
    BY <2>2, <2>3
<1>2. IInv => ObservationsAreTotal
  BY <1>1 DEF ObservationsAreTotal
<1> QED
  BY <1>2, Invariance, PTL

(***************************************************************************)
(* Only broker evidence clears an unresolved order                         *)
(* (state_machine.py:261-274).                                             *)
(***************************************************************************)
THEOREM EvidenceNeeded == Spec => UnresolvedNeedsEvidence
<1>1. ASSUME IInv, NEW event \in TradeEvent, Step(event)
      PROVE  ClearedByEvidence(snapshot, snapshot')
  <2>1. HasSnapshot(snapshot) /\ Consistent(snapshot) /\ Allowed(snapshot, event)
    BY <1>1, SnapshotFields DEF IInv, TypeOK, Step, CanAdvance
  <2>2. snapshot'.state = Target[event] /\ snapshot'.facts = NextFacts(snapshot.facts, event)
    BY <1>1, AdvanceFields DEF IInv, TypeOK, Step
  <2> QED
    BY <2>1, <2>2, EvidenceClears
<1>2. IInv /\ [Next]_snapshot => [ClearedByEvidence(snapshot, snapshot')]_snapshot
  BY <1>1 DEF Next
<1> QED
  BY <1>2, Invariance, PTL DEF Spec, UnresolvedNeedsEvidence, ClearedByEvidence

(***************************************************************************)
(* No blind retry: with a durable intent, the order path is entered again  *)
(* only by NEXT_CYCLE from a resolved terminal snapshot.                   *)
(***************************************************************************)
THEOREM BlindRetryImpossible == Spec => NoBlindRetry
<1>1. ASSUME IInv, NEW event \in TradeEvent, Step(event)
      PROVE  RetriedWhenResolved(snapshot, snapshot')
  <2>1. HasSnapshot(snapshot) /\ Consistent(snapshot) /\ Allowed(snapshot, event)
    BY <1>1, SnapshotFields DEF IInv, TypeOK, Step, CanAdvance
  <2>2. snapshot'.state = Target[event] /\ snapshot'.facts = NextFacts(snapshot.facts, event)
    BY <1>1, AdvanceFields DEF IInv, TypeOK, Step
  <2> QED
    BY <2>1, <2>2, ResolvedRetries
<1>2. IInv /\ [Next]_snapshot => [RetriedWhenResolved(snapshot, snapshot')]_snapshot
  BY <1>1 DEF Next
<1> QED
  BY <1>2, Invariance, PTL DEF Spec, NoBlindRetry, RetriedWhenResolved

-----------------------------------------------------------------------------
(***************************************************************************)
(* The product.  The four assertions of formal.py:625-691 are not          *)
(* inductive: InvokedCash() counts the executions the broker was called    *)
(* for, and what keeps it below the cash of the account is decided before, *)
(* when the claim is prepared.  Committed counts everybody who may still   *)
(* call the broker; who took the claim back after a restart is quarantined *)
(* and is never one of them.                                               *)
(***************************************************************************)
Resolved(s) == execution_finality(s) = "RESOLVED"

\* What formal.py asserts of one process in the snapshot s, with claim or not.
ProcessOK(s, holds) ==
  /\ Consistent(s)
  /\ holds => ~Resolved(s) /\ "intent" \in s.facts
  /\ ~holds => \/ Resolved(s)
               \/ s.state = "SUBMITTED" /\ "submitted_once" \notin s.facts

MayInvoke(s, holds) == holds /\ (s.state # "FAILED" \/ "submitted_once" \in s.facts)

Committed(account) ==
  { q \in Process : /\ MayInvoke(snapshots[q], held[q])
                    /\ order(q).account = account /\ order(q).side = "BUY" }

CommittedIsCovered ==
  \A p \in Process :
    Total(required_cash, Committed(order(p).account)) <= scenario.cash[order(p).account]

ProductInv ==
  /\ scenario \in Scenarios
  /\ snapshots \in [Process -> Snapshot] /\ held \in [Process -> BOOLEAN]
  /\ \A p \in Process : ProcessOK(snapshots[p], held[p])
  /\ OneClaimPerSymbol
  /\ CommittedIsCovered

\* advance() of a valid snapshot (state_machine.py:299-301).
LEMMA Successor ==
  ASSUME NEW s \in Snapshot, Consistent(s), NEW event \in TradeEvent, CanAdvance(s, event)
  PROVE  /\ advance(s, event) \in Snapshot /\ Consistent(advance(s, event))
         /\ advance(s, event).state = Target[event]
         /\ advance(s, event).facts = NextFacts(s.facts, event)
         /\ event \in Declared[s.state]
  BY AdvanceFields, ConsistentPreserved, SnapshotFields DEF CanAdvance, Allowed

\* A durable intent stays until the next cycle (state_machine.py:181-297).
LEMMA IntentStays ==
  ASSUME NEW f, "intent" \in f, NEW event, event # "NEXT_CYCLE"
  PROVE  "intent" \in NextFacts(f, event)
  BY DEF NextFacts

\* A resolved execution leaves the resolved states only by INTENT_PERSISTED
\* (finality.py:35-60).
LEMMA ResolvedStays ==
  ASSUME NEW s \in Snapshot, Consistent(s), Resolved(s), NEW event \in Declared[s.state],
         event \notin { "NEXT_CYCLE", "INTENT_PERSISTED" },
         NEW t, t.state = Target[event], t.facts = NextFacts(s.facts, event)
  PROVE  Resolved(t)
<1>1. s.state \in BeforeIntent /\ event \in { "SESSION_READY", "TRIGGERED", "BEGIN_PRECHECK",
         "PRECHECK_VERIFIED", "PRECHECK_REJECTED", "FATAL" }
  BY DEF Snapshot, Resolved, execution_finality, InFlightStates, BeforeIntent, Declared
<1>2. event = "FATAL" => "unresolved" \notin t.facts
  BY <1>1, FactsAfter DEF Consistent
<1>3. t.state \in { "WAIT_TRIGGER", "TRIGGER", "PRE_CHECK", "REJECTED", "FAILED" }
      /\ (t.state = "FAILED" => event = "FATAL")
  BY <1>1 DEF Target
<1> QED
  BY <1>2, <1>3 DEF Resolved, execution_finality, InFlightStates

\* What a step of one process has to respect for the others.
Respects(p, s, holds) ==
  /\ Becomes(p, s, holds) /\ ProcessOK(s, holds)
  /\ holds => held[p] \/ claim_free(p)
  /\ MayInvoke(s, holds) => MayInvoke(snapshots[p], held[p]) \/ can_prepare(p)

\* Each successor of formal.py:501-623 does.
LEMMA SuccessorRespects ==
  ASSUME ProductInv, NEW p \in Process, global_successors(p)
  PROVE  \E s \in Snapshot, holds \in BOOLEAN : Respects(p, s, holds)
<1> DEFINE s == snapshots[p]
<1>1. s \in Snapshot /\ ProcessOK(s, held[p]) /\ Consistent(s) /\ held[p] \in BOOLEAN
  BY DEF ProductInv, ProcessOK
<1>2. s.state = "SUBMITTED" =>
        /\ ~Resolved(s) /\ "intent" \in s.facts /\ "submitted_once" \notin s.facts
        /\ MayInvoke(s, TRUE)
  BY <1>1 DEF Consistent, Resolved, execution_finality, InFlightStates, MayInvoke
<1> HIDE DEF s
<1>3. CASE CoordinationOk(p)
  <2>1. Respects(p, s, TRUE)
    BY <1>1, <1>2, <1>3
       DEF s, CoordinationOk, MayPrepare, AwaitsClaim, can_prepare, Respects, ProcessOK
  <2> QED
    BY <1>1, <2>1
<1>4. ASSUME NEW event \in { "PRE_BROKER_REJECTED", "PRE_BROKER_ABORTED", "SUBMIT_REJECTED" },
             CanAdvance(s, event), Becomes(p, advance(s, event), FALSE)
      PROVE  \E t \in Snapshot, holds \in BOOLEAN : Respects(p, t, holds)
  <2> DEFINE t == advance(s, event)
  <2>1. event \in TradeEvent
    BY EventNames
  <2>2. /\ t \in Snapshot /\ Consistent(t) /\ t.state = Target[event]
        /\ t.facts = NextFacts(s.facts, event)
    BY <1>1, <1>4, <2>1, Successor
  <2>3. t.state \in { "REJECTED", "FAILED" } /\ "unresolved" \notin t.facts
    BY <2>2, FactsAfter DEF Target, ConfirmedEvents
  <2>4. Resolved(t)
    BY <2>3 DEF Resolved, execution_finality, InFlightStates
  <2> HIDE DEF t
  <2>5. Respects(p, t, FALSE)
    BY <1>4, <2>2, <2>4 DEF Respects, ProcessOK, MayInvoke, t
  <2> QED
    BY <2>2, <2>5
<1>5. CASE CoordinationRejected(p) \/ CoordinationAbort(p) \/ SidecarAbort(p)
  BY <1>4, <1>5 DEF CoordinationRejected, CoordinationAbort, SidecarAbort, MayReject,
                    MayAbort, MayEnd, s
<1>6. CASE RestartPrecoordination(p)
  <2> DEFINE r == advance(s, "RESTART_RECOVERY")
             t == advance(r, "RECOVERY_FAILED")
  <2>1. { "RESTART_RECOVERY", "RECOVERY_FAILED" } \subseteq TradeEvent
    BY EventNames DEF RecoveryEvents
  <2>2. /\ s.state = "SUBMITTED" /\ CanAdvance(s, "RESTART_RECOVERY")
        /\ CanAdvance(r, "RECOVERY_FAILED") /\ claim_free(p) /\ Becomes(p, t, TRUE)
    BY <1>6 DEF RestartPrecoordination, MayRestart, AwaitsClaim, can_restore, s
  <2>3. /\ r \in Snapshot /\ Consistent(r)
        /\ r.facts = NextFacts(s.facts, "RESTART_RECOVERY")
    BY <1>1, <2>1, <2>2, Successor
  <2> HIDE DEF r
  <2>4. /\ t \in Snapshot /\ Consistent(t) /\ t.state = Target["RECOVERY_FAILED"]
        /\ t.facts = NextFacts(r.facts, "RECOVERY_FAILED")
    BY <2>1, <2>2, <2>3, Successor
  <2> HIDE DEF t
  <2>5. "intent" \in r.facts /\ "submitted_once" \notin r.facts
    BY <1>2, <2>2, <2>3, FactsAfter
  <2>6. /\ t.state = "FAILED" /\ { "intent", "unresolved" } \subseteq t.facts
        /\ "submitted_once" \notin t.facts
    BY <2>4, <2>5, FactsAfter DEF Target
  <2>7. Respects(p, t, TRUE)
    BY <2>2, <2>4, <2>6
       DEF Respects, ProcessOK, Resolved, execution_finality, MayInvoke, InFlightStates
  <2> QED
    BY <2>4, <2>7
<1>7. ASSUME NEW event \in SubmitOutcomes, SubmitOutcome(p, event)
      PROVE  \E t \in Snapshot, holds \in BOOLEAN : Respects(p, t, holds)
  <2>1. CASE event = "SUBMIT_REJECTED"
    BY <1>4, <1>7, <2>1 DEF SubmitOutcome, MayEnd, s
  <2>2. CASE event # "SUBMIT_REJECTED"
    <3> DEFINE t == advance(s, event)
    <3>1. event \in TradeEvent
      BY EventNames DEF SubmitOutcomes
    <3>2. /\ s.state = "SUBMITTED" /\ held[p] /\ CanAdvance(s, event) /\ Becomes(p, t, TRUE)
      BY <1>7, <2>2 DEF SubmitOutcome, MayEnd, Invoking, s
    <3>3. /\ t \in Snapshot /\ Consistent(t) /\ t.state = Target[event]
          /\ t.facts = NextFacts(s.facts, event)
      BY <1>1, <3>1, <3>2, Successor
    <3> HIDE DEF t
    <3>4. t.state \in { "ACCEPTED", "UNKNOWN" } /\ "intent" \in t.facts
      BY <1>2, <2>2, <3>2, <3>3, IntentStays DEF Target, SubmitOutcomes
    <3>5. Respects(p, t, TRUE)
      BY <1>2, <3>2, <3>3, <3>4
         DEF s, Respects, ProcessOK, Resolved, execution_finality, MayInvoke, InFlightStates
    <3> QED
      BY <3>3, <3>5
  <2> QED
    BY <2>1, <2>2
<1>8. ASSUME NEW event \in TradeEvent, LocalEvent(p, event)
      PROVE  \E t \in Snapshot, holds \in BOOLEAN : Respects(p, t, holds)
  <2> DEFINE t == advance(s, event)
  <2>1. s.state # "SUBMITTED" /\ event # "NEXT_CYCLE" /\ CanAdvance(s, event)
    BY <1>8 DEF LocalEvent, Moves, s
  <2>2. /\ t \in Snapshot /\ Consistent(t) /\ t.state = Target[event]
        /\ t.facts = NextFacts(s.facts, event) /\ event \in Declared[s.state]
    BY <1>1, <2>1, Successor
  <2>3. IF event = "INTENT_PERSISTED" THEN Becomes(p, t, FALSE) ELSE sync_phase(p, t)
    BY <1>8 DEF LocalEvent, s
  <2> HIDE DEF t
  <2>4. CASE event = "INTENT_PERSISTED"
    <3>1. t.state = "SUBMITTED"
      BY <2>2, <2>4 DEF Target
    <3>2. Respects(p, t, FALSE)
      BY <2>2, <2>3, <2>4, <3>1 DEF Respects, ProcessOK, Consistent, MayInvoke
    <3> QED
      BY <2>2, <3>2
  <2>5. CASE event # "INTENT_PERSISTED" /\ Resolved(t)
    <3>1. Respects(p, t, FALSE)
      BY <2>2, <2>3, <2>5 DEF Respects, ProcessOK, MayInvoke, sync_phase, Resolved
    <3> QED
      BY <2>2, <3>1
  <2>6. CASE event # "INTENT_PERSISTED" /\ ~Resolved(t)
    <3>1. Becomes(p, t, TRUE)
      BY <2>3, <2>6 DEF sync_phase, Resolved
    <3>2. held[p]
      BY <1>1, <2>1, <2>2, <2>6, ResolvedStays DEF ProcessOK
    <3>3. "intent" \in t.facts
      BY <1>1, <2>1, <2>2, <3>2, IntentStays DEF ProcessOK
    <3>4. s.state # "FAILED"
      BY <2>2 DEF Declared
    <3>5. Respects(p, t, TRUE)
      BY <2>2, <2>6, <3>1, <3>2, <3>3, <3>4 DEF Respects, ProcessOK, MayInvoke, s
    <3> QED
      BY <2>2, <3>5
  <2> QED
    BY <2>4, <2>5, <2>6
<1>9. Declared[s.state] \subseteq TradeEvent
  BY <1>1, DeclaredAreEvents DEF Snapshot
<1> QED
  BY <1>3, <1>5, <1>6, <1>7, <1>8, <1>9 DEF global_successors, s

\* What is respected keeps the invariant: one process moves, the claims stay
\* apart and the cash of the account is not promised twice.
LEMMA RespectKeeps ==
  ASSUME IsFiniteSet(Process), ProductInv, NEW p \in Process, NEW s \in Snapshot,
         NEW holds \in BOOLEAN, Respects(p, s, holds)
  PROVE  ProductInv'
<1>1. /\ snapshots' = [snapshots EXCEPT ![p] = s] /\ held' = [held EXCEPT ![p] = holds]
      /\ scenario' = scenario /\ ProcessOK(s, holds)
      /\ snapshots \in [Process -> Snapshot] /\ held \in [Process -> BOOLEAN]
      /\ scenario \in Scenarios
  BY DEF Respects, Becomes, ProductInv
<1>2. snapshots' \in [Process -> Snapshot] /\ held' \in [Process -> BOOLEAN]
  BY <1>1
<1>3. \A q \in Process : ProcessOK(snapshots[q], held[q])'
  BY <1>1 DEF ProductInv, ProcessOK, Consistent, Resolved, execution_finality
<1>4. OneClaimPerSymbol'
  BY <1>1 DEF OneClaimPerSymbol, ProductInv, Respects, claim_free, SameSymbol, order
<1>5. required_cash \in [Process -> Nat] /\ required_cash' = required_cash
  BY <1>1, ProductAssumption DEF required_cash, order, Order
<1>6. ASSUME NEW q \in Process
      PROVE  Total(required_cash, Committed(order(q).account)')
               <= scenario.cash[order(q).account]
  <2> DEFINE a == order(q).account
             C == Committed(a)
             D == { x \in Process : /\ MayInvoke(snapshots'[x], held'[x])
                                    /\ order(x).account = a /\ order(x).side = "BUY" }
             A == { x \in Process \ { p } :
                      held[x] /\ order(x).account = a /\ order(x).side = "BUY" }
  <2>1. Committed(order(q).account)' = D
    BY <1>1 DEF Committed, order, MayInvoke
  <2>2. C \in SUBSET Process /\ D \in SUBSET Process /\ A \in SUBSET Process
    BY DEF Committed
  <2>3. \A x \in Process \ { p } : x \in D => x \in C /\ x \in A
    BY <1>1 DEF Committed, MayInvoke
  <2>4. Total(required_cash, C) <= scenario.cash[a] /\ scenario.cash[a] \in Nat
    BY <1>1, ProductAssumption DEF ProductInv, CommittedIsCovered, order
  <2>5. \A S \in SUBSET Process : Total(required_cash, S) \in Nat
    BY <1>5, TotalType
  <2>6. p \in D => p \in C \/ (can_prepare(p) /\ order(p).account = a /\ order(p).side = "BUY")
    BY <1>1 DEF Respects, Committed
  <2>7. can_prepare(p) /\ order(p).account = a /\ order(p).side = "BUY" =>
          required_cash[p] <= scenario.cash[a] - Total(required_cash, A)
    BY DEF can_prepare, active_reserved_cash, Total, required_cash
  <2> HIDE DEF a, C, D, A
  <2>8. CASE D \subseteq C
    <3>1. Total(required_cash, D) <= Total(required_cash, C)
      BY <1>5, <2>2, <2>8, TotalGrows
    <3> QED
      BY <2>1, <2>2, <2>4, <2>5, <3>1 DEF a
  <2>9. CASE ~ (D \subseteq C)
    <3>1. p \in D /\ required_cash[p] <= scenario.cash[a] - Total(required_cash, A)
      BY <2>2, <2>3, <2>6, <2>7, <2>9
    <3>2. Total(required_cash, D) = required_cash[p] + Total(required_cash, D \ { p })
      BY <1>5, <2>2, <3>1, TotalWithout
    <3>3. D \ { p } \in SUBSET A
      BY <2>2, <2>3
    <3>4. Total(required_cash, D \ { p }) <= Total(required_cash, A)
      BY <1>5, <2>2, <3>3, TotalGrows
    <3>5. /\ Total(required_cash, D \ { p }) \in Nat /\ Total(required_cash, A) \in Nat
          /\ required_cash[p] \in Nat
      BY <1>5, <2>2, <2>5
    <3> QED
      BY <2>1, <2>4, <3>1, <3>2, <3>4, <3>5 DEF a
  <2> QED
    BY <2>8, <2>9
<1>7. CommittedIsCovered'
  <2> SUFFICES ASSUME NEW q \in Process
               PROVE  Total(required_cash', Committed(order(q).account)')
                        <= scenario'.cash[order(q)'.account]
    BY DEF CommittedIsCovered
  <2> QED
    BY <1>1, <1>5, <1>6 DEF order
<1> QED
  BY <1>1, <1>2, <1>3, <1>4, <1>7 DEF ProductInv

\* The invariant of the product holds in every state of the release check.
LEMMA ProductInvariant ==
  ASSUME IsFiniteSet(Process)
  PROVE  ReleaseSpec => []ProductInv
<1>1. ReleaseInit => ProductInv
  <2> SUFFICES ASSUME ReleaseInit
               PROVE  ProductInv
    OBVIOUS
  <2>1. /\ scenario \in Scenarios /\ snapshots = [p \in Process |-> initial_snapshot]
        /\ held = [p \in Process |-> FALSE]
    BY DEF ReleaseInit, ProductInit
  <2>2. /\ initial_snapshot \in Snapshot /\ Consistent(initial_snapshot)
        /\ Resolved(initial_snapshot)
    BY DEF initial_snapshot, Snapshot, Consistent, BeforeIntent, PolledStates, Working,
           Resolved, execution_finality, InFlightStates
  <2>3. ASSUME NEW p \in Process
        PROVE  Total(required_cash, Committed(order(p).account))
                 <= scenario.cash[order(p).account]
    <3>1. Committed(order(p).account) = {}
      BY <2>1 DEF Committed, MayInvoke
    <3>2. scenario.cash[order(p).account] \in Nat
      BY <2>1, ProductAssumption DEF order
    <3> QED
      BY <3>1, <3>2, TotalOfNothing
  <2> QED
    BY <2>1, <2>2, <2>3 DEF ProductInv, ProcessOK, OneClaimPerSymbol, CommittedIsCovered
<1>2. ProductInv /\ [ReleaseNext]_<< stage, machineVars, productVars >> => ProductInv'
  <2> SUFFICES ASSUME ProductInv, [ReleaseNext]_<< stage, machineVars, productVars >>
               PROVE  ProductInv'
    OBVIOUS
  <2>1. CASE ProductNext
    BY <2>1, SuccessorRespects, RespectKeeps DEF ProductNext
  <2>2. CASE UNCHANGED productVars
    <3>1. UNCHANGED << scenario, snapshots, held >>
      BY <2>2 DEF productVars
    <3>2. /\ UNCHANGED << OneClaimPerSymbol, required_cash >>
          /\ \A p \in Process : UNCHANGED << order(p), Committed(order(p).account) >>
          /\ \A p \in Process : UNCHANGED ProcessOK(snapshots[p], held[p])
      BY <3>1 DEF OneClaimPerSymbol, required_cash, order, SameSymbol, Committed, MayInvoke,
           ProcessOK, Consistent, Resolved, execution_finality
    <3> QED
      BY <3>1, <3>2 DEF ProductInv, CommittedIsCovered
  <2> QED
    BY <2>1, <2>2 DEF ReleaseNext
<1> QED
  BY <1>1, <1>2, PTL DEF ReleaseSpec

(***************************************************************************)
(* The assertions of formal.py:625-691 for every finite number of          *)
(* processes and every set of orders: a claim is held exactly by the       *)
(* unresolved, no symbol is claimed twice, and the BUYs the broker was     *)
(* called for are covered by the cash of their account.                    *)
(***************************************************************************)
THEOREM SharedResourcesAreSafe ==
  ASSUME IsFiniteSet(Process)
  PROVE  ReleaseSpec => []GlobalInvariants
<1>1. ASSUME ProductInv, NEW p \in Process
      PROVE  InvokedCash(order(p).account) <= scenario.cash[order(p).account]
  <2> DEFINE a == order(p).account
             I == { q \in Process : /\ held[q] /\ "submitted_once" \in snapshots[q].facts
                                    /\ order(q).account = a /\ order(q).side = "BUY" }
  <2>1. scenario \in Scenarios /\ scenario.cash[a] \in Nat
    BY <1>1, ProductAssumption DEF ProductInv, order
  <2>2. required_cash \in [Process -> Nat]
    BY <2>1, ProductAssumption DEF required_cash, order, Order
  <2>3. I \in SUBSET Committed(a) /\ Committed(a) \in SUBSET Process
    BY DEF Committed, MayInvoke
  <2>4. InvokedCash(a) = Total(required_cash, I)
    BY DEF InvokedCash, Total
  <2>5. Total(required_cash, Committed(a)) <= scenario.cash[a]
    BY <1>1 DEF ProductInv, CommittedIsCovered
  <2> HIDE DEF a, I
  <2>6. /\ Total(required_cash, I) <= Total(required_cash, Committed(a))
        /\ Total(required_cash, I) \in Nat /\ Total(required_cash, Committed(a)) \in Nat
    <3>1. I \in SUBSET Process
      BY <2>3
    <3> QED
      BY <2>2, <2>3, <3>1, TotalGrows, TotalType
  <2> QED
    BY <2>1, <2>4, <2>5, <2>6 DEF a
<1>2. ProductInv => ClaimsAreNeeded /\ UnresolvedKeepsClaim /\ OneClaimPerSymbol
  BY DEF ProductInv, ProcessOK, Resolved, ClaimsAreNeeded, UnresolvedKeepsClaim
<1>3. ProductInv => GlobalInvariants
  BY <1>1, <1>2 DEF GlobalInvariants, InvokedCashIsCovered
<1> QED
  BY <1>3, ProductInvariant, PTL

-----------------------------------------------------------------------------
\* An execution that has not ended has a way to end by itself, without a new
\* intent (state_machine.py:29-148).
LEMMA WayOut ==
  ASSUME NEW s \in Snapshot, Consistent(s), s.state \notin TerminalStates
  PROVE  \E event \in { "PRE_BROKER_ABORTED", "RECOVERY_FAILED", "FATAL" } :
           CanAdvance(s, event) /\ (s.state = "SUBMITTED" => event = "PRE_BROKER_ABORTED")
<1> DEFINE event == IF s.state = "SUBMITTED" THEN "PRE_BROKER_ABORTED"
                    ELSE IF s.state \in { "CANCEL_REJECTED", "UNKNOWN" } THEN "RECOVERY_FAILED"
                    ELSE "FATAL"
<1>1. event \in Declared[s.state] /\ event \in TradeEvent
  BY EventNames
     DEF Snapshot, TerminalStates, Declared, WorkingEvents, AbortEvents, RecoveryEvents
<1>2. Allowed(s, event)
  BY <1>1 DEF Allowed
<1>3. CanAdvance(s, event)
  <2> HIDE DEF event
  <2> QED
    BY <1>1, <1>2, AdvanceFields, AllowedAdvances, SnapshotFields
<1> QED
  BY <1>3

\* Nobody is blocked by the others: whoever has not ended can move, whatever
\* claims the others hold.
NobodyIsBlocked ==
  \A p \in Process : snapshots[p].state \notin TerminalStates => HasSuccessor(p)

(***************************************************************************)
(* The deadlock check of formal.py:744-755 for every finite number of      *)
(* processes and all orders, and more than it asks for: not only some      *)
(* process but every one that has not ended has a successor.  Because an   *)
(* unresolved execution keeps its claim, no step of its own ever waits for *)
(* the claim of another.                                                   *)
(***************************************************************************)
THEOREM NobodyWaitsForEver ==
  ASSUME IsFiniteSet(Process)
  PROVE  ReleaseSpec => [](NoGlobalDeadlock /\ NobodyIsBlocked)
<1>1. ASSUME ProductInv, NEW p \in Process, snapshots[p].state \notin TerminalStates
      PROVE  HasSuccessor(p)
  <2> DEFINE s == snapshots[p]
  <2>1. s \in Snapshot /\ ProcessOK(s, held[p]) /\ Consistent(s) /\ held[p] \in BOOLEAN
    BY <1>1 DEF ProductInv, ProcessOK
  <2>2. PICK event \in { "PRE_BROKER_ABORTED", "RECOVERY_FAILED", "FATAL" } :
          CanAdvance(s, event) /\ (s.state = "SUBMITTED" => event = "PRE_BROKER_ABORTED")
    BY <1>1, <2>1, WayOut
  <2>3. event \in TradeEvent
    BY EventNames DEF RecoveryEvents
  <2>4. CASE s.state = "SUBMITTED"
    <3>1. MayAbort(p) \/ MayEnd(p, "PRE_BROKER_ABORTED")
      BY <2>1, <2>2, <2>4 DEF MayAbort, MayEnd, AwaitsClaim, Invoking
    <3> QED
      BY <3>1 DEF HasSuccessor
  <2>5. CASE s.state # "SUBMITTED"
    <3> DEFINE t == advance(s, event)
    <3>1. /\ t.state = Target[event] /\ t.facts = NextFacts(s.facts, event)
          /\ event \in Declared[s.state]
      BY <2>1, <2>2, <2>3, Successor
    <3> HIDE DEF t
    <3>2. held[p] \/ Resolved(t)
      BY <2>1, <2>5, <3>1, ResolvedStays DEF ProcessOK
    <3>3. Moves(p, event)
      BY <2>2, <2>5 DEF Moves
    <3>4. CanSync(p, advance(snapshots[p], event))
      BY <3>2 DEF CanSync, Resolved, t
    <3> QED
      BY <3>1, <3>3, <3>4 DEF HasSuccessor
  <2> QED
    BY <2>4, <2>5
<1>2. ProductInv => NoGlobalDeadlock /\ NobodyIsBlocked
  BY <1>1 DEF NoGlobalDeadlock, NobodyIsBlocked
<1> QED
  BY <1>2, ProductInvariant, PTL

(***************************************************************************)
(* Every path of the release check is a path of the execution machine      *)
(* (verifier.py:98-125), so what is proved of the machine holds of it.     *)
(***************************************************************************)
THEOREM ReleaseExploresMachine == ReleaseSpec => Spec
<1>1. ReleaseInit => Init
  BY DEF ReleaseInit, VerifierInit
<1>2. [ReleaseNext]_<< stage, machineVars, productVars >> => [Next]_snapshot
  BY DEF ReleaseNext, machineVars, VerifierNext, Explore, Next
<1> QED
  BY <1>1, <1>2, PTL DEF ReleaseSpec, Spec

=============================================================================
