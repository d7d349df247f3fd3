---------------------------- MODULE SessionProofs ---------------------------
(***************************************************************************)
(* The inductive invariant of the session, and the proof that the steps    *)
(* every session takes preserve it, for any number of executions and       *)
(* requests, any broker lifecycle, any answers and any faults but one: the *)
(* write of the broker order id does not fail.                             *)
(*                                                                         *)
(* The invariant is written over values (constant operators), so that the  *)
(* same lemma applies to a state and to its successor.                     *)
(***************************************************************************)
EXTENDS Session, OperatorLemmas

Alive == ACTIVE_RAW \cup { "IN_FLIGHT" }

(***************************************************************************)
(* What a journal payload j of execution e always says, O and P being the  *)
(* broker's orders and placements.                                         *)
(***************************************************************************)
FilledIsTrue(j, O) ==
  j.intent # None =>
    /\ j.state = "FILLED" => O[j.intent] = "SUCCEEDED"
    /\ j.state = "CANCELLED" => O[j.intent] \in { "CANCELED", "PART_CANCEL" }

JInv(e, j, O, P) ==
  /\ Consistent(j)
  /\ j.intent # None => Owner[j.intent] = e /\ j.intent \in j.used
  /\ j.oid # None => j.oid = j.intent
  /\ \A r \in Request : Owner[r] = e =>
       /\ P[r] > 0 => r \in j.used
       /\ O[r] \in Alive => Tracks(j, r)
  /\ FilledIsTrue(j, O)

\* The order that is being applied is final only if the broker's is.
SeenIsTrue(order, raw) ==
  /\ order.status \in { "cancelled", "partial_cancelled" } => raw \in { "CANCELED", "PART_CANCEL" }
  /\ order.status = "filled" => raw = "SUCCEEDED"
  /\ order.status = "rejected" => raw = "JUNK"

(***************************************************************************)
(* What holds at each place of the code: p is pc, op open, m the payload   *)
(* in memory, d the file, q the request and sn the order being applied.    *)
(***************************************************************************)
Submitting ==
  { "coord", "prepare", "sidecar", "sidecarRelease", "place", "rejectRelease",
    "preRejected", "preAborted", "subRejected", "subAmbiguous", "persistId",
    "subAccepted" }

Unplaced == Submitting \ { "subAmbiguous", "persistId", "subAccepted" }

Local(e, p, op, m, d, q, sn, O, P) ==
  /\ p = "down" => m = EmptyJournal
  /\ p \in { "down", "opening" } => ~ op
  /\ p \in { "begin", "guard", "intent", "intentEvent" } \cup Submitting =>
       q \in Request /\ Owner[q] = e
  /\ p \in { "intent", "intentEvent" } => m.state = "PRE_CHECK"
  /\ p = "intentEvent" => m.intent = q /\ m.oid = None
  /\ p \in Submitting => m.state = "SUBMITTED" /\ d.state = "SUBMITTED"
                         /\ m.intent = q /\ d.intent = q
  /\ p \in Unplaced \cup { "intentEvent" } => P[q] = 0
  /\ p \notin { "down", "opening", "subAccepted" } /\ m.state = "SUBMITTED" => m.oid = None
  /\ p = "recover" => m.state = "UNKNOWN"
  /\ p \in { "apply", "event" } => m.oid # None /\ SeenIsTrue(sn, O[m.oid])
  /\ p \in { "subAccepted", "poll", "cancelRequest", "cancelSend", "cancelSent",
            "cancelRefused" } => m.oid # None
  /\ p = "cancelRequest" => m.cancel
  /\ p = "clear" => m.state = "WAIT_TRIGGER"
  /\ p = "cancelSend" => d.cancel /\ "cancel_intent" \in d.facts

PInv(e, p, op, m, d, q, sn, O, P) ==
  /\ JInv(e, d, O, P)
  /\ p # "down" => JInv(e, m, O, P)
  /\ Local(e, p, op, m, d, q, sn, O, P)

\* The broker has an order exactly when it took one, and never two.
Placements(O, P) == \A r \in Request : P[r] <= 1 /\ (P[r] = 0 <=> O[r] = "NONE")

ProcInv(e) ==
  PInv(e, pc[e], open[e], mem[e], disk[e], req[e], seen[e], orders, placed)

SessionInv ==
  /\ SessionTypeOK
  /\ Placements(orders, placed)
  /\ \A e \in Exec : ProcInv(e)

-----------------------------------------------------------------------------
(***************************************************************************)
(* Journal payloads: what advance() and the broker do to JInv.             *)
(***************************************************************************)

\* A journal payload carries a snapshot (journal.py:44-90).
LEMMA JournalSnapshots == \A j \in Journal : HasSnapshot(j)
  BY DEF Journal, HasSnapshot

\* The empty journal of a session that never opened (journal.py:44-90).
LEMMA EmptyIsJournal == EmptyJournal \in Journal /\ Consistent(EmptyJournal)
<1>1. EmptyJournal \in Journal
  BY DEF EmptyJournal, Journal, TradeState, Lots
<1>2. EmptyJournal.state = "IDLE" /\ EmptyJournal.facts = {}
  BY DEF EmptyJournal
<1> QED
  BY <1>1, <1>2 DEF Consistent, BeforeIntent, Working, PolledStates

\* What _transition() leaves in the payload (session.py:447-455).
LEMMA AdvanceJournal ==
  ASSUME NEW j \in Journal, NEW event \in TradeEvent
  PROVE  LET t == advance(j, event) IN
         /\ t \in Journal
         /\ t.state = Target[event] /\ t.facts = NextFacts(j.facts, event)
         /\ t.intent = j.intent /\ t.oid = j.oid /\ t.cancel = j.cancel
         /\ t.filled = j.filled /\ t.used = j.used
<1>1. Target[event] \in TradeState /\ NextFacts(j.facts, event) \in SUBSET SafetyFacts
  BY TargetType, NextFactsType DEF Journal
<1> QED
  BY <1>1 DEF advance, Journal

\* The events after which finality.py:35-60 calls the execution RESOLVED.
Closing ==
  { "PRE_BROKER_REJECTED", "PRE_BROKER_ABORTED" } \cup ConfirmedEvents

(***************************************************************************)
(* The events a session may raise: one that closes the execution only when *)
(* the order is not active, FATAL only when the broker was not asked or    *)
(* has answered, a terminal one only with the broker's final status.       *)
(***************************************************************************)
SafeEvent(j, event, O) ==
  /\ event \in Closing /\ j.intent # None => O[j.intent] \notin Alive
  /\ event = "FATAL" => j.state # "SUBMITTED"
  /\ event \in { "ORDER_FILLED", "RECOVERY_FILLED" } /\ j.intent # None =>
       O[j.intent] = "SUCCEEDED"
  /\ event \in { "CANCEL_CONFIRMED", "RECOVERY_CANCELLED" } /\ j.intent # None =>
       O[j.intent] \in { "CANCELED", "PART_CANCEL" }

\* What remains possible after an event that does not close the execution.
LEMMA StaysOpen ==
  ASSUME NEW j \in Journal, Consistent(j), execution_finality(j) # "RESOLVED",
         NEW event \in TradeEvent, Allowed(j, event),
         event \notin Closing, event = "FATAL" => j.state # "SUBMITTED",
         NEW t, t.state = Target[event], t.facts = NextFacts(j.facts, event)
  PROVE  execution_finality(t) # "RESOLVED"
<1>1. j.state \in TradeState /\ j.facts \in SUBSET SafetyFacts /\ event \in Declared[j.state]
  BY DEF Journal, Allowed
<1>2. j.state \in InFlightStates \cup { "UNKNOWN" }
  <2>1. j.state # "FAILED"
    BY <1>1 DEF Declared
  <2> QED
    BY <1>1, <2>1 DEF execution_finality
<1>3. CASE event = "FATAL"
  <2>1. "unresolved" \in j.facts
    BY <1>1, <1>2, <1>3 DEF Consistent, InFlightStates, Working, PolledStates
  <2> QED
    BY <1>3, <2>1, FactsAfter DEF Target, execution_finality, InFlightStates
<1>4. CASE event = "RECOVERY_FAILED"
  BY <1>4, FactsAfter DEF Target, execution_finality, InFlightStates
<1>5. CASE event \notin { "FATAL", "RECOVERY_FAILED" }
  <2>1. Target[event] \in InFlightStates \cup { "UNKNOWN" }
    <3>1. event \notin { "SESSION_READY", "TRIGGERED", "BEGIN_PRECHECK", "PRECHECK_VERIFIED",
                        "PRECHECK_REJECTED", "INTENT_PERSISTED", "NEXT_CYCLE" }
      BY <1>1, <1>2, Sources DEF InFlightStates
    <3> QED
      BY <3>1, <1>5, EventNames
         DEF Closing, ConfirmedEvents, Target, InFlightStates, OrderEvents, RecoveryEvents
  <2> QED
    BY <2>1 DEF execution_finality, InFlightStates
<1> QED
  BY <1>3, <1>4, <1>5

\* Only the events that name a terminal state lead there (state_machine.py:29-141).
LEMMA TerminalTargets ==
  ASSUME NEW event \in TradeEvent
  PROVE  /\ Target[event] = "FILLED" => event \in { "ORDER_FILLED", "RECOVERY_FILLED" }
         /\ Target[event] = "CANCELLED" => event \in { "CANCEL_CONFIRMED", "RECOVERY_CANCELLED" }
         /\ Target[event] = "SUBMITTED" => event = "INTENT_PERSISTED"
         /\ Target[event] = "UNKNOWN" <=>
              event \in { "SUBMIT_AMBIGUOUS", "QUERY_AMBIGUOUS", "RESTART_RECOVERY" }
  BY EventNames DEF Target, OrderEvents, RecoveryEvents

\* A transition of _transition() keeps what the journal says true.
LEMMA AdvanceJInv ==
  ASSUME NEW e, NEW j \in Journal, NEW O, NEW P, JInv(e, j, O, P),
         NEW event \in TradeEvent, Allowed(j, event), SafeEvent(j, event, O)
  PROVE  JInv(e, advance(j, event), O, P)
<1> DEFINE t == advance(j, event)
<1>1. /\ t.state = Target[event] /\ t.facts = NextFacts(j.facts, event)
      /\ t.intent = j.intent /\ t.oid = j.oid /\ t.used = j.used
  BY AdvanceJournal
<1> SUFFICES JInv(e, t, O, P)
  OBVIOUS
<1> HIDE DEF t
<1>2. Consistent(t)
  BY <1>1, JournalSnapshots, ConsistentPreserved DEF JInv
<1>3. ASSUME NEW r \in Request, Owner[r] = e, O[r] \in Alive
      PROVE  Tracks(t, r)
  <2>1. j.intent = r /\ execution_finality(j) # "RESOLVED"
    BY <1>3 DEF JInv, Tracks
  <2>2. event \notin Closing
    BY <1>3, <2>1, RequestAssumption DEF SafeEvent
  <2>3. execution_finality(t) # "RESOLVED"
    BY <1>1, <2>1, <2>2, StaysOpen DEF JInv, SafeEvent
  <2> QED
    BY <1>1, <2>1, <2>3 DEF Tracks
<1>4. FilledIsTrue(t, O)
  BY <1>1, TerminalTargets DEF FilledIsTrue, SafeEvent
<1> QED
  BY <1>1, <1>2, <1>3, <1>4 DEF JInv

-----------------------------------------------------------------------------
(***************************************************************************)
(* Frame: what the others do.  A change of the broker is quiet for e when  *)
(* none of its orders is taken, revived or changed after it is final.      *)
(***************************************************************************)
Quiet(e, O, P, O2, P2) ==
  \A r \in Request : Owner[r] = e =>
    /\ P2[r] = P[r]
    /\ O2[r] \in Alive => O[r] \in Alive
    /\ O[r] \in FINAL_RAW => O2[r] = O[r]

\* A journal payload survives quiet changes of the broker.
LEMMA QuietJInv ==
  ASSUME NEW e, NEW j \in Journal, NEW O, NEW P, NEW O2, NEW P2,
         JInv(e, j, O, P), Quiet(e, O, P, O2, P2)
  PROVE  JInv(e, j, O2, P2)
<1>1. j.intent \in Request \cup { None }
  BY DEF Journal
<1>2. FilledIsTrue(j, O2)
  BY <1>1 DEF JInv, Quiet, FilledIsTrue, FINAL_RAW
<1> QED
  BY <1>1, <1>2 DEF JInv, Quiet

\* The invariant of an execution survives quiet steps of the broker.
LEMMA QuietPInv ==
  ASSUME NEW e, NEW p, NEW op, NEW m \in Journal, NEW d \in Journal, NEW q, NEW sn,
         NEW O, NEW P, NEW O2, NEW P2,
         PInv(e, p, op, m, d, q, sn, O, P), Quiet(e, O, P, O2, P2)
  PROVE  PInv(e, p, op, m, d, q, sn, O2, P2)
<1>1. JInv(e, d, O2, P2) /\ (p # "down" => JInv(e, m, O2, P2))
  BY QuietJInv DEF PInv
<1>2. p \in { "apply", "event" } => SeenIsTrue(sn, O2[m.oid])
  <2>1. SUFFICES ASSUME p \in { "apply", "event" }
                 PROVE  SeenIsTrue(sn, O2[m.oid])
    OBVIOUS
  <2>2. m.oid # None /\ m.oid = m.intent /\ Owner[m.oid] = e /\ SeenIsTrue(sn, O[m.oid])
    BY <2>1 DEF PInv, Local, JInv
  <2>3. m.oid \in Request
    BY <2>2 DEF Journal
  <2> QED
    BY <2>2, <2>3 DEF SeenIsTrue, Quiet, FINAL_RAW
<1>3. p \in Unplaced \cup { "intentEvent" } => P2[q] = 0
  BY DEF PInv, Local, Quiet, Unplaced
<1>4. Local(e, p, op, m, d, q, sn, O2, P2)
  BY <1>2, <1>3 DEF PInv, Local
<1> QED
  BY <1>1, <1>4 DEF PInv

\* Only execution e moves.
Only(e) ==
  \A f \in Exec \ { e } :
    /\ pc'[f] = pc[f] /\ open'[f] = open[f] /\ mem'[f] = mem[f]
    /\ disk'[f] = disk[f] /\ req'[f] = req[f] /\ seen'[f] = seen[f]

ProcInvNext(e) ==
  PInv(e, pc'[e], open'[e], mem'[e], disk'[e], req'[e], seen'[e], orders', placed')

\* A step of e that is quiet for the others preserves the invariant if it
\* preserves e's own.
LEMMA Assemble ==
  ASSUME SessionInv, NEW e \in Exec, SessionTypeOK', Placements(orders', placed'),
         Only(e), ProcInvNext(e),
         \A f \in Exec \ { e } : Quiet(f, orders, placed, orders', placed')
  PROVE  SessionInv'
<1>1. ASSUME NEW f \in Exec \ { e }
      PROVE  ProcInvNext(f)
  <2>1. PInv(f, pc[f], open[f], mem[f], disk[f], req[f], seen[f], orders, placed)
    BY DEF SessionInv, ProcInv
  <2>2. mem[f] \in Journal /\ disk[f] \in Journal
    BY DEF SessionInv, SessionTypeOK
  <2>3. PInv(f, pc[f], open[f], mem[f], disk[f], req[f], seen[f], orders', placed')
    BY <2>1, <2>2, QuietPInv
  <2> QED
    BY <2>3 DEF Only, ProcInvNext
<1>2. \A f \in Exec : ProcInvNext(f)
  BY <1>1
<1> QED
  BY <1>2 DEF SessionInv, ProcInv, ProcInvNext

\* Most steps leave the broker alone.
LEMMA AssembleSilent ==
  ASSUME SessionInv, NEW e \in Exec, SessionTypeOK', UNCHANGED brokerVars,
         Only(e), ProcInvNext(e)
  PROVE  SessionInv'
<1>1. orders' = orders /\ placed' = placed
  BY DEF brokerVars
<1>2. Placements(orders', placed')
  BY <1>1 DEF SessionInv
<1>3. \A f \in Exec \ { e } : Quiet(f, orders, placed, orders', placed')
  BY <1>1 DEF Quiet
<1> QED
  BY <1>2, <1>3, Assemble

-----------------------------------------------------------------------------
(***************************************************************************)
(* The journal write and the transition.                                   *)
(***************************************************************************)

\* The parts of the step the write does not touch.
Beside(e) ==
  /\ UNCHANGED brokerVars
  /\ req' \in [Exec -> Request \cup { None }] /\ seen' \in [Exec -> BrokerOrder]
  /\ \A f \in Exec \ { e } : req'[f] = req[f] /\ seen'[f] = seen[f]

\* A payload that waits for its order id may be met by any later call.
AwaitsId(m) == m.state = "SUBMITTED" => m.oid = None

\* An exception leaves a session that can be used or discarded.
LEMMA RaiseInv ==
  ASSUME SessionInv, NEW e \in Exec, NEW m \in Journal, RaiseWith(e, m), Beside(e),
         JInv(e, m, orders, placed), open[e] => AwaitsId(m)
  PROVE  SessionInv'
<1>1. /\ pc \in [Exec -> PC] /\ open \in [Exec -> BOOLEAN] /\ mem \in [Exec -> Journal]
      /\ disk \in [Exec -> Journal]
  BY DEF SessionInv, SessionTypeOK
<1>2. /\ pc'[e] = (IF open[e] THEN "idle" ELSE "down")
      /\ mem'[e] = (IF open[e] THEN m ELSE EmptyJournal)
      /\ open'[e] = open[e] /\ disk'[e] = disk[e]
  BY <1>1 DEF RaiseWith, Goto
<1>3. Only(e)
  BY <1>1 DEF RaiseWith, Goto, Only, Beside
<1>4. SessionTypeOK'
  <2>1. pc' \in [Exec -> PC]
    BY <1>1 DEF RaiseWith, Goto, PC, WriteSites
  <2>2. mem' \in [Exec -> Journal]
    BY <1>1, EmptyIsJournal DEF RaiseWith
  <2>3. BrokerTypeOK'
    BY DEF SessionInv, SessionTypeOK, Beside, BrokerTypeOK, brokerVars
  <2> QED
    BY <1>1, <2>1, <2>2, <2>3 DEF SessionTypeOK, RaiseWith, Beside
<1>5. JInv(e, disk[e], orders, placed) /\ orders' = orders /\ placed' = placed
  BY DEF SessionInv, ProcInv, PInv, Beside, brokerVars
<1>6. Local(e, pc'[e], open'[e], mem'[e], disk'[e], req'[e], seen'[e], orders', placed')
  BY <1>1, <1>2 DEF Local, Submitting, Unplaced, AwaitsId
<1>7. ProcInvNext(e)
  BY <1>2, <1>5, <1>6 DEF ProcInvNext, PInv
<1> QED
  BY <1>3, <1>4, <1>7, AssembleSilent DEF Beside

\* A write that leads to a good place is good, even when it fails.
LEMMA WriteInv ==
  ASSUME SessionInv, NEW e \in Exec, NEW m \in Journal, NEW next \in PC \ { "down" },
         Write(e, m, next), Beside(e), JInv(e, m, orders, placed),
         pc[e] \in FaultyWrites /\ open[e] => AwaitsId(m),
         Local(e, next, open[e], m, m, req'[e], seen'[e], orders, placed)
  PROVE  SessionInv'
<1>1. CASE pc[e] \in FaultyWrites /\ RaiseWith(e, m)
  BY <1>1, RaiseInv
<1>2. CASE /\ mem' = [mem EXCEPT ![e] = m] /\ disk' = [disk EXCEPT ![e] = m]
           /\ Goto(e, next) /\ UNCHANGED open
  <2>1. /\ pc \in [Exec -> PC] /\ open \in [Exec -> BOOLEAN] /\ mem \in [Exec -> Journal]
        /\ disk \in [Exec -> Journal]
    BY DEF SessionInv, SessionTypeOK
  <2>2. pc'[e] = next /\ mem'[e] = m /\ disk'[e] = m /\ open'[e] = open[e]
    BY <1>2, <2>1 DEF Goto
  <2>3. Only(e)
    BY <1>2, <2>1 DEF Goto, Only, Beside
  <2>4. SessionTypeOK'
    <3>1. BrokerTypeOK'
      BY DEF SessionInv, SessionTypeOK, Beside, BrokerTypeOK, brokerVars
    <3> QED
      BY <1>2, <2>1, <3>1 DEF SessionTypeOK, Goto, Beside
  <2>5. orders' = orders /\ placed' = placed
    BY DEF Beside, brokerVars
  <2>6. ProcInvNext(e)
    BY <2>2, <2>5 DEF ProcInvNext, PInv
  <2> QED
    BY <2>3, <2>4, <2>6, AssembleSilent DEF Beside
<1> QED
  BY <1>1, <1>2 DEF Write

\* A transition: the successor is judged at the place it leads to.
LEMMA TransitionInv ==
  ASSUME SessionInv, NEW e \in Exec, NEW event \in TradeEvent, NEW next \in PC \ { "down" },
         Transition(e, mem[e], event, next), Beside(e), pc[e] # "down",
         SafeEvent(mem[e], event, orders),
         open[e] /\ ~ CanAdvance(mem[e], event) => AwaitsId(mem[e]),
         \A t \in Journal :
           /\ t.state = Target[event] /\ t.facts = NextFacts(mem[e].facts, event)
           /\ t.intent = mem[e].intent /\ t.oid = mem[e].oid /\ t.cancel = mem[e].cancel
           /\ Allowed(mem[e], event)
           => /\ AwaitsId(t)
              /\ Local(e, next, open[e], t, t, req'[e], seen'[e], orders, placed)
  PROVE  SessionInv'
<1>1. mem[e] \in Journal /\ JInv(e, mem[e], orders, placed)
  BY DEF SessionInv, SessionTypeOK, ProcInv, PInv
<1>2. CASE ~ CanAdvance(mem[e], event)
  BY <1>1, <1>2, RaiseInv DEF Transition, Raise
<1>3. CASE CanAdvance(mem[e], event)
  <2> DEFINE t == advance(mem[e], event)
  <2>1. /\ t \in Journal /\ t.state = Target[event] /\ t.facts = NextFacts(mem[e].facts, event)
        /\ t.intent = mem[e].intent /\ t.oid = mem[e].oid /\ t.cancel = mem[e].cancel
    BY <1>1, AdvanceJournal
  <2>2. Allowed(mem[e], event)
    BY <1>3 DEF CanAdvance
  <2>3. JInv(e, t, orders, placed)
    BY <1>1, <2>2, AdvanceJInv
  <2>4. Write(e, t, next)
    BY <1>3 DEF Transition
  <2>5. AwaitsId(t) /\ Local(e, next, open[e], t, t, req'[e], seen'[e], orders, placed)
    BY <2>1, <2>2
  <2> QED
    <3> HIDE DEF t
    <3> QED
      BY <2>1, <2>3, <2>4, <2>5, WriteInv
<1> QED
  BY <1>2, <1>3

(***************************************************************************)
(* Shapes that many steps share.                                           *)
(***************************************************************************)

\* What the invariant says of execution e.
LEMMA Here ==
  ASSUME SessionInv, NEW e \in Exec
  PROVE  /\ pc \in [Exec -> PC] /\ open \in [Exec -> BOOLEAN]
         /\ mem \in [Exec -> Journal] /\ disk \in [Exec -> Journal]
         /\ req \in [Exec -> Request \cup { None }] /\ seen \in [Exec -> BrokerOrder]
         /\ mem[e] \in Journal /\ disk[e] \in Journal
         /\ mem[e].intent \in Request \cup { None } /\ mem[e].oid \in Request \cup { None }
         /\ JInv(e, disk[e], orders, placed)
         /\ pc[e] # "down" => JInv(e, mem[e], orders, placed)
         /\ pc[e] # "down" /\ mem[e].oid # None => mem[e].oid = mem[e].intent
         /\ Local(e, pc[e], open[e], mem[e], disk[e], req[e], seen[e], orders, placed)
         /\ pc[e] \notin { "down", "opening", "subAccepted" } => AwaitsId(mem[e])
<1>1. mem[e] \in Journal /\ disk[e] \in Journal
  BY DEF SessionInv, SessionTypeOK
<1>2. PInv(e, pc[e], open[e], mem[e], disk[e], req[e], seen[e], orders, placed)
  BY DEF SessionInv, ProcInv
<1>3. mem[e].intent \in Request \cup { None } /\ mem[e].oid \in Request \cup { None }
  BY <1>1 DEF Journal
<1>4. pc[e] \notin { "down", "opening", "subAccepted" } => AwaitsId(mem[e])
  BY <1>2 DEF PInv, Local, AwaitsId
<1>5. pc[e] # "down" /\ mem[e].oid # None => mem[e].oid = mem[e].intent
  BY <1>2 DEF PInv, JInv
<1> QED
  BY <1>1, <1>2, <1>3, <1>4, <1>5 DEF PInv, SessionInv, SessionTypeOK

\* A step that touches neither request, observation nor broker.
LEMMA SilentIsBeside ==
  ASSUME SessionInv, NEW e \in Exec, UNCHANGED << req, seen, brokerVars >>
  PROVE  Beside(e) /\ req'[e] = req[e] /\ seen'[e] = seen[e]
  BY Here DEF Beside, SessionInv, SessionTypeOK

\* Control moves on and nothing else changes.
LEMMA GotoInv ==
  ASSUME SessionInv, NEW e \in Exec, NEW next \in PC \ { "down" }, Goto(e, next),
         UNCHANGED << open, mem, disk, req, seen, brokerVars >>, pc[e] # "down",
         Local(e, next, open[e], mem[e], disk[e], req[e], seen[e], orders, placed)
  PROVE  SessionInv'
<1>1. pc'[e] = next /\ pc' \in [Exec -> PC]
  BY Here DEF Goto
<1>2. Only(e)
  BY Here DEF Only, Goto
<1>3. SessionTypeOK'
  BY <1>1, Here DEF SessionInv, SessionTypeOK, BrokerTypeOK, brokerVars
<1>4. ProcInvNext(e)
  BY <1>1, Here DEF ProcInvNext, PInv, brokerVars
<1> QED
  BY <1>2, <1>3, <1>4, AssembleSilent

\* The call ends with the transition.
LEMMA LastTransition ==
  ASSUME SessionInv, NEW e \in Exec, NEW event \in TradeEvent, NEW next \in { "ret", "idle" },
         Transition(e, mem[e], event, next), Beside(e), pc[e] # "down",
         SafeEvent(mem[e], event, orders), event # "INTENT_PERSISTED",
         pc[e] = "subAccepted" => CanAdvance(mem[e], event)
  PROVE  SessionInv'
<1>1. next \in PC \ { "down" }
  BY DEF PC, WriteSites
<1>2. open[e] /\ ~ CanAdvance(mem[e], event) => AwaitsId(mem[e])
  BY Here DEF Local
<1>3. ASSUME NEW t \in Journal, t.state = Target[event]
      PROVE  AwaitsId(t) /\ Local(e, next, open[e], t, t, req'[e], seen'[e], orders, placed)
  BY <1>3, TerminalTargets DEF AwaitsId, Local, Submitting, Unplaced
<1> QED
  BY <1>1, <1>2, <1>3, TransitionInv

\* An event that neither closes the execution nor is FATAL is always safe.
LEMMA OpenEventIsSafe ==
  ASSUME NEW j, NEW O, NEW event, event \notin Closing \cup { "FATAL" }
  PROVE  SafeEvent(j, event, O)
  BY DEF SafeEvent, Closing, ConfirmedEvents

\* FATAL is safe once the snapshot has left SUBMITTED, or the broker was not asked.
LEMMA FatalIsSafe ==
  ASSUME NEW j, NEW O, j.state # "SUBMITTED"
  PROVE  SafeEvent(j, "FATAL", O)
  BY DEF SafeEvent, Closing, ConfirmedEvents

-----------------------------------------------------------------------------
(***************************************************************************)
(* open()                                                                  *)
(***************************************************************************)
\* open() takes the mutex and loads the file (session.py:98-127).
LEMMA OpenStep ==
  ASSUME SessionInv, NEW e \in Exec, Open(e)
  PROVE  SessionInv'
<1>1. pc'[e] = "opening" /\ pc' \in [Exec -> PC] /\ mem'[e] = disk[e] /\ mem' \in [Exec -> Journal]
  BY Here DEF Open, Goto, PC, WriteSites
<1>2. Only(e)
  BY Here DEF Only, Open, Goto
<1>3. SessionTypeOK'
  BY <1>1, Here DEF SessionInv, SessionTypeOK, BrokerTypeOK, brokerVars, Open
<1>4. ~ open[e]
  BY Here DEF Local, Open
<1>5. Local(e, "opening", open[e], disk[e], disk[e], req[e], seen[e], orders, placed)
  BY <1>4 DEF Local, Submitting, Unplaced
<1>6. ProcInvNext(e)
  BY <1>1, <1>5, Here DEF ProcInvNext, PInv, Open, brokerVars
<1> QED
  BY <1>2, <1>3, <1>6, AssembleSilent DEF Open

\* The branches of open() on the loaded state (session.py:128-165).
LEMMA OpeningStep ==
  ASSUME SessionInv, NEW e \in Exec,
         OpenFirst(e) \/ OpenSettled(e) \/ OpenInFlight(e) \/ OpenUnknown(e) \/ OpenInterrupted(e)
  PROVE  SessionInv'
<1>1. CASE OpenFirst(e)
  BY <1>1, SilentIsBeside, OpenEventIsSafe, LastTransition, EventNames
     DEF OpenFirst, Closing, ConfirmedEvents
<1>2. CASE OpenSettled(e)
  <2>1. Local(e, "ret", open[e], mem[e], disk[e], req[e], seen[e], orders, placed)
    BY <1>2 DEF OpenSettled, Local, Submitting, Unplaced
  <2> QED
    BY <1>2, <2>1, GotoInv DEF OpenSettled, PC, WriteSites
<1>3. CASE OpenInFlight(e)
  <2>1. Beside(e) /\ "RESTART_RECOVERY" \in TradeEvent
    BY <1>3, SilentIsBeside, EventNames DEF OpenInFlight
  <2>2. ~ open[e]
    BY <1>3, Here DEF OpenInFlight, Local
  <2>3. ASSUME NEW t \in Journal, t.state = Target["RESTART_RECOVERY"]
        PROVE  AwaitsId(t)
               /\ Local(e, "recover", open[e], t, t, req'[e], seen'[e], orders, placed)
    BY <2>3 DEF Target, AwaitsId, Local, Submitting, Unplaced
  <2>4. SafeEvent(mem[e], "RESTART_RECOVERY", orders)
    BY OpenEventIsSafe DEF Closing, ConfirmedEvents
  <2> QED
    BY <1>3, <2>1, <2>2, <2>3, <2>4, TransitionInv DEF OpenInFlight, PC, WriteSites
<1>4. CASE OpenUnknown(e)
  <2>1. Local(e, "recover", open[e], mem[e], disk[e], req[e], seen[e], orders, placed)
    BY <1>4 DEF OpenUnknown, Local, Submitting, Unplaced
  <2> QED
    BY <1>4, <2>1, GotoInv DEF OpenUnknown, PC, WriteSites
<1>5. CASE OpenInterrupted(e)
  <2>1. SafeEvent(mem[e], "FATAL", orders)
    BY <1>5, FatalIsSafe DEF OpenInterrupted
  <2> QED
    BY <1>5, <2>1, SilentIsBeside, LastTransition, EventNames DEF OpenInterrupted
<1> QED
  BY <1>1, <1>2, <1>3, <1>4, <1>5

-----------------------------------------------------------------------------
(***************************************************************************)
(* Observations: poll(), recovery and the event they lead to.              *)
(***************************************************************************)

\* The adapter reports a final status only for an order that is final
\* (adapter.py:233-283, status.py).
LEMMA ReportsAreTrue ==
  ASSUME NEW r \in Request, orders[r] \in OrderState, NEW order \in Reports(r)
  PROVE  order \in BrokerOrder /\ SeenIsTrue(order, orders[r])
<1>1. orders[r] \in ACTIVE_RAW \cup FINAL_RAW
  BY DEF OrderState, Reports
<1>2. PICK kind \in { "fresh", "stale", "torn", "unknown" } : order = Report(kind, orders[r])
  BY BrokerAssumption DEF Reports
<1>3. Traded(orders[r]) \in 0 .. Lots /\ 0 \in 0 .. Lots
  BY DEF Traded, Lots
<1>4. ASSUME NEW raw \in RawStatus, NEW n \in 0 .. Lots
      PROVE  to_broker_order(raw, n) \in BrokerOrder /\ SeenIsTrue(to_broker_order(raw, n), raw)
  BY DEF to_broker_order, BrokerOrder, SeenIsTrue, normalize_qmt_order_status, RawStatus,
         ACTIVE_RAW, FINAL_RAW
<1>5. orders[r] \in RawStatus /\ "UNREPORTED" \in RawStatus /\ "UNKNOWN" \in RawStatus
  BY <1>1 DEF RawStatus, ACTIVE_RAW
<1>6. CASE kind \in { "fresh", "torn" }
  BY <1>2, <1>3, <1>4, <1>5, <1>6 DEF Report
<1>7. CASE kind \in { "stale", "unknown" }
  <2>1. PICK raw \in { "UNREPORTED", "UNKNOWN" }, n \in 0 .. Lots : order = to_broker_order(raw, n)
    BY <1>2, <1>3, <1>7 DEF Report
  <2>2. order.status \in { "accepted", "unknown" }
    BY <2>1 DEF to_broker_order, normalize_qmt_order_status
  <2> QED
    BY <1>4, <1>5, <2>1, <2>2 DEF SeenIsTrue
<1> QED
  BY <1>6, <1>7

\* _apply_observation() of the order the journal names (session.py:382-413).
LEMMA ApplyStep ==
  ASSUME SessionInv, NEW e \in Exec, pc[e] \in { "recover", "apply", "poll" },
         mem[e].oid # None, NEW order \in BrokerOrder, SeenIsTrue(order, orders[mem[e].oid]),
         ApplyObservation(e, mem[e].oid, order), UNCHANGED << req, brokerVars >>
  PROVE  SessionInv'
<1>1. Beside(e) /\ seen'[e] = order
  BY Here DEF ApplyObservation, Beside
<1>2. AwaitsId(mem[e]) /\ mem[e].state # "SUBMITTED"
  BY Here DEF AwaitsId
<1>3. CASE mem[e].intent # mem[e].oid
  BY <1>3, Here
<1>4. CASE mem[e].intent = mem[e].oid /\ order.filled < mem[e].filled
  <2>1. Transition(e, mem[e], "FATAL", "ret")
    BY <1>4 DEF ApplyObservation
  <2> QED
    BY <1>1, <1>2, <2>1, FatalIsSafe, LastTransition, EventNames
<1>5. CASE mem[e].intent = mem[e].oid /\ ~ (order.filled < mem[e].filled)
  <2> DEFINE m == [mem[e] EXCEPT !.filled = order.filled]
  <2>1. Write(e, m, "event")
    BY <1>5 DEF ApplyObservation
  <2>2. /\ m \in Journal /\ m.state = mem[e].state /\ m.facts = mem[e].facts
        /\ m.intent = mem[e].intent /\ m.oid = mem[e].oid /\ m.used = mem[e].used
    <3>1. mem[e] \in Journal /\ order.filled \in 0 .. Lots
      BY Here DEF BrokerOrder
    <3> QED
      BY <3>1 DEF Journal
  <2> HIDE DEF m
  <2>3. JInv(e, m, orders, placed)
    <3>1. JInv(e, mem[e], orders, placed)
      BY Here
    <3> QED
      BY <2>2, <3>1 DEF JInv, Consistent, Tracks, execution_finality, FilledIsTrue
  <2>4. AwaitsId(m)
    BY <1>2, <2>2 DEF AwaitsId
  <2>5. Local(e, "event", open[e], m, m, req'[e], seen'[e], orders, placed)
    BY <1>1, <1>2, <2>2 DEF Local, Submitting, Unplaced
  <2> QED
    BY <1>1, <2>1, <2>2, <2>3, <2>4, <2>5, WriteInv DEF PC, WriteSites
<1> QED
  BY <1>3, <1>4, <1>5

\* A poll that gets no answer, or an order the state cannot explain.
LEMMA ToUnknownStep ==
  ASSUME SessionInv, NEW e \in Exec, pc[e] \in { "poll", "event" }, ToUnknown(e), Beside(e)
  PROVE  SessionInv'
<1>1. mem[e].state # "SUBMITTED"
  BY Here DEF Local, AwaitsId
<1>2. PICK event \in { "QUERY_AMBIGUOUS", "FATAL" } : Transition(e, mem[e], event, "ret")
  BY DEF ToUnknown
<1>3. SafeEvent(mem[e], event, orders)
  BY <1>1, OpenEventIsSafe, FatalIsSafe DEF Closing, ConfirmedEvents
<1> QED
  BY <1>2, <1>3, LastTransition, EventNames DEF RecoveryEvents

\* Which events an observation may raise (recovery.py:38-113).
LEMMA ObservationEvents ==
  ASSUME NEW current \in TradeState, NEW status \in BrokerOrderStatus,
         NEW event, event = event_for_observation(current, status)
  PROVE  /\ event \in (TradeEvent \ { "FATAL", "INTENT_PERSISTED" }) \cup { "NONE", "AMBIGUOUS" }
         /\ event \in { "ORDER_FILLED", "RECOVERY_FILLED" } => status = "filled"
         /\ event \in { "CANCEL_CONFIRMED", "RECOVERY_CANCELLED" } =>
              status \in { "partial_cancelled", "cancelled" }
         /\ event \in { "ORDER_REJECTED", "RECOVERY_REJECTED" } => status = "rejected"
         /\ event \notin { "PRE_BROKER_REJECTED", "PRE_BROKER_ABORTED", "SUBMIT_REJECTED" }
<1>1. event \in { "RECOVERY_ACCEPTED", "NONE", "AMBIGUOUS", "ORDER_WORKING", "ORDER_PARTIAL",
                 "CANCEL_SENT", "CANCEL_STILL_PENDING", "CANCEL_CONFIRMED", "ORDER_FILLED",
                 "ORDER_REJECTED" } \cup (RecoveryEvents \ { "RECOVERY_FAILED" })
  BY DEF event_for_observation, RecoveryEvent, RecoveryEvents, BrokerOrderStatus
<1>2. /\ event \in { "ORDER_FILLED", "RECOVERY_FILLED" } => status = "filled"
      /\ event \in { "CANCEL_CONFIRMED", "RECOVERY_CANCELLED" } =>
              status \in { "partial_cancelled", "cancelled" }
      /\ event \in { "ORDER_REJECTED", "RECOVERY_REJECTED" } => status = "rejected"
  BY DEF event_for_observation, RecoveryEvent, BrokerOrderStatus
<1> QED
  BY <1>1, <1>2, EventNames DEF OrderEvents, RecoveryEvents

\* The event of the observation that was just written.
LEMMA ObservedStep ==
  ASSUME SessionInv, NEW e \in Exec, ObservedEvent(e)
  PROVE  SessionInv'
<1> DEFINE event == event_for_observation(mem[e].state, seen[e].status)
<1>1. Beside(e) /\ pc[e] = "event"
  <2>1. NothingSeen \in BrokerOrder
    BY DEF NothingSeen, BrokerOrder, Lots
  <2> QED
    BY <2>1, Here DEF ObservedEvent, Beside
<1>2. /\ mem[e].oid \in Request /\ mem[e].oid = mem[e].intent
      /\ SeenIsTrue(seen[e], orders[mem[e].intent])
  BY <1>1, Here DEF Local
<1>3. mem[e].state \in TradeState /\ seen[e].status \in BrokerOrderStatus
  BY Here DEF Journal, BrokerOrder, BrokerOrderStatus
<1>4. CASE event = "NONE"
  <2>1. /\ Goto(e, "ret") /\ UNCHANGED << open, mem, disk, req, brokerVars >>
    BY <1>4 DEF ObservedEvent
  <2>2. pc'[e] = "ret" /\ pc' \in [Exec -> PC]
    BY <2>1, Here DEF Goto, PC
  <2>3. Only(e)
    BY <1>1, <2>1, Here DEF Only, Goto, Beside
  <2>4. SessionTypeOK'
    BY <1>1, <2>1, <2>2, Here DEF SessionInv, SessionTypeOK, BrokerTypeOK, brokerVars, Beside
  <2>5. Local(e, "ret", open[e], mem[e], disk[e], req[e], seen'[e], orders, placed)
    BY <1>1, Here DEF Local, Submitting, Unplaced
  <2>6. ProcInvNext(e)
    BY <1>1, <2>1, <2>2, <2>5, Here DEF ProcInvNext, PInv, brokerVars
  <2> QED
    BY <2>1, <2>3, <2>4, <2>6, AssembleSilent
<1>5. CASE event = "AMBIGUOUS"
  BY <1>1, <1>5, ToUnknownStep DEF ObservedEvent
<1>6. CASE event \notin { "NONE", "AMBIGUOUS" }
  <2>1. Transition(e, mem[e], event, "ret")
    BY <1>6 DEF ObservedEvent
  <2>2. /\ event \in TradeEvent \ { "FATAL", "INTENT_PERSISTED" }
        /\ event \in { "ORDER_FILLED", "RECOVERY_FILLED" } => seen[e].status = "filled"
        /\ event \in { "CANCEL_CONFIRMED", "RECOVERY_CANCELLED" } =>
             seen[e].status \in { "partial_cancelled", "cancelled" }
        /\ event \in { "ORDER_REJECTED", "RECOVERY_REJECTED" } => seen[e].status = "rejected"
        /\ event \notin { "PRE_BROKER_REJECTED", "PRE_BROKER_ABORTED", "SUBMIT_REJECTED" }
    BY <1>3, <1>6, ObservationEvents
  <2> HIDE DEF event
  <2>3. SafeEvent(mem[e], event, orders)
    BY <1>2, <2>2 DEF SafeEvent, SeenIsTrue, Closing, ConfirmedEvents, Alive, ACTIVE_RAW
  <2> QED
    BY <1>1, <2>1, <2>2, <2>3, LastTransition
<1> QED
  BY <1>4, <1>5, <1>6

\* _recover_unknown() (session.py:352-380).
LEMMA RecoverStep ==
  ASSUME SessionInv, NEW e \in Exec, Recover(e)
  PROVE  SessionInv'
<1>1. /\ pc[e] = "recover" /\ mem[e].state = "UNKNOWN" /\ AwaitsId(mem[e])
      /\ UNCHANGED << req, brokerVars >>
  BY Here DEF Recover, Local
<1>2. ASSUME NEW r \in Request
      PROVE  orders[r] \in OrderState
  BY DEF SessionInv, SessionTypeOK, BrokerTypeOK
<1>3. CASE /\ mem[e].oid # None
           /\ \E order \in Reports(mem[e].oid) : ApplyObservation(e, mem[e].oid, order)
  BY <1>1, <1>2, <1>3, Here, ReportsAreTrue, ApplyStep
<1>4. CASE /\ mem[e].oid = None /\ mem[e].intent # None
           /\ \E order \in Reports(mem[e].intent) :
                /\ Write(e, [mem[e] EXCEPT !.oid = mem[e].intent], "apply")
                /\ seen' = [seen EXCEPT ![e] = order]
  <2> DEFINE m == [mem[e] EXCEPT !.oid = mem[e].intent]
  <2>1. PICK order \in Reports(mem[e].intent) :
          Write(e, m, "apply") /\ seen' = [seen EXCEPT ![e] = order]
    BY <1>4
  <2>2. mem[e].intent \in Request /\ order \in BrokerOrder /\ SeenIsTrue(order, orders[mem[e].intent])
    BY <1>2, <1>4, <2>1, Here, ReportsAreTrue
  <2>3. /\ m \in Journal /\ m.state = mem[e].state /\ m.facts = mem[e].facts
        /\ m.intent = mem[e].intent /\ m.oid = mem[e].intent /\ m.used = mem[e].used
    BY <2>2, Here DEF Journal
  <2>4. Beside(e) /\ seen'[e] = order
    BY <1>1, <2>1, <2>2, Here DEF Beside
  <2>5. JInv(e, mem[e], orders, placed)
    BY <1>1, Here
  <2> HIDE DEF m
  <2>6. JInv(e, m, orders, placed)
    BY <2>3, <2>5 DEF JInv, Consistent, Tracks, execution_finality, FilledIsTrue
  <2>7. AwaitsId(m)
    BY <1>1, <2>3 DEF AwaitsId
  <2>8. Local(e, "apply", open[e], m, m, req'[e], seen'[e], orders, placed)
    BY <1>1, <1>4, <2>2, <2>3, <2>4 DEF Local, Submitting, Unplaced
  <2> QED
    BY <2>1, <2>3, <2>4, <2>6, <2>7, <2>8, WriteInv DEF PC, WriteSites
<1>5. CASE Transition(e, mem[e], "RECOVERY_FAILED", "ret") /\ UNCHANGED seen
  BY <1>1, <1>5, SilentIsBeside, OpenEventIsSafe, LastTransition, EventNames
     DEF Closing, ConfirmedEvents, RecoveryEvents
<1> QED
  BY <1>3, <1>4, <1>5 DEF Recover

\* poll() and the observation recovery has written (session.py:265-280).
LEMMA PollStep ==
  ASSUME SessionInv, NEW e \in Exec,
         ApplyRecovered(e) \/ PollAnswered(e) \/ PollUnanswered(e)
  PROVE  SessionInv'
<1>1. CASE ApplyRecovered(e)
  <2>1. mem[e].oid # None /\ SeenIsTrue(seen[e], orders[mem[e].oid]) /\ seen[e] \in BrokerOrder
    BY <1>1, Here DEF ApplyRecovered, Local
  <2> QED
    BY <1>1, <2>1, ApplyStep DEF ApplyRecovered
<1>2. CASE PollAnswered(e)
  <2>1. mem[e].oid \in Request /\ mem[e].oid # None
    BY <1>2, Here DEF PollAnswered, Local
  <2>2. orders[mem[e].oid] \in OrderState
    BY <2>1 DEF SessionInv, SessionTypeOK, BrokerTypeOK
  <2> QED
    BY <1>2, <2>1, <2>2, ReportsAreTrue, ApplyStep DEF PollAnswered
<1>3. CASE PollUnanswered(e)
  BY <1>3, SilentIsBeside, ToUnknownStep DEF PollUnanswered
<1> QED
  BY <1>1, <1>2, <1>3

-----------------------------------------------------------------------------
(***************************************************************************)
(* submit()                                                                *)
(***************************************************************************)

\* A snapshot that is RESOLVED has no active order of its execution.
LEMMA ResolvedHasNoOrder ==
  ASSUME NEW e, NEW j \in Journal, NEW O, NEW P, JInv(e, j, O, P),
         execution_finality(j) = "RESOLVED", NEW r \in Request, Owner[r] = e
  PROVE  O[r] \notin Alive
  BY DEF JInv, Tracks

\* submit() checks the state and the id, and raises TRIGGERED
\* (session.py:174-184).
LEMMA CallSubmitStep ==
  ASSUME SessionInv, NEW e \in Exec, NEW r \in Request, CallSubmit(e, r)
  PROVE  SessionInv'
<1>1. /\ pc[e] = "idle" /\ Owner[r] = e /\ AwaitsId(mem[e])
      /\ Transition(e, mem[e], "TRIGGERED", "begin")
      /\ UNCHANGED << seen, brokerVars >> /\ req' = [req EXCEPT ![e] = r]
  BY Here DEF CallSubmit
<1>2. Beside(e) /\ req'[e] = r
  BY <1>1, Here DEF Beside
<1>3. ASSUME NEW t \in Journal, t.state = Target["TRIGGERED"]
      PROVE  AwaitsId(t) /\ Local(e, "begin", open[e], t, t, req'[e], seen'[e], orders, placed)
  BY <1>1, <1>2, <1>3 DEF Target, AwaitsId, Local, Submitting, Unplaced
<1>4. SafeEvent(mem[e], "TRIGGERED", orders)
  BY OpenEventIsSafe DEF Closing, ConfirmedEvents
<1> QED
  BY <1>1, <1>2, <1>3, <1>4, TransitionInv, EventNames DEF PC, WriteSites

\* The guard of submit() (session.py:185-200).
LEMMA PrecheckStep ==
  ASSUME SessionInv, NEW e \in Exec, BeginPrecheck(e) \/ Precheck(e)
  PROVE  SessionInv'
<1>1. /\ pc[e] \in { "begin", "guard" } /\ UNCHANGED << req, seen, brokerVars >>
      /\ AwaitsId(mem[e]) /\ req[e] \in Request /\ Owner[req[e]] = e
  BY Here DEF BeginPrecheck, Precheck, Local
<1>2. Beside(e) /\ req'[e] = req[e] /\ seen'[e] = seen[e]
  BY <1>1, SilentIsBeside
<1>3. ASSUME NEW event \in { "BEGIN_PRECHECK", "PRECHECK_VERIFIED" },
             NEW next \in { "guard", "intent" }, Transition(e, mem[e], event, next)
      PROVE  SessionInv'
  <2>1. ASSUME NEW t \in Journal, t.state = Target[event]
        PROVE  AwaitsId(t) /\ Local(e, next, open[e], t, t, req'[e], seen'[e], orders, placed)
    BY <1>1, <1>2, <2>1 DEF Target, AwaitsId, Local, Submitting, Unplaced
  <2>2. SafeEvent(mem[e], event, orders)
    BY OpenEventIsSafe DEF Closing, ConfirmedEvents
  <2> QED
    BY <1>1, <1>2, <1>3, <2>1, <2>2, TransitionInv, EventNames DEF PC, WriteSites
<1>4. CASE Transition(e, mem[e], "PRECHECK_REJECTED", "ret")
  BY <1>1, <1>2, <1>4, OpenEventIsSafe, LastTransition, EventNames DEF Closing, ConfirmedEvents
<1>5. CASE Raise(e)
  BY <1>1, <1>2, <1>5, Here, RaiseInv DEF Raise
<1> QED
  BY <1>3, <1>4, <1>5 DEF BeginPrecheck, Precheck

\* journal.persist_intent() (journal.py:123-158).
LEMMA PersistIntentStep ==
  ASSUME SessionInv, NEW e \in Exec, PersistIntent(e)
  PROVE  SessionInv'
<1>1. /\ pc[e] = "intent" /\ UNCHANGED << req, seen, brokerVars >> /\ AwaitsId(mem[e])
      /\ req[e] \in Request /\ Owner[req[e]] = e /\ mem[e].state = "PRE_CHECK"
      /\ JInv(e, mem[e], orders, placed)
  BY Here DEF PersistIntent, Local
<1>2. Beside(e) /\ req'[e] = req[e] /\ seen'[e] = seen[e]
  BY <1>1, SilentIsBeside
<1>3. CASE mem[e].intent # None \/ req[e] \in mem[e].used
  BY <1>1, <1>2, <1>3, Here, RaiseInv DEF PersistIntent, Raise
<1>4. CASE mem[e].intent = None /\ req[e] \notin mem[e].used
  <2> DEFINE m == [mem[e] EXCEPT !.intent = req[e], !.used = @ \cup { req[e] }]
  <2>1. Write(e, m, "intentEvent")
    BY <1>4 DEF PersistIntent
  <2>2. /\ m \in Journal /\ m.state = mem[e].state /\ m.facts = mem[e].facts
        /\ m.intent = req[e] /\ m.oid = mem[e].oid /\ m.used = mem[e].used \cup { req[e] }
    BY <1>1, Here DEF Journal
  <2>3. mem[e].oid = None
    BY <1>1, <1>4 DEF JInv
  <2>4. execution_finality(mem[e]) = "RESOLVED"
    BY <1>1 DEF execution_finality, InFlightStates
  <2>5. \A r \in Request : Owner[r] = e => orders[r] \notin Alive
    BY <1>1, <2>4, Here, ResolvedHasNoOrder
  <2>6. placed[req[e]] = 0
    <3>1. placed[req[e]] \in Nat /\ ~ (placed[req[e]] > 0)
      BY <1>1, <1>4 DEF JInv, SessionInv, SessionTypeOK, BrokerTypeOK
    <3> QED
      BY <3>1
  <2> HIDE DEF m
  <2>7. JInv(e, m, orders, placed)
    <3>1. Consistent(m)
      BY <1>1, <2>2 DEF JInv, Consistent
    <3>2. FilledIsTrue(m, orders)
      BY <1>1, <2>2 DEF FilledIsTrue
    <3> QED
      BY <1>1, <2>2, <2>3, <2>5, <3>1, <3>2 DEF JInv
  <2>8. AwaitsId(m) /\ Local(e, "intentEvent", open[e], m, m, req'[e], seen'[e], orders, placed)
    BY <1>1, <1>2, <2>2, <2>3, <2>6 DEF AwaitsId, Local, Submitting, Unplaced
  <2> QED
    BY <1>2, <2>1, <2>2, <2>7, <2>8, WriteInv DEF PC, WriteSites
<1> QED
  BY <1>3, <1>4

\* The SUBMITTED snapshot that precedes every hook (session.py:202-206).
LEMMA IntentPersistedStep ==
  ASSUME SessionInv, NEW e \in Exec, IntentPersisted(e)
  PROVE  SessionInv'
<1>1. /\ pc[e] = "intentEvent" /\ UNCHANGED << req, seen, brokerVars >> /\ AwaitsId(mem[e])
      /\ req[e] \in Request /\ Owner[req[e]] = e /\ mem[e].intent = req[e]
      /\ mem[e].oid = None /\ placed[req[e]] = 0
  BY Here DEF IntentPersisted, Local
<1>2. Beside(e) /\ req'[e] = req[e] /\ seen'[e] = seen[e]
  BY <1>1, SilentIsBeside
<1>3. ASSUME NEW t \in Journal, t.state = Target["INTENT_PERSISTED"],
             t.intent = mem[e].intent, t.oid = mem[e].oid
      PROVE  AwaitsId(t) /\ Local(e, "coord", open[e], t, t, req'[e], seen'[e], orders, placed)
  BY <1>1, <1>2, <1>3 DEF Target, AwaitsId, Local, Submitting, Unplaced
<1>4. SafeEvent(mem[e], "INTENT_PERSISTED", orders)
  BY OpenEventIsSafe DEF Closing, ConfirmedEvents
<1> QED
  BY <1>1, <1>2, <1>3, <1>4, TransitionInv, EventNames DEF IntentPersisted, PC, WriteSites

\* The hooks between the durable intent and the broker keep the place.
LEMMA HookStep ==
  ASSUME SessionInv, NEW e \in Exec, pc[e] \in Unplaced, NEW next \in Unplaced, Goto(e, next),
         UNCHANGED << open, mem, disk, req, seen, brokerVars >>
  PROVE  SessionInv'
<1>1. Local(e, next, open[e], mem[e], disk[e], req[e], seen[e], orders, placed)
  BY Here DEF Local, Submitting, Unplaced
<1>2. next \in PC \ { "down" } /\ pc[e] # "down"
  BY DEF Unplaced, Submitting, PC, WriteSites
<1> QED
  BY <1>1, <1>2, GotoInv

\* A submission that never reached the broker is closed.
LEMMA UnplacedClosed ==
  ASSUME SessionInv, NEW e \in Exec, pc[e] \in Unplaced,
         NEW event \in { "PRE_BROKER_REJECTED", "PRE_BROKER_ABORTED", "SUBMIT_REJECTED" },
         NEW next \in { "ret", "idle" }, Transition(e, mem[e], event, next),
         UNCHANGED << req, seen, brokerVars >>
  PROVE  SessionInv'
<1>1. mem[e].intent = req[e] /\ req[e] \in Request /\ placed[req[e]] = 0
  BY Here DEF Local, Unplaced
<1>2. orders[req[e]] \notin Alive
  BY <1>1 DEF SessionInv, Placements, Alive, ACTIVE_RAW
<1>3. SafeEvent(mem[e], event, orders)
  BY <1>1, <1>2 DEF SafeEvent
<1>4. event \in TradeEvent /\ pc[e] \notin { "down", "subAccepted" }
  BY EventNames DEF Unplaced, Submitting
<1> QED
  BY <1>3, <1>4, SilentIsBeside, LastTransition

\* order_stock() reaches the broker, now or in a moment (session.py:249-252).
LEMMA TakeStep ==
  ASSUME SessionInv, NEW e \in Exec, pc[e] = "place",
         NEW st \in { "UNREPORTED", "IN_FLIGHT" }, TakeOrder(req[e], st),
         NEW next \in { "persistId", "subAmbiguous" }, Goto(e, next),
         UNCHANGED << open, mem, disk, req, seen >>
  PROVE  SessionInv'
<1> DEFINE q == req[e]
<1>1. /\ q \in Request /\ Owner[q] = e /\ placed[q] = 0
      /\ mem[e].state = "SUBMITTED" /\ disk[e].state = "SUBMITTED"
      /\ mem[e].intent = q /\ disk[e].intent = q /\ AwaitsId(mem[e])
      /\ JInv(e, mem[e], orders, placed) /\ JInv(e, disk[e], orders, placed)
  BY Here DEF Local, Submitting, Unplaced
<1>2. orders \in [Request -> OrderState] /\ placed \in [Request -> Nat]
  BY DEF SessionInv, SessionTypeOK, BrokerTypeOK
<1>3. /\ orders'[q] = st /\ placed'[q] = 1
      /\ \A r \in Request \ { q } : orders'[r] = orders[r] /\ placed'[r] = placed[r]
      /\ orders' \in [Request -> OrderState] /\ placed' \in [Request -> Nat]
  BY <1>1, <1>2 DEF TakeOrder, OrderState, ACTIVE_RAW
<1> HIDE DEF q
<1>4. pc'[e] = next /\ pc' \in [Exec -> PC]
  BY Here DEF Goto, PC, WriteSites
<1>5. Only(e)
  BY Here DEF Only, Goto
<1>6. SessionTypeOK'
  BY <1>3, <1>4, Here DEF SessionTypeOK, BrokerTypeOK
<1>7. Placements(orders', placed')
  BY <1>2, <1>3 DEF SessionInv, Placements
<1>8. ASSUME NEW j \in { mem[e], disk[e] }
      PROVE  JInv(e, j, orders', placed')
  <2>1. JInv(e, j, orders, placed) /\ j.state = "SUBMITTED" /\ j.intent = q
    BY <1>1
  <2>2. Tracks(j, q) /\ FilledIsTrue(j, orders')
    BY <2>1 DEF Tracks, FilledIsTrue, execution_finality, InFlightStates
  <2>3. q \in j.used
    BY <1>1, <2>1, RequestAssumption DEF JInv
  <2> QED
    BY <1>3, <2>1, <2>2, <2>3 DEF JInv
<1>9. Local(e, next, open[e], mem[e], disk[e], req[e], seen[e], orders', placed')
  BY <1>1 DEF Local, Submitting, Unplaced, AwaitsId, q
<1>10. ProcInvNext(e)
  BY <1>4, <1>8, <1>9 DEF ProcInvNext, PInv
<1>11. \A f \in Exec \ { e } : Quiet(f, orders, placed, orders', placed')
  BY <1>1, <1>3 DEF Quiet
<1> QED
  BY <1>5, <1>6, <1>7, <1>10, <1>11, Assemble

\* broker.place_order() and what it answers.
LEMMA PlaceStep ==
  ASSUME SessionInv, NEW e \in Exec,
         PlaceAccepted(e) \/ PlaceAmbiguous(e) \/ PlaceRejected(e)
  PROVE  SessionInv'
<1>1. CASE PlaceAccepted(e)
  BY <1>1, TakeStep DEF PlaceAccepted
<1>2. CASE PlaceAmbiguous(e) /\ ~ UNCHANGED brokerVars
  BY <1>2, TakeStep DEF PlaceAmbiguous
<1>3. CASE PlaceAmbiguous(e) /\ UNCHANGED brokerVars
  <2>1. Local(e, "subAmbiguous", open[e], mem[e], disk[e], req[e], seen[e], orders, placed)
    BY <1>3, Here DEF PlaceAmbiguous, Local, Submitting, Unplaced
  <2> QED
    BY <1>3, <2>1, GotoInv DEF PlaceAmbiguous, PC, WriteSites
<1>4. CASE PlaceRejected(e)
  BY <1>4, HookStep DEF PlaceRejected, Unplaced, Submitting
<1> QED
  BY <1>1, <1>2, <1>3, <1>4

\* What submit() makes of the answer (session.py:253-263).
LEMMA SubmitOutcomeStep ==
  ASSUME SessionInv, NEW e \in Exec, "persistId" \notin FaultyWrites,
         SubmitAmbiguous(e) \/ PersistBrokerOrderId(e) \/ SubmitAccepted(e)
  PROVE  SessionInv'
<1>1. /\ pc[e] \in { "subAmbiguous", "persistId", "subAccepted" }
      /\ req[e] \in Request /\ Owner[req[e]] = e
      /\ mem[e].state = "SUBMITTED" /\ mem[e].intent = req[e]
      /\ JInv(e, mem[e], orders, placed)
      /\ UNCHANGED << req, seen, brokerVars >>
  BY Here DEF Local, Submitting, SubmitAmbiguous, PersistBrokerOrderId, SubmitAccepted
<1>2. Beside(e) /\ req'[e] = req[e] /\ seen'[e] = seen[e]
  BY <1>1, SilentIsBeside
<1>3. CASE SubmitAmbiguous(e)
  BY <1>1, <1>2, <1>3, OpenEventIsSafe, LastTransition, EventNames
     DEF SubmitAmbiguous, Closing, ConfirmedEvents
<1>4. CASE PersistBrokerOrderId(e)
  <2> DEFINE m == [mem[e] EXCEPT !.oid = req[e]]
  <2>1. pc[e] = "persistId" /\ mem[e].oid = None
    BY <1>1, <1>4, Here DEF PersistBrokerOrderId, AwaitsId
  <2>2. Write(e, m, "subAccepted")
    BY <1>4, <2>1 DEF PersistBrokerOrderId
  <2>3. /\ m \in Journal /\ m.state = mem[e].state /\ m.facts = mem[e].facts
        /\ m.intent = mem[e].intent /\ m.oid = req[e] /\ m.used = mem[e].used
    BY <1>1, Here DEF Journal
  <2> HIDE DEF m
  <2>4. JInv(e, m, orders, placed)
    BY <1>1, <2>3 DEF JInv, Consistent, Tracks, execution_finality, FilledIsTrue
  <2>5. Local(e, "subAccepted", open[e], m, m, req'[e], seen'[e], orders, placed)
    BY <1>1, <1>2, <2>3, RequestAssumption DEF Local, Submitting, Unplaced
  <2> QED
    BY <1>2, <2>1, <2>2, <2>3, <2>4, <2>5, WriteInv DEF PC, WriteSites
<1>5. CASE SubmitAccepted(e)
  <2>1. /\ "SUBMIT_ACCEPTED" \in TradeEvent /\ Allowed(mem[e], "SUBMIT_ACCEPTED")
        /\ "SUBMIT_ACCEPTED" \in Declared[mem[e].state]
    BY <1>1, EventNames DEF Allowed, Declared
  <2>2. CanAdvance(mem[e], "SUBMIT_ACCEPTED")
    BY <1>1, <2>1, Here, AdvanceJournal, JournalSnapshots, AllowedAdvances DEF JInv
  <2>3. mem[e].oid # None
    BY <1>5, Here DEF SubmitAccepted, Local
  <2>4. ASSUME NEW t \in Journal, t.state = Target["SUBMIT_ACCEPTED"], t.oid = mem[e].oid
        PROVE  AwaitsId(t) /\ Local(e, "poll", open[e], t, t, req'[e], seen'[e], orders, placed)
    BY <2>3, <2>4 DEF Target, AwaitsId, Local, Submitting, Unplaced
  <2>5. SafeEvent(mem[e], "SUBMIT_ACCEPTED", orders)
    BY OpenEventIsSafe DEF Closing, ConfirmedEvents
  <2> QED
    BY <1>1, <1>2, <1>5, <2>1, <2>2, <2>4, <2>5, TransitionInv
       DEF SubmitAccepted, PC, WriteSites
<1> QED
  BY <1>3, <1>4, <1>5

-----------------------------------------------------------------------------
(***************************************************************************)
(* cancel(), next_cycle(), close() and the calls.                          *)
(***************************************************************************)
\* cancel() writes its intent first (session.py:297-310).
LEMMA CallCancelStep ==
  ASSUME SessionInv, NEW e \in Exec, CallCancel(e)
  PROVE  SessionInv'
<1> DEFINE m == [mem[e] EXCEPT !.cancel = TRUE]
<1>1. /\ pc[e] = "idle" /\ mem[e].oid # None /\ Write(e, m, "cancelRequest")
      /\ UNCHANGED << req, seen, brokerVars >> /\ AwaitsId(mem[e])
      /\ JInv(e, mem[e], orders, placed)
  BY Here DEF CallCancel
<1>2. Beside(e)
  BY <1>1, SilentIsBeside
<1>3. /\ m \in Journal /\ m.state = mem[e].state /\ m.facts = mem[e].facts /\ m.cancel
      /\ m.intent = mem[e].intent /\ m.oid = mem[e].oid /\ m.used = mem[e].used
  BY Here DEF Journal
<1> HIDE DEF m
<1>4. JInv(e, m, orders, placed)
  BY <1>1, <1>3 DEF JInv, Consistent, Tracks, execution_finality, FilledIsTrue
<1>5. AwaitsId(m) /\ Local(e, "cancelRequest", open[e], m, m, req'[e], seen'[e], orders, placed)
  BY <1>1, <1>3 DEF AwaitsId, Local, Submitting, Unplaced
<1> QED
  BY <1>1, <1>2, <1>3, <1>4, <1>5, WriteInv DEF PC, WriteSites

\* The transitions around the cancel request (session.py:311-321).
LEMMA CancelTransitionStep ==
  ASSUME SessionInv, NEW e \in Exec, CancelRequested(e) \/ CancelSent(e) \/ CancelRefused(e)
  PROVE  SessionInv'
<1>1. /\ pc[e] \in { "cancelRequest", "cancelSent", "cancelRefused" }
      /\ UNCHANGED << req, seen, brokerVars >> /\ AwaitsId(mem[e]) /\ mem[e].oid # None
  BY Here DEF CancelRequested, CancelSent, CancelRefused, Local
<1>2. PICK event \in CancelEvents, next \in { "cancelSend", "poll" } :
        /\ Transition(e, mem[e], event, next)
        /\ next = "cancelSend" => pc[e] = "cancelRequest"
  BY DEF CancelRequested, CancelSent, CancelRefused, CancelEvents
<1>3. Beside(e)
  BY <1>1, SilentIsBeside
<1>4. next = "cancelSend" => mem[e].cancel
  BY <1>2, Here DEF Local
<1>5. Target[event] # "SUBMITTED" /\ "cancel_intent" \in NextFacts(mem[e].facts, event)
  BY FactsAfter DEF CancelEvents, Target
<1>6. ASSUME NEW t \in Journal, t.state = Target[event],
             t.facts = NextFacts(mem[e].facts, event), t.oid = mem[e].oid,
             t.cancel = mem[e].cancel
      PROVE  AwaitsId(t) /\ Local(e, next, open[e], t, t, req'[e], seen'[e], orders, placed)
  BY <1>1, <1>4, <1>5, <1>6 DEF AwaitsId, Local, Submitting, Unplaced
<1>7. SafeEvent(mem[e], event, orders) /\ event \in TradeEvent
  BY OpenEventIsSafe, EventNames DEF Closing, ConfirmedEvents, CancelEvents, OrderEvents
<1> QED
  BY <1>1, <1>2, <1>3, <1>6, <1>7, TransitionInv DEF PC, WriteSites

\* A change of one order that neither revives it nor undoes a final status.
LEMMA QuietBroker ==
  ASSUME NEW r \in Request, NEW st \in OrderState \ { "NONE" },
         orders \in [Request -> OrderState], placed \in [Request -> Nat],
         Placements(orders, placed), placed[r] > 0,
         orders[r] \in FINAL_RAW => st = orders[r],
         orders' = [orders EXCEPT ![r] = st], UNCHANGED placed
  PROVE  /\ BrokerTypeOK' /\ Placements(orders', placed')
         /\ \A f \in Exec : Quiet(f, orders, placed, orders', placed')
<1>1. orders[r] # "NONE" /\ orders[r] \in OrderState
  BY DEF Placements
<1>2. /\ orders'[r] = st /\ \A q \in Request \ { r } : orders'[q] = orders[q]
      /\ orders' \in [Request -> OrderState]
  OBVIOUS
<1>3. orders'[r] \in Alive => orders[r] \in Alive
  BY <1>1, <1>2 DEF Alive, OrderState, ACTIVE_RAW, FINAL_RAW
<1>4. \A f \in Exec : Quiet(f, orders, placed, orders', placed')
  BY <1>2, <1>3 DEF Quiet
<1>5. Placements(orders', placed')
  BY <1>1, <1>2 DEF Placements
<1> QED
  BY <1>2, <1>4, <1>5 DEF BrokerTypeOK

\* The cancel request reaches the broker, or not (session.py:313-318).
LEMMA CancelSendStep ==
  ASSUME SessionInv, NEW e \in Exec, CancelSend(e)
  PROVE  SessionInv'
<1>1. /\ pc[e] = "cancelSend" /\ UNCHANGED << open, mem, disk, req, seen >>
      /\ mem[e].oid \in Request /\ mem[e].oid # None /\ AwaitsId(mem[e])
  BY Here DEF CancelSend, Local
<1>2. ASSUME NEW next \in { "cancelSent", "cancelRefused", "idle" }
      PROVE  Local(e, next, open[e], mem[e], disk[e], req[e], seen[e], orders, placed)
  BY <1>1 DEF Local, Submitting, Unplaced, AwaitsId
<1>3. CASE UNCHANGED brokerVars
  BY <1>1, <1>2, <1>3, GotoInv DEF CancelSend, PC, WriteSites
<1>4. CASE TakeCancel(mem[e].oid) /\ ~ UNCHANGED brokerVars
  <2>1. PICK next \in { "cancelSent", "cancelRefused" } : Goto(e, next)
    BY <1>4 DEF CancelSend
  <2> DEFINE raw == orders[mem[e].oid]
             st == CASE raw = "REPORTED" -> "REPORTED_CANCEL"
                     [] raw = "PART_SUCC" -> "PARTSUCC_CANCEL"
                     [] OTHER -> raw
  <2>2. /\ orders \in [Request -> OrderState] /\ placed \in [Request -> Nat]
        /\ Placements(orders, placed)
    BY DEF SessionInv, SessionTypeOK, BrokerTypeOK
  <2>3. orders' = [orders EXCEPT ![mem[e].oid] = st] /\ UNCHANGED placed
    BY <1>4 DEF TakeCancel
  <2>4. raw # "NONE"
    <3>1. raw = "NONE" => st = raw
      OBVIOUS
    <3>2. raw = "NONE" => orders' = orders
      BY <1>1, <2>2, <2>3, <3>1
    <3> QED
      BY <1>4, <2>3, <3>2 DEF brokerVars
  <2>5. placed[mem[e].oid] > 0
    BY <1>1, <2>2, <2>4 DEF Placements
  <2>6. st \in OrderState \ { "NONE" } /\ (raw \in FINAL_RAW => st = raw)
    BY <1>1, <2>2, <2>4 DEF OrderState, ACTIVE_RAW, FINAL_RAW
  <2>7. /\ BrokerTypeOK' /\ Placements(orders', placed')
        /\ \A f \in Exec : Quiet(f, orders, placed, orders', placed')
    <3> HIDE DEF st
    <3> QED
      BY <1>1, <2>2, <2>3, <2>5, <2>6, QuietBroker
  <2>8. pc'[e] = next /\ pc' \in [Exec -> PC]
    BY <2>1, Here DEF Goto, PC, WriteSites
  <2>9. Only(e)
    BY <1>1, <2>1, Here DEF Only, Goto
  <2>10. SessionTypeOK'
    BY <1>1, <2>7, <2>8, Here DEF SessionTypeOK
  <2>11. PInv(e, next, open[e], mem[e], disk[e], req[e], seen[e], orders, placed)
    BY <1>1, <1>2, Here DEF PInv
  <2>12. PInv(e, next, open[e], mem[e], disk[e], req[e], seen[e], orders', placed')
    BY <2>7, <2>11, Here, QuietPInv
  <2>13. ProcInvNext(e)
    BY <1>1, <2>8, <2>12 DEF ProcInvNext
  <2> QED
    BY <2>7, <2>9, <2>10, <2>13, Assemble
<1> QED
  BY <1>3, <1>4 DEF CancelSend

\* next_cycle() raises NEXT_CYCLE (session.py:323-329).
LEMMA NextCycleStep ==
  ASSUME SessionInv, NEW e \in Exec, CallNextCycle(e)
  PROVE  SessionInv'
<1>1. /\ pc[e] = "idle" /\ UNCHANGED << req, seen, brokerVars >> /\ AwaitsId(mem[e])
      /\ Transition(e, mem[e], "NEXT_CYCLE", "clear")
  BY Here DEF CallNextCycle
<1>2. Beside(e)
  BY <1>1, SilentIsBeside
<1>3. ASSUME NEW t \in Journal, t.state = Target["NEXT_CYCLE"]
      PROVE  AwaitsId(t) /\ Local(e, "clear", open[e], t, t, req'[e], seen'[e], orders, placed)
  BY <1>3 DEF Target, AwaitsId, Local, Submitting, Unplaced
<1>4. SafeEvent(mem[e], "NEXT_CYCLE", orders)
  BY OpenEventIsSafe DEF Closing, ConfirmedEvents
<1> QED
  BY <1>1, <1>2, <1>3, <1>4, TransitionInv, EventNames DEF PC, WriteSites

\* clear_cycle_data() forgets the request of a closed cycle only (journal.py:208-221).
LEMMA ClearStep ==
  ASSUME SessionInv, NEW e \in Exec, ClearCycleData(e)
  PROVE  SessionInv'
<1> DEFINE m == [mem[e] EXCEPT !.intent = None, !.oid = None, !.cancel = FALSE, !.filled = 0]
<1>1. /\ pc[e] = "clear" /\ UNCHANGED << req, seen, brokerVars >> /\ Write(e, m, "idle")
      /\ mem[e].state = "WAIT_TRIGGER" /\ JInv(e, mem[e], orders, placed)
  BY Here DEF ClearCycleData, Local
<1>2. Beside(e)
  BY <1>1, SilentIsBeside
<1>3. /\ m \in Journal /\ m.state = mem[e].state /\ m.facts = mem[e].facts
      /\ m.intent = None /\ m.oid = None /\ m.used = mem[e].used
  <2>1. mem[e] \in Journal
    BY Here
  <2>2. 0 \in 0 .. Lots
    BY DEF Lots
  <2>3. m \in Journal
    BY <2>1, <2>2 DEF Journal
  <2>4. m.state = mem[e].state /\ m.facts = mem[e].facts /\ m.used = mem[e].used
    BY <2>1 DEF Journal
  <2>5. m.intent = None /\ m.oid = None
    BY <2>1 DEF Journal
  <2> QED
    BY <2>3, <2>4, <2>5
<1> HIDE DEF m
<1>4. execution_finality(mem[e]) = "RESOLVED"
  BY <1>1 DEF execution_finality, InFlightStates
<1>5. \A r \in Request : Owner[r] = e => orders[r] \notin Alive
  BY <1>1, <1>4, Here, ResolvedHasNoOrder
<1>6. Consistent(m) /\ FilledIsTrue(m, orders)
  BY <1>1, <1>3 DEF JInv, Consistent, FilledIsTrue
<1>7. JInv(e, m, orders, placed)
  BY <1>1, <1>3, <1>5, <1>6 DEF JInv
<1>8. AwaitsId(m) /\ Local(e, "idle", open[e], m, m, req'[e], seen'[e], orders, placed)
  BY <1>1, <1>3 DEF AwaitsId, Local, Submitting, Unplaced
<1> QED
  BY <1>1, <1>2, <1>3, <1>7, <1>8, WriteInv DEF PC, WriteSites

\* close(), or a crash anywhere (session.py:167-172).
LEMMA StopStep ==
  ASSUME SessionInv, NEW e \in Exec, Stop(e)
  PROVE  SessionInv'
<1>1. /\ pc'[e] = "down" /\ open'[e] = FALSE /\ mem'[e] = EmptyJournal /\ disk' = disk
      /\ orders' = orders /\ placed' = placed
  BY Here DEF Stop, Goto, brokerVars
<1>2. Only(e)
  BY Here DEF Only, Stop, Goto
<1>3. NothingSeen \in BrokerOrder
  BY DEF NothingSeen, BrokerOrder, Lots
<1>4. SessionTypeOK'
  BY <1>1, <1>3, Here, EmptyIsJournal
     DEF SessionInv, SessionTypeOK, BrokerTypeOK, Stop, Goto, PC
<1>5. Local(e, "down", FALSE, EmptyJournal, disk[e], req'[e], seen'[e], orders, placed)
  BY DEF Local, Submitting, Unplaced
<1>6. ProcInvNext(e)
  BY <1>1, <1>5, Here DEF ProcInvNext, PInv
<1> QED
  BY <1>2, <1>4, <1>6, AssembleSilent DEF Stop

\* poll() and reconcile() pick the path by state and order id (session.py:265-295).
LEMMA CallPollStep ==
  ASSUME SessionInv, NEW e \in Exec, CallPoll(e) \/ CallReconcile(e)
  PROVE  SessionInv'
<1>1. /\ pc[e] = "idle" /\ UNCHANGED << open, mem, disk, req, seen, brokerVars >>
      /\ AwaitsId(mem[e])
  BY Here DEF CallPoll, CallReconcile
<1>2. PICK next \in { "poll", "recover", "ret" } :
        /\ Goto(e, next)
        /\ next = "poll" => mem[e].oid # None
        /\ next = "recover" => mem[e].state = "UNKNOWN"
  BY DEF CallPoll, CallReconcile
<1>3. Local(e, next, open[e], mem[e], disk[e], req[e], seen[e], orders, placed)
  BY <1>1, <1>2 DEF Local, Submitting, Unplaced, AwaitsId
<1> QED
  BY <1>1, <1>2, <1>3, GotoInv DEF PC, WriteSites

-----------------------------------------------------------------------------
(***************************************************************************)
(* All of them, for the specifications that are built from them.           *)
(***************************************************************************)

\* Before anything is opened every journal is empty and no order exists.
LEMMA InitInv == SessionInit => SessionInv
<1> SUFFICES ASSUME SessionInit
             PROVE  SessionInv
  OBVIOUS
<1>1. SessionTypeOK
  BY EmptyIsJournal
     DEF SessionInit, BrokerInit, SessionTypeOK, BrokerTypeOK, OrderState, PC, NothingSeen,
         BrokerOrder, Lots
<1>2. Placements(orders, placed)
  BY DEF SessionInit, BrokerInit, Placements
<1>3. ASSUME NEW e \in Exec
      PROVE  ProcInv(e)
  <2>1. /\ pc[e] = "down" /\ open[e] = FALSE /\ mem[e] = EmptyJournal /\ disk[e] = EmptyJournal
        /\ \A r \in Request : placed[r] = 0 /\ orders[r] = "NONE"
    BY DEF SessionInit, BrokerInit
  <2>2. EmptyJournal.intent = None /\ EmptyJournal.oid = None
    BY DEF EmptyJournal
  <2>3. JInv(e, EmptyJournal, orders, placed)
    BY <2>1, <2>2, EmptyIsJournal DEF JInv, FilledIsTrue, Alive, ACTIVE_RAW
  <2>4. Local(e, "down", FALSE, EmptyJournal, EmptyJournal, req[e], seen[e], orders, placed)
    BY DEF Local, Submitting, Unplaced
  <2> QED
    BY <2>1, <2>3, <2>4 DEF ProcInv, PInv
<1> QED
  BY <1>1, <1>2, <1>3 DEF SessionInv

\* Every step of a running session preserves the invariant (session.py:98-455).
LEMMA SessionStepInv ==
  ASSUME SessionInv, "persistId" \notin FaultyWrites, NEW e \in Exec, SessionStep(e)
  PROVE  SessionInv'
<1>1. CASE PreBrokerAborted(e) \/ SubmitRejected(e)
  BY <1>1, UnplacedClosed DEF PreBrokerAborted, SubmitRejected, Unplaced, Submitting
<1> QED
  BY <1>1, OpeningStep, RecoverStep, ObservedStep, PollStep, PrecheckStep, PersistIntentStep,
     IntentPersistedStep, PlaceStep, SubmitOutcomeStep, CancelTransitionStep, CancelSendStep,
     ClearStep
     DEF SessionStep

\* Every call of the strategy does.
LEMMA CallInv ==
  ASSUME SessionInv, NEW e \in Exec, Call(e)
  PROVE  SessionInv'
  BY OpenStep, CallPollStep, CallCancelStep, NextCycleStep, StopStep, CallSubmitStep DEF Call

\* The broker's own moves (external) are quiet for every session.
LEMMA BrokerMoveInv ==
  ASSUME SessionInv, NEW r \in Request, BrokerMove(r), UNCHANGED sessionVars
  PROVE  SessionInv'
<1>1. PICK move \in AllMoves : orders[r] = move[1] /\ orders' = [orders EXCEPT ![r] = move[2]]
  BY BrokerAssumption DEF BrokerMove
<1>2. /\ orders \in [Request -> OrderState] /\ placed \in [Request -> Nat]
      /\ Placements(orders, placed) /\ UNCHANGED placed
  BY DEF SessionInv, SessionTypeOK, BrokerTypeOK, BrokerMove
<1>3. /\ move[2] \in OrderState \ { "NONE" } /\ orders[r] \notin FINAL_RAW
      /\ orders[r] # "NONE"
  BY <1>1 DEF AllMoves, OrderState, ACTIVE_RAW, FINAL_RAW
<1>4. placed[r] > 0
  BY <1>2, <1>3 DEF Placements
<1>5. /\ BrokerTypeOK' /\ Placements(orders', placed')
      /\ \A f \in Exec : Quiet(f, orders, placed, orders', placed')
  BY <1>1, <1>2, <1>3, <1>4, QuietBroker
<1>6. UNCHANGED << pc, open, mem, disk, req, seen >>
  BY DEF sessionVars
<1>7. SessionTypeOK'
  BY <1>5, <1>6 DEF SessionInv, SessionTypeOK
<1>8. ASSUME NEW e \in Exec
      PROVE  ProcInvNext(e)
  <2>1. PInv(e, pc[e], open[e], mem[e], disk[e], req[e], seen[e], orders, placed)
    BY DEF SessionInv, ProcInv
  <2> QED
    BY <1>5, <1>6, <2>1, Here, QuietPInv DEF ProcInvNext
<1> QED
  BY <1>5, <1>7, <1>8 DEF SessionInv, ProcInv, ProcInvNext

\* A step that leaves session and broker alone.
LEMMA StutterInv ==
  ASSUME SessionInv, UNCHANGED << brokerVars, sessionVars >>
  PROVE  SessionInv'
<1>1. UNCHANGED << pc, open, mem, disk, req, seen, orders, placed >>
  BY DEF brokerVars, sessionVars
<1> QED
  BY <1>1 DEF SessionInv, SessionTypeOK, BrokerTypeOK, ProcInv

-----------------------------------------------------------------------------
(***************************************************************************)
(* What the invariant says of the broker and of the journal file, for the  *)
(* plain and the coordinated session alike.                                *)
(***************************************************************************)
\* No request is placed a second time (session.py:202-207, 249-263).
LEMMA PlacesOnce == SessionInv => AtMostOnePlacement
  BY DEF SessionInv, Placements, AtMostOnePlacement

\* The journal of its owner tracks every order that may still trade
\* (session.py:202-263, finality.py:35-60).
LEMMA Tracked == SessionInv => LiveOrderIsTracked
<1> SUFFICES ASSUME SessionInv, NEW r \in Request, Live(r)
             PROVE  /\ Tracks(disk[Owner[r]], r)
                    /\ pc[Owner[r]] # "down" => Tracks(mem[Owner[r]], r)
  BY DEF LiveOrderIsTracked
<1>1. Owner[r] \in Exec /\ orders[r] \in Alive
  BY RequestAssumption DEF Live, Alive
<1> QED
  BY <1>1, Here DEF JInv

\* A terminal state of the journal is the order's state at the broker
\* (recovery.py:38-113, adapter.py:233-283).
LEMMA TerminalTrue == SessionInv => TerminalIsTrue
<1> SUFFICES ASSUME SessionInv, NEW e \in Exec, NEW journal \in { mem[e], disk[e] }
             PROVE  FilledIsTrue(journal, orders)
  BY DEF TerminalIsTrue, FilledIsTrue
<1>1. JInv(e, disk[e], orders, placed) /\ (pc[e] # "down" => JInv(e, mem[e], orders, placed))
  BY Here
<1>2. pc[e] = "down" => mem[e].intent = None
  BY Here DEF Local, EmptyJournal
<1> QED
  BY <1>1, <1>2 DEF JInv, FilledIsTrue

\* open() accepts every file (journal.py:89, session.py:128-159).
LEMMA Reopens == SessionInv => JournalReopens
<1> SUFFICES ASSUME SessionInv, NEW e \in Exec
             PROVE  /\ assert_invariants(disk[e])
                    /\ disk[e].state \in InFlightStates => CanAdvance(disk[e], "RESTART_RECOVERY")
                    /\ disk[e].state = "UNKNOWN" => CanAdvance(disk[e], "RECOVERY_FAILED")
                    /\ disk[e].state \in { "TRIGGER", "PRE_CHECK" } => CanAdvance(disk[e], "FATAL")
  BY DEF JournalReopens
<1>1. disk[e] \in Journal /\ HasSnapshot(disk[e]) /\ Consistent(disk[e])
  BY Here, JournalSnapshots DEF JInv
<1>2. ASSUME NEW event \in { "RESTART_RECOVERY", "RECOVERY_FAILED", "FATAL" },
             event \in Declared[disk[e].state]
      PROVE  CanAdvance(disk[e], event)
  <2>1. event \in TradeEvent /\ Allowed(disk[e], event)
    BY <1>2, EventNames DEF Allowed, RecoveryEvents
  <2> QED
    BY <1>1, <1>2, <2>1, AdvanceJournal, AllowedAdvances
<1>3. /\ disk[e].state \in InFlightStates => "RESTART_RECOVERY" \in Declared[disk[e].state]
      /\ disk[e].state = "UNKNOWN" => "RECOVERY_FAILED" \in Declared[disk[e].state]
      /\ disk[e].state \in { "TRIGGER", "PRE_CHECK" } => "FATAL" \in Declared[disk[e].state]
  BY DEF InFlightStates, Declared, WorkingEvents, AbortEvents, RecoveryEvents
<1>4. assert_invariants(disk[e])
  BY <1>1, ConsistentPasses
<1> QED
  BY <1>2, <1>3, <1>4

-----------------------------------------------------------------------------
(***************************************************************************)
(* When no write fails, the journal file is a run of the execution         *)
(* machine.  Besides the invariant above, memory and file of a session     *)
(* that is up carry the same snapshot: that is what makes the next         *)
(* transition of the memory a transition of the file.                      *)
(***************************************************************************)
SameSnapshot(j, k) == j.state = k.state /\ j.facts = k.facts

Synchronous == \A e \in Exec : pc[e] # "down" => SameSnapshot(mem[e], disk[e])

Advanced(j, k, event) ==
  CanAdvance(j, event) /\ k.state = Target[event] /\ k.facts = NextFacts(j.facts, event)

\* The file of e keeps its snapshot or makes one transition.
FileStep(e) ==
  \/ SameSnapshot(disk[e], disk'[e])
  \/ \E event \in TradeEvent : Advanced(disk[e], disk'[e], event)

\* What a step of e may do to memory and file.
Follows(e) ==
  /\ \A f \in Exec \ { e } : pc'[f] = pc[f] /\ mem'[f] = mem[f] /\ disk'[f] = disk[f]
  /\ \/ disk'[e] = disk[e] /\ pc'[e] = "down"
     \/ disk'[e] = disk[e] /\ mem'[e] = disk[e]
     \/ disk'[e] = disk[e] /\ mem'[e] = mem[e] /\ pc[e] # "down"
     \/ /\ pc[e] # "down" /\ mem'[e] = disk'[e]
        /\ \/ SameSnapshot(mem[e], disk'[e])
           \/ \E event \in TradeEvent : Advanced(mem[e], disk'[e], event)

\* A journal write of the same snapshot or of its successor (journal.py:92-110).
LEMMA WriteFollows ==
  ASSUME FaultyWrites = {}, SessionInv, NEW e \in Exec, pc[e] # "down", NEW m, NEW next,
         Write(e, m, next),
         SameSnapshot(mem[e], m) \/ \E event \in TradeEvent : Advanced(mem[e], m, event)
  PROVE  Follows(e)
<1>1. mem' = [mem EXCEPT ![e] = m] /\ disk' = [disk EXCEPT ![e] = m] /\ Goto(e, next)
  BY DEF Write
<1> QED
  BY <1>1, Here DEF Follows, Goto

\* An exception leaves the file alone.
LEMMA RaiseFollows ==
  ASSUME SessionInv, NEW e \in Exec, pc[e] # "down", Raise(e)
  PROVE  Follows(e)
  BY Here DEF Raise, RaiseWith, Goto, Follows

\* _transition() advances the file by one event (session.py:447-455).
LEMMA TransitionFollows ==
  ASSUME FaultyWrites = {}, SessionInv, NEW e \in Exec, pc[e] # "down",
         NEW event \in TradeEvent, NEW next, Transition(e, mem[e], event, next)
  PROVE  Follows(e)
<1>1. CASE ~ CanAdvance(mem[e], event)
  BY <1>1, RaiseFollows DEF Transition
<1>2. CASE CanAdvance(mem[e], event)
  <2>1. Write(e, advance(mem[e], event), next)
    BY <1>2 DEF Transition
  <2>2. Advanced(mem[e], advance(mem[e], event), event)
    BY <1>2, Here, AdvanceJournal DEF Advanced
  <2> QED
    BY <2>1, <2>2, WriteFollows
<1> QED
  BY <1>1, <1>2

\* _apply_observation() writes the observation, or FATAL (session.py:382-398).
LEMMA ApplyFollows ==
  ASSUME FaultyWrites = {}, SessionInv, NEW e \in Exec, pc[e] # "down", NEW r, NEW order,
         ApplyObservation(e, r, order)
  PROVE  Follows(e)
<1>1. SameSnapshot(mem[e], [mem[e] EXCEPT !.filled = order.filled])
  BY Here DEF SameSnapshot, Journal
<1> QED
  BY <1>1, RaiseFollows, TransitionFollows, WriteFollows, EventNames DEF ApplyObservation

\* Steps that move control and the broker only.
LEMMA QuietFollows ==
  ASSUME SessionInv, NEW e \in Exec, pc[e] # "down", NEW next, Goto(e, next), UNCHANGED << mem, disk >>
  PROVE  Follows(e)
  BY Here DEF Goto, Follows

\* Each step and call writes the file at most once.
LEMMA SessionFollows ==
  ASSUME FaultyWrites = {}, SessionInv, NEW e \in Exec,
         SessionStep(e) \/ PreBrokerRejected(e) \/ Call(e)
  PROVE  Follows(e)
<1> USE EventNames DEF OrderEvents, RecoveryEvents
<1>1. CASE \/ OpenFirst(e) \/ OpenInFlight(e) \/ OpenInterrupted(e) \/ BeginPrecheck(e)
           \/ IntentPersisted(e) \/ PreBrokerAborted(e) \/ PreBrokerRejected(e)
           \/ SubmitRejected(e)
           \/ SubmitAmbiguous(e) \/ SubmitAccepted(e) \/ CancelRequested(e) \/ CancelSent(e)
           \/ CancelRefused(e) \/ CallNextCycle(e) \/ \E r \in Request : CallSubmit(e, r)
  BY <1>1, TransitionFollows
     DEF OpenFirst, OpenInFlight, OpenInterrupted, BeginPrecheck, IntentPersisted,
         PreBrokerAborted, PreBrokerRejected, SubmitRejected, SubmitAmbiguous, SubmitAccepted, CancelRequested,
         CancelSent, CancelRefused, CallNextCycle, CallSubmit
<1>2. CASE \/ OpenSettled(e) \/ OpenUnknown(e) \/ PlaceAccepted(e) \/ PlaceAmbiguous(e)
           \/ CancelSend(e) \/ CallPoll(e) \/ CallReconcile(e)
  BY <1>2, QuietFollows
     DEF OpenSettled, OpenUnknown, PlaceAccepted, PlaceAmbiguous, CancelSend, CallPoll,
         CallReconcile
<1>3. CASE Precheck(e)
  BY <1>3, TransitionFollows, RaiseFollows DEF Precheck
<1>4. CASE ApplyRecovered(e) \/ PollAnswered(e)
  BY <1>4, ApplyFollows DEF ApplyRecovered, PollAnswered
<1>5. ASSUME ToUnknown(e), pc[e] # "down"
      PROVE  Follows(e)
  BY <1>5, TransitionFollows DEF ToUnknown
<1>6. CASE PollUnanswered(e)
  BY <1>5, <1>6 DEF PollUnanswered
<1>7. CASE ObservedEvent(e)
  <2> DEFINE event == event_for_observation(mem[e].state, seen[e].status)
  <2>1. pc[e] = "event" /\ mem[e].state \in TradeState /\ seen[e].status \in BrokerOrderStatus
    BY <1>7, Here DEF ObservedEvent, Journal, BrokerOrder, BrokerOrderStatus
  <2>2. event \in TradeEvent \cup { "NONE", "AMBIGUOUS" }
    BY <2>1, ObservationEvents
  <2>3. CASE event = "NONE"
    BY <1>7, <2>1, <2>3, QuietFollows DEF ObservedEvent
  <2>4. CASE event = "AMBIGUOUS"
    BY <1>5, <1>7, <2>1, <2>4 DEF ObservedEvent
  <2>5. CASE event \notin { "NONE", "AMBIGUOUS" }
    <3>1. Transition(e, mem[e], event, "ret")
      BY <1>7, <2>5 DEF ObservedEvent
    <3> QED
      BY <2>1, <2>2, <2>5, <3>1, TransitionFollows
  <2> QED
    BY <2>3, <2>4, <2>5
<1>8. ASSUME NEW m, NEW next, Write(e, m, next), SameSnapshot(mem[e], m), pc[e] # "down"
      PROVE  Follows(e)
  BY <1>8, WriteFollows
<1>9. CASE Recover(e)
  <2>1. SameSnapshot(mem[e], [mem[e] EXCEPT !.oid = mem[e].intent])
    BY Here DEF SameSnapshot, Journal
  <2> QED
    BY <1>8, <1>9, <2>1, ApplyFollows, TransitionFollows DEF Recover
<1>10. CASE PersistIntent(e)
  <2>1. SameSnapshot(mem[e], [mem[e] EXCEPT !.intent = req[e], !.used = @ \cup { req[e] }])
    BY Here DEF SameSnapshot, Journal
  <2> QED
    BY <1>8, <1>10, <2>1, RaiseFollows DEF PersistIntent
<1>11. CASE PersistBrokerOrderId(e)
  <2>1. SameSnapshot(mem[e], [mem[e] EXCEPT !.oid = req[e]])
    BY Here DEF SameSnapshot, Journal
  <2> QED
    BY <1>8, <1>11, <2>1, RaiseFollows DEF PersistBrokerOrderId
<1>12. CASE CallCancel(e)
  <2>1. SameSnapshot(mem[e], [mem[e] EXCEPT !.cancel = TRUE])
    BY Here DEF SameSnapshot, Journal
  <2> QED
    BY <1>8, <1>12, <2>1 DEF CallCancel
<1>13. CASE ClearCycleData(e)
  <2>1. mem[e] \in Journal
    BY Here
  <2>2. SameSnapshot(mem[e], [mem[e] EXCEPT !.intent = None, !.oid = None, !.cancel = FALSE,
                                            !.filled = 0])
    BY <2>1 DEF SameSnapshot, Journal
  <2> QED
    BY <1>8, <1>13, <2>2 DEF ClearCycleData
<1>14. CASE Open(e)
  BY <1>14, Here DEF Open, Goto, Follows
<1>15. CASE Stop(e)
  BY <1>15, Here DEF Stop, Goto, Follows
<1> QED
  BY <1>1, <1>2, <1>3, <1>4, <1>6, <1>7, <1>9, <1>10, <1>11, <1>12, <1>13, <1>14, <1>15
     DEF SessionStep, Call

\* Every step keeps memory and file in step, and advances each file by at most
\* one event.
LEMMA FollowsAdvances ==
  ASSUME SessionInv, Synchronous, NEW e \in Exec, Follows(e)
  PROVE  Synchronous' /\ \A f \in Exec : FileStep(f)
<1>1. ASSUME NEW event, pc[e] # "down", Advanced(mem[e], disk'[e], event), event \in TradeEvent
      PROVE  Advanced(disk[e], disk'[e], event)
  <2>1. disk[e] \in Journal /\ mem[e] \in Journal /\ SameSnapshot(mem[e], disk[e])
    BY <1>1, Here DEF Synchronous
  <2>2. /\ advance(disk[e], event).state = advance(mem[e], event).state
        /\ advance(disk[e], event).facts = advance(mem[e], event).facts
    BY <1>1, <2>1, AdvanceJournal DEF SameSnapshot
  <2> QED
    BY <1>1, <2>1, <2>2
       DEF SameSnapshot, Advanced, CanAdvance, Allowed, assert_invariants
<1>2. FileStep(e)
  BY <1>1 DEF FileStep, Follows, SameSnapshot, Synchronous
<1>3. \A f \in Exec \ { e } : FileStep(f)
  BY DEF FileStep, Follows, SameSnapshot
<1>4. Synchronous'
  BY DEF Synchronous, Follows, SameSnapshot
<1> QED
  BY <1>2, <1>3, <1>4

\* So does a step of the broker or of nobody.
LEMMA SilentAdvances ==
  ASSUME Synchronous, UNCHANGED sessionVars
  PROVE  Synchronous' /\ \A f \in Exec : FileStep(f)
  BY DEF sessionVars, Synchronous, SameSnapshot, FileStep

\* Two snapshots with the same fields are the same, so advance() of a snapshot
\* can be written out (state_machine.py:299-301).
LEMMA AdvanceRecord ==
  ASSUME NEW s \in Snapshot, NEW event \in TradeEvent
  PROVE  advance(s, event) = [state |-> Target[event], facts |-> NextFacts(s.facts, event)]
<1> DEFINE t == advance(s, event)
<1>1. t \in Snapshot /\ t.state = Target[event] /\ t.facts = NextFacts(s.facts, event)
  BY AdvanceFields
<1> HIDE DEF t
<1>2. t = [state |-> t.state, facts |-> t.facts]
  BY <1>1 DEF Snapshot
<1> QED
  BY <1>1, <1>2 DEF t

\* The operators of the instance are those of TradeMachine.
LEMMA SameMachine ==
  ASSUME NEW e
  PROVE  /\ Machine(e)!TradeEvent = TradeEvent
         /\ \A s, event : Machine(e)!advance(s, event) = advance(s, event)
         /\ \A s, event : Machine(e)!CanAdvance(s, event) <=> CanAdvance(s, event)
<1>1. Machine(e)!Target = Target
  BY DEF Machine!Target, Target
<1>2. Machine(e)!TradeEvent = TradeEvent
  BY <1>1 DEF Machine!TradeEvent, TradeEvent
<1>3. ASSUME NEW f, NEW event
      PROVE  Machine(e)!NextFacts(f, event) = NextFacts(f, event)
  BY DEF Machine!NextFacts, NextFacts, Machine!BrokerActiveEvents, BrokerActiveEvents,
         Machine!CancelEvents, CancelEvents, Machine!ConfirmedEvents, ConfirmedEvents,
         Machine!SessionFacts, SessionFacts, Machine!PrecheckFacts, PrecheckFacts
<1>4. ASSUME NEW s, NEW event
      PROVE  Machine(e)!advance(s, event) = advance(s, event)
  BY <1>1, <1>3 DEF Machine!advance, advance
<1>5. Machine(e)!Declared = Declared
  BY DEF Machine!Declared, Declared, Machine!WorkingEvents, WorkingEvents,
         Machine!AbortEvents, AbortEvents, Machine!RecoveryEvents, RecoveryEvents
<1>6. ASSUME NEW s, NEW event
      PROVE  Machine(e)!Allowed(s, event) <=> Allowed(s, event)
  BY <1>5 DEF Machine!Allowed, Allowed, Machine!PrecheckFacts, PrecheckFacts
<1>7. ASSUME NEW s
      PROVE  Machine(e)!assert_invariants(s) <=> assert_invariants(s)
  BY DEF Machine!assert_invariants, assert_invariants, Machine!InFlightStates,
         InFlightStates, Machine!PrecheckFacts, PrecheckFacts, Machine!SessionFacts,
         SessionFacts
<1> QED
  BY <1>2, <1>4, <1>6, <1>7 DEF Machine!CanAdvance, CanAdvance

\* An empty journal is the initial snapshot (journal.py:71-91).
LEMMA FileStarts ==
  ASSUME SessionInit
  PROVE  Synchronous /\ \A e \in Exec : Machine(e)!Init
<1> SUFFICES ASSUME NEW e \in Exec
             PROVE  pc[e] = "down" /\ Machine(e)!Init
  BY DEF Synchronous
<1>1. pc[e] = "down" /\ disk[e] = EmptyJournal
  BY DEF SessionInit
<1>2. EmptyJournal.state = "IDLE" /\ EmptyJournal.facts = {}
  BY DEF EmptyJournal
<1>3. JournalSnapshot(e) = [state |-> "IDLE", facts |-> {}]
  BY <1>1, <1>2 DEF JournalSnapshot
<1> QED
  BY <1>1, <1>3 DEF Machine!Init, Machine!initial_snapshot

\* A step of the file is a step of the machine, or none.
LEMMA FileStepIsMachineStep ==
  ASSUME SessionInv, NEW e \in Exec, FileStep(e)
  PROVE  Machine(e)!Next \/ UNCHANGED JournalSnapshot(e)
<1>1. CASE SameSnapshot(disk[e], disk'[e])
  BY <1>1 DEF SameSnapshot, JournalSnapshot
<1>2. ASSUME NEW event \in TradeEvent, Advanced(disk[e], disk'[e], event)
      PROVE  Machine(e)!Next
  <2> DEFINE s == JournalSnapshot(e)
  <2>1. disk[e] \in Journal
    BY Here
  <2>2. s \in Snapshot /\ s.state = disk[e].state /\ s.facts = disk[e].facts
    BY <2>1 DEF JournalSnapshot, Snapshot, Journal
  <2>3. s' = [state |-> Target[event], facts |-> NextFacts(disk[e].facts, event)]
    BY <1>2 DEF JournalSnapshot, Advanced
  <2>4. s' = advance(s, event)
    <3> HIDE DEF s
    <3> QED
      BY <2>2, <2>3, AdvanceRecord
  <2>5. CanAdvance(s, event)
    <3>1. /\ advance(disk[e], event).state = advance(s, event).state
          /\ advance(disk[e], event).facts = advance(s, event).facts
      BY <2>1, <2>2, AdvanceJournal, AdvanceFields
    <3> HIDE DEF s
    <3> QED
      BY <1>2, <2>2, <3>1 DEF Advanced, CanAdvance, Allowed, assert_invariants
  <2> HIDE DEF s
  <2>6. Machine(e)!Step(event)
    BY <2>4, <2>5, SameMachine DEF Machine!Step, s
  <2> QED
    BY <2>6, SameMachine DEF Machine!Next
<1> QED
  BY <1>1, <1>2 DEF FileStep

(***************************************************************************)
(* So the file inherits what the machine never does: an order it calls     *)
(* unresolved stays so until a terminal broker order is recorded, and the  *)
(* order path is entered again only over a resolved execution.             *)
(***************************************************************************)
FileKeepsEvidence ==
  [][ \A e \in Exec : /\ ClearedByEvidence(disk[e], disk'[e])
                      /\ RetriedWhenResolved(disk[e], disk'[e])
    ]_<< brokerVars, sessionVars >>

\* One transition of the file, or none (state_machine.py:144-301).
LEMMA FileStepKeepsEvidence ==
  ASSUME SessionInv, NEW e \in Exec, FileStep(e)
  PROVE  ClearedByEvidence(disk[e], disk'[e]) /\ RetriedWhenResolved(disk[e], disk'[e])
<1>1. HasSnapshot(disk[e]) /\ Consistent(disk[e])
  BY Here DEF Journal, HasSnapshot, JInv
<1>2. CASE SameSnapshot(disk[e], disk'[e])
  <2>1. ~ ("intent" \in disk[e].facts /\ disk[e].state \in { "WAIT_TRIGGER", "TRIGGER", "PRE_CHECK" })
    BY <1>1 DEF Consistent, BeforeIntent, SessionFacts, PrecheckFacts
  <2> QED
    BY <1>2, <2>1 DEF SameSnapshot, ClearedByEvidence, RetriedWhenResolved
<1>3. ASSUME NEW event \in TradeEvent, Advanced(disk[e], disk'[e], event)
      PROVE  ClearedByEvidence(disk[e], disk'[e]) /\ RetriedWhenResolved(disk[e], disk'[e])
  <2>1. /\ Allowed(disk[e], event) /\ disk'[e].state = Target[event]
        /\ disk'[e].facts = NextFacts(disk[e].facts, event)
    BY <1>3 DEF Advanced, CanAdvance
  <2> QED
    BY <1>1, <2>1, EvidenceClears, ResolvedRetries
<1> QED
  BY <1>2, <1>3 DEF FileStep

-----------------------------------------------------------------------------
(***************************************************************************)
(* Write-ahead: what has to be in the file when the broker is called.      *)
(***************************************************************************)
\* Only place_order() makes the broker take an order (session.py:249-250).
LEMMA PlacedAhead ==
  ASSUME SessionInv, NEW e \in Exec, SessionStep(e) \/ PreBrokerRejected(e) \/ Call(e),
         NEW r \in Request, placed'[r] # placed[r]
  PROVE  disk[Owner[r]].intent = r /\ disk[Owner[r]].state = "SUBMITTED"
<1>1. PlaceAccepted(e) \/ PlaceAmbiguous(e)
  BY DEF SessionStep, brokerVars, OpenFirst, OpenSettled, OpenInFlight,
       OpenUnknown, OpenInterrupted, Recover, ApplyRecovered, ObservedEvent, PollAnswered,
       PollUnanswered, BeginPrecheck, Precheck, PersistIntent, IntentPersisted,
       PreBrokerAborted, PreBrokerRejected, SubmitRejected, SubmitAmbiguous,
       PersistBrokerOrderId, SubmitAccepted, CancelRequested, CancelSend, TakeCancel,
       CancelSent, CancelRefused, ClearCycleData, Call, Open, CallPoll, CallReconcile,
       CallCancel, CallNextCycle, Stop, CallSubmit
<1>2. pc[e] = "place" /\ r = req[e]
  BY <1>1 DEF PlaceAccepted, PlaceAmbiguous, TakeOrder, brokerVars,
     SessionInv, SessionTypeOK, BrokerTypeOK
<1> QED
  BY <1>2, Here DEF Local, Submitting

\* A cancel request follows its intent (session.py:309-313).
LEMMA CancelledAhead ==
  ASSUME SessionInv, NEW e \in Exec, CancelSend(e)
  PROVE  disk[e].cancel /\ "cancel_intent" \in disk[e].facts
  BY Here DEF CancelSend, Local

=============================================================================
