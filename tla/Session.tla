------------------------------- MODULE Session ------------------------------
(***************************************************************************)
(* ExecutionSession (session.py) and its ExecutionJournal (journal.py),    *)
(* for any number of executions, over the MiniQMT broker of Broker.tla.    *)
(*                                                                         *)
(* One action is the code between two durable writes or broker calls, so   *)
(* that a crash can fall between any two of them; pc[e] is where execution *)
(* e stands.  mem[e] is the session's snapshot and the journal payload in  *)
(* memory, disk[e] the journal file.  A write replaces the file by the     *)
(* payload (os.replace, journal.py:250), or raises and leaves the file     *)
(* alone while the payload in memory has already changed.                  *)
(***************************************************************************)
EXTENDS TradeMachine, Broker

CONSTANTS Faults,         \* what else may go wrong, see FaultKinds
          FaultyWrites    \* the write sites at which os.replace may fail

VARIABLES pc,             \* where the execution's process stands
          open,           \* ExecutionSession._open
          mem,            \* snapshot and journal payload in memory
          disk,           \* the journal file
          req,            \* the request of the submit() in progress
          seen            \* the broker order being applied

sessionVars == << pc, open, mem, disk, req, seen >>

FaultKinds == { "crash", "guard", "hook", "submit", "db" }

\* Each of these steps performs one journal write.
WriteSites ==
  { "opening", "recover", "apply", "event", "idle", "begin", "guard", "intent",
    "intentEvent", "preRejected", "preAborted", "subRejected", "subAmbiguous",
    "persistId", "subAccepted", "poll", "cancelRequest", "cancelSent",
    "cancelRefused", "clear" }

PC ==
  WriteSites \cup
  { "down", "ret", "coord", "sidecar", "place", "cancelSend",
    "prepare", "sidecarRelease", "rejectRelease", "syncUpdate", "syncRestore" }

ASSUME SessionAssumption ==
  /\ Faults \subseteq FaultKinds
  /\ FaultyWrites \subseteq WriteSites

(***************************************************************************)
(* The journal payload: machine snapshot and data.  oid is                 *)
(* broker_order_id, filled last_observation.filled_qty (0 when there is no *)
(* observation, as in session.py:385), used the used_client_order_ids.     *)
(***************************************************************************)
Journal ==
  [ state  : TradeState,
    facts  : SUBSET SafetyFacts,
    intent : Request \cup { None },
    oid    : Request \cup { None },
    cancel : BOOLEAN,
    filled : 0 .. Lots,
    used   : SUBSET Request ]

EmptyJournal ==
  [ state |-> "IDLE", facts |-> {}, intent |-> None, oid |-> None,
    cancel |-> FALSE, filled |-> 0, used |-> {} ]

NothingSeen == [status |-> "unknown", filled |-> 0]

SessionInit ==
  /\ BrokerInit
  /\ pc = [e \in Exec |-> "down"]
  /\ open = [e \in Exec |-> FALSE]
  /\ mem = [e \in Exec |-> EmptyJournal]
  /\ disk = [e \in Exec |-> EmptyJournal]
  /\ req = [e \in Exec |-> None]
  /\ seen = [e \in Exec |-> NothingSeen]

(***************************************************************************)
(* Control.  An exception inside open() releases the mutex and leaves an   *)
(* object that can only be discarded; in any other call it returns to the  *)
(* caller with the session still open.                                     *)
(***************************************************************************)
Goto(e, place) == pc' = [pc EXCEPT ![e] = place]

RaiseWith(e, m) ==
  /\ Goto(e, IF open[e] THEN "idle" ELSE "down")
  /\ mem' = [mem EXCEPT ![e] = IF open[e] THEN m ELSE EmptyJournal]
  /\ UNCHANGED << open, disk >>

Raise(e) == RaiseWith(e, mem[e])

\* ExecutionJournal._write() of payload m.
Write(e, m, next) ==
  \/ /\ mem' = [mem EXCEPT ![e] = m]
     /\ disk' = [disk EXCEPT ![e] = m]
     /\ Goto(e, next)
     /\ UNCHANGED open
  \/ /\ pc[e] \in FaultyWrites
     /\ RaiseWith(e, m)

\* _transition(): advance() in memory, then the journal.
Transition(e, m, event, next) ==
  IF CanAdvance(m, event) THEN Write(e, advance(m, event), next) ELSE Raise(e)

\* _to_unknown()
ToUnknown(e) ==
  Transition(e, mem[e],
             IF "QUERY_AMBIGUOUS" \in Declared[mem[e].state]
             THEN "QUERY_AMBIGUOUS" ELSE "FATAL",
             "ret")

(***************************************************************************)
(* open().  The mutex is the guard pc[e] = "down": one process at a time   *)
(* has the execution.  An open that stops before its first transition      *)
(* (mutex busy, journal unreadable, guard not ready) changes nothing.      *)
(***************************************************************************)
Open(e) ==
  /\ pc[e] = "down"
  /\ assert_invariants(disk[e])
  /\ mem' = [mem EXCEPT ![e] = disk[e]]
  /\ Goto(e, "opening")
  /\ UNCHANGED << open, disk, req, seen, brokerVars >>

OpenFirst(e) ==
  /\ pc[e] = "opening" /\ mem[e].state = "IDLE"
  /\ Transition(e, mem[e], "SESSION_READY", "ret")
  /\ UNCHANGED << req, seen, brokerVars >>

OpenSettled(e) ==
  /\ pc[e] = "opening"
  /\ mem[e].state \in { "WAIT_TRIGGER", "FILLED", "CANCELLED", "REJECTED", "FAILED" }
  /\ Goto(e, "ret")
  /\ UNCHANGED << open, mem, disk, req, seen, brokerVars >>

OpenInFlight(e) ==
  /\ pc[e] = "opening" /\ mem[e].state \in InFlightStates
  /\ Transition(e, mem[e], "RESTART_RECOVERY", "recover")
  /\ UNCHANGED << req, seen, brokerVars >>

OpenUnknown(e) ==
  /\ pc[e] = "opening" /\ mem[e].state = "UNKNOWN"
  /\ Goto(e, "recover")
  /\ UNCHANGED << open, mem, disk, req, seen, brokerVars >>

OpenInterrupted(e) ==
  /\ pc[e] = "opening" /\ mem[e].state \in { "TRIGGER", "PRE_CHECK" }
  /\ Transition(e, mem[e], "FATAL", "ret")
  /\ UNCHANGED << req, seen, brokerVars >>

(***************************************************************************)
(* _apply_observation(): identity, quantity, the observation's own write,  *)
(* then (a second write) the event it means.                               *)
(***************************************************************************)
ApplyObservation(e, r, order) ==
  /\ IF mem[e].intent # r THEN Raise(e)
     ELSE IF order.filled < mem[e].filled THEN Transition(e, mem[e], "FATAL", "ret")
     ELSE Write(e, [mem[e] EXCEPT !.filled = order.filled], "event")
  /\ seen' = [seen EXCEPT ![e] = order]

ObservedEvent(e) ==
  /\ pc[e] = "event"
  /\ LET event == event_for_observation(mem[e].state, seen[e].status) IN
     CASE event = "NONE" -> Goto(e, "ret") /\ UNCHANGED << open, mem, disk >>
       [] event = "AMBIGUOUS" -> ToUnknown(e)
       [] OTHER -> Transition(e, mem[e], event, "ret")
  /\ seen' = [seen EXCEPT ![e] = NothingSeen]
  /\ UNCHANGED << req, brokerVars >>

(***************************************************************************)
(* _recover_unknown(): by the durable broker order id, else by the one     *)
(* order with the intent's identity, whose id is written before it is      *)
(* applied.  Anything else is RECOVERY_FAILED.                             *)
(***************************************************************************)
Recover(e) ==
  /\ pc[e] = "recover"
  /\ LET m == mem[e] IN
     \/ /\ m.oid # None
        /\ \E order \in Reports(m.oid) : ApplyObservation(e, m.oid, order)
     \/ /\ m.oid = None /\ m.intent # None /\ placed[m.intent] = 1
        /\ \E order \in Reports(m.intent) :
             /\ Write(e, [m EXCEPT !.oid = m.intent], "apply")
             /\ seen' = [seen EXCEPT ![e] = order]
     \/ /\ \/ m.oid # None /\ NoAnswer(m.oid)
           \/ m.oid = None /\ m.intent # None
              /\ (NoAnswer(m.intent) \/ placed[m.intent] # 1)
           \/ m.oid = None /\ m.intent = None
        /\ Transition(e, m, "RECOVERY_FAILED", "ret")
        /\ UNCHANGED seen
  /\ UNCHANGED << req, brokerVars >>

ApplyRecovered(e) ==
  /\ pc[e] = "apply"
  /\ ApplyObservation(e, mem[e].oid, seen[e])
  /\ UNCHANGED << req, brokerVars >>

\* Mutant of CallPoll: poll() does not recover an UNKNOWN without an order id.
PollNeedsOrderId(e) ==
  /\ pc[e] = "idle"
  /\ mem[e].oid # None /\ Goto(e, "poll")
  /\ UNCHANGED << open, mem, disk, req, seen, brokerVars >>

(***************************************************************************)
(* poll() and reconcile().  A call that raises before it changes anything  *)
(* is not a step.                                                          *)
(***************************************************************************)
CallPoll(e) ==
  /\ pc[e] = "idle"
  /\ \/ mem[e].oid # None /\ Goto(e, "poll")
     \/ mem[e].oid = None /\ mem[e].state = "UNKNOWN" /\ Goto(e, "recover")
  /\ UNCHANGED << open, mem, disk, req, seen, brokerVars >>

CallReconcile(e) ==
  /\ pc[e] = "idle"
  /\ LET m == mem[e] IN
     \/ m.state = "UNKNOWN" /\ Goto(e, "recover")
     \/ m.state \in InFlightStates \ { "SUBMITTED" } /\ m.oid # None /\ Goto(e, "poll")
     \/ m.state \notin (InFlightStates \ { "SUBMITTED" }) \cup { "UNKNOWN" } /\ Goto(e, "ret")
  /\ UNCHANGED << open, mem, disk, req, seen, brokerVars >>

PollAnswered(e) ==
  /\ pc[e] = "poll"
  /\ \E order \in Reports(mem[e].oid) : ApplyObservation(e, mem[e].oid, order)
  /\ UNCHANGED << req, brokerVars >>

PollUnanswered(e) ==
  /\ pc[e] = "poll"
  /\ NoAnswer(mem[e].oid)
  /\ ToUnknown(e)
  /\ UNCHANGED << req, seen, brokerVars >>

-----------------------------------------------------------------------------
(***************************************************************************)
(* submit(): durable intent -> coordination -> project sidecar -> broker.  *)
(***************************************************************************)
CallSubmit(e, r) ==
  /\ pc[e] = "idle"
  /\ mem[e].state = "WAIT_TRIGGER"
  /\ Owner[r] = e /\ r \notin mem[e].used
  /\ Transition(e, mem[e], "TRIGGERED", "begin")
  /\ req' = [req EXCEPT ![e] = r]
  /\ UNCHANGED << seen, brokerVars >>

BeginPrecheck(e) ==
  /\ pc[e] = "begin"
  /\ Transition(e, mem[e], "BEGIN_PRECHECK", "guard")
  /\ UNCHANGED << req, seen, brokerVars >>

\* guard.verify(): allowed, refused, or an exception that leaves PRE_CHECK.
Precheck(e) ==
  /\ pc[e] = "guard"
  /\ \/ Transition(e, mem[e], "PRECHECK_VERIFIED", "intent")
     \/ "guard" \in Faults /\ Transition(e, mem[e], "PRECHECK_REJECTED", "ret")
     \/ "guard" \in Faults /\ Raise(e)
  /\ UNCHANGED << req, seen, brokerVars >>

PersistIntent(e) ==
  /\ pc[e] = "intent"
  /\ IF mem[e].intent # None \/ req[e] \in mem[e].used THEN Raise(e)
     ELSE Write(e, [mem[e] EXCEPT !.intent = req[e], !.used = @ \cup { req[e] }],
                "intentEvent")
  /\ UNCHANGED << req, seen, brokerVars >>

IntentPersisted(e) ==
  /\ pc[e] = "intentEvent"
  /\ Transition(e, mem[e], "INTENT_PERSISTED", "coord")
  /\ UNCHANGED << req, seen, brokerVars >>

\* Only a coordinated session is refused here.
PreBrokerRejected(e) ==
  /\ pc[e] = "preRejected"
  /\ Transition(e, mem[e], "PRE_BROKER_REJECTED", "ret")
  /\ UNCHANGED << req, seen, brokerVars >>

\* The hook's exception is raised again after the transition.
PreBrokerAborted(e) ==
  /\ pc[e] = "preAborted"
  /\ Transition(e, mem[e], "PRE_BROKER_ABORTED", "idle")
  /\ UNCHANGED << req, seen, brokerVars >>

(***************************************************************************)
(* broker.place_order() through the adapter: an order id, or an ambiguous  *)
(* outcome (order_stock raised or returned nonsense: the broker has the    *)
(* order, will have it, or never will), or a definitive refusal.           *)
(***************************************************************************)
PlaceAccepted(e) ==
  /\ pc[e] = "place"
  /\ TakeOrder(req[e], "UNREPORTED")
  /\ Goto(e, "persistId")
  /\ UNCHANGED << open, mem, disk, req, seen >>

\* Mutant of PlaceAmbiguous: an exception of order_stock() is a refusal.
AmbiguityIsRefusal(e) ==
  /\ pc[e] = "place" /\ "submit" \in Faults
  /\ \/ TakeOrder(req[e], "UNREPORTED")
     \/ TakeOrder(req[e], "IN_FLIGHT")
     \/ UNCHANGED brokerVars
  /\ Goto(e, "subRejected")
  /\ UNCHANGED << open, mem, disk, req, seen >>

PlaceAmbiguous(e) ==
  /\ pc[e] = "place" /\ "submit" \in Faults
  /\ \/ TakeOrder(req[e], "UNREPORTED")
     \/ TakeOrder(req[e], "IN_FLIGHT")
     \/ UNCHANGED brokerVars
  /\ Goto(e, "subAmbiguous")
  /\ UNCHANGED << open, mem, disk, req, seen >>

PlaceRejected(e) ==
  /\ pc[e] = "place" /\ "submit" \in Faults
  /\ Goto(e, "subRejected")
  /\ UNCHANGED << open, mem, disk, req, seen, brokerVars >>

SubmitRejected(e) ==
  /\ pc[e] = "subRejected"
  /\ Transition(e, mem[e], "SUBMIT_REJECTED", "ret")
  /\ UNCHANGED << req, seen, brokerVars >>

SubmitAmbiguous(e) ==
  /\ pc[e] = "subAmbiguous"
  /\ Transition(e, mem[e], "SUBMIT_AMBIGUOUS", "ret")
  /\ UNCHANGED << req, seen, brokerVars >>

PersistBrokerOrderId(e) ==
  /\ pc[e] = "persistId"
  /\ IF mem[e].oid \notin { None, req[e] } THEN Raise(e)
     ELSE Write(e, [mem[e] EXCEPT !.oid = req[e]], "subAccepted")
  /\ UNCHANGED << req, seen, brokerVars >>

SubmitAccepted(e) ==
  /\ pc[e] = "subAccepted"
  /\ Transition(e, mem[e], "SUBMIT_ACCEPTED", "poll")
  /\ UNCHANGED << req, seen, brokerVars >>

-----------------------------------------------------------------------------
\* Mutant of CallCancel: the request goes out before CANCEL_REQUESTED.
CancelBeforeTransition(e) ==
  /\ pc[e] = "idle"
  /\ mem[e].state \in { "ACCEPTED", "WORKING", "PARTIALLY_FILLED" }
  /\ mem[e].oid # None
  /\ Write(e, [mem[e] EXCEPT !.cancel = TRUE], "cancelSend")
  /\ UNCHANGED << req, seen, brokerVars >>

(***************************************************************************)
(* cancel(): durable cancel intent, CANCEL_REQUESTED, the hook, the        *)
(* request to the broker, its outcome, and a poll.                         *)
(***************************************************************************)
CallCancel(e) ==
  /\ pc[e] = "idle"
  /\ mem[e].state \in { "ACCEPTED", "WORKING", "PARTIALLY_FILLED" }
  /\ mem[e].oid # None
  /\ Write(e, [mem[e] EXCEPT !.cancel = TRUE], "cancelRequest")
  /\ UNCHANGED << req, seen, brokerVars >>

CancelRequested(e) ==
  /\ pc[e] = "cancelRequest"
  /\ Transition(e, mem[e], "CANCEL_REQUESTED", "cancelSend")
  /\ UNCHANGED << req, seen, brokerVars >>

\* A refused or failed cancel call may or may not have reached the broker.
CancelSend(e) ==
  /\ pc[e] = "cancelSend"
  /\ \/ TakeCancel(mem[e].oid) /\ Goto(e, "cancelSent")
     \/ "submit" \in Faults /\ Goto(e, "cancelRefused")
        /\ (TakeCancel(mem[e].oid) \/ UNCHANGED brokerVars)
     \/ "hook" \in Faults /\ Goto(e, "idle") /\ UNCHANGED brokerVars
  /\ UNCHANGED << open, mem, disk, req, seen >>

CancelSent(e) ==
  /\ pc[e] = "cancelSent"
  /\ Transition(e, mem[e], "CANCEL_SENT", "poll")
  /\ UNCHANGED << req, seen, brokerVars >>

CancelRefused(e) ==
  /\ pc[e] = "cancelRefused"
  /\ Transition(e, mem[e], "CANCEL_REQUEST_REJECTED", "poll")
  /\ UNCHANGED << req, seen, brokerVars >>

(***************************************************************************)
(* next_cycle(): the transition, then clear_cycle_data(), two writes.      *)
(***************************************************************************)
CallNextCycle(e) ==
  /\ pc[e] = "idle"
  /\ "NEXT_CYCLE" \in Declared[mem[e].state]
  /\ Transition(e, mem[e], "NEXT_CYCLE", "clear")
  /\ UNCHANGED << req, seen, brokerVars >>

\* Mutants of ClearCycleData: an empty object instead of null, the used ids
\* forgotten, the facts reset without an event.
ClearLeavesObject(e) ==
  /\ pc[e] = "clear"
  /\ Write(e, [mem[e] EXCEPT !.intent = {}, !.oid = None, !.cancel = FALSE, !.filled = 0], "idle")
  /\ UNCHANGED << req, seen, brokerVars >>

ClearForgetsUsed(e) ==
  /\ pc[e] = "clear"
  /\ Write(e, [mem[e] EXCEPT !.intent = None, !.oid = None, !.cancel = FALSE,
                             !.filled = 0, !.used = {}],
           "idle")
  /\ UNCHANGED << req, seen, brokerVars >>

ClearResetsFacts(e) ==
  /\ pc[e] = "clear"
  /\ Write(e, [mem[e] EXCEPT !.intent = None, !.oid = None, !.cancel = FALSE,
                             !.filled = 0, !.facts = {}],
           "idle")
  /\ UNCHANGED << req, seen, brokerVars >>

ClearCycleData(e) ==
  /\ pc[e] = "clear"
  /\ Write(e, [mem[e] EXCEPT !.intent = None, !.oid = None, !.cancel = FALSE,
                             !.filled = 0],
           "idle")
  /\ UNCHANGED << req, seen, brokerVars >>

\* close(), or the process dies: memory and mutex are gone, the file stays.
Stop(e) ==
  /\ pc[e] = "idle" \/ (pc[e] # "down" /\ "crash" \in Faults)
  /\ Goto(e, "down")
  /\ open' = [open EXCEPT ![e] = FALSE]
  /\ mem' = [mem EXCEPT ![e] = EmptyJournal]
  /\ req' = [req EXCEPT ![e] = None]
  /\ seen' = [seen EXCEPT ![e] = NothingSeen]
  /\ UNCHANGED << disk, brokerVars >>

-----------------------------------------------------------------------------
(***************************************************************************)
(* The hooks of a plain session are no-ops or project code, and a call     *)
(* that returns normally returns to its caller.                            *)
(***************************************************************************)
NoCoordination(e) ==
  /\ pc[e] = "coord"
  /\ Goto(e, "sidecar")
  /\ UNCHANGED << open, mem, disk, req, seen, brokerVars >>

Sidecar(e) ==
  /\ pc[e] = "sidecar"
  /\ \/ Goto(e, "place")
     \/ "hook" \in Faults /\ Goto(e, "preAborted")
  /\ UNCHANGED << open, mem, disk, req, seen, brokerVars >>

Return(e) ==
  /\ pc[e] = "ret"
  /\ open' = [open EXCEPT ![e] = TRUE]
  /\ Goto(e, "idle")
  /\ UNCHANGED << mem, disk, req, seen, brokerVars >>

\* The steps every session takes, plain or coordinated.
SessionStep(e) ==
  \/ OpenFirst(e) \/ OpenSettled(e) \/ OpenInFlight(e) \/ OpenUnknown(e)
  \/ OpenInterrupted(e) \/ Recover(e) \/ ApplyRecovered(e) \/ ObservedEvent(e)
  \/ PollAnswered(e) \/ PollUnanswered(e)
  \/ BeginPrecheck(e) \/ Precheck(e) \/ PersistIntent(e)
  \/ IntentPersisted(e) \/ PreBrokerAborted(e)
  \/ PlaceAccepted(e) \/ PlaceAmbiguous(e) \/ SubmitRejected(e)
  \/ SubmitAmbiguous(e) \/ PersistBrokerOrderId(e) \/ SubmitAccepted(e)
  \/ CancelRequested(e) \/ CancelSend(e) \/ CancelSent(e) \/ CancelRefused(e)
  \/ ClearCycleData(e)

Call(e) ==
  \/ Open(e) \/ CallPoll(e) \/ CallReconcile(e) \/ CallCancel(e)
  \/ CallNextCycle(e) \/ Stop(e) \/ \E r \in Request : CallSubmit(e, r)

-----------------------------------------------------------------------------
SessionTypeOK ==
  /\ BrokerTypeOK
  /\ pc \in [Exec -> PC]
  /\ open \in [Exec -> BOOLEAN]
  /\ mem \in [Exec -> Journal]
  /\ disk \in [Exec -> Journal]
  /\ req \in [Exec -> Request \cup { None }]
  /\ seen \in [Exec -> BrokerOrder]

(***************************************************************************)
(* The broker takes an order for a logical execution at most once, over    *)
(* all crashes, restarts, ambiguous submissions and failed writes: nothing *)
(* in submit(), open() or recovery ever resends                            *)
(* (session.py:249-263, 352-380).                                          *)
(***************************************************************************)
AtMostOnePlacement == \A r \in Request : placed[r] <= 1

(***************************************************************************)
(* An order that is or may become active at the broker is never forgotten: *)
(* the journal file of its execution still carries its intent and a        *)
(* snapshot whose finality is not RESOLVED, so that a crash at this very   *)
(* moment leads to recovery; and while the session is up its memory agrees *)
(* (session.py:202-263, finality.py:35-60).                                *)
(***************************************************************************)
Tracks(journal, r) ==
  journal.intent = r /\ execution_finality(journal) # "RESOLVED"

LiveOrderIsTracked ==
  \A r \in Request : Live(r) =>
    /\ Tracks(disk[Owner[r]], r)
    /\ pc[Owner[r]] # "down" => Tracks(mem[Owner[r]], r)

(***************************************************************************)
(* Write-ahead: when the broker takes an order, the file already holds its *)
(* intent and the SUBMITTED snapshot; when a cancel request goes out, it   *)
(* already holds the cancel intent and the fact (session.py:202-250,       *)
(* 309-313).                                                               *)
(***************************************************************************)
DurableBeforeBroker ==
  [][ /\ \A r \in Request : placed'[r] # placed[r] =>
           disk[Owner[r]].intent = r /\ disk[Owner[r]].state = "SUBMITTED"
      /\ \A e \in Exec : CancelSend(e) /\ pc'[e] # "idle" =>
           disk[e].cancel /\ "cancel_intent" \in disk[e].facts
    ]_<< brokerVars, sessionVars >>

(***************************************************************************)
(* A terminal state is the broker's truth: an execution the session or its *)
(* journal file calls FILLED or CANCELLED has exactly that order at the    *)
(* broker, whatever stale, torn or ambiguous answers came before           *)
(* (recovery.py:38-113, adapter.py:233-283).                               *)
(***************************************************************************)
TerminalIsTrue ==
  \A e \in Exec : \A journal \in { mem[e], disk[e] } :
    journal.intent # None =>
      /\ journal.state = "FILLED" => orders[journal.intent] = "SUCCEEDED"
      /\ journal.state = "CANCELLED" => orders[journal.intent] \in { "CANCELED", "PART_CANCEL" }

(***************************************************************************)
(* Whatever moment the process stops at, the file it leaves can be opened: *)
(* the snapshot passes the check of journal.py:89, and the transition      *)
(* open() makes from it (session.py:128-159) is one advance() accepts.     *)
(***************************************************************************)
JournalReopens ==
  \A e \in Exec :
    /\ assert_invariants(disk[e])
    /\ disk[e].state \in InFlightStates => CanAdvance(disk[e], "RESTART_RECOVERY")
    /\ disk[e].state = "UNKNOWN" => CanAdvance(disk[e], "RECOVERY_FAILED")
    /\ disk[e].state \in { "TRIGGER", "PRE_CHECK" } => CanAdvance(disk[e], "FATAL")

(***************************************************************************)
(* When writes do not fail, the journal file is a run of the execution     *)
(* machine: every change of its snapshot is one advance() step, across     *)
(* crashes and restarts too, so no transition is lost or made twice on     *)
(* disk (session.py:447-455, journal.py:92-110).                           *)
(***************************************************************************)
JournalSnapshot(e) == [state |-> disk[e].state, facts |-> disk[e].facts]

Machine(e) == INSTANCE ExecutionMachine WITH snapshot <- JournalSnapshot(e)

JournalRefinesMachine ==
  /\ \A e \in Exec : Machine(e)!Init
  /\ [][ \A e \in Exec : Machine(e)!Next \/ UNCHANGED JournalSnapshot(e)
    ]_<< brokerVars, sessionVars >>

=============================================================================
