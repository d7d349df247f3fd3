------------------------------ MODULE Runtime -------------------------------
(***************************************************************************)
(* MiniQmtRuntime (miniqmt/runtime.py): two threads that share the health  *)
(* flags of the order path without a lock.  The application's thread runs  *)
(* connect(), open(), recover_after_disconnect(), confirm_live() and       *)
(* close(); the daemon thread of the event queue runs handle_callback().   *)
(* The flags are the _RuntimeSignals, the two flags of the broker adapter  *)
(* (miniqmt/adapter.py), the state of the queue and the live gate          *)
(* (miniqmt/runtime_gate.py).                                              *)
(*                                                                         *)
(* Each statement that writes a flag is a step of its own; adjacent writes *)
(* of False by the application are one, since the other thread only ever   *)
(* writes False too.  execution_healthy() reads the flags one by one, but  *)
(* while the application is inside submit() they can only become False,    *)
(* and the handler clears the signals before the adapter, so a check that  *)
(* passes would have passed in the state in which it read the signals.     *)
(*                                                                         *)
(* submit(), poll(), cancel() and next_cycle() only delegate to the        *)
(* session (module Session) and change no flag.  Calls to the trader and   *)
(* the session either return or raise; the account queries are those of    *)
(* miniqmt/binding.py, and the trader may answer anything or nothing.  The *)
(* methods of the event queue are atomic here; their races are the subject *)
(* of module EventQueue.  The lock is the runtime mutex of the exclusive   *)
(* mode; module RuntimeFleet has the shared mode.                          *)
(***************************************************************************)
EXTENDS Naturals, Sequences, FiniteSets

CONSTANTS Environments,   \* the environments of the configuration
          InfoAnswers,    \* query_account_infos(): rows with account and type
          StatusAnswers,  \* query_account_status(): rows with status too
          Attempts,       \* query_attempts
          MaxSize,        \* event_queue_size
          MaxEvents       \* bound: callbacks of one behaviour

ASSUME RuntimeAssumption ==
  /\ Environments \subseteq { "simulation", "live" }
  /\ Attempts \in Nat \ {0}
  /\ MaxSize \in Nat \ {0}
  /\ MaxEvents \in Nat

VARIABLES environment,    \* config.environment
          life,           \* "new" until connect() has built the runtime
          call, at,       \* the method the application is in, and its next statement
          attempt,        \* of the account query that this statement makes
          held,           \* what must be given back: lock, trader, session; "orphan"
                          \* is a trader that was to stop and runs on
          signals,        \* _RuntimeSignals
          adapter,        \* _transport_connected and _recovery_ready
          confirmed,      \* the live gate
          queueState, queue,
          consumer, item, \* the daemon thread: its next statement and its event
          seen,           \* whether it found holder["runtime"]
          emitted         \* callbacks so far

VARIABLES chain,          \* history: the recovery steps made since they were last lost
          excused,        \* history: the steps that a True or open() stands in for
          fresh           \* history: confirmed since the last recovery, if there was one

appVars == << life, call, at, attempt, held >>
flagVars == << signals, adapter, confirmed >>
queueVars == << queueState, queue, consumer, item, seen, emitted >>
historyVars == << chain, excused, fresh >>
vars == << environment, appVars, flagVars, queueVars, historyVars >>

(***************************************************************************)
(* The statements of each method, in order.  connect() goes on with        *)
(* open() when auto_open is set.  An exception of connect() and close()    *)
(* give the resources back in the same order.                              *)
(***************************************************************************)
OpenScript ==
  << "verify", "session_open", "transport", "account", "connected",
     "check", "ready" >>

Teardown == << "end_session", "stop_queue", "end_trader" >>

Script ==
  [ none    |-> << >>,
    connect |-> << "lock", "start", "trader", "link", "transport", "infos",
                   "select", "subscribe", "account", "build" >> \o OpenScript,
    open    |-> OpenScript,
    recover |-> << "queue", "link", "transport", "connected", "verify",
                   "subscribe", "account", "reconcile", "evidence", "check", "ready",
                   "token" >>,
    close   |-> Teardown,
    failing |-> Teardown ]

\* The statement that the application executes next.
Statement(s) == at <= Len(Script[call]) /\ Script[call][at] = s

\* The documented recovery of the order path (docs/SPECIFICATION.md:305-313).
\* A signal that becomes True stands in for its step when that was lost since it
\* was made, and an open() that completes for every step that it did not make.
AllSteps == { "connect", "account", "subscribe", "reconcile", "evidence" }

Init ==
  /\ environment \in Environments
  /\ life = "new" /\ call = "connect" /\ at = 1 /\ attempt = 1 /\ held = {}
  /\ signals = [transport |-> FALSE, account |-> FALSE]
  /\ adapter = [transport |-> TRUE, ready |-> FALSE]
  /\ confirmed = (environment = "simulation")
  /\ queueState = "new" /\ queue = << >>
  /\ consumer = "none" /\ item = "observed" /\ seen = FALSE /\ emitted = 0
  /\ chain = {} /\ excused = {} /\ fresh = TRUE

execution_allowed == environment = "live" => confirmed

health_probe == queueState = "running" /\ signals.transport /\ signals.account

execution_healthy ==
  adapter.transport /\ adapter.ready /\ health_probe /\ execution_allowed

revoke == confirmed' = (confirmed /\ environment # "live")

-----------------------------------------------------------------------------
(***************************************************************************)
(* The application's thread.                                               *)
(***************************************************************************)
Continue == at' = at + 1 /\ attempt' = 1 /\ UNCHANGED << life, call >>

Return == call' = "none" /\ at' = 1 /\ attempt' = 1 /\ UNCHANGED life

\* An exception: connect() tears down, the other methods let it through.
Raise ==
  /\ call' = IF call = "connect" THEN "failing" ELSE "none"
  /\ at' = 1 /\ attempt' = 1
  /\ UNCHANGED << life, held, flagVars, queueVars, historyVars, environment >>

acquire_lock ==
  /\ Statement("lock")
  /\ Continue
  /\ held' = held \cup { "lock" }
  /\ UNCHANGED << flagVars, queueVars, historyVars, environment >>

start_queue ==
  /\ Statement("start")
  /\ Continue
  /\ queueState' = "running" /\ consumer' = "get"
  /\ UNCHANGED << held, flagVars, queue, item, seen, emitted, historyVars, environment >>

\* The factory, register_callback() and start().
start_trader ==
  /\ Statement("trader")
  /\ Continue
  /\ held' = held \cup { "trader" }
  /\ UNCHANGED << flagVars, queueVars, historyVars, environment >>

\* True is written even when the handler has just recorded the opposite.
set_transport ==
  /\ Statement("transport")
  /\ Continue
  /\ signals' = [transport |-> TRUE, account |-> signals.account]
  /\ excused' = excused \cup ({ "connect" } \ chain)
  /\ UNCHANGED << held, adapter, confirmed, queueVars, chain, fresh, environment >>

set_account ==
  /\ Statement("account")
  /\ Continue
  /\ signals' = [transport |-> signals.transport, account |-> TRUE]
  /\ excused' = excused \cup ({ "account" } \ chain)
  /\ UNCHANGED << held, adapter, confirmed, queueVars, chain, fresh, environment >>

\* An outside call that succeeds.  reconcile() needs an open session.
OutsideStep(statement, step) ==
  /\ Statement(statement)
  /\ statement = "reconcile" => "session" \in held
  /\ Continue
  /\ chain' = chain \cup { step } /\ excused' = excused \ { step }
  /\ UNCHANGED << held, flagVars, queueVars, fresh, environment >>

Outside ==
  \/ OutsideStep("link", "connect")
  \/ OutsideStep("subscribe", "subscribe")
  \/ OutsideStep("reconcile", "reconcile")
  \/ OutsideStep("evidence", "evidence")

\* The broker adapter, the session, the runtime; auto_open may be off.
build_runtime ==
  /\ Statement("build")
  /\ life' = "up"
  /\ \/ call' = "connect" /\ at' = at + 1
     \/ call' = "none" /\ at' = 1
  /\ UNCHANGED << attempt, held, flagVars, queueVars, historyVars, environment >>

(***************************************************************************)
(* The account queries.                                                    *)
(***************************************************************************)
Asking == Statement("infos") \/ Statement("select") \/ Statement("verify")

\* Mutant of strict_non_none_query: after the last attempt comes the first.
QueryForEver ==
  /\ Asking
  /\ attempt' = (attempt % Attempts) + 1
  /\ UNCHANGED << life, call, at, held, flagVars, queueVars, historyVars, environment >>

\* None or an exception: another attempt, or the last exception leaves the method.
strict_non_none_query ==
  /\ Asking
  /\ \/ /\ attempt < Attempts
        /\ attempt' = attempt + 1
        /\ UNCHANGED << life, call, at, held, flagVars, queueVars, historyVars, environment >>
     \/ attempt = Attempts /\ Raise

query_account_infos ==
  /\ Statement("infos")
  /\ Continue
  /\ UNCHANGED << held, flagVars, queueVars, historyVars, environment >>

candidates(infos) ==
  { i \in DOMAIN infos : infos[i].account = "bound" /\ infos[i].type = "security" }

status_matches(statuses) ==
  { i \in DOMAIN statuses :
      statuses[i] = [account |-> "bound", type |-> "security", status |-> "OK"] }

\* The infos are the answer to the query before; nothing reads them in between.
select_bound_account ==
  /\ Statement("select")
  /\ \E infos \in InfoAnswers, statuses \in StatusAnswers :
       IF Cardinality(candidates(infos)) = 1 /\ Cardinality(status_matches(statuses)) = 1
       THEN OutsideStep("select", "account")
       ELSE Raise

verify_bound_account_healthy ==
  /\ Statement("verify")
  /\ \E statuses \in StatusAnswers :
       IF Cardinality(status_matches(statuses)) = 1
       THEN OutsideStep("verify", "account")
       ELSE Raise

\* session.open(): nothing but a snapshot when the session is open already.
session_open ==
  /\ Statement("session_open")
  /\ Continue
  /\ held' = held \cup { "session" }
  /\ IF "session" \in held THEN UNCHANGED << chain, excused >>
     ELSE /\ chain' = chain \cup { "reconcile", "evidence" }
          /\ excused' = excused \ { "reconcile", "evidence" }
  /\ UNCHANGED << flagVars, queueVars, fresh, environment >>

\* mark_transport_connected(): two writes that commute with the handler's.
mark_connected ==
  /\ Statement("connected")
  /\ Continue
  /\ adapter' = [transport |-> TRUE, ready |-> FALSE]
  /\ UNCHANGED << held, signals, confirmed, queueVars, historyVars, environment >>

\* mark_recovery_complete() raises when the transport is gone, then writes.
complete_check ==
  /\ Statement("check") /\ adapter.transport
  /\ Continue
  /\ UNCHANGED << held, flagVars, queueVars, historyVars, environment >>

complete_set ==
  /\ Statement("ready")
  /\ IF call = "recover" THEN Continue ELSE Return
  /\ adapter' = [transport |-> adapter.transport, ready |-> TRUE]
  /\ fresh' = (call # "recover")
  /\ excused' = IF call = "recover" THEN excused ELSE excused \cup (AllSteps \ chain)
  /\ UNCHANGED << held, signals, confirmed, queueVars, chain, environment >>

\* A token counts for a recovery only when it is given once that is complete.
gate_confirm ==
  /\ environment = "live"
  /\ confirmed' = TRUE
  /\ fresh' = (fresh \/ (adapter.transport /\ adapter.ready))
  /\ UNCHANGED << held, signals, adapter, queueVars, chain, excused, environment >>

recover_token ==
  /\ Statement("token")
  /\ \/ environment = "live" /\ gate_confirm /\ Return
     \/ /\ environment = "simulation" /\ Return
        /\ UNCHANGED << held, flagVars, queueVars, historyVars, environment >>

confirm_live ==
  /\ call = "none" /\ life = "up"
  /\ gate_confirm
  /\ UNCHANGED << life, call, at, attempt >>

recover_queue ==
  /\ Statement("queue") /\ queueState = "running"
  /\ Continue
  /\ UNCHANGED << held, flagVars, queueVars, historyVars, environment >>

\* Everything that may raise: the calls that leave the process, and the checks.
MayRaise ==
  { "lock", "trader", "link", "subscribe", "session_open", "reconcile", "evidence" }

raise_outside == (\E s \in MayRaise : Statement(s)) /\ Raise

raise_check ==
  \/ Statement("queue") /\ queueState # "running" /\ Raise
  \/ Statement("check") /\ ~adapter.transport /\ Raise
  \/ Statement("token") /\ environment = "live" /\ Raise

(***************************************************************************)
(* The calls.  recover_after_disconnect() and close() begin with writes of *)
(* False.                                                                  *)
(***************************************************************************)
Begin(method) ==
  /\ call = "none" /\ life = "up"
  /\ call' = method /\ at' = 1
  /\ UNCHANGED << life, attempt, held, queueVars, environment >>

call_open == Begin("open") /\ UNCHANGED << flagVars, historyVars >>

\* Mutant of call_recover: the confirmation survives into the recovery.
RecoverKeepsToken ==
  /\ Begin("recover")
  /\ adapter' = [transport |-> adapter.transport, ready |-> FALSE]
  /\ signals' = [transport |-> FALSE, account |-> FALSE]
  /\ chain' = {} /\ excused' = {}
  /\ UNCHANGED << confirmed, fresh >>

\* chain and excused speak of the recovery that begins here.
call_recover ==
  /\ Begin("recover")
  /\ revoke
  /\ adapter' = [transport |-> adapter.transport, ready |-> FALSE]
  /\ signals' = [transport |-> FALSE, account |-> FALSE]
  /\ chain' = {} /\ excused' = {}
  /\ UNCHANGED fresh

\* The history ends with the runtime.
Forget == chain' = {} /\ excused' = {} /\ fresh' = TRUE

call_close ==
  /\ Begin("close")
  /\ revoke
  /\ adapter' = [transport |-> FALSE, ready |-> FALSE]
  /\ Forget
  /\ UNCHANGED signals

\* session.close() and unsubscribe(); what they raise does not stop close().
end_session ==
  /\ Statement("end_session")
  /\ Continue
  /\ held' = held \ { "session" }
  /\ UNCHANGED << flagVars, queueVars, historyVars, environment >>

Full == Len(queue) >= MaxSize

\* Mutant of stop_queue: join() has no timeout.
JoinWithoutTimeout ==
  /\ Statement("stop_queue")
  /\ IF queueState = "running"
     THEN /\ queueState' = "stopped"
          /\ queue' = IF Full THEN queue ELSE Append(queue, "STOP")
          /\ at' = at
     ELSE /\ consumer \in { "none", "ended" }
          /\ queueState' = IF queueState = "new" THEN "stopped" ELSE queueState
          /\ queue' = queue
          /\ at' = at + 1
  /\ UNCHANGED << life, call, attempt, held, flagVars, consumer, item, seen, emitted, historyVars,
                   environment >>

\* stop(), and join() that waits a second at most.
stop_queue ==
  /\ Statement("stop_queue")
  /\ Continue
  /\ queueState' = IF queueState \in { "new", "running" } THEN "stopped" ELSE queueState
  /\ queue' = IF queueState = "running" /\ ~Full THEN Append(queue, "STOP") ELSE queue
  /\ UNCHANGED << held, flagVars, consumer, item, seen, emitted, historyVars, environment >>

\* _best_effort_stop(): the trader ends, or stop() raises or is missing.
Stopped(kept) ==
  held' \in { kept, kept \cup { h \in { "orphan" } : "trader" \in held } }

\* Mutant of end_trader: the lock of a connect() that failed is forgotten.
FailureKeepsLock ==
  /\ Statement("end_trader")
  /\ Stopped(IF call = "close" THEN held \ { "trader", "lock" } ELSE held \ { "trader" })
  /\ life' = IF call = "close" THEN "closed" ELSE "failed"
  /\ call' = "none" /\ at' = 1
  /\ Forget
  /\ UNCHANGED << attempt, flagVars, queueVars, environment >>

\* stop() of the trader, then the lock, however stop() ends.
end_trader ==
  /\ Statement("end_trader")
  /\ Stopped(held \ { "trader", "lock" })
  /\ life' = IF call = "close" THEN "closed" ELSE "failed"
  /\ call' = "none" /\ at' = 1
  /\ Forget
  /\ UNCHANGED << attempt, flagVars, queueVars, environment >>

-----------------------------------------------------------------------------
(***************************************************************************)
(* QMT's callback thread: an event of the connection, of the account, an   *)
(* observation that concerns no flag, or one the bridge could not read.    *)
(***************************************************************************)
Event == { "disconnected", "bad_status", "observed", "malformed" }

try_emit(event) ==
  /\ emitted < MaxEvents
  /\ queueState = "running" /\ "trader" \in held
  /\ emitted' = emitted + 1
  /\ queueState' = IF Full THEN "failed" ELSE queueState
  /\ queue' = IF Full THEN queue ELSE Append(queue, event)
  /\ UNCHANGED << appVars, flagVars, consumer, item, seen, historyVars, environment >>

\* QmtCallbackBridge: whatever QMT calls becomes one event, never an exception.
bridge == \E event \in Event : try_emit(event)

(***************************************************************************)
(* The daemon thread: it looks for the runtime when it begins an event.    *)
(***************************************************************************)
take ==
  /\ consumer = "get" /\ queue # << >>
  /\ item' = IF Head(queue) = "STOP" THEN item ELSE Head(queue)
  /\ queue' = Tail(queue)
  /\ consumer' = IF Head(queue) = "STOP" THEN "ended" ELSE "handle"
  /\ seen' = (life = "up" /\ Head(queue) # "STOP")
  /\ UNCHANGED << appVars, flagVars, queueState, emitted, historyVars, environment >>

\* The handler raises: a malformed callback, or the observation handler.
handle_raises ==
  /\ \/ consumer = "handle" /\ item = "malformed"
     \/ consumer = "observe"
  /\ consumer' = "ended" /\ queueState' = "failed"
  /\ item' = "observed" /\ seen' = FALSE
  /\ UNCHANGED << appVars, flagVars, queue, emitted, historyVars, environment >>

HandlerStep(next) ==
  /\ consumer' = next
  /\ UNCHANGED << appVars, queueState, queue, item, seen, emitted, environment >>

\* Mutant of lose_transport: a disconnect is only recorded in the adapter.
DisconnectMarksAdapterOnly ==
  /\ consumer = "handle" /\ item = "disconnected"
  /\ HandlerStep("account")
  /\ chain' = {} /\ excused' = {}
  /\ UNCHANGED << flagVars, fresh >>

lose_transport ==
  /\ consumer = "handle" /\ item = "disconnected"
  /\ HandlerStep("account")
  /\ signals' = [transport |-> FALSE, account |-> signals.account]
  /\ chain' = {} /\ excused' = {}
  /\ UNCHANGED << adapter, confirmed, fresh >>

\* A bad status is looked at only when there is a runtime to compare it with.
lose_account ==
  /\ \/ consumer = "handle" /\ item = "bad_status" /\ seen
     \/ consumer = "account"
  /\ HandlerStep("gate")
  /\ signals' = [transport |-> signals.transport, account |-> FALSE]
  /\ chain' = chain \ { "account" } /\ excused' = excused \ { "account" }
  /\ UNCHANGED << adapter, confirmed, fresh >>

lose_gate ==
  /\ consumer = "gate"
  /\ HandlerStep(IF item = "bad_status" THEN "ready"
                 ELSE IF seen THEN "connected" ELSE "observe")
  /\ revoke
  /\ UNCHANGED << signals, adapter, historyVars >>

\* mark_disconnected() is two writes; mark_recovery_required() is the second.
lose_connected ==
  /\ consumer = "connected"
  /\ HandlerStep("ready")
  /\ adapter' = [transport |-> FALSE, ready |-> adapter.ready]
  /\ UNCHANGED << signals, confirmed, historyVars >>

lose_ready ==
  /\ consumer = "ready"
  /\ HandlerStep("observe")
  /\ adapter' = [transport |-> adapter.transport, ready |-> FALSE]
  /\ UNCHANGED << signals, confirmed, historyVars >>

ignore ==
  /\ consumer = "handle"
  /\ item = "observed" \/ (item = "bad_status" /\ ~seen)
  /\ HandlerStep("observe")
  /\ UNCHANGED << flagVars, historyVars >>

\* Mutant of observe: the thread ends when the queue is empty, without a failure.
ObserveEndsThread ==
  /\ consumer = "observe"
  /\ consumer' = "ended" /\ item' = "observed" /\ seen' = FALSE
  /\ UNCHANGED << appVars, queueState, queue, emitted, environment, flagVars, historyVars >>

\* The observation handler returns; _run() goes on unless it was stopped.
\* Of the event nothing remains: item and seen are what they were at first.
observe ==
  /\ consumer = "observe"
  /\ consumer' = IF queueState = "stopped" /\ queue = << >> THEN "ended" ELSE "get"
  /\ item' = "observed" /\ seen' = FALSE
  /\ UNCHANGED << appVars, queueState, queue, emitted, environment, flagVars, historyVars >>

-----------------------------------------------------------------------------
Statements ==
  \/ acquire_lock \/ start_queue \/ start_trader \/ set_transport \/ set_account
  \/ Outside \/ strict_non_none_query \/ query_account_infos
  \/ select_bound_account \/ verify_bound_account_healthy
  \/ build_runtime \/ session_open \/ mark_connected
  \/ complete_check \/ complete_set \/ recover_token \/ recover_queue
  \/ raise_outside \/ raise_check
  \/ end_session \/ stop_queue \/ end_trader

Calls == call_open \/ call_recover \/ call_close \/ confirm_live

Handler ==
  \/ take \/ handle_raises \/ lose_transport \/ lose_account \/ lose_gate
  \/ lose_connected \/ lose_ready \/ ignore \/ observe

Next == Statements \/ Calls \/ Handler \/ bridge

Spec == Init /\ [][Next]_vars

\* Both threads go on: a method that has begun ends, and so does the handler.
FairSpec == Spec /\ WF_vars(Statements) /\ WF_vars(Handler)

-----------------------------------------------------------------------------
\* The application may place an order: it is in no other method.
OrderPathOpen == call = "none" /\ execution_healthy

(***************************************************************************)
(* "A disconnect invalidates execution health at once; recovery must       *)
(* complete: transport reconnect -> ..." (docs/SPECIFICATION.md:303-315).  *)
(* What the code guarantees of it (runtime.py:588-643, adapter.py:111-114):*)
(* each of the five steps was made since the handler last lost it, however *)
(* its writes fall between those of the methods, but for what a True       *)
(* stands in for.  In recover_after_disconnect() that is at most the link, *)
(* when a disconnect was handled between 607 and 608, and the account,     *)
(* when an event was handled between 611 and 623: subscription, reconcile  *)
(* and evidence were made after the last disconnect in any case.  An       *)
(* open() that completes stands in for whatever it did not do itself.      *)
(***************************************************************************)
RecoveryIsComplete == OrderPathOpen => chain \cup excused = AllSteps

(***************************************************************************)
(* Live trading after a recovery needs a token given when it was complete: *)
(* one given while the runtime was down does not count (runtime.py:599,    *)
(* 637-642).                                                               *)
(***************************************************************************)
FreshConfirmation ==
  environment = "live" /\ OrderPathOpen => fresh

(***************************************************************************)
(* A connect() that fails, wherever it fails, and a close() leave no lock  *)
(* and no session behind, no running queue, no order path even for a late  *)
(* callback, and no trader but one whose stop() was called and failed      *)
(* (runtime.py:527-541, 645-665, 734-740).                                 *)
(***************************************************************************)
NothingLeftBehind ==
  life \in { "failed", "closed" } =>
    /\ held \subseteq { "orphan" }
    /\ queueState \notin { "new", "running" } /\ ~execution_healthy

(***************************************************************************)
(* A disconnect the queue accepted closes the order path in the end, or it *)
(* was never open: the handler gets to it, or the queue fails (and         *)
(* execution_healthy() with it).                                           *)
(***************************************************************************)
DisconnectIsNoticed ==
  (\E i \in DOMAIN queue : queue[i] = "disconnected") ~> ~execution_healthy

(***************************************************************************)
(* Every method returns or raises: neither a trader that never answers     *)
(* holds connect(), open() or the recovery for ever (binding.py:149-169),  *)
(* nor does the teardown wait for a daemon thread that never ends, as that *)
(* of a queue that failed does in get() (runtime.py:534, 659).             *)
(***************************************************************************)
CallsEnd == call # "none" ~> call = "none"

=============================================================================
