---------------------------- MODULE RuntimeProofs ----------------------------
(***************************************************************************)
(* The two views of miniqmt/runtime.py: first one runtime and its two      *)
(* threads (module Runtime), for every environment, query answer, number   *)
(* of attempts, queue size and number of callbacks; then the runtimes of   *)
(* several strategies on one userdata path (module RuntimeFleet), for any  *)
(* number of processes, any pool, any limit of attempts and any mixture of *)
(* configurations.                                                         *)
(***************************************************************************)
EXTENDS Runtime, RuntimeFleet, Integers, FiniteSetTheorems, TLAPS

(***************************************************************************)
(* One runtime.  None of the three properties is inductive: what a flag    *)
(* says of the recovery depends on how far the method is that is about to  *)
(* write it, and on what the handler has taken back in the meantime.       *)
(***************************************************************************)
RuntimeTypeOK ==
  /\ environment \in Environments
  /\ life \in { "new", "up", "failed", "closed" }
  /\ call \in DOMAIN Script /\ at \in Nat \ {0}
  /\ held \subseteq { "lock", "trader", "session", "orphan" }
  /\ signals \in [transport : BOOLEAN, account : BOOLEAN]
  /\ adapter \in [transport : BOOLEAN, ready : BOOLEAN]
  /\ confirmed \in BOOLEAN /\ fresh \in BOOLEAN
  /\ queueState \in { "new", "running", "stopped", "failed" }
  /\ chain \subseteq AllSteps /\ excused \subseteq AllSteps

\* The queue accepts nothing more (event_queue.py).
Over == { "stopped", "failed" }

\* The teardown gives back one thing after the other, and nothing comes after it.
TeardownOK ==
  /\ call \in { "close", "failing" } =>
       /\ at >= 2 => "session" \notin held
       /\ at >= 3 => queueState \in Over
  /\ life \in { "failed", "closed" } =>
       call = "none" /\ held \subseteq { "orphan" } /\ queueState \in Over

\* No confirmation outlives the recovery that made it necessary.
ConfirmOK ==
  environment = "live" =>
    /\ call = "recover" => ~confirmed
    /\ confirmed /\ ~fresh => ~(adapter.transport /\ adapter.ready)

\* The steps that were made, or that a True stands in for.
Done == chain \cup excused

\* What the flags say of the recovery, but where open() has just written the
\* transport over a disconnect and has yet to write the account and the adapter.
FlagsOK ==
  /\ signals.transport => "connect" \in Done
  /\ signals.transport /\ signals.account =>
       \/ "account" \in Done
       \/ (call = "open" /\ at = 4) \/ (call = "connect" /\ at = 14)
  /\ signals.transport /\ adapter.ready =>
       \/ { "subscribe", "reconcile", "evidence" } \subseteq Done
       \/ call = "open" /\ at \in { 4, 5 }

\* Which flags are still down, and which steps are done, where a method stands.
ProgressOK ==
  /\ call = "connect" => ~adapter.ready /\ (at <= 9 => ~signals.account)
  /\ call = "recover" => (at <= 7 => ~signals.account) /\ (at <= 11 => ~adapter.ready)
  /\ call = "recover" /\ signals.transport =>
       /\ at >= 7 => "subscribe" \in Done
       /\ at >= 9 => "reconcile" \in Done
       /\ at >= 10 => "evidence" \in Done

\* The history is that of a runtime that is not being torn down.
RecoveryOK ==
  call \notin { "close", "failing" } /\ life \in { "new", "up" } => FlagsOK /\ ProgressOK

RuntimeInv == RuntimeTypeOK /\ TeardownOK /\ ConfirmOK /\ RecoveryOK

-----------------------------------------------------------------------------
\* The methods, statement by statement (runtime.py:230-665).
LEMMA ScriptTable ==
  /\ DOMAIN Script = { "none", "connect", "open", "recover", "close", "failing" }
  /\ Script["none"] = << >>
  /\ Script["connect"] = << "lock", "start", "trader", "link", "transport", "infos",
       "select", "subscribe", "account", "build" >> \o OpenScript
  /\ Script["open"] = OpenScript
  /\ Script["recover"] = << "queue", "link", "transport", "connected", "verify",
       "subscribe", "account", "reconcile", "evidence", "check", "ready", "token" >>
  /\ Script["close"] = Teardown
  /\ Script["failing"] = Teardown
  BY DEF Script

\* connect() is its own statements and then those of open() (runtime.py:230-559).
LEMMA ConnectScript ==
  /\ Len(Script["connect"]) = 17
  /\ \A i \in 1 .. 17 :
       Script["connect"][i] =
         << "lock", "start", "trader", "link", "transport", "infos", "select", "subscribe",
            "account", "build", "verify", "session_open", "transport", "account", "connected",
            "check", "ready" >>[i]
  BY ScriptTable DEF OpenScript

\* Where each statement stands (runtime.py:230-665): what a step may assume of the
\* steps before it.
LEMMA Positions ==
  ASSUME RuntimeTypeOK
  PROVE  /\ Statement("lock") => call = "connect" /\ at = 1
         /\ Statement("start") => call = "connect" /\ at = 2
         /\ Statement("trader") => call = "connect" /\ at = 3
         /\ Statement("link") => (call = "connect" /\ at = 4) \/ (call = "recover" /\ at = 2)
         /\ Statement("transport") => \/ call = "connect" /\ at \in { 5, 13 }
                                      \/ call \in { "open", "recover" } /\ at = 3
         /\ Statement("infos") => call = "connect" /\ at = 6
         /\ Statement("select") => call = "connect" /\ at = 7
         /\ Statement("subscribe") =>
              (call = "connect" /\ at = 8) \/ (call = "recover" /\ at = 6)
         /\ Statement("account") => \/ call = "connect" /\ at \in { 9, 14 }
                                    \/ call = "open" /\ at = 4
                                    \/ call = "recover" /\ at = 7
         /\ Statement("build") => call = "connect" /\ at = 10
         /\ Statement("verify") => \/ call = "connect" /\ at = 11
                                   \/ call = "open" /\ at = 1
                                   \/ call = "recover" /\ at = 5
         /\ Statement("session_open") => (call = "connect" /\ at = 12) \/ (call = "open" /\ at = 2)
         /\ Statement("connected") => \/ call = "connect" /\ at = 15
                                      \/ call = "open" /\ at = 5
                                      \/ call = "recover" /\ at = 4
         /\ Statement("check") => \/ call = "connect" /\ at = 16
                                  \/ call = "open" /\ at = 6
                                  \/ call = "recover" /\ at = 10
         /\ Statement("ready") => \/ call = "connect" /\ at = 17
                                  \/ call = "open" /\ at = 7
                                  \/ call = "recover" /\ at = 11
         /\ Statement("queue") => call = "recover" /\ at = 1
         /\ Statement("reconcile") => call = "recover" /\ at = 8
         /\ Statement("evidence") => call = "recover" /\ at = 9
         /\ Statement("token") => call = "recover" /\ at = 12
         /\ Statement("end_session") => call \in { "close", "failing" } /\ at = 1
         /\ Statement("stop_queue") => call \in { "close", "failing" } /\ at = 2
         /\ Statement("end_trader") => call \in { "close", "failing" } /\ at = 3
<1>1. CASE call = "none"
  BY <1>1, ScriptTable DEF RuntimeTypeOK, Statement
<1>2. CASE call = "connect"
  <2>1. ASSUME NEW s, Statement(s)
        PROVE  at \in 1 .. 17 /\ s = Script["connect"][at]
    BY <1>2, <2>1, ConnectScript DEF RuntimeTypeOK, Statement
  <2> QED
    BY <1>2, <2>1, ConnectScript
<1>3. CASE call = "open"
  BY <1>3, ScriptTable DEF RuntimeTypeOK, Statement, OpenScript
<1>4. CASE call = "recover"
  BY <1>4, ScriptTable DEF RuntimeTypeOK, Statement
<1>5. CASE call = "close"
  BY <1>5, ScriptTable DEF RuntimeTypeOK, Statement, Teardown
<1>6. CASE call = "failing"
  BY <1>6, ScriptTable DEF RuntimeTypeOK, Statement, Teardown
<1> QED
  BY <1>1, <1>2, <1>3, <1>4, <1>5, <1>6, ScriptTable DEF RuntimeTypeOK

\* connect() begins with every flag down but the adapter's transport.
LEMMA RuntimeInitially ==
  ASSUME Init
  PROVE  RuntimeInv
<1>1. /\ environment \in Environments /\ life = "new" /\ call = "connect" /\ at = 1
      /\ held = {} /\ queueState = "new" /\ chain = {} /\ excused = {}
      /\ signals = [transport |-> FALSE, account |-> FALSE]
      /\ adapter = [transport |-> TRUE, ready |-> FALSE]
  BY DEF Init
<1>2. confirmed \in BOOLEAN /\ fresh \in BOOLEAN
  BY DEF Init
<1>3. RuntimeTypeOK
  <2>1. /\ signals \in [transport : BOOLEAN, account : BOOLEAN]
        /\ adapter \in [transport : BOOLEAN, ready : BOOLEAN]
    BY <1>1
  <2>2. call \in DOMAIN Script /\ at \in Nat \ {0}
    BY <1>1, ScriptTable
  <2> QED
    BY <1>1, <1>2, <2>1, <2>2 DEF RuntimeTypeOK
<1>4. TeardownOK /\ ConfirmOK
  BY <1>1 DEF TeardownOK, ConfirmOK
<1>5. RecoveryOK
  BY <1>1 DEF RecoveryOK, FlagsOK, ProgressOK, Done
<1> QED
  BY <1>3, <1>4, <1>5 DEF RuntimeInv

\* An exception that leaves a method changes no flag (runtime.py:527-541).
LEMMA RaiseKeeps ==
  ASSUME RuntimeInv, Raise, call \notin { "none", "close", "failing" },
         call = "open" => at \notin { 4, 5 }
  PROVE  RuntimeInv'
  BY ScriptTable
     DEF Raise, RuntimeInv, RuntimeTypeOK, TeardownOK, ConfirmOK, RecoveryOK, FlagsOK, ProgressOK, Done,
         flagVars, queueVars, historyVars

\* The application's statements that do not raise (runtime.py:230-665).
LEMMA StatementsKeep ==
  ASSUME RuntimeInv,
         \/ acquire_lock \/ start_queue \/ start_trader \/ set_transport \/ set_account
         \/ Outside \/ query_account_infos \/ build_runtime \/ session_open
         \/ mark_connected \/ complete_check \/ complete_set \/ recover_token
         \/ recover_queue \/ end_session \/ stop_queue \/ end_trader
  PROVE  RuntimeInv'
<1> USE ScriptTable
    DEF RuntimeInv, RuntimeTypeOK, TeardownOK, ConfirmOK, RecoveryOK, FlagsOK, ProgressOK, Done, Over,
        AllSteps, appVars, flagVars, queueVars, historyVars
<1>1. CASE acquire_lock
  BY <1>1, Positions DEF acquire_lock, Continue
<1>2. CASE start_queue
  BY <1>2, Positions DEF start_queue, Continue
<1>3. CASE start_trader
  BY <1>3, Positions DEF start_trader, Continue
<1>4. CASE set_transport
  <2>1. RuntimeTypeOK'
    BY <1>4, Positions DEF set_transport, Continue
  <2>2. TeardownOK'
    BY <1>4, Positions DEF set_transport, Continue
  <2>3. ConfirmOK'
    BY <1>4, Positions DEF set_transport, Continue
  <2>4. RecoveryOK'
    <3>1. excused' = excused \cup ({ "connect" } \ chain)
      BY <1>4 DEF set_transport
    <3>2. call \in { "connect", "open", "recover" } /\ at' = at + 1 /\ signals'.transport
            /\ signals'.account = signals.account
            /\ (call = "connect" => at \in { 5, 13 }) /\ (call \in { "open", "recover" } => at = 3)
      BY <1>4, Positions DEF set_transport, Continue
    <3>3. UNCHANGED << call, life, chain, adapter >>
      BY <1>4 DEF set_transport, Continue
    <3> QED
      BY <3>1, <3>2, <3>3
  <2> QED
    BY <2>1, <2>2, <2>3, <2>4
<1>5. CASE set_account
  <2>1. RuntimeTypeOK'
    BY <1>5, Positions DEF set_account, Continue
  <2>2. TeardownOK'
    BY <1>5, Positions DEF set_account, Continue
  <2>3. ConfirmOK'
    BY <1>5, Positions DEF set_account, Continue
  <2>4. RecoveryOK'
    <3>1. excused' = excused \cup ({ "account" } \ chain)
      BY <1>5 DEF set_account
    <3>2. call \in { "connect", "open", "recover" } /\ at' = at + 1 /\ signals'.account
            /\ signals'.transport = signals.transport
            /\ (call = "connect" => at \in { 9, 14 }) /\ (call = "recover" => at = 7)
            /\ (call = "open" => at = 4)
      BY <1>5, Positions DEF set_account, Continue
    <3>3. UNCHANGED << call, life, chain, adapter >>
      BY <1>5 DEF set_account, Continue
    <3> QED
      BY <3>1, <3>2, <3>3
  <2> QED
    BY <2>1, <2>2, <2>3, <2>4
<1>6. CASE Outside
  <2>1. RuntimeTypeOK'
    <3>1. chain' \subseteq AllSteps /\ excused' \subseteq AllSteps /\ at' = at + 1
      BY <1>6 DEF Outside, OutsideStep, Continue
    <3>2. UNCHANGED << call, life, held, flagVars, queueVars, fresh, environment >>
      BY <1>6 DEF Outside, OutsideStep, Continue
    <3> QED
      BY <3>1, <3>2
  <2>2. TeardownOK'
    BY <1>6, Positions DEF Outside, OutsideStep, Continue
  <2>3. ConfirmOK'
    BY <1>6, Positions DEF Outside, OutsideStep, Continue
  <2>4. RecoveryOK'
    BY <1>6, Positions DEF Outside, OutsideStep, Continue
  <2> QED
    BY <2>1, <2>2, <2>3, <2>4
<1>7. CASE query_account_infos
  BY <1>7, Positions DEF query_account_infos, Continue
<1>8. CASE build_runtime
  BY <1>8, Positions DEF build_runtime, Continue
<1>9. CASE session_open
  <2>1. /\ at' = at + 1 /\ held' = held \cup { "session" }
        /\ UNCHANGED << call, life, signals, adapter, confirmed, queueState, fresh, environment >>
    BY <1>9 DEF session_open, Continue
  <2>2. chain' \subseteq AllSteps /\ excused' \subseteq AllSteps
    BY <1>9 DEF session_open
  <2>3. (call = "connect" /\ at = 12) \/ (call = "open" /\ at = 2)
    BY <1>9, Positions DEF session_open
  <2>4. RuntimeTypeOK'
    BY <2>1, <2>2
  <2>5. TeardownOK' /\ ConfirmOK'
    BY <2>1, <2>3
  <2>6. \A s \in AllSteps : s \in chain \cup excused => s \in chain' \cup excused'
    BY <1>9 DEF session_open
  <2>7. RecoveryOK'
    BY <2>1, <2>3, <2>6
  <2> QED
    BY <2>4, <2>5, <2>7
<1>10. CASE mark_connected
  BY <1>10, Positions DEF mark_connected, Continue
<1>11. CASE complete_check
  BY <1>11, Positions DEF complete_check, Continue
<1>12. CASE complete_set
  <2>1. RuntimeTypeOK'
    BY <1>12, Positions DEF complete_set, Continue, Return
  <2>2. TeardownOK'
    BY <1>12, Positions DEF complete_set, Continue, Return
  <2>3. ConfirmOK'
    BY <1>12, Positions DEF complete_set, Continue, Return
  <2>4. RecoveryOK'
    <3>1. call # "recover" => (chain \cup excused)' = AllSteps
      BY <1>12 DEF complete_set
    <3>2. \/ call = "recover" /\ call' = "recover" /\ at = 11 /\ at' = 12 /\ excused' = excused
          \/ call \in { "connect", "open" } /\ call' = "none"
      BY <1>12, Positions DEF complete_set, Continue, Return
    <3>3. UNCHANGED << life, chain, signals >>
      BY <1>12 DEF complete_set, Continue, Return
    <3> QED
      BY <3>1, <3>2, <3>3
  <2> QED
    BY <2>1, <2>2, <2>3, <2>4
<1>13. CASE recover_token
  <2>1. RuntimeTypeOK'
    <3>1. confirmed' \in BOOLEAN
      BY <1>13 DEF recover_token, gate_confirm, Return
    <3>2. fresh' \in BOOLEAN /\ excused' = excused
      BY <1>13 DEF recover_token, gate_confirm, Return
    <3>3. call' = "none" /\ at' = 1
            /\ UNCHANGED << life, held, signals, adapter, queueState, chain, environment >>
      BY <1>13 DEF recover_token, gate_confirm, Return
    <3> QED
      BY <3>1, <3>2, <3>3
  <2>2. TeardownOK'
    BY <1>13, Positions DEF recover_token, gate_confirm, Return
  <2>3. ConfirmOK'
    BY <1>13, Positions DEF recover_token, gate_confirm, Return
  <2>4. RecoveryOK'
    BY <1>13, Positions DEF recover_token, gate_confirm, Return
  <2> QED
    BY <2>1, <2>2, <2>3, <2>4
<1>14. CASE recover_queue
  BY <1>14, Positions DEF recover_queue, Continue
<1>15. CASE end_session
  BY <1>15, Positions DEF end_session, Continue
<1>16. CASE stop_queue
  BY <1>16, Positions DEF stop_queue, Continue
<1>17. CASE end_trader
  <2>1. RuntimeTypeOK'
    <3>1. /\ call' = "none" /\ at' = 1 /\ life' \in { "closed", "failed" }
          /\ held' \subseteq (held \ { "trader", "lock" }) \cup { "orphan" }
          /\ chain' = {} /\ excused' = {}
          /\ UNCHANGED << environment, signals, adapter, confirmed, queueState >>
      BY <1>17 DEF end_trader, Stopped, Forget
    <3>2. fresh' \in BOOLEAN
      BY <1>17 DEF end_trader, Forget
    <3> QED
      BY <3>1, <3>2
  <2>2. TeardownOK'
    <3>1. held' \subseteq (held \ { "trader", "lock" }) \cup { "orphan" }
      BY <1>17 DEF end_trader, Stopped
    <3>2. call \in { "close", "failing" } /\ at = 3 /\ call' = "none"
            /\ queueState' = queueState
      BY <1>17, Positions DEF end_trader
    <3> QED
      BY <3>1, <3>2
  <2>3. ConfirmOK'
    BY <1>17, Positions DEF end_trader, Forget
  <2>4. RecoveryOK'
    BY <1>17, Positions DEF end_trader, Forget
  <2> QED
    BY <2>1, <2>2, <2>3, <2>4
<1> QED
  BY <1>1, <1>2, <1>3, <1>4, <1>5, <1>6, <1>7, <1>8, <1>9, <1>10, <1>11, <1>12,
     <1>13, <1>14, <1>15, <1>16, <1>17

\* The application's calls (runtime.py:543-665).
LEMMA CallsKeep ==
  ASSUME RuntimeInv, call_open \/ call_recover \/ call_close \/ confirm_live
  PROVE  RuntimeInv'
<1> USE ScriptTable
    DEF RuntimeInv, RuntimeTypeOK, TeardownOK, ConfirmOK, RecoveryOK, FlagsOK, ProgressOK, Done, Over,
        AllSteps, appVars, flagVars, queueVars, historyVars
<1>1. CASE call_open
  BY <1>1, Positions DEF call_open, Begin
<1>2. CASE call_recover
  <2>1. RuntimeTypeOK'
    <3>1. confirmed' \in BOOLEAN
      BY <1>2 DEF call_recover, Begin, revoke
    <3>2. fresh' \in BOOLEAN /\ excused' = {}
      BY <1>2 DEF call_recover, Begin, revoke
    <3> QED
      BY <1>2, <3>1, <3>2 DEF call_recover, Begin, revoke
  <2>2. TeardownOK'
    BY <1>2, Positions DEF call_recover, Begin, revoke
  <2>3. ConfirmOK'
    BY <1>2, Positions DEF call_recover, Begin, revoke
  <2>4. RecoveryOK'
    BY <1>2, Positions DEF call_recover, Begin, revoke
  <2> QED
    BY <2>1, <2>2, <2>3, <2>4
<1>3. CASE call_close
  <2>1. RuntimeTypeOK'
    <3>1. confirmed' \in BOOLEAN
      BY <1>3 DEF call_close, Begin, revoke, Forget
    <3>2. fresh' \in BOOLEAN /\ excused' = {}
      BY <1>3 DEF call_close, Begin, revoke, Forget
    <3> QED
      BY <1>3, <3>1, <3>2 DEF call_close, Begin, revoke, Forget
  <2>2. TeardownOK'
    BY <1>3, Positions DEF call_close, Begin, revoke, Forget
  <2>3. ConfirmOK'
    BY <1>3, Positions DEF call_close, Begin, revoke, Forget
  <2>4. RecoveryOK'
    BY <1>3, Positions DEF call_close, Begin, revoke, Forget
  <2> QED
    BY <2>1, <2>2, <2>3, <2>4
<1>4. CASE confirm_live
  BY <1>4, Positions DEF confirm_live, gate_confirm
<1> QED
  BY <1>1, <1>2, <1>3, <1>4

\* The daemon thread's steps, wherever the application stands (runtime.py:338-363).
LEMMA HandlerKeeps ==
  ASSUME RuntimeInv,
         \/ take \/ handle_raises \/ lose_transport \/ lose_account \/ lose_gate
         \/ lose_connected \/ lose_ready \/ ignore \/ observe
  PROVE  RuntimeInv'
<1> USE ScriptTable
    DEF RuntimeInv, RuntimeTypeOK, TeardownOK, ConfirmOK, RecoveryOK, FlagsOK, ProgressOK, Done, Over,
        AllSteps, appVars, flagVars, queueVars, historyVars
<1>1. CASE take
  BY <1>1, Positions DEF take
<1>2. CASE handle_raises
  BY <1>2, Positions DEF handle_raises
<1>3. CASE lose_transport
  BY <1>3, Positions DEF lose_transport, HandlerStep
<1>4. CASE lose_account
  BY <1>4, Positions DEF lose_account, HandlerStep
<1>5. CASE lose_gate
  BY <1>5, Positions DEF lose_gate, HandlerStep, revoke
<1>6. CASE lose_connected
  BY <1>6, Positions DEF lose_connected, HandlerStep
<1>7. CASE lose_ready
  BY <1>7, Positions DEF lose_ready, HandlerStep
<1>8. CASE ignore
  BY <1>8, Positions DEF ignore, HandlerStep
<1>9. CASE observe
  BY <1>9, Positions DEF observe
<1> QED
  BY <1>1, <1>2, <1>3, <1>4, <1>5, <1>6, <1>7, <1>8, <1>9

\* The account queries (binding.py:149-281): a step forward, another attempt,
\* or an exception.
LEMMA QueriesKeep ==
  ASSUME RuntimeInv,
         strict_non_none_query \/ select_bound_account \/ verify_bound_account_healthy
  PROVE  RuntimeInv'
<1>1. ASSUME Asking
      PROVE  call \in { "connect", "open", "recover" } /\ (call = "open" => at = 1)
  BY <1>1, Positions DEF RuntimeInv, Asking
<1>2. ASSUME NEW s \in { "select", "verify" }, OutsideStep(s, "account")
      PROVE  RuntimeInv'
  <2>1. \/ call = "connect" /\ at \in { 7, 11 }
        \/ call = "open" /\ at = 1
        \/ call = "recover" /\ at = 5
    BY <1>2, Positions DEF OutsideStep, RuntimeInv
  <2>2. at' = at + 1 /\ chain' = chain \cup { "account" } /\ excused' = excused \ { "account" }
          /\ UNCHANGED << life, call, held, flagVars, queueVars, fresh, environment >>
    BY <1>2 DEF OutsideStep, Continue
  <2> QED
    BY <2>1, <2>2
       DEF RuntimeInv, RuntimeTypeOK, TeardownOK, ConfirmOK, RecoveryOK, FlagsOK, ProgressOK, Done,
           AllSteps, flagVars, queueVars
<1>3. CASE strict_non_none_query
  <2>1. CASE Raise
    BY <1>1, <1>3, <2>1, RaiseKeeps DEF strict_non_none_query
  <2>2. CASE UNCHANGED << life, call, at, held, flagVars, queueVars, historyVars, environment >>
    BY <2>2
       DEF RuntimeInv, RuntimeTypeOK, TeardownOK, ConfirmOK, RecoveryOK, FlagsOK, ProgressOK, Done,
           flagVars, queueVars, historyVars
  <2> QED
    BY <1>3, <2>1, <2>2 DEF strict_non_none_query
<1>4. CASE select_bound_account
  <2>1. CASE Raise
    BY <1>1, <1>4, <2>1, RaiseKeeps DEF select_bound_account, Asking
  <2> QED
    BY <1>2, <1>4, <2>1 DEF select_bound_account
<1>5. CASE verify_bound_account_healthy
  <2>1. CASE Raise
    BY <1>1, <1>5, <2>1, RaiseKeeps DEF verify_bound_account_healthy, Asking
  <2> QED
    BY <1>2, <1>5, <2>1 DEF verify_bound_account_healthy
<1> QED
  BY <1>3, <1>4, <1>5

\* Every other exception leaves one of the three long methods.
LEMMA ExceptionsKeep ==
  ASSUME RuntimeInv, raise_outside \/ raise_check
  PROVE  RuntimeInv'
<1>1. Raise /\ call \notin { "none", "close", "failing" } /\ (call = "open" => at \notin { 4, 5 })
  BY Positions DEF RuntimeInv, raise_outside, raise_check, MayRaise
<1> QED
  BY <1>1, RaiseKeeps

\* A callback touches the queue only (callbacks.py:57-143).
LEMMA BridgeKeeps ==
  ASSUME RuntimeInv, bridge
  PROVE  RuntimeInv'
  BY DEF bridge, try_emit, RuntimeInv, RuntimeTypeOK, TeardownOK, ConfirmOK, RecoveryOK, FlagsOK,
         ProgressOK, Done, Over, appVars, flagVars, historyVars

\* Every step of either thread keeps the invariant.
LEMMA RuntimeInvariant == Spec => []RuntimeInv
<1>1. RuntimeInv /\ [Next]_vars => RuntimeInv'
  <2> SUFFICES ASSUME RuntimeInv, [Next]_vars
               PROVE  RuntimeInv'
    OBVIOUS
  <2>1. CASE UNCHANGED vars
    BY <2>1
       DEF RuntimeInv, RuntimeTypeOK, TeardownOK, ConfirmOK, RecoveryOK, FlagsOK, ProgressOK, Done,
           vars, appVars, flagVars, queueVars, historyVars
  <2>2. CASE Statements
    BY <2>2, StatementsKeep, QueriesKeep, ExceptionsKeep DEF Statements
  <2>3. CASE Calls
    BY <2>3, CallsKeep DEF Calls
  <2>4. CASE Handler
    BY <2>4, HandlerKeeps DEF Handler
  <2>5. CASE bridge
    BY <2>5, BridgeKeeps
  <2> QED
    BY <2>1, <2>2, <2>3, <2>4, <2>5 DEF Next
<1> QED
  BY <1>1, RuntimeInitially, PTL DEF Spec

(***************************************************************************)
(* While the order path is open, each of the five steps was made since the *)
(* handler last lost it, or a True written over that loss, or an open()    *)
(* that completed, stands in for it, however the writes of the handler and *)
(* those of connect(), open() and recover_after_disconnect() interleave    *)
(* (runtime.py:338-363, 543-559, 588-643).                                 *)
(***************************************************************************)
THEOREM RecoveryCompletes == Spec => []RecoveryIsComplete
<1>1. ASSUME RuntimeInv, OrderPathOpen
      PROVE  chain \cup excused = AllSteps
  <2>1. /\ call = "none" /\ queueState = "running" /\ adapter.ready
        /\ signals.transport /\ signals.account
    BY <1>1 DEF OrderPathOpen, execution_healthy, health_probe
  <2>2. life \in { "new", "up" }
    BY <1>1, <2>1 DEF RuntimeInv, RuntimeTypeOK, TeardownOK, Over
  <2>3. FlagsOK /\ chain \subseteq AllSteps /\ excused \subseteq AllSteps
    BY <1>1, <2>1, <2>2 DEF RuntimeInv, RuntimeTypeOK, RecoveryOK
  <2> QED
    BY <2>1, <2>3 DEF FlagsOK, Done, AllSteps
<1>2. RuntimeInv => RecoveryIsComplete
  BY <1>1 DEF RecoveryIsComplete
<1> QED
  BY <1>2, RuntimeInvariant, PTL

(***************************************************************************)
(* After a recovery, live orders need a token that was given when it was   *)
(* complete (runtime.py:599, 637-642).                                     *)
(***************************************************************************)
THEOREM ConfirmationsAreFresh == Spec => []FreshConfirmation
<1>1. RuntimeInv => FreshConfirmation
  BY DEF RuntimeInv, ConfirmOK, FreshConfirmation, OrderPathOpen, execution_healthy,
         execution_allowed
<1> QED
  BY <1>1, RuntimeInvariant, PTL

(***************************************************************************)
(* A connect() that failed at any statement and a close() leave no lock,   *)
(* session or running queue, and no trader but one that stop() could not   *)
(* end (runtime.py:527-541, 645-665, 734-740).                             *)
(***************************************************************************)
THEOREM TeardownIsComplete == Spec => []NothingLeftBehind
<1>1. RuntimeInv => NothingLeftBehind
  BY DEF RuntimeInv, TeardownOK, NothingLeftBehind, execution_healthy, health_probe, Over
<1> QED
  BY <1>1, RuntimeInvariant, PTL

-----------------------------------------------------------------------------
(***************************************************************************)
(* The fleet.                                                              *)
(***************************************************************************)
Labels == { "start", "build", "connect", "up", "closing", "give_up", "done", "failed" }

\* Where a runtime owns its lock: from acquire() to release().
Holding == { "build", "connect", "up", "closing", "give_up" }

FleetTypeOK ==
  /\ config \in [Process -> Configs] /\ pc \in [Process -> Labels]
  /\ index \in [Process -> Nat] /\ trader \in [Process -> SessionIds \cup { NoId }]
  /\ mutex \in Process \cup { Nobody } /\ lease \in [Pool -> Process \cup { Nobody }]
  /\ tried \in [Process -> SUBSET Pool]

\* The lock of p and its trader go together with where p stands.
LockOK(p) ==
  /\ mutex = p => ~Shared(p) /\ pc[p] \in Holding
  /\ \A i \in Pool : lease[i] = p <=>
       Shared(p) /\ pc[p] \in Holding /\ i = candidate(p, index[p])
  /\ Running(p) => /\ pc[p] \in Holding \ { "build" }
                   /\ Shared(p) => trader[p] = candidate(p, index[p])

\* How far p is on its way around the pool.
WalkOK(p) ==
  /\ index[p] < Candidates(p)
  /\ Shared(p) =>
       tried[p] = { candidate(p, i) : i \in 0 .. IF pc[p] = "start" THEN index[p] - 1
                                                                  ELSE index[p] }
  /\ Shared(p) /\ pc[p] = "failed" => index[p] = Candidates(p) - 1

FleetInv == FleetTypeOK /\ \A p \in Process : LockOK(p) /\ WalkOK(p)

-----------------------------------------------------------------------------
\* The bound of the candidate loop (session_id.py:44-55).
LEMMA CandidatesType ==
  ASSUME FleetTypeOK, NEW p \in Process
  PROVE  Candidates(p) \in Nat \ {0} /\ Candidates(p) <= PoolSize
  BY FleetAssumption DEF Candidates, attempts

\* Every candidate is an id of the pool (session_id.py:67-75).
LEMMA CandidateType ==
  ASSUME FleetTypeOK, NEW p \in Process, NEW i \in Nat
  PROVE  candidate(p, i) \in Pool
<1>1. config[p].session_id \in Pool \cup { NoId } /\ config[p].offset \in Pool
  BY FleetAssumption DEF FleetTypeOK
<1>2. (config[p].offset + i) % PoolSize \in Pool
  BY <1>1, FleetAssumption DEF Pool
<1> QED
  BY <1>1, <1>2 DEF candidate, Fixed

\* The walk around the pool does not come back to an id within its bound
\* (session_id.py:72-75).
LEMMA CandidatesDiffer ==
  ASSUME FleetTypeOK, NEW p \in Process,
         NEW i \in 0 .. Candidates(p) - 1, NEW j \in 0 .. Candidates(p) - 1,
         candidate(p, i) = candidate(p, j)
  PROVE  i = j
<1>1. CASE Fixed(p)
  BY <1>1 DEF Candidates
<1>2. CASE ~Fixed(p)
  <2> DEFINE o == config[p].offset
  <2>1. o \in 0 .. PoolSize - 1 /\ PoolSize \in Nat \ {0}
    BY FleetAssumption DEF FleetTypeOK, Pool
  <2>2. i \in 0 .. PoolSize - 1 /\ j \in 0 .. PoolSize - 1
    BY <2>1, CandidatesType
  <2> HIDE DEF o
  <2>3. \A k \in 0 .. PoolSize - 1 :
          (o + k) % PoolSize = IF o + k < PoolSize THEN o + k ELSE o + k - PoolSize
    BY <2>1
  <2>4. (o + i) % PoolSize = (o + j) % PoolSize
    BY <1>2 DEF candidate, o
  <2> QED
    BY <2>1, <2>2, <2>3, <2>4
<1> QED
  BY <1>1, <1>2

\* So a walk that reached its bound has tried that many ids.
LEMMA WalkLength ==
  ASSUME FleetTypeOK, NEW p \in Process
  PROVE  Cardinality({ candidate(p, i) : i \in 0 .. Candidates(p) - 1 }) = Candidates(p)
<1> DEFINE S == 0 .. Candidates(p) - 1
           T == { candidate(p, i) : i \in S }
           f == [i \in S |-> candidate(p, i)]
<1>1. Candidates(p) \in Nat \ {0}
  BY CandidatesType
<1>2. f \in Bijection(S, T)
  BY CandidatesDiffer DEF Bijection, Injection, Surjection, IsInjective
<1>3. ExistsBijection(S, T)
  BY <1>2 DEF ExistsBijection
<1>4. IsFiniteSet(S) /\ Cardinality(S) = Candidates(p)
  <2>1. 0 \in Int /\ Candidates(p) - 1 \in Int /\ S = 0 .. Candidates(p) - 1
    BY <1>1
  <2>2. ~(0 > Candidates(p) - 1) /\ (Candidates(p) - 1) - 0 + 1 = Candidates(p)
    BY <1>1
  <2> QED
    BY <2>1, <2>2, FS_Interval
<1> HIDE DEF S, T
<1>5. Cardinality(T) = Candidates(p)
  BY <1>3, <1>4, FS_Bijection
<1> QED
  BY <1>5 DEF S, T

-----------------------------------------------------------------------------
(***************************************************************************)
(* A step of p leaves what the other processes own alone.                  *)
(***************************************************************************)
Frame(p) ==
  /\ config' = config
  /\ \A q \in Process \ { p } : /\ pc'[q] = pc[q] /\ index'[q] = index[q]
                                /\ trader'[q] = trader[q] /\ tried'[q] = tried[q]
  /\ mutex' = mutex \/ (mutex \in { p, Nobody } /\ mutex' \in { p, Nobody })
  /\ \A i \in Pool : \/ lease'[i] = lease[i]
                     \/ lease[i] \in { p, Nobody } /\ lease'[i] \in { p, Nobody }

\* A process that does not move keeps its invariant.
LEMMA OthersKeep ==
  ASSUME FleetInv, NEW p \in Process, Frame(p), FleetTypeOK', NEW q \in Process \ { p }
  PROVE  (LockOK(q) /\ WalkOK(q))'
<1>1. q # Nobody
  BY FleetAssumption
<1>2. /\ Shared(q)' = Shared(q) /\ Candidates(q)' = Candidates(q)
      /\ \A i : candidate(q, i)' = candidate(q, i)
      /\ pc'[q] = pc[q] /\ index'[q] = index[q] /\ trader'[q] = trader[q]
      /\ tried'[q] = tried[q]
  BY DEF Frame, Shared, Candidates, candidate, Fixed
<1>3. (mutex' = q <=> mutex = q) /\ \A i \in Pool : lease'[i] = q <=> lease[i] = q
  BY <1>1 DEF Frame
<1>4. LockOK(q)'
  BY <1>2, <1>3 DEF FleetInv, LockOK, Running
<1>5. WalkOK(q)'
  BY <1>2 DEF FleetInv, WalkOK
<1> QED
  BY <1>4, <1>5

\* So only the process that moves has to be looked at.
LEMMA Assemble ==
  ASSUME FleetInv, NEW p \in Process, Frame(p), FleetTypeOK', LockOK(p)', WalkOK(p)'
  PROVE  FleetInv'
  BY OthersKeep DEF FleetInv

-----------------------------------------------------------------------------
(***************************************************************************)
(* The actions.                                                            *)
(***************************************************************************)
\* The operators on a configuration do not change with the state.
LEMMA SameConfig ==
  ASSUME config' = config, NEW p
  PROVE  /\ Shared(p)' = Shared(p) /\ Fixed(p)' = Fixed(p) /\ Candidates(p)' = Candidates(p)
         /\ \A i : candidate(p, i)' = candidate(p, i)
  BY DEF Shared, Candidates, candidate, Fixed

\* The mutex of exclusive mode (runtime.py:360-381).
LEMMA MutexStep ==
  ASSUME FleetInv, NEW p \in Process, acquire_mutex(p)
  PROVE  FleetInv'
<1>1. /\ config' = config /\ index' = index /\ trader' = trader /\ lease' = lease
      /\ tried' = tried /\ pc[p] = "start" /\ ~Shared(p)
      /\ \/ mutex = Nobody /\ mutex' = p /\ pc' = [pc EXCEPT ![p] = "build"]
         \/ mutex' = mutex /\ mutex # Nobody /\ pc' = [pc EXCEPT ![p] = "failed"]
  BY DEF acquire_mutex, Goto
<1>2. FleetTypeOK /\ LockOK(p) /\ WalkOK(p) /\ p # Nobody
  BY FleetAssumption DEF FleetInv
<1>3. FleetTypeOK'
  BY <1>1, <1>2 DEF FleetTypeOK, Labels
<1>4. Frame(p)
  BY <1>1, <1>2 DEF FleetTypeOK, Frame
<1>5. LockOK(p)'
  BY <1>1, <1>2, SameConfig DEF FleetTypeOK, LockOK, Running, Holding
<1>6. WalkOK(p)'
  BY <1>1, <1>2, SameConfig DEF FleetTypeOK, WalkOK
<1> QED
  BY <1>3, <1>4, <1>5, <1>6, Assemble

\* The next candidate, or the end of the loop (runtime.py:394-430).
LEMMA NextCandidateMoves ==
  ASSUME FleetInv, NEW p \in Process, NextCandidate(p)
  PROVE  \/ /\ index[p] = Candidates(p) - 1
            /\ index' = index /\ pc' = [pc EXCEPT ![p] = "failed"]
         \/ /\ index[p] + 1 < Candidates(p)
            /\ index' = [index EXCEPT ![p] = index[p] + 1] /\ pc' = [pc EXCEPT ![p] = "start"]
<1>1. index[p] \in Nat /\ index[p] < Candidates(p) /\ Candidates(p) \in Nat
  BY CandidatesType DEF FleetInv, FleetTypeOK, WalkOK
<1>2. Fixed(p) => Candidates(p) = 1
  BY DEF Candidates
<1> QED
  BY <1>1, <1>2 DEF NextCandidate, Goto

\* A step of the walk: the ids tried so far and the one p is at.
LEMMA WalkGrows ==
  ASSUME NEW p, NEW n \in Nat
  PROVE  { candidate(p, i) : i \in 0 .. n - 1 } \cup { candidate(p, n) } =
           { candidate(p, i) : i \in 0 .. n }
<1>1. 0 .. n = (0 .. n - 1) \cup { n }
  OBVIOUS
<1> QED
  BY <1>1

\* The lease of one candidate (session_id.py:77-85, runtime.py:394-404).
LEMMA LeaseStep ==
  ASSUME FleetInv, NEW p \in Process, acquire_exact(p)
  PROVE  FleetInv'
<1> DEFINE id == candidate(p, index[p])
<1>1. /\ config' = config /\ trader' = trader /\ mutex' = mutex
      /\ tried' = [tried EXCEPT ![p] = tried[p] \cup { id }]
      /\ pc[p] = "start" /\ Shared(p)
      /\ \/ /\ lease[id] = Nobody /\ lease' = [lease EXCEPT ![id] = p]
            /\ index' = index /\ pc' = [pc EXCEPT ![p] = "build"]
         \/ lease' = lease /\ NextCandidate(p)
  BY DEF acquire_exact, Goto
<1>2. FleetTypeOK /\ LockOK(p) /\ WalkOK(p) /\ p # Nobody /\ index[p] \in Nat
  BY FleetAssumption DEF FleetInv, FleetTypeOK
<1>3. id \in Pool
  BY <1>2, CandidateType
<1>4. tried'[p] = { candidate(p, i) : i \in 0 .. index[p] }
  <2>1. tried[p] = { candidate(p, i) : i \in 0 .. index[p] - 1 }
    BY <1>1, <1>2 DEF WalkOK
  <2>2. tried'[p] = tried[p] \cup { id }
    BY <1>1, <1>2 DEF FleetTypeOK
  <2> QED
    BY <1>2, <2>1, <2>2, WalkGrows
<1>5. CASE /\ lease[id] = Nobody /\ lease' = [lease EXCEPT ![id] = p]
           /\ index' = index /\ pc' = [pc EXCEPT ![p] = "build"]
  <2>1. FleetTypeOK'
    BY <1>1, <1>2, <1>3, <1>5 DEF FleetTypeOK, Labels
  <2>2. Frame(p)
    BY <1>1, <1>2, <1>3, <1>5 DEF FleetTypeOK, Frame
  <2>3. LockOK(p)'
    <3>1. \A i \in Pool : lease[i] # p
      BY <1>1, <1>2 DEF LockOK, Holding
    <3>2. \A i \in Pool : lease'[i] = p <=> i = id
      BY <1>2, <1>3, <1>5, <3>1 DEF FleetTypeOK
    <3> QED
      BY <1>1, <1>2, <1>5, <3>2, SameConfig DEF FleetTypeOK, LockOK, Running, Holding
  <2>4. WalkOK(p)'
    BY <1>1, <1>2, <1>4, <1>5, SameConfig DEF FleetTypeOK, WalkOK
  <2> QED
    BY <2>1, <2>2, <2>3, <2>4, Assemble
<1>6. CASE lease' = lease /\ NextCandidate(p)
  <2> HIDE DEF id
  <2>1. \/ /\ index[p] = Candidates(p) - 1
           /\ index' = index /\ pc' = [pc EXCEPT ![p] = "failed"]
        \/ /\ index[p] + 1 < Candidates(p)
           /\ index' = [index EXCEPT ![p] = index[p] + 1] /\ pc' = [pc EXCEPT ![p] = "start"]
    BY <1>6, NextCandidateMoves
  <2>2. FleetTypeOK'
    BY <1>1, <1>2, <1>3, <1>6, <2>1 DEF FleetTypeOK, Labels
  <2>3. Frame(p)
    BY <1>1, <1>2, <1>6, <2>1 DEF FleetTypeOK, Frame
  <2>4. LockOK(p)'
    BY <1>1, <1>2, <1>6, <2>1, SameConfig DEF FleetTypeOK, LockOK, Running, Holding
  <2>5. WalkOK(p)'
    <3>1. CASE /\ index[p] = Candidates(p) - 1
               /\ index' = index /\ pc' = [pc EXCEPT ![p] = "failed"]
      <4>1. pc'[p] = "failed" /\ index'[p] = index[p]
        BY <1>2, <3>1 DEF FleetTypeOK
      <4> QED
        BY <1>1, <1>2, <1>4, <3>1, <4>1, SameConfig DEF WalkOK
    <3>2. CASE /\ index[p] + 1 < Candidates(p)
               /\ index' = [index EXCEPT ![p] = index[p] + 1] /\ pc' = [pc EXCEPT ![p] = "start"]
      <4>1. index'[p] = index[p] + 1 /\ index'[p] - 1 = index[p] /\ pc'[p] = "start"
        BY <1>2, <3>2 DEF FleetTypeOK
      <4> QED
        BY <1>1, <1>4, <3>2, <4>1, SameConfig DEF WalkOK
    <3> QED
      BY <2>1, <3>1, <3>2
  <2> QED
    BY <2>2, <2>3, <2>4, <2>5, Assemble
<1> QED
  BY <1>1, <1>5, <1>6

\* The trader of the drawn or leased id, its connection, and close(): the lock
\* and the candidate stay (runtime.py:405-430, 645-664).
LEMMA TraderStep ==
  ASSUME FleetInv, NEW p \in Process,
         \/ run_trader(p) \/ connect_ok(p) \/ connect_fails(p) \/ close(p) \/ stop_trader(p)
  PROVE  FleetInv'
<1>1. FleetTypeOK /\ LockOK(p) /\ WalkOK(p) /\ p # Nobody
  BY FleetAssumption DEF FleetInv
<1>2. /\ config' = config /\ index' = index /\ mutex' = mutex /\ lease' = lease
      /\ tried' = tried /\ pc[p] \in Holding
      /\ \E l \in Holding, id \in SessionIds \cup { NoId } :
           /\ pc' = [pc EXCEPT ![p] = l] /\ trader' = [trader EXCEPT ![p] = id]
           /\ id # NoId => l # "build" /\ (Shared(p) => id = candidate(p, index[p]))
  <2>1. CASE run_trader(p)
    BY <2>1 DEF run_trader, Goto, Holding
  <2>2. CASE connect_ok(p) \/ connect_fails(p) \/ close(p)
    <3>1. trader' = [trader EXCEPT ![p] = trader[p]]
          /\ trader[p] \in SessionIds \cup { NoId }
      BY <1>1, <2>2 DEF connect_ok, connect_fails, close, FleetTypeOK
    <3>2. PICK l \in Holding \ { "build" } : pc' = [pc EXCEPT ![p] = l]
      BY <2>2 DEF connect_ok, connect_fails, close, Goto, Holding
    <3>3. trader[p] # NoId /\ Shared(p) => trader[p] = candidate(p, index[p])
      BY <1>1 DEF LockOK, Running
    <3> QED
      BY <2>2, <3>1, <3>2, <3>3 DEF connect_ok, connect_fails, close, Holding
  <2>3. CASE stop_trader(p)
    <3>1. pc' = [pc EXCEPT ![p] = pc[p]]
      BY <1>1, <2>3 DEF stop_trader, FleetTypeOK
    <3> QED
      BY <2>3, <3>1 DEF stop_trader, Holding
  <2> QED
    BY <2>1, <2>2, <2>3
<1>3. PICK l \in Holding, id \in SessionIds \cup { NoId } :
           /\ pc' = [pc EXCEPT ![p] = l] /\ trader' = [trader EXCEPT ![p] = id]
           /\ id # NoId => l # "build" /\ (Shared(p) => id = candidate(p, index[p]))
  BY <1>2
<1>4. FleetTypeOK'
  BY <1>1, <1>2, <1>3 DEF FleetTypeOK, Labels, Holding
<1>5. Frame(p)
  BY <1>1, <1>2, <1>3 DEF FleetTypeOK, Frame
<1>6. pc'[p] = l /\ trader'[p] = id
  BY <1>1, <1>3 DEF FleetTypeOK
<1>7. LockOK(p)'
  BY <1>1, <1>2, <1>3, <1>6, SameConfig DEF LockOK, Running
<1>8. WalkOK(p)'
  BY <1>1, <1>2, <1>6, SameConfig DEF WalkOK, Holding
<1> QED
  BY <1>4, <1>5, <1>7, <1>8, Assemble

\* release(): what p owned is free, the rest as it was (mutex.py:43-55).
LEMMA ReleaseStep ==
  ASSUME FleetInv, NEW p \in Process, Released(p), config' = config,
         NEW l \in Labels \ Holding, pc' = [pc EXCEPT ![p] = l],
         trader' = [trader EXCEPT ![p] = NoId],
         \A q \in Process \ { p } : index'[q] = index[q] /\ tried'[q] = tried[q],
         index' \in [Process -> Nat], tried' \in [Process -> SUBSET Pool], WalkOK(p)'
  PROVE  FleetInv'
<1>1. FleetTypeOK /\ p # Nobody
  BY FleetAssumption DEF FleetInv
<1>2. /\ mutex' # p /\ \A i \in Pool : lease'[i] # p
      /\ mutex' = mutex \/ (mutex = p /\ mutex' = Nobody)
      /\ \A i \in Pool : lease'[i] = lease[i] \/ (lease[i] = p /\ lease'[i] = Nobody)
      /\ lease' \in [Pool -> Process \cup { Nobody }]
  BY <1>1 DEF Released, FleetTypeOK
<1>3. FleetTypeOK'
  BY <1>1, <1>2 DEF FleetTypeOK
<1>4. Frame(p)
  BY <1>1, <1>2 DEF FleetTypeOK, Frame
<1>5. pc'[p] = l /\ trader'[p] = NoId
  BY <1>1 DEF FleetTypeOK
<1>6. LockOK(p)'
  BY <1>2, <1>5 DEF LockOK, Running
<1> QED
  BY <1>3, <1>4, <1>6, Assemble

\* The end of a runtime, of a candidate that failed, and of a process
\* (runtime.py:413-430, 535-540, 660-664).
LEMMA EndStep ==
  ASSUME FleetInv, NEW p \in Process, release_closed(p) \/ release_failed(p) \/ crash(p)
  PROVE  FleetInv'
<1>1. FleetTypeOK /\ LockOK(p) /\ WalkOK(p) /\ index[p] \in Nat
  BY DEF FleetInv, FleetTypeOK
<1>2. trader[p] = NoId => trader = [trader EXCEPT ![p] = NoId]
  BY <1>1 DEF FleetTypeOK
<1>3. CASE release_closed(p)
  <2>1. /\ Released(p) /\ config' = config /\ pc' = [pc EXCEPT ![p] = "done"]
        /\ trader' = [trader EXCEPT ![p] = NoId] /\ index' = index /\ tried' = tried
        /\ pc[p] = "closing"
    BY <1>2, <1>3 DEF release_closed, Goto
  <2>2. pc'[p] = "done"
    BY <1>1, <2>1 DEF FleetTypeOK
  <2>3. WalkOK(p)'
    BY <1>1, <2>1, <2>2, SameConfig DEF WalkOK
  <2>4. index' \in [Process -> Nat] /\ tried' \in [Process -> SUBSET Pool]
        /\ "done" \in Labels \ Holding
    BY <1>1, <2>1 DEF FleetTypeOK, Labels, Holding
  <2> QED
    BY <2>1, <2>3, <2>4, ReleaseStep
<1>4. CASE release_failed(p)
  <2>1. /\ Released(p) /\ config' = config /\ trader' = [trader EXCEPT ![p] = NoId]
        /\ tried' = tried /\ pc[p] = "give_up"
        /\ IF Shared(p) THEN NextCandidate(p)
                        ELSE pc' = [pc EXCEPT ![p] = "failed"] /\ index' = index
    BY <1>2, <1>4 DEF release_failed, Goto
  <2>2. \/ /\ index' = index /\ pc' = [pc EXCEPT ![p] = "failed"]
           /\ Shared(p) => index[p] = Candidates(p) - 1
        \/ /\ index[p] + 1 < Candidates(p)
           /\ index' = [index EXCEPT ![p] = index[p] + 1] /\ pc' = [pc EXCEPT ![p] = "start"]
    BY <2>1, NextCandidateMoves
  <2>3. \/ /\ pc'[p] = "failed" /\ index'[p] = index[p]
           /\ Shared(p) => index[p] = Candidates(p) - 1
        \/ /\ index[p] + 1 < Candidates(p) /\ index'[p] = index[p] + 1
           /\ index'[p] - 1 = index[p] /\ pc'[p] = "start"
    BY <1>1, <2>2 DEF FleetTypeOK
  <2>4. WalkOK(p)'
    BY <1>1, <2>1, <2>3, SameConfig DEF WalkOK
  <2>5. /\ index' \in [Process -> Nat] /\ tried' \in [Process -> SUBSET Pool]
        /\ \A q \in Process \ { p } : index'[q] = index[q] /\ tried'[q] = tried[q]
        /\ { "start", "failed" } \subseteq Labels \ Holding
    BY <1>1, <2>1, <2>2 DEF FleetTypeOK, Labels, Holding
  <2> QED
    BY <2>1, <2>2, <2>4, <2>5, ReleaseStep
<1>5. CASE crash(p)
  <2>1. /\ Released(p) /\ config' = config /\ trader' = [trader EXCEPT ![p] = NoId]
        /\ index' = [index EXCEPT ![p] = 0] /\ tried' = [tried EXCEPT ![p] = {}]
        /\ pc' = [pc EXCEPT ![p] = "start"]
    BY <1>5 DEF crash, Goto
  <2>2. index'[p] = 0 /\ tried'[p] = {} /\ pc'[p] = "start"
    BY <1>1, <2>1 DEF FleetTypeOK
  <2>3. WalkOK(p)'
    <3>1. Candidates(p) \in Nat \ {0} /\ 0 .. 0 - 1 = {}
      BY <1>1, CandidatesType
    <3>2. Candidates(p)' = Candidates(p) /\ \A i : candidate(p, i)' = candidate(p, i)
      BY <2>1, SameConfig
    <3> QED
      BY <2>2, <3>1, <3>2 DEF WalkOK
  <2>4. /\ index' \in [Process -> Nat] /\ tried' \in [Process -> SUBSET Pool]
        /\ \A q \in Process \ { p } : index'[q] = index[q] /\ tried'[q] = tried[q]
        /\ "start" \in Labels \ Holding
    BY <1>1, <2>1 DEF FleetTypeOK, Labels, Holding
  <2> QED
    BY <2>1, <2>3, <2>4, ReleaseStep
<1> QED
  BY <1>3, <1>4, <1>5

\* The invariant holds in every reachable state.
LEMMA FleetInvariant == FleetSpec => []FleetInv
<1>1. FleetInit => FleetInv
  <2> SUFFICES ASSUME FleetInit
               PROVE  FleetInv
    OBVIOUS
  <2>1. FleetTypeOK
    BY DEF FleetInit, FleetTypeOK, Labels
  <2>2. ASSUME NEW p \in Process
        PROVE  LockOK(p) /\ WalkOK(p)
    <3>1. Candidates(p) \in Nat \ {0} /\ 0 .. 0 - 1 = {}
      BY <2>1, CandidatesType
    <3>2. /\ pc[p] = "start" /\ index[p] = 0 /\ trader[p] = NoId /\ mutex # p
          /\ tried[p] = {} /\ \A i \in Pool : lease[i] # p
      BY FleetAssumption DEF FleetInit
    <3> QED
      BY <3>1, <3>2 DEF LockOK, WalkOK, Running, Holding
  <2> QED
    BY <2>1, <2>2 DEF FleetInv
<1>2. FleetInv /\ [FleetNext]_fleetVars => FleetInv'
  <2> SUFFICES ASSUME FleetInv, [FleetNext]_fleetVars
               PROVE  FleetInv'
    OBVIOUS
  <2>1. ASSUME NEW p \in Process, Connect(p) \/ close(p) \/ crash(p)
        PROVE  FleetInv'
    BY <2>1, MutexStep, LeaseStep, TraderStep, EndStep DEF Connect
  <2>2. CASE UNCHANGED fleetVars
    BY <2>2 DEF fleetVars, FleetInv, FleetTypeOK, LockOK, WalkOK, Running, Shared, candidate,
         Candidates, Fixed
  <2> QED
    BY <2>1, <2>2 DEF FleetNext
<1> QED
  BY <1>1, <1>2, PTL DEF FleetSpec

-----------------------------------------------------------------------------
\* Two shared runtimes never run traders under one session id: whoever runs
\* one owns its lease (runtime.py:382-430, session_id.py:77-85).
THEOREM NoSharedSessionId == FleetSpec => []SessionIdsDiffer
<1>1. ASSUME FleetInv, NEW p \in Process, NEW q \in Process, p # q, Shared(p), Shared(q),
             Running(p), trader[p] = trader[q]
      PROVE  FALSE
  <2>1. Running(q)
    BY <1>1 DEF Running
  <2>2. /\ trader[p] = candidate(p, index[p]) /\ pc[p] \in Holding
        /\ trader[q] = candidate(q, index[q]) /\ pc[q] \in Holding
    BY <1>1, <2>1 DEF FleetInv, LockOK
  <2>3. trader[p] \in Pool
    BY <1>1, <2>2, CandidateType DEF FleetInv, FleetTypeOK
  <2>4. lease[trader[p]] = p /\ lease[trader[p]] = q
    BY <1>1, <2>2, <2>3 DEF FleetInv, LockOK
  <2> QED
    BY <1>1, <2>4
<1>2. FleetInv => SessionIdsDiffer
  BY <1>1 DEF SessionIdsDiffer
<1> QED
  BY <1>2, FleetInvariant, PTL

\* A shared runtime fails only after as many different ids as it may try,
\* whatever the others take and give back (session_id.py:67-75).
THEOREM WalksTheWholePool == FleetSpec => []GivesUpLate
<1>1. ASSUME FleetInv, NEW p \in Process, Shared(p), pc[p] = "failed"
      PROVE  Cardinality(tried[p]) = Candidates(p)
  <2>1. tried[p] = { candidate(p, i) : i \in 0 .. Candidates(p) - 1 }
    BY <1>1 DEF FleetInv, WalkOK
  <2> QED
    BY <1>1, <2>1, WalkLength DEF FleetInv
<1>2. FleetInv => GivesUpLate
  BY <1>1 DEF GivesUpLate
<1> QED
  BY <1>2, FleetInvariant, PTL

\* A runtime that closed or failed has given its lock back
\* (runtime.py:416-419, 535-540, 660-664).
THEOREM NoLockIsLeaked == FleetSpec => []LocksHaveLiveOwners
<1>1. FleetInv => LocksHaveLiveOwners
  BY DEF FleetInv, LockOK, Holding, LocksHaveLiveOwners
<1> QED
  BY <1>1, FleetInvariant, PTL

=============================================================================
