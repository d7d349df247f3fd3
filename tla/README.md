# Verification of qmt-execution-core

TLA+ models of the execution core, TLC runs on small instances and TLAPS proofs
for every instance. Source paths below are relative to
`src/qmt_execution_core/`; `PROJECT.json` maps each definition to its lines.

## 1. The system

The library carries one trading order at a time ("an execution") from a
strategy's request to a confirmed outcome at a MiniQMT broker, through crashes,
restarts and ambiguous answers, and never sends an order twice.

| Part | State it keeps | Operations | Correct when |
|---|---|---|---|
| Execution state machine (`state_machine.py`, `domain.py`, `finality.py`, `recovery.py`) | a snapshot: state and safety facts | `advance`, `assert_invariants`, `execution_finality`, `event_for_observation` | no declared event can violate the invariants; an unresolved order is cleared only by broker evidence; no blind retry |
| Verifier (`verifier.py`, `formal.py`) | the explored graphs | `verify_state_machine`, run by every `open()`; `verify_release_model`, which adds the product of three processes | explores exactly the reachable states; the product keeps claims and cash and never blocks |
| Session and journal (`session.py`, `journal.py`, `mutex.py`) | snapshot and payload in memory, the journal file, the mutex | `open`, `submit`, `poll`, `reconcile`, `cancel`, `next_cycle`, `close` | durable before the broker sees anything; at most one placement per request; a live order is never forgotten; every file can be opened again; every order settles |
| Broker adapter (`miniqmt/adapter.py`, `miniqmt/status.py`) | nothing but health flags | `place_order`, `cancel_order`, `query_order(s)`, `query_asset` | an outcome that is not certain is never reported as certain |
| Coordination store (`coordination.py`) | symbol claims and cash reservations in SQLite | `prepare`, `restore`, `update_finality`, `has_claim` | claims and reservations are taken and given back together |
| Coordinated session (`coordinated_session.py`) | nothing of its own | hooks around `submit`, `_sync` after each call | a live order is covered by its claim and its reserved cash; one live order per symbol |
| Account authority (`authority.py`, `coordination.py`) | authority record, identity row of the database, per-account lock | `resolve`, bootstrap, certification | all runtimes of an account use one database |
| Callback queue (`event_queue.py`) | state, bounded queue, daemon thread | `start`, `try_emit`, `stop`, the consumer loop | RUNNING means nothing was lost and somebody consumes |
| Runtime (`miniqmt/runtime.py`, `runtime_gate.py`, `callbacks.py`, `binding.py`) | health signals, adapter flags, live gate, lock, trader, session | `connect`, `open`, `confirm_live`, `recover_after_disconnect`, `close`; `handle_callback` on the other thread; account queries | no new order without a complete recovery and, live, a fresh token; nothing left behind; every call ends |
| Session ids (`miniqmt/session_id.py`) | lease files, runtime mutex | the candidate walk of `connect` | two shared runtimes never use one session id, as long as their traders can be stopped; connect ends |
| Order identity (`journal.py`, `recovery.py`, `session.py`) | windows of used ids and remarks, the broker id | `assert_identity_unused`, `find_unique_managed_order`, `_validate_identity` | an execution follows no order but its own |

Interactions: the strategy calls the session, the session writes the journal and
calls the broker through the adapter; a coordinated session also runs
transactions on the store that the processes of one account share; which store
that is comes from the authority; broker callbacks go through the queue to the
runtime, which revokes the right to submit.

What is hard here: a crash between any two durable writes or broker calls; a
write that fails after memory has changed; a submission that raised and arrives
later; answers that are missing, old or inconsistent; several processes on one
store, each reading before it writes; threads of the callback queue meeting
`stop()`; a callback thread that clears flags, without a lock, while the
application sets them; processes with overlapping walks through one pool of
ids; orders that are known only by a remark others may use. `PROJECT.json` lists these hazards at their lines.

## 2. Modules

| Module | Models | State and actions |
|---|---|---|
| `TradeMachine` | transition table, `advance`, `assert_invariants`, `event_for_observation`, `execution_finality` | no variables; facts are the set of the facts that are True, evidence objects are reduced to being complete |
| `ExecutionMachine` | any sequence of accepted events: the abstract specification of an execution | `snapshot`; `Step(event)` |
| `MachineVerifier` | the exploration of `verify_state_machine` | adds the edge just taken. Without `edge` TLC finds 52 snapshots and 211 transitions, the numbers the Python function returns |
| `CoordinationProduct` | `formal.py`: three independent machines that share claims and cash | `scenario`, `snapshots`, `held`; `global_successors(p)`, each action a guard and an effect, `HasSuccessor(p)` the guards alone. In the four scenarios of the repository TLC finds 433,489 states, the `total_reachable_global_states` of the Python function |
| `ReleaseModel`, `MCReleaseModel` | `verify_release_model`: both explorations | `stage` says which; `MCReleaseModel` has the four scenarios |
| `Requests` | executions, requests and their owners | constants only |
| `Broker` | MiniQMT as the adapter sees it (external), status normalisation and volume checks (source) | `orders`, `placed`; an order moves by `Lifecycle` |
| `Session` | `ExecutionSession` and `ExecutionJournal` | `pc` (where the call stands), `open`, `mem`, `disk`, `req`, `seen`; one action is the code between two durable writes or broker calls; `Machine(e)` maps the journal file to `ExecutionMachine` |
| `PlainSession`, `MCPlainSession` | the exclusive session: no coordination hook | `Next`, fairness |
| `Coordination` | the store: one operator for the guard and one for the effect of each transaction | `claim`, `claimFinality`, `reservation` |
| `CoordinatedSession`, `MCCoordinatedSession` | processes of one account: `Session` composed with `Coordination` | adds `cashRead` and the steps of the hooks, the broker port and `_sync`; `Account` maps it to `SharedAccount` |
| `SharedAccount` | what coordination promises, without processes, journals, crashes or transactions: an order is a critical section of its symbol | `owner` of each symbol, `live` and `traded` orders; `Acquire`, `GiveUp`, `Trade`, `Settle` |
| `EventQueue` | `SerialEventQueue` with the lock given back where the code gives it back | `state`, `queue`, `emitter`, `stopper`, `consumer`, `item` |
| `Runtime`, `MCRuntime` | `MiniQmtRuntime` of one process: the application's thread, the daemon thread, QMT's callbacks; the queries and selections of `binding.py` | `call` and `at` (the method and its next statement, from `Script`), `held` (with `"orphan"` for a trader whose `stop()` failed), `signals`, `adapter`, `confirmed`, the queue and the handler; histories `chain` (recovery steps made since they were last lost), `excused` (the steps a True stands in for), `fresh` |
| `RuntimeFleet`, `MCRuntimeFleet` | runtimes of several processes on one userdata path, exclusive or shared | `pc`, `index` (candidate), `trader`, `left` (traders that run on after a `stop()` that failed), `mutex`, `lease` |
| `OrderIdentity`, `MCOrderIdentity` | what names an order: client id, remark, leg, strategy name; the windows of the journal; recovery by remark among orders of others | the journal's data, `book` (orders the account shows), `flight` (orders that may still arrive) |
| `Authority` | `resolve`, bootstrap, certification and opening of the database, transactions of an attached coordinator | `pc`, arguments and result of each process, `lock`, `authority`, `db` |
| `OperatorLemmas` | lemmas about `TradeMachine` and about finite sums | |
| `ReleaseModelProofs`, `SessionProofs`, `PlainSessionProofs`, `CoordinatedSessionProofs`, `EventQueueProofs`, `IdentityProofs` (of `Authority` and `OrderIdentity`), `RuntimeProofs` (of `Runtime` and `RuntimeFleet`) | lemmas and theorems of the modules named | the inductive invariants |

Definitions marked "Mutant of" are plausible bugs, used to show that each
property can fail; nothing else refers to them.

How failures appear. `Stop(e)` is `close()` and, with `"crash" \in Faults`, the
death of the process at any `pc`: memory and mutex go, the file stays. `Write`
replaces the file, or (at the sites of `FaultyWrites`) raises with the payload in
memory already changed, as `journal.py` does. `PlaceAmbiguous` covers the three
truths behind an ambiguous submission: taken, on its way, never arrived. A query
may be answered fresh, stale, torn (volume read before status), with raw status
255, or not at all. A transaction of the store may fail (`"db"`), and so may the
account query that `restore` needs. In a coordinated `submit()` or `cancel()`
the inner `poll()` synchronises and the outer call synchronises again; the second
finds nothing left to do and is not a step.

In `Runtime` a statement that writes a flag is a step, so each of the handler's
four writes can fall between any two of `open()` or the recovery. Reads are
grouped where that is sound: while the application is inside `submit()` flags
only become False, and the handler clears the signals before the adapter.
`MayRaise` lists the calls that leave the process; an account query may answer
anything in `InfoAnswers` or `StatusAnswers`, or nothing in any attempt. In
`RuntimeFleet` a crash takes the locks, as the operating system does. In
`OrderIdentity` an ambiguous submission stays in `flight` and may arrive in a
later cycle; nothing is assumed of the orders of others, which may bear our
remarks, our legs, our strategy name or none.

`_best_effort_stop()` swallows a `stop()` that raises or is missing. In `Runtime`
the trader then becomes an orphan, in `RuntimeFleet` its id goes into `left`, and
in both the code goes on and releases the lock. What an orphan would still call
back is not modelled beyond the queue: after a failed `connect()` or a `close()`
it meets a stopped queue; the callbacks of a candidate that was left behind in the
shared mode, before the next candidate's trader starts, are left out.

## 3. Runs

| Run | Shows | Instance |
|---|---|---|
| `release_model` | `NoInvariantViolation`, `ReleaseIsResolved`, `ObservationsAreTotal`, `UnresolvedNeedsEvidence`, `NoBlindRetry` on every path of the machine; `GlobalInvariants` (the assertions of `formal.py`) and `NoGlobalDeadlock` in the product | complete: 171 states of the machine beside 433,489 of the product |
| `session_faults` | `AtMostOnePlacement`, `LiveOrderIsTracked`, `TerminalIsTrue`, `JournalReopens`, `DurableBeforeBroker` | 1 execution, 2 requests (so a cycle follows a cycle), all broker moves, all kinds of answer, all faults, every write but that of the order id may fail; 1.03 million states |
| `session_liveness` | `EveryOrderSettles`; the journal file implements `ExecutionMachine` (`JournalRefinesMachine`) | 1 execution, 1 request, crashes and lost answers, 5,290 states |
| `same_symbol` | `LiveOrderHasClaim`, `ReservationMatchesClaim`; sessions and store implement `SharedAccount` (`ImplementsAccount`) | 2 processes, 1 symbol, a BUY and a SELL, crash, hook, submit and store faults; 0.93 million states |
| `cash_contention` | `LiveCashIsCovered`, `ClaimIsTraceable` | 2 processes, 2 symbols, cash for one BUY, no store fault; 0.94 million states |
| `event_queue` | `HealthyLosesNothing`, `NoRevival`, `AcceptedIsHandled`, `StopEndsThread` | 4 callbacks, queue of 2, so that it overflows before and after `stop()` |
| `authority` | `OneDomain`, `NoOtherIdentity`, `WrittenOnce` | 3 processes, 2 paths, 3 uuids, files lost, replaced, or created again by a transaction; 158,035 states |
| `runtime` | `RecoveryIsComplete`, `FreshConfirmation`, `NothingLeftBehind`; `DisconnectIsNoticed`, `CallsEnd` | simulation and live, queue of 1, 2 callbacks of 4 kinds, 2 attempts per query; 555,985 states |
| `fleet` | `SessionIdsDiffer`, `GivesUpLate`, `LocksHaveLiveOwners`; `ConnectEnds` | 3 processes of 5 configurations (up to permutation of the processes, which are interchangeable), a pool of 2, 3 attempts, a crash, a trader that cannot be stopped (`MaxLeft`); 419,994 states |
| `identity` | `ReuseIsFarApart`, `AdoptedOrderIsOurs` | a window of 2 and 5 cycles, so that remarks are used again; 5 kinds of strangers, with our remark or our name among them; 846,161 states |

Two runs state what a comment of the repository says and TLC shows that the code
does otherwise (details under "findings"); both were reproduced on the Python
code:

| Run | The code |
|---|---|
| `order_id_write_fails` | after the broker took the order and the write of its id failed, an ambiguous poll ends FAILED and RESOLVED with the order live |
| `next_cycle_crash` | a crash between the two writes of `next_cycle()` leaves a journal on which the next `submit()` fails and every later `open()` is FAILED |

Other places where code and documents differ, met while modelling. They have no
run; stated as an invariant of the module named, TLC refutes each of the first
seven. No property of a run catches them, which `PROJECT.json` says at each of
these hazards.

- A crash between the durable intent and the claim (`session.py:151`): another
  process claims the symbol, and the restarted execution is UNKNOWN or
  quarantined beside it. `docs/SPECIFICATION.md:152-154` allows one unresolved
  execution per symbol. No order is doubled (`SymbolsAreExclusive`).
  (`CoordinatedSession`)
- The cash is read before the transaction that checks and reserves it
  (`coordinated_session.py:165`); `docs/SPECIFICATION.md:178` wants
  read, check and reserve in one. (`CoordinatedSession`)
- When the `_sync()` of a resolved execution fails, `next_cycle()` does not
  synchronise again and forgets the request (`coordinated_session.py:152`): the
  claim stays for ever, a state `formal.py:635-638` rejects. This is why
  `ClaimIsTraceable` is checked without store faults. (`CoordinatedSession`)
- `open()` writes True over a disconnect that was handled between its account
  check and its writes, or before a second `open()` (`miniqmt/runtime.py:554`):
  orders may be placed without a new `trader.connect()`, which
  `docs/SPECIFICATION.md:303-306` excludes. Inside `recover_after_disconnect()`
  the same happens to less: a disconnect handled between `trader.connect()` and
  the True of line 608 is overwritten for the link, an event handled between 611
  and 623 for the account. `RecoveryIsComplete` therefore says: each of the five
  steps was made since it was last lost (`chain`), or a True or a completed
  `open()` stands in for it (`excused`), which in a recovery is never the
  subscription, the reconciliation or the evidence. (`Runtime`)
- A `stop()` of the trader that raises or is missing is swallowed
  (`miniqmt/runtime.py:734-740`), and the lease or the mutex is released all the
  same (416-419, 535-540, 660-664): the next runtime may start a trader under the
  id of one that still runs, although
  `docs/archive/v0.4/CORE_SPEC_V0_4_RESOURCE_COORDINATION.md:495` wants different
  session ids in different processes. `SessionIdsDiffer` is about the traders their
  runtimes have not yet stopped; `NothingLeftBehind` allows the orphan and nothing
  else. (`RuntimeFleet`)
- `_validate_identity` compares the strategy name only when the order has one
  (`session.py:435`): with our remark and leg, an order of another that has no name,
  or our name, is adopted. `AdoptedOrderIsOurs` names this case and shows that no
  other is, and that none that came into the account after the execution's own order
  ever is. (`OrderIdentity`)
- A coordinator checks the identity of its database once, when it is built
  (`coordination.py:285`); a file replaced later is used, although
  `docs/SPECIFICATION.md:213-229` allows shared execution only while the
  identities match. (`Authority`)
- FAILED declares no event, so quarantine is never left, although
  `finality.py:41` says "until authoritative reconciliation".
- When the stop marker does not fit, a late overflow turns STOPPED into FAILED
  and the daemon thread waits for ever, although `event_queue.py:95-96` says it
  will exit; `CallsEnd` holds because `join()` has a timeout.
- A bootstrap that stops after the database is committed leaves it without a
  record, and later bootstraps refuse it.
- A shared runtime does not take the runtime mutex, so an exclusive and a shared
  one can run side by side on one userdata path, even under one session id when
  the exclusive one draws it from the pool.

Why the bounds are enough. One execution is sequential, so two requests cover
"a cycle after a cycle" and three add nothing new to any guard. Two processes
cover every pair of interleaved transactions, and the guards of the store look at
one other owner at a time; the product has three, as in `formal.py`. A queue of
two with four callbacks overflows while the consumer holds an item and the marker
competes for the last place. Two callbacks are enough for the runtime: one that is
handled while another is written over or overflows the queue of one. Three
processes and two ids leave one without a lease, and an attempt limit above the
pool size exercises the cap; one trader left behind is enough for another runtime to
take its id, and the run reaches that. A window of two forgets an id within five cycles and
leaves cycles on both sides of the reuse. An order has two lots: none, part, all.
`placed` counts to at most two in any mutant and needs no cap. What does not
depend on these bounds is proved (section 5).

Deadlock is checked except in `release_model` (FAILED ends an execution),
`event_queue` (the thread ends), `runtime`, `fleet` (a closed or failed runtime
stays so) and `identity` (cycles are bounded).

Type invariants are checked where they are also proved, as part of the proofs'
inductive invariants (session, queue, authority).

## 4. Fairness

`session_liveness`: weak fairness of a process that is inside a call, of opening
a stopped execution and of the broker's own moves; strong fairness of the
recovery and polling steps, because crashes and unanswered queries may be many but
do not hit the same step for ever. The library does not poll or restart by
itself: `docs/OPERATIONS.md` gives both to the operator, and the property
assumes that. "Settled" is FILLED, CANCELLED, REJECTED or quarantined: one failed
recovery query is enough for quarantine.
`event_queue`: weak fairness of threads inside a method and of the daemon;
nothing is assumed about `stop()` or new callbacks.
`runtime`: weak fairness of the application's thread inside a method and of the
daemon thread inside the handler, which is what the operating system gives them.
Nothing is assumed about calls, callbacks or what the trader answers.
`fleet`: weak fairness of each process inside `connect()` or its teardown; nobody
has to call `close()`, and crashes are bounded.

## 5. Proofs

`ReleaseModelProofs`. Of one machine, on any path: `TypeCorrect`,
`AssertionNeverFires`, `ReleaseSound`, `ObservationsTotal`, `EvidenceNeeded`,
`BlindRetryImpossible`. `assert_invariants()` is not inductive: it says nothing
of the facts of REJECTED and FAILED and too little of ACCEPTED, WORKING and
PARTIALLY_FILLED. `Consistent` says which facts each state carries; it is
preserved event group by event group (`ConsistentPreserved`) and implies the
assertion.

Of the product, for any finite number of processes and any orders, accounts and
cash (`formal.py` explores three processes in four scenarios):
`SharedResourcesAreSafe`, that is `GlobalInvariants`,
`ReleaseExploresMachine` and `NobodyWaitsForEver`. The cash is the difficult part: a restarted execution
takes its reservation back without asking for cash, so the cash of those who
*hold* a reservation may exceed the account. `ProductInv` counts those who may
still call the broker or have called it (`MayInvoke`): whoever restarts without
having called it is quarantined as FAILED and is not among them.

`NobodyWaitsForEver` is the deadlock check of `formal.py:744-755`
(`NoGlobalDeadlock`) and more: every execution that has not ended has a
successor of its own (`NobodyIsBlocked`), whatever the others hold. ENABLED is
out of the prover's reach, so each action of the product is a named guard and an
assignment, and `HasSuccessor` is the disjunction of the guards, as
`_global_successors` returns a list that is empty or not; TLC confirmed on the
instance of `release_model` that it equals `ENABLED global_successors(p)`. The
argument: from every state that is not terminal an event that ends it is
accepted (`WayOut`); a step could only wait for a claim if its execution were
unresolved without one, and by `UnresolvedKeepsClaim` that is SUBMITTED before
the coordination, where aborting is always possible.

`EventQueueProofs` (any queue size, any number of callbacks): `TypeCorrect`,
`HealthySound`, `UnhealthyForGood`.
The strengthening: an unstarted queue is untouched, and a `stop()` that has not
yet put its marker has already left RUNNING. Assumption: `MaxSize > 0` and the
marker is no event.

`IdentityProofs`. Of the authority (any processes, paths, uuids): `TypeCorrect`,
`SingleDomain`, `IdentityIsUnique`, `RecordIsFinal`. The strengthening: whoever
is inside `resolve()` has the lock, a bootstrap under way means there is no
record, and the database it is about to certify carries its uuid.

Of the order identity (any window, requests, strangers, cycles):
`ReusedRemarksAreFarApart`, `AdoptedOrdersAreOurs`. The two properties speak of
the account's book; the code looks only into the journal's window. `IdentityInv`
ties them together: every cycle has one intent, so the remark of an order, in the
book or still on its way, stands in the window at the place of its cycle
(`Place`), unless the order is older than the window. `assert_identity_unused`
then excludes that a new intent repeats the remark of a younger order. Nothing is
assumed of the orders of others, so an order that passes `_validate_identity` under
our remark may be another's; `Followed` says that it is then an order that nothing
in it tells from ours. `FirstOK` says why it never displaces an own order: recovery
wants exactly one match, and once this cycle's order is in the book it is a match
itself, so an order of another can only have been adopted before.
`KeepLastMovesOn` says what `[-Window:]` does to the places.

`PlainSessionProofs`, over the lemmas of `SessionProofs` (any number of
executions and requests, any owners, any broker lifecycle within `AllMoves`, any
answers and faults, any set of failing writes without `"persistId"`):
`PlainTypeCorrect`, `NoOrderIsResent`, `NoOrderIsForgotten`,
`TerminalStatesAreTrue`, `EveryJournalReopens`, `WriteAhead`. The write of the
broker order id is excluded because `NoOrderIsForgotten` is false with it
(run `order_id_write_fails`). The invariant `SessionInv` has three parts:

- `Placements`: the broker holds an order exactly when it took one, once;
- `JInv` of the file, and of the memory while the session is up: the snapshot is
  `Consistent`, the intent is the execution's own and among its used ids, the
  order id is the intent's, everything ever placed is among the used ids, an
  active order is tracked, a terminal state is the broker's;
- `Local`: what holds at each place of the code. Its heart: between
  INTENT_PERSISTED and the answer of the broker, memory and file both say
  SUBMITTED with this request and nothing has been placed; and a payload in
  SUBMITTED that a later call can meet has no order id, so that the FATAL of a
  later poll never hits it.

An event is judged by `SafeEvent` (closing events only without an active order,
FATAL not from SUBMITTED, terminal events only with the broker's final status) and
`AdvanceJInv`, `WriteInv` and `TransitionInv` turn that into one short lemma per
action; `Assemble` adds the other executions, for which the step is `Quiet`.
The lemmas are about `Session`, and the coordinated session uses them too.

`JournalImplementsMachine` (no failing writes): the journal file of every
execution implements `ExecutionMachine`. The additional invariant is
`Synchronous`: memory and file of a session that is up carry the same snapshot,
so a transition of the memory is one of the file. It is false when writes fail,
as memory then runs ahead and the next write skips a state. The file therefore
inherits what the machine never does, and `JournalKeepsEvidence` says so in terms
of the file: an unresolved order is dropped only with a confirmed terminal order,
and the order path is entered again only over a resolved execution
(`EvidenceClears` and `ResolvedRetries` of `OperatorLemmas` serve the machine and
the file alike).

`CoordinatedSessionProofs` (any processes, requests, symbols, answers, faults):

- `LiveOrdersAreClaimed`, `SymbolsAreExclusive`, `ReservationsFollowClaims` and
  `CoordinationKeepsTheSession` from `CoordInv`: `SessionInv`, what the store's
  transactions keep, that whoever is about to call the broker owns the symbol,
  and so does every order that is or may become active. As for the plain session,
  the write of the order id must not fail.
- `LiveCashCovered` from `CashInv`, for a finite set of requests. As in the
  product, reservations alone may exceed the cash, so `Committed` counts the
  active orders and the submissions already granted; that the cash read before
  the transaction may be old does no harm, because what was read is at most the
  account's cash and the check counts every reservation. It also needs that a request that is not yet
  granted owns nothing, hence the claims on used identities.
- `ClaimsAreTraceable` from `TraceInv`, when neither a write nor a transaction
  fails. With `"db"` faults it is false (section 3), and with failing writes the
  file no longer says what memory knows.
- `CoordinatedJournalImplementsMachine`, `CoordinatedJournalKeepsEvidence` (no
  failing writes, any failing transactions) and `CoordinatedWriteAhead`: what the
  plain session promises of its file holds with the hooks filled in. Each step
  writes the file at most once (`CoordinatedFollows`), and the steps of the hooks
  not at all.
- `CoordinationImplementsAccount`, for a finite set of requests: the whole
  composition implements `SharedAccount`, with `owner` the claims, `live` the
  orders that are or may become active and `traded` the orders ever taken. A
  transaction of the store is `Acquire`, `GiveUp` or a stutter (`StoreMoves`): a
  claim is given up only when no order of it is live, because `CoordInv` holds
  after the step. The broker call is `Trade` (`PlacingTrades`): the claim was
  granted, nothing was placed before, and `CashInv` after the step bounds the cash
  (`NeededIsCovered`). A move of the broker is `Settle` or a stutter
  (`BrokerMoves`); every other step of every process is a stutter, a cancel request
  that reached the broker included (`OrdinaryMoves`).

Sums are over sets. `OperatorLemmas` has what is needed of them (one element more
or less, monotone); induction over an operator being out of reach, each lemma
takes a smallest set for which it fails, which the well-foundedness of the strict
subsets of a finite set provides, and contradicts it.

`RuntimeProofs`. Of one runtime (any environment, answers, attempts, queue size,
callbacks): `RecoveryCompletes`, `ConfirmationsAreFresh`, `TeardownIsComplete`,
from `RuntimeInv`. `Positions` says where each statement stands, so that a step
knows what came before it. `FlagsOK` says for which steps of the recovery each
flag that is up stands, each of them made since it was last lost or replaced by a
True (`Done`); `ProgressOK` which flags are still down and which steps are done at
each statement; `ConfirmOK` that no
confirmation is up during a recovery, and an old one only while the adapter is
not ready; `TeardownOK` what is already given back. `ConfirmationsAreFresh` is about
`recover_after_disconnect()`: an `open()` keeps the confirmation there is. The handler only ever makes
the hypotheses of these false, which is why its writes may fall anywhere.

Of the fleet (any processes, pool, attempts, configurations, crashes):
`NoSharedSessionId`, `WalksTheWholePool`, `NoLockIsLeaked`, from `FleetInv`: a
lease belongs to a process exactly while it stands between `acquire()` and
`release()` at that candidate, and the trader it has not yet stopped runs under it
(`LockOK`; of the traders in `left` it says nothing), and what it has tried is the walk up to
there (`WalkOK`). The walk repeats no id because `offset + i` modulo the pool
size is injective below the pool size (`CandidatesDiffer`).

The invariants of the coordinated session, the product, the runtime, the fleet and
the order identity were also model-checked on the instances of the runs
(`TraceInv` on `cash_contention`, which has no `"db"` fault). Assumptions on constants are those of the modules' `ASSUME`s
and the hypotheses named here.

Only model-checked: the liveness properties (`EveryOrderSettles`,
`AcceptedIsHandled`, `StopEndsThread`, `DisconnectIsNoticed`, `CallsEnd`,
`ConnectEnds`), fairness being out of the prover's reach, and the exploration
counts. Every invariant, action property and refinement of a passing run is
proved. No module a theorem
rests on uses a RECURSIVE operator.

`CoordinatedSession` is not claimed to implement `CoordinationProduct`: the
product moves a process and its claim in one step, while the code gives the claim
back in a transaction after the journal write, and a restart reaches quarantine
in two writes. What the product asserts of claims and cash is restated for the
code's own steps (`LiveOrderHasClaim`, `LiveCashIsCovered`).

## 6. Not modelled, and the plan

Not modelled, because it keeps no state or no property depends on it: the command
line, ports and exception types; the comparison of the transition table with the
source text by `ast` and the source hashes (`formal.py:247-352`); loading of
xtquant and parsing of configurations; platform path discovery and the validation
of identity strings; the journal's bounded history list and schema checks; the
polling loop of a mutex with a timeout and its byte-range locks; the conversion of
positions and trades. Of the account binding the file itself is left out: an
operator writes it in place before any runtime exists, it is read once before
`connect()` holds anything, and a file that does not parse or match is refused.

In place: every component of section 1 with its runs, and proofs of every safety
property, action property and refinement the runs check. Left: the type
invariants of `Runtime` and `OrderIdentity` for the parts no property needs
(queue contents, the list of client ids), and proofs of the liveness properties,
for which this prover has no rules.
