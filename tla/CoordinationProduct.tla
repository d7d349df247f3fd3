------------------------ MODULE CoordinationProduct -------------------------
(***************************************************************************)
(* The product that formal.py explores: independent execution machines     *)
(* that share symbol claims and BUY cash, one execution each.  A state is  *)
(* a snapshot and a "held" bit per process; the scenario says what each    *)
(* process wants.  _encode_process() and the numbering of the snapshots    *)
(* are left out.  formal.py fixes three processes and four scenarios; here *)
(* both are parameters.                                                    *)
(***************************************************************************)
EXTENDS TradeMachine, Integers, FiniteSets, FiniteSetsExt

CONSTANTS Process,
          Scenarios       \* a set of FormalScenario

Order == [account : STRING, symbol : STRING, side : { "BUY", "SELL" },
          required_cash : Nat]

ASSUME ProductAssumption ==
  \A sc \in Scenarios :
    /\ sc.order \in [Process -> Order]
    /\ \A p \in Process : sc.cash[sc.order[p].account] \in Nat

VARIABLES scenario, snapshots, held

productVars == << scenario, snapshots, held >>

ProductInit ==
  /\ scenario \in Scenarios
  /\ snapshots = [p \in Process |-> initial_snapshot]
  /\ held = [p \in Process |-> FALSE]

-----------------------------------------------------------------------------
order(p) == scenario.order[p]

required_cash == [p \in Process |-> order(p).required_cash]

SameSymbol(p, q) ==
  order(p).account = order(q).account /\ order(p).symbol = order(q).symbol

claim_free(p) == \A q \in Process \ { p } : held[q] => ~SameSymbol(p, q)

active_reserved_cash(account, exclude) ==
  MapThenSumSet(LAMBDA q : required_cash[q],
                { q \in Process \ { exclude } :
                    held[q] /\ order(q).account = account /\ order(q).side = "BUY" })

\* Mutant of can_prepare: the cash of the account is not shared.
PrepareIgnoresOthers(p) ==
  /\ claim_free(p)
  /\ order(p).side = "BUY" => order(p).required_cash <= scenario.cash[order(p).account]

can_prepare(p) ==
  /\ claim_free(p)
  /\ order(p).side = "BUY" =>
       order(p).required_cash <=
         scenario.cash[order(p).account] - active_reserved_cash(order(p).account, p)

\* Mutant of can_restore: a restart takes its claim back unasked.
RestoreUnasked(p) == TRUE

can_restore(p) == claim_free(p)

\* The process is in the snapshot s, with or without its claim.
Becomes(p, s, holds) ==
  /\ snapshots' = [snapshots EXCEPT ![p] = s]
  /\ held' = [held EXCEPT ![p] = holds]
  /\ UNCHANGED scenario

-----------------------------------------------------------------------------
\* Mutant of AwaitsClaim: a process waits for the claim of another to go.
WaitsForClaim(p) == snapshots[p].state = "SUBMITTED" /\ ~held[p] /\ claim_free(p)

(***************************************************************************)
(* global_successors(): SUBMITTED without a claim, between the durable    *)
(* intent and the coordination.                                            *)
(***************************************************************************)
AwaitsClaim(p) == snapshots[p].state = "SUBMITTED" /\ ~held[p]

MayPrepare(p) == AwaitsClaim(p) /\ can_prepare(p)

MayReject(p) ==
  AwaitsClaim(p) /\ ~can_prepare(p) /\ CanAdvance(snapshots[p], "PRE_BROKER_REJECTED")

MayAbort(p) == AwaitsClaim(p) /\ CanAdvance(snapshots[p], "PRE_BROKER_ABORTED")

CoordinationOk(p) ==
  /\ MayPrepare(p)
  /\ Becomes(p, snapshots[p], TRUE)

CoordinationRejected(p) ==
  /\ MayReject(p)
  /\ Becomes(p, advance(snapshots[p], "PRE_BROKER_REJECTED"), FALSE)

CoordinationAbort(p) ==
  /\ MayAbort(p)
  /\ Becomes(p, advance(snapshots[p], "PRE_BROKER_ABORTED"), FALSE)

MayRestart(p) ==
  /\ AwaitsClaim(p)
  /\ CanAdvance(snapshots[p], "RESTART_RECOVERY")
  /\ CanAdvance(advance(snapshots[p], "RESTART_RECOVERY"), "RECOVERY_FAILED")
  /\ can_restore(p)

\* Mutant of RestartPrecoordination: the quarantined execution has no claim.
RestartWithoutClaim(p) ==
  /\ MayRestart(p)
  /\ Becomes(p, advance(advance(snapshots[p], "RESTART_RECOVERY"), "RECOVERY_FAILED"), FALSE)

\* A crash in between: the restart finds no order and quarantines.
RestartPrecoordination(p) ==
  /\ MayRestart(p)
  /\ Becomes(p, advance(advance(snapshots[p], "RESTART_RECOVERY"), "RECOVERY_FAILED"), TRUE)

(***************************************************************************)
(* SUBMITTED with the claim: the hook aborts, or the broker is called.     *)
(***************************************************************************)
SubmitOutcomes ==
  { "SUBMIT_ACCEPTED", "SUBMIT_AMBIGUOUS", "SUBMIT_REJECTED", "RESTART_RECOVERY" }

Invoking(p) == snapshots[p].state = "SUBMITTED" /\ held[p]

MayEnd(p, event) == Invoking(p) /\ CanAdvance(snapshots[p], event)

SidecarAbort(p) ==
  /\ MayEnd(p, "PRE_BROKER_ABORTED")
  /\ Becomes(p, advance(snapshots[p], "PRE_BROKER_ABORTED"), FALSE)

SubmitOutcome(p, event) ==
  /\ MayEnd(p, event)
  /\ Becomes(p, advance(snapshots[p], event), event # "SUBMIT_REJECTED")

(***************************************************************************)
(* Every other state: the machine moves and sync_phase() follows.  An     *)
(* unresolved execution that lost its claim only moves when the claim is   *)
(* free again.                                                             *)
(***************************************************************************)
CanSync(p, s) == ~ (execution_finality(s) # "RESOLVED" /\ ~held[p] /\ ~can_restore(p))

\* Mutant of sync_phase: the claim stays when the execution is resolved.
SyncKeepsClaim(p, s) ==
  /\ CanSync(p, s)
  /\ Becomes(p, s, held[p] \/ execution_finality(s) # "RESOLVED")

sync_phase(p, s) ==
  /\ CanSync(p, s)
  /\ Becomes(p, s, execution_finality(s) # "RESOLVED")

Moves(p, event) ==
  /\ snapshots[p].state # "SUBMITTED" /\ event # "NEXT_CYCLE"
  /\ CanAdvance(snapshots[p], event)

LocalEvent(p, event) ==
  /\ Moves(p, event)
  /\ IF event = "INTENT_PERSISTED"
     THEN Becomes(p, advance(snapshots[p], event), FALSE)
     ELSE sync_phase(p, advance(snapshots[p], event))

global_successors(p) ==
  \/ CoordinationOk(p)
  \/ CoordinationRejected(p)
  \/ CoordinationAbort(p)
  \/ RestartPrecoordination(p)
  \/ SidecarAbort(p)
  \/ \E event \in SubmitOutcomes : SubmitOutcome(p, event)
  \/ \E event \in Declared[snapshots[p].state] : LocalEvent(p, event)

ProductNext == \E p \in Process : global_successors(p)

\* global_successors() finds one: the guards of the actions above.
HasSuccessor(p) ==
  \/ MayPrepare(p) \/ MayReject(p) \/ MayAbort(p) \/ MayRestart(p)
  \/ \E event \in SubmitOutcomes \cup { "PRE_BROKER_ABORTED" } : MayEnd(p, event)
  \/ \E event \in Declared[snapshots[p].state] :
       Moves(p, event) /\ (event = "INTENT_PERSISTED" \/ CanSync(p, advance(snapshots[p], event)))

-----------------------------------------------------------------------------
(***************************************************************************)
(* No process sits on shared resources it does not need: a claim belongs   *)
(* to an execution with a durable intent that is not resolved, whatever    *)
(* mixture of rejections, aborts, restarts and cancels ended it            *)
(* (formal.py:634-642).                                                    *)
(***************************************************************************)
ClaimsAreNeeded ==
  \A p \in Process :
    held[p] => /\ execution_finality(snapshots[p]) # "RESOLVED"
               /\ "intent" \in snapshots[p].facts

(***************************************************************************)
(* An execution the broker may know of never loses its claim, restarts and *)
(* quarantine included: only SUBMITTED, between the intent and the         *)
(* coordination, is unresolved without one (formal.py:643-660).            *)
(***************************************************************************)
UnresolvedKeepsClaim ==
  \A p \in Process :
    ~held[p] => \/ execution_finality(snapshots[p]) = "RESOLVED"
                \/ snapshots[p].state = "SUBMITTED" /\ "submitted_once" \notin snapshots[p].facts

\* Two unresolved executions never claim one symbol of one account (formal.py:662-671).
OneClaimPerSymbol ==
  \A p, q \in Process : p # q /\ held[p] /\ held[q] => ~SameSymbol(p, q)

(***************************************************************************)
(* The BUY orders the broker was called for never need more cash than      *)
(* their account has, although a restart takes a reservation back without  *)
(* asking for cash (formal.py:673-691).                                    *)
(***************************************************************************)
InvokedCash(account) ==
  MapThenSumSet(LAMBDA q : required_cash[q],
                { q \in Process : /\ held[q] /\ "submitted_once" \in snapshots[q].facts
                                  /\ order(q).account = account /\ order(q).side = "BUY" })

InvokedCashIsCovered ==
  \A p \in Process : InvokedCash(order(p).account) <= scenario.cash[order(p).account]

(***************************************************************************)
(* _assert_global_invariants() (formal.py:625-691) in every reachable      *)
(* state of the product: shared resources follow finality in both          *)
(* directions, and neither a symbol nor the cash of an account is ever     *)
(* promised twice, whatever crashes, refusals and restarts are mixed.      *)
(***************************************************************************)
GlobalInvariants ==
  ClaimsAreNeeded /\ UnresolvedKeepsClaim /\ OneClaimPerSymbol /\ InvokedCashIsCovered

(***************************************************************************)
(* Nobody waits for ever: unless every execution has ended some process    *)
(* can move, so no mixture of claims, restarts and quarantine blocks them  *)
(* all (formal.py:744-755).                                                *)
(***************************************************************************)
TerminalStates == { "FILLED", "CANCELLED", "REJECTED", "FAILED" }

NoGlobalDeadlock ==
  (\E p \in Process : snapshots[p].state \notin TerminalStates) =>
    \E p \in Process : HasSuccessor(p)

=============================================================================
