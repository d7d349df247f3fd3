------------------------- MODULE CoordinatedSession -------------------------
(***************************************************************************)
(* CoordinatedExecutionSession (coordinated_session.py): the processes of  *)
(* one account, each an ExecutionSession, sharing the coordination store.  *)
(* The session's hooks are filled in: cash is read and the symbol claimed  *)
(* before the project sidecar, a refused submission releases what it       *)
(* claimed, and every call that returns normally synchronises the store    *)
(* with the finality of the snapshot (_sync).                              *)
(***************************************************************************)
EXTENDS Session, Coordination

CONSTANTS Cash            \* the account's cash before any order

VARIABLES cashRead        \* the broker cash a submit() has read

vars == << brokerVars, sessionVars, coordinationVars, cashRead >>

ASSUME CashAssumption == Cash \in Nat

Init ==
  /\ SessionInit
  /\ CoordinationInit
  /\ cashRead = [e \in Exec |-> 0]

(***************************************************************************)
(* query_asset(): cash not frozen or spent by the BUY orders the broker    *)
(* holds.                                                                  *)
(***************************************************************************)
CashTaken ==
  CashOf({ r \in Request : Side[r] = "BUY" /\ orders[r] \in ACTIVE_RAW \cup { "SUCCEEDED", "PART_CANCEL" } })

AvailableCash == Cash - CashTaken

(***************************************************************************)
(* _coordinate_before_submit(): the cash is read first, the transaction    *)
(* comes later and uses what was read.                                     *)
(***************************************************************************)
ReadCash(e) ==
  /\ pc[e] = "coord"
  /\ \/ /\ Goto(e, "prepare")
        /\ cashRead' = [cashRead EXCEPT ![e] = IF Side[req[e]] = "BUY" THEN AvailableCash ELSE 0]
     \/ /\ Side[req[e]] = "BUY" /\ "guard" \in Faults
        /\ Goto(e, "preRejected")
        /\ UNCHANGED cashRead
  /\ UNCHANGED << open, mem, disk, req, seen, brokerVars, coordinationVars >>

PrepareGranted(e) ==
  /\ pc[e] = "prepare"
  /\ CanPrepare(req[e], cashRead[e])
  /\ Prepare(req[e])
  /\ Goto(e, "sidecar")
  /\ cashRead' = [cashRead EXCEPT ![e] = 0]
  /\ UNCHANGED << open, mem, disk, req, seen, brokerVars >>

\* A CoordinationError rejects the submit, any other exception aborts it.
PrepareRefused(e) ==
  /\ pc[e] = "prepare"
  /\ \/ ~ CanPrepare(req[e], cashRead[e]) /\ Goto(e, "preRejected")
     \/ "db" \in Faults /\ (Goto(e, "preRejected") \/ Goto(e, "preAborted"))
  /\ cashRead' = [cashRead EXCEPT ![e] = 0]
  /\ UNCHANGED << open, mem, disk, req, seen, brokerVars, coordinationVars >>

\* A release, or a transaction that fails: next step in either case.
Release(e, r, done, failed) ==
  \/ CanUpdateFinality(r, "RESOLVED") /\ UpdateFinality(r, "RESOLVED") /\ Goto(e, done)
  \/ /\ ~ CanUpdateFinality(r, "RESOLVED") \/ "db" \in Faults
     /\ Goto(e, failed) /\ UNCHANGED coordinationVars

(***************************************************************************)
(* _run_project_sidecar(): an exception of the hook releases the resources *)
(* and aborts the submit, also when the release itself fails.              *)
(***************************************************************************)
CoordinatedSidecar(e) ==
  /\ pc[e] = "sidecar"
  /\ \/ Goto(e, "place")
     \/ "hook" \in Faults /\ Goto(e, "sidecarRelease")
  /\ UNCHANGED << open, mem, disk, req, seen, brokerVars, coordinationVars, cashRead >>

SidecarRelease(e) ==
  /\ pc[e] = "sidecarRelease"
  /\ Release(e, req[e], "preAborted", "preAborted")
  /\ UNCHANGED << open, mem, disk, req, seen, brokerVars, cashRead >>

(***************************************************************************)
(* _CoordinatedBrokerPort.place_order(): a definitive rejection releases   *)
(* before it is raised; a release that fails raises CoordinationError out  *)
(* of submit(), with the snapshot still SUBMITTED.                         *)
(***************************************************************************)
CoordinatedPlaceRejected(e) ==
  /\ pc[e] = "place" /\ "submit" \in Faults
  /\ Goto(e, "rejectRelease")
  /\ UNCHANGED << open, mem, disk, req, seen, brokerVars, coordinationVars, cashRead >>

RejectRelease(e) ==
  /\ pc[e] = "rejectRelease"
  /\ Release(e, req[e], "subRejected", "idle")
  /\ UNCHANGED << open, mem, disk, req, seen, brokerVars, cashRead >>

\* Mutant of SyncCheck: a resolved execution needs no synchronisation.
SyncSkipsResolved(e) ==
  /\ pc[e] = "ret"
  /\ open' = [open EXCEPT ![e] = TRUE]
  /\ Goto(e, IF mem[e].intent = None \/ execution_finality(mem[e]) = "RESOLVED" THEN "idle"
             ELSE IF OwnsClaim(mem[e].intent) THEN "syncUpdate"
             ELSE "syncRestore")
  /\ UNCHANGED << mem, disk, req, seen, brokerVars, coordinationVars, cashRead >>

(***************************************************************************)
(* _sync(): has_claim(), then one transaction that depends on it.  Nothing *)
(* is done for an execution without a durable request; a claim of another  *)
(* execution ends a resolved sync quietly and an unresolved one with       *)
(* SymbolClaimConflict.  Either way the call is over.                      *)
(***************************************************************************)
SyncCheck(e) ==
  /\ pc[e] = "ret"
  /\ open' = [open EXCEPT ![e] = TRUE]
  /\ LET r == mem[e].intent IN
     \/ /\ r # None /\ OwnsClaim(r)
        /\ Goto(e, "syncUpdate")
     \/ /\ r # None /\ claim[SymbolOf[r]] = None /\ execution_finality(mem[e]) # "RESOLVED"
        /\ Goto(e, "syncRestore")
     \/ /\ \/ r = None
           \/ r # None /\ Conflict(r)
           \/ r # None /\ claim[SymbolOf[r]] = None /\ execution_finality(mem[e]) = "RESOLVED"
           \/ r # None /\ "db" \in Faults
        /\ Goto(e, "idle")
  /\ UNCHANGED << mem, disk, req, seen, brokerVars, coordinationVars, cashRead >>

SyncUpdate(e) ==
  /\ pc[e] = "syncUpdate"
  /\ LET r == mem[e].intent
         finality == execution_finality(mem[e])
     IN \/ CanUpdateFinality(r, finality) /\ UpdateFinality(r, finality)
        \/ (~ CanUpdateFinality(r, finality) \/ "db" \in Faults) /\ UNCHANGED coordinationVars
  /\ Goto(e, "idle")
  /\ UNCHANGED << open, mem, disk, req, seen, brokerVars, cashRead >>

\* The cash a BUY needs is estimated again, from account facts that may not
\* be available.
SyncRestore(e) ==
  /\ pc[e] = "syncRestore"
  /\ LET r == mem[e].intent IN
     \/ CanRestore(r) /\ Restore(r, execution_finality(mem[e]))
     \/ /\ \/ ~ CanRestore(r)
           \/ "db" \in Faults
           \/ Side[r] = "BUY" /\ "guard" \in Faults
        /\ UNCHANGED coordinationVars
  /\ Goto(e, "idle")
  /\ UNCHANGED << open, mem, disk, req, seen, brokerVars, cashRead >>

-----------------------------------------------------------------------------
CoordinationStep(e) ==
  \/ ReadCash(e) \/ PrepareGranted(e) \/ PrepareRefused(e) \/ CoordinatedSidecar(e)
  \/ SidecarRelease(e) \/ CoordinatedPlaceRejected(e) \/ RejectRelease(e)
  \/ SyncCheck(e) \/ SyncUpdate(e) \/ SyncRestore(e)

Step(e) ==
  \/ CoordinationStep(e)
  \/ (SessionStep(e) \/ PreBrokerRejected(e)) /\ UNCHANGED << coordinationVars, cashRead >>

Invoke(e) == Call(e) /\ UNCHANGED << coordinationVars, cashRead >>

BrokerNext ==
  \E r \in Request : BrokerMove(r) /\ UNCHANGED << sessionVars, coordinationVars, cashRead >>

Next == BrokerNext \/ \E e \in Exec : Step(e) \/ Invoke(e)

Spec == Init /\ [][Next]_vars

-----------------------------------------------------------------------------
(***************************************************************************)
(* The point of the coordination store: an order that is or may become     *)
(* active at the broker is covered by its own symbol claim and, for a BUY, *)
(* by an active reservation, through every crash, restart, lost answer and *)
(* failed transaction of any process (SPECIFICATION.md, 3.3 and 4).        *)
(***************************************************************************)
LiveOrderHasClaim ==
  \A r \in Request : Live(r) =>
    /\ OwnsClaim(r)
    /\ Side[r] = "BUY" => reservation[r] = "active"

(***************************************************************************)
(* Two executions never have active orders on the same symbol of the       *)
(* account, whichever processes submitted them.                            *)
(***************************************************************************)
OneLiveOrderPerSymbol ==
  \A r, q \in Request : r # q /\ SymbolOf[r] = SymbolOf[q] => ~ (Live(r) /\ Live(q))

(***************************************************************************)
(* Claims and reservations are taken and given back together: a BUY holds  *)
(* reserved cash exactly while it owns its symbol, so no cash is reserved  *)
(* for ever by an execution that has let its symbol go                     *)
(* (coordination.py:511-830).                                              *)
(***************************************************************************)
ReservationMatchesClaim ==
  \A r \in Request : reservation[r] = "active" <=> Side[r] = "BUY" /\ OwnsClaim(r)

(***************************************************************************)
(* Broker-held BUY orders whose reservation is active never need more than *)
(* the account's cash, although each process reads the cash before its     *)
(* transaction (formal.py:673-691 asserts it of an abstract product).      *)
(***************************************************************************)
LiveCashIsCovered ==
  CashOf({ r \in Request : Live(r) /\ reservation[r] = "active" }) <= Cash

(***************************************************************************)
(* Every claim can be traced to the execution that must give it back: the  *)
(* journal file of its owner carries the same request, so the owner's next *)
(* _sync() sees it (coordinated_session.py:249-299, session.py:323-329).   *)
(***************************************************************************)
ClaimIsTraceable ==
  \A s \in Symbol : claim[s] # None => disk[Owner[claim[s]]].intent = claim[s]

(***************************************************************************)
(* The processes, their journals, their crashes and the transactions of    *)
(* the store together implement SharedAccount: a symbol is taken when it   *)
(* is free and given up when its order is over, an order is placed once,   *)
(* under its own claim and within the account's cash                       *)
(* (coordinated_session.py:155-299, coordination.py:511-830).              *)
(***************************************************************************)
LiveRequests == { r \in Request : Live(r) }
PlacedRequests == { r \in Request : placed[r] # 0 }
NeededCash(requests) == CashOf({ r \in requests : Side[r] = "BUY" })

Account == INSTANCE SharedAccount WITH
  owner <- claim, live <- LiveRequests, traded <- PlacedRequests, Needs <- NeededCash

ImplementsAccount == Account!Spec

=============================================================================
