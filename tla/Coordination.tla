---------------------------- MODULE Coordination ----------------------------
(***************************************************************************)
(* SQLiteExecutionCoordinator (coordination.py): the symbol claims and     *)
(* cash reservations every process of one account shares.  Each operation  *)
(* is one BEGIN IMMEDIATE transaction, so it is one step here: an operator *)
(* for its guard and one for what it writes.  A transaction that cannot    *)
(* begin or commit changes nothing (CoordinationError).                    *)
(*                                                                         *)
(* A row (execution_id, client_order_id) is a request, so the claim of a   *)
(* symbol is the request that owns it.                                     *)
(***************************************************************************)
EXTENDS Integers, FiniteSetsExt, Requests

CONSTANTS Symbol,         \* symbols of the account
          SymbolOf,       \* request -> symbol
          Side,           \* request -> "BUY" or "SELL"
          RequiredCash    \* request -> the estimator's conservative amount

VARIABLES claim,          \* symbol_claim: symbol -> request or None
          claimFinality,  \* symbol_claim.finality
          reservation     \* cash_reservation of a BUY: "none", "active", "released"

coordinationVars == << claim, claimFinality, reservation >>

ASSUME CoordinationAssumption ==
  /\ SymbolOf \in [Request -> Symbol]
  /\ Side \in [Request -> { "BUY", "SELL" }]
  /\ RequiredCash \in [Request -> Nat]

CoordinationInit ==
  /\ claim = [s \in Symbol |-> None]
  /\ claimFinality = [s \in Symbol |-> "OPEN"]
  /\ reservation = [r \in Request |-> "none"]

\* Mutant of Conflict: another execution's claim is not looked at.
ConflictIgnored(r) == FALSE

\* The row of r's symbol: the claim r owns, or another execution's.
OwnsClaim(r) == claim[SymbolOf[r]] = r
Conflict(r) == claim[SymbolOf[r]] \notin { None, r }

CashOf(requests) == MapThenSumSet(LAMBDA r : RequiredCash[r], requests)

\* SUM(required_cash) of the active reservations.
ActiveReservedCash == CashOf({ r \in Request : reservation[r] = "active" })

\* Mutants of CanPrepare: the cash others reserved is not subtracted, and
\* the claim is taken over.
PrepareIgnoresReserved(r, available) ==
  /\ ~ Conflict(r)
  /\ Side[r] = "BUY" =>
       \/ reservation[r] = "active"
       \/ reservation[r] = "none" /\ RequiredCash[r] <= available

PrepareTakesOver(r, available) ==
  Side[r] = "BUY" =>
    \/ reservation[r] = "active"
    \/ reservation[r] = "none" /\ RequiredCash[r] <= available - ActiveReservedCash

(***************************************************************************)
(* prepare(): claim the symbol and, for a BUY, reserve its cash, all or    *)
(* nothing.  A released reservation is never prepared again; an active one *)
(* of the same request is kept.  The estimator is a function of the        *)
(* request, so an active reservation never changes its amount.             *)
(***************************************************************************)
CanPrepare(r, available) ==
  /\ ~ Conflict(r)
  /\ Side[r] = "BUY" =>
       \/ reservation[r] = "active"
       \/ reservation[r] = "none" /\ RequiredCash[r] <= available - ActiveReservedCash

HoldResources(r, finality) ==
  /\ claim' = [claim EXCEPT ![SymbolOf[r]] = r]
  /\ claimFinality' = [claimFinality EXCEPT ![SymbolOf[r]] = finality]
  /\ reservation' = [reservation EXCEPT ![r] = IF Side[r] = "BUY" THEN "active" ELSE @]

Prepare(r) ==
  HoldResources(r, IF OwnsClaim(r) THEN claimFinality[SymbolOf[r]] ELSE "OPEN")

(***************************************************************************)
(* restore(): take the claim and the reservation back for an unresolved    *)
(* execution, without asking for the cash again.                           *)
(***************************************************************************)
CanRestore(r) == ~ Conflict(r)

Restore(r, finality) == HoldResources(r, finality)

(***************************************************************************)
(* update_finality(): RESOLVED deletes the claim and releases the          *)
(* reservation; anything else needs the claim and records its finality.    *)
(***************************************************************************)
CanUpdateFinality(r, finality) ==
  /\ ~ Conflict(r)
  /\ finality # "RESOLVED" => OwnsClaim(r)

\* Mutant of UpdateFinality: the claim is deleted without its reservation.
FinalityKeepsCash(r, finality) ==
  IF finality = "RESOLVED"
  THEN /\ claim' = [claim EXCEPT ![SymbolOf[r]] = None]
       /\ claimFinality' = [claimFinality EXCEPT ![SymbolOf[r]] = "OPEN"]
       /\ UNCHANGED reservation
  ELSE /\ claimFinality' = [claimFinality EXCEPT ![SymbolOf[r]] = finality]
       /\ UNCHANGED << claim, reservation >>

UpdateFinality(r, finality) ==
  IF finality = "RESOLVED"
  THEN /\ claim' = [claim EXCEPT ![SymbolOf[r]] = None]
       /\ claimFinality' = [claimFinality EXCEPT ![SymbolOf[r]] = "OPEN"]
       /\ reservation' = [reservation EXCEPT ![r] = IF @ = "active" THEN "released" ELSE @]
  ELSE /\ claimFinality' = [claimFinality EXCEPT ![SymbolOf[r]] = finality]
       /\ UNCHANGED << claim, reservation >>

=============================================================================
