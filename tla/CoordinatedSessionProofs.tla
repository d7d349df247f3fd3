---------------------- MODULE CoordinatedSessionProofs ----------------------
(***************************************************************************)
(* What the coordination store guarantees for every set of executions,     *)
(* requests and symbols, every broker lifecycle, every kind of answer and  *)
(* fault, and every set of writes that may fail, the write of the broker   *)
(* order id excepted (see SessionProofs).                                  *)
(*                                                                         *)
(* The session's own invariant carries over: the coordination steps move   *)
(* control between places of submit() and _sync() and leave journal and    *)
(* broker alone.  On top of it CoordInv says who owns which claim.         *)
(***************************************************************************)
EXTENDS CoordinatedSession, SessionProofs

CoordTypeOK ==
  /\ claim \in [Symbol -> Request \cup { None }]
  /\ claimFinality \in [Symbol -> ExecutionFinality]
  /\ reservation \in [Request -> { "none", "active", "released" }]

\* Between prepare() and the broker call, and between the two transactions of
\* _sync(): the places only the coordination steps lead to.
Granted == { "sidecar", "place" }
Syncing == { "syncUpdate", "syncRestore" }

(***************************************************************************)
(* A submission that was granted its symbol still owns it when the broker  *)
(* is called, and so does every order that is or may become active.        *)
(***************************************************************************)
CoordInv ==
  /\ SessionInv
  /\ CoordTypeOK
  /\ ReservationMatchesClaim
  /\ \A e \in Exec : pc[e] \in Granted => OwnsClaim(req[e])
  /\ \A e \in Exec : pc[e] \in Syncing => mem[e].intent # None
  /\ \A r \in Request : orders[r] \in Alive => OwnsClaim(r)

-----------------------------------------------------------------------------
(***************************************************************************)
(* The store: what its transactions do to the claims.                      *)
(***************************************************************************)

\* r takes its symbol, or gives it back, and nobody else's claim changes.
Takes(r) ==
  /\ ~ Conflict(r)
  /\ claim'[SymbolOf[r]] = r
  /\ \A s \in Symbol \ { SymbolOf[r] } : claim'[s] = claim[s]

Frees(r) ==
  /\ ~ Conflict(r)
  /\ claim'[SymbolOf[r]] = None
  /\ \A s \in Symbol \ { SymbolOf[r] } : claim'[s] = claim[s]

\* prepare() and restore() (coordination.py:511-752).
LEMMA HoldTakes ==
  ASSUME CoordTypeOK, ReservationMatchesClaim, NEW r \in Request, ~ Conflict(r),
         NEW finality \in ExecutionFinality, HoldResources(r, finality)
  PROVE  CoordTypeOK' /\ ReservationMatchesClaim' /\ Takes(r)
<1>1. SymbolOf \in [Request -> Symbol] /\ Side \in [Request -> { "BUY", "SELL" }]
      /\ None \notin Request
  BY CoordinationAssumption, RequestAssumption
<1>2. CoordTypeOK'
  BY <1>1 DEF CoordTypeOK, HoldResources
<1>3. Takes(r)
  BY <1>1 DEF CoordTypeOK, HoldResources, Takes
<1>4. ASSUME NEW q \in Request
      PROVE  (reservation'[q] = "active") <=> (Side[q] = "BUY" /\ claim'[SymbolOf[q]] = q)
  <2>1. CASE q = r
    <3>1. /\ claim'[SymbolOf[r]] = r
          /\ reservation'[r] = IF Side[r] = "BUY" THEN "active" ELSE reservation[r]
      BY <1>1 DEF CoordTypeOK, HoldResources
    <3>2. reservation[r] = "active" => Side[r] = "BUY"
      BY DEF ReservationMatchesClaim, OwnsClaim
    <3> QED
      BY <2>1, <3>1, <3>2
  <2>2. CASE q # r
    BY <1>1, <2>2 DEF CoordTypeOK, HoldResources, ReservationMatchesClaim, OwnsClaim, Conflict
  <2> QED
    BY <2>1, <2>2
<1> QED
  BY <1>2, <1>3, <1>4 DEF ReservationMatchesClaim, OwnsClaim

\* update_finality(RESOLVED) (coordination.py:753-830).
LEMMA ResolvedFrees ==
  ASSUME CoordTypeOK, ReservationMatchesClaim, NEW r \in Request,
         CanUpdateFinality(r, "RESOLVED"), UpdateFinality(r, "RESOLVED")
  PROVE  CoordTypeOK' /\ ReservationMatchesClaim' /\ Frees(r)
<1>1. SymbolOf \in [Request -> Symbol] /\ Side \in [Request -> { "BUY", "SELL" }]
      /\ None \notin Request /\ ~ Conflict(r)
  BY CoordinationAssumption, RequestAssumption DEF CanUpdateFinality
<1>2. /\ claim' = [claim EXCEPT ![SymbolOf[r]] = None]
      /\ claimFinality' = [claimFinality EXCEPT ![SymbolOf[r]] = "OPEN"]
      /\ reservation' = [reservation EXCEPT ![r] =
           IF reservation[r] = "active" THEN "released" ELSE reservation[r]]
  BY DEF UpdateFinality
<1>3. CoordTypeOK'
  BY <1>1, <1>2 DEF CoordTypeOK, ExecutionFinality
<1>4. Frees(r)
  BY <1>1, <1>2 DEF CoordTypeOK, Frees
<1>5. ASSUME NEW q \in Request
      PROVE  (reservation'[q] = "active") <=> (Side[q] = "BUY" /\ claim'[SymbolOf[q]] = q)
  <2>1. CASE q = r
    BY <1>1, <1>2, <2>1 DEF CoordTypeOK, ReservationMatchesClaim, OwnsClaim, Conflict
  <2>2. CASE q # r
    BY <1>1, <1>2, <2>2 DEF CoordTypeOK, ReservationMatchesClaim, OwnsClaim, Conflict
  <2> QED
    BY <2>1, <2>2
<1> QED
  BY <1>3, <1>4, <1>5 DEF ReservationMatchesClaim, OwnsClaim

\* update_finality() of an unresolved execution (coordination.py:753-830).
LEMMA UnresolvedKeeps ==
  ASSUME CoordTypeOK, ReservationMatchesClaim, NEW r \in Request,
         NEW finality \in ExecutionFinality \ { "RESOLVED" }, UpdateFinality(r, finality)
  PROVE  CoordTypeOK' /\ ReservationMatchesClaim' /\ UNCHANGED claim
<1>1. /\ claimFinality' = [claimFinality EXCEPT ![SymbolOf[r]] = finality]
      /\ UNCHANGED << claim, reservation >>
  BY DEF UpdateFinality
<1>2. CoordTypeOK'
  BY <1>1, CoordinationAssumption DEF CoordTypeOK
<1> QED
  BY <1>1, <1>2 DEF ReservationMatchesClaim, OwnsClaim

(***************************************************************************)
(* A step of e that takes or frees at most its own claim, and lets an      *)
(* order become active only under its claim, preserves the invariant if it *)
(* preserves what is said of e.                                            *)
(***************************************************************************)
OwnClaimOnly(e) ==
  \/ UNCHANGED claim
  \/ \E r \in Request : Owner[r] = e /\ Takes(r)
  \/ \E r \in Request : Owner[r] = e /\ Frees(r) /\ orders'[r] \notin Alive

\* Nobody else's claim moves (coordination.py:511-830: each transaction checks
\* the owner of the row it writes).
LEMMA OthersKeepClaims ==
  ASSUME CoordTypeOK, NEW e, OwnClaimOnly(e), NEW q \in Request, OwnsClaim(q),
         Owner[q] # e \/ orders'[q] \in Alive
  PROVE  claim'[SymbolOf[q]] = q
  BY CoordinationAssumption, RequestAssumption
     DEF CoordTypeOK, OwnClaimOnly, Takes, Frees, OwnsClaim, Conflict

\* A step of e with an invariant session: claims, the places that need one and
\* the intent of a synchronisation under way.
LEMMA AssembleCoord ==
  ASSUME CoordInv, NEW e \in Exec, SessionInv', CoordTypeOK', ReservationMatchesClaim',
         Only(e), OwnClaimOnly(e),
         \A r \in Request : orders'[r] \in Alive => OwnsClaim(r),
         pc'[e] \in Granted => claim'[SymbolOf[req'[e]]] = req'[e],
         pc'[e] \in Syncing => mem'[e].intent # None
  PROVE  CoordInv'
<1>1. ASSUME NEW f \in Exec \ { e }, pc'[f] \in Granted
      PROVE  claim'[SymbolOf[req'[f]]] = req'[f]
  <2>1. pc[f] \in Granted /\ req'[f] = req[f] /\ OwnsClaim(req[f])
    BY <1>1 DEF Only, CoordInv
  <2>2. req[f] \in Request /\ Owner[req[f]] = f
    BY <2>1, Here DEF CoordInv, Local, Granted, Submitting
  <2> QED
    BY <2>1, <2>2, OthersKeepClaims DEF CoordInv
<1>2. \A f \in Exec \ { e } : pc'[f] \in Syncing => mem'[f].intent # None
  BY DEF Only, CoordInv
<1>3. \A r \in Request : orders'[r] \in Alive => claim'[SymbolOf[r]] = r
  BY OthersKeepClaims DEF CoordInv
<1>4. \A f \in Exec : pc'[f] \in Granted => claim'[SymbolOf[req'[f]]] = req'[f]
  BY <1>1
<1>5. \A f \in Exec : pc'[f] \in Syncing => mem'[f].intent # None
  BY <1>2
<1> QED
  BY <1>3, <1>4, <1>5 DEF CoordInv, OwnsClaim

-----------------------------------------------------------------------------
(***************************************************************************)
(* The steps every session takes leave the store alone.  What the proof    *)
(* needs of them: they are steps of one execution, they do not lead to a   *)
(* place of the coordination, and only the broker call makes an order      *)
(* active.                                                                 *)
(***************************************************************************)
Ordinary(e) ==
  /\ Only(e)
  /\ pc'[e] \notin Granted \cup Syncing
  /\ \A r \in Request :
       orders'[r] \in Alive => orders[r] \in Alive \/ (pc[e] = "place" /\ r = req[e])

\* An exception ends the call (session.py:447-455).
LEMMA RaiseOrdinary ==
  ASSUME SessionInv, NEW e \in Exec, NEW m, RaiseWith(e, m), Beside(e)
  PROVE  Ordinary(e)
<1>1. pc'[e] \in { "idle", "down" } /\ Only(e)
  BY Here DEF RaiseWith, Goto, Only, Beside
<1> QED
  BY <1>1 DEF Ordinary, Granted, Syncing, Beside, brokerVars

\* A write moves on to the next place or raises (journal.py:92-110).
LEMMA WriteOrdinary ==
  ASSUME SessionInv, NEW e \in Exec, NEW m, NEW next, next \notin Granted \cup Syncing,
         Write(e, m, next), Beside(e)
  PROVE  Ordinary(e)
<1>1. CASE RaiseWith(e, m)
  BY <1>1, RaiseOrdinary
<1>2. CASE /\ mem' = [mem EXCEPT ![e] = m] /\ disk' = [disk EXCEPT ![e] = m]
           /\ Goto(e, next) /\ UNCHANGED open
  BY <1>2, Here DEF Ordinary, Only, Goto, Beside, brokerVars
<1> QED
  BY <1>1, <1>2 DEF Write

\* So does a transition (session.py:447-455).
LEMMA TransitionOrdinary ==
  ASSUME SessionInv, NEW e \in Exec, NEW event, NEW next, next \notin Granted \cup Syncing,
         Transition(e, mem[e], event, next), Beside(e)
  PROVE  Ordinary(e)
  BY WriteOrdinary, RaiseOrdinary DEF Transition, Raise

\* Control moves on.
LEMMA GotoOrdinary ==
  ASSUME SessionInv, NEW e \in Exec, NEW next, next \notin Granted \cup Syncing, Goto(e, next),
         UNCHANGED << open, mem, disk, req, seen, brokerVars >>
  PROVE  Ordinary(e)
  BY Here DEF Ordinary, Only, Goto, brokerVars

\* _apply_observation() (session.py:382-398).
LEMMA ApplyOrdinary ==
  ASSUME SessionInv, NEW e \in Exec, NEW r, NEW order \in BrokerOrder,
         ApplyObservation(e, r, order), UNCHANGED << req, brokerVars >>
  PROVE  Ordinary(e)
<1>1. Beside(e)
  BY Here DEF ApplyObservation, Beside
<1>2. \/ Raise(e) \/ Transition(e, mem[e], "FATAL", "ret")
      \/ \E m : Write(e, m, "event")
  BY DEF ApplyObservation
<1>3. "ret" \notin Granted \cup Syncing /\ "event" \notin Granted \cup Syncing
  BY DEF Granted, Syncing
<1> QED
  BY <1>1, <1>2, <1>3, WriteOrdinary, TransitionOrdinary, RaiseOrdinary DEF Raise

\* The broker takes the order that is being placed (session.py:249-263).
LEMMA PlaceOrdinary ==
  ASSUME SessionInv, NEW e \in Exec, PlaceAccepted(e) \/ PlaceAmbiguous(e)
  PROVE  Ordinary(e)
<1>1. PICK next \in { "persistId", "subAmbiguous" } : Goto(e, next)
  BY DEF PlaceAccepted, PlaceAmbiguous
<1>2. Only(e) /\ pc'[e] = next
  BY <1>1, Here DEF PlaceAccepted, PlaceAmbiguous, Only, Goto
<1>3. pc[e] = "place" /\ \A r \in Request \ { req[e] } : orders'[r] = orders[r]
  BY DEF PlaceAccepted, PlaceAmbiguous, TakeOrder, brokerVars, SessionInv, SessionTypeOK,
         BrokerTypeOK
<1> QED
  BY <1>2, <1>3 DEF Ordinary, Granted, Syncing

\* A cancel request does not revive an order (session.py:309-313).
LEMMA CancelSendOrdinary ==
  ASSUME SessionInv, NEW e \in Exec, CancelSend(e)
  PROVE  Ordinary(e)
<1>1. PICK next \in { "cancelSent", "cancelRefused", "idle" } : Goto(e, next)
  BY DEF CancelSend
<1>2. Only(e) /\ pc'[e] = next
  BY <1>1, Here DEF CancelSend, Only, Goto
<1>3. orders \in [Request -> OrderState]
  BY DEF SessionInv, SessionTypeOK, BrokerTypeOK
<1>4. \A r \in Request : orders'[r] \in Alive => orders[r] \in Alive
  BY <1>3 DEF CancelSend, TakeCancel, brokerVars, Alive, ACTIVE_RAW
<1> QED
  BY <1>2, <1>4 DEF Ordinary, Granted, Syncing

\* Every step and call of the session is ordinary (session.py:98-455).
LEMMA SessionIsOrdinary ==
  ASSUME SessionInv, NEW e \in Exec, SessionStep(e) \/ PreBrokerRejected(e) \/ Call(e)
  PROVE  Ordinary(e)
<1> USE DEF Granted, Syncing
<1>1. CASE \/ OpenFirst(e) \/ OpenInFlight(e) \/ OpenInterrupted(e) \/ BeginPrecheck(e)
           \/ IntentPersisted(e) \/ PreBrokerAborted(e) \/ SubmitRejected(e)
           \/ SubmitAmbiguous(e) \/ SubmitAccepted(e) \/ CancelRequested(e) \/ CancelSent(e)
           \/ CancelRefused(e) \/ CallNextCycle(e) \/ PreBrokerRejected(e)
  BY <1>1, TransitionOrdinary, SilentIsBeside
     DEF OpenFirst, OpenInFlight, OpenInterrupted, BeginPrecheck, IntentPersisted,
         PreBrokerAborted, SubmitRejected, SubmitAmbiguous, SubmitAccepted, CancelRequested,
         CancelSent, CancelRefused, CallNextCycle, PreBrokerRejected
<1>2. CASE OpenSettled(e) \/ OpenUnknown(e) \/ CallPoll(e) \/ CallReconcile(e)
  BY <1>2, GotoOrdinary DEF OpenSettled, OpenUnknown, CallPoll, CallReconcile
<1>3. CASE Precheck(e) \/ PollUnanswered(e)
  BY <1>3, TransitionOrdinary, RaiseOrdinary, SilentIsBeside
     DEF Precheck, PollUnanswered, ToUnknown, Raise
<1>4. CASE ApplyRecovered(e) \/ PollAnswered(e)
  <2>1. ASSUME NEW r \in Request, NEW order \in Reports(r)
        PROVE  order \in BrokerOrder
    BY <2>1, ReportsAreTrue DEF SessionInv, SessionTypeOK, BrokerTypeOK
  <2>2. PollAnswered(e) => mem[e].oid \in Request
    BY Here DEF PollAnswered, Local
  <2> QED
    BY <1>4, <2>1, <2>2, Here, ApplyOrdinary DEF ApplyRecovered, PollAnswered
<1>5. CASE ObservedEvent(e)
  <2>1. Beside(e)
    <3>1. NothingSeen \in BrokerOrder
      BY DEF NothingSeen, BrokerOrder, Lots
    <3> QED
      BY <1>5, <3>1, Here DEF ObservedEvent, Beside
  <2>2. CASE Goto(e, "ret") /\ UNCHANGED << open, mem, disk >>
    BY <2>1, <2>2, Here DEF Ordinary, Only, Goto, Beside, brokerVars
  <2>3. CASE ToUnknown(e)
    BY <2>1, <2>3, TransitionOrdinary DEF ToUnknown
  <2>4. CASE Transition(e, mem[e], event_for_observation(mem[e].state, seen[e].status), "ret")
    BY <2>1, <2>4, TransitionOrdinary
  <2> QED
    BY <1>5, <2>2, <2>3, <2>4 DEF ObservedEvent
<1>6. CASE Recover(e)
  <2>1. ASSUME NEW r \in Request, NEW order \in Reports(r)
        PROVE  order \in BrokerOrder
    BY <2>1, ReportsAreTrue DEF SessionInv, SessionTypeOK, BrokerTypeOK
  <2>2. CASE /\ mem[e].oid # None
             /\ \E order \in Reports(mem[e].oid) : ApplyObservation(e, mem[e].oid, order)
    BY <1>6, <2>1, <2>2, Here, ApplyOrdinary DEF Recover
  <2>3. ASSUME mem[e].intent # None, NEW order \in Reports(mem[e].intent),
               Write(e, [mem[e] EXCEPT !.oid = mem[e].intent], "apply"),
               seen' = [seen EXCEPT ![e] = order]
        PROVE  Ordinary(e)
    <3>1. Beside(e)
      BY <1>6, <2>1, <2>3, Here DEF Recover, Beside
    <3> QED
      BY <2>3, <3>1, WriteOrdinary
  <2>4. CASE Transition(e, mem[e], "RECOVERY_FAILED", "ret") /\ UNCHANGED seen
    BY <1>6, <2>4, TransitionOrdinary, SilentIsBeside DEF Recover
  <2> QED
    BY <1>6, <2>2, <2>3, <2>4 DEF Recover
<1>7. CASE PersistIntent(e) \/ PersistBrokerOrderId(e) \/ CallCancel(e) \/ ClearCycleData(e)
  BY <1>7, WriteOrdinary, RaiseOrdinary, SilentIsBeside
     DEF PersistIntent, PersistBrokerOrderId, CallCancel, ClearCycleData, Raise
<1>8. ASSUME NEW r \in Request, CallSubmit(e, r)
      PROVE  Ordinary(e)
  <2>1. Beside(e)
    BY <1>8, Here DEF CallSubmit, Beside
  <2> QED
    BY <1>8, <2>1, TransitionOrdinary DEF CallSubmit
<1>9. CASE Open(e) \/ Stop(e)
  BY <1>9, Here DEF Open, Stop, Goto, Ordinary, Only, brokerVars
<1> QED
  BY <1>1, <1>2, <1>3, <1>4, <1>5, <1>6, <1>7, <1>8, <1>9, PlaceOrdinary, CancelSendOrdinary
     DEF SessionStep, Call

-----------------------------------------------------------------------------
(***************************************************************************)
(* The steps of the coordinated session.                                   *)
(***************************************************************************)

\* A step that only moves control of e between places of submit() before the
\* broker call.
LEMMA MoveStep ==
  ASSUME CoordInv, NEW e \in Exec, pc[e] \in Unplaced, NEW next \in Unplaced, Goto(e, next),
         UNCHANGED << open, mem, disk, req, seen, brokerVars >>
  PROVE  /\ SessionInv' /\ Only(e) /\ pc'[e] = next /\ req'[e] = req[e] /\ orders' = orders
         /\ req[e] \in Request /\ Owner[req[e]] = e /\ orders[req[e]] \notin Alive
         /\ pc'[e] \notin Syncing
<1>1. SessionInv'
  BY HookStep DEF CoordInv
<1>2. Only(e) /\ pc'[e] = next /\ req'[e] = req[e] /\ orders' = orders
  BY Here DEF CoordInv, Only, Goto, brokerVars
<1>3. req[e] \in Request /\ Owner[req[e]] = e /\ placed[req[e]] = 0
  BY Here DEF CoordInv, Local, Unplaced
<1>4. orders[req[e]] \notin Alive
  BY <1>3 DEF CoordInv, SessionInv, Placements, Alive, ACTIVE_RAW
<1> QED
  BY <1>1, <1>2, <1>3, <1>4 DEF Unplaced, Submitting, Syncing

\* _coordinate_before_submit() and the sidecar (coordinated_session.py:155-211).
LEMMA BeforePlaceStep ==
  ASSUME CoordInv, NEW e \in Exec,
         \/ ReadCash(e) \/ PrepareGranted(e) \/ PrepareRefused(e) \/ CoordinatedSidecar(e)
         \/ CoordinatedPlaceRejected(e)
  PROVE  CoordInv'
<1> DEFINE r == req[e]
<1>1. CASE PrepareGranted(e)
  <2>1. /\ SessionInv' /\ Only(e) /\ r \in Request /\ Owner[r] = e /\ req'[e] = r
        /\ orders' = orders /\ pc'[e] \notin Syncing
    BY <1>1, MoveStep DEF PrepareGranted, Unplaced, Submitting
  <2>2. PICK finality \in ExecutionFinality : HoldResources(r, finality)
    BY <1>1, <2>1, CoordinationAssumption
       DEF PrepareGranted, Prepare, CoordInv, CoordTypeOK, ExecutionFinality
  <2>3. CoordTypeOK' /\ ReservationMatchesClaim' /\ Takes(r)
    BY <1>1, <2>1, <2>2, HoldTakes DEF CoordInv, PrepareGranted, CanPrepare
  <2>4. OwnClaimOnly(e) /\ claim'[SymbolOf[r]] = r
    BY <2>1, <2>3 DEF OwnClaimOnly, Takes
  <2>5. \A q \in Request : orders'[q] \in Alive => OwnsClaim(q)
    BY <2>1 DEF CoordInv
  <2> QED
    BY <2>1, <2>3, <2>4, <2>5, AssembleCoord
<1>2. ASSUME pc[e] \in Unplaced, NEW next \in Unplaced, Goto(e, next),
             next \in Granted => pc[e] \in Granted,
             UNCHANGED << open, mem, disk, req, seen, brokerVars, coordinationVars >>
      PROVE  CoordInv'
  <2>1. /\ SessionInv' /\ Only(e) /\ r \in Request /\ Owner[r] = e /\ req'[e] = r
        /\ orders' = orders /\ pc'[e] \notin Syncing /\ pc'[e] = next
    BY <1>2, MoveStep
  <2>2. UNCHANGED << claim, claimFinality, reservation >>
    BY <1>2 DEF coordinationVars
  <2>3. CoordTypeOK' /\ ReservationMatchesClaim' /\ OwnClaimOnly(e)
    BY <2>2 DEF CoordInv, CoordTypeOK, ReservationMatchesClaim, OwnsClaim, OwnClaimOnly
  <2>4. pc'[e] \in Granted => claim'[SymbolOf[req'[e]]] = req'[e]
    BY <1>2, <2>1, <2>2 DEF CoordInv, OwnsClaim
  <2>5. \A q \in Request : orders'[q] \in Alive => OwnsClaim(q)
    BY <2>1 DEF CoordInv
  <2> QED
    BY <2>1, <2>3, <2>4, <2>5, AssembleCoord
<1>3. CASE ReadCash(e) \/ PrepareRefused(e) \/ CoordinatedSidecar(e) \/ CoordinatedPlaceRejected(e)
  BY <1>2, <1>3
     DEF ReadCash, PrepareRefused, CoordinatedSidecar, CoordinatedPlaceRejected, Unplaced,
         Submitting, Granted
<1> QED
  BY <1>1, <1>3

\* An exception of the sidecar, or a definitive rejection, gives the symbol
\* back before the journal says so (coordinated_session.py:48-60, 189-211).
LEMMA ReleaseStep ==
  ASSUME CoordInv, NEW e \in Exec, SidecarRelease(e) \/ RejectRelease(e)
  PROVE  CoordInv'
<1> DEFINE r == req[e]
<1>1. PICK next \in { "preAborted", "subRejected", "idle" } :
        /\ Goto(e, next)
        /\ \/ CanUpdateFinality(r, "RESOLVED") /\ UpdateFinality(r, "RESOLVED")
           \/ UNCHANGED coordinationVars
  BY DEF SidecarRelease, RejectRelease, Release
<1>2. /\ pc[e] \in Unplaced /\ pc[e] # "down"
      /\ UNCHANGED << open, mem, disk, req, seen, brokerVars >>
  BY DEF SidecarRelease, RejectRelease, Unplaced, Submitting
<1>3. r \in Request /\ Owner[r] = e /\ placed[r] = 0
  BY <1>2, Here DEF CoordInv, Local, Unplaced
<1>4. orders[r] \notin Alive /\ orders' = orders
  BY <1>2, <1>3 DEF CoordInv, SessionInv, Placements, Alive, ACTIVE_RAW, brokerVars
<1>5. SessionInv' /\ Only(e) /\ pc'[e] = next
  <2>1. Local(e, next, open[e], mem[e], disk[e], req[e], seen[e], orders, placed)
    BY <1>2, Here DEF CoordInv, Local, Submitting, Unplaced
  <2>2. next \in PC \ { "down" }
    BY DEF PC, WriteSites
  <2> QED
    BY <1>1, <1>2, <2>1, <2>2, GotoInv, Here DEF CoordInv, Only, Goto
<1>6. CoordTypeOK' /\ ReservationMatchesClaim' /\ OwnClaimOnly(e)
  <2>1. CASE CanUpdateFinality(r, "RESOLVED") /\ UpdateFinality(r, "RESOLVED")
    BY <1>3, <1>4, <2>1, ResolvedFrees DEF CoordInv, OwnClaimOnly
  <2>2. CASE UNCHANGED << claim, claimFinality, reservation >>
    BY <2>2 DEF CoordInv, CoordTypeOK, ReservationMatchesClaim, OwnsClaim, OwnClaimOnly
  <2> QED
    BY <1>1, <2>1, <2>2 DEF coordinationVars
<1>7. pc'[e] \notin Granted \cup Syncing
  BY <1>5 DEF Granted, Syncing
<1>8. \A q \in Request : orders'[q] \in Alive => OwnsClaim(q)
  BY <1>4 DEF CoordInv
<1> QED
  BY <1>5, <1>6, <1>7, <1>8, AssembleCoord

\* The end of a call: _sync() looks at the claim (coordinated_session.py:249-299).
LEMMA SyncCheckStep ==
  ASSUME CoordInv, NEW e \in Exec, SyncCheck(e)
  PROVE  CoordInv'
<1>1. PICK next \in { "idle" } \cup Syncing :
        Goto(e, next) /\ (next \in Syncing => mem[e].intent # None)
  BY DEF SyncCheck, Syncing
<1>2. /\ pc[e] = "ret" /\ open' = [open EXCEPT ![e] = TRUE]
      /\ UNCHANGED << mem, disk, req, seen, orders, placed, claim, claimFinality, reservation >>
  BY DEF SyncCheck, brokerVars, coordinationVars
<1>3. /\ pc'[e] = next /\ open'[e] = TRUE /\ pc' \in [Exec -> PC] /\ open' \in [Exec -> BOOLEAN]
  BY <1>1, <1>2, Here DEF CoordInv, Goto, PC, WriteSites, Syncing
<1>4. Only(e)
  BY <1>1, <1>2, Here DEF CoordInv, Only, Goto
<1>5. SessionInv'
  <2>1. SessionTypeOK'
    BY <1>2, <1>3 DEF CoordInv, SessionInv, SessionTypeOK, BrokerTypeOK
  <2>2. Local(e, next, TRUE, mem[e], disk[e], req[e], seen[e], orders, placed)
    BY <1>2, Here DEF CoordInv, Local, Submitting, Unplaced, AwaitsId, Syncing
  <2>3. ProcInvNext(e)
    BY <1>2, <1>3, <2>2, Here DEF CoordInv, ProcInvNext, PInv
  <2> QED
    BY <1>2, <1>4, <2>1, <2>3, AssembleSilent DEF CoordInv, brokerVars
<1>6. CoordTypeOK' /\ ReservationMatchesClaim' /\ OwnClaimOnly(e)
  BY <1>2 DEF CoordInv, CoordTypeOK, ReservationMatchesClaim, OwnsClaim, OwnClaimOnly
<1>7. pc'[e] \notin Granted /\ (pc'[e] \in Syncing => mem'[e].intent # None)
  BY <1>1, <1>2, <1>3 DEF Granted, Syncing
<1>8. \A q \in Request : orders'[q] \in Alive => OwnsClaim(q)
  BY <1>2 DEF CoordInv
<1> QED
  BY <1>4, <1>5, <1>6, <1>7, <1>8, AssembleCoord

\* The transaction of _sync(): the finality is recorded, the symbol given back
\* or taken again (coordinated_session.py:270-299).
LEMMA SyncStep ==
  ASSUME CoordInv, NEW e \in Exec, SyncUpdate(e) \/ SyncRestore(e)
  PROVE  CoordInv'
<1> DEFINE r == mem[e].intent
           finality == execution_finality(mem[e])
<1>1. /\ pc[e] \in Syncing /\ pc[e] # "down" /\ Goto(e, "idle")
      /\ UNCHANGED << open, mem, disk, req, seen, brokerVars >>
  BY DEF SyncUpdate, SyncRestore, Syncing
<1>2. /\ r \in Request /\ Owner[r] = e /\ finality \in ExecutionFinality
      /\ (finality = "RESOLVED" => orders[r] \notin Alive)
  <2>1. r \in Request
    BY <1>1, Here DEF CoordInv
  <2>2. mem[e] \in Journal /\ JInv(e, mem[e], orders, placed)
    BY <1>1, Here DEF CoordInv
  <2>3. Owner[r] = e
    BY <2>1, <2>2, RequestAssumption DEF JInv
  <2>4. finality \in ExecutionFinality
    BY DEF execution_finality, ExecutionFinality
  <2> QED
    BY <2>1, <2>2, <2>3, <2>4, ResolvedHasNoOrder
<1>3. SessionInv' /\ Only(e) /\ pc'[e] = "idle" /\ orders' = orders
  <2>1. Local(e, "idle", open[e], mem[e], disk[e], req[e], seen[e], orders, placed)
    BY <1>1, Here DEF CoordInv, Local, Submitting, Unplaced, Syncing
  <2>2. "idle" \in PC \ { "down" }
    BY DEF PC, WriteSites
  <2> QED
    BY <1>1, <2>1, <2>2, GotoInv, Here DEF CoordInv, Only, Goto, brokerVars
<1> HIDE DEF r, finality
<1>4. CoordTypeOK' /\ ReservationMatchesClaim' /\ OwnClaimOnly(e)
  <2>1. CASE UNCHANGED << claim, claimFinality, reservation >>
    BY <2>1 DEF CoordInv, CoordTypeOK, ReservationMatchesClaim, OwnsClaim, OwnClaimOnly
  <2>2. CASE CanUpdateFinality(r, finality) /\ UpdateFinality(r, finality) /\ finality = "RESOLVED"
    BY <1>2, <1>3, <2>2, ResolvedFrees DEF CoordInv, OwnClaimOnly
  <2>3. CASE UpdateFinality(r, finality) /\ finality # "RESOLVED"
    BY <1>2, <2>3, UnresolvedKeeps DEF CoordInv, OwnClaimOnly
  <2>4. CASE CanRestore(r) /\ Restore(r, finality)
    BY <1>2, <2>4, HoldTakes DEF CoordInv, OwnClaimOnly, CanRestore, Restore
  <2> QED
    BY <2>1, <2>2, <2>3, <2>4 DEF SyncUpdate, SyncRestore, coordinationVars, r, finality
<1>5. pc'[e] \notin Granted \cup Syncing
  BY <1>3 DEF Granted, Syncing
<1>6. \A q \in Request : orders'[q] \in Alive => OwnsClaim(q)
  BY <1>3 DEF CoordInv
<1> QED
  BY <1>3, <1>4, <1>5, <1>6, AssembleCoord

\* The session's own steps: the order that is placed is covered by the claim
\* it was granted (session.py:98-455).
LEMMA OrdinaryStep ==
  ASSUME CoordInv, "persistId" \notin FaultyWrites, NEW e \in Exec,
         SessionStep(e) \/ PreBrokerRejected(e) \/ Call(e), UNCHANGED coordinationVars
  PROVE  CoordInv'
<1>1. SessionInv'
  <2>1. CASE PreBrokerRejected(e)
    BY <2>1, UnplacedClosed DEF CoordInv, PreBrokerRejected, Unplaced, Submitting
  <2> QED
    BY <2>1, SessionStepInv, CallInv DEF CoordInv
<1>2. Ordinary(e)
  BY SessionIsOrdinary DEF CoordInv
<1>3. UNCHANGED << claim, claimFinality, reservation >>
  BY DEF coordinationVars
<1>4. CoordTypeOK' /\ ReservationMatchesClaim' /\ OwnClaimOnly(e)
  BY <1>3 DEF CoordInv, CoordTypeOK, ReservationMatchesClaim, OwnsClaim, OwnClaimOnly
<1>5. \A r \in Request : orders'[r] \in Alive => OwnsClaim(r)
  BY <1>2 DEF Ordinary, CoordInv, Granted
<1> QED
  BY <1>1, <1>2, <1>4, <1>5, AssembleCoord DEF Ordinary

\* The broker's own moves revive nothing.
LEMMA BrokerStep ==
  ASSUME CoordInv, BrokerNext
  PROVE  CoordInv'
<1>1. PICK r \in Request : BrokerMove(r) /\ UNCHANGED << sessionVars, coordinationVars >>
  BY DEF BrokerNext
<1>2. SessionInv'
  BY <1>1, BrokerMoveInv DEF CoordInv
<1>3. UNCHANGED << claim, claimFinality, reservation, pc, mem, req >>
  BY <1>1 DEF coordinationVars, sessionVars
<1>4. PICK move \in AllMoves : orders[r] = move[1] /\ orders' = [orders EXCEPT ![r] = move[2]]
  BY <1>1, BrokerAssumption DEF BrokerMove
<1>5. move[1] \in Alive
  BY DEF AllMoves, Alive, ACTIVE_RAW
<1>6. \A q \in Request : orders'[q] \in Alive => orders[q] \in Alive
  BY <1>4, <1>5 DEF CoordInv, SessionInv, SessionTypeOK, BrokerTypeOK
<1> QED
  BY <1>2, <1>3, <1>6 DEF CoordInv, CoordTypeOK, ReservationMatchesClaim, OwnsClaim

\* No step of any process breaks the invariant.
LEMMA CoordNextInv ==
  ASSUME "persistId" \notin FaultyWrites, CoordInv, [Next]_vars
  PROVE  CoordInv'
<1>1. ASSUME NEW e \in Exec, Step(e) \/ Invoke(e)
      PROVE  CoordInv'
  BY <1>1, BeforePlaceStep, ReleaseStep, SyncCheckStep, SyncStep, OrdinaryStep
     DEF Step, Invoke, CoordinationStep
<1>2. CASE UNCHANGED vars
  <2>1. SessionInv'
    BY <1>2, StutterInv DEF vars, CoordInv
  <2>2. UNCHANGED << claim, claimFinality, reservation, pc, mem, req, orders >>
    BY <1>2 DEF vars, brokerVars, sessionVars, coordinationVars
  <2> QED
    BY <2>1, <2>2 DEF CoordInv, CoordTypeOK, ReservationMatchesClaim, OwnsClaim
<1> QED
  BY <1>1, <1>2, BrokerStep DEF Next

\* The empty store and account satisfy it.
LEMMA CoordInit == Init => CoordInv
<1> SUFFICES ASSUME Init
             PROVE  CoordInv
  OBVIOUS
<1>1. SessionInv
  BY InitInv DEF Init
<1>2. CoordTypeOK /\ ReservationMatchesClaim
  BY CoordinationAssumption, RequestAssumption
     DEF Init, CoordinationInit, CoordTypeOK, ExecutionFinality, ReservationMatchesClaim,
         OwnsClaim
<1>3. /\ \A e \in Exec : pc[e] = "down"
      /\ \A r \in Request : orders[r] = "NONE"
  BY DEF Init, SessionInit, BrokerInit
<1> QED
  BY <1>1, <1>2, <1>3 DEF CoordInv, Granted, Syncing, Alive, ACTIVE_RAW

\* The invariant holds in every reachable state.
LEMMA CoordInvariant ==
  ASSUME "persistId" \notin FaultyWrites
  PROVE  Spec => []CoordInv
<1>1. Init => CoordInv
  BY CoordInit
<1>2. CoordInv /\ [Next]_vars => CoordInv'
  BY CoordNextInv
<1> QED
  BY <1>1, <1>2, PTL DEF Spec

-----------------------------------------------------------------------------
\* An order that is or may become active is covered by its own symbol claim
\* and, for a BUY, by an active reservation, through every crash, restart,
\* lost answer and failed transaction of any process
\* (coordinated_session.py:155-299, coordination.py:511-830).
THEOREM LiveOrdersAreClaimed ==
  ASSUME "persistId" \notin FaultyWrites
  PROVE  Spec => []LiveOrderHasClaim
<1>1. CoordInv => LiveOrderHasClaim
  BY DEF CoordInv, LiveOrderHasClaim, Live, Alive, ReservationMatchesClaim
<1> QED
  BY <1>1, CoordInvariant, PTL

\* The coordinator takes nothing away from what the session promises: with
\* hooks that raise, sidecars and shared claims, no order is resent or
\* forgotten, terminal states are true and every journal reopens
\* (coordinated_session.py:101-247, session.py:98-455).
THEOREM CoordinationKeepsTheSession ==
  ASSUME "persistId" \notin FaultyWrites
  PROVE  Spec => [](AtMostOnePlacement /\ LiveOrderIsTracked /\ TerminalIsTrue /\ JournalReopens)
<1>1. CoordInv => SessionInv
  BY DEF CoordInv
<1> QED
  BY <1>1, PlacesOnce, Tracked, TerminalTrue, Reopens, CoordInvariant, PTL

\* Two requests never have active orders on one symbol of the account at the
\* same time, whichever processes submitted them (SPECIFICATION.md, 3.3).
THEOREM SymbolsAreExclusive ==
  ASSUME "persistId" \notin FaultyWrites
  PROVE  Spec => []OneLiveOrderPerSymbol
<1>1. CoordInv => OneLiveOrderPerSymbol
  BY DEF CoordInv, OneLiveOrderPerSymbol, Live, Alive, OwnsClaim
<1> QED
  BY <1>1, CoordInvariant, PTL

\* A BUY holds reserved cash exactly while it owns its symbol
\* (coordination.py:511-830).
THEOREM ReservationsFollowClaims ==
  ASSUME "persistId" \notin FaultyWrites
  PROVE  Spec => []ReservationMatchesClaim
<1>1. CoordInv => ReservationMatchesClaim
  BY DEF CoordInv
<1> QED
  BY <1>1, CoordInvariant, PTL

-----------------------------------------------------------------------------
(***************************************************************************)
(* Tracing a claim to its execution, when journal writes and transactions  *)
(* do not fail.  Memory and file are then the same while the session is    *)
(* up.  A claim is traced: the file of its owner carries its request and   *)
(* has left the states before the intent, and the owner is unresolved, or  *)
(* on its way to the _sync() that gives the claim back.                    *)
(***************************************************************************)
Settling == { "down", "opening", "ret", "syncUpdate" }

Agree == \A e \in Exec : pc[e] # "down" => mem[e] = disk[e]

Traced(r, j, p) ==
  /\ j.intent = r /\ j.state \notin BeforeIntent
  /\ p \notin Settling => execution_finality(j) # "RESOLVED"
  /\ p # "preAborted"

TraceInv ==
  /\ CoordInv
  /\ Agree
  /\ \A e \in Exec : pc[e] = "syncRestore" => execution_finality(mem[e]) # "RESOLVED"
  /\ \A s \in Symbol : claim[s] # None => SymbolOf[claim[s]] = s
  /\ \A r \in Request : OwnsClaim(r) => Traced(r, disk[Owner[r]], pc[Owner[r]])

\* What a step of e does to its own traces.
Carries(e) ==
  /\ pc'[e] # "down" => mem'[e] = disk'[e]
  /\ \A r \in Request : Traced(r, disk[e], pc[e]) => Traced(r, disk'[e], pc'[e])

\* Finality depends on the snapshot alone (finality.py:35-60).
LEMMA FinalityOfSnapshot ==
  ASSUME NEW j, NEW k, j.state = k.state, j.facts = k.facts
  PROVE  execution_finality(j) = execution_finality(k)
  BY DEF execution_finality

\* An exception leaves memory and file alone (session.py:447-455).
LEMMA RaiseCarries ==
  ASSUME SessionInv, Agree, NEW e \in Exec, pc[e] \notin { "down", "ret", "syncUpdate" }, Raise(e)
  PROVE  Carries(e)
<1>1. /\ pc'[e] = (IF open[e] THEN "idle" ELSE "down")
      /\ (open[e] => mem'[e] = mem[e]) /\ disk'[e] = disk[e]
  BY Here DEF Raise, RaiseWith, Goto
<1>2. open[e] => pc[e] \notin Settling
  BY Here DEF Local, Settling
<1> QED
  BY <1>1, <1>2 DEF Carries, Traced, Agree, Settling

\* A write of the same snapshot and intent (journal.py:92-110).
LEMMA WriteCarries ==
  ASSUME FaultyWrites = {}, SessionInv, Agree, NEW e \in Exec, pc[e] \notin Settling,
         NEW m, NEW next, next # "preAborted", Write(e, m, next),
         m.state = mem[e].state, m.facts = mem[e].facts, m.intent = mem[e].intent
  PROVE  Carries(e)
<1>1. mem'[e] = m /\ disk'[e] = m /\ pc'[e] = next
  BY Here DEF Write, Goto
<1>2. execution_finality(m) = execution_finality(mem[e]) /\ mem[e] = disk[e]
  BY FinalityOfSnapshot DEF Agree, Settling
<1> QED
  BY <1>1, <1>2 DEF Carries, Traced

\* A transition ends with _sync(), or leaves the execution unresolved
\* (session.py:447-455, finality.py:35-60).
LEMMA TransitionCarries ==
  ASSUME FaultyWrites = {}, SessionInv, Agree, NEW e \in Exec,
         pc[e] \notin { "down", "ret", "syncUpdate" },
         NEW event \in TradeEvent, NEW next, next # "preAborted",
         Transition(e, mem[e], event, next),
         event = "NEXT_CYCLE" => pc[e] # "opening",
         next = "ret" \/ event \notin Closing \cup { "FATAL" } \/ pc[e] = "preAborted",
         pc[e] = "opening" => next = "ret" \/ mem[e].state \in InFlightStates
  PROVE  Carries(e)
<1>1. CASE ~ CanAdvance(mem[e], event)
  BY <1>1, RaiseCarries DEF Transition
<1>2. CASE CanAdvance(mem[e], event)
  <2> DEFINE t == advance(mem[e], event)
  <2>1. mem'[e] = t /\ disk'[e] = t /\ pc'[e] = next
    BY <1>2, Here DEF Transition, Write, Goto
  <2>2. /\ t.state = Target[event] /\ t.facts = NextFacts(mem[e].facts, event)
        /\ t.intent = mem[e].intent
    BY Here, AdvanceJournal
  <2>3. mem[e] \in Journal /\ Consistent(mem[e]) /\ mem[e] = disk[e]
    BY Here DEF JInv, Agree
  <2>4. Allowed(mem[e], event) /\ event \in Declared[mem[e].state] /\ mem[e].state \in TradeState
    BY <1>2, <2>3 DEF CanAdvance, Allowed, Journal
  <2> HIDE DEF t
  <2>5. ASSUME NEW r \in Request, Traced(r, disk[e], pc[e])
        PROVE  Traced(r, t, next)
    <3>1. /\ mem[e].intent = r /\ mem[e].state \notin BeforeIntent
          /\ pc[e] \notin Settling => execution_finality(mem[e]) # "RESOLVED"
          /\ pc[e] # "preAborted"
      BY <2>3, <2>5 DEF Traced
    <3>2. event # "NEXT_CYCLE"
      <4>1. event = "NEXT_CYCLE" => mem[e].state \in { "FILLED", "CANCELLED", "REJECTED" }
        BY <2>4, Sources
      <4> QED
        BY <3>1, <4>1 DEF execution_finality, InFlightStates, Settling
    <3>3. t.state \notin BeforeIntent
      <4>1. event \notin { "SESSION_READY", "TRIGGERED", "BEGIN_PRECHECK", "PRECHECK_VERIFIED" }
        BY <2>4, <3>1, Sources DEF BeforeIntent
      <4> QED
        BY <2>2, <3>2, <4>1, EventNames DEF Target, BeforeIntent, OrderEvents, RecoveryEvents
    <3>4. CASE next = "ret"
      BY <2>2, <3>1, <3>3, <3>4 DEF Traced, Settling
    <3>5. CASE event \notin Closing \cup { "FATAL" } /\ next # "ret"
      <4>1. execution_finality(mem[e]) # "RESOLVED"
        BY <3>1, <3>5 DEF Settling, execution_finality, InFlightStates
      <4>2. execution_finality(t) # "RESOLVED"
        BY <2>2, <2>3, <2>4, <3>5, <4>1, StaysOpen
      <4> QED
        BY <2>2, <3>1, <3>3, <4>2 DEF Traced
    <3> QED
      BY <3>1, <3>4, <3>5
  <2> QED
    BY <2>1, <2>5 DEF Carries
<1> QED
  BY <1>1, <1>2

\* Control moves on between places where the execution is unresolved.
LEMMA GotoCarries ==
  ASSUME SessionInv, Agree, NEW e \in Exec, pc[e] # "down", NEW next, Goto(e, next),
         next # "preAborted", UNCHANGED << mem, disk >>,
         \/ next \in Settling
         \/ pc[e] \notin Settling
         \/ mem[e].state = "UNKNOWN"
  PROVE  Carries(e)
<1>1. mem'[e] = mem[e] /\ disk'[e] = disk[e] /\ pc'[e] = next /\ mem[e] = disk[e]
  BY Here DEF Goto, Agree
<1> QED
  BY <1>1 DEF Carries, Traced, execution_finality, InFlightStates

\* _apply_observation() (session.py:382-398).
LEMMA ApplyCarries ==
  ASSUME FaultyWrites = {}, SessionInv, Agree, NEW e \in Exec,
         pc[e] \notin Settling, NEW r, NEW order, ApplyObservation(e, r, order)
  PROVE  Carries(e)
<1> DEFINE m == [mem[e] EXCEPT !.filled = order.filled]
<1>1. m.state = mem[e].state /\ m.facts = mem[e].facts /\ m.intent = mem[e].intent
  BY Here DEF Journal
<1>2. Raise(e) \/ Transition(e, mem[e], "FATAL", "ret") \/ Write(e, m, "event")
  BY DEF ApplyObservation
<1> HIDE DEF m
<1>3. "FATAL" \in TradeEvent
  BY EventNames
<1> QED
  BY <1>1, <1>2, <1>3, RaiseCarries, TransitionCarries, WriteCarries DEF Settling

\* No step or call of the session loses the trace of a claim
\* (session.py:98-455).
LEMMA SessionCarries ==
  ASSUME FaultyWrites = {}, SessionInv, Agree, NEW e \in Exec,
         SessionStep(e) \/ PreBrokerRejected(e) \/ Call(e)
  PROVE  Carries(e)
<1> USE DEF Settling
<1>1. CASE \/ OpenFirst(e) \/ OpenInFlight(e) \/ OpenInterrupted(e)
           \/ PreBrokerAborted(e) \/ PreBrokerRejected(e) \/ SubmitRejected(e)
  <2>1. { "SESSION_READY", "RESTART_RECOVERY", "FATAL", "PRE_BROKER_ABORTED",
          "PRE_BROKER_REJECTED", "SUBMIT_REJECTED" } \subseteq TradeEvent
    BY EventNames
  <2> QED
    BY <1>1, <2>1, TransitionCarries
       DEF OpenFirst, OpenInFlight, OpenInterrupted, PreBrokerAborted, PreBrokerRejected,
           SubmitRejected, Closing, ConfirmedEvents
<1>2. CASE \/ BeginPrecheck(e) \/ IntentPersisted(e) \/ SubmitAmbiguous(e) \/ SubmitAccepted(e)
           \/ CancelRequested(e) \/ CancelSent(e) \/ CancelRefused(e) \/ CallNextCycle(e)
           \/ \E r \in Request : CallSubmit(e, r)
  <2>1. PICK event \in { "BEGIN_PRECHECK", "INTENT_PERSISTED", "SUBMIT_AMBIGUOUS",
                         "SUBMIT_ACCEPTED", "CANCEL_REQUESTED", "CANCEL_SENT",
                         "CANCEL_REQUEST_REJECTED", "NEXT_CYCLE", "TRIGGERED" },
             next \in { "guard", "coord", "ret", "poll", "cancelSend", "clear", "begin" } :
          Transition(e, mem[e], event, next)
    BY <1>2 DEF BeginPrecheck, IntentPersisted, SubmitAmbiguous, SubmitAccepted,
         CancelRequested, CancelSent, CancelRefused, CallNextCycle, CallSubmit
  <2>2. pc[e] \notin Settling
    BY <1>2 DEF BeginPrecheck, IntentPersisted, SubmitAmbiguous, SubmitAccepted,
         CancelRequested, CancelSent, CancelRefused, CallNextCycle, CallSubmit
  <2>3. event \in TradeEvent /\ event \notin Closing \cup { "FATAL" }
    BY EventNames DEF OrderEvents, RecoveryEvents, Closing, ConfirmedEvents
  <2> QED
    BY <2>1, <2>2, <2>3, TransitionCarries
<1>3. CASE \/ OpenSettled(e) \/ OpenUnknown(e) \/ CallPoll(e) \/ CallReconcile(e)
           \/ PlaceAccepted(e) \/ PlaceAmbiguous(e) \/ CancelSend(e)
  BY <1>3, GotoCarries
     DEF OpenSettled, OpenUnknown, CallPoll, CallReconcile, PlaceAccepted, PlaceAmbiguous,
         CancelSend
<1>4. CASE Precheck(e)
  <2>1. /\ "PRECHECK_VERIFIED" \in TradeEvent \ (Closing \cup { "FATAL", "NEXT_CYCLE" })
        /\ "PRECHECK_REJECTED" \in TradeEvent \ { "NEXT_CYCLE" }
    BY EventNames DEF Closing, ConfirmedEvents
  <2> QED
    BY <1>4, <2>1, TransitionCarries, RaiseCarries DEF Precheck
<1>5. ASSUME ToUnknown(e), pc[e] \notin Settling
      PROVE  Carries(e)
  <2>1. { "QUERY_AMBIGUOUS", "FATAL" } \subseteq TradeEvent
    BY EventNames DEF RecoveryEvents
  <2> QED
    BY <1>5, <2>1, TransitionCarries DEF ToUnknown
<1>6. CASE PollUnanswered(e)
  BY <1>5, <1>6 DEF PollUnanswered
<1>7. CASE ApplyRecovered(e) \/ PollAnswered(e)
  BY <1>7, ApplyCarries DEF ApplyRecovered, PollAnswered
<1>8. CASE ObservedEvent(e)
  <2> DEFINE event == event_for_observation(mem[e].state, seen[e].status)
  <2>1. pc[e] = "event" /\ mem[e].state \in TradeState /\ seen[e].status \in BrokerOrderStatus
    BY <1>8, Here DEF ObservedEvent, Journal, BrokerOrder, BrokerOrderStatus
  <2>2. event \in TradeEvent \cup { "NONE", "AMBIGUOUS" }
    BY <2>1, ObservationEvents
  <2>3. CASE event = "NONE"
    BY <1>8, <2>1, <2>3, GotoCarries DEF ObservedEvent
  <2>4. CASE event = "AMBIGUOUS"
    BY <1>5, <1>8, <2>1, <2>4 DEF ObservedEvent
  <2>5. CASE event \notin { "NONE", "AMBIGUOUS" }
    <3>1. Transition(e, mem[e], event, "ret")
      BY <1>8, <2>5 DEF ObservedEvent
    <3> QED
      BY <2>1, <2>2, <2>5, <3>1, TransitionCarries
  <2> QED
    BY <2>3, <2>4, <2>5
<1>9. CASE Recover(e)
  <2> DEFINE m == [mem[e] EXCEPT !.oid = mem[e].intent]
  <2>1. m.state = mem[e].state /\ m.facts = mem[e].facts /\ m.intent = mem[e].intent
    BY Here DEF Journal
  <2>2. \/ \E order : ApplyObservation(e, mem[e].oid, order)
        \/ Write(e, m, "apply")
        \/ Transition(e, mem[e], "RECOVERY_FAILED", "ret")
    BY <1>9 DEF Recover
  <2> HIDE DEF m
  <2>3. "RECOVERY_FAILED" \in TradeEvent /\ pc[e] = "recover"
    BY <1>9, EventNames DEF RecoveryEvents, Recover
  <2> QED
    BY <2>1, <2>2, <2>3, ApplyCarries, WriteCarries, TransitionCarries
<1>10. CASE PersistBrokerOrderId(e) \/ CallCancel(e)
  <2>1. PICK m \in { [mem[e] EXCEPT !.oid = req[e]], [mem[e] EXCEPT !.cancel = TRUE] },
             next \in { "subAccepted", "cancelRequest" } :
          Raise(e) \/ Write(e, m, next)
    BY <1>10 DEF PersistBrokerOrderId, CallCancel
  <2>2. m.state = mem[e].state /\ m.facts = mem[e].facts /\ m.intent = mem[e].intent
    BY Here DEF Journal
  <2>3. pc[e] \notin Settling
    BY <1>10 DEF PersistBrokerOrderId, CallCancel
  <2> QED
    BY <2>1, <2>2, <2>3, WriteCarries, RaiseCarries
<1>11. CASE PersistIntent(e) \/ ClearCycleData(e)
  <2>1. pc[e] \in { "intent", "clear" } /\ mem[e].state \in BeforeIntent /\ mem[e] = disk[e]
    BY <1>11, Here DEF PersistIntent, ClearCycleData, Local, BeforeIntent, Agree
  <2>2. Raise(e) \/ \E m, next : Write(e, m, next)
    BY <1>11 DEF PersistIntent, ClearCycleData
  <2>3. ASSUME NEW m, NEW next, Write(e, m, next)
        PROVE  mem'[e] = disk'[e]
    BY <2>3, Here DEF Write
  <2>4. CASE ~ Raise(e)
    BY <2>1, <2>2, <2>3, <2>4 DEF Carries, Traced
  <2> QED
    BY <2>1, <2>4, RaiseCarries
<1>12. CASE Open(e)
  BY <1>12, Here DEF Open, Goto, Carries, Traced
<1>13. CASE Stop(e)
  BY <1>13, Here DEF Stop, Goto, Carries, Traced
<1> QED
  BY <1>1, <1>2, <1>3, <1>4, <1>6, <1>7, <1>8, <1>9, <1>10, <1>11, <1>12, <1>13
     DEF SessionStep, Call

\* A step of e moves no other execution's claim or journal.
LEMMA AssembleTrace ==
  ASSUME TraceInv, NEW e \in Exec, CoordInv', Only(e), OwnClaimOnly(e),
         pc'[e] # "down" => mem'[e] = disk'[e],
         pc'[e] = "syncRestore" => execution_finality(mem'[e]) # "RESOLVED",
         \A r \in Request :
           Owner[r] = e /\ claim'[SymbolOf[r]] = r => Traced(r, disk'[e], pc'[e])
  PROVE  TraceInv'
<1>1. CoordTypeOK /\ CoordTypeOK' /\ SymbolOf \in [Request -> Symbol] /\ Owner \in [Request -> Exec]
  BY CoordinationAssumption, RequestAssumption DEF TraceInv, CoordInv
<1>2. \A s \in Symbol : claim'[s] # None => SymbolOf[claim'[s]] = s
  BY <1>1 DEF TraceInv, OwnClaimOnly, Takes, Frees
<1>3. Agree'
  BY DEF Agree, TraceInv, Only
<1>4. \A f \in Exec : pc'[f] = "syncRestore" => execution_finality(mem'[f]) # "RESOLVED"
  BY DEF TraceInv, Only
<1>5. ASSUME NEW r \in Request, Owner[r] # e, claim'[SymbolOf[r]] = r
      PROVE  Traced(r, disk'[Owner[r]], pc'[Owner[r]])
  <2>1. OwnsClaim(r)
    BY <1>1, <1>5, RequestAssumption DEF OwnClaimOnly, Takes, Frees, OwnsClaim
  <2> QED
    BY <1>1, <1>5, <2>1 DEF TraceInv, Only
<1>6. \A r \in Request : claim'[SymbolOf[r]] = r => Traced(r, disk'[Owner[r]], pc'[Owner[r]])
  BY <1>5
<1> QED
  BY <1>2, <1>3, <1>4, <1>6 DEF TraceInv, OwnsClaim

\* An unresolved execution has an intent (finality.py:35-60).
LEMMA UnresolvedHasIntent ==
  ASSUME NEW j \in Journal, execution_finality(j) # "RESOLVED"
  PROVE  j.state \notin BeforeIntent
  BY DEF execution_finality, InFlightStates, BeforeIntent

\* The steps of submit() up to the broker call: the request is in the file
\* and the file says SUBMITTED (coordinated_session.py:155-211).
LEMMA SubmitTrace ==
  ASSUME TraceInv, "db" \notin Faults, NEW e \in Exec, CoordInv',
         \/ ReadCash(e) \/ PrepareGranted(e) \/ PrepareRefused(e) \/ CoordinatedSidecar(e)
         \/ CoordinatedPlaceRejected(e) \/ SidecarRelease(e) \/ RejectRelease(e)
  PROVE  TraceInv'
<1> DEFINE r == req[e]
<1>1. /\ pc[e] \in Unplaced /\ pc[e] # "down"
      /\ UNCHANGED << open, mem, disk, req, seen, brokerVars >>
  BY DEF ReadCash, PrepareGranted, PrepareRefused, CoordinatedSidecar, CoordinatedPlaceRejected,
         SidecarRelease, RejectRelease, Unplaced, Submitting
<1>2. PICK next \in { "prepare", "preRejected", "sidecar", "place", "sidecarRelease",
                      "rejectRelease", "preAborted", "subRejected", "idle" } :
        /\ Goto(e, next)
        /\ \/ UNCHANGED coordinationVars /\ (next = "preAborted" => Conflict(r))
           \/ CanUpdateFinality(r, "RESOLVED") /\ UpdateFinality(r, "RESOLVED")
           \/ next # "preAborted" /\ ~ Conflict(r) /\ \E finality : HoldResources(r, finality)
  BY DEF ReadCash, PrepareGranted, PrepareRefused, CoordinatedSidecar, CoordinatedPlaceRejected,
         SidecarRelease, RejectRelease, Release, Prepare, CanPrepare, CanUpdateFinality
<1>3. /\ disk[e].state = "SUBMITTED" /\ disk[e].intent = r /\ r \in Request /\ Owner[r] = e
      /\ mem[e] = disk[e] /\ placed[r] = 0
  BY <1>1, Here DEF TraceInv, CoordInv, Local, Unplaced, Agree
<1>4. orders'[r] \notin Alive
  BY <1>1, <1>3 DEF TraceInv, CoordInv, SessionInv, Placements, Alive, ACTIVE_RAW, brokerVars
<1>5. /\ Only(e) /\ pc'[e] = next /\ pc'[e] # "syncRestore" /\ disk'[e] = disk[e]
      /\ mem'[e] = mem[e]
  BY <1>1, <1>2, Here DEF TraceInv, CoordInv, Only, Goto
<1>6. \A q \in Request : Owner[q] = e /\ OwnsClaim(q) => q = r
  BY <1>3 DEF TraceInv, Traced
<1>7. ASSUME next # "preAborted"
      PROVE  Traced(r, disk[e], next)
  BY <1>3, <1>7 DEF Traced, BeforeIntent, execution_finality, InFlightStates
<1>8. CoordTypeOK /\ SymbolOf \in [Request -> Symbol] /\ None \notin Request
  BY CoordinationAssumption, RequestAssumption DEF TraceInv, CoordInv
<1> HIDE DEF r
<1>9. CASE UNCHANGED coordinationVars /\ (next = "preAborted" => Conflict(r))
  <2>1. UNCHANGED claim /\ OwnClaimOnly(e)
    BY <1>9 DEF coordinationVars, OwnClaimOnly
  <2>2. \A q \in Request : Owner[q] = e /\ claim'[SymbolOf[q]] = q => Traced(q, disk'[e], pc'[e])
    BY <1>5, <1>6, <1>7, <1>9, <2>1 DEF OwnsClaim, Conflict
  <2> QED
    BY <1>3, <1>5, <2>1, <2>2, AssembleTrace
<1>10. CASE CanUpdateFinality(r, "RESOLVED") /\ UpdateFinality(r, "RESOLVED")
  <2>1. Frees(r)
    BY <1>3, <1>10, ResolvedFrees DEF TraceInv, CoordInv
  <2>2. OwnClaimOnly(e)
    BY <1>3, <1>4, <2>1 DEF OwnClaimOnly
  <2>3. \A q \in Request : Owner[q] = e => claim'[SymbolOf[q]] # q
    BY <1>3, <1>6, <1>8, <2>1 DEF Frees, OwnsClaim
  <2> QED
    BY <1>3, <1>5, <2>2, <2>3, AssembleTrace
<1>11. CASE next # "preAborted" /\ ~ Conflict(r) /\ \E finality : HoldResources(r, finality)
  <2>1. Takes(r)
    BY <1>3, <1>8, <1>11 DEF CoordTypeOK, HoldResources, Takes
  <2>2. OwnClaimOnly(e)
    BY <1>3, <2>1 DEF OwnClaimOnly
  <2>3. \A q \in Request : Owner[q] = e /\ claim'[SymbolOf[q]] = q => q = r
    BY <1>3, <1>6, <1>8, <2>1 DEF Takes, OwnsClaim
  <2> QED
    BY <1>3, <1>5, <1>7, <1>11, <2>2, <2>3, AssembleTrace
<1> QED
  BY <1>2, <1>9, <1>10, <1>11

\* _sync() leaves no claim with a resolved execution
\* (coordinated_session.py:249-299).
LEMMA SyncTrace ==
  ASSUME TraceInv, "db" \notin Faults, NEW e \in Exec, CoordInv',
         SyncCheck(e) \/ SyncUpdate(e) \/ SyncRestore(e)
  PROVE  TraceInv'
<1> DEFINE r == mem[e].intent
           finality == execution_finality(mem[e])
<1>1. /\ pc[e] \in { "ret" } \cup Syncing /\ UNCHANGED << mem, disk, req, seen, brokerVars >>
  BY DEF SyncCheck, SyncUpdate, SyncRestore, Syncing
<1>2. PICK next \in { "idle" } \cup Syncing : Goto(e, next)
  BY DEF SyncCheck, SyncUpdate, SyncRestore, Syncing
<1>3. /\ mem[e] \in Journal /\ mem[e] = disk[e] /\ pc'[e] = next /\ disk'[e] = disk[e]
      /\ mem'[e] = mem[e] /\ Only(e)
  <2>1. open' \in [Exec -> BOOLEAN] /\ \A f \in Exec \ { e } : open'[f] = open[f]
    BY Here DEF SyncCheck, SyncUpdate, SyncRestore, TraceInv, CoordInv
  <2> QED
    BY <1>1, <1>2, <2>1, Here DEF TraceInv, CoordInv, Agree, Only, Goto, Syncing
<1>4. CoordTypeOK /\ SymbolOf \in [Request -> Symbol] /\ None \notin Request
  BY CoordinationAssumption, RequestAssumption DEF TraceInv, CoordInv
<1>5. \A q \in Request : Owner[q] = e /\ OwnsClaim(q) => q = r /\ mem[e].state \notin BeforeIntent
  BY <1>3 DEF TraceInv, Traced
<1>6. r # None => /\ r \in Request /\ Owner[r] = e
                  /\ (finality = "RESOLVED" => orders'[r] \notin Alive)
  <2>1. JInv(e, mem[e], orders, placed)
    BY <1>1, Here DEF TraceInv, CoordInv, Syncing
  <2> QED
    BY <1>1, <1>3, <2>1, ResolvedHasNoOrder DEF JInv, Journal, brokerVars
<1>7. CASE SyncCheck(e)
  <2>1. UNCHANGED claim /\ OwnClaimOnly(e)
    BY <1>7 DEF SyncCheck, coordinationVars, OwnClaimOnly
  <2>2. /\ next = "syncRestore" => finality # "RESOLVED"
        /\ next = "idle" => r = None \/ ~ OwnsClaim(r)
    BY <1>2, <1>3, <1>4, <1>6, <1>7, Here
       DEF SyncCheck, Goto, Conflict, OwnsClaim, TraceInv, CoordInv
  <2>3. \A q \in Request : Owner[q] = e /\ claim'[SymbolOf[q]] = q => Traced(q, disk'[e], pc'[e])
    BY <1>2, <1>3, <1>4, <1>5, <2>1, <2>2 DEF OwnsClaim, Traced, Syncing, Settling
  <2> QED
    BY <1>3, <2>1, <2>2, <2>3, AssembleTrace
<1>8. CASE SyncUpdate(e) \/ SyncRestore(e)
  <2>1. /\ r \in Request /\ Owner[r] = e /\ pc'[e] = "idle"
        /\ (SyncRestore(e) => finality # "RESOLVED")
    BY <1>3, <1>6, <1>8, Here DEF SyncUpdate, SyncRestore, Syncing, TraceInv, CoordInv, Goto
  <2>2. finality # "RESOLVED" => Traced(r, disk'[e], pc'[e])
    BY <1>3, <2>1, UnresolvedHasIntent DEF Traced
  <2>3. \/ UNCHANGED claim /\ (finality = "RESOLVED" => Conflict(r))
        \/ Frees(r) /\ finality = "RESOLVED"
        \/ Takes(r) /\ finality # "RESOLVED"
    <3>1. CASE SyncUpdate(e) /\ finality = "RESOLVED"
      <4>1. CASE CanUpdateFinality(r, "RESOLVED") /\ UpdateFinality(r, "RESOLVED")
        BY <2>1, <3>1, <4>1, ResolvedFrees DEF TraceInv, CoordInv
      <4> QED
        BY <3>1, <4>1 DEF SyncUpdate, CanUpdateFinality, coordinationVars
    <3>2. CASE SyncUpdate(e) /\ finality # "RESOLVED"
      BY <3>2 DEF SyncUpdate, UpdateFinality, coordinationVars
    <3>3. CASE SyncRestore(e)
      BY <1>4, <2>1, <3>3
         DEF SyncRestore, CanRestore, Restore, HoldResources, Takes, coordinationVars, CoordTypeOK
    <3> QED
      BY <1>8, <3>1, <3>2, <3>3
  <2>4. OwnClaimOnly(e)
    BY <1>6, <2>1, <2>3, <1>4 DEF OwnClaimOnly
  <2>5. ASSUME NEW q \in Request, Owner[q] = e, claim'[SymbolOf[q]] = q
        PROVE  q = r /\ finality # "RESOLVED"
    BY <1>4, <1>5, <2>1, <2>3, <2>5 DEF Takes, Frees, OwnsClaim, Conflict
  <2> QED
    BY <1>3, <2>1, <2>2, <2>4, <2>5, AssembleTrace
<1> QED
  BY <1>7, <1>8

\* No step of any process loses the trace of a claim.
LEMMA TraceNextInv ==
  ASSUME FaultyWrites = {}, "db" \notin Faults, TraceInv, [Next]_vars
  PROVE  TraceInv'
<1>1. CoordInv'
  BY CoordNextInv DEF TraceInv
<1>2. ASSUME NEW e \in Exec, CoordinationStep(e)
      PROVE  TraceInv'
  BY <1>1, <1>2, SubmitTrace, SyncTrace DEF CoordinationStep
<1>3. ASSUME NEW e \in Exec, SessionStep(e) \/ PreBrokerRejected(e) \/ Call(e),
             UNCHANGED coordinationVars
      PROVE  TraceInv'
  <2>1. Carries(e) /\ Ordinary(e)
    BY <1>3, SessionCarries, SessionIsOrdinary DEF TraceInv, CoordInv
  <2>2. UNCHANGED claim
    BY <1>3 DEF coordinationVars
  <2>3. OwnClaimOnly(e) /\ Only(e) /\ pc'[e] # "syncRestore"
    BY <2>1, <2>2 DEF OwnClaimOnly, Ordinary, Syncing
  <2>4. \A q \in Request : Owner[q] = e /\ claim'[SymbolOf[q]] = q => Traced(q, disk'[e], pc'[e])
    BY <2>1, <2>2 DEF Carries, TraceInv, OwnsClaim
  <2> QED
    BY <1>1, <2>1, <2>3, <2>4, AssembleTrace DEF Carries
<1>4. CASE BrokerNext \/ UNCHANGED vars
  <2>1. UNCHANGED << pc, mem, disk, claim >>
    BY <1>4 DEF BrokerNext, vars, sessionVars, coordinationVars
  <2> QED
    BY <1>1, <2>1 DEF TraceInv, Agree, OwnsClaim
<1> QED
  BY <1>2, <1>3, <1>4 DEF Next, Step, Invoke

\* When journal writes and transactions do not fail, every claim can be
\* traced to the execution that must give it back: the journal file of its
\* owner carries the same request (coordinated_session.py:249-299,
\* session.py:323-329).
THEOREM ClaimsAreTraceable ==
  ASSUME FaultyWrites = {}, "db" \notin Faults
  PROVE  Spec => []ClaimIsTraceable
<1>1. Init => TraceInv
  <2> SUFFICES ASSUME Init
               PROVE  TraceInv
    OBVIOUS
  <2>1. CoordInv
    BY CoordInit
  <2>2. /\ \A e \in Exec : pc[e] = "down"
        /\ \A s \in Symbol : claim[s] = None
    BY DEF Init, SessionInit, CoordinationInit
  <2> QED
    BY <2>1, <2>2, CoordinationAssumption, RequestAssumption DEF TraceInv, Agree, OwnsClaim
<1>2. TraceInv /\ [Next]_vars => TraceInv'
  BY TraceNextInv
<1>3. TraceInv => ClaimIsTraceable
  <2> SUFFICES ASSUME TraceInv, NEW s \in Symbol, claim[s] # None
               PROVE  disk[Owner[claim[s]]].intent = claim[s]
    BY DEF ClaimIsTraceable
  <2>1. claim[s] \in Request /\ OwnsClaim(claim[s])
    BY DEF TraceInv, CoordInv, CoordTypeOK, OwnsClaim
  <2> QED
    BY <2>1 DEF TraceInv, Traced
<1> QED
  BY <1>1, <1>2, <1>3, PTL DEF Spec

-----------------------------------------------------------------------------
(***************************************************************************)
(* The cash of the account.  Committed are the reservations behind which   *)
(* an order is active, or about to be placed.  A restored reservation is   *)
(* not among them unless its order is active, so restore() may reserve     *)
(* more than there is without breaking what the broker needs.              *)
(*                                                                         *)
(* A request is prepared only once: its identity is used from the durable  *)
(* intent on, in memory and, but for an intent whose write failed, in the  *)
(* file, so no claim is left of an earlier submission of it.               *)
(***************************************************************************)
Committed ==
  { r \in Request : /\ reservation[r] = "active"
                    /\ \/ orders[r] \in Alive
                       \/ pc[Owner[r]] \in Granted /\ req[Owner[r]] = r }

Fresh == { "intentEvent", "coord", "prepare" }

\* A session that cannot leave PRE_CHECK.
Stuck(p, m) ==
  m.state = "PRE_CHECK" /\ m.oid = None /\ p \in { "idle", "ret", "syncUpdate" }

UsedOK(p, m, d) ==
  p # "down" => d.used \subseteq m.used /\ (m.used \subseteq d.used \/ Stuck(p, m))

CashInv ==
  /\ CoordInv
  /\ \A e \in Exec : UsedOK(pc[e], mem[e], disk[e])
  /\ \A r \in Request : OwnsClaim(r) => r \in disk[Owner[r]].used
  /\ \A e \in Exec : pc[e] \in Fresh => ~ OwnsClaim(req[e])
  /\ cashRead \in [Exec -> Int] /\ \A e \in Exec : cashRead[e] <= Cash
  /\ CashOf(Committed) <= Cash

\* What a step of e does to the used identities.
Uses(e) ==
  /\ UsedOK(pc'[e], mem'[e], disk'[e])
  /\ disk[e].used \subseteq disk'[e].used
  /\ pc'[e] \in Fresh => /\ req'[e] = req[e]
                         /\ pc[e] \in Fresh \/ req[e] \notin disk[e].used

\* An exception leaves the file alone (session.py:447-455).
LEMMA RaiseUses ==
  ASSUME SessionInv, NEW e \in Exec, UsedOK(pc[e], mem[e], disk[e]), pc[e] # "down", Raise(e)
  PROVE  Uses(e)
<1>1. /\ pc'[e] = (IF open[e] THEN "idle" ELSE "down")
      /\ (open[e] => mem'[e] = mem[e]) /\ disk'[e] = disk[e]
  BY Here DEF Raise, RaiseWith, Goto
<1> QED
  BY <1>1 DEF Uses, UsedOK, Stuck, Fresh

\* A write that keeps the used identities (journal.py:92-110).
LEMMA WriteUses ==
  ASSUME SessionInv, NEW e \in Exec, UsedOK(pc[e], mem[e], disk[e]), pc[e] # "down",
         ~ Stuck(pc[e], mem[e]), NEW m, NEW next, Write(e, m, next), m.used = mem[e].used,
         next \in Fresh => pc[e] \in Fresh, UNCHANGED req \/ next \notin Fresh
  PROVE  Uses(e)
<1>1. CASE RaiseWith(e, m)
  <2>1. /\ pc'[e] = (IF open[e] THEN "idle" ELSE "down")
        /\ (open[e] => mem'[e] = m) /\ disk'[e] = disk[e]
    BY <1>1, Here DEF RaiseWith, Goto
  <2> QED
    BY <2>1 DEF Uses, UsedOK, Fresh
<1>2. CASE mem'[e] = m /\ disk'[e] = m /\ pc'[e] = next
  BY <1>2 DEF Uses, UsedOK
<1> QED
  BY <1>1, <1>2, Here DEF Write, Goto

\* A transition keeps them (session.py:447-455).
LEMMA TransitionUses ==
  ASSUME SessionInv, NEW e \in Exec, UsedOK(pc[e], mem[e], disk[e]), pc[e] # "down",
         ~ Stuck(pc[e], mem[e]), NEW event \in TradeEvent, NEW next,
         Transition(e, mem[e], event, next),
         next \in Fresh => pc[e] \in Fresh, UNCHANGED req \/ next \notin Fresh
  PROVE  Uses(e)
<1>1. CASE ~ CanAdvance(mem[e], event)
  BY <1>1, RaiseUses DEF Transition
<1>2. CASE CanAdvance(mem[e], event)
  <2>1. advance(mem[e], event).used = mem[e].used
    BY Here, AdvanceJournal
  <2> QED
    BY <1>2, <2>1, WriteUses DEF Transition
<1> QED
  BY <1>1, <1>2

\* Control moves on.
LEMMA GotoUses ==
  ASSUME SessionInv, NEW e \in Exec, UsedOK(pc[e], mem[e], disk[e]), pc[e] # "down",
         NEW next, Goto(e, next), UNCHANGED << mem, disk, req >>,
         \/ ~ Stuck(pc[e], mem[e])
         \/ next \in { "idle", "ret", "syncUpdate" },
         next \in Fresh => pc[e] \in Fresh
  PROVE  Uses(e)
<1>1. mem'[e] = mem[e] /\ disk'[e] = disk[e] /\ pc'[e] = next
  BY Here DEF Goto
<1> QED
  BY <1>1 DEF Uses, UsedOK, Stuck

\* _apply_observation() (session.py:382-398).
LEMMA ApplyUses ==
  ASSUME SessionInv, NEW e \in Exec, UsedOK(pc[e], mem[e], disk[e]),
         pc[e] \notin { "down", "idle", "ret", "syncUpdate" }, NEW r, NEW order,
         ApplyObservation(e, r, order)
  PROVE  Uses(e)
<1> DEFINE m == [mem[e] EXCEPT !.filled = order.filled]
<1>1. m.used = mem[e].used
  BY Here DEF Journal
<1>2. Raise(e) \/ Transition(e, mem[e], "FATAL", "ret") \/ Write(e, m, "event")
  BY DEF ApplyObservation
<1> HIDE DEF m
<1>3. "FATAL" \in TradeEvent /\ ~ Stuck(pc[e], mem[e])
  BY EventNames DEF Stuck
<1> QED
  BY <1>1, <1>2, <1>3, RaiseUses, TransitionUses, WriteUses DEF Fresh

\* No step or call of the session forgets a used identity, and only
\* _persist_intent() of an unused one leads to the coordination
\* (session.py:98-455, journal.py:112-158).
LEMMA SessionUses ==
  ASSUME SessionInv, NEW e \in Exec, UsedOK(pc[e], mem[e], disk[e]),
         SessionStep(e) \/ PreBrokerRejected(e) \/ Call(e)
  PROVE  Uses(e)
<1>1. CASE \/ OpenFirst(e) \/ OpenInFlight(e) \/ OpenInterrupted(e) \/ BeginPrecheck(e)
           \/ IntentPersisted(e) \/ PreBrokerAborted(e) \/ SubmitRejected(e)
           \/ SubmitAmbiguous(e) \/ SubmitAccepted(e) \/ CancelRequested(e) \/ CancelSent(e)
           \/ CancelRefused(e) \/ PreBrokerRejected(e)
  <2>1. PICK event \in { "SESSION_READY", "RESTART_RECOVERY", "FATAL", "BEGIN_PRECHECK",
                         "INTENT_PERSISTED", "PRE_BROKER_ABORTED", "SUBMIT_REJECTED",
                         "SUBMIT_AMBIGUOUS", "SUBMIT_ACCEPTED", "CANCEL_REQUESTED",
                         "CANCEL_SENT", "CANCEL_REQUEST_REJECTED", "PRE_BROKER_REJECTED" },
             next \in { "ret", "recover", "guard", "coord", "idle", "poll", "cancelSend" } :
          /\ Transition(e, mem[e], event, next)
          /\ next = "coord" => pc[e] = "intentEvent"
    BY <1>1 DEF OpenFirst, OpenInFlight, OpenInterrupted, BeginPrecheck, IntentPersisted,
         PreBrokerAborted, SubmitRejected, SubmitAmbiguous, SubmitAccepted, CancelRequested,
         CancelSent, CancelRefused, PreBrokerRejected
  <2>2. pc[e] \notin { "down", "idle", "ret", "syncUpdate" } /\ UNCHANGED req
    BY <1>1 DEF OpenFirst, OpenInFlight, OpenInterrupted, BeginPrecheck, IntentPersisted,
         PreBrokerAborted, SubmitRejected, SubmitAmbiguous, SubmitAccepted, CancelRequested,
         CancelSent, CancelRefused, PreBrokerRejected
  <2>3. event \in TradeEvent
    BY EventNames DEF OrderEvents, RecoveryEvents
  <2> QED
    BY <2>1, <2>2, <2>3, TransitionUses DEF Stuck, Fresh
<1>2. CASE CallNextCycle(e) \/ \E r \in Request : CallSubmit(e, r)
  <2>1. PICK event \in { "NEXT_CYCLE", "TRIGGERED" }, next \in { "clear", "begin" } :
          Transition(e, mem[e], event, next)
    BY <1>2 DEF CallNextCycle, CallSubmit
  <2>2. mem[e].state # "PRE_CHECK" /\ pc[e] = "idle"
    BY <1>2, Here, Sources DEF CallNextCycle, CallSubmit, Journal
  <2>3. event \in TradeEvent
    BY EventNames
  <2> QED
    BY <2>1, <2>2, <2>3, TransitionUses DEF Stuck, Fresh
<1>3. CASE OpenSettled(e) \/ OpenUnknown(e) \/ CallPoll(e) \/ CallReconcile(e)
           \/ PlaceAccepted(e) \/ PlaceAmbiguous(e) \/ CancelSend(e)
  <2>1. PICK next \in { "ret", "recover", "poll", "persistId", "subAmbiguous", "cancelSent",
                        "cancelRefused", "idle" } :
          /\ Goto(e, next) /\ UNCHANGED << mem, disk, req >> /\ pc[e] # "down"
          /\ Stuck(pc[e], mem[e]) => next \in { "idle", "ret", "syncUpdate" }
    BY <1>3 DEF OpenSettled, OpenUnknown, CallPoll, CallReconcile, PlaceAccepted,
         PlaceAmbiguous, CancelSend, Stuck, InFlightStates
  <2> QED
    BY <2>1, GotoUses DEF Fresh
<1>4. CASE Precheck(e)
  <2>1. "PRECHECK_VERIFIED" \in TradeEvent /\ "PRECHECK_REJECTED" \in TradeEvent
    BY EventNames
  <2> QED
    BY <1>4, <2>1, TransitionUses, RaiseUses DEF Precheck, Stuck, Fresh
<1>5. ASSUME ToUnknown(e), pc[e] \in { "poll", "event" }, UNCHANGED req
      PROVE  Uses(e)
  <2>1. { "QUERY_AMBIGUOUS", "FATAL" } \subseteq TradeEvent
    BY EventNames DEF RecoveryEvents
  <2> QED
    BY <1>5, <2>1, TransitionUses DEF ToUnknown, Stuck, Fresh
<1>6. CASE PollUnanswered(e)
  BY <1>5, <1>6 DEF PollUnanswered
<1>7. CASE ApplyRecovered(e) \/ PollAnswered(e)
  BY <1>7, ApplyUses DEF ApplyRecovered, PollAnswered
<1>8. CASE ObservedEvent(e)
  <2> DEFINE event == event_for_observation(mem[e].state, seen[e].status)
  <2>1. /\ pc[e] = "event" /\ mem[e].state \in TradeState /\ seen[e].status \in BrokerOrderStatus
        /\ ~ Stuck(pc[e], mem[e])
    BY <1>8, Here DEF ObservedEvent, Journal, BrokerOrder, BrokerOrderStatus, Stuck
  <2>2. event \in TradeEvent \cup { "NONE", "AMBIGUOUS" }
    BY <2>1, ObservationEvents
  <2>3. CASE event = "NONE"
    BY <1>8, <2>1, <2>3, GotoUses DEF ObservedEvent, Fresh
  <2>4. CASE event = "AMBIGUOUS"
    BY <1>5, <1>8, <2>1, <2>4 DEF ObservedEvent
  <2>5. CASE event \notin { "NONE", "AMBIGUOUS" }
    <3>1. Transition(e, mem[e], event, "ret")
      BY <1>8, <2>5 DEF ObservedEvent
    <3> QED
      BY <2>1, <2>2, <2>5, <3>1, TransitionUses DEF Fresh
  <2> QED
    BY <2>3, <2>4, <2>5
<1>9. CASE Recover(e)
  <2> DEFINE m == [mem[e] EXCEPT !.oid = mem[e].intent]
  <2>1. m.used = mem[e].used
    BY Here DEF Journal
  <2>2. \/ \E order : ApplyObservation(e, mem[e].oid, order)
        \/ Write(e, m, "apply")
        \/ Transition(e, mem[e], "RECOVERY_FAILED", "ret")
    BY <1>9 DEF Recover
  <2> HIDE DEF m
  <2>3. "RECOVERY_FAILED" \in TradeEvent /\ pc[e] = "recover" /\ ~ Stuck(pc[e], mem[e])
    BY <1>9, EventNames DEF RecoveryEvents, Recover, Stuck
  <2> QED
    BY <2>1, <2>2, <2>3, ApplyUses, WriteUses, TransitionUses DEF Fresh
<1>10. CASE PersistBrokerOrderId(e) \/ CallCancel(e) \/ ClearCycleData(e)
  <2>1. PICK m \in { [mem[e] EXCEPT !.oid = req[e]], [mem[e] EXCEPT !.cancel = TRUE],
                     [mem[e] EXCEPT !.intent = None, !.oid = None, !.cancel = FALSE,
                                    !.filled = 0] },
             next \in { "subAccepted", "cancelRequest", "idle" } :
          Raise(e) \/ Write(e, m, next)
    BY <1>10 DEF PersistBrokerOrderId, CallCancel, ClearCycleData
  <2>2. m.used = mem[e].used
    BY Here DEF Journal
  <2>3. pc[e] # "down" /\ ~ Stuck(pc[e], mem[e])
    BY <1>10 DEF PersistBrokerOrderId, CallCancel, ClearCycleData, Stuck
  <2> QED
    BY <2>1, <2>2, <2>3, WriteUses, RaiseUses DEF Fresh
<1>11. CASE PersistIntent(e)
  <2> DEFINE m == [mem[e] EXCEPT !.intent = req[e], !.used = @ \cup { req[e] }]
  <2>1. m.used = mem[e].used \cup { req[e] } /\ m.state = "PRE_CHECK" /\ m.oid = mem[e].oid
    BY <1>11, Here DEF PersistIntent, Journal, Local
  <2>2. /\ pc[e] = "intent" /\ UNCHANGED req
        /\ \/ Raise(e)
           \/ Write(e, m, "intentEvent") /\ req[e] \notin mem[e].used /\ mem[e].oid = None
    BY <1>11, Here DEF PersistIntent, JInv
  <2> HIDE DEF m
  <2>3. disk[e].used = mem[e].used
    BY <2>2 DEF UsedOK, Stuck
  <2>4. CASE Write(e, m, "intentEvent") /\ req[e] \notin mem[e].used /\ mem[e].oid = None
    <3>1. \/ mem'[e] = m /\ disk'[e] = m /\ pc'[e] = "intentEvent"
          \/ /\ pc'[e] = (IF open[e] THEN "idle" ELSE "down")
             /\ (open[e] => mem'[e] = m) /\ disk'[e] = disk[e]
      BY <2>4, Here DEF Write, RaiseWith, Goto
    <3> QED
      BY <2>1, <2>2, <2>3, <2>4, <3>1 DEF Uses, UsedOK, Stuck, Fresh
  <2> QED
    BY <2>2, <2>4, RaiseUses
<1>12. CASE Open(e) \/ Stop(e)
  <2>1. /\ disk'[e] = disk[e] /\ pc'[e] \in { "opening", "down" }
        /\ (pc'[e] = "opening" => mem'[e] = disk[e])
    BY <1>12, Here DEF Open, Stop, Goto
  <2> QED
    BY <2>1 DEF Uses, UsedOK, Fresh
<1> QED
  BY <1>1, <1>2, <1>3, <1>4, <1>6, <1>7, <1>8, <1>9, <1>10, <1>11, <1>12
     DEF SessionStep, Call

\* CashOf() is a sum of the required cash (coordination.py:588, 871).
LEMMA CashIsTotal ==
  ASSUME NEW S
  PROVE  CashOf(S) = Total(RequiredCash, S)
  BY DEF CashOf, Total

\* An order that is active or about to be placed had its reservation before,
\* unless this step granted it (coordination.py:511-830).
LEMMA CommittedShrinks ==
  ASSUME CoordInv, CoordInv', NEW e \in Exec, Only(e),
         \A r \in Request :
           orders'[r] \in Alive => orders[r] \in Alive \/ (pc[e] = "place" /\ r = req[e]),
         NEW G, pc'[e] \in Granted => req'[e] \in G \/ (pc[e] \in Granted /\ req'[e] = req[e])
  PROVE  Committed' \subseteq Committed \cup G
<1> SUFFICES ASSUME NEW r \in Committed', r \notin G
             PROVE  r \in Committed
  OBVIOUS
<1>1. /\ r \in Request /\ reservation'[r] = "active"
      /\ \/ orders'[r] \in Alive
         \/ pc'[Owner[r]] \in Granted /\ req'[Owner[r]] = r
  BY DEF Committed
<1>2. Side[r] = "BUY" /\ Owner[r] \in Exec
  BY <1>1, RequestAssumption DEF CoordInv, ReservationMatchesClaim
<1>3. pc[e] = "place" => Owner[req[e]] = e
  BY Here DEF CoordInv, Local, Submitting
<1>4. orders[r] \in Alive \/ (pc[Owner[r]] \in Granted /\ req[Owner[r]] = r)
  <2>1. CASE orders'[r] \in Alive
    BY <1>1, <1>3, <2>1 DEF Granted
  <2>2. CASE pc'[Owner[r]] \in Granted /\ req'[Owner[r]] = r
    BY <1>1, <1>2, <2>2 DEF Only
  <2> QED
    BY <1>1, <2>1, <2>2
<1>5. OwnsClaim(r)
  BY <1>1, <1>2, <1>4 DEF CoordInv
<1> QED
  BY <1>1, <1>2, <1>4, <1>5 DEF Committed, CoordInv, ReservationMatchesClaim

\* Sums of reservations (coordination.py:588, 871).
LEMMA CashGrows ==
  ASSUME IsFiniteSet(Request), NEW S \in SUBSET Request, NEW U \in SUBSET S
  PROVE  CashOf(U) \in Nat /\ CashOf(S) \in Nat /\ CashOf(U) <= CashOf(S)
<1>1. RequiredCash \in [Request -> Nat]
  BY CoordinationAssumption
<1>2. Total(RequiredCash, S) \in Nat /\ Total(RequiredCash, U) \in Nat
  BY <1>1, TotalType
<1>3. Total(RequiredCash, U) <= Total(RequiredCash, S)
  BY <1>1, TotalGrows
<1> QED
  BY <1>2, <1>3, CashIsTotal

\* A step of e moves no other execution's claim or journal, and grants no
\* order without cash.
LEMMA AssembleCash ==
  ASSUME IsFiniteSet(Request), CashInv, NEW e \in Exec, CoordInv', Only(e), OwnClaimOnly(e),
         Uses(e),
         \A r \in Request : Owner[r] = e /\ claim'[SymbolOf[r]] = r => r \in disk'[e].used,
         pc'[e] \in Fresh => claim'[SymbolOf[req'[e]]] # req'[e],
         cashRead' \in [Exec -> Int], \A f \in Exec : cashRead'[f] <= Cash,
         CashOf(Committed') <= Cash
  PROVE  CashInv'
<1>1. /\ CoordTypeOK /\ SymbolOf \in [Request -> Symbol] /\ Owner \in [Request -> Exec]
      /\ None \notin Request
  BY CoordinationAssumption, RequestAssumption DEF CashInv, CoordInv
<1>2. ASSUME NEW r \in Request, Owner[r] # e, claim'[SymbolOf[r]] = r
      PROVE  OwnsClaim(r)
  BY <1>1, <1>2 DEF OwnClaimOnly, Takes, Frees, OwnsClaim
<1>3. \A f \in Exec : UsedOK(pc'[f], mem'[f], disk'[f])
  BY DEF CashInv, Only, Uses
<1>4. \A r \in Request : claim'[SymbolOf[r]] = r => r \in disk'[Owner[r]].used
  BY <1>1, <1>2 DEF CashInv, Only
<1>5. ASSUME NEW f \in Exec \ { e }, pc'[f] \in Fresh
      PROVE  claim'[SymbolOf[req'[f]]] # req'[f]
  <2>1. pc[f] \in Fresh /\ req'[f] = req[f] /\ ~ OwnsClaim(req[f])
    BY <1>5 DEF Only, CashInv
  <2>2. req[f] \in Request /\ Owner[req[f]] = f
    BY <2>1, Here DEF CashInv, CoordInv, Local, Fresh, Submitting
  <2> QED
    BY <1>2, <2>1, <2>2
<1>6. \A f \in Exec : pc'[f] \in Fresh => claim'[SymbolOf[req'[f]]] # req'[f]
  BY <1>5
<1>7. \A f \in Exec : cashRead'[f] <= Cash
  OBVIOUS
<1> QED
  BY <1>3, <1>4, <1>6, <1>7 DEF CashInv, OwnsClaim

\* Most steps read no cash and grant nothing.
LEMMA AssembleSmall ==
  ASSUME IsFiniteSet(Request), CashInv, NEW e \in Exec, CoordInv', Only(e), OwnClaimOnly(e),
         Uses(e),
         \A r \in Request : Owner[r] = e /\ claim'[SymbolOf[r]] = r => r \in disk'[e].used,
         pc'[e] \in Fresh => claim'[SymbolOf[req'[e]]] # req'[e],
         cashRead' \in [Exec -> Int], \A f \in Exec : cashRead'[f] <= Cash,
         \A r \in Request :
           orders'[r] \in Alive => orders[r] \in Alive \/ (pc[e] = "place" /\ r = req[e]),
         pc'[e] \in Granted => pc[e] \in Granted /\ req'[e] = req[e]
  PROVE  CashInv'
<1>1. Committed' \subseteq Committed
  <2>1. Committed' \subseteq Committed \cup {}
    BY CommittedShrinks DEF CashInv
  <2> QED
    BY <2>1
<1>2. Committed \in SUBSET Request
  BY DEF Committed
<1>3. CashOf(Committed') <= Cash
  <2>1. CashOf(Committed') \in Nat /\ CashOf(Committed) \in Nat
        /\ CashOf(Committed') <= CashOf(Committed)
    BY <1>1, <1>2, CashGrows
  <2> QED
    BY <2>1, CashAssumption DEF CashInv
<1> QED
  BY <1>3, AssembleCash

\* query_asset() never reports more than the account has
\* (coordinated_session.py:155-187).
LEMMA CashIsBounded ==
  ASSUME IsFiniteSet(Request)
  PROVE  AvailableCash \in Int /\ AvailableCash <= Cash
<1> DEFINE S == { r \in Request : /\ Side[r] = "BUY"
                                  /\ orders[r] \in ACTIVE_RAW \cup { "SUCCEEDED", "PART_CANCEL" } }
<1>1. CashOf(S) \in Nat
  <2>1. S \in SUBSET Request /\ S \in SUBSET S
    OBVIOUS
  <2> HIDE DEF S
  <2> QED
    BY <2>1, CashGrows
<1>2. AvailableCash = Cash - CashOf(S)
  BY DEF AvailableCash, CashTaken
<1> HIDE DEF S
<1> QED
  BY <1>1, <1>2, CashAssumption

\* The steps of submit() before the broker call, but the grant
\* (coordinated_session.py:48-60, 155-211).
LEMMA SubmitCash ==
  ASSUME IsFiniteSet(Request), CashInv, NEW e \in Exec, CoordInv',
         \/ ReadCash(e) \/ PrepareRefused(e) \/ CoordinatedSidecar(e)
         \/ CoordinatedPlaceRejected(e) \/ SidecarRelease(e) \/ RejectRelease(e)
  PROVE  CashInv'
<1>1. /\ pc[e] \in Unplaced /\ pc[e] # "down"
      /\ UNCHANGED << open, mem, disk, req, seen, brokerVars >>
  BY DEF ReadCash, PrepareRefused, CoordinatedSidecar, CoordinatedPlaceRejected,
         SidecarRelease, RejectRelease, Unplaced, Submitting
<1>2. PICK next \in { "prepare", "preRejected", "place", "sidecarRelease",
                      "rejectRelease", "preAborted", "subRejected", "idle" } :
        /\ Goto(e, next)
        /\ next = "prepare" => pc[e] = "coord"
        /\ next = "place" => pc[e] = "sidecar"
        /\ \/ UNCHANGED coordinationVars
           \/ CanUpdateFinality(req[e], "RESOLVED") /\ UpdateFinality(req[e], "RESOLVED")
  BY DEF ReadCash, PrepareRefused, CoordinatedSidecar, CoordinatedPlaceRejected,
         SidecarRelease, RejectRelease, Release
<1>3. /\ req[e] \in Request /\ Owner[req[e]] = e /\ placed[req[e]] = 0
      /\ mem[e].state = "SUBMITTED"
  BY <1>1, Here DEF CashInv, CoordInv, Local, Unplaced
<1>4. orders'[req[e]] \notin Alive /\ orders' = orders
  BY <1>1, <1>3 DEF CashInv, CoordInv, SessionInv, Placements, Alive, ACTIVE_RAW, brokerVars
<1>5. /\ Only(e) /\ pc'[e] = next /\ disk'[e] = disk[e] /\ req'[e] = req[e]
  BY <1>1, <1>2, Here DEF CashInv, CoordInv, Only, Goto
<1>6. Uses(e)
  BY <1>1, <1>2, <1>3, GotoUses DEF CashInv, CoordInv, Stuck, Fresh
<1>7. /\ OwnClaimOnly(e)
      /\ \A q \in Request : claim'[SymbolOf[q]] = q => OwnsClaim(q)
  <2>1. CASE UNCHANGED claim
    BY <2>1 DEF OwnClaimOnly, OwnsClaim
  <2>2. CASE CanUpdateFinality(req[e], "RESOLVED") /\ UpdateFinality(req[e], "RESOLVED")
    <3>1. Frees(req[e])
      BY <1>3, <2>2, ResolvedFrees DEF CashInv, CoordInv
    <3> QED
      BY <1>3, <1>4, <3>1, CoordinationAssumption, RequestAssumption
         DEF OwnClaimOnly, Frees, OwnsClaim
  <2> QED
    BY <1>2, <2>1, <2>2 DEF coordinationVars
<1>8. \A r \in Request : Owner[r] = e /\ claim'[SymbolOf[r]] = r => r \in disk'[e].used
  BY <1>5, <1>7 DEF CashInv
<1>9. pc'[e] \in Fresh => claim'[SymbolOf[req'[e]]] # req'[e]
  BY <1>2, <1>3, <1>5, <1>7 DEF CashInv, Fresh
<1>10. cashRead' \in [Exec -> Int] /\ \A f \in Exec : cashRead'[f] <= Cash
  <2>1. cashRead \in [Exec -> Int] /\ \A f \in Exec : cashRead[f] <= Cash
    BY DEF CashInv
  <2>2. \/ cashRead' = cashRead
        \/ \E c \in Int : c <= Cash /\ cashRead' = [cashRead EXCEPT ![e] = c]
    BY CashIsBounded, CashAssumption
       DEF ReadCash, PrepareRefused, CoordinatedSidecar, CoordinatedPlaceRejected,
           SidecarRelease, RejectRelease
  <2> QED
    BY <2>1, <2>2
<1>11. pc'[e] \in Granted => pc[e] \in Granted /\ req'[e] = req[e]
  BY <1>2, <1>5 DEF Granted
<1> QED
  BY <1>4, <1>5, <1>6, <1>7, <1>8, <1>9, <1>10, <1>11, AssembleSmall

\* prepare(): a request that is granted had no reservation, so its cash was
\* weighed against all the others (coordination.py:511-635).
LEMMA GrantCash ==
  ASSUME IsFiniteSet(Request), CashInv, NEW e \in Exec, CoordInv', PrepareGranted(e)
  PROVE  CashInv'
<1> DEFINE r == req[e]
           active == { q \in Request : reservation[q] = "active" }
<1>1. /\ pc[e] = "prepare" /\ Goto(e, "sidecar") /\ CanPrepare(r, cashRead[e])
      /\ \E finality : HoldResources(r, finality)
      /\ cashRead' = [cashRead EXCEPT ![e] = 0]
      /\ UNCHANGED << open, mem, disk, req, seen, brokerVars >>
  BY DEF PrepareGranted, Prepare
<1>2. /\ r \in Request /\ Owner[r] = e /\ disk[e].intent = r /\ r \in disk[e].used
      /\ mem[e].state = "SUBMITTED"
  <2>1. Local(e, pc[e], open[e], mem[e], disk[e], req[e], seen[e], orders, placed)
        /\ JInv(e, disk[e], orders, placed)
    BY Here DEF CashInv, CoordInv
  <2> QED
    BY <1>1, <2>1, RequestAssumption DEF Local, Submitting, JInv
<1>3. /\ Only(e) /\ pc'[e] = "sidecar" /\ disk'[e] = disk[e] /\ req'[e] = r /\ orders' = orders
  BY <1>1, Here DEF CashInv, CoordInv, Only, Goto, brokerVars
<1>4. Uses(e)
  BY <1>1, <1>2, GotoUses DEF CashInv, CoordInv, Stuck, Fresh
<1>5. CoordTypeOK /\ SymbolOf \in [Request -> Symbol] /\ None \notin Request
  BY CoordinationAssumption, RequestAssumption DEF CashInv, CoordInv
<1> HIDE DEF r
<1>6. Takes(r)
  BY <1>1, <1>2, <1>5 DEF CanPrepare, CoordTypeOK, HoldResources, Takes
<1>7. OwnClaimOnly(e)
  BY <1>2, <1>6 DEF OwnClaimOnly
<1>8. \A q \in Request : Owner[q] = e /\ claim'[SymbolOf[q]] = q => q \in disk'[e].used
  <2>1. \A q \in Request : claim'[SymbolOf[q]] = q => q = r \/ OwnsClaim(q)
    BY <1>2, <1>5, <1>6 DEF Takes, OwnsClaim
  <2> QED
    BY <1>2, <1>3, <2>1 DEF CashInv
<1>9. cashRead' \in [Exec -> Int] /\ \A f \in Exec : cashRead'[f] <= Cash
  <2>1. cashRead \in [Exec -> Int] /\ \A f \in Exec : cashRead[f] <= Cash
    BY DEF CashInv
  <2> QED
    BY <1>1, <2>1, CashAssumption
<1>10. CashOf(Committed') <= Cash
  <2>1. Committed \in SUBSET active /\ active \in SUBSET Request
    BY DEF Committed
  <2>2. Committed' \subseteq Committed \cup { r }
    BY <1>3, CommittedShrinks DEF CashInv
  <2>3. CASE Side[r] = "BUY"
    <3>1. reservation[r] # "active"
      BY <1>1, <1>2 DEF CashInv, CoordInv, ReservationMatchesClaim, Fresh, r
    <3>2. RequiredCash[r] <= cashRead[e] - CashOf(active)
      BY <1>1, <2>3, <3>1 DEF CanPrepare, ActiveReservedCash
    <3>3. r \in Request \ active /\ active \cup { r } \in SUBSET Request
      BY <1>2, <2>1, <3>1
    <3>4. Committed' \in SUBSET (active \cup { r })
      BY <2>1, <2>2
    <3> HIDE DEF active
    <3>5. CashOf(active \cup { r }) = RequiredCash[r] + CashOf(active)
      BY <2>1, <3>3, CashIsTotal, TotalWith, CoordinationAssumption
    <3>6. /\ CashOf(Committed') \in Nat /\ CashOf(active \cup { r }) \in Nat
          /\ CashOf(Committed') <= CashOf(active \cup { r })
      BY <3>3, <3>4, CashGrows
    <3>7. CashOf(active) \in Nat
      BY <2>1, CashGrows
    <3>8. cashRead[e] \in Int /\ cashRead[e] <= Cash /\ RequiredCash[r] \in Nat
      BY <1>2, CoordinationAssumption DEF CashInv
    <3> QED
      BY <3>2, <3>5, <3>6, <3>7, <3>8, CashAssumption
  <2>4. CASE Side[r] # "BUY"
    <3>1. Committed' \in SUBSET Committed
      <4>1. r \notin Committed'
        BY <1>2, <2>4 DEF Committed, CoordInv, ReservationMatchesClaim
      <4> QED
        BY <2>2, <4>1
    <3>2. /\ CashOf(Committed') \in Nat /\ CashOf(Committed) \in Nat
          /\ CashOf(Committed') <= CashOf(Committed)
      BY <2>1, <3>1, CashGrows
    <3> QED
      BY <3>2, CashAssumption DEF CashInv
  <2> QED
    BY <2>3, <2>4
<1> QED
  BY <1>3, <1>4, <1>7, <1>8, <1>9, <1>10, AssembleCash DEF Fresh

\* _sync() (coordinated_session.py:249-299).
LEMMA SyncCash ==
  ASSUME IsFiniteSet(Request), CashInv, NEW e \in Exec, CoordInv',
         SyncCheck(e) \/ SyncUpdate(e) \/ SyncRestore(e)
  PROVE  CashInv'
<1> DEFINE r == mem[e].intent
           finality == execution_finality(mem[e])
<1>1. /\ pc[e] \in { "ret" } \cup Syncing /\ pc[e] # "down"
      /\ UNCHANGED << mem, disk, req, seen, brokerVars, cashRead >>
  BY DEF SyncCheck, SyncUpdate, SyncRestore, Syncing
<1>2. PICK next \in { "idle" } \cup Syncing :
        Goto(e, next) /\ (next = "syncRestore" => finality # "RESOLVED")
  BY RequestAssumption DEF SyncCheck, SyncUpdate, SyncRestore, Syncing, OwnsClaim
<1>3. Only(e) /\ pc'[e] = next /\ disk'[e] = disk[e] /\ orders' = orders
  <2>1. open' \in [Exec -> BOOLEAN] /\ \A f \in Exec \ { e } : open'[f] = open[f]
    BY Here DEF SyncCheck, SyncUpdate, SyncRestore, CashInv, CoordInv
  <2> QED
    BY <1>1, <1>2, <2>1, Here DEF CashInv, CoordInv, Only, Goto, brokerVars
<1>4. Uses(e)
  <2>1. next = "syncRestore" => mem[e].state # "PRE_CHECK"
    BY <1>2 DEF execution_finality, InFlightStates
  <2> QED
    BY <1>1, <1>2, <2>1, GotoUses DEF CashInv, CoordInv, Syncing, Stuck, Fresh
<1>5. /\ pc'[e] \notin Granted /\ pc'[e] \notin Fresh
  BY <1>2, <1>3 DEF Granted, Fresh, Syncing
<1>6. CoordTypeOK /\ SymbolOf \in [Request -> Symbol] /\ None \notin Request
  BY CoordinationAssumption, RequestAssumption DEF CashInv, CoordInv
<1>7. /\ OwnClaimOnly(e)
      /\ \A q \in Request : Owner[q] = e /\ claim'[SymbolOf[q]] = q => q \in disk'[e].used
  <2>1. CASE UNCHANGED claim
    BY <1>3, <2>1 DEF OwnClaimOnly, OwnsClaim, CashInv
  <2>2. CASE ~ UNCHANGED claim
    <3>1. pc[e] \in Syncing /\ r \in Request /\ Owner[r] = e /\ r \in mem[e].used
          /\ (finality = "RESOLVED" => orders[r] \notin Alive)
      <4>1. pc[e] \in Syncing
        BY <2>2 DEF SyncCheck, SyncUpdate, SyncRestore, Syncing, coordinationVars
      <4>2. mem[e] \in Journal /\ JInv(e, mem[e], orders, placed) /\ r # None
        BY <1>1, <4>1, Here DEF CashInv, CoordInv
      <4> QED
        BY <4>1, <4>2, ResolvedHasNoOrder DEF JInv, Journal
    <3>2. CASE SyncUpdate(e)
      <4>1. finality = "RESOLVED" /\ CanUpdateFinality(r, "RESOLVED")
            /\ UpdateFinality(r, "RESOLVED")
        BY <2>2, <3>2 DEF SyncUpdate, UpdateFinality, coordinationVars
      <4>2. Frees(r)
        BY <3>1, <4>1, ResolvedFrees DEF CashInv, CoordInv
      <4>3. \A q \in Request : claim'[SymbolOf[q]] = q => OwnsClaim(q)
        BY <1>6, <4>2 DEF Frees, OwnsClaim
      <4> QED
        BY <1>3, <3>1, <4>1, <4>2, <4>3 DEF OwnClaimOnly, CashInv
    <3>3. CASE SyncRestore(e)
      <4>1. ~ Conflict(r) /\ HoldResources(r, finality) /\ pc[e] = "syncRestore"
        BY <2>2, <3>3 DEF SyncRestore, CanRestore, Restore, coordinationVars
      <4>2. Takes(r)
        BY <1>6, <3>1, <4>1 DEF CoordTypeOK, HoldResources, Takes
      <4>3. r \in disk[e].used
        BY <3>1, <4>1 DEF CashInv, UsedOK, Stuck
      <4>4. \A q \in Request : claim'[SymbolOf[q]] = q => q = r \/ OwnsClaim(q)
        BY <1>6, <3>1, <4>2 DEF Takes, OwnsClaim
      <4> QED
        BY <1>3, <3>1, <4>2, <4>3, <4>4 DEF OwnClaimOnly, CashInv
    <3> QED
      BY <2>2, <3>2, <3>3 DEF SyncCheck, coordinationVars
  <2> QED
    BY <2>1, <2>2
<1>8. cashRead' \in [Exec -> Int] /\ \A f \in Exec : cashRead'[f] <= Cash
  BY <1>1 DEF CashInv
<1> QED
  BY <1>3, <1>4, <1>5, <1>7, <1>8, AssembleSmall

\* No step of any process lets the broker need more than the account has.
LEMMA CashNextInv ==
  ASSUME IsFiniteSet(Request), "persistId" \notin FaultyWrites, CashInv, [Next]_vars
  PROVE  CashInv'
<1>1. CoordInv'
  BY CoordNextInv DEF CashInv
<1>2. ASSUME NEW e \in Exec, CoordinationStep(e)
      PROVE  CashInv'
  BY <1>1, <1>2, SubmitCash, GrantCash, SyncCash DEF CoordinationStep
<1>3. ASSUME NEW e \in Exec, SessionStep(e) \/ PreBrokerRejected(e) \/ Call(e),
             UNCHANGED << coordinationVars, cashRead >>
      PROVE  CashInv'
  <2>1. Uses(e) /\ Ordinary(e)
    BY <1>3, SessionUses, SessionIsOrdinary DEF CashInv, CoordInv
  <2>2. UNCHANGED << claim, cashRead >>
    BY <1>3 DEF coordinationVars
  <2>3. OwnClaimOnly(e) /\ Only(e) /\ pc'[e] \notin Granted
    BY <2>1, <2>2 DEF OwnClaimOnly, Ordinary
  <2>4. \A q \in Request : Owner[q] = e /\ claim'[SymbolOf[q]] = q => q \in disk'[e].used
    BY <2>1, <2>2 DEF Uses, CashInv, OwnsClaim
  <2>5. pc'[e] \in Fresh => claim'[SymbolOf[req'[e]]] # req'[e]
    <3>1. SUFFICES ASSUME pc'[e] \in Fresh, OwnsClaim(req[e])
                   PROVE  FALSE
      BY <2>1, <2>2 DEF Uses, OwnsClaim
    <3>2. req[e] \notin disk[e].used
      BY <2>1, <3>1 DEF Uses, CashInv
    <3>3. req[e] \in Request /\ Owner[req[e]] = e
      <4>1. CoordInv' /\ Local(e, pc'[e], open'[e], mem'[e], disk'[e], req'[e], seen'[e],
                               orders', placed')
        BY <1>1 DEF CoordInv, SessionInv, ProcInv, PInv
      <4> QED
        BY <2>1, <3>1, <4>1 DEF Uses, Local, Fresh, Submitting
    <3> QED
      BY <3>1, <3>2, <3>3 DEF CashInv
  <2>6. cashRead' \in [Exec -> Int] /\ \A f \in Exec : cashRead'[f] <= Cash
    BY <2>2 DEF CashInv
  <2> QED
    BY <1>1, <2>1, <2>3, <2>4, <2>5, <2>6, AssembleSmall DEF Ordinary
<1>4. CASE BrokerNext \/ UNCHANGED vars
  <2>1. UNCHANGED << pc, mem, disk, req, claim, reservation, cashRead >>
    BY <1>4 DEF BrokerNext, vars, sessionVars, coordinationVars
  <2>2. \A q \in Request : orders'[q] \in Alive => orders[q] \in Alive
    <3>1. CASE UNCHANGED vars
      BY <3>1 DEF vars, brokerVars
    <3>2. ASSUME NEW r \in Request, BrokerMove(r), NEW q \in Request, orders'[q] \in Alive
          PROVE  orders[q] \in Alive
      <4>1. PICK move \in AllMoves :
              orders[r] = move[1] /\ orders' = [orders EXCEPT ![r] = move[2]]
        BY <3>2, BrokerAssumption DEF BrokerMove
      <4>2. move[1] \in Alive
        BY DEF AllMoves, Alive, ACTIVE_RAW
      <4> QED
        BY <3>2, <4>1, <4>2 DEF CashInv, CoordInv, SessionInv, SessionTypeOK, BrokerTypeOK
    <3> QED
      BY <1>4, <3>1, <3>2 DEF BrokerNext
  <2>3. Committed' \in SUBSET Committed /\ Committed \in SUBSET Request
    BY <2>1, <2>2 DEF Committed
  <2>4. CashOf(Committed') <= Cash
    <3>1. /\ CashOf(Committed') \in Nat /\ CashOf(Committed) \in Nat
          /\ CashOf(Committed') <= CashOf(Committed)
      BY <2>3, CashGrows
    <3> QED
      BY <3>1, CashAssumption DEF CashInv
  <2> QED
    BY <1>1, <2>1, <2>4 DEF CashInv, OwnsClaim
<1> QED
  BY <1>2, <1>3, <1>4 DEF Next, Step, Invoke

\* It holds in every reachable state.
LEMMA CashInvariant ==
  ASSUME IsFiniteSet(Request), "persistId" \notin FaultyWrites
  PROVE  Spec => []CashInv
<1>1. Init => CashInv
  <2> SUFFICES ASSUME Init
               PROVE  CashInv
    OBVIOUS
  <2>1. CoordInv
    BY CoordInit
  <2>2. /\ \A e \in Exec : pc[e] = "down"
        /\ \A s \in Symbol : claim[s] = None
        /\ \A r \in Request : reservation[r] = "none"
        /\ cashRead = [e \in Exec |-> 0]
    BY DEF Init, SessionInit, CoordinationInit
  <2>3. Committed = {}
    BY <2>2 DEF Committed
  <2>4. CashOf({}) = 0
    BY CashIsTotal, TotalOfNothing
  <2> QED
    BY <2>1, <2>2, <2>3, <2>4, CoordinationAssumption, RequestAssumption, CashAssumption
       DEF CashInv, OwnsClaim, UsedOK, Fresh
<1>2. CashInv /\ [Next]_vars => CashInv'
  BY CashNextInv
<1> QED
  BY <1>1, <1>2, PTL DEF Spec

\* The BUY orders the broker holds never need more than the account's cash,
\* although each process reads the cash before its transaction and a restart
\* takes its reservation back without asking (coordination.py:511-752,
\* coordinated_session.py:155-187).
THEOREM LiveCashCovered ==
  ASSUME IsFiniteSet(Request), "persistId" \notin FaultyWrites
  PROVE  Spec => []LiveCashIsCovered
<1>1. CashInv => LiveCashIsCovered
  <2> SUFFICES ASSUME CashInv
               PROVE  LiveCashIsCovered
    OBVIOUS
  <2> DEFINE S == { r \in Request : Live(r) /\ reservation[r] = "active" }
  <2>1. S \in SUBSET Committed /\ Committed \in SUBSET Request
    BY DEF Committed, Live, Alive
  <2> HIDE DEF S
  <2>2. CashOf(S) \in Nat /\ CashOf(Committed) \in Nat /\ CashOf(S) <= CashOf(Committed)
    BY <2>1, CashGrows
  <2>3. CashOf(S) <= Cash
    BY <2>2, CashAssumption DEF CashInv
  <2> QED
    BY <2>3 DEF LiveCashIsCovered, S
<1> QED
  BY <1>1, CashInvariant, PTL

-----------------------------------------------------------------------------
(***************************************************************************)
(* Coordination takes nothing from what the plain session does with its    *)
(* file: its steps write no journal and place no order.                    *)
(***************************************************************************)
\* Each step and call of the coordinated session writes the file at most once.
LEMMA CoordinatedFollows ==
  ASSUME FaultyWrites = {}, SessionInv, NEW e \in Exec, Step(e) \/ Invoke(e)
  PROVE  Follows(e)
<1>1. CASE CoordinationStep(e)
  <2>1. PICK next : Goto(e, next) /\ pc[e] # "down" /\ UNCHANGED << mem, disk >>
    BY <1>1 DEF CoordinationStep, ReadCash, PrepareGranted, PrepareRefused, CoordinatedSidecar,
         SidecarRelease, CoordinatedPlaceRejected, RejectRelease, Release, SyncCheck,
         SyncUpdate, SyncRestore
  <2> QED
    BY <2>1, QuietFollows
<1> QED
  BY <1>1, SessionFollows DEF Step, Invoke

\* So does each step of the account.
LEMMA CoordinatedJournalStep ==
  ASSUME FaultyWrites = {}, CoordInv, Synchronous, [Next]_vars
  PROVE  Synchronous' /\ \A e \in Exec : FileStep(e)
<1>1. BrokerNext \/ UNCHANGED vars => UNCHANGED sessionVars
  BY DEF BrokerNext, vars
<1> QED
  BY <1>1, CoordinatedFollows, FollowsAdvances, SilentAdvances DEF Next, CoordInv

(***************************************************************************)
(* Every journal file of a coordinated session is a run of the execution   *)
(* machine too, however the transactions of the store fail: a claim that   *)
(* is refused, lost or restored never makes the file skip or repeat a      *)
(* transition (coordinated_session.py:94-299, session.py:447-455).         *)
(***************************************************************************)
THEOREM CoordinatedJournalImplementsMachine ==
  ASSUME FaultyWrites = {}
  PROVE  Spec => JournalRefinesMachine
<1>1. "persistId" \notin FaultyWrites
  OBVIOUS
<1>2. Init => Synchronous /\ \A e \in Exec : Machine(e)!Init
  BY FileStarts DEF Init
<1>3. CoordInv /\ Synchronous /\ [Next]_vars => Synchronous' /\ \A e \in Exec : FileStep(e)
  BY CoordinatedJournalStep
<1>4. CoordInv /\ Synchronous /\ [Next]_vars =>
        [\A e \in Exec : Machine(e)!Next \/ UNCHANGED JournalSnapshot(e)
        ]_<< brokerVars, sessionVars >>
  BY <1>3, FileStepIsMachineStep DEF CoordInv
<1> QED
  BY <1>1, <1>2, <1>3, <1>4, CoordInvariant, PTL DEF Spec, JournalRefinesMachine

(***************************************************************************)
(* With several processes on the account, refused claims and transactions  *)
(* that fail, no file forgets an unresolved order, or begins a new one     *)
(* over it, without the broker's evidence (coordinated_session.py:94-299,  *)
(* state_machine.py:261-274).                                              *)
(***************************************************************************)
THEOREM CoordinatedJournalKeepsEvidence ==
  ASSUME FaultyWrites = {}
  PROVE  Spec => FileKeepsEvidence
<1>1. "persistId" \notin FaultyWrites
  OBVIOUS
<1>2. Init => Synchronous
  BY FileStarts DEF Init
<1>3. CoordInv /\ Synchronous /\ [Next]_vars => Synchronous' /\ \A e \in Exec : FileStep(e)
  BY CoordinatedJournalStep
<1>4. CoordInv /\ Synchronous /\ [Next]_vars =>
        [\A e \in Exec : /\ ClearedByEvidence(disk[e], disk'[e])
                         /\ RetriedWhenResolved(disk[e], disk'[e])
        ]_<< brokerVars, sessionVars >>
  BY <1>3, FileStepKeepsEvidence DEF CoordInv
<1> QED
  BY <1>1, <1>2, <1>3, <1>4, CoordInvariant, PTL DEF Spec, FileKeepsEvidence

(***************************************************************************)
(* Write-ahead with the hooks filled in: between the durable intent and    *)
(* the broker call lie the cash query, the transaction and the project's   *)
(* sidecar, and the file still says SUBMITTED with this very request when  *)
(* the broker takes it (coordinated_session.py:191-247, session.py:202-250).*)
(***************************************************************************)
THEOREM CoordinatedWriteAhead ==
  ASSUME "persistId" \notin FaultyWrites
  PROVE  Spec => DurableBeforeBroker
<1>1. ASSUME CoordInv, [Next]_vars, NEW r \in Request, placed'[r] # placed[r]
      PROVE  disk[Owner[r]].intent = r /\ disk[Owner[r]].state = "SUBMITTED"
  <2>1. ~ (BrokerNext \/ UNCHANGED vars)
    BY <1>1 DEF BrokerNext, BrokerMove, vars, brokerVars
  <2>2. PICK e \in Exec : Step(e) \/ Invoke(e)
    BY <1>1, <2>1 DEF Next
  <2>3. ~ CoordinationStep(e)
    BY <1>1 DEF CoordinationStep, ReadCash, PrepareGranted, PrepareRefused, CoordinatedSidecar,
         SidecarRelease, CoordinatedPlaceRejected, RejectRelease, SyncCheck, SyncUpdate,
         SyncRestore, brokerVars
  <2> QED
    BY <1>1, <2>2, <2>3, PlacedAhead DEF Step, Invoke, CoordInv
<1>2. ASSUME CoordInv, NEW e \in Exec, CancelSend(e)
      PROVE  disk[e].cancel /\ "cancel_intent" \in disk[e].facts
  BY <1>2, CancelledAhead DEF CoordInv
<1>3. CoordInv /\ [Next]_vars =>
        [ /\ \A r \in Request : placed'[r] # placed[r] =>
               disk[Owner[r]].intent = r /\ disk[Owner[r]].state = "SUBMITTED"
          /\ \A e \in Exec : CancelSend(e) /\ pc'[e] # "idle" =>
               disk[e].cancel /\ "cancel_intent" \in disk[e].facts
        ]_<< brokerVars, sessionVars >>
  BY <1>1, <1>2
<1> QED
  BY <1>3, CoordInvariant, PTL DEF Spec, DurableBeforeBroker

-----------------------------------------------------------------------------
(***************************************************************************)
(* The processes, their journals and the store implement SharedAccount.    *)
(***************************************************************************)
\* The operators of the instance (SharedAccount.tla), with its variables
\* replaced by claims, live orders and placements.
AccountUnchanged == UNCHANGED << claim, LiveRequests, PlacedRequests >>

\* A transaction of the store takes a free symbol, gives up its own, or leaves
\* the claims alone (coordination.py:511-830).
LEMMA StoreMoves ==
  ASSUME CoordInv, CoordInv', NEW e \in Exec, CoordinationStep(e)
  PROVE  \/ AccountUnchanged
         \/ \E r \in Request : Account!Acquire(r) \/ Account!GiveUp(r)
<1>1. UNCHANGED << orders, placed >>
  BY DEF CoordinationStep, ReadCash, PrepareGranted, PrepareRefused, CoordinatedSidecar,
       SidecarRelease, CoordinatedPlaceRejected, RejectRelease, SyncCheck, SyncUpdate,
       SyncRestore, brokerVars
<1>2. UNCHANGED << LiveRequests, PlacedRequests >>
  BY <1>1 DEF LiveRequests, PlacedRequests, Live
<1>3. SymbolOf \in [Request -> Symbol] /\ None \notin Request
  BY CoordinationAssumption, RequestAssumption
<1>4. claim \in [Symbol -> Request \cup { None }]
  BY DEF CoordInv, CoordTypeOK
<1>5. ASSUME NEW r \in Request, ~ Conflict(r), claim' = [claim EXCEPT ![SymbolOf[r]] = r]
      PROVE  UNCHANGED claim \/ Account!Acquire(r)
  BY <1>2, <1>3, <1>4, <1>5 DEF Conflict, Account!Acquire
<1>6. ASSUME NEW r \in Request, ~ Conflict(r), claim' = [claim EXCEPT ![SymbolOf[r]] = None]
      PROVE  UNCHANGED claim \/ Account!GiveUp(r)
  <2>1. claim'[SymbolOf[r]] # r
    BY <1>3, <1>4, <1>6
  <2>2. r \notin LiveRequests
    BY <1>1, <2>1 DEF CoordInv, OwnsClaim, LiveRequests, Live, Alive
  <2> QED
    BY <1>2, <1>3, <1>4, <1>6, <2>2 DEF Conflict, Account!GiveUp
<1>7. ASSUME NEW r \in Request, NEW finality, HoldResources(r, finality), ~ Conflict(r)
      PROVE  UNCHANGED claim \/ Account!Acquire(r)
  BY <1>5, <1>7 DEF HoldResources
<1>8. ASSUME NEW r \in Request, NEW finality, CanUpdateFinality(r, finality),
             UpdateFinality(r, finality)
      PROVE  UNCHANGED claim \/ Account!GiveUp(r)
  BY <1>6, <1>8 DEF CanUpdateFinality, UpdateFinality
<1>9. pc[e] \in { "prepare", "sidecarRelease", "rejectRelease" } => req[e] \in Request
  BY Here DEF CoordInv, Local, Unplaced, Submitting
<1>10. pc[e] \in Syncing => mem[e].intent \in Request
  BY Here DEF CoordInv, Syncing, Journal
<1>11. UNCHANGED claim \/ \E r \in Request : Account!Acquire(r) \/ Account!GiveUp(r)
  <2>1. CASE PrepareGranted(e)
    BY <1>7, <1>9, <2>1 DEF PrepareGranted, CanPrepare, Prepare
  <2>2. CASE SidecarRelease(e) \/ RejectRelease(e)
    BY <1>8, <1>9, <2>2 DEF SidecarRelease, RejectRelease, Release, coordinationVars
  <2>3. CASE SyncUpdate(e)
    BY <1>8, <1>10, <2>3 DEF SyncUpdate, Syncing, coordinationVars
  <2>4. CASE SyncRestore(e)
    BY <1>7, <1>10, <2>4 DEF SyncRestore, Syncing, CanRestore, Restore, coordinationVars
  <2> QED
    BY <2>1, <2>2, <2>3, <2>4 DEF CoordinationStep, ReadCash, PrepareRefused,
       CoordinatedSidecar, CoordinatedPlaceRejected, SyncCheck, coordinationVars
<1> QED
  BY <1>2, <1>11 DEF AccountUnchanged

\* The live orders are within the account's cash, before and after a step.
LEMMA NeededIsCovered ==
  ASSUME IsFiniteSet(Request), CashInv'
  PROVE  NeededCash(LiveRequests') <= Cash
<1> DEFINE S == { r \in LiveRequests' : Side[r] = "BUY" }
<1>1. S \in SUBSET Committed' /\ Committed' \in SUBSET Request
  BY DEF Committed, LiveRequests, Live, Alive, CashInv, CoordInv, ReservationMatchesClaim
<1>2. NeededCash(LiveRequests') = CashOf(S)
  BY DEF NeededCash
<1> HIDE DEF S
<1>3. CashOf(S) \in Nat /\ CashOf(Committed') \in Nat /\ CashOf(S) <= CashOf(Committed')
  BY <1>1, CashGrows
<1>4. CashOf(Committed') <= Cash
  BY DEF CashInv
<1> QED
  BY <1>2, <1>3, <1>4, CashAssumption

\* The broker takes an order: the owner of its symbol trades, for the first
\* time and within the cash (session.py:249-263).
LEMMA PlacingTrades ==
  ASSUME IsFiniteSet(Request), CashInv, CashInv', UNCHANGED claim, NEW e \in Exec,
         pc[e] = "place", NEW st \in { "UNREPORTED", "IN_FLIGHT" }, TakeOrder(req[e], st)
  PROVE  req[e] \in Request /\ Account!Trade(req[e])
<1>1. CoordInv /\ SessionInv
  BY DEF CashInv, CoordInv
<1>2. PICK r \in Request : r = req[e] /\ placed[r] = 0
  BY <1>1, Here DEF Local, Submitting, Unplaced
<1>3. claim[SymbolOf[r]] = r
  BY <1>1, <1>2 DEF CoordInv, Granted, OwnsClaim
<1>4. orders \in [Request -> OrderState] /\ placed \in [Request -> Nat]
  BY <1>1 DEF SessionInv, SessionTypeOK, BrokerTypeOK
<1>5. /\ orders'[r] = st /\ placed'[r] = 1
      /\ \A q \in Request \ { r } : orders'[q] = orders[q] /\ placed'[q] = placed[q]
  BY <1>2, <1>4 DEF TakeOrder
<1>6. LiveRequests' = LiveRequests \cup { r }
  <2>1. Live(r)' /\ \A q \in Request \ { r } : Live(q)' <=> Live(q)
    BY <1>2, <1>5 DEF Live, ACTIVE_RAW
  <2> QED
    BY <2>1 DEF LiveRequests
<1>7. PlacedRequests' = PlacedRequests \cup { r } /\ r \notin PlacedRequests
  BY <1>2, <1>5 DEF PlacedRequests
<1>8. NeededCash(LiveRequests \cup { r }) <= Cash
  BY <1>6, NeededIsCovered
<1> QED
  BY <1>2, <1>3, <1>6, <1>7, <1>8 DEF Account!Trade

\* Every other step of a session leaves claims, live orders and placements
\* alone: a cancel request that reaches the broker does not end the order
\* (session.py:98-455).
LEMMA OrdinaryMoves ==
  ASSUME IsFiniteSet(Request), CashInv, CashInv', UNCHANGED coordinationVars, NEW e \in Exec,
         SessionStep(e) \/ PreBrokerRejected(e) \/ Call(e)
  PROVE  AccountUnchanged \/ \E r \in Request : Account!Trade(r)
<1>1. UNCHANGED claim
  BY DEF coordinationVars
<1>2. CASE PlaceAccepted(e) \/ PlaceAmbiguous(e)
  <2>1. pc[e] = "place"
    BY <1>2 DEF PlaceAccepted, PlaceAmbiguous
  <2>2. UNCHANGED << orders, placed >> \/ \E st \in { "UNREPORTED", "IN_FLIGHT" } : TakeOrder(req[e], st)
    BY <1>2 DEF PlaceAccepted, PlaceAmbiguous, brokerVars
  <2>3. UNCHANGED << orders, placed >> => AccountUnchanged
    BY <1>1 DEF AccountUnchanged, LiveRequests, PlacedRequests, Live
  <2> QED
    BY <1>1, <2>1, <2>2, <2>3, PlacingTrades
<1>3. CASE CancelSend(e)
  <2>1. orders \in [Request -> OrderState]
    BY DEF CashInv, CoordInv, SessionInv, SessionTypeOK, BrokerTypeOK
  <2>2. UNCHANGED placed /\ \A r \in Request : Live(r)' = Live(r)
    BY <1>3, <2>1 DEF CancelSend, TakeCancel, brokerVars, Live, ACTIVE_RAW
  <2>3. LiveRequests' = LiveRequests /\ PlacedRequests' = PlacedRequests
    BY <2>2 DEF LiveRequests, PlacedRequests
  <2> QED
    BY <1>1, <2>3 DEF AccountUnchanged
<1>4. CASE ~ (PlaceAccepted(e) \/ PlaceAmbiguous(e) \/ CancelSend(e))
  <2>1. UNCHANGED << orders, placed >>
    BY <1>4 DEF SessionStep, brokerVars, OpenFirst, OpenSettled, OpenInFlight, OpenUnknown,
       OpenInterrupted, Recover, ApplyRecovered, ObservedEvent, PollAnswered, PollUnanswered,
       BeginPrecheck, Precheck, PersistIntent, IntentPersisted, PreBrokerAborted,
       PreBrokerRejected, SubmitRejected, SubmitAmbiguous, PersistBrokerOrderId,
       SubmitAccepted, CancelRequested, CancelSent, CancelRefused, ClearCycleData, Call, Open,
       CallPoll, CallReconcile, CallCancel, CallNextCycle, Stop, CallSubmit
  <2> QED
    BY <1>1, <2>1 DEF AccountUnchanged, LiveRequests, PlacedRequests, Live
<1> QED
  BY <1>2, <1>3, <1>4

\* A move of the broker settles an order or leaves it live.
LEMMA BrokerMoves ==
  ASSUME CoordInv, BrokerNext
  PROVE  AccountUnchanged \/ \E r \in Request : Account!Settle(r)
<1>1. PICK r \in Request : BrokerMove(r) /\ UNCHANGED coordinationVars
  BY DEF BrokerNext
<1>2. UNCHANGED << claim, placed >>
  BY <1>1 DEF BrokerMove, coordinationVars
<1>3. PICK move \in AllMoves : orders[r] = move[1] /\ orders' = [orders EXCEPT ![r] = move[2]]
  BY <1>1, BrokerAssumption DEF BrokerMove
<1>4. Live(r)
  BY <1>3 DEF AllMoves, Live, ACTIVE_RAW
<1>5. \A q \in Request \ { r } : orders'[q] = orders[q]
  BY <1>3 DEF CoordInv, SessionInv, SessionTypeOK, BrokerTypeOK
<1>6. PlacedRequests' = PlacedRequests
  BY <1>2 DEF PlacedRequests
<1>7. LiveRequests' = LiveRequests \/ LiveRequests' = LiveRequests \ { r }
  BY <1>4, <1>5 DEF LiveRequests, Live
<1>8. r \in LiveRequests
  BY <1>4 DEF LiveRequests
<1> QED
  BY <1>2, <1>6, <1>7, <1>8 DEF AccountUnchanged, Account!Settle

(***************************************************************************)
(* The coordinated sessions of an account, with their crashes, restarts,   *)
(* lost answers and failed transactions, implement SharedAccount: a symbol *)
(* is taken only when it is free and given up only when its order is over, *)
(* and the broker takes an order once, from the owner of its symbol and    *)
(* within the account's cash (coordinated_session.py:155-299,              *)
(* coordination.py:511-830).                                               *)
(***************************************************************************)
THEOREM CoordinationImplementsAccount ==
  ASSUME IsFiniteSet(Request), "persistId" \notin FaultyWrites
  PROVE  Spec => ImplementsAccount
<1>1. Init => Account!Init
  <2> SUFFICES ASSUME Init
               PROVE  Account!Init
    OBVIOUS
  <2>1. claim = [s \in Symbol |-> None]
    BY DEF Init, CoordinationInit
  <2>2. \A r \in Request : orders[r] = "NONE" /\ placed[r] = 0
    BY DEF Init, SessionInit, BrokerInit
  <2>3. LiveRequests = {} /\ PlacedRequests = {}
    BY <2>2 DEF LiveRequests, PlacedRequests, Live, ACTIVE_RAW
  <2> QED
    BY <2>1, <2>3 DEF Account!Init
<1>2. CashInv /\ CashInv' /\ [Next]_vars => [Account!Next]_(Account!accountVars)
  <2> SUFFICES ASSUME CashInv, CashInv', [Next]_vars
               PROVE  AccountUnchanged \/ Account!Next
    BY DEF AccountUnchanged, Account!accountVars
  <2>1. CoordInv /\ CoordInv'
    BY DEF CashInv
  <2>2. ASSUME NEW e \in Exec, Step(e) \/ Invoke(e)
        PROVE  AccountUnchanged \/ Account!Next
    BY <2>1, <2>2, StoreMoves, OrdinaryMoves DEF Step, Invoke, Account!Next
  <2>3. CASE UNCHANGED vars
    BY <2>3 DEF vars, brokerVars, coordinationVars, AccountUnchanged, LiveRequests,
       PlacedRequests, Live
  <2>4. CASE BrokerNext
    BY <2>1, <2>4, BrokerMoves DEF Account!Next
  <2> QED
    BY <2>2, <2>3, <2>4 DEF Next
<1> QED
  BY <1>1, <1>2, CashInvariant, PTL DEF Spec, ImplementsAccount, Account!Spec

=============================================================================
