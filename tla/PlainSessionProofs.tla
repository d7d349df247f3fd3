------------------------- MODULE PlainSessionProofs -------------------------
(***************************************************************************)
(* The safety properties of the plain session, for every set of executions *)
(* and requests, every broker lifecycle, every kind of answer and fault,   *)
(* and every set of writes that may fail as long as the write of the       *)
(* broker order id is not one of them.  That write is excluded because the *)
(* properties are false with it (see the run order_id_write_fails).        *)
(***************************************************************************)
EXTENDS PlainSession, SessionProofs

\* No step of the plain session breaks the invariant (session.py:98-455).
LEMMA PlainNextInv ==
  ASSUME "persistId" \notin FaultyWrites, SessionInv, [Next]_vars
  PROVE  SessionInv'
<1>1. CASE BrokerNext
  BY <1>1, BrokerMoveInv DEF BrokerNext
<1>2. ASSUME NEW e \in Exec, Step(e)
      PROVE  SessionInv'
  <2>1. CASE SessionStep(e)
    BY <2>1, SessionStepInv
  <2>2. CASE NoCoordination(e) \/ Sidecar(e)
    BY <2>2, HookStep DEF NoCoordination, Sidecar, Unplaced, Submitting
  <2>3. CASE PlaceRejected(e)
    BY <2>3, PlaceStep
  <2>4. CASE Return(e)
    <3>1. /\ pc'[e] = "idle" /\ open'[e] = TRUE /\ pc' \in [Exec -> PC]
          /\ open' \in [Exec -> BOOLEAN] /\ UNCHANGED << mem, disk, req, seen, orders, placed >>
      BY <2>4, Here DEF Return, Goto, PC, WriteSites, brokerVars
    <3>2. Only(e)
      BY <2>4, Here DEF Only, Return, Goto
    <3>3. SessionTypeOK'
      BY <3>1 DEF SessionInv, SessionTypeOK, BrokerTypeOK
    <3>4. Local(e, "idle", TRUE, mem[e], disk[e], req[e], seen[e], orders, placed)
      BY <2>4, Here DEF Return, Local, Submitting, Unplaced, AwaitsId
    <3>5. ProcInvNext(e)
      BY <2>4, <3>1, <3>4, Here DEF ProcInvNext, PInv, Return
    <3> QED
      BY <2>4, <3>2, <3>3, <3>5, AssembleSilent DEF Return
  <2> QED
    BY <1>2, <2>1, <2>2, <2>3, <2>4 DEF Step
<1>3. CASE UNCHANGED vars
  BY <1>3, StutterInv DEF vars
<1> QED
  BY <1>1, <1>2, <1>3, CallInv DEF Next

\* The invariant holds in every reachable state.
LEMMA PlainInvariant ==
  ASSUME "persistId" \notin FaultyWrites
  PROVE  Spec => []SessionInv
<1>1. Init => SessionInv
  BY InitInv DEF Init
<1>2. SessionInv /\ [Next]_vars => SessionInv'
  BY PlainNextInv
<1> QED
  BY <1>1, <1>2, PTL DEF Spec

-----------------------------------------------------------------------------
\* Journal, broker and control state keep their types in every run.
THEOREM PlainTypeCorrect ==
  ASSUME "persistId" \notin FaultyWrites
  PROVE  Spec => []SessionTypeOK
<1>1. SessionInv => SessionTypeOK
  BY DEF SessionInv
<1> QED
  BY <1>1, PlainInvariant, PTL

\* The broker takes an order for a request at most once: neither submit(),
\* open() nor recovery ever resends (session.py:249-263, 352-380).
THEOREM NoOrderIsResent ==
  ASSUME "persistId" \notin FaultyWrites
  PROVE  Spec => []AtMostOnePlacement
  BY PlacesOnce, PlainInvariant, PTL

\* An order that is or may become active is never forgotten by the journal
\* file, nor by the session that is up (session.py:202-263, finality.py:35-60).
THEOREM NoOrderIsForgotten ==
  ASSUME "persistId" \notin FaultyWrites
  PROVE  Spec => []LiveOrderIsTracked
  BY Tracked, PlainInvariant, PTL

\* What the session or its file calls FILLED or CANCELLED is so at the broker
\* (recovery.py:38-113, adapter.py:233-283).
THEOREM TerminalStatesAreTrue ==
  ASSUME "persistId" \notin FaultyWrites
  PROVE  Spec => []TerminalIsTrue
  BY TerminalTrue, PlainInvariant, PTL

\* Every file a stopped process leaves can be opened again: open() accepts the
\* snapshot and its first transition (journal.py:89, session.py:128-159).
THEOREM EveryJournalReopens ==
  ASSUME "persistId" \notin FaultyWrites
  PROVE  Spec => []JournalReopens
  BY Reopens, PlainInvariant, PTL

\* Write-ahead: the intent and the SUBMITTED snapshot are on disk before the
\* broker is asked, the cancel intent before the cancel request
\* (session.py:202-250, 309-313).
THEOREM WriteAhead ==
  ASSUME "persistId" \notin FaultyWrites
  PROVE  Spec => DurableBeforeBroker
<1>1. ASSUME SessionInv, [Next]_vars, NEW r \in Request, placed'[r] # placed[r]
      PROVE  disk[Owner[r]].intent = r /\ disk[Owner[r]].state = "SUBMITTED"
  <2>1. ~ (BrokerNext \/ UNCHANGED vars)
    BY <1>1 DEF BrokerNext, BrokerMove, vars, brokerVars
  <2>2. PICK e \in Exec : Step(e) \/ Call(e)
    BY <1>1, <2>1 DEF Next
  <2>3. ~ (NoCoordination(e) \/ Sidecar(e) \/ PlaceRejected(e) \/ Return(e))
    BY <1>1 DEF NoCoordination, Sidecar, PlaceRejected, Return, brokerVars
  <2> QED
    BY <1>1, <2>2, <2>3, PlacedAhead DEF Step
<1>2. ASSUME SessionInv, NEW e \in Exec, CancelSend(e)
      PROVE  disk[e].cancel /\ "cancel_intent" \in disk[e].facts
  BY <1>2, CancelledAhead
<1>3. SessionInv /\ [Next]_vars =>
        [ /\ \A r \in Request : placed'[r] # placed[r] =>
               disk[Owner[r]].intent = r /\ disk[Owner[r]].state = "SUBMITTED"
          /\ \A e \in Exec : CancelSend(e) /\ pc'[e] # "idle" =>
               disk[e].cancel /\ "cancel_intent" \in disk[e].facts
        ]_<< brokerVars, sessionVars >>
  BY <1>1, <1>2
<1> QED
  BY <1>3, PlainInvariant, PTL DEF Spec, DurableBeforeBroker

-----------------------------------------------------------------------------
\* Each step and call of the plain session writes the file at most once.
LEMMA PlainFollows ==
  ASSUME FaultyWrites = {}, SessionInv, NEW e \in Exec, Step(e) \/ Call(e)
  PROVE  Follows(e)
<1>1. CASE NoCoordination(e) \/ Sidecar(e) \/ PlaceRejected(e) \/ Return(e)
  BY <1>1, QuietFollows DEF NoCoordination, Sidecar, PlaceRejected, Return
<1> QED
  BY <1>1, SessionFollows DEF Step

\* So does each step of the system.
LEMMA JournalStep ==
  ASSUME FaultyWrites = {}, SessionInv, Synchronous, [Next]_vars
  PROVE  Synchronous' /\ \A e \in Exec : FileStep(e)
<1>1. BrokerNext \/ UNCHANGED vars => UNCHANGED sessionVars
  BY DEF BrokerNext, vars
<1> QED
  BY <1>1, PlainFollows, FollowsAdvances, SilentAdvances DEF Next

\* The journal file implements the execution machine: every change of its
\* snapshot is one accepted event (session.py:447-455, journal.py:92-110).
THEOREM JournalImplementsMachine ==
  ASSUME FaultyWrites = {}
  PROVE  Spec => JournalRefinesMachine
<1>1. "persistId" \notin FaultyWrites
  OBVIOUS
<1>2. Init => Synchronous /\ \A e \in Exec : Machine(e)!Init
  BY FileStarts DEF Init
<1>3. SessionInv /\ Synchronous /\ [Next]_vars => Synchronous' /\ \A e \in Exec : FileStep(e)
  BY JournalStep
<1>4. SessionInv /\ Synchronous /\ [Next]_vars =>
        [\A e \in Exec : Machine(e)!Next \/ UNCHANGED JournalSnapshot(e)
        ]_<< brokerVars, sessionVars >>
  BY <1>3, FileStepIsMachineStep
<1> QED
  BY <1>1, <1>2, <1>3, <1>4, PlainInvariant, PTL DEF Spec, JournalRefinesMachine

(***************************************************************************)
(* No crash, restart or recovery of a session makes its file forget an     *)
(* unresolved order, or begin a new one over it, without the broker's      *)
(* evidence (session.py:249-263, 352-412, state_machine.py:261-274).       *)
(***************************************************************************)
THEOREM JournalKeepsEvidence ==
  ASSUME FaultyWrites = {}
  PROVE  Spec => FileKeepsEvidence
<1>1. "persistId" \notin FaultyWrites
  OBVIOUS
<1>2. Init => Synchronous
  BY FileStarts DEF Init
<1>3. SessionInv /\ Synchronous /\ [Next]_vars => Synchronous' /\ \A e \in Exec : FileStep(e)
  BY JournalStep
<1>4. SessionInv /\ Synchronous /\ [Next]_vars =>
        [\A e \in Exec : /\ ClearedByEvidence(disk[e], disk'[e])
                         /\ RetriedWhenResolved(disk[e], disk'[e])
        ]_<< brokerVars, sessionVars >>
  BY <1>3, FileStepKeepsEvidence
<1> QED
  BY <1>1, <1>2, <1>3, <1>4, PlainInvariant, PTL DEF Spec, FileKeepsEvidence

=============================================================================
