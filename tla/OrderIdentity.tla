--------------------------- MODULE OrderIdentity ----------------------------
(***************************************************************************)
(* How an execution tells its own order from the others of the account.    *)
(* Module Session names an order by its request; here the remark, the leg  *)
(* (symbol, side and quantity) and the strategy name are all there is, the *)
(* journal remembers a limited number of them (journal.py), recovery looks *)
(* for an order by two of the three (recovery.py) and checks the third     *)
(* after the id is durable (session.py).                                   *)
(*                                                                         *)
(* The states are those of TradeMachine as far as identity is concerned:   *)
(* TRACKED stands for ACCEPTED to CANCEL_REJECTED, RESOLVED for FILLED,    *)
(* CANCELLED and REJECTED.  A crash between two writes of submit() leads   *)
(* to what a crash after an ambiguous submission leads to, so a call of    *)
(* the broker and the write of its result are one step.                    *)
(***************************************************************************)
EXTENDS Naturals, Sequences

CONSTANTS Requests,       \* records with cid, remark and leg
          OwnName,        \* strategy_id, which is also the bound strategy_name
          Strangers,      \* orders of others: remark, leg, name
          Window,         \* how many used identities the journal keeps (10000)
          NoRequest,
          MaxCycles,      \* bound: cycles of one behaviour
          MaxStrangers    \* bound: orders of others

NoId == 0

\* Nothing is assumed of the orders of others: they may bear our remarks, our
\* legs, our name or none.
ASSUME IdentityAssumption ==
  /\ Window \in Nat \ {0} /\ MaxCycles \in Nat /\ MaxStrangers \in Nat
  /\ NoRequest \notin Requests

VARIABLES cycle, state,
          intent, oid,                \* of the journal
          usedIds, usedRemarks,       \* of the journal
          found,                      \* the order that recovery or poll() is about to apply
          book,                       \* the orders of the account; the id is the index
          flight                      \* orders whose call raised and that are on their way

identityVars == << cycle, state, intent, oid, usedIds, usedRemarks, found, book, flight >>

IdentityInit ==
  /\ cycle = 1 /\ state = "WAIT_TRIGGER"
  /\ intent = NoRequest /\ oid = NoId
  /\ usedIds = << >> /\ usedRemarks = << >>
  /\ found = NoId /\ book = << >> /\ flight = {}

journalVars == << cycle, intent, usedIds, usedRemarks >>

-----------------------------------------------------------------------------
\* Mutant of KeepLast: the lists keep one too few.
KeepTooFew(s) == IF Len(s) < Window THEN s ELSE SubSeq(s, Len(s) - Window + 2, Len(s))

\* s[-Window:]
KeepLast(s) == IF Len(s) <= Window THEN s ELSE SubSeq(s, Len(s) - Window + 1, Len(s))

assert_identity_unused(r) ==
  /\ \A i \in DOMAIN usedIds : usedIds[i] # r.cid
  /\ \A i \in DOMAIN usedRemarks : usedRemarks[i] # r.remark

\* submit(), as far as the durable intent; a used identity raises before it.
persist_intent(r) ==
  /\ state = "WAIT_TRIGGER" /\ intent = NoRequest
  /\ assert_identity_unused(r)
  /\ intent' = r /\ state' = "SUBMITTED"
  /\ usedIds' = KeepLast(Append(usedIds, r.cid))
  /\ usedRemarks' = KeepLast(Append(usedRemarks, r.remark))
  /\ UNCHANGED << cycle, oid, found, book, flight >>

OwnOrder == [remark |-> intent.remark, leg |-> intent.leg, name |-> OwnName, cycle |-> cycle]

\* place_order() returns the id, which becomes durable.
place_accepted ==
  /\ state = "SUBMITTED"
  /\ book' = Append(book, OwnOrder)
  /\ oid' = Len(book') /\ state' = "TRACKED"
  /\ UNCHANGED << journalVars, found, flight >>

\* Coordination or the broker refuse: REJECTED, and no order.
place_rejected ==
  /\ state = "SUBMITTED"
  /\ state' = "RESOLVED"
  /\ UNCHANGED << journalVars, oid, found, book, flight >>

\* A hook raises: FAILED without an order, and no further cycle.
place_aborted ==
  /\ state = "SUBMITTED"
  /\ state' = "FAILED"
  /\ UNCHANGED << journalVars, oid, found, book, flight >>

\* The order is in the book, on its way, or lost.
place_ambiguous ==
  /\ state = "SUBMITTED"
  /\ state' = "UNKNOWN"
  /\ \/ book' = Append(book, OwnOrder) /\ flight' = flight
     \/ book' = book /\ flight' = flight \cup { OwnOrder }
     \/ UNCHANGED << book, flight >>
  /\ UNCHANGED << journalVars, oid, found >>

-----------------------------------------------------------------------------
\* What find_unique_managed_order() compares.
Matches ==
  { i \in DOMAIN book : book[i].remark = intent.remark /\ book[i].leg = intent.leg }

\* _recover_unknown() without an id: exactly one match, whose id is durable at once.
find_unique_managed_order ==
  /\ state = "UNKNOWN" /\ oid = NoId /\ found = NoId
  /\ \E i \in Matches :
       /\ Matches = { i }
       /\ oid' = i /\ found' = i
  /\ UNCHANGED << journalVars, state, book, flight >>

\* None, several, or no answer: RECOVERY_FAILED.
recovery_failed ==
  /\ state = "UNKNOWN" /\ found = NoId
  /\ state' = "FAILED"
  /\ UNCHANGED << journalVars, oid, found, book, flight >>

\* query_order() of poll(), of reconcile() and of a recovery with an id.
query_order ==
  /\ state \in { "UNKNOWN", "TRACKED" } /\ oid # NoId /\ found = NoId
  /\ found' = oid
  /\ UNCHANGED << journalVars, state, oid, book, flight >>

\* poll() got no answer.
query_ambiguous ==
  /\ state = "TRACKED" /\ found = NoId
  /\ state' = "UNKNOWN"
  /\ UNCHANGED << journalVars, oid, found, book, flight >>

\* Mutant of validate_identity: the strategy name is not compared.
ValidateWithoutName(o) ==
  /\ intent # NoRequest
  /\ o.leg = intent.leg
  /\ o.remark # "" => o.remark = intent.remark

validate_identity(o) ==
  /\ intent # NoRequest
  /\ o.leg = intent.leg
  /\ o.remark # "" => o.remark = intent.remark
  /\ o.name # "" => o.name = OwnName

\* _apply_observation(): what the order says is the state of the execution.
apply_observation ==
  /\ found # NoId /\ validate_identity(book[found])
  /\ state' \in { "TRACKED", "RESOLVED", "UNKNOWN", "FAILED" }
  /\ found' = NoId
  /\ UNCHANGED << journalVars, oid, book, flight >>

\* RecoveryAmbiguous leaves open() or poll(); the journal stays as it is.
identity_conflict ==
  /\ found # NoId /\ ~validate_identity(book[found])
  /\ found' = NoId
  /\ UNCHANGED << journalVars, state, oid, book, flight >>

\* A crash, and RESTART_RECOVERY of the next open().
restart ==
  /\ state \in { "SUBMITTED", "TRACKED", "UNKNOWN" }
  /\ state' = "UNKNOWN" /\ found' = NoId
  /\ UNCHANGED << journalVars, oid, book, flight >>

\* next_cycle() and clear_cycle_data(), which keeps the used identities.
next_cycle ==
  /\ state = "RESOLVED" /\ cycle < MaxCycles
  /\ cycle' = cycle + 1 /\ state' = "WAIT_TRIGGER"
  /\ intent' = NoRequest /\ oid' = NoId
  /\ UNCHANGED << usedIds, usedRemarks, found, book, flight >>

-----------------------------------------------------------------------------
(***************************************************************************)
(* The account: an order arrives late, others place theirs.                *)
(***************************************************************************)
arrive(o) ==
  /\ flight' = flight \ { o } /\ book' = Append(book, o)
  /\ UNCHANGED << journalVars, state, oid, found >>

stranger(o) ==
  /\ Len(SelectSeq(book, LAMBDA x : x.cycle = 0)) < MaxStrangers
  /\ book' = Append(book, [remark |-> o.remark, leg |-> o.leg, name |-> o.name, cycle |-> 0])
  /\ UNCHANGED << journalVars, state, oid, found, flight >>

IdentityNext ==
  \/ \E r \in Requests : persist_intent(r)
  \/ place_accepted \/ place_rejected \/ place_aborted \/ place_ambiguous
  \/ find_unique_managed_order \/ recovery_failed
  \/ query_order \/ query_ambiguous \/ apply_observation \/ identity_conflict
  \/ restart \/ next_cycle
  \/ \E o \in flight : arrive(o)
  \/ \E o \in Strangers : stranger(o)

IdentitySpec == IdentityInit /\ [][IdentityNext]_identityVars

-----------------------------------------------------------------------------
(***************************************************************************)
(* The window is wide enough for its size: two orders of this session bear *)
(* the same remark only when more than Window intents lie between them,    *)
(* whether the cycles before were rejected, recovered or restarted         *)
(* (journal.py:112-158, 208-221).                                          *)
(***************************************************************************)
ReuseIsFarApart ==
  \A i, j \in DOMAIN book :
    /\ 0 < book[i].cycle /\ book[i].cycle < book[j].cycle
    /\ book[i].remark = book[j].remark
    => book[i].cycle + Window < book[j].cycle

\* An order of another that nothing in it tells from ours.
Indistinguishable(o) ==
  /\ o.cycle = 0
  /\ o.remark = intent.remark /\ o.leg = intent.leg /\ o.name \in { "", OwnName }

(***************************************************************************)
(* The order that an execution tracks, may cancel, or takes its result     *)
(* from is its own: placed in this cycle, or by this session more than     *)
(* Window cycles ago.  The one exception is an order that bears our remark *)
(* and leg and our name or none (session.py:435 lets no name pass); and    *)
(* none is followed that came into the account after the order of this     *)
(* cycle.  The id of any other order may become durable (session.py:370),  *)
(* but then the execution stays UNKNOWN or FAILED and every open() raises  *)
(* (session.py:352-380, 415-436).                                          *)
(***************************************************************************)
AdoptedOrderIsOurs ==
  oid # NoId /\ state \in { "TRACKED", "RESOLVED" } =>
    /\ \/ book[oid].cycle = cycle
       \/ 0 < book[oid].cycle /\ book[oid].cycle + Window < cycle
       \/ Indistinguishable(book[oid])
    /\ \A i \in DOMAIN book : book[i].cycle = cycle => oid <= i

=============================================================================
