--------------------------- MODULE SharedAccount ----------------------------
(***************************************************************************)
(* What coordination promises to an account several processes trade: an    *)
(* order is a critical section of its symbol.  No process, journal, crash  *)
(* or transaction appears here.  CoordinatedSession is shown to implement  *)
(* this specification.                                                     *)
(***************************************************************************)
EXTENDS Integers

CONSTANTS Request,
          None,
          Symbol,
          SymbolOf,       \* request -> symbol
          Needs(_),       \* the cash a set of orders needs
          Cash            \* the account's cash

VARIABLES owner,          \* symbol -> the request that may trade it, or None
          live,           \* the requests with an order that is or may become active
          traded          \* the requests the broker ever took an order for

accountVars == << owner, live, traded >>

Init ==
  /\ owner = [s \in Symbol |-> None]
  /\ live = {}
  /\ traded = {}

Acquire(r) ==
  /\ owner[SymbolOf[r]] = None
  /\ owner' = [owner EXCEPT ![SymbolOf[r]] = r]
  /\ UNCHANGED << live, traded >>

\* A symbol is never given up, nor taken over, while its order may trade.
GiveUp(r) ==
  /\ owner[SymbolOf[r]] = r /\ r \notin live
  /\ owner' = [owner EXCEPT ![SymbolOf[r]] = None]
  /\ UNCHANGED << live, traded >>

\* An order is placed by the owner of its symbol, once, and with the others
\* that may trade it never needs more than the account has.
Trade(r) ==
  /\ owner[SymbolOf[r]] = r /\ r \notin traded
  /\ Needs(live \cup { r }) <= Cash
  /\ live' = live \cup { r }
  /\ traded' = traded \cup { r }
  /\ UNCHANGED owner

Settle(r) ==
  /\ r \in live
  /\ live' = live \ { r }
  /\ UNCHANGED << owner, traded >>

Next == \E r \in Request : Acquire(r) \/ GiveUp(r) \/ Trade(r) \/ Settle(r)

Spec == Init /\ [][Next]_accountVars

=============================================================================
