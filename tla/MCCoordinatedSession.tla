------------------------ MODULE MCCoordinatedSession ------------------------
(***************************************************************************)
(* Two executions of one account.                                          *)
(***************************************************************************)
EXTENDS CoordinatedSession

CONSTANTS e1, e2, r1, r2, s1, s2

TwoOwners == [r \in Request |-> IF r = r1 THEN e1 ELSE e2]
SameSymbol == [r \in Request |-> s1]
TwoSymbols == [r \in Request |-> IF r = r1 THEN s1 ELSE s2]
Buys == [r \in Request |-> "BUY"]
BuyAndSell == [r \in Request |-> IF r = r1 THEN "BUY" ELSE "SELL"]
UnitCash == [r \in Request |-> 1]

\* An order is reported and filled, or cancelled when asked to.
ShortLife ==
  { << "IN_FLIGHT", "UNREPORTED" >>, << "UNREPORTED", "REPORTED" >>,
    << "REPORTED", "SUCCEEDED" >>, << "REPORTED_CANCEL", "CANCELED" >> }

=============================================================================
