--------------------------- MODULE MCReleaseModel ---------------------------
(***************************************************************************)
(* The scenarios of verify_three_process_coordination() for TLC.  Cash is  *)
(* in units of ten.                                                        *)
(***************************************************************************)
EXTENDS ReleaseModel

CONSTANTS p1, p2, p3

BUY(account, symbol, cash) ==
  [account |-> account, symbol |-> symbol, side |-> "BUY", required_cash |-> cash]

SELL(account, symbol) ==
  [account |-> account, symbol |-> symbol, side |-> "SELL", required_cash |-> 0]

Scenario(o1, o2, o3) ==
  [order |-> [p \in { p1, p2, p3 } |-> CASE p = p1 -> o1 [] p = p2 -> o2 [] p = p3 -> o3],
   cash  |-> [account \in { "a0", "a1" } |-> 10]]

DistinctSymbols == Scenario(BUY("a0", "s0", 3), BUY("a0", "s1", 3), BUY("a0", "s2", 3))
SameSymbolExclusion == Scenario(BUY("a0", "s0", 3), BUY("a0", "s0", 3), SELL("a0", "s0"))
CashContention == Scenario(BUY("a0", "s0", 6), BUY("a0", "s1", 5), BUY("a0", "s2", 4))
CrossAccount == Scenario(BUY("a0", "s0", 3), BUY("a1", "s0", 3), BUY("a0", "s1", 3))

AllScenarios == { DistinctSymbols, SameSymbolExclusion, CashContention, CrossAccount }

=============================================================================
