SPECIFICATION Spec
CONSTANTS
  e1 = e1
  e2 = e2
  r1 = r1
  r2 = r2
  s1 = s1
  s2 = s2
  None = None
  Exec = {e1, e2}
  Request = {r1, r2}
  Symbol = {s1}
  Owner <- TwoOwners
  SymbolOf <- SameSymbol
  Side <- BuyAndSell
  RequiredCash <- UnitCash
  Cash = 1
  Lifecycle <- ShortLife
  Answering = {"fresh", "ambiguous"}
  Faults = {"crash", "hook", "submit", "db"}
  FaultyWrites = {}
INVARIANTS LiveOrderHasClaim ReservationMatchesClaim
PROPERTY ImplementsAccount
