SPECIFICATION Spec
CONSTANTS
  e1 = e1
  e2 = e2
  r1 = r1
  r2 = r2
  s1 = s1
  s2 = s2
  None = None
  Exec = {e1, e2}
  Request = {r1, r2}
  Symbol = {s1, s2}
  Owner <- TwoOwners
  SymbolOf <- TwoSymbols
  Side <- Buys
  RequiredCash <- UnitCash
  Cash = 1
  Lifecycle <- ShortLife
  Answering = {"fresh", "ambiguous"}
  Faults = {"crash", "guard", "hook", "submit"}
  FaultyWrites = {}
INVARIANTS LiveCashIsCovered ClaimIsTraceable
