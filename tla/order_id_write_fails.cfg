SPECIFICATION Spec
CONSTANTS
  e1 = e1
  r1 = r1
  r2 = r2
  None = None
  Exec = {e1}
  Request = {r1, r2}
  Owner <- OneOwner
  Lifecycle <- AllMoves
  Answering = {"fresh", "stale", "torn", "unknown", "ambiguous"}
  Faults = {"crash", "guard", "hook", "submit"}
  FaultyWrites = {"persistId"}
INVARIANT ResolvedFailureHasNoOrder
