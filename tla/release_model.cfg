SPECIFICATION ReleaseSpec
CONSTANTS
  p1 = p1
  p2 = p2
  p3 = p3
  Process = {p1, p2, p3}
  Scenarios <- AllScenarios
INVARIANTS NoInvariantViolation ReleaseIsResolved ObservationsAreTotal GlobalInvariants NoGlobalDeadlock
PROPERTIES UnresolvedNeedsEvidence NoBlindRetry
CHECK_DEADLOCK FALSE
