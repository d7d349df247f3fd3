SPECIFICATION FairSpec
CONSTANTS
  e1 = e1
  r1 = r1
  r2 = r2
  None = None
  Exec = {e1}
  Request = {r1}
  Owner <- OneOwner
  Lifecycle <- Finishing
  Answering = {"fresh", "ambiguous"}
  Faults = {"crash", "guard", "hook", "submit"}
  FaultyWrites = {}
PROPERTIES EveryOrderSettles JournalRefinesMachine
