SPECIFICATION Spec
CONSTANTS
  None = None
  Process = {operator, runtime1, runtime2}
  Path = {canonical, other}
  Default = canonical
  Uuid = {u1, u2, u3}
INVARIANTS TypeOK OneDomain NoOtherIdentity
PROPERTY WrittenOnce
