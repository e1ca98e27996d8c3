SPECIFICATION Spec
CONSTANTS
  s1 = s1
  s2 = s2
  storage = storage
  empty = empty
  sink = sink
  other = other
  word = word
  None = None
  Sends = {s1}
  Addresses = {storage, empty, sink}
  Kind <- MCKind
  Deployed0 = {storage, sink}
  Allowed = {storage, empty, sink}
  MaxPolls = 2
INVARIANT SilentOnlyWhereInspected
