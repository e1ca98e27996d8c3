SPECIFICATION Spec
CONSTANTS
  p1 = p1
  p2 = p2
  Requests = {p1, p2}
  MaxKid = 2
  MaxTime = 4
  MaxLatency = 1
  MinRefetch = 1
  JwksTtl = 2
  TokenTtl = 4
  Early = 3
  Floor = 1
  Skew = 1
INVARIANTS HintIsHonest UnknownMeansNew
PROPERTIES AdmittedByCurrentKey FetchesAreApart RequestsEnd
CHECK_DEADLOCK FALSE
