SPECIFICATION Spec
CONSTANTS
  ana = ana
  ben = ben
  w1 = w1
  r1 = r1
  NoUser = NoUser
  Users = {ana, ben}
  Writes = {w1}
  Reads = {r1}
  Faults = TRUE
  NewKeys = TRUE
INVARIANTS InheritedOnlyInFlight ServedAsOwner   OneReloginFixesIt
SYMMETRY MCSymmetry
