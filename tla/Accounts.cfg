SPECIFICATION Spec
CONSTANTS
  ana = ana
  ben = ben
  old = old
  new = new
  one = one
  Nobody = Nobody
  EntryPoint = EntryPoint
  NoSponsor = NoSponsor
  Owners = {ana, ben}
  Salts = {one}
  Signers = {old, new}
  Admin = ben
  Ops <- MCOps
  Op <- MCOp
  SignedBy <- MCSignedBy
  Sponsor <- MCSponsor
  DirectCalls <- MCDirectCalls
  MaxBundle = 2
  MaxDeposit = 1
  MaxTime = 2
INVARIANTS TypeOK NamedOwnersOwn ActsAreAuthorised SponsoredAsSigned BundleFailsOnlyIfStale
CHECK_DEADLOCK FALSE
