SPECIFICATION FairSpec
CONSTANTS
  c1 = c1
  c2 = c2
  c3 = c3
  c4 = c4
  h1 = h1
  h2 = h2
  h3 = h3
  alice = alice
  bob = bob
  NoItem = NoItem
  Calls <- RetryCalls
  Ops <- MCOps
  Senders = {alice, bob}
  OpOf <- RetryOpOf
  KindOf <- RetryKindOf
  Sender <- DupSender
  Nonce <- RetryNonce
  SimulationMode = "disabled"
  MaxBundleSize = 2
  ClientsMayOverlap = FALSE
  RpcMayFail = FALSE
  MaxCrashes = 1
INVARIANTS NoOvertaking PendingIsQueued OneItemPerOp FailedIsNotExecuted
PROPERTIES PendingSettles ExecutedIsReported
