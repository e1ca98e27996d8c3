SPECIFICATION Spec
CONSTANTS
  c1 = c1
  c2 = c2
  c3 = c3
  c4 = c4
  h1 = h1
  h2 = h2
  h3 = h3
  alice = alice
  bob = bob
  NoItem = NoItem
  Calls <- DupCalls
  Ops <- MCOps
  Senders = {alice, bob}
  OpOf <- DupOpOf
  KindOf <- DupKindOf
  Sender <- DupSender
  Nonce <- DupNonce
  SimulationMode = "try"
  MaxBundleSize = 2
  ClientsMayOverlap = TRUE
  RpcMayFail = FALSE
  MaxCrashes = 0
INVARIANTS PendingIsQueued
