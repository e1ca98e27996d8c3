SPECIFICATION Spec
CONSTANTS
  c1 = c1
  c2 = c2
  c3 = c3
  c4 = c4
  h1 = h1
  h2 = h2
  h3 = h3
  alice = alice
  bob = bob
  NoItem = NoItem
  Calls <- FaultCalls
  Ops <- MCOps
  Senders = {alice, bob}
  OpOf <- FaultOpOf
  KindOf <- FaultKindOf
  Sender <- DupSender
  Nonce <- DupNonce
  SimulationMode = "try"
  MaxBundleSize = 2
  ClientsMayOverlap = TRUE
  RpcMayFail = TRUE
  MaxCrashes = 1
INVARIANTS OneTxPerItem QueuedIsCurrent IncludedIsExecuted
PROPERTIES SettledIsFinal LifecycleSpec
