SPECIFICATION Spec
CONSTANTS
  c1 = c1
  c2 = c2
  c3 = c3
  c4 = c4
  h1 = h1
  h2 = h2
  h3 = h3
  alice = alice
  bob = bob
  NoItem = NoItem
  Calls = {c1}
  Ops = {h1}
  Senders = {alice}
  OpOf <- AggregatedOpOf
  KindOf <- AggregatedKindOf
  Sender <- AggregatedSender
  Nonce <- AggregatedNonce
  SimulationMode = "try"
  MaxBundleSize = 2
  ClientsMayOverlap = FALSE
  RpcMayFail = FALSE
  MaxCrashes = 0
INVARIANTS AggregatorIsRefused
