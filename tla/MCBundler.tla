----------------------------- MODULE MCBundler -----------------------------
(* Small instances of Bundler for TLC.                                     *)
EXTENDS Bundler, TLC

CONSTANTS
  c1, c2, c3, c4,  \* calls
  h1, h2, h3,      \* operations
  alice, bob       \* accounts

MCOps == {h1, h2, h3}

(* Duplicates: h1 is submitted twice, the second copy badly signed; h2 is  *)
(* alice's next operation, so it fails in a bundle that lacks h1.          *)
DupCalls == {c1, c2, c3}
DupOpOf == (c1 :> h1) @@ (c2 :> h1) @@ (c3 :> h2)
DupKindOf == (c1 :> "good") @@ (c2 :> "badSig") @@ (c3 :> "good")
DupSender == (h1 :> alice) @@ (h2 :> alice) @@ (h3 :> bob)
DupNonce == (h1 :> 0) @@ (h2 :> 1) @@ (h3 :> 0)

(* Retries: h1 is submitted a second time, h2 competes with it for alice's *)
(* nonce 0, and bob's h3 shares their bundles.                             *)
RetryCalls == {c1, c2, c3, c4}
RetryOpOf == (c1 :> h1) @@ (c2 :> h1) @@ (c3 :> h2) @@ (c4 :> h3)
RetryKindOf == [c \in RetryCalls |-> "good"]
RetryNonce == [h \in MCOps |-> 0]

(* Faults: the duplicates beside a call that the synchronous checks refuse.*)
FaultCalls == DupCalls \cup {c4}
FaultOpOf == DupOpOf @@ (c4 :> h3)
FaultKindOf == DupKindOf @@ (c4 :> "malformed")

(* Aggregated: the simulation of h1 names an aggregator.             *)
AggregatedOpOf == c1 :> h1
AggregatedSender == h1 :> alice
AggregatedNonce == h1 :> 0
AggregatedKindOf == c1 :> "aggregator"
=============================================================================
