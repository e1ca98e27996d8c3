------------------------------ MODULE Bundler ------------------------------
(***************************************************************************)
(* The LNET bundler (bundler/src/index.js, class LnetBundler): a single    *)
(* Node.js process that accepts ERC-4337 user operations over JSON-RPC,    *)
(* keeps them in an in-memory mempool and sends them, a bundle at a time,  *)
(* to EntryPoint.handleOps.                                                *)
(*                                                                         *)
(* JavaScript runs to completion between two awaits, so an action here is  *)
(* the code from one await to the next.  An "item" of the code (the object *)
(* stored in both Maps) is named by the eth_sendUserOperation call that    *)
(* built it: two calls that submit the same operation build two items.     *)
(*                                                                         *)
(* A definition marked "Fault" is a way this code could be wrong; no       *)
(* action uses it, it is there to show that the properties notice.         *)
(*                                                                         *)
(* The chain is not code of the repository: handleOps is all-or-nothing,   *)
(* checks nonces in bundle order, and the relayer's transactions are mined *)
(* in the order they were sent.                                            *)
(***************************************************************************)
EXTENDS Integers, Sequences, FiniteSets

CONSTANTS
  Calls,             \* eth_sendUserOperation calls that clients may make
  Ops,               \* operations, named by userOpHash (excludes the signature)
  Senders,           \* smart accounts
  OpOf,              \* the operation a call submits
  KindOf,            \* what is special about the submitted copy, see Kinds
  Sender,            \* the account of an operation
  Nonce,             \* the nonce of an operation
  NoItem,            \* "undefined" in the Maps
  SimulationMode,    \* config.simulationMode
  MaxBundleSize,     \* config.maxBundleSize
  ClientsMayOverlap, \* may two calls for one operation be in progress at once
  RpcMayFail,        \* may the RPC node's answer to the relayer get lost
  MaxCrashes         \* bound on process restarts

\* "good": valid; "badSig": validation returns sigFailed; "aggregator":
\* validation names a signature aggregator; "malformed": refused by the
\* synchronous checks (EntryPoint, field syntax, non-zero gasFees).
Kinds == {"good", "badSig", "aggregator", "malformed"}
Modes == {"try", "required", "disabled"}

ASSUME CallsAssumption ==
  /\ IsFiniteSet(Calls)
  /\ OpOf \in [Calls -> Ops]
  /\ KindOf \in [Calls -> Kinds]
  /\ NoItem \notin Calls
ASSUME OpsAssumption ==
  /\ Sender \in [Ops -> Senders]
  /\ Nonce \in [Ops -> Nat]
ASSUME ConfigAssumption ==
  /\ SimulationMode \in Modes
  /\ MaxBundleSize \in Nat \ {0}
  /\ ClientsMayOverlap \in BOOLEAN
  /\ RpcMayFail \in BOOLEAN
  /\ MaxCrashes \in Nat

VARIABLES
  pc,         \* where each call stands
  verdict,    \* what its simulateValidation answered
  mempool,    \* Map userOpHash -> item
  history,    \* Map userOpHash -> item
  place,      \* insertion position of each item in the mempool Map, 0: none
  arrivals,   \* positions handed out so far
  status,     \* item.status
  receipt,    \* item.receipt: the transaction it came from, 0: null
  kicks,      \* setImmediate(bundleNow) callbacks not yet run
  bundling,   \* this.bundling
  phase,      \* which await the active bundleNow is suspended on
  bundle,     \* its local "items"
  awaiting,   \* the transaction whose wait() it is suspended on, 0: none
  txs,        \* handleOps transactions the node took, oldest first
  chainNonce, \* EntryPoint nonce of each account
  crashes     \* restarts so far

callVars == <<pc, verdict>>
poolVars == <<mempool, history, place, arrivals, kicks>>
itemVars == <<status, receipt>>
workVars == <<bundling, phase, bundle, awaiting>>
chainVars == <<txs, chainNonce>>
vars == <<callVars, poolVars, itemVars, workVars, chainVars, crashes>>

InProgress == {"hashing", "simulating", "simulated"}
PCs == InProgress \cup {"idle", "answered", "rejected", "lost"}
Verdicts == {"none", "ok", "aggregator", "noData", "revert"}
Statuses == {"none", "pending", "included", "failed", "forgotten"}
TxStatuses == {"pooled", "success", "reverted"}
Txs == [items : SUBSET Calls, status : TxStatuses]

TypeOK ==
  /\ pc \in [Calls -> PCs]
  /\ verdict \in [Calls -> Verdicts]
  /\ mempool \in [Ops -> Calls \cup {NoItem}]
  /\ history \in [Ops -> Calls \cup {NoItem}]
  /\ place \in [Calls -> Nat]
  /\ arrivals \in Nat
  /\ status \in [Calls -> Statuses]
  /\ receipt \in [Calls -> Nat]
  /\ kicks \in Nat
  /\ bundling \in BOOLEAN
  /\ phase \in {"idle", "submitting", "waiting"}
  /\ bundle \in SUBSET Calls
  /\ awaiting \in Nat
  /\ txs \in Seq(Txs)
  /\ chainNonce \in [Senders -> Nat]
  /\ crashes \in Nat

----------------------------------------------------------------------------
(* Helpers                                                                 *)

\* Fault: only operations still in the mempool are recognised.
KnownWhileQueued(h) == mempool[h] # NoItem


Known(h) == history[h] # NoItem \/ mempool[h] # NoItem

QueuedItems == {mempool[h] : h \in {k \in Ops : mempool[k] # NoItem}}

\* Fault: the newest items are taken first.
Newest(n) ==
  {c \in QueuedItems : Cardinality({d \in QueuedItems : place[d] > place[c]}) < n}

\* The first n values of the mempool Map.
Oldest(n) ==
  {c \in QueuedItems : Cardinality({d \in QueuedItems : place[d] < place[c]}) < n}

OpsIn(S) == {OpOf[c] : c \in S}

\* Items of S that handleOps validates before c and that use the same account.
Before(c, S) ==
  {d \in S : place[d] < place[c] /\ Sender[OpOf[d]] = Sender[OpOf[c]]}

\* handleOps validates every operation before it executes any of them.
BundleValid(S) ==
  \A c \in S :
    /\ KindOf[c] = "good"
    /\ Nonce[OpOf[c]] = chainNonce[Sender[OpOf[c]]] + Cardinality(Before(c, S))

\* eth_getUserOperationReceipt, for a known operation with a receipt.
HasReceipt(h) == history[h] # NoItem /\ receipt[history[h]] # 0

----------------------------------------------------------------------------
(* eth_sendUserOperation                                                   *)

Init ==
  /\ pc = [c \in Calls |-> "idle"]
  /\ verdict = [c \in Calls |-> "none"]
  /\ mempool = [h \in Ops |-> NoItem]
  /\ history = [h \in Ops |-> NoItem]
  /\ place = [c \in Calls |-> 0]
  /\ arrivals = 0
  /\ status = [c \in Calls |-> "none"]
  /\ receipt = [c \in Calls |-> 0]
  /\ kicks = 0
  /\ bundling = FALSE
  /\ phase = "idle"
  /\ bundle = {}
  /\ awaiting = 0
  /\ txs = <<>>
  /\ chainNonce = [s \in Senders |-> 0]
  /\ crashes = 0

\* The checks up to the first await: EntryPoint, normalizeUserOp, gasFees.
Submit(c) ==
  /\ pc[c] = "idle"
  /\ ClientsMayOverlap \/ \A d \in Calls : OpOf[d] = OpOf[c] => pc[d] \notin InProgress
  /\ pc' = [pc EXCEPT ![c] = IF KindOf[c] = "malformed" THEN "rejected" ELSE "hashing"]
  /\ UNCHANGED <<verdict, poolVars, itemVars, workVars, chainVars, crashes>>

\* getUserOpHash answers; a hash the bundler knows is returned at once.
HashResolved(c) ==
  /\ pc[c] = "hashing"
  /\ pc' = [pc EXCEPT ![c] = IF Known(OpOf[c]) THEN "answered"
                             ELSE IF SimulationMode = "disabled" THEN "simulated"
                             ELSE "simulating"]
  /\ UNCHANGED <<verdict, poolVars, itemVars, workVars, chainVars, crashes>>

\* getUserOpHash fails.
HashFailed(c) ==
  /\ pc[c] = "hashing"
  /\ pc' = [pc EXCEPT ![c] = "rejected"]
  /\ UNCHANGED <<verdict, poolVars, itemVars, workVars, chainVars, crashes>>

\* What the node may answer to simulateValidation, evaluated on the state it
\* has at that moment.  A failed signature is reported, not reverted; "noData"
\* is an EntryPoint without simulations or a node that does not answer.
SimulationAnswers(c) ==
  {"noData"} \cup
    (IF Nonce[OpOf[c]] # chainNonce[Sender[OpOf[c]]] THEN {"revert"}
     ELSE IF KindOf[c] = "aggregator" THEN {"aggregator"}
     ELSE {"ok"})

NodeSimulates(c) ==
  /\ pc[c] = "simulating"
  /\ pc' = [pc EXCEPT ![c] = "simulated"]
  /\ \E v \in SimulationAnswers(c) : verdict' = [verdict EXCEPT ![c] = v]
  /\ UNCHANGED <<poolVars, itemVars, workVars, chainVars, crashes>>

\* simulateValidation returns.  The aggregator error is thrown inside the try
\* and carries no revert data, so the catch takes it for a missing simulation.
Passes(c) ==
  \/ SimulationMode = "disabled"
  \/ verdict[c] = "ok"
  \/ SimulationMode = "try" /\ verdict[c] \in {"noData", "aggregator"}

\* The rest of sendUserOperation: both Maps are written without another look
\* at them.  Map.set on a key that is present keeps its position.
Admit(c) ==
  LET h == OpOf[c] IN
  /\ pc[c] = "simulated"
  /\ Passes(c)
  /\ pc' = [pc EXCEPT ![c] = "answered"]
  /\ status' = [status EXCEPT ![c] = "pending"]
  /\ mempool' = [mempool EXCEPT ![h] = c]
  /\ history' = [history EXCEPT ![h] = c]
  /\ place' = [place EXCEPT ![c] =
                 IF mempool[h] = NoItem THEN arrivals + 1 ELSE place[mempool[h]]]
  /\ arrivals' = IF mempool[h] = NoItem THEN arrivals + 1 ELSE arrivals
  /\ kicks' = kicks + 1
  /\ UNCHANGED <<verdict, receipt, workVars, chainVars, crashes>>

Refuse(c) ==
  /\ pc[c] = "simulated"
  /\ ~Passes(c)
  /\ pc' = [pc EXCEPT ![c] = "rejected"]
  /\ UNCHANGED <<verdict, poolVars, itemVars, workVars, chainVars, crashes>>

----------------------------------------------------------------------------
(* bundleNow                                                               *)

\* Fault: the bundling flag is not consulted.
CanBundleTwice == QueuedItems # {}


CanBundle == ~bundling /\ QueuedItems # {}

\* bundleNow up to its first await; it returns null when it may not bundle.
BundleNow ==
  \/ /\ CanBundle
     /\ bundling' = TRUE
     /\ phase' = "submitting"
     /\ bundle' = Oldest(MaxBundleSize)
     /\ UNCHANGED awaiting
  \/ /\ ~CanBundle
     /\ UNCHANGED workVars

\* The callback that sendUserOperation queued.
Immediate ==
  /\ kicks > 0
  /\ kicks' = kicks - 1
  /\ BundleNow
  /\ UNCHANGED <<callVars, mempool, history, place, arrivals, itemVars, chainVars, crashes>>

\* The interval timer of main, or an operator's lnet_bundleNow.
TimerTick ==
  /\ BundleNow
  /\ UNCHANGED <<callVars, poolVars, itemVars, chainVars, crashes>>

Pooled == [items |-> bundle, status |-> "pooled"]

\* Fault: settled items stay in the mempool.
DropNothing ==
  /\ bundling' = FALSE
  /\ phase' = "idle"
  /\ bundle' = {}
  /\ awaiting' = 0
  /\ UNCHANGED <<callVars, poolVars, crashes>>

\* Fault: the whole mempool is cleared.
DropMempool ==
  /\ mempool' = [h \in Ops |-> NoItem]
  /\ bundling' = FALSE
  /\ phase' = "idle"
  /\ bundle' = {}
  /\ awaiting' = 0
  /\ UNCHANGED <<callVars, history, place, arrivals, kicks, crashes>>

\* Fault: no "finally", the bundling flag stays set.
DropKeepsFlag ==
  /\ mempool' = [h \in Ops |-> IF h \in OpsIn(bundle) THEN NoItem ELSE mempool[h]]
  /\ phase' = "idle"
  /\ bundle' = {}
  /\ awaiting' = 0
  /\ UNCHANGED <<callVars, history, place, arrivals, kicks, bundling, crashes>>

\* The loops at the end of bundleNow: a Map entry is deleted by its hash,
\* whichever item it now holds; then "finally" clears the flag.
DropBundle ==
  /\ mempool' = [h \in Ops |-> IF h \in OpsIn(bundle) THEN NoItem ELSE mempool[h]]
  /\ bundling' = FALSE
  /\ phase' = "idle"
  /\ bundle' = {}
  /\ awaiting' = 0
  /\ UNCHANGED <<callVars, history, place, arrivals, kicks, crashes>>

FailBundle ==
  /\ status' = [c \in Calls |-> IF c \in bundle THEN "failed" ELSE status[c]]
  /\ UNCHANGED receipt
  /\ DropBundle

MarkIncluded ==
  /\ status' = [c \in Calls |-> IF c \in bundle THEN "included" ELSE status[c]]
  /\ receipt' = [c \in Calls |-> IF c \in bundle THEN awaiting ELSE receipt[c]]
  /\ DropBundle

\* submitDirect resolves: the node took the transaction.
SubmitAccepted ==
  /\ phase = "submitting"
  /\ txs' = Append(txs, Pooled)
  /\ phase' = "waiting"
  /\ awaiting' = Len(txs) + 1
  /\ UNCHANGED <<callVars, poolVars, itemVars, bundling, bundle, chainNonce, crashes>>

\* submitDirect rejects: the node refused the transaction, or, when answers
\* may get lost, took it without the relayer hearing so.
SubmitFailed ==
  /\ phase = "submitting"
  /\ \/ UNCHANGED txs
     \/ RpcMayFail /\ txs' = Append(txs, Pooled)
  /\ FailBundle
  /\ UNCHANGED chainNonce

\* Fault: any receipt counts as inclusion.
WaitIncludedUnchecked ==
  /\ phase = "waiting"
  /\ txs[awaiting].status # "pooled"
  /\ MarkIncluded
  /\ UNCHANGED chainVars

\* tx.wait() returns the receipt of a transaction that succeeded.
WaitIncluded ==
  /\ phase = "waiting"
  /\ txs[awaiting].status = "success"
  /\ MarkIncluded
  /\ UNCHANGED chainVars

\* Fault: waiting gives up on a transaction that is still in the pool.
WaitTimesOut ==
  /\ phase = "waiting"
  /\ txs[awaiting].status # "success"
  /\ FailBundle
  /\ UNCHANGED chainVars

\* tx.wait() throws: on a reverted transaction, or on an RPC error.
WaitFailed ==
  /\ phase = "waiting"
  /\ RpcMayFail \/ txs[awaiting].status = "reverted"
  /\ FailBundle
  /\ UNCHANGED chainVars

----------------------------------------------------------------------------
(* The chain, and the process it talks to                                  *)

IsNext(t) ==
  /\ txs[t].status = "pooled"
  /\ \A u \in 1..(t - 1) : txs[u].status # "pooled"

\* handleOps executes the whole bundle and advances the nonces.
MineSuccess(t) ==
  /\ IsNext(t)
  /\ BundleValid(txs[t].items)
  /\ txs' = [txs EXCEPT ![t].status = "success"]
  /\ chainNonce' = [s \in Senders |->
       chainNonce[s] + Cardinality({c \in txs[t].items : Sender[OpOf[c]] = s})]
  /\ UNCHANGED <<callVars, poolVars, itemVars, workVars, crashes>>

\* handleOps reverts: an invalid operation (FailedOp) or the fixed gas limit.
MineRevert(t) ==
  /\ IsNext(t)
  /\ txs' = [txs EXCEPT ![t].status = "reverted"]
  /\ UNCHANGED <<callVars, poolVars, itemVars, workVars, chainNonce, crashes>>

Mine == \E t \in 1..Len(txs) : MineSuccess(t) \/ MineRevert(t)

\* The process restarts with empty Maps; the chain remembers.
Crash ==
  /\ crashes < MaxCrashes
  /\ crashes' = crashes + 1
  /\ pc' = [c \in Calls |-> IF pc[c] \in InProgress THEN "lost" ELSE pc[c]]
  /\ mempool' = [h \in Ops |-> NoItem]
  /\ history' = [h \in Ops |-> NoItem]
  /\ status' = [c \in Calls |-> IF status[c] = "none" THEN "none" ELSE "forgotten"]
  /\ receipt' = [c \in Calls |-> 0]
  /\ kicks' = 0
  /\ bundling' = FALSE
  /\ phase' = "idle"
  /\ bundle' = {}
  /\ awaiting' = 0
  /\ UNCHANGED <<verdict, place, arrivals, chainVars>>

CallStep(c) ==
  \/ Submit(c)
  \/ HashResolved(c)
  \/ HashFailed(c)
  \/ NodeSimulates(c)
  \/ Admit(c)
  \/ Refuse(c)

BundleStep ==
  \/ Immediate
  \/ TimerTick
  \/ SubmitAccepted
  \/ SubmitFailed
  \/ WaitIncluded
  \/ WaitFailed

Next ==
  \/ \E c \in Calls : CallStep(c)
  \/ BundleStep
  \/ Mine
  \/ Crash

Spec == Init /\ [][Next]_vars

\* The timer keeps firing, the node answers the worker and blocks keep being made;
\* clients need not call, their calls need not be answered, setImmediate need not run
\* and the process need not crash.
Fairness ==
  /\ WF_vars(TimerTick)
  /\ WF_vars(SubmitAccepted \/ SubmitFailed)
  /\ WF_vars(WaitIncluded \/ WaitFailed)
  /\ WF_vars(Mine)

FairSpec == Spec /\ Fairness

----------------------------------------------------------------------------
(* Safety                                                                  *)

\* No item is ever sent in two transactions, whatever answers get lost and
\* however timer, callbacks, operator calls and duplicate submissions
\* interleave (bundling flag, deletion after settlement).
OneTxPerItem ==
  \A t, u \in 1..Len(txs) : t # u => txs[t].items \cap txs[u].items = {}

\* A queued item is the one that history answers for, it is still pending,
\* and the only transaction that may carry it is the one in flight.
QueuedIsCurrent ==
  \A h \in Ops : mempool[h] # NoItem =>
    /\ history[h] = mempool[h]
    /\ status[mempool[h]] = "pending"
    /\ \A t \in 1..Len(txs) :
         mempool[h] \in txs[t].items => mempool[h] \in bundle /\ awaiting = t

\* An item marked included was executed, in the transaction its receipt
\* names; and only included items show a receipt (markIncluded).
IncludedIsExecuted ==
  \A c \in Calls :
    /\ status[c] = "included" =>
         /\ receipt[c] \in 1..Len(txs)
         /\ txs[receipt[c]].status = "success"
         /\ c \in txs[receipt[c]].items
    /\ receipt[c] # 0 => status[c] = "included"

\* First in, first out across bundles: no item of any transaction is younger
\* than an operation still waiting in the mempool, except a duplicate that
\* took over the Map entry of an operation in flight (bundleNow's slice).
NoOvertaking ==
  \A t \in 1..Len(txs) : \A d \in txs[t].items : \A h \in Ops :
    mempool[h] # NoItem /\ h \notin OpsIn(bundle) => place[mempool[h]] > place[d]

\* When the RPC node's answers are not lost, an item reported as failed was not executed and never will be:
\* every transaction that carries it has reverted (catch of bundleNow).
FailedIsNotExecuted ==
  ~RpcMayFail =>
    \A c \in Calls : status[c] = "failed" =>
      \A t \in 1..Len(txs) : c \in txs[t].items => txs[t].status = "reverted"

\* An operation the bundler reports as pending is in the mempool ("batches
\* pending ops into EntryPoint.handleOps", bundler/README.md).
PendingIsQueued ==
  \A h \in Ops :
    history[h] # NoItem /\ status[history[h]] = "pending" => mempool[h] = history[h]

\* Resubmitting an operation the process knows never makes a second item, be
\* the first one queued, in flight, included or failed.
OneItemPerOp ==
  \A c, d \in Calls :
    /\ OpOf[c] = OpOf[d]
    /\ {status[c], status[d]} \subseteq {"pending", "included", "failed"}
    => c = d

\* "signature aggregators are not supported by this LNET bundler" (index.js:290): an
\* operation for which the simulation names an aggregator is not accepted.
AggregatorIsRefused ==
  \A c \in Calls : verdict[c] = "aggregator" => status[c] = "none"

\* Until a restart, what was settled stays settled: an item's outcome and the
\* receipt attached to it never change again.
SettledIsFinal ==
  [][\A c \in Calls :
       status[c] \in {"included", "failed"} /\ crashes' = crashes =>
         status'[c] = status[c] /\ receipt'[c] = receipt[c]]_vars

----------------------------------------------------------------------------
(* The inductive invariant behind the theorems of BundlerProofs            *)

\* The flag says whether a bundleNow is suspended, and on which transaction.
WorkerInv ==
  /\ bundling <=> phase # "idle"
  /\ phase = "idle" => bundle = {}
  /\ phase = "waiting" => /\ awaiting \in 1..Len(txs)
                          /\ txs[awaiting].items = bundle

\* A Map entry is a pending item that its own call admitted.
EntryInv ==
  /\ \A h \in Ops : mempool[h] # NoItem =>
       /\ OpOf[mempool[h]] = h
       /\ history[h] = mempool[h]
       /\ status[mempool[h]] = "pending"
  /\ \A c \in Calls : status[c] # "none" => pc[c] = "answered"

\* Items of the bundle are pending; a transaction carries admitted items, and
\* the pending ones among them only while bundleNow waits for it.
SentInv ==
  /\ \A c \in bundle : status[c] = "pending"
  /\ \A t \in 1..Len(txs) : \A c \in txs[t].items :
       /\ status[c] # "none"
       /\ status[c] = "pending" => phase = "waiting" /\ awaiting = t /\ c \in bundle

\* An operation that was executed is behind its account's nonce.
NonceInv ==
  \A t \in 1..Len(txs) : txs[t].status = "success" =>
    \A c \in txs[t].items : Nonce[OpOf[c]] < chainNonce[Sender[OpOf[c]]]

\* What the worker, the Maps and the chain have to agree on for every step to
\* keep OneTxPerItem, QueuedIsCurrent and IncludedIsExecuted.
BundlerInv ==
  /\ WorkerInv
  /\ EntryInv
  /\ SentInv
  /\ OneTxPerItem
  /\ IncludedIsExecuted

\* Positions grow with arrival, and whatever a bundle or a transaction holds
\* arrived before all that is still waiting for a bundle.
PlaceInv ==
  /\ \A c \in Calls : place[c] <= arrivals
  /\ \A d \in bundle : \A h \in Ops :
       mempool[h] # NoItem /\ h \notin OpsIn(bundle) => place[mempool[h]] > place[d]
  /\ NoOvertaking

\* While clients do not overlap, an operation has at most one call in progress,
\* which found the Maps without it, and at most one live item, which history
\* names and the mempool holds for as long as it is pending.
SequentialInv ==
  /\ \A c, d \in Calls :
       OpOf[c] = OpOf[d] /\ {pc[c], pc[d]} \subseteq InProgress => c = d
  /\ \A c \in Calls : pc[c] \in {"simulating", "simulated"} => history[OpOf[c]] = NoItem
  /\ \A c \in Calls : status[c] \in {"pending", "included", "failed"} => history[OpOf[c]] = c
  /\ \A c \in Calls : status[c] = "pending" => mempool[OpOf[c]] = c
  /\ \A h \in Ops : history[h] # NoItem => OpOf[history[h]] = h

----------------------------------------------------------------------------
(* Liveness                                                                *)

\* Every accepted item is settled, leftovers of a full bundle included.
PendingSettles ==
  \A c \in Calls : status[c] = "pending" ~> status[c] # "pending"

Executed(h) ==
  \E t \in 1..Len(txs) : txs[t].status = "success" /\ h \in OpsIn(txs[t].items)

\* An executed operation gets a receipt clients can poll for.
ExecutedIsReported ==
  \A h \in Ops : Executed(h) ~> (HasReceipt(h) \/ crashes > 0)

----------------------------------------------------------------------------
(* The promise of UserOpLifecycle                                          *)

Lifecycle == INSTANCE UserOpLifecycle WITH
  Items <- Calls,
  outcome <- status,
  executed <- {h \in Ops : Executed(h)}

\* The bundler implements UserOpLifecycle: an item's status is its outcome.
LifecycleSpec == Lifecycle!Spec
=============================================================================
