------------------------- MODULE BundlerQueueProofs -------------------------
(***************************************************************************)
(* Further proofs about Bundler: the order in which operations leave the   *)
(* mempool, what becomes of duplicates and of failed bundles, and which    *)
(* operations are refused.  They rest on the inductive invariant of        *)
(* BundlerProofs.                                                          *)
(***************************************************************************)
EXTENDS BundlerProofs

USE DEF callVars, poolVars, itemVars, workVars, chainVars

\* Who is in a transaction or in the bundle has been admitted.
LEMMA ItemFacts ==
  ASSUME TypeOK, BundlerInv
  PROVE  /\ \A t \in 1..Len(txs) : txs[t].items \subseteq Calls
         /\ \A t \in 1..Len(txs) : \A c \in txs[t].items : status[c] # "none"
         /\ bundle \subseteq Calls
         /\ \A c \in bundle : status[c] = "pending"
         /\ \A h \in Ops : mempool[h] # NoItem =>
              mempool[h] \in Calls /\ OpOf[mempool[h]] = h
  <1>1. \A t \in 1..Len(txs) : txs[t].items \subseteq Calls
    BY TxFacts DEF Txs, TxStatuses
  <1>2. \A t \in 1..Len(txs) : \A c \in txs[t].items : status[c] # "none"
    BY DEF BundlerInv, SentInv
  <1>3. bundle \subseteq Calls /\ \A c \in bundle : status[c] = "pending"
    BY DEF TypeOK, BundlerInv, SentInv
  <1>4. \A h \in Ops : mempool[h] # NoItem =>
          mempool[h] \in Calls /\ OpOf[mempool[h]] = h
    BY DEF TypeOK, BundlerInv, EntryInv
  <1>. QED  BY <1>1, <1>2, <1>3, <1>4

\* What a mined transaction looks like afterwards.
LEMMA MineFacts ==
  ASSUME TypeOK, NEW t \in 1..Len(txs), MineSuccess(t) \/ MineRevert(t)
  PROVE  /\ txs[t].status = "pooled"
         /\ Len(txs') = Len(txs)
         /\ \A u \in 1..Len(txs) :
              /\ txs'[u].items = txs[u].items
              /\ u # t => txs'[u].status = txs[u].status
         /\ UNCHANGED <<callVars, poolVars, itemVars, workVars>>
  <1>1. PICK st \in TxStatuses : txs' = [txs EXCEPT ![t].status = st]
    BY DEF MineSuccess, MineRevert, TxStatuses
  <1>2. /\ Len(txs') = Len(txs)
        /\ \A u \in 1..Len(txs) :
             /\ txs'[u].items = txs[u].items
             /\ u # t => txs'[u].status = txs[u].status
    BY <1>1, TxFacts
  <1>. QED  BY <1>2 DEF MineSuccess, MineRevert, IsNext

----------------------------------------------------------------------------
(* First in, first out                                                     *)

\* Oldest takes the items with the lowest positions.
LEMMA OldestFirst ==
  ASSUME TypeOK, NEW n \in Nat, NEW d \in Oldest(n), NEW e \in QueuedItems, e \notin Oldest(n)
  PROVE  place[e] > place[d]
  <1>. DEFINE Ahead(c) == {x \in QueuedItems : place[x] < place[c]}
  <1>1. QueuedItems \subseteq Calls /\ d \in QueuedItems
    BY OldestIsQueued DEF Oldest
  <1>2. place[d] \in Nat /\ place[e] \in Nat /\ \A x \in QueuedItems : place[x] \in Nat
    BY <1>1 DEF TypeOK
  <1>3. IsFiniteSet(Ahead(d)) /\ Cardinality(Ahead(d)) < n /\ ~(Cardinality(Ahead(e)) < n)
    <2>1. IsFiniteSet(Ahead(d))
      BY <1>1, CallsAssumption, FS_Subset
    <2>. QED  BY <2>1 DEF Oldest
  <1>4. SUFFICES ASSUME place[e] <= place[d] PROVE FALSE
    BY <1>2
  <1>5. Ahead(e) \subseteq Ahead(d)
    BY <1>2, <1>4
  <1>6. Cardinality(Ahead(e)) <= Cardinality(Ahead(d)) /\ IsFiniteSet(Ahead(e))
    BY <1>3, <1>5, FS_Subset
  <1>7. Cardinality(Ahead(e)) \in Nat /\ Cardinality(Ahead(d)) \in Nat
    BY <1>3, <1>6, FS_CardinalityType
  <1>. HIDE DEF Ahead
  <1>. QED  BY <1>3, <1>6, <1>7

\* A new item goes to the end of the mempool, or takes over the place of the
\* item it replaces.
LEMMA AdmitKeepsPlaces ==
  ASSUME TypeOK, BundlerInv, PlaceInv, NEW c \in Calls, Admit(c)
  PROVE  PlaceInv'
  <1>. USE DEF TypeOK
  <1>1. status[c] = "none" /\ OpOf[c] \in Ops /\ c # NoItem
    BY CallsAssumption DEF BundlerInv, EntryInv, Admit
  <1>. DEFINE old == mempool[OpOf[c]]
  <1>2. /\ mempool' = [mempool EXCEPT ![OpOf[c]] = c]
        /\ place' = [place EXCEPT ![c] = IF old = NoItem THEN arrivals + 1 ELSE place[old]]
        /\ arrivals' = IF old = NoItem THEN arrivals + 1 ELSE arrivals
        /\ UNCHANGED <<bundle, txs>>
    BY DEF Admit
  <1>3. \A d \in Calls : place[d] <= arrivals /\ place[d] \in Nat
    BY DEF PlaceInv
  <1>4. old # NoItem => old \in Calls
    BY <1>1
  <1>5. \A d \in Calls : place'[d] <= arrivals'
    BY <1>1, <1>2, <1>3, <1>4
  <1>6. c \notin bundle /\ \A t \in 1..Len(txs) : c \notin txs[t].items
    BY <1>1, ItemFacts
  <1>7. ASSUME NEW d \in Calls, d # c, NEW h \in Ops, mempool'[h] # NoItem,
               mempool[h] # NoItem => place[mempool[h]] > place[d]
        PROVE  place'[mempool'[h]] > place'[d]
    <2>1. place'[d] = place[d]
      BY <1>2, <1>7
    <2>2. CASE h = OpOf[c]
      <3>1. mempool'[h] = c
        BY <1>1, <1>2, <2>2
      <3>2. place'[c] = IF old = NoItem THEN arrivals + 1 ELSE place[old]
        BY <1>2
      <3>. QED  BY <1>3, <1>7, <2>1, <2>2, <3>1, <3>2
    <2>3. CASE h # OpOf[c]
      <3>1. mempool'[h] = mempool[h]
        BY <1>2, <2>3
      <3>2. mempool[h] # c
        BY <1>1, <1>7, <2>3, <3>1, ItemFacts
      <3>. QED  BY <1>2, <1>7, <2>1, <3>1, <3>2
    <2>. QED  BY <2>2, <2>3
  <1>8. ASSUME NEW d \in bundle, NEW h \in Ops, mempool'[h] # NoItem, h \notin OpsIn(bundle)
        PROVE  place'[mempool'[h]] > place'[d]
    BY <1>6, <1>7, <1>8 DEF PlaceInv
  <1>9. ASSUME NEW t \in 1..Len(txs), NEW d \in txs[t].items, NEW h \in Ops,
               mempool'[h] # NoItem, h \notin OpsIn(bundle)
        PROVE  place'[mempool'[h]] > place'[d]
    <2>1. d \in Calls /\ d # c
      BY <1>6, <1>9, ItemFacts
    <2>2. mempool[h] # NoItem => place[mempool[h]] > place[d]
      BY <1>9 DEF PlaceInv, NoOvertaking
    <2>. QED  BY <1>7, <1>9, <2>1, <2>2
  <1>. QED  BY <1>2, <1>5, <1>8, <1>9 DEF PlaceInv, NoOvertaking, OpsIn

\* bundleNow takes the oldest items, or changes nothing.
LEMMA BundleNowKeepsPlaces ==
  ASSUME TypeOK, BundlerInv, PlaceInv, BundleNow,
         UNCHANGED <<mempool, place, arrivals, txs>>
  PROVE  PlaceInv'
  <1>1. CASE ~CanBundle
    <2>1. bundle' = bundle
      BY <1>1 DEF BundleNow
    <2>. QED  BY <2>1 DEF PlaceInv, NoOvertaking, OpsIn
  <1>2. CASE CanBundle
    <2>1. bundle' = Oldest(MaxBundleSize) /\ bundle = {}
      BY <1>2 DEF BundleNow, CanBundle, BundlerInv, WorkerInv
    <2>2. ASSUME NEW d \in bundle', NEW h \in Ops, mempool[h] # NoItem, h \notin OpsIn(bundle')
          PROVE  place[mempool[h]] > place[d]
      <3>1. mempool[h] \in QueuedItems
        BY <2>2 DEF QueuedItems
      <3>2. mempool[h] \notin bundle'
        BY <2>2, ItemFacts DEF OpsIn
      <3>. QED  BY <2>1, <2>2, <3>1, <3>2, OldestFirst, ConfigAssumption
    <2>3. OpsIn(bundle) = {}
      BY <2>1 DEF OpsIn
    <2>4. \A c \in Calls : place[c] <= arrivals
      BY DEF PlaceInv
    <2>5. NoOvertaking'
      BY <2>3 DEF PlaceInv, NoOvertaking
    <2>. QED  BY <2>2, <2>4, <2>5 DEF PlaceInv, OpsIn
  <1>. QED  BY <1>1, <1>2

\* Sending the bundle: its items are older than all that is left.
LEMMA SendKeepsPlaces ==
  ASSUME TypeOK, BundlerInv, PlaceInv, txs' = Append(txs, Pooled)
  PROVE  \A t \in 1..Len(txs') : \A d \in txs'[t].items : \A h \in Ops :
           mempool[h] # NoItem /\ h \notin OpsIn(bundle) => place[mempool[h]] > place[d]
  <1>1. /\ Len(txs') = Len(txs) + 1
        /\ \A u \in 1..Len(txs) : txs'[u] = txs[u]
        /\ txs'[Len(txs) + 1].items = bundle
        /\ Len(txs) \in Nat
    BY AppendFacts
  <1>. QED  BY <1>1 DEF PlaceInv, NoOvertaking

\* What the settlement leaves in the mempool was not in the bundle.
LEMMA SettleKeepsPlaces ==
  ASSUME TypeOK, BundlerInv, PlaceInv, DropBundle, txs' = txs \/ txs' = Append(txs, Pooled)
  PROVE  PlaceInv'
  <1>1. /\ mempool' = [h \in Ops |-> IF h \in OpsIn(bundle) THEN NoItem ELSE mempool[h]]
        /\ bundle' = {}
        /\ UNCHANGED <<place, arrivals>>
    BY DEF DropBundle
  <1>2. \A t \in 1..Len(txs') : \A d \in txs'[t].items : \A h \in Ops :
          mempool[h] # NoItem /\ h \notin OpsIn(bundle) => place[mempool[h]] > place[d]
    BY SendKeepsPlaces DEF PlaceInv, NoOvertaking
  <1>3. NoOvertaking'
    BY <1>1, <1>2 DEF NoOvertaking
  <1>. QED  BY <1>1, <1>3 DEF PlaceInv

LEMMA PlaceNext == TypeOK /\ BundlerInv /\ PlaceInv /\ [Next]_vars => PlaceInv'
  <1>. SUFFICES ASSUME TypeOK, BundlerInv, PlaceInv, [Next]_vars PROVE PlaceInv'
    OBVIOUS
  <1>1. ASSUME UNCHANGED <<mempool, place, arrivals, bundle, txs>> PROVE PlaceInv'
    BY <1>1 DEF PlaceInv, NoOvertaking, OpsIn
  <1>2. ASSUME NEW c \in Calls, CallStep(c) PROVE PlaceInv'
    <2>1. CASE Submit(c) \/ HashResolved(c) \/ HashFailed(c) \/ NodeSimulates(c) \/ Refuse(c)
      BY <1>1, <2>1 DEF Submit, HashResolved, HashFailed, NodeSimulates, Refuse
    <2>. QED  BY <1>2, <2>1, AdmitKeepsPlaces DEF CallStep
  <1>3. CASE Immediate \/ TimerTick
    BY <1>3, BundleNowKeepsPlaces DEF Immediate, TimerTick
  <1>4. CASE SubmitAccepted
    <2>1. txs' = Append(txs, Pooled) /\ UNCHANGED <<mempool, place, arrivals, bundle>>
      BY <1>4 DEF SubmitAccepted
    <2>2. NoOvertaking'
      BY <2>1, SendKeepsPlaces DEF NoOvertaking, OpsIn
    <2>. QED  BY <2>1, <2>2 DEF PlaceInv, OpsIn
  <1>5. CASE SubmitFailed \/ WaitFailed \/ WaitIncluded
    BY <1>5, SettleKeepsPlaces DEF SubmitFailed, WaitFailed, WaitIncluded, FailBundle, MarkIncluded
  <1>6. CASE Mine
    <2>1. PICK t \in 1..Len(txs) : MineSuccess(t) \/ MineRevert(t)
      BY <1>6 DEF Mine
    <2>. QED  BY <2>1, MineFacts DEF PlaceInv, NoOvertaking, OpsIn
  <1>7. CASE Crash
    BY <1>7 DEF Crash, PlaceInv, NoOvertaking
  <1>8. CASE UNCHANGED vars
    BY <1>1, <1>8 DEF vars
  <1>. QED  BY <1>2, <1>3, <1>4, <1>5, <1>6, <1>7, <1>8 DEF Next, BundleStep

\* Operations leave the mempool in the order in which they entered it, whatever
\* the bundle size, restarts, lost answers and duplicates (bundleNow's slice of
\* the Map's values).
THEOREM FirstInFirstOut == Spec => []NoOvertaking
  <1>1. Init => PlaceInv
    BY DEF Init, PlaceInv, NoOvertaking
  <1>2. Spec => []PlaceInv
    BY <1>1, PlaceNext, TypeCorrect, InvCorrect, PTL DEF Spec
  <1>. QED  BY <1>2, PTL DEF PlaceInv

----------------------------------------------------------------------------
(* Failed operations                                                       *)

\* A bundle whose transaction was refused, or has reverted, was not executed.
LEMMA FailingIsUnexecuted ==
  ASSUME TypeOK, BundlerInv, FailedIsNotExecuted, ~RpcMayFail, SubmitFailed \/ WaitFailed
  PROVE  FailedIsNotExecuted'
  <1>. USE DEF TypeOK
  <1>1. /\ status' = [c \in Calls |-> IF c \in bundle THEN "failed" ELSE status[c]]
        /\ txs' = txs
    BY DEF SubmitFailed, WaitFailed, FailBundle
  <1>2. ASSUME NEW c \in bundle, NEW t \in 1..Len(txs), c \in txs[t].items
        PROVE  txs[t].status = "reverted"
    <2>1. phase = "waiting" /\ awaiting = t
      BY <1>2 DEF BundlerInv, SentInv
    <2>. QED  BY <2>1 DEF SubmitFailed, WaitFailed
  <1>. QED  BY <1>1, <1>2 DEF FailedIsNotExecuted

LEMMA FailedNext == TypeOK /\ BundlerInv /\ FailedIsNotExecuted /\ [Next]_vars => FailedIsNotExecuted'
  <1>. SUFFICES ASSUME TypeOK, BundlerInv, FailedIsNotExecuted, [Next]_vars, ~RpcMayFail
                PROVE  FailedIsNotExecuted'
    BY DEF FailedIsNotExecuted
  <1>. USE DEF TypeOK
  <1>1. ASSUME txs' = txs, \A c \in Calls : status'[c] = "failed" => status[c] = "failed"
        PROVE  FailedIsNotExecuted'
    BY <1>1 DEF FailedIsNotExecuted
  <1>2. ASSUME NEW c \in Calls, CallStep(c) PROVE FailedIsNotExecuted'
    BY <1>1, <1>2 DEF CallStep, Submit, HashResolved, HashFailed, NodeSimulates, Admit, Refuse
  <1>3. CASE Immediate \/ TimerTick
    BY <1>1, <1>3 DEF Immediate, TimerTick
  <1>4. CASE SubmitAccepted
    <2>1. /\ Len(txs') = Len(txs) + 1
          /\ \A u \in 1..Len(txs) : txs'[u] = txs[u]
          /\ txs'[Len(txs) + 1].items = bundle
          /\ Len(txs) \in Nat
          /\ status' = status
      BY <1>4, AppendFacts DEF SubmitAccepted
    <2>2. ASSUME NEW c \in Calls, status[c] = "failed", NEW t \in 1..Len(txs'), c \in txs'[t].items
          PROVE  txs'[t].status = "reverted"
      <3>1. t # Len(txs) + 1
        BY <2>1, <2>2, ItemFacts
      <3>2. t \in 1..Len(txs)
        BY <2>1, <2>2, <3>1
      <3>. QED  BY <2>1, <2>2, <3>2 DEF FailedIsNotExecuted
    <2>. QED  BY <2>1, <2>2 DEF FailedIsNotExecuted
  <1>5. CASE SubmitFailed \/ WaitFailed
    BY <1>5, FailingIsUnexecuted
  <1>6. CASE WaitIncluded
    BY <1>1, <1>6 DEF WaitIncluded, MarkIncluded
  <1>7. CASE Mine
    <2>1. PICK t \in 1..Len(txs) : MineSuccess(t) \/ MineRevert(t)
      BY <1>7 DEF Mine
    <2>. QED  BY <2>1, MineFacts DEF FailedIsNotExecuted
  <1>8. CASE Crash
    BY <1>1, <1>8 DEF Crash
  <1>9. CASE UNCHANGED vars
    BY <1>1, <1>9 DEF vars
  <1>. QED  BY <1>2, <1>3, <1>4, <1>5, <1>6, <1>7, <1>8, <1>9 DEF Next, BundleStep

\* When no answer of the node to the relayer gets lost, what the bundler reports
\* as failed was not executed and cannot be any more (the catch of bundleNow).
THEOREM FailedWasNotExecuted == Spec => []FailedIsNotExecuted
  <1>1. Init => FailedIsNotExecuted
    BY DEF Init, FailedIsNotExecuted
  <1>. QED  BY <1>1, FailedNext, TypeCorrect, InvCorrect, PTL DEF Spec

----------------------------------------------------------------------------
(* Duplicates                                                              *)

\* A call that has not been admitted moves on: only the first look at the Maps
\* lets it go on to the simulation.
LEMMA CallKeepsSequential ==
  ASSUME ~ClientsMayOverlap, TypeOK, BundlerInv, SequentialInv, NEW c \in Calls,
         Submit(c) \/ HashResolved(c) \/ HashFailed(c) \/ NodeSimulates(c) \/ Refuse(c)
  PROVE  SequentialInv'
  <1>. USE DEF TypeOK
  <1>1. PICK p \in PCs : pc' = [pc EXCEPT ![c] = p]
    BY DEF Submit, HashResolved, HashFailed, NodeSimulates, Refuse, PCs, InProgress
  <1>2. UNCHANGED <<poolVars, itemVars>>
    BY DEF Submit, HashResolved, HashFailed, NodeSimulates, Refuse
  <1>3. pc[c] \in InProgress \/ \A d \in Calls : OpOf[d] = OpOf[c] => pc[d] \notin InProgress
    BY DEF Submit, HashResolved, HashFailed, NodeSimulates, Refuse, InProgress
  <1>4. p \in {"simulating", "simulated"} => history[OpOf[c]] = NoItem
    BY <1>1 DEF Submit, HashResolved, HashFailed, NodeSimulates, Refuse, Known, SequentialInv
  <1>5. \A d, e \in Calls :
          OpOf[d] = OpOf[e] /\ {pc'[d], pc'[e]} \subseteq InProgress => d = e
    BY <1>1, <1>3 DEF SequentialInv
  <1>6. \A d \in Calls : pc'[d] \in {"simulating", "simulated"} => history'[OpOf[d]] = NoItem
    BY <1>1, <1>2, <1>4 DEF SequentialInv
  <1>. QED  BY <1>2, <1>5, <1>6 DEF SequentialInv

\* Admission finds the Maps as they were when the call looked at them.
LEMMA AdmitKeepsSequential ==
  ASSUME TypeOK, BundlerInv, SequentialInv, NEW c \in Calls, Admit(c)
  PROVE  SequentialInv'
  <1>. USE DEF TypeOK
  <1>. DEFINE h == OpOf[c]
  <1>1. h \in Ops /\ c # NoItem /\ pc[c] = "simulated" /\ history[h] = NoItem
    BY CallsAssumption DEF Admit, SequentialInv
  <1>2. /\ pc' = [pc EXCEPT ![c] = "answered"]
        /\ status' = [status EXCEPT ![c] = "pending"]
        /\ mempool' = [mempool EXCEPT ![h] = c]
        /\ history' = [history EXCEPT ![h] = c]
    BY DEF Admit
  <1>3. ASSUME NEW d \in Calls, d # c, status[d] \in {"pending", "included", "failed"}
        PROVE  OpOf[d] # h
    BY <1>1, <1>3, CallsAssumption DEF SequentialInv
  <1>4. ASSUME NEW d \in Calls, d # c, pc[d] \in InProgress
        PROVE  OpOf[d] # h
    BY <1>1, <1>4 DEF SequentialInv, InProgress
  <1>5. \A d, e \in Calls :
          OpOf[d] = OpOf[e] /\ {pc'[d], pc'[e]} \subseteq InProgress => d = e
    BY <1>2 DEF SequentialInv, InProgress
  <1>6. \A d \in Calls : pc'[d] \in {"simulating", "simulated"} => history'[OpOf[d]] = NoItem
    BY <1>2, <1>4, CallsAssumption DEF SequentialInv, InProgress
  <1>7. ASSUME NEW d \in Calls
        PROVE  /\ status'[d] \in {"pending", "included", "failed"} => history'[OpOf[d]] = d
               /\ status'[d] = "pending" => mempool'[OpOf[d]] = d
    BY <1>1, <1>2, <1>3, CallsAssumption DEF SequentialInv
  <1>8. \A k \in Ops : history'[k] # NoItem => OpOf[history'[k]] = k
    BY <1>1, <1>2 DEF SequentialInv
  <1>. QED  BY <1>5, <1>6, <1>7, <1>8 DEF SequentialInv

\* Settling deletes the bundle's own entries and no other.
LEMMA SettleKeepsSequential ==
  ASSUME TypeOK, BundlerInv, SequentialInv, DropBundle, NEW st \in {"included", "failed"},
         status' = [c \in Calls |-> IF c \in bundle THEN st ELSE status[c]]
  PROVE  SequentialInv'
  <1>. USE DEF TypeOK
  <1>1. /\ mempool' = [h \in Ops |-> IF h \in OpsIn(bundle) THEN NoItem ELSE mempool[h]]
        /\ UNCHANGED <<pc, history>>
    BY DEF DropBundle
  <1>2. ASSUME NEW c \in Calls, status'[c] = "pending"
        PROVE  mempool'[OpOf[c]] = c
    <2>1. c \notin bundle /\ status[c] = "pending" /\ mempool[OpOf[c]] = c /\ OpOf[c] \in Ops
      BY <1>2, CallsAssumption DEF SequentialInv
    <2>2. OpOf[c] \notin OpsIn(bundle)
      <3>1. SUFFICES ASSUME NEW d \in bundle, OpOf[d] = OpOf[c] PROVE FALSE
        BY DEF OpsIn
      <3>2. mempool[OpOf[d]] = d
        BY <3>1, ItemFacts DEF SequentialInv
      <3>. QED  BY <2>1, <3>1, <3>2
    <2>. QED  BY <1>1, <2>1, <2>2
  <1>3. \A c \in Calls : status'[c] \in {"pending", "included", "failed"} => history'[OpOf[c]] = c
    BY <1>1, ItemFacts DEF SequentialInv
  <1>. QED  BY <1>1, <1>2, <1>3 DEF SequentialInv

LEMMA SequentialNext ==
  ~ClientsMayOverlap => (TypeOK /\ BundlerInv /\ SequentialInv /\ [Next]_vars => SequentialInv')
  <1>. SUFFICES ASSUME ~ClientsMayOverlap, TypeOK, BundlerInv, SequentialInv, [Next]_vars
                PROVE  SequentialInv'
    OBVIOUS
  <1>1. ASSUME UNCHANGED <<pc, mempool, history, status>> PROVE SequentialInv'
    BY <1>1 DEF SequentialInv
  <1>2. ASSUME NEW c \in Calls, CallStep(c) PROVE SequentialInv'
    BY <1>2, CallKeepsSequential, AdmitKeepsSequential DEF CallStep
  <1>3. CASE Immediate \/ TimerTick \/ SubmitAccepted
    BY <1>1, <1>3 DEF Immediate, TimerTick, SubmitAccepted
  <1>4. CASE SubmitFailed \/ WaitFailed
    BY <1>4, SettleKeepsSequential DEF SubmitFailed, WaitFailed, FailBundle
  <1>5. CASE WaitIncluded
    BY <1>5, SettleKeepsSequential DEF WaitIncluded, MarkIncluded
  <1>6. CASE Mine
    BY <1>1, <1>6 DEF Mine, MineSuccess, MineRevert
  <1>7. CASE Crash
    BY <1>7, CallsAssumption DEF Crash, SequentialInv, InProgress, TypeOK
  <1>8. CASE UNCHANGED vars
    BY <1>1, <1>8 DEF vars
  <1>. QED  BY <1>2, <1>3, <1>4, <1>5, <1>6, <1>7, <1>8 DEF Next, BundleStep

LEMMA SequentialHolds ==
  ASSUME ~ClientsMayOverlap
  PROVE  Spec => []SequentialInv
  <1>1. Init => SequentialInv
    BY CallsAssumption DEF Init, SequentialInv, InProgress
  <1>2. TypeOK /\ BundlerInv /\ SequentialInv /\ [Next]_vars => SequentialInv'
    BY SequentialNext
  <1>. QED  BY <1>1, <1>2, TypeCorrect, InvCorrect, PTL DEF Spec

\* If no two calls for one operation overlap, whatever is reported as pending is in
\* the mempool: settlement deletes nobody else's entry (markIncluded, the catch of
\* bundleNow).  With overlapping calls it does; see the run bundler_overlap.
THEOREM PendingWaitsInQueue ==
  ASSUME ~ClientsMayOverlap
  PROVE  Spec => []PendingIsQueued
  <1>1. TypeOK /\ SequentialInv => PendingIsQueued
    <2>. SUFFICES ASSUME TypeOK, SequentialInv, NEW h \in Ops,
                         history[h] # NoItem, status[history[h]] = "pending"
                  PROVE  mempool[h] = history[h]
      BY DEF PendingIsQueued
    <2>1. history[h] \in Calls /\ OpOf[history[h]] = h
      BY DEF TypeOK, SequentialInv
    <2>. QED  BY <2>1 DEF SequentialInv
  <1>. QED  BY <1>1, TypeCorrect, SequentialHolds, PTL

\* If no two calls for one operation overlap, resubmitting it never makes a second
\* item, be the first queued, in flight, included or failed (sendUserOperation's
\* look at both Maps).
THEOREM NoSecondItem ==
  ASSUME ~ClientsMayOverlap
  PROVE  Spec => []OneItemPerOp
  <1>1. SequentialInv => OneItemPerOp
    BY DEF SequentialInv, OneItemPerOp
  <1>. QED  BY <1>1, SequentialHolds, PTL

----------------------------------------------------------------------------
(* Overlapping duplicates                                                  *)

IsLive(c) == status[c] \in {"pending", "included", "failed"}

HasDuplicate(c) == \E d \in Calls \ {c} : OpOf[d] = OpOf[c] /\ IsLive(d)

\* An item whose entry in a Map is gone or another's has lost it to a second item of
\* its operation: no other operation, bundle or failure takes it away (markIncluded and
\* the catch of bundleNow delete by hash).
LostOnlyToDuplicate ==
  \A c \in Calls :
    (\/ status[c] = "pending" /\ mempool[OpOf[c]] # c
     \/ IsLive(c) /\ history[OpOf[c]] # c)
    => HasDuplicate(c)

\* A new item may overwrite the entries of an older one, which then has a duplicate.
LEMMA AdmitLosesNone ==
  ASSUME TypeOK, LostOnlyToDuplicate, NEW c \in Calls, Admit(c)
  PROVE  LostOnlyToDuplicate'
  <1>. USE DEF TypeOK
  <1>. DEFINE h == OpOf[c]
  <1>1. h \in Ops /\ \A d \in Calls : OpOf[d] \in Ops
    BY CallsAssumption
  <1>2. /\ status' = [status EXCEPT ![c] = "pending"]
        /\ mempool' = [mempool EXCEPT ![h] = c]
        /\ history' = [history EXCEPT ![h] = c]
    BY DEF Admit
  <1>3. IsLive(c)' /\ \A d \in Calls : IsLive(d) => IsLive(d)'
    BY <1>2 DEF IsLive
  <1>4. \A d \in Calls : HasDuplicate(d) => HasDuplicate(d)'
    BY <1>3 DEF HasDuplicate
  <1>5. \A d \in Calls : d # c /\ OpOf[d] = h => HasDuplicate(d)'
    BY <1>3 DEF HasDuplicate
  <1>6. mempool'[h] = c /\ history'[h] = c
    BY <1>1, <1>2
  <1>7. ASSUME NEW d \in Calls, OpOf[d] # h
        PROVE  /\ status'[d] = status[d] /\ (IsLive(d)' => IsLive(d))
               /\ mempool'[OpOf[d]] = mempool[OpOf[d]] /\ history'[OpOf[d]] = history[OpOf[d]]
    BY <1>1, <1>2, <1>7 DEF IsLive
  <1>8. ASSUME NEW d \in Calls,
               \/ status'[d] = "pending" /\ mempool'[OpOf[d]] # d
               \/ IsLive(d)' /\ history'[OpOf[d]] # d
        PROVE  HasDuplicate(d)'
    <2>1. CASE OpOf[d] = h
      BY <1>5, <1>6, <1>8, <2>1
    <2>2. CASE OpOf[d] # h
      <3>1. HasDuplicate(d)
        BY <1>7, <1>8, <2>2 DEF LostOnlyToDuplicate
      <3>. QED  BY <1>4, <3>1
    <2>. QED  BY <2>1, <2>2
  <1>. QED  BY <1>8 DEF LostOnlyToDuplicate

\* Settling takes a pending item's entry only with an item of the same hash.
LEMMA SettleLosesNone ==
  ASSUME TypeOK, BundlerInv, LostOnlyToDuplicate, DropBundle, NEW st \in {"included", "failed"},
         status' = [c \in Calls |-> IF c \in bundle THEN st ELSE status[c]]
  PROVE  LostOnlyToDuplicate'
  <1>. USE DEF TypeOK
  <1>1. /\ mempool' = [h \in Ops |-> IF h \in OpsIn(bundle) THEN NoItem ELSE mempool[h]]
        /\ UNCHANGED history
    BY DEF DropBundle
  <1>2. /\ bundle \subseteq Calls
        /\ \A c \in bundle : IsLive(c) /\ IsLive(c)'
        /\ \A c \in Calls : IsLive(c)' <=> IsLive(c)
    BY ItemFacts DEF IsLive
  <1>3. \A c \in Calls : HasDuplicate(c) => HasDuplicate(c)'
    BY <1>2 DEF HasDuplicate
  <1>4. ASSUME NEW c \in Calls, status'[c] = "pending", mempool'[OpOf[c]] # c
        PROVE  HasDuplicate(c)'
    <2>1. c \notin bundle /\ status[c] = "pending" /\ OpOf[c] \in Ops
      BY <1>4, CallsAssumption
    <2>2. CASE mempool[OpOf[c]] # c
      BY <1>3, <2>1, <2>2 DEF LostOnlyToDuplicate
    <2>3. CASE mempool[OpOf[c]] = c
      <3>1. OpOf[c] \in OpsIn(bundle)
        BY <1>1, <1>4, <2>1, <2>3
      <3>2. PICK d \in bundle : OpOf[d] = OpOf[c]
        BY <3>1 DEF OpsIn
      <3>. QED  BY <1>2, <2>1, <3>2 DEF HasDuplicate
    <2>. QED  BY <2>2, <2>3
  <1>5. ASSUME NEW c \in Calls, IsLive(c)', history'[OpOf[c]] # c
        PROVE  HasDuplicate(c)'
    BY <1>1, <1>2, <1>3, <1>5 DEF LostOnlyToDuplicate
  <1>. QED  BY <1>4, <1>5 DEF LostOnlyToDuplicate

LEMMA LostNext == TypeOK /\ BundlerInv /\ LostOnlyToDuplicate /\ [Next]_vars => LostOnlyToDuplicate'
  <1>. SUFFICES ASSUME TypeOK, BundlerInv, LostOnlyToDuplicate, [Next]_vars
                PROVE  LostOnlyToDuplicate'
    OBVIOUS
  <1>1. ASSUME UNCHANGED <<mempool, history, status>> PROVE LostOnlyToDuplicate'
    BY <1>1 DEF LostOnlyToDuplicate, HasDuplicate, IsLive
  <1>2. ASSUME NEW c \in Calls, CallStep(c) PROVE LostOnlyToDuplicate'
    <2>1. CASE Admit(c)
      BY <2>1, AdmitLosesNone
    <2>2. CASE Submit(c) \/ HashResolved(c) \/ HashFailed(c) \/ NodeSimulates(c) \/ Refuse(c)
      BY <1>1, <2>2 DEF Submit, HashResolved, HashFailed, NodeSimulates, Refuse
    <2>. QED  BY <1>2, <2>1, <2>2 DEF CallStep
  <1>3. CASE Immediate \/ TimerTick \/ SubmitAccepted
    BY <1>1, <1>3 DEF Immediate, TimerTick, SubmitAccepted
  <1>4. CASE SubmitFailed \/ WaitFailed
    BY <1>4, SettleLosesNone DEF SubmitFailed, WaitFailed, FailBundle
  <1>5. CASE WaitIncluded
    BY <1>5, SettleLosesNone DEF WaitIncluded, MarkIncluded
  <1>6. CASE Mine
    BY <1>1, <1>6 DEF Mine, MineSuccess, MineRevert
  <1>7. CASE Crash
    <2>1. \A c \in Calls : ~IsLive(c)' /\ status'[c] # "pending"
      BY <1>7 DEF Crash, IsLive
    <2>. QED  BY <2>1 DEF LostOnlyToDuplicate
  <1>8. CASE UNCHANGED vars
    BY <1>1, <1>8 DEF vars
  <1>. QED  BY <1>2, <1>3, <1>4, <1>5, <1>6, <1>7, <1>8 DEF Next, BundleStep

\* Whether or not calls overlap, a live item that the mempool or history does not hold
\* has a second item of its operation beside it (sendUserOperation, bundleNow): what the
\* run bundler_overlap shows is the only way in which the bundler loses one.
THEOREM OnlyDuplicatesAreLost == Spec => []LostOnlyToDuplicate
  <1>1. Init => LostOnlyToDuplicate
    BY DEF Init, LostOnlyToDuplicate, IsLive
  <1>. QED  BY <1>1, LostNext, TypeCorrect, InvCorrect, PTL DEF Spec
=============================================================================
