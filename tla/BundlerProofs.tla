--------------------------- MODULE BundlerProofs ---------------------------
(***************************************************************************)
(* Proofs about Bundler: for every set of calls and operations, every      *)
(* bundle size and simulation mode, with overlapping clients, lost RPC     *)
(* answers and any number of restarts.                                     *)
(***************************************************************************)
EXTENDS Bundler, FiniteSetTheorems, SequenceTheorems, TLAPS

USE DEF callVars, poolVars, itemVars, workVars, chainVars

LEMMA OldestIsQueued ==
  ASSUME TypeOK, NEW n \in Nat
  PROVE  Oldest(n) \subseteq QueuedItems /\ QueuedItems \subseteq Calls
  BY DEF Oldest, QueuedItems, TypeOK

\* The transaction list: what a transaction is, what sending one appends, and
\* what mining one changes.
LEMMA TxFacts ==
  ASSUME TypeOK, NEW t \in 1..Len(txs), NEW st \in TxStatuses
  PROVE  /\ txs[t] \in Txs
         /\ [txs EXCEPT ![t].status = st] \in Seq(Txs)
         /\ Len([txs EXCEPT ![t].status = st]) = Len(txs)
         /\ \A u \in 1..Len(txs) :
              /\ [txs EXCEPT ![t].status = st][u].items = txs[u].items
              /\ [txs EXCEPT ![t].status = st][u].status = IF u = t THEN st ELSE txs[u].status
  <1>1. txs \in Seq(Txs)
    BY DEF TypeOK
  <1>2. txs[t] \in Txs
    BY <1>1, ElementOfSeq
  <1>3. [txs[t] EXCEPT !.status = st] \in Txs
    BY <1>2 DEF Txs
  <1>. DEFINE e == [txs[t] EXCEPT !.status = st]
  <1>4. [txs EXCEPT ![t].status = st] = [txs EXCEPT ![t] = e]
    OBVIOUS
  <1>5. e.items = txs[t].items /\ e.status = st
    BY <1>2 DEF Txs
  <1>6. /\ [txs EXCEPT ![t] = e] \in Seq(Txs)
        /\ Len([txs EXCEPT ![t] = e]) = Len(txs)
        /\ \A u \in 1..Len(txs) : [txs EXCEPT ![t] = e][u] = IF u = t THEN e ELSE txs[u]
    <2>. HIDE DEF e
    <2>. QED  BY <1>1, <1>3, ExceptSeq DEF e
  <1>. HIDE DEF e
  <1>. QED  BY <1>2, <1>4, <1>5, <1>6

LEMMA AppendFacts ==
  ASSUME TypeOK
  PROVE  /\ Append(txs, Pooled) \in Seq(Txs)
         /\ Len(Append(txs, Pooled)) = Len(txs) + 1
         /\ \A u \in 1..Len(txs) : Append(txs, Pooled)[u] = txs[u]
         /\ Append(txs, Pooled)[Len(txs) + 1] = [items |-> bundle, status |-> "pooled"]
         /\ Len(txs) \in Nat
  <1>1. Pooled \in Txs
    BY DEF TypeOK, Pooled, Txs, TxStatuses
  <1>2. txs \in Seq(Txs)
    BY DEF TypeOK
  <1>. QED  BY <1>1, <1>2, AppendProperties, LenProperties DEF Pooled

LEMMA NonceGrowth ==
  ASSUME NEW S \in SUBSET Calls, NEW s \in Senders
  PROVE  Cardinality({c \in S : Sender[OpOf[c]] = s}) \in Nat
  <1>1. {c \in S : Sender[OpOf[c]] = s} \subseteq Calls
    OBVIOUS
  <1>2. IsFiniteSet({c \in S : Sender[OpOf[c]] = s})
    BY <1>1, CallsAssumption, FS_Subset
  <1>. QED  BY <1>2, FS_CardinalityType

\* Type correctness: every variable keeps the type TypeOK gives it.
LEMMA TypeNext == TypeOK /\ [Next]_vars => TypeOK'
  <1>. SUFFICES ASSUME TypeOK, [Next]_vars PROVE TypeOK'
    OBVIOUS
  <1>. USE DEF TypeOK, PCs, InProgress, Verdicts, Statuses
  <1>b. ASSUME BundleNow
        PROVE  /\ bundling' \in BOOLEAN
               /\ phase' \in {"idle", "submitting", "waiting"}
               /\ bundle' \in SUBSET Calls
               /\ awaiting' \in Nat
    BY <1>b, OldestIsQueued, ConfigAssumption DEF BundleNow
  <1>d. ASSUME DropBundle
        PROVE  /\ mempool' \in [Ops -> Calls \cup {NoItem}]
               /\ bundling' \in BOOLEAN
               /\ phase' \in {"idle", "submitting", "waiting"}
               /\ bundle' \in SUBSET Calls
               /\ awaiting' \in Nat
               /\ UNCHANGED <<callVars, history, place, arrivals, kicks, crashes>>
    BY <1>d DEF DropBundle
  <1>a. Append(txs, Pooled) \in Seq(Txs) /\ Len(txs) \in Nat
    BY AppendFacts
  <1>1. ASSUME NEW c \in Calls, Submit(c) PROVE TypeOK'
    BY <1>1 DEF Submit
  <1>2. ASSUME NEW c \in Calls, HashResolved(c) PROVE TypeOK'
    BY <1>2 DEF HashResolved
  <1>3. ASSUME NEW c \in Calls, HashFailed(c) PROVE TypeOK'
    BY <1>3 DEF HashFailed
  <1>4. ASSUME NEW c \in Calls, NodeSimulates(c) PROVE TypeOK'
    BY <1>4 DEF NodeSimulates, SimulationAnswers
  <1>5. ASSUME NEW c \in Calls, Admit(c) PROVE TypeOK'
    <2>1. OpOf[c] \in Ops
      BY CallsAssumption
    <2>2. place' \in [Calls -> Nat] /\ arrivals' \in Nat
      BY <1>5, <2>1 DEF Admit
    <2>. QED  BY <1>5, <2>1, <2>2 DEF Admit
  <1>6. ASSUME NEW c \in Calls, Refuse(c) PROVE TypeOK'
    BY <1>6 DEF Refuse
  <1>7. CASE Immediate
    BY <1>7, <1>b DEF Immediate
  <1>8. CASE TimerTick
    BY <1>8, <1>b DEF TimerTick
  <1>9. CASE SubmitAccepted
    BY <1>9, <1>a DEF SubmitAccepted
  <1>10. CASE SubmitFailed
    BY <1>10, <1>a, <1>d DEF SubmitFailed, FailBundle
  <1>11. CASE WaitIncluded
    BY <1>11, <1>d DEF WaitIncluded, MarkIncluded
  <1>12. CASE WaitFailed
    BY <1>12, <1>d DEF WaitFailed, FailBundle
  <1>13. ASSUME NEW t \in 1..Len(txs), MineSuccess(t) PROVE TypeOK'
    <2>1. txs[t].items \in SUBSET Calls
      BY TxFacts DEF Txs, TxStatuses
    <2>2. txs' \in Seq(Txs)
      BY <1>13, TxFacts DEF MineSuccess, TxStatuses
    <2>3. chainNonce' \in [Senders -> Nat]
      <3>1. ASSUME NEW s \in Senders PROVE chainNonce'[s] \in Nat
        <4>1. Cardinality({c \in txs[t].items : Sender[OpOf[c]] = s}) \in Nat
          BY <2>1, NonceGrowth
        <4>. QED  BY <1>13, <4>1 DEF MineSuccess
      <3>. QED  BY <1>13, <3>1 DEF MineSuccess
    <2>. QED  BY <1>13, <2>2, <2>3 DEF MineSuccess
  <1>14. ASSUME NEW t \in 1..Len(txs), MineRevert(t) PROVE TypeOK'
    <2>1. txs' \in Seq(Txs)
      BY <1>14, TxFacts DEF MineRevert, TxStatuses
    <2>. QED  BY <1>14, <2>1 DEF MineRevert
  <1>15. CASE Crash
    <2>1. pc' \in [Calls -> PCs] /\ status' \in [Calls -> Statuses]
      BY <1>15 DEF Crash
    <2>2. /\ mempool' \in [Ops -> Calls \cup {NoItem}]
          /\ history' \in [Ops -> Calls \cup {NoItem}]
          /\ receipt' \in [Calls -> Nat]
      BY <1>15 DEF Crash
    <2>3. bundling' \in BOOLEAN /\ bundle' \in SUBSET Calls
      BY <1>15 DEF Crash
    <2>5. /\ phase' \in {"idle", "submitting", "waiting"}
          /\ awaiting' \in Nat
          /\ crashes' \in Nat
          /\ kicks' \in Nat
      BY <1>15 DEF Crash
    <2>4. UNCHANGED <<verdict, place, arrivals, txs, chainNonce>>
      BY <1>15 DEF Crash
    <2>. QED  BY <2>1, <2>2, <2>3, <2>4, <2>5
  <1>16. CASE UNCHANGED vars
    BY <1>16 DEF vars
  <1>. QED
    BY <1>1, <1>2, <1>3, <1>4, <1>5, <1>6, <1>7, <1>8, <1>9, <1>10, <1>11,
       <1>12, <1>13, <1>14, <1>15, <1>16 DEF Next, CallStep, BundleStep, Mine

\* Type correctness of every reachable state, restarts and lost answers
\* included.
THEOREM TypeCorrect == Spec => []TypeOK
  <1>1. ASSUME Init PROVE TypeOK
    <2>1. txs \in Seq(Txs)
      BY <1>1, EmptySeq DEF Init
    <2>2. bundling \in BOOLEAN /\ bundle \in SUBSET Calls
      BY <1>1 DEF Init
    <2>3. pc \in [Calls -> PCs] /\ verdict \in [Calls -> Verdicts]
      BY <1>1 DEF Init, PCs, Verdicts
    <2>. QED  BY <1>1, <2>1, <2>2, <2>3 DEF Init, TypeOK, Statuses
  <1>. QED  BY <1>1, TypeNext, PTL DEF Spec

----------------------------------------------------------------------------
(* One lemma per kind of step that the invariant has to survive            *)

\* Steps of a call before its admission leave every part alone.
LEMMA CallKeepsInv ==
  ASSUME TypeOK, BundlerInv, NEW c \in Calls,
         pc[c] \in InProgress \cup {"idle"},
         \E p \in PCs : pc' = [pc EXCEPT ![c] = p],
         UNCHANGED <<poolVars, itemVars, workVars, chainVars>>
  PROVE  BundlerInv'
  <1>1. status[c] = "none"
    BY DEF BundlerInv, EntryInv, InProgress, TypeOK
  <1>2. EntryInv'
    BY <1>1 DEF BundlerInv, EntryInv, TypeOK
  <1>3. WorkerInv' /\ SentInv' /\ OneTxPerItem' /\ IncludedIsExecuted'
    BY DEF BundlerInv, WorkerInv, SentInv, OneTxPerItem, IncludedIsExecuted
  <1>. QED  BY <1>2, <1>3 DEF BundlerInv

LEMMA AdmitKeepsInv ==
  ASSUME TypeOK, BundlerInv, NEW c \in Calls, Admit(c)
  PROVE  BundlerInv'
  <1>. USE DEF TypeOK
  <1>1. status[c] = "none"
    BY DEF BundlerInv, EntryInv, Admit
  <1>2. OpOf[c] \in Ops /\ c # NoItem
    BY CallsAssumption
  <1>3. /\ pc' = [pc EXCEPT ![c] = "answered"]
        /\ status' = [status EXCEPT ![c] = "pending"]
        /\ mempool' = [mempool EXCEPT ![OpOf[c]] = c]
        /\ history' = [history EXCEPT ![OpOf[c]] = c]
        /\ UNCHANGED <<receipt, bundling, phase, bundle, awaiting, txs>>
    BY DEF Admit
  <1>4. WorkerInv'
    BY <1>3 DEF BundlerInv, WorkerInv
  <1>5. EntryInv'
    <2>1. ASSUME NEW h \in Ops, mempool'[h] # NoItem
          PROVE  /\ OpOf[mempool'[h]] = h
                 /\ history'[h] = mempool'[h]
                 /\ status'[mempool'[h]] = "pending"
      <3>1. CASE h = OpOf[c]
        BY <1>2, <1>3, <3>1
      <3>2. CASE h # OpOf[c]
        BY <1>2, <1>3, <2>1, <3>2 DEF BundlerInv, EntryInv
      <3>. QED  BY <3>1, <3>2
    <2>2. \A d \in Calls : status'[d] # "none" => pc'[d] = "answered"
      BY <1>3 DEF BundlerInv, EntryInv
    <2>. QED  BY <2>1, <2>2 DEF EntryInv
  <1>6. SentInv'
    <2>1. c \notin bundle /\ \A t \in 1..Len(txs) : c \notin txs[t].items
      BY <1>1 DEF BundlerInv, SentInv
    <2>2. \A d \in bundle : status'[d] = "pending"
      BY <1>3 DEF BundlerInv, SentInv
    <2>3. \A t \in 1..Len(txs) : txs[t].items \subseteq Calls
      BY TxFacts DEF Txs, TxStatuses
    <2>4. ASSUME NEW t \in 1..Len(txs), NEW d \in txs[t].items
          PROVE  d # c /\ status'[d] = status[d]
      BY <1>3, <2>1, <2>3
    <2>. QED  BY <1>3, <2>2, <2>4 DEF BundlerInv, SentInv
  <1>7. OneTxPerItem'
    BY <1>3 DEF BundlerInv, OneTxPerItem
  <1>8. IncludedIsExecuted'
    BY <1>1, <1>3 DEF BundlerInv, IncludedIsExecuted
  <1>. QED  BY <1>4, <1>5, <1>6, <1>7, <1>8 DEF BundlerInv

LEMMA BundleNowKeepsInv ==
  ASSUME TypeOK, BundlerInv, BundleNow,
         UNCHANGED <<pc, mempool, history, itemVars, chainVars>>
  PROVE  BundlerInv'
  <1>. USE DEF TypeOK
  <1>1. CASE CanBundle
    <2>1. /\ ~bundling
          /\ bundling' = TRUE
          /\ phase' = "submitting"
          /\ bundle' = Oldest(MaxBundleSize)
          /\ awaiting' = awaiting
      BY <1>1 DEF BundleNow, CanBundle
    <2>2. bundle' \subseteq QueuedItems
      BY <2>1, ConfigAssumption, OldestIsQueued
    <2>3. \A c \in bundle' : status[c] = "pending"
      BY <2>2 DEF QueuedItems, BundlerInv, EntryInv
    <2>4. phase = "idle" /\ bundle = {}
      BY <2>1 DEF BundlerInv, WorkerInv
    <2>5. SentInv'
      BY <2>1, <2>3, <2>4 DEF BundlerInv, SentInv
    <2>6. WorkerInv'
      BY <2>1 DEF WorkerInv
    <2>7. EntryInv' /\ OneTxPerItem' /\ IncludedIsExecuted'
      BY DEF BundlerInv, EntryInv, OneTxPerItem, IncludedIsExecuted
    <2>. QED  BY <2>5, <2>6, <2>7 DEF BundlerInv
  <1>2. CASE ~CanBundle
    <2>1. UNCHANGED <<bundling, phase, bundle, awaiting>>
      BY <1>2 DEF BundleNow
    <2>. QED
      BY <2>1 DEF BundlerInv, WorkerInv, EntryInv, SentInv, OneTxPerItem,
                  IncludedIsExecuted
  <1>. QED  BY <1>1, <1>2

\* The transaction appended by submitDirect carries the bundle, none of whose
\* items any earlier transaction carries.
LEMMA SendKeepsTxs ==
  ASSUME TypeOK, BundlerInv, phase = "submitting", txs' = Append(txs, Pooled)
  PROVE  /\ OneTxPerItem'
         /\ Len(txs') = Len(txs) + 1
         /\ \A u \in 1..Len(txs) : txs'[u] = txs[u]
         /\ txs'[Len(txs) + 1].items = bundle
         /\ \A u \in 1..Len(txs) : txs[u].items \cap bundle = {}
  <1>1. /\ Len(txs') = Len(txs) + 1
        /\ \A u \in 1..Len(txs) : txs'[u] = txs[u]
        /\ txs'[Len(txs) + 1].items = bundle
        /\ Len(txs) \in Nat
    BY AppendFacts
  <1>2. \A u \in 1..Len(txs) : txs[u].items \cap bundle = {}
    BY DEF BundlerInv, SentInv
  <1>3. ASSUME NEW t \in 1..Len(txs'), NEW u \in 1..Len(txs'), t # u
        PROVE  txs'[t].items \cap txs'[u].items = {}
    <2>1. CASE t \in 1..Len(txs) /\ u \in 1..Len(txs)
      BY <1>1, <1>3, <2>1 DEF BundlerInv, OneTxPerItem
    <2>2. CASE t = Len(txs) + 1
      BY <1>1, <1>2, <1>3, <2>2
    <2>3. CASE u = Len(txs) + 1
      BY <1>1, <1>2, <1>3, <2>3
    <2>. QED  BY <1>1, <2>1, <2>2, <2>3
  <1>. QED  BY <1>1, <1>2, <1>3 DEF OneTxPerItem

LEMMA AcceptedKeepsInv ==
  ASSUME TypeOK, BundlerInv, SubmitAccepted
  PROVE  BundlerInv'
  <1>. USE DEF TypeOK
  <1>1. /\ phase = "submitting"
        /\ txs' = Append(txs, Pooled)
        /\ phase' = "waiting"
        /\ awaiting' = Len(txs) + 1
        /\ UNCHANGED <<pc, mempool, history, status, receipt, bundling, bundle>>
    BY DEF SubmitAccepted
  <1>2. /\ OneTxPerItem'
        /\ Len(txs') = Len(txs) + 1
        /\ \A u \in 1..Len(txs) : txs'[u] = txs[u]
        /\ txs'[Len(txs) + 1].items = bundle
        /\ Len(txs) \in Nat
    BY <1>1, SendKeepsTxs, AppendFacts
  <1>3. WorkerInv'
    BY <1>1, <1>2 DEF BundlerInv, WorkerInv
  <1>4. EntryInv'
    BY <1>1 DEF BundlerInv, EntryInv
  <1>5. SentInv'
    <2>1. \A c \in bundle' : status'[c] = "pending"
      BY <1>1 DEF BundlerInv, SentInv
    <2>2. ASSUME NEW t \in 1..Len(txs'), NEW c \in txs'[t].items
          PROVE  /\ status'[c] # "none"
                 /\ status'[c] = "pending" =>
                      phase' = "waiting" /\ awaiting' = t /\ c \in bundle'
      <3>1. CASE t = Len(txs) + 1
        BY <1>1, <1>2, <2>1, <2>2, <3>1
      <3>2. CASE t \in 1..Len(txs)
        BY <1>1, <1>2, <2>2, <3>2 DEF BundlerInv, SentInv
      <3>. QED  BY <1>2, <3>1, <3>2
    <2>. QED  BY <2>1, <2>2 DEF SentInv
  <1>6. IncludedIsExecuted'
    BY <1>1, <1>2 DEF BundlerInv, IncludedIsExecuted
  <1>. QED  BY <1>2, <1>3, <1>4, <1>5, <1>6 DEF BundlerInv

\* Settling the bundle, with whatever outcome, keeps the worker, the Maps and
\* the transactions already sent in order.
LEMMA SettleKeepsInv ==
  ASSUME TypeOK, BundlerInv, DropBundle, NEW st \in {"included", "failed"},
         status' = [c \in Calls |-> IF c \in bundle THEN st ELSE status[c]]
  PROVE  /\ WorkerInv'
         /\ EntryInv'
         /\ bundle' = {}
         /\ \A c \in bundle : status'[c] = st
         /\ \A t \in 1..Len(txs) : \A c \in txs[t].items :
              status'[c] # "none" /\ status'[c] # "pending"
  <1>. USE DEF TypeOK
  <1>1. /\ mempool' = [h \in Ops |-> IF h \in OpsIn(bundle) THEN NoItem ELSE mempool[h]]
        /\ bundling' = FALSE /\ phase' = "idle" /\ bundle' = {}
        /\ UNCHANGED <<pc, history>>
    BY DEF DropBundle
  <1>2. WorkerInv'
    BY <1>1 DEF WorkerInv
  <1>3. \A c \in Calls : c \in bundle => pc[c] = "answered"
    BY DEF BundlerInv, SentInv, EntryInv
  <1>4. EntryInv'
    <2>1. ASSUME NEW h \in Ops, mempool'[h] # NoItem
          PROVE  /\ OpOf[mempool'[h]] = h
                 /\ history'[h] = mempool'[h]
                 /\ status'[mempool'[h]] = "pending"
      <3>1. h \notin OpsIn(bundle) /\ mempool'[h] = mempool[h] /\ mempool[h] \in Calls
        BY <1>1, <2>1
      <3>2. OpOf[mempool[h]] = h /\ history[h] = mempool[h] /\ status[mempool[h]] = "pending"
        BY <2>1, <3>1 DEF BundlerInv, EntryInv
      <3>3. mempool[h] \notin bundle
        BY <3>1, <3>2 DEF OpsIn
      <3>. QED  BY <1>1, <3>1, <3>2, <3>3
    <2>2. \A c \in Calls : status'[c] # "none" => pc'[c] = "answered"
      BY <1>1, <1>3 DEF BundlerInv, EntryInv
    <2>. QED  BY <2>1, <2>2 DEF EntryInv
  <1>5. ASSUME NEW t \in 1..Len(txs), NEW c \in txs[t].items
        PROVE  status'[c] # "none" /\ status'[c] # "pending"
    <2>1. c \in Calls
      BY TxFacts DEF Txs, TxStatuses
    <2>2. status[c] # "none" /\ (status[c] = "pending" => c \in bundle)
      BY DEF BundlerInv, SentInv
    <2>. QED  BY <2>1, <2>2
  <1>. QED  BY <1>1, <1>2, <1>4, <1>5

LEMMA SubmitFailedKeepsInv ==
  ASSUME TypeOK, BundlerInv, SubmitFailed
  PROVE  BundlerInv'
  <1>. USE DEF TypeOK
  <1>1. /\ phase = "submitting"
        /\ status' = [c \in Calls |-> IF c \in bundle THEN "failed" ELSE status[c]]
        /\ receipt' = receipt
        /\ DropBundle
    BY DEF SubmitFailed, FailBundle
  <1>2. /\ WorkerInv' /\ EntryInv' /\ bundle' = {}
        /\ \A c \in bundle : status'[c] = "failed"
        /\ \A t \in 1..Len(txs) : \A c \in txs[t].items :
             status'[c] # "none" /\ status'[c] # "pending"
    BY <1>1, SettleKeepsInv
  <1>3. \A c \in Calls : status[c] = "included" <=> status'[c] = "included"
    BY <1>1 DEF BundlerInv, SentInv
  <1>4. CASE txs' = txs
    <2>1. SentInv' /\ OneTxPerItem'
      BY <1>2, <1>4 DEF BundlerInv, SentInv, OneTxPerItem
    <2>2. IncludedIsExecuted'
      BY <1>1, <1>3, <1>4 DEF BundlerInv, IncludedIsExecuted
    <2>. QED  BY <1>2, <2>1, <2>2 DEF BundlerInv
  <1>5. CASE txs' = Append(txs, Pooled)
    <2>1. /\ OneTxPerItem'
          /\ Len(txs') = Len(txs) + 1
          /\ \A u \in 1..Len(txs) : txs'[u] = txs[u]
          /\ txs'[Len(txs) + 1].items = bundle
          /\ Len(txs) \in Nat
      BY <1>1, <1>5, SendKeepsTxs, AppendFacts
    <2>2. ASSUME NEW t \in 1..Len(txs'), NEW c \in txs'[t].items
          PROVE  status'[c] # "none" /\ status'[c] # "pending"
      <3>1. CASE t = Len(txs) + 1
        BY <1>2, <2>1, <2>2, <3>1
      <3>2. CASE t \in 1..Len(txs)
        BY <1>2, <2>1, <2>2, <3>2
      <3>. QED  BY <2>1, <3>1, <3>2
    <2>3. SentInv'
      BY <1>2, <2>2 DEF SentInv
    <2>4. IncludedIsExecuted'
      BY <1>1, <1>3, <2>1 DEF BundlerInv, IncludedIsExecuted
    <2>. QED  BY <1>2, <2>1, <2>3, <2>4 DEF BundlerInv
  <1>. QED  BY <1>4, <1>5 DEF SubmitFailed

LEMMA WaitKeepsInv ==
  ASSUME TypeOK, BundlerInv, WaitIncluded \/ WaitFailed
  PROVE  BundlerInv'
  <1>. USE DEF TypeOK
  <1>0. phase = "waiting" /\ DropBundle /\ txs' = txs
    BY DEF WaitIncluded, WaitFailed, MarkIncluded, FailBundle
  <1>1. awaiting \in 1..Len(txs) /\ txs[awaiting].items = bundle
    BY <1>0 DEF BundlerInv, WorkerInv
  <1>2. CASE WaitIncluded
    <2>1. /\ status' = [c \in Calls |-> IF c \in bundle THEN "included" ELSE status[c]]
          /\ receipt' = [c \in Calls |-> IF c \in bundle THEN awaiting ELSE receipt[c]]
          /\ txs[awaiting].status = "success"
      BY <1>2 DEF WaitIncluded, MarkIncluded
    <2>2. /\ WorkerInv' /\ EntryInv' /\ bundle' = {}
          /\ \A t \in 1..Len(txs) : \A c \in txs[t].items :
               status'[c] # "none" /\ status'[c] # "pending"
      BY <1>0, <2>1, SettleKeepsInv
    <2>3. SentInv' /\ OneTxPerItem'
      BY <1>0, <2>2 DEF BundlerInv, SentInv, OneTxPerItem
    <2>4. IncludedIsExecuted'
      BY <1>0, <1>1, <2>1 DEF BundlerInv, IncludedIsExecuted
    <2>. QED  BY <2>2, <2>3, <2>4 DEF BundlerInv
  <1>3. CASE WaitFailed
    <2>1. /\ status' = [c \in Calls |-> IF c \in bundle THEN "failed" ELSE status[c]]
          /\ receipt' = receipt
      BY <1>3 DEF WaitFailed, FailBundle
    <2>2. /\ WorkerInv' /\ EntryInv' /\ bundle' = {}
          /\ \A t \in 1..Len(txs) : \A c \in txs[t].items :
               status'[c] # "none" /\ status'[c] # "pending"
      BY <1>0, <2>1, SettleKeepsInv
    <2>3. SentInv' /\ OneTxPerItem'
      BY <1>0, <2>2 DEF BundlerInv, SentInv, OneTxPerItem
    <2>4. \A c \in Calls : status[c] = "included" <=> status'[c] = "included"
      BY <2>1 DEF BundlerInv, SentInv
    <2>5. IncludedIsExecuted'
      BY <1>0, <2>1, <2>4 DEF BundlerInv, IncludedIsExecuted
    <2>. QED  BY <2>2, <2>3, <2>5 DEF BundlerInv
  <1>. QED  BY <1>2, <1>3

\* Mining changes the status of one pooled transaction and no item of any.
LEMMA MineKeepsInv ==
  ASSUME TypeOK, BundlerInv, NEW t \in 1..Len(txs), MineSuccess(t) \/ MineRevert(t)
  PROVE  BundlerInv'
  <1>. USE DEF TypeOK
  <1>1. PICK st \in TxStatuses : txs' = [txs EXCEPT ![t].status = st]
    BY DEF MineSuccess, MineRevert, TxStatuses
  <1>2. /\ Len(txs') = Len(txs)
        /\ \A u \in 1..Len(txs) :
             /\ txs'[u].items = txs[u].items
             /\ u # t => txs'[u].status = txs[u].status
    BY <1>1, TxFacts
  <1>3. txs[t].status = "pooled"
    BY DEF MineSuccess, MineRevert, IsNext
  <1>4. UNCHANGED <<pc, mempool, history, status, receipt, bundling, phase, bundle, awaiting>>
    BY DEF MineSuccess, MineRevert
  <1>5. WorkerInv' /\ EntryInv'
    BY <1>2, <1>4 DEF BundlerInv, WorkerInv, EntryInv
  <1>6. SentInv' /\ OneTxPerItem'
    BY <1>2, <1>4 DEF BundlerInv, SentInv, OneTxPerItem
  <1>7. IncludedIsExecuted'
    BY <1>2, <1>3, <1>4 DEF BundlerInv, IncludedIsExecuted
  <1>. QED  BY <1>5, <1>6, <1>7 DEF BundlerInv

\* A restart forgets every item: none is pending, and none is in a Map.
LEMMA CrashKeepsInv ==
  ASSUME TypeOK, BundlerInv, Crash
  PROVE  BundlerInv'
  <1>. USE DEF TypeOK
  <1>1. /\ pc' = [c \in Calls |-> IF pc[c] \in InProgress THEN "lost" ELSE pc[c]]
        /\ mempool' = [h \in Ops |-> NoItem]
        /\ status' = [c \in Calls |-> IF status[c] = "none" THEN "none" ELSE "forgotten"]
        /\ receipt' = [c \in Calls |-> 0]
        /\ bundling' = FALSE /\ phase' = "idle" /\ bundle' = {}
        /\ txs' = txs
    BY DEF Crash
  <1>2. WorkerInv'
    BY <1>1 DEF WorkerInv
  <1>3. EntryInv'
    BY <1>1 DEF BundlerInv, EntryInv, InProgress
  <1>4. SentInv'
    <2>1. ASSUME NEW t \in 1..Len(txs), NEW c \in txs[t].items
          PROVE  status'[c] = "forgotten"
      <3>1. c \in Calls
        BY TxFacts DEF Txs, TxStatuses
      <3>. QED  BY <1>1, <3>1 DEF BundlerInv, SentInv
    <2>. QED  BY <1>1, <2>1 DEF SentInv
  <1>5. OneTxPerItem' /\ IncludedIsExecuted'
    BY <1>1 DEF BundlerInv, OneTxPerItem, IncludedIsExecuted
  <1>. QED  BY <1>2, <1>3, <1>4, <1>5 DEF BundlerInv

----------------------------------------------------------------------------
(* The theorems                                                            *)

LEMMA BundlerInvNext == TypeOK /\ BundlerInv /\ [Next]_vars => BundlerInv'
  <1>. SUFFICES ASSUME TypeOK, BundlerInv, [Next]_vars PROVE BundlerInv'
    OBVIOUS
  <1>1. ASSUME NEW c \in Calls, CallStep(c) PROVE BundlerInv'
    <2>1. CASE Admit(c)
      BY <2>1, AdmitKeepsInv
    <2>2. CASE Submit(c) \/ HashResolved(c) \/ HashFailed(c) \/ NodeSimulates(c) \/ Refuse(c)
      <3>1. /\ pc[c] \in InProgress \cup {"idle"}
            /\ \E p \in PCs : pc' = [pc EXCEPT ![c] = p]
            /\ UNCHANGED <<poolVars, itemVars, workVars, chainVars>>
        BY <2>2 DEF Submit, HashResolved, HashFailed, NodeSimulates, Refuse, PCs, InProgress
      <3>. QED  BY <3>1, CallKeepsInv
    <2>. QED  BY <1>1, <2>1, <2>2 DEF CallStep
  <1>2. CASE Immediate \/ TimerTick
    BY <1>2, BundleNowKeepsInv DEF Immediate, TimerTick
  <1>3. CASE SubmitAccepted
    BY <1>3, AcceptedKeepsInv
  <1>4. CASE SubmitFailed
    BY <1>4, SubmitFailedKeepsInv
  <1>5. CASE WaitIncluded \/ WaitFailed
    BY <1>5, WaitKeepsInv
  <1>6. CASE Mine
    BY <1>6, MineKeepsInv DEF Mine
  <1>7. CASE Crash
    BY <1>7, CrashKeepsInv
  <1>8. CASE UNCHANGED vars
    BY <1>8 DEF vars, BundlerInv, WorkerInv, EntryInv, SentInv, OneTxPerItem,
                IncludedIsExecuted
  <1>. QED  BY <1>1, <1>2, <1>3, <1>4, <1>5, <1>6, <1>7, <1>8 DEF Next, BundleStep

\* The inductive invariant holds in every reachable state.
THEOREM InvCorrect == Spec => []BundlerInv
  <1>1. Init => BundlerInv
    BY EmptySeq DEF Init, BundlerInv, WorkerInv, EntryInv, SentInv, OneTxPerItem,
                    IncludedIsExecuted
  <1>. QED  BY <1>1, TypeCorrect, BundlerInvNext, PTL DEF Spec

\* No item is ever sent to the chain in two transactions, for any number of
\* calls, restarts and lost answers (bundleNow, submitDirect).
THEOREM EachItemSentOnce == Spec => []OneTxPerItem
  BY InvCorrect, PTL DEF BundlerInv

\* Whatever is reported as included was executed, by the transaction that its
\* receipt names (markIncluded).
THEOREM IncludedWasExecuted == Spec => []IncludedIsExecuted
  BY InvCorrect, PTL DEF BundlerInv

\* The mempool and the history agree, and nothing queued is on the chain but
\* the bundle in flight.
THEOREM QueueIsCurrent == Spec => []QueuedIsCurrent
  <1>1. TypeOK /\ BundlerInv => QueuedIsCurrent
    BY DEF BundlerInv, EntryInv, SentInv, QueuedIsCurrent
  <1>. QED  BY <1>1, TypeCorrect, InvCorrect, PTL

\* Until a restart, an outcome and its receipt never change again.
THEOREM OutcomeIsFinal == Spec => SettledIsFinal
  <1>. DEFINE Final ==
         \A c \in Calls :
           status[c] \in {"included", "failed"} /\ crashes' = crashes =>
             status'[c] = status[c] /\ receipt'[c] = receipt[c]
  <1>1. ASSUME TypeOK, BundlerInv, [Next]_vars PROVE Final
    <2>. SUFFICES ASSUME NEW c \in Calls, status[c] \in {"included", "failed"},
                         crashes' = crashes
                  PROVE  status'[c] = status[c] /\ receipt'[c] = receipt[c]
      OBVIOUS
    <2>. USE DEF TypeOK
    <2>1. c \notin bundle /\ pc[c] = "answered"
      BY <1>1 DEF BundlerInv, SentInv, EntryInv
    <2>2. ASSUME NEW d \in Calls, CallStep(d)
          PROVE  status'[c] = status[c] /\ receipt'[c] = receipt[c]
      BY <1>1, <2>1, <2>2 DEF CallStep, Submit, HashResolved, HashFailed, NodeSimulates, Admit, Refuse
    <2>3. CASE Immediate \/ TimerTick \/ SubmitAccepted
      BY <2>3 DEF Immediate, TimerTick, SubmitAccepted
    <2>4. CASE SubmitFailed \/ WaitFailed
      BY <1>1, <2>1, <2>4 DEF SubmitFailed, WaitFailed, FailBundle
    <2>5. CASE WaitIncluded
      BY <1>1, <2>1, <2>5 DEF WaitIncluded, MarkIncluded
    <2>6. CASE Mine
      BY <2>6 DEF Mine, MineSuccess, MineRevert
    <2>7. ~Crash
      BY <1>1 DEF Crash
    <2>8. CASE UNCHANGED vars
      BY <2>8 DEF vars
    <2>. QED  BY <1>1, <2>2, <2>3, <2>4, <2>5, <2>6, <2>7, <2>8 DEF Next, BundleStep
  <1>2. TypeOK /\ BundlerInv /\ [Next]_vars => [Final]_vars
    BY <1>1
  <1>. QED  BY <1>2, TypeCorrect, InvCorrect, PTL DEF Spec, SettledIsFinal

----------------------------------------------------------------------------
(* Refinement of UserOpLifecycle                                           *)

\* handleOps leaves every operation it executes behind its account's nonce.
LEMMA NonceInvNext ==
  ASSUME TypeOK, NonceInv, [Next]_vars
  PROVE  NonceInv'
  <1>. USE DEF TypeOK
  <1>1. ASSUME NEW t \in 1..Len(txs), MineSuccess(t) PROVE NonceInv'
    <2>. DEFINE S == txs[t].items
    <2>. DEFINE Own(s) == {c \in S : Sender[OpOf[c]] = s}
    <2>1. /\ Len(txs') = Len(txs)
          /\ \A u \in 1..Len(txs) :
               /\ txs'[u].items = txs[u].items
               /\ u # t => txs'[u].status = txs[u].status
      BY <1>1, TxFacts DEF MineSuccess, TxStatuses
    <2>2. \A u \in 1..Len(txs) : txs[u].items \in SUBSET Calls
      BY TxFacts DEF Txs, TxStatuses
    <2>3. \A s \in Senders :
            /\ Cardinality(Own(s)) \in Nat
            /\ chainNonce'[s] = chainNonce[s] + Cardinality(Own(s))
      <3>1. \A s \in Senders : Cardinality(Own(s)) \in Nat
        BY <2>2, NonceGrowth
      <3>2. \A s \in Senders : chainNonce'[s] = chainNonce[s] + Cardinality(Own(s))
        BY <1>1 DEF MineSuccess
      <3>. QED  BY <3>1, <3>2
    <2>4. ASSUME NEW c \in S
          PROVE  Nonce[OpOf[c]] < chainNonce'[Sender[OpOf[c]]]
      <3>. DEFINE s == Sender[OpOf[c]]
      <3>1. c \in Calls /\ OpOf[c] \in Ops /\ s \in Senders
        BY <2>2, CallsAssumption, OpsAssumption
      <3>2. Nonce[OpOf[c]] = chainNonce[s] + Cardinality(Before(c, S))
        BY <1>1 DEF MineSuccess, BundleValid
      <3>3. Before(c, S) \subseteq Own(s) /\ c \in Own(s) /\ c \notin Before(c, S)
        <4>1. place[c] \in Nat
          BY <3>1
        <4>. QED  BY <4>1 DEF Before
      <3>4. IsFiniteSet(Own(s))
        <4>1. Own(s) \subseteq Calls
          BY <2>2
        <4>. QED  BY <4>1, CallsAssumption, FS_Subset
      <3>5. Cardinality(Before(c, S)) < Cardinality(Own(s))
        <4>1. /\ IsFiniteSet(Before(c, S))
              /\ Cardinality(Before(c, S)) <= Cardinality(Own(s))
              /\ Cardinality(Own(s)) = Cardinality(Before(c, S)) => Own(s) = Before(c, S)
          BY <3>3, <3>4, FS_Subset
        <4>2. Cardinality(Before(c, S)) \in Nat /\ Cardinality(Own(s)) \in Nat
          BY <3>4, <4>1, FS_CardinalityType
        <4>3. Cardinality(Own(s)) # Cardinality(Before(c, S))
          BY <3>3, <4>1
        <4>. HIDE DEF Own, S
        <4>. QED  BY <4>1, <4>2, <4>3
      <3>6. Cardinality(Before(c, S)) \in Nat
        BY <3>3, <3>4, FS_Subset, FS_CardinalityType
      <3>7. chainNonce[s] \in Nat
        BY <3>1
      <3>8. chainNonce'[s] = chainNonce[s] + Cardinality(Own(s)) /\ Cardinality(Own(s)) \in Nat
        BY <2>3, <3>1
      <3>. HIDE DEF Own, S, s
      <3>. QED  BY <3>2, <3>5, <3>6, <3>7, <3>8 DEF s
    <2>5. ASSUME NEW u \in 1..Len(txs), u # t, txs[u].status = "success", NEW c \in txs[u].items
          PROVE  Nonce[OpOf[c]] < chainNonce'[Sender[OpOf[c]]]
      <3>. DEFINE s == Sender[OpOf[c]]
      <3>1. c \in Calls /\ OpOf[c] \in Ops /\ s \in Senders
        BY <2>2, CallsAssumption, OpsAssumption
      <3>2. Nonce[OpOf[c]] < chainNonce[s]
        BY <2>5 DEF NonceInv
      <3>3. /\ Nonce[OpOf[c]] \in Nat /\ chainNonce[s] \in Nat
            /\ Cardinality(Own(s)) \in Nat
            /\ chainNonce'[s] = chainNonce[s] + Cardinality(Own(s))
        BY <2>3, <3>1, OpsAssumption
      <3>. HIDE DEF Own, s
      <3>. QED  BY <3>2, <3>3 DEF s
    <2>. QED  BY <2>1, <2>4, <2>5 DEF NonceInv
  <1>2. ASSUME NEW t \in 1..Len(txs), MineRevert(t) PROVE NonceInv'
    <2>1. /\ Len(txs') = Len(txs)
          /\ txs'[t].status = "reverted"
          /\ \A u \in 1..Len(txs) :
               /\ txs'[u].items = txs[u].items
               /\ u # t => txs'[u].status = txs[u].status
          /\ chainNonce' = chainNonce
      BY <1>2, TxFacts DEF MineRevert, TxStatuses
    <2>. QED  BY <2>1 DEF NonceInv
  <1>3. ASSUME txs' = Append(txs, Pooled), chainNonce' = chainNonce PROVE NonceInv'
    <2>1. /\ Len(txs') = Len(txs) + 1
          /\ Len(txs) \in Nat
          /\ \A u \in 1..Len(txs) : txs'[u] = txs[u]
          /\ txs'[Len(txs) + 1].status = "pooled"
      BY <1>3, AppendFacts
    <2>. QED  BY <1>3, <2>1 DEF NonceInv
  <1>4. ASSUME txs' = txs, chainNonce' = chainNonce PROVE NonceInv'
    BY <1>4 DEF NonceInv
  <1>5. CASE Mine
    BY <1>1, <1>2, <1>5 DEF Mine
  <1>6. CASE SubmitAccepted \/ SubmitFailed
    BY <1>3, <1>4, <1>6 DEF SubmitAccepted, SubmitFailed
  <1>7. ASSUME NEW c \in Calls, CallStep(c) PROVE NonceInv'
    BY <1>4, <1>7 DEF CallStep, Submit, HashResolved, HashFailed, NodeSimulates, Admit, Refuse
  <1>8. CASE Immediate \/ TimerTick \/ WaitIncluded \/ WaitFailed \/ Crash
    BY <1>4, <1>8 DEF Immediate, TimerTick, WaitIncluded, WaitFailed, Crash
  <1>9. CASE UNCHANGED vars
    BY <1>4, <1>9 DEF vars
  <1>. QED  BY <1>5, <1>6, <1>7, <1>8, <1>9 DEF Next, BundleStep

THEOREM NoncesAreBehind == Spec => []NonceInv
  <1>1. Init => NonceInv
    BY EmptySeq DEF Init, NonceInv
  <1>. QED  BY <1>1, TypeCorrect, NonceInvNext, PTL DEF Spec

ExecutedOps == {h \in Ops : Executed(h)}

\* Steps that neither mine a transaction nor touch an old one execute nothing.
LEMMA NothingExecuted ==
  ASSUME TypeOK, txs' = txs \/ txs' = Append(txs, Pooled)
  PROVE  ExecutedOps' = ExecutedOps
  <1>1. CASE txs' = txs
    BY <1>1 DEF ExecutedOps, Executed
  <1>2. CASE txs' = Append(txs, Pooled)
    <2>1. /\ Len(txs') = Len(txs) + 1
          /\ Len(txs) \in Nat
          /\ \A u \in 1..Len(txs) : txs'[u] = txs[u]
          /\ txs'[Len(txs) + 1].status = "pooled"
      BY <1>2, AppendFacts
    <2>2. \A h \in Ops : Executed(h)' <=> Executed(h)
      BY <2>1 DEF Executed
    <2>. QED  BY <2>2 DEF ExecutedOps
  <1>. QED  BY <1>1, <1>2

\* A mined bundle executes its own operations, none of them for a second time.
LEMMA MiningExecutes ==
  ASSUME TypeOK, BundlerInv, NonceInv, NEW t \in 1..Len(txs), MineSuccess(t)
  PROVE  /\ txs[t].items \subseteq Calls
         /\ \A c \in txs[t].items : status[c] # "none" /\ OpOf[c] \notin ExecutedOps
         /\ ExecutedOps' = ExecutedOps \cup {OpOf[c] : c \in txs[t].items}
  <1>. DEFINE S == txs[t].items
  <1>1. /\ Len(txs') = Len(txs)
        /\ txs'[t].status = "success"
        /\ \A u \in 1..Len(txs) :
             /\ txs'[u].items = txs[u].items
             /\ u # t => txs'[u].status = txs[u].status
    BY TxFacts DEF MineSuccess, TxStatuses
  <1>2. txs[t].status = "pooled"
    BY DEF MineSuccess, IsNext
  <1>3. \A u \in 1..Len(txs) : txs[u].items \subseteq Calls
    BY TxFacts DEF Txs, TxStatuses
  <1>4. \A c \in S : status[c] # "none"
    BY DEF BundlerInv, SentInv
  <1>5. ASSUME NEW c \in S PROVE OpOf[c] \notin ExecutedOps
    <2>1. c \in Calls /\ OpOf[c] \in Ops /\ Sender[OpOf[c]] \in Senders
      BY <1>3, CallsAssumption, OpsAssumption
    <2>2. Before(c, S) \subseteq Calls
      BY <1>3 DEF Before
    <2>3. Cardinality(Before(c, S)) \in Nat
      BY <2>2, CallsAssumption, FS_Subset, FS_CardinalityType
    <2>4. Nonce[OpOf[c]] = chainNonce[Sender[OpOf[c]]] + Cardinality(Before(c, S))
      BY DEF MineSuccess, BundleValid
    <2>5. ~(Nonce[OpOf[c]] < chainNonce[Sender[OpOf[c]]])
      BY <2>1, <2>3, <2>4 DEF TypeOK
    <2>6. SUFFICES ASSUME Executed(OpOf[c]) PROVE FALSE
      BY DEF ExecutedOps
    <2>7. PICK u \in 1..Len(txs) : txs[u].status = "success" /\ OpOf[c] \in OpsIn(txs[u].items)
      BY <2>6 DEF Executed
    <2>8. PICK d \in txs[u].items : OpOf[d] = OpOf[c]
      BY <2>7 DEF OpsIn
    <2>. QED  BY <2>5, <2>7, <2>8 DEF NonceInv
  <1>6. \A h \in Ops : Executed(h)' <=> Executed(h) \/ h \in OpsIn(S)
    BY <1>1, <1>2 DEF Executed
  <1>7. OpsIn(S) \subseteq Ops
    BY <1>3, CallsAssumption DEF OpsIn
  <1>8. ExecutedOps' = ExecutedOps \cup OpsIn(S)
    BY <1>6, <1>7 DEF ExecutedOps
  <1>. QED  BY <1>3, <1>4, <1>5, <1>8 DEF OpsIn

\* Every step of the bundler and the chain is a step UserOpLifecycle allows,
\* or one it does not see.
LEMMA LifecycleNext ==
  ASSUME TypeOK, BundlerInv, NonceInv, [Next]_vars
  PROVE  [Lifecycle!Next]_(Lifecycle!lifecycleVars)
  <1>. USE DEF Lifecycle!lifecycleVars
  <1>0. Lifecycle!lifecycleVars = <<status, ExecutedOps>>
    BY DEF ExecutedOps
  <1>1. ASSUME status' = status, ExecutedOps' = ExecutedOps
        PROVE  UNCHANGED Lifecycle!lifecycleVars
    BY <1>1 DEF ExecutedOps
  <1>2. ASSUME NEW c \in Calls, Admit(c) PROVE Lifecycle!Next
    <2>1. status[c] = "none" /\ status' = [status EXCEPT ![c] = "pending"] /\ txs' = txs
      BY <1>2 DEF Admit, BundlerInv, EntryInv
    <2>2. ExecutedOps' = ExecutedOps
      BY <2>1, NothingExecuted
    <2>3. Lifecycle!Accept(c)
      BY <2>1, <2>2 DEF Lifecycle!Accept, ExecutedOps
    <2>. QED  BY <2>3 DEF Lifecycle!Next
  <1>3. ASSUME NEW t \in 1..Len(txs), MineSuccess(t) PROVE Lifecycle!Next
    <2>. DEFINE S == txs[t].items
    <2>1. /\ S \in SUBSET {c \in Calls : status[c] # "none"}
          /\ \A c \in S : OpOf[c] \notin ExecutedOps
          /\ ExecutedOps' = ExecutedOps \cup {OpOf[c] : c \in S}
      BY <1>3, MiningExecutes
    <2>2. status' = status
      BY <1>3 DEF MineSuccess
    <2>3. Lifecycle!Execute
      <3>. HIDE DEF S
      <3>. QED  BY <2>1, <2>2 DEF Lifecycle!Execute, ExecutedOps
    <2>. QED  BY <2>3 DEF Lifecycle!Next
  <1>4. ASSUME NEW st \in {"included", "failed"},
               status' = [c \in Calls |-> IF c \in bundle THEN st ELSE status[c]],
               st = "included" => \A c \in bundle : OpOf[c] \in ExecutedOps,
               ExecutedOps' = ExecutedOps
        PROVE  Lifecycle!Next
    <2>1. bundle \in SUBSET {c \in Calls : status[c] = "pending"}
      BY DEF TypeOK, BundlerInv, SentInv
    <2>2. Lifecycle!Settle
      BY <1>4, <2>1 DEF Lifecycle!Settle, ExecutedOps
    <2>. QED  BY <2>2 DEF Lifecycle!Next
  <1>5. CASE SubmitFailed \/ WaitFailed
    <2>1. /\ status' = [c \in Calls |-> IF c \in bundle THEN "failed" ELSE status[c]]
          /\ txs' = txs \/ txs' = Append(txs, Pooled)
      BY <1>5 DEF SubmitFailed, WaitFailed, FailBundle
    <2>2. ExecutedOps' = ExecutedOps
      BY <2>1, NothingExecuted
    <2>. QED  BY <1>4, <2>1, <2>2
  <1>6. CASE WaitIncluded
    <2>1. /\ status' = [c \in Calls |-> IF c \in bundle THEN "included" ELSE status[c]]
          /\ txs' = txs
          /\ phase = "waiting" /\ txs[awaiting].status = "success"
      BY <1>6 DEF WaitIncluded, MarkIncluded
    <2>2. ExecutedOps' = ExecutedOps
      BY <2>1, NothingExecuted
    <2>3. awaiting \in 1..Len(txs) /\ txs[awaiting].items = bundle
      BY <2>1 DEF BundlerInv, WorkerInv
    <2>4. ASSUME NEW c \in bundle PROVE OpOf[c] \in ExecutedOps
      <3>1. OpOf[c] \in Ops
        BY CallsAssumption DEF TypeOK
      <3>2. Executed(OpOf[c])
        BY <2>1, <2>3 DEF Executed, OpsIn
      <3>. QED  BY <3>1, <3>2 DEF ExecutedOps
    <2>. QED  BY <1>4, <2>1, <2>2, <2>4
  <1>7. CASE Crash
    <2>1. /\ status' = [c \in Calls |-> IF status[c] = "none" THEN "none" ELSE "forgotten"]
          /\ txs' = txs
      BY <1>7 DEF Crash
    <2>2. ExecutedOps' = ExecutedOps
      BY <2>1, NothingExecuted
    <2>3. Lifecycle!Forget
      BY <2>1, <2>2 DEF Lifecycle!Forget, ExecutedOps
    <2>. QED  BY <2>3 DEF Lifecycle!Next
  <1>8. ASSUME NEW t \in 1..Len(txs), MineRevert(t) PROVE UNCHANGED Lifecycle!lifecycleVars
    <2>1. /\ Len(txs') = Len(txs)
          /\ txs'[t].status = "reverted" /\ txs[t].status = "pooled"
          /\ \A u \in 1..Len(txs) :
               /\ txs'[u].items = txs[u].items
               /\ u # t => txs'[u].status = txs[u].status
          /\ status' = status
      BY <1>8, TxFacts DEF MineRevert, IsNext, TxStatuses
    <2>2. \A h \in Ops : Executed(h)' <=> Executed(h)
      BY <2>1 DEF Executed
    <2>. QED  BY <1>1, <2>1, <2>2 DEF ExecutedOps
  <1>9. ASSUME NEW c \in Calls,
               Submit(c) \/ HashResolved(c) \/ HashFailed(c) \/ NodeSimulates(c) \/ Refuse(c)
        PROVE  UNCHANGED Lifecycle!lifecycleVars
    <2>1. status' = status /\ txs' = txs
      BY <1>9 DEF Submit, HashResolved, HashFailed, NodeSimulates, Refuse
    <2>. QED  BY <1>1, <2>1, NothingExecuted
  <1>10. CASE Immediate \/ TimerTick \/ SubmitAccepted \/ UNCHANGED vars
    <2>1. status' = status /\ (txs' = txs \/ txs' = Append(txs, Pooled))
      BY <1>10 DEF Immediate, TimerTick, SubmitAccepted, vars
    <2>. QED  BY <1>1, <2>1, NothingExecuted
  <1>. QED
    BY <1>2, <1>3, <1>5, <1>6, <1>7, <1>8, <1>9, <1>10
       DEF Next, CallStep, BundleStep, Mine

\* The bundler keeps the promise of UserOpLifecycle: outcomes are final until a
\* restart, what it calls included was executed, and no operation is executed
\* twice, with duplicates, lost answers and restarts (class LnetBundler).
THEOREM ImplementsLifecycle == Spec => LifecycleSpec
  <1>1. Init => Lifecycle!Init
    <2>1. Init => status = [c \in Calls |-> "none"] /\ Len(txs) = 0
      BY EmptySeq DEF Init
    <2>2. Len(txs) = 0 => {h \in Ops : Executed(h)} = {}
      BY DEF Executed
    <2>. QED  BY <2>1, <2>2 DEF Lifecycle!Init
  <1>. QED
    BY <1>1, LifecycleNext, TypeCorrect, InvCorrect, NoncesAreBehind, PTL
       DEF Spec, LifecycleSpec, Lifecycle!Spec
=============================================================================
