------------------------------ MODULE SendFlow ------------------------------
(***************************************************************************)
(* One write as the page carries it out (examples/privy-google-aa/src):    *)
(* sendUserOp and performSend of App.tsx with inspectTarget,               *)
(* sendExecuteUserOp and waitForUserOpReceipt of userOp.ts.  The target is *)
(* inspected, the user is asked when it does not look like Storage, the    *)
(* operation is signed and posted, and its receipt is polled for.  All the *)
(* while the address input can be edited and the login can end.            *)
(*                                                                         *)
(* The bundler is the one UserOpLifecycle promises.  Each send makes an    *)
(* operation of a new account (randomSalt), so operations are sends.  The  *)
(* session under which it is posted is SessionClient's.                    *)
(***************************************************************************)
EXTENDS Integers

CONSTANTS
  Sends,      \* presses of "Sign with Google wallet and send UserOp"
  Addresses,  \* what the input may hold
  Kind,       \* what stands at an address once it has code, see Kinds
  Deployed0,  \* addresses that have code from the start
  Allowed,    \* ALLOWED_CALL_TARGETS of the proxy's policy
  None,       \* no send, no address
  MaxPolls    \* how often waitForUserOpReceipt asks

\* Storage; a contract that answers value() but reverts set; one that does neither
\* and reverts; one whose fallback swallows every call; text that is no address.
Kinds == {"storage", "readonly", "lacking", "swallowing", "text"}

ASSUME SendsAssumption ==
  /\ Kind \in [Addresses -> Kinds]
  /\ Deployed0 \subseteq Addresses /\ Allowed \subseteq Addresses
  /\ \A a \in Deployed0 : Kind[a] # "text"
  /\ None \notin Sends \cup Addresses
  /\ MaxPolls \in Nat \ {0}

VARIABLES
  address,   \* storageAddress, the input
  wallet,    \* is there an embedded wallet
  said,      \* status: running, or what the last send ended in
  confirm,   \* confirmSend: the dialog is open
  current,   \* the send that the page is busy with, or was last
  pc,        \* where it stands
  polls,     \* the loop counter of waitForUserOpReceipt
  inspected, \* what each send inspected
  target,    \* what it calls
  warned,    \* sends that were sent anyway
  carried,   \* posts that have not reached the bundler
  code,      \* addresses with code
  effect,    \* what each operation did when the chain executed it
  outcome,   \* the bundler's items, see UserOpLifecycle
  executed   \* operations the chain executed

Service == INSTANCE UserOpLifecycle
  WITH Items <- Sends, Ops <- Sends, OpOf <- [s \in Sends |-> s]

formVars == <<address, wallet>>
pageVars == <<said, confirm, pc, polls>>
sendVars == <<current, inspected, target, warned>>
serviceVars == <<outcome, executed>>
chainVars == <<code, effect>>
vars == <<formVars, pageVars, sendVars, carried, chainVars, serviceVars>>

Busy == said = "running"

TypeOK ==
  /\ address \in Addresses /\ wallet \in BOOLEAN /\ confirm \in BOOLEAN
  /\ said \in {"ready", "running", "failed", "noCode", "reverted", "executed"}
  /\ current \in Sends \cup {None}
  /\ pc \in {"none", "inspecting", "reading", "signing", "posting", "polling"}
  /\ polls \in 0..(MaxPolls - 1)
  /\ inspected \in [Sends -> Addresses \cup {None}]
  /\ target \in [Sends -> Addresses \cup {None}]
  /\ warned \subseteq Sends /\ carried \subseteq Sends
  /\ code \subseteq {a \in Addresses : Kind[a] # "text"}
  /\ effect \in [Sends -> {"none", "stored", "nothing", "reverted"}]
  /\ outcome \in [Sends -> {"none", "pending", "included", "failed", "forgotten"}]
  /\ executed \subseteq Sends
  \* A send that is under way, or waits for the dialog, keeps the button disabled.
  /\ pc # "none" \/ confirm => Busy /\ current # None
  /\ pc # "none" => ~confirm

Init ==
  /\ address \in Addresses /\ wallet = FALSE
  /\ said = "ready" /\ confirm = FALSE /\ pc = "none"
  /\ current = None /\ polls = 0
  /\ inspected = [s \in Sends |-> None] /\ target = [s \in Sends |-> None]
  /\ warned = {} /\ carried = {}
  /\ code = Deployed0 /\ effect = [s \in Sends |-> "none"]
  /\ Service!Init

----------------------------------------------------------------------------
(* The user and the login                                                  *)

\* The input is never disabled.
Edit(a) ==
  /\ address' = a
  /\ UNCHANGED <<wallet, pageVars, sendVars, carried, chainVars, serviceVars>>

\* loginWithGoogle to its end; its button is disabled while the page is busy.
Login ==
  /\ ~wallet /\ ~Busy
  /\ \/ wallet' = TRUE /\ said' = "ready"
     \/ UNCHANGED wallet /\ said' = "failed"
  /\ UNCHANGED <<address, confirm, pc, polls, sendVars, carried, chainVars, serviceVars>>

\* A logout, or Privy's session ends.
LoginEnds ==
  /\ wallet /\ wallet' = FALSE
  /\ UNCHANGED <<address, pageVars, sendVars, carried, chainVars, serviceVars>>

----------------------------------------------------------------------------
(* sendUserOp                                                              *)

\* The send under way ends with a message.
Say(what) == said' = what /\ pc' = "none" /\ polls' = 0

\* Up to the first await of inspectTarget; a text that is no address ends it here.
\* The function, and the performSend it calls, see the address of this moment.
Click(s) ==
  /\ ~Busy /\ wallet /\ inspected[s] = None
  /\ IF Kind[address] = "text" THEN Say("failed")
     ELSE said' = "running" /\ pc' = "inspecting" /\ UNCHANGED polls
  /\ current' = s
  /\ inspected' = [inspected EXCEPT ![s] = address]
  /\ target' = [target EXCEPT ![s] = address]
  /\ UNCHANGED <<formVars, confirm, warned, carried, chainVars, serviceVars>>

\* Fault: code is not asked for.
CodeUnread ==
  /\ pc = "inspecting"
  /\ pc' = "reading"
  /\ UNCHANGED <<formVars, said, confirm, polls, sendVars, carried, chainVars, serviceVars>>

\* getCode is answered, or fails.
CodeRead ==
  /\ pc = "inspecting"
  /\ \/ inspected[current] \in code /\ pc' = "reading" /\ UNCHANGED <<said, polls>>
     \/ inspected[current] \notin code /\ Say("noCode")
     \/ Say("failed")
  /\ UNCHANGED <<formVars, confirm, sendVars, carried, chainVars, serviceVars>>

Readable(a) == a \in code /\ Kind[a] \in {"storage", "readonly"}

\* Fault: the dialog opens and the send goes on.
ValueReadAnyway ==
  /\ pc = "reading"
  /\ confirm' = ~Readable(inspected[current]) /\ pc' = "signing"
  /\ UNCHANGED <<formVars, said, polls, sendVars, carried, chainVars, serviceVars>>

\* value() is answered and performSend begins; or it is not, for whatever reason,
\* and the user is asked.
ValueRead ==
  /\ pc = "reading"
  /\ \/ Readable(inspected[current]) /\ pc' = "signing" /\ UNCHANGED confirm
     \/ confirm' = TRUE /\ pc' = "none"
  /\ UNCHANGED <<formVars, said, polls, sendVars, carried, chainVars, serviceVars>>

\* Fault: cancelling leaves the status as it is.
CancelKeepsStatus ==
  /\ confirm /\ confirm' = FALSE
  /\ UNCHANGED <<formVars, said, pc, polls, sendVars, carried, chainVars, serviceVars>>

CancelSend ==
  /\ confirm /\ confirm' = FALSE
  /\ said' = "ready"
  /\ UNCHANGED <<formVars, pc, polls, sendVars, carried, chainVars, serviceVars>>

\* "Send anyway": the performSend of the latest rendering, with the address that is
\* shown by then.  Without a wallet it returns and leaves the status.
SendAnyway ==
  /\ confirm /\ confirm' = FALSE
  /\ IF wallet
     THEN /\ pc' = "signing"
          /\ target' = [target EXCEPT ![current] = address]
          /\ warned' = warned \cup {current}
     ELSE UNCHANGED <<pc, target, warned>>
  /\ UNCHANGED <<formVars, said, polls, current, inspected, carried, chainVars, serviceVars>>

----------------------------------------------------------------------------
(* performSend and sendExecuteUserOp                                       *)

\* Fault: the address is read when it is signed.
SignLatest ==
  /\ pc = "signing" /\ wallet /\ Kind[address] # "text"
  /\ target' = [target EXCEPT ![current] = address]
  /\ pc' = "posting" /\ carried' = carried \cup {current}
  /\ UNCHANGED <<formVars, said, confirm, current, polls, inspected, warned, chainVars, serviceVars>>

\* The wallet signs and the operation is posted.
Sign ==
  /\ pc = "signing" /\ wallet /\ Kind[target[current]] # "text"
  /\ pc' = "posting" /\ carried' = carried \cup {current}
  /\ UNCHANGED <<formVars, said, confirm, polls, sendVars, chainVars, serviceVars>>

\* It may refuse, and the reads before it may fail.
SignFails ==
  /\ pc = "signing" /\ Say("failed")
  /\ UNCHANGED <<formVars, confirm, sendVars, carried, chainVars, serviceVars>>

\* The bundler's hash arrives.
HashArrives ==
  /\ pc = "posting" /\ current \notin carried /\ outcome[current] # "none"
  /\ pc' = "polling"
  /\ UNCHANGED <<formVars, said, confirm, polls, sendVars, carried, chainVars, serviceVars>>

\* A refusal, or no answer: the operation may be accepted all the same.
PostFails ==
  /\ pc = "posting" /\ Say("failed")
  /\ UNCHANGED <<formVars, confirm, sendVars, carried, chainVars, serviceVars>>

\* Fault: a receipt is taken to mean that the call succeeded.
ReceiptTrusted ==
  /\ pc = "polling" /\ outcome[current] = "included"
  /\ Say("executed")
  /\ UNCHANGED <<formVars, confirm, sendVars, carried, chainVars, serviceVars>>

ReceiptArrives ==
  /\ pc = "polling" /\ outcome[current] = "included"
  /\ Say(IF effect[current] = "reverted" THEN "reverted" ELSE "executed")
  /\ UNCHANGED <<formVars, confirm, sendVars, carried, chainVars, serviceVars>>

\* Fault: the page asks until there is a receipt.
NoReceiptForever ==
  /\ pc = "polling" /\ outcome[current] # "included"
  /\ polls' \in {polls, 1 - polls}
  /\ UNCHANGED <<formVars, said, confirm, pc, sendVars, carried, chainVars, serviceVars>>

\* The bundler answers null, and the page asks again or gives up.
NoReceipt ==
  /\ pc = "polling" /\ outcome[current] # "included"
  /\ IF polls + 1 = MaxPolls THEN Say("failed")
     ELSE polls' = polls + 1 /\ UNCHANGED <<said, pc>>
  /\ UNCHANGED <<formVars, confirm, sendVars, carried, chainVars, serviceVars>>

\* One request that fails ends the polling.
PollFails ==
  /\ pc = "polling" /\ Say("failed")
  /\ UNCHANGED <<formVars, confirm, sendVars, carried, chainVars, serviceVars>>

PageStep ==
  \/ CodeRead \/ ValueRead \/ Sign \/ SignFails
  \/ HashArrives \/ PostFails \/ ReceiptArrives \/ NoReceipt \/ PollFails

----------------------------------------------------------------------------
(* Proxy, bundler and chain                                                *)

\* The proxy's policy looks at the target; it, or the bundler, may refuse.
Deliver(s) ==
  /\ s \in carried /\ carried' = carried \ {s}
  /\ \/ target[s] \in Allowed /\ Service!Accept(s)
     \/ UNCHANGED serviceVars
  /\ UNCHANGED <<formVars, pageVars, sendVars, chainVars>>

\* What a call of set does at a: without code it succeeds and does nothing.
Effect(a) ==
  CASE a \notin code -> "nothing"
    [] a \in code /\ Kind[a] = "storage" -> "stored"
    [] a \in code /\ Kind[a] \in {"readonly", "lacking"} -> "reverted"
    [] a \in code /\ Kind[a] = "swallowing" -> "nothing"

Executes ==
  /\ Service!Execute
  /\ effect' = [s \in Sends |-> IF s \in executed' \ executed THEN Effect(target[s]) ELSE effect[s]]
  /\ UNCHANGED <<formVars, pageVars, sendVars, carried, code>>

BundlerWorks ==
  /\ Service!Settle \/ Service!Forget
  /\ UNCHANGED <<formVars, pageVars, sendVars, carried, chainVars>>

\* Code comes to an address, and stays.
Deploy(a) ==
  /\ Kind[a] # "text" /\ a \notin code
  /\ code' = code \cup {a}
  /\ UNCHANGED <<formVars, pageVars, sendVars, carried, effect, serviceVars>>

UserStep ==
  \/ \E a \in Addresses : Edit(a)
  \/ \E s \in Sends : Click(s)
  \/ CancelSend \/ SendAnyway
  \/ Login \/ LoginEnds

Next ==
  \/ UserStep
  \/ PageStep
  \/ \E s \in Sends : Deliver(s)
  \/ Executes \/ BundlerWorks
  \/ \E a \in Addresses : Deploy(a)

Spec == Init /\ [][Next]_vars

\* Requests and the wallet are answered somehow; the user need not do anything,
\* nor the bundler, nor the chain.
FairSpec == Spec /\ WF_vars(PageStep)

----------------------------------------------------------------------------
(* Properties                                                              *)

\* "Signing is the point of no return ... so the address has to be checked before the
\* UserOp exists" (userOp.ts:85-89): a write that succeeds without doing anything does so
\* at the address that was inspected.  The dialog does not keep it: what it sends, it
\* sends to the address that the input holds by then (App.tsx:188).
SilentOnlyWhereInspected ==
  \A s \in Sends : effect[s] = "nothing" => target[s] = inspected[s]

\* What is kept: a write succeeds without doing anything only if the user was warned and
\* sent it anyway, and at the address that was inspected only if a contract swallows it;
\* so it is only by the dialog that SilentOnlyWhereInspected fails (App.tsx 143-172, 398-421).
SilentOnlyIfWarned ==
  \A s \in Sends : effect[s] = "nothing" =>
    /\ s \in warned
    /\ Kind[target[s]] = "swallowing" \/ target[s] # inspected[s]

\* The page says "executed" only of a call that succeeded, "reverted" only of one
\* that reverted, and "Nothing was signed" only when nothing was, however late the
\* receipt came and whatever the bundler forgot.
ReportIsTrue ==
  /\ said = "executed" => effect[current] \in {"stored", "nothing"}
  /\ said = "reverted" => effect[current] = "reverted"
  /\ said = "noCode" => current \notin carried /\ outcome[current] = "none"

\* A send ends for certain: polls are bounded and a lost answer ends it as well.
SendsEnd == pc # "none" ~> pc = "none"

\* The Send button is left disabled, with nothing under way and no dialog, only when
\* the wallet had gone as "Send anyway" was pressed.
Stuck == Busy /\ pc = "none" /\ ~confirm
StuckOnlyWithoutWallet == [][Stuck' => Stuck \/ (confirm /\ ~wallet)]_vars

----------------------------------------------------------------------------
(* The inductive invariant (see SendFlowProofs)                            *)

Sent(s) == s \in carried \/ outcome[s] # "none"

\* The inspection of s found code, and the rest of it was passed, for the address
\* that is called, or waived.
Checked(s) ==
  /\ inspected[s] \in code /\ target[s] \in Addresses
  /\ s \in warned \/ (target[s] = inspected[s] /\ Kind[target[s]] \in {"storage", "readonly"})

\* Nothing leaves the page unchecked.
CheckedInv ==
  /\ \A s \in Sends : inspected[s] = None => ~Sent(s) /\ s \notin warned
  /\ \A s \in Sends : Sent(s) => Checked(s)
  /\ pc = "signing" => Checked(current)
  /\ pc \in {"inspecting", "reading", "signing"} \/ confirm => ~Sent(current)
  /\ pc \in {"inspecting", "reading"} \/ confirm =>
       current \notin warned /\ target[current] = inspected[current]
  /\ pc = "reading" \/ confirm => inspected[current] \in code
  /\ current = None => said \in {"ready", "failed"}
  /\ current # None => inspected[current] # None

\* What an operation did is settled when the chain executes it.
ChainInv ==
  \A s \in Sends :
    /\ effect[s] # "none" <=> s \in executed
    /\ s \in executed => outcome[s] # "none"
    /\ outcome[s] = "included" => s \in executed

SendFlowInv == TypeOK /\ CheckedInv /\ ChainInv /\ SilentOnlyIfWarned /\ ReportIsTrue
=============================================================================
