--------------------------- MODULE SendFlowProofs ---------------------------
(***************************************************************************)
(* Proofs about SendFlow: for any number of sends, any contracts at any    *)
(* addresses, any policy, edits and logouts at any time, a bundler that    *)
(* may forget, and any number of polls.                                    *)
(***************************************************************************)
EXTENDS SendFlow, TLAPS

USE DEF formVars, pageVars, sendVars, serviceVars, chainVars

----------------------------------------------------------------------------
(* Type correctness                                                        *)

Outcomes == {"none", "pending", "included", "failed", "forgotten"}

LEMMA ServiceTypes ==
  ASSUME outcome \in [Sends -> Outcomes], executed \subseteq Sends,
         \/ \E s \in Sends : Service!Accept(s)
         \/ Service!Execute \/ Service!Settle \/ Service!Forget
         \/ UNCHANGED serviceVars
  PROVE  /\ outcome' \in [Sends -> Outcomes] /\ executed' \subseteq Sends
         /\ executed \subseteq executed'
         /\ \A s \in Sends : outcome[s] # "none" => outcome'[s] # "none"
         /\ \A s \in executed' \ executed : outcome[s] # "none"
         /\ \A s \in Sends : outcome'[s] = "included" => outcome[s] = "included" \/ s \in executed
  <1>1. ASSUME NEW s \in Sends, Service!Accept(s)
        PROVE  /\ outcome' \in [Sends -> Outcomes] /\ executed' = executed
               /\ \A q \in Sends : outcome[q] # "none" => outcome'[q] # "none"
               /\ \A q \in Sends : outcome'[q] = "included" => outcome[q] = "included"
    BY <1>1 DEF Service!Accept, Outcomes
  <1>2. CASE Service!Execute
    BY <1>2 DEF Service!Execute
  <1>3. CASE Service!Settle
    <2>1. PICK S \in SUBSET {i \in Sends : outcome[i] = "pending"} :
            \/ /\ \A i \in S : [s \in Sends |-> s][i] \in executed
               /\ outcome' = [i \in Sends |-> IF i \in S THEN "included" ELSE outcome[i]]
            \/ outcome' = [i \in Sends |-> IF i \in S THEN "failed" ELSE outcome[i]]
      BY <1>3 DEF Service!Settle
    <2>2. \A i \in S : [s \in Sends |-> s][i] = i
      OBVIOUS
    <2>3. executed' = executed
      BY <1>3 DEF Service!Settle
    <2>. QED  BY <2>1, <2>2, <2>3 DEF Outcomes
  <1>4. CASE Service!Forget
    BY <1>4 DEF Service!Forget, Outcomes
  <1>5. CASE UNCHANGED serviceVars
    BY <1>5
  <1>. QED  BY <1>1, <1>2, <1>3, <1>4, <1>5

LEMMA TypeNext == TypeOK /\ [Next]_vars => TypeOK'
  <1>. SUFFICES ASSUME TypeOK, [Next]_vars PROVE TypeOK'
    OBVIOUS
  <1>. USE SendsAssumption DEF TypeOK
  <1>1. CASE UserStep
    <2>1. ASSUME NEW a \in Addresses, Edit(a) PROVE TypeOK'
      BY <2>1 DEF Edit, Busy
    <2>2. ASSUME NEW s \in Sends, Click(s) PROVE TypeOK'
      BY <2>2 DEF Click, Say, Busy
    <2>3. CASE CancelSend
      BY <2>3 DEF CancelSend, Busy
    <2>4. CASE SendAnyway
      <3>1. CASE wallet
        <4>1. /\ confirm /\ confirm' = FALSE /\ pc' = "signing"
              /\ target' = [target EXCEPT ![current] = address] /\ warned' = warned \cup {current}
              /\ UNCHANGED <<formVars, said, polls, current, inspected, carried, chainVars, serviceVars>>
          BY <2>4, <3>1 DEF SendAnyway
        <4>. QED  BY <4>1 DEF Busy
      <3>2. CASE ~wallet
        BY <2>4, <3>2 DEF SendAnyway, Busy
      <3>. QED  BY <3>1, <3>2
    <2>5. CASE Login
      BY <2>5 DEF Login, Busy
    <2>6. CASE LoginEnds
      BY <2>6 DEF LoginEnds, Busy
    <2>. QED  BY <1>1, <2>1, <2>2, <2>3, <2>4, <2>5, <2>6 DEF UserStep
  <1>2. CASE PageStep
    <2>1. CASE CodeRead
      BY <2>1 DEF CodeRead, Say, Busy
    <2>2. CASE ValueRead
      <3>1. /\ pc = "reading"
            /\ \/ pc' = "signing" /\ UNCHANGED confirm
               \/ pc' = "none" /\ confirm' = TRUE
            /\ UNCHANGED <<formVars, said, polls, sendVars, carried, chainVars, serviceVars>>
        BY <2>2 DEF ValueRead
      <3>2. CASE pc' = "signing" /\ UNCHANGED confirm
        BY <3>1, <3>2 DEF Busy
      <3>3. CASE pc' = "none" /\ confirm' = TRUE
        BY <3>1, <3>3 DEF Busy
      <3>. QED  BY <3>1, <3>2, <3>3
    <2>3. CASE Sign
      BY <2>3 DEF Sign, Busy
    <2>4. CASE SignFails \/ PostFails \/ PollFails
      BY <2>4 DEF SignFails, PostFails, PollFails, Say, Busy
    <2>5. CASE HashArrives
      BY <2>5 DEF HashArrives, Busy
    <2>6. CASE ReceiptArrives
      BY <2>6 DEF ReceiptArrives, Say, Busy
    <2>7. CASE NoReceipt
      BY <2>7 DEF NoReceipt, Say, Busy
    <2>. QED  BY <1>2, <2>1, <2>2, <2>3, <2>4, <2>5, <2>6, <2>7 DEF PageStep
  <1>3. ASSUME NEW s \in Sends, Deliver(s) PROVE TypeOK'
    <2>1. outcome' \in [Sends -> Outcomes] /\ executed' \subseteq Sends
      BY <1>3, ServiceTypes DEF Deliver, Outcomes
    <2>. QED  BY <1>3, <2>1 DEF Deliver, Busy, Outcomes
  <1>4. CASE Executes
    <2>1. outcome' \in [Sends -> Outcomes] /\ executed' \subseteq Sends
      BY <1>4, ServiceTypes DEF Executes, Outcomes
    <2>2. \A a \in Addresses \cup {None} : Effect(a) \in {"none", "stored", "nothing", "reverted"}
      BY DEF Effect, Kinds
    <2>3. effect' \in [Sends -> {"none", "stored", "nothing", "reverted"}]
      BY <1>4, <2>2 DEF Executes
    <2>. QED  BY <1>4, <2>1, <2>3 DEF Executes, Busy, Outcomes
  <1>5. CASE BundlerWorks
    <2>1. outcome' \in [Sends -> Outcomes] /\ executed' \subseteq Sends
      BY <1>5, ServiceTypes DEF BundlerWorks, Outcomes
    <2>. QED  BY <1>5, <2>1 DEF BundlerWorks, Busy, Outcomes
  <1>6. ASSUME NEW a \in Addresses, Deploy(a) PROVE TypeOK'
    BY <1>6 DEF Deploy, Busy
  <1>7. CASE UNCHANGED vars
    BY <1>7 DEF vars, Busy
  <1>. QED  BY <1>1, <1>2, <1>3, <1>4, <1>5, <1>6, <1>7 DEF Next

LEMMA TypeInit == Init => TypeOK
  <1>. SUFFICES ASSUME Init PROVE TypeOK
    OBVIOUS
  <1>1. wallet \in BOOLEAN /\ confirm \in BOOLEAN /\ ~confirm /\ pc = "none"
    BY DEF Init
  <1>2. outcome = [s \in Sends |-> "none"] /\ executed = {}
    BY DEF Init, Service!Init
  <1>3. polls \in 0..(MaxPolls - 1) /\ code \subseteq {a \in Addresses : Kind[a] # "text"}
    BY SendsAssumption DEF Init
  <1>4. /\ inspected \in [Sends -> Addresses \cup {None}] /\ target \in [Sends -> Addresses \cup {None}]
        /\ effect \in [Sends -> {"none", "stored", "nothing", "reverted"}]
        /\ outcome \in [Sends -> {"none", "pending", "included", "failed", "forgotten"}]
    BY <1>2 DEF Init
  <1>. QED  BY <1>1, <1>2, <1>3, <1>4 DEF Init, TypeOK

\* Type correctness of the page; a send that is under way or waits for the dialog
\* keeps the button disabled.
THEOREM TypeCorrect == Spec => []TypeOK
  <1>. QED  BY TypeInit, TypeNext, PTL DEF Spec

----------------------------------------------------------------------------
(* Nothing leaves the page unchecked                                       *)

\* The bundler settles and forgets only what was submitted.
LEMMA BundlerKeeps ==
  ASSUME outcome \in [Sends -> Outcomes], executed \subseteq Sends,
         Service!Execute \/ Service!Settle \/ Service!Forget
  PROVE  \A s \in Sends : outcome'[s] # "none" => outcome[s] # "none"
  <1>1. CASE Service!Execute
    BY <1>1 DEF Service!Execute
  <1>2. CASE Service!Settle
    <2>1. PICK S \in SUBSET {i \in Sends : outcome[i] = "pending"} :
            \/ outcome' = [i \in Sends |-> IF i \in S THEN "included" ELSE outcome[i]]
            \/ outcome' = [i \in Sends |-> IF i \in S THEN "failed" ELSE outcome[i]]
      BY <1>2 DEF Service!Settle
    <2>. QED  BY <2>1
  <1>3. CASE Service!Forget
    BY <1>3 DEF Service!Forget
  <1>. QED  BY <1>1, <1>2, <1>3

\* A step that changes no send, no post and no item, and after which the send under
\* way has come no further than before, keeps what was checked.
LEMMA CheckedStays ==
  ASSUME TypeOK, CheckedInv, UNCHANGED sendVars,
         \A s \in Sends : Sent(s)' => Sent(s),
         code \subseteq code',
         pc' = pc \/ pc' \in {"none", "posting", "polling"},
         confirm' => confirm,
         current = None => said' \in {"ready", "failed"}
  PROVE  CheckedInv'
  <1>1. /\ current' = current /\ inspected' = inspected /\ target' = target /\ warned' = warned
    OBVIOUS
  <1>2. \A s \in Sends : Checked(s) => Checked(s)'
    BY <1>1 DEF Checked
  <1>3. pc' \in {"inspecting", "reading", "signing"} => pc' = pc
    OBVIOUS
  <1>4. pc \in {"inspecting", "reading", "signing"} \/ confirm => current \in Sends
    BY DEF TypeOK
  <1>5. \A s \in Sends : inspected'[s] = None => ~Sent(s)' /\ s \notin warned'
    BY <1>1 DEF CheckedInv
  <1>6. \A s \in Sends : Sent(s)' => Checked(s)'
    BY <1>2 DEF CheckedInv
  <1>7. pc' = "signing" => Checked(current)'
    BY <1>1, <1>2, <1>3, <1>4 DEF CheckedInv, Checked
  <1>8. pc' \in {"inspecting", "reading", "signing"} \/ confirm' => ~Sent(current)'
    <2>. SUFFICES ASSUME pc' \in {"inspecting", "reading", "signing"} \/ confirm'
                  PROVE  ~Sent(current)'
      OBVIOUS
    <2>1. pc \in {"inspecting", "reading", "signing"} \/ confirm
      BY <1>3
    <2>2. current \in Sends /\ ~Sent(current)
      BY <1>4, <2>1 DEF CheckedInv
    <2>. QED  BY <1>1, <2>2 DEF Sent
  <1>9. pc' \in {"inspecting", "reading"} \/ confirm' =>
          current' \notin warned' /\ target'[current'] = inspected'[current']
    BY <1>1, <1>3 DEF CheckedInv
  <1>10. pc' = "reading" \/ confirm' => inspected'[current'] \in code'
    BY <1>1, <1>3 DEF CheckedInv
  <1>11. /\ current' = None => said' \in {"ready", "failed"}
         /\ current' # None => inspected'[current'] # None
    BY <1>1 DEF CheckedInv
  <1>. QED  BY <1>5, <1>6, <1>7, <1>8, <1>9, <1>10, <1>11 DEF CheckedInv

LEMMA CheckedNext == TypeOK /\ CheckedInv /\ [Next]_vars => CheckedInv'
  <1>. SUFFICES ASSUME TypeOK, CheckedInv, [Next]_vars PROVE CheckedInv'
    OBVIOUS
  <1>. USE SendsAssumption
  <1>0. current = None => said \in {"ready", "failed"} /\ pc = "none" /\ ~confirm
    BY DEF TypeOK, CheckedInv
  <1>1. ASSUME NEW a \in Addresses, Edit(a) PROVE CheckedInv'
    <2>1. UNCHANGED <<sendVars, carried, outcome, code, pc, confirm, said>>
      BY <1>1 DEF Edit
    <2>. QED  BY <1>0, <2>1, CheckedStays DEF Sent
  <1>2. ASSUME NEW s \in Sends, Click(s) PROVE CheckedInv'
    <2>1. /\ inspected[s] = None /\ current' = s
          /\ inspected' = [inspected EXCEPT ![s] = address] /\ target' = [target EXCEPT ![s] = address]
          /\ UNCHANGED <<confirm, warned, carried, code, outcome>>
          /\ pc' \in {"none", "inspecting"} /\ ~Busy
      BY <1>2 DEF Click, Say
    <2>2. ~Sent(s) /\ s \notin warned /\ ~confirm /\ pc = "none"
      BY <2>1 DEF CheckedInv, TypeOK
    <2>3. inspected'[s] = address /\ target'[s] = address /\ address \in Addresses /\ address # None
      BY <2>1 DEF TypeOK
    <2>4. ASSUME NEW q \in Sends, Sent(q)' PROVE Checked(q)'
      <3>1. Sent(q) /\ q # s
        BY <2>1, <2>2, <2>4 DEF Sent
      <3>2. inspected'[q] = inspected[q] /\ target'[q] = target[q]
        BY <2>1, <3>1 DEF TypeOK
      <3>. QED  BY <2>1, <3>1, <3>2 DEF CheckedInv, Checked
    <2>5. ASSUME NEW q \in Sends, inspected'[q] = None PROVE ~Sent(q)' /\ q \notin warned'
      <3>1. q # s /\ inspected[q] = None
        BY <2>1, <2>3, <2>5 DEF TypeOK
      <3>. QED  BY <2>1, <3>1 DEF CheckedInv, Sent
    <2>6. ~Sent(current)' /\ current' \notin warned' /\ current' # None
      BY <2>1, <2>2 DEF Sent
    <2>. QED  BY <2>1, <2>2, <2>3, <2>4, <2>5, <2>6 DEF CheckedInv
  <1>3. CASE CancelSend
    <2>1. UNCHANGED <<sendVars, carried, outcome, code, pc>> /\ ~confirm' /\ said' = "ready"
      BY <1>3 DEF CancelSend
    <2>. QED  BY <2>1, CheckedStays DEF Sent
  <1>4. CASE SendAnyway
    <2>1. CASE wallet
      <3>1. /\ confirm /\ ~confirm' /\ pc' = "signing"
            /\ target' = [target EXCEPT ![current] = address] /\ warned' = warned \cup {current}
            /\ UNCHANGED <<current, inspected, carried, code, outcome, said>>
        BY <1>4, <2>1 DEF SendAnyway
      <3>2. current \in Sends /\ ~Sent(current) /\ inspected[current] \in code /\ inspected[current] # None
        BY <3>1 DEF TypeOK, CheckedInv
      <3>3. target'[current] = address /\ address \in Addresses
        BY <3>1, <3>2 DEF TypeOK
      <3>4. Checked(current)'
        BY <3>1, <3>2, <3>3 DEF Checked
      <3>5. ASSUME NEW q \in Sends, Sent(q)' PROVE Checked(q)'
        <4>1. Sent(q) /\ q # current
          BY <3>1, <3>2, <3>5 DEF Sent
        <4>2. target'[q] = target[q] /\ Checked(q)
          BY <3>1, <4>1 DEF TypeOK, CheckedInv
        <4>. QED  BY <3>1, <4>2 DEF Checked
      <3>6. ASSUME NEW q \in Sends, inspected'[q] = None PROVE ~Sent(q)' /\ q \notin warned'
        BY <3>1, <3>2, <3>6 DEF CheckedInv, Sent
      <3>7. ~Sent(current)'
        BY <3>1, <3>2 DEF Sent
      <3>. QED  BY <1>0, <3>1, <3>2, <3>4, <3>5, <3>6, <3>7 DEF CheckedInv
    <2>2. CASE ~wallet
      <3>1. UNCHANGED <<sendVars, carried, outcome, code, pc, said>> /\ ~confirm'
        BY <1>4, <2>2 DEF SendAnyway
      <3>. QED  BY <1>0, <3>1, CheckedStays DEF Sent
    <2>. QED  BY <2>1, <2>2
  <1>5. CASE Login \/ LoginEnds
    <2>1. /\ UNCHANGED <<sendVars, carried, outcome, code, pc, confirm>>
          /\ said' = said \/ said' \in {"ready", "failed"}
      BY <1>5 DEF Login, LoginEnds
    <2>. QED  BY <1>0, <2>1, CheckedStays DEF Sent
  <1>6. CASE CodeRead
    <2>1. pc = "inspecting" /\ UNCHANGED <<sendVars, confirm, carried, code, outcome>>
      BY <1>6 DEF CodeRead
    <2>2. CASE inspected[current] \in code /\ pc' = "reading" /\ UNCHANGED <<said, polls>>
      <3>1. ~confirm /\ current # None /\ ~Sent(current)' /\ \A q \in Sends : Sent(q)' => Sent(q)
        BY <2>1 DEF TypeOK, CheckedInv, Sent
      <3>2. \A q \in Sends : Checked(q) => Checked(q)'
        BY <2>1 DEF Checked
      <3>3. \A q \in Sends : Sent(q) => Sent(q)'
        BY <2>1 DEF Sent
      <3>. QED  BY <2>1, <2>2, <3>1, <3>2, <3>3 DEF CheckedInv
    <2>3. CASE pc' = "none"
      BY <1>0, <2>1, <2>3, CheckedStays DEF Sent
    <2>. QED  BY <1>6, <2>2, <2>3 DEF CodeRead, Say
  <1>7. CASE ValueRead
    <2>1. /\ pc = "reading" /\ UNCHANGED <<sendVars, carried, code, outcome, said>>
          /\ ~confirm /\ current \in Sends
      BY <1>7 DEF ValueRead, TypeOK
    <2>2. /\ current \notin warned /\ target[current] = inspected[current]
          /\ inspected[current] \in code /\ ~Sent(current) /\ inspected[current] # None
          /\ \A q \in Sends : Sent(q) <=> Sent(q)'
          /\ \A q \in Sends : Checked(q) => Checked(q)'
          /\ code \subseteq Addresses
      BY <2>1 DEF CheckedInv, Sent, Checked, TypeOK
    <2>3. CASE Readable(inspected[current]) /\ pc' = "signing" /\ UNCHANGED confirm
      <3>1. Checked(current)'
        BY <2>1, <2>2, <2>3 DEF Checked, Readable
      <3>2. ~confirm'
        BY <2>1, <2>3
      <3>. QED  BY <2>1, <2>2, <2>3, <3>1, <3>2 DEF CheckedInv
    <2>4. CASE confirm' = TRUE /\ pc' = "none"
      BY <2>1, <2>2, <2>4 DEF CheckedInv
    <2>. QED  BY <1>7, <2>3, <2>4 DEF ValueRead
  <1>8. CASE Sign
    <2>1. /\ pc = "signing" /\ pc' = "posting" /\ carried' = carried \cup {current}
          /\ UNCHANGED <<sendVars, said, confirm, code, outcome>> /\ current \in Sends /\ ~confirm
      BY <1>8 DEF Sign, TypeOK
    <2>2. Checked(current) /\ inspected[current] # None
      BY <2>1 DEF CheckedInv
    <2>3. \A q \in Sends : (Sent(q)' => Sent(q) \/ q = current) /\ (Checked(q) => Checked(q)')
      BY <2>1 DEF Sent, Checked
    <2>. QED  BY <2>1, <2>2, <2>3 DEF CheckedInv
  <1>9. CASE SignFails \/ PostFails \/ ReceiptArrives \/ NoReceipt \/ PollFails \/ HashArrives
    <2>1. /\ UNCHANGED <<sendVars, confirm, carried, code, outcome>> /\ pc # "none"
          /\ pc' = pc \/ pc' \in {"none", "polling"}
      BY <1>9 DEF SignFails, PostFails, ReceiptArrives, NoReceipt, PollFails, HashArrives, Say
    <2>. QED  BY <1>0, <2>1, CheckedStays DEF Sent
  <1>10. ASSUME NEW s \in Sends, Deliver(s) PROVE CheckedInv'
    <2>1. /\ UNCHANGED <<sendVars, code, pc, confirm, said>>
          /\ s \in carried /\ carried' = carried \ {s}
          /\ \A q \in Sends : outcome'[q] # "none" => outcome[q] # "none" \/ q = s
      BY <1>10 DEF Deliver, Service!Accept, TypeOK
    <2>2. \A q \in Sends : Sent(q)' => Sent(q)
      BY <2>1 DEF Sent
    <2>. QED  BY <1>0, <2>1, <2>2, CheckedStays
  <1>11. CASE Executes \/ BundlerWorks
    <2>1. /\ UNCHANGED <<sendVars, carried, code, pc, confirm, said>>
          /\ Service!Execute \/ Service!Settle \/ Service!Forget
      BY <1>11 DEF Executes, BundlerWorks
    <2>2. \A q \in Sends : outcome'[q] # "none" => outcome[q] # "none"
      BY <2>1, BundlerKeeps DEF TypeOK, Outcomes
    <2>. QED  BY <1>0, <2>1, <2>2, CheckedStays DEF Sent
  <1>12. ASSUME NEW a \in Addresses, Deploy(a) PROVE CheckedInv'
    <2>1. UNCHANGED <<sendVars, carried, outcome, pc, confirm, said>> /\ code \subseteq code'
      BY <1>12 DEF Deploy
    <2>. QED  BY <1>0, <2>1, CheckedStays DEF Sent
  <1>13. CASE UNCHANGED vars
    BY <1>0, <1>13, CheckedStays DEF vars, Sent
  <1>. QED
    BY <1>1, <1>2, <1>3, <1>4, <1>5, <1>6, <1>7, <1>8, <1>9, <1>10, <1>11, <1>12, <1>13
       DEF Next, UserStep, PageStep

----------------------------------------------------------------------------
(* What the chain did, and what the page says of it                        *)

LEMMA ChainNext == TypeOK /\ CheckedInv /\ ChainInv /\ [Next]_vars => ChainInv'
  <1>. SUFFICES ASSUME TypeOK, CheckedInv, ChainInv, [Next]_vars PROVE ChainInv'
    OBVIOUS
  <1>. USE SendsAssumption
  <1>1. CASE Executes
    <2>1. Service!Execute /\ UNCHANGED <<outcome, target, code>>
          /\ effect' = [s \in Sends |->
               IF s \in executed' \ executed THEN Effect(target[s]) ELSE effect[s]]
      BY <1>1 DEF Executes, Service!Execute
    <2>2. executed \subseteq executed' /\ \A s \in executed' \ executed : outcome[s] # "none"
      BY <2>1, ServiceTypes DEF TypeOK, Outcomes
    <2>3. ASSUME NEW s \in Sends, s \in executed' \ executed PROVE effect'[s] # "none"
      <3>1. target[s] \in Addresses
        BY <2>2, <2>3 DEF CheckedInv, Sent, Checked
      <3>2. Effect(target[s]) # "none"
        BY <3>1 DEF Effect, TypeOK, Kinds
      <3>. QED  BY <2>1, <2>3, <3>2
    <2>4. ASSUME NEW s \in Sends, s \notin executed' \ executed PROVE effect'[s] = effect[s]
      BY <2>1, <2>4
    <2>. QED  BY <2>1, <2>2, <2>3, <2>4 DEF ChainInv
  <1>2. ASSUME effect' = effect, executed' = executed,
               \/ \E s \in Sends : Service!Accept(s)
               \/ Service!Settle \/ Service!Forget \/ UNCHANGED serviceVars
        PROVE  ChainInv'
    <2>1. /\ \A s \in Sends : outcome[s] # "none" => outcome'[s] # "none"
          /\ \A s \in Sends : outcome'[s] = "included" => outcome[s] = "included" \/ s \in executed
      BY <1>2, ServiceTypes DEF TypeOK, Outcomes
    <2>. QED  BY <1>2, <2>1 DEF ChainInv
  <1>3. CASE BundlerWorks
    BY <1>2, <1>3 DEF BundlerWorks, Service!Settle, Service!Forget
  <1>4. ASSUME NEW s \in Sends, Deliver(s) PROVE ChainInv'
    BY <1>2, <1>4 DEF Deliver, Service!Accept
  <1>5. CASE effect' = effect /\ UNCHANGED serviceVars
    BY <1>2, <1>5
  <1>. QED
    BY <1>1, <1>3, <1>4, <1>5 DEF Next, UserStep, PageStep, Edit, Click, CancelSend, SendAnyway,
       Login, LoginEnds, CodeRead, ValueRead, Sign, SignFails, HashArrives, PostFails,
       ReceiptArrives, NoReceipt, PollFails, Deploy, vars

LEMMA SilentNext ==
  TypeOK /\ CheckedInv /\ ChainInv /\ SilentOnlyIfWarned /\ [Next]_vars => SilentOnlyIfWarned'
  <1>. SUFFICES ASSUME TypeOK, CheckedInv, ChainInv, SilentOnlyIfWarned, [Next]_vars
                PROVE  SilentOnlyIfWarned'
    OBVIOUS
  <1>. USE SendsAssumption
  <1>1. CASE Executes
    <2>1. Service!Execute /\ UNCHANGED sendVars
          /\ effect' = [s \in Sends |->
               IF s \in executed' \ executed THEN Effect(target[s]) ELSE effect[s]]
      BY <1>1 DEF Executes
    <2>2. ASSUME NEW s \in Sends, s \in executed' \ executed, effect'[s] = "nothing"
          PROVE  s \in warned /\ (Kind[target[s]] = "swallowing" \/ target[s] # inspected[s])
      <3>1. outcome[s] # "none"
        BY <2>1, <2>2, ServiceTypes DEF TypeOK, Outcomes
      <3>2. Checked(s)
        BY <3>1 DEF CheckedInv, Sent
      <3>3. Effect(target[s]) = "nothing"
        BY <2>1, <2>2
      <3>4. target[s] \notin code \/ Kind[target[s]] = "swallowing"
        BY <3>2, <3>3 DEF Effect, Checked, TypeOK, Kinds
      <3>. QED  BY <3>2, <3>4 DEF Checked
    <2>3. \A s \in Sends : s \notin executed' \ executed => effect'[s] = effect[s]
      BY <2>1
    <2>. QED  BY <2>1, <2>2, <2>3 DEF SilentOnlyIfWarned
  <1>2. ASSUME effect' = effect, warned \subseteq warned',
               \A s \in Sends : effect[s] = "nothing" =>
                 target'[s] = target[s] /\ inspected'[s] = inspected[s]
        PROVE  SilentOnlyIfWarned'
    BY <1>2 DEF SilentOnlyIfWarned
  <1>3. ASSUME NEW s \in Sends, ~Sent(s) PROVE effect[s] # "nothing"
    BY <1>3 DEF ChainInv, Sent
  <1>4. ASSUME NEW s \in Sends, Click(s) PROVE SilentOnlyIfWarned'
    <2>1. /\ inspected[s] = None /\ effect' = effect /\ warned' = warned
          /\ \A q \in Sends \ {s} : target'[q] = target[q] /\ inspected'[q] = inspected[q]
      BY <1>4 DEF Click, TypeOK
    <2>2. ~Sent(s)
      BY <2>1 DEF CheckedInv
    <2>. QED  BY <1>2, <1>3, <2>1, <2>2
  <1>5. CASE SendAnyway
    <2>1. /\ confirm /\ effect' = effect /\ warned \subseteq warned' /\ inspected' = inspected
          /\ \A q \in Sends : q # current => target'[q] = target[q]
      BY <1>5 DEF SendAnyway, TypeOK
    <2>2. current \in Sends /\ ~Sent(current)
      BY <2>1 DEF CheckedInv, TypeOK
    <2>. QED  BY <1>2, <1>3, <2>1, <2>2
  <1>6. CASE effect' = effect /\ UNCHANGED <<inspected, target, warned>>
    BY <1>2, <1>6
  <1>. QED
    BY <1>1, <1>4, <1>5, <1>6 DEF Next, UserStep, PageStep, Edit, CancelSend, Login, LoginEnds,
       CodeRead, ValueRead, Sign, SignFails, HashArrives, PostFails, ReceiptArrives, NoReceipt,
       PollFails, Deliver, BundlerWorks, Deploy, vars

LEMMA ReportNext ==
  TypeOK /\ CheckedInv /\ ChainInv /\ ReportIsTrue /\ [Next]_vars => ReportIsTrue'
  <1>. SUFFICES ASSUME TypeOK, CheckedInv, ChainInv, ReportIsTrue, [Next]_vars
                PROVE  ReportIsTrue'
    OBVIOUS
  <1>. USE SendsAssumption
  <1>1. CASE said' \in {"ready", "running", "failed"}
    BY <1>1 DEF ReportIsTrue
  <1>2. ASSUME said' = said, current' = current, current = None => said \in {"ready", "failed"},
               current # None => /\ effect[current] # "none" => effect'[current] = effect[current]
                                 /\ current \notin carried => current \notin carried'
                                 /\ current \notin carried /\ outcome[current] = "none"
                                      => outcome'[current] = "none"
        PROVE  ReportIsTrue'
    BY <1>2 DEF ReportIsTrue
  <1>3. current = None => said \in {"ready", "failed"}
    BY DEF CheckedInv
  <1>4. CASE CodeRead
    <2>1. CASE said' = "noCode"
      <3>1. /\ pc = "inspecting" /\ UNCHANGED <<current, carried, outcome>>
        BY <1>4 DEF CodeRead
      <3>2. ~Sent(current)
        BY <3>1 DEF CheckedInv
      <3>. QED  BY <2>1, <3>1, <3>2 DEF ReportIsTrue, Sent
    <2>2. CASE said' # "noCode"
      <3>1. said' = "failed" \/ (said' = said /\ UNCHANGED <<current, effect, carried, outcome>>)
        BY <1>4, <2>2 DEF CodeRead, Say
      <3>. QED  BY <1>1, <1>2, <1>3, <1>4, <3>1 DEF CodeRead
    <2>. QED  BY <2>1, <2>2
  <1>5. CASE ReceiptArrives
    <2>1. /\ pc = "polling" /\ outcome[current] = "included" /\ UNCHANGED <<current, effect>>
          /\ said' = IF effect[current] = "reverted" THEN "reverted" ELSE "executed"
      BY <1>5 DEF ReceiptArrives, Say
    <2>2. current \in Sends
      BY <2>1 DEF TypeOK
    <2>3. effect[current] \in {"stored", "nothing", "reverted"}
      BY <2>1, <2>2 DEF ChainInv, TypeOK
    <2>. QED  BY <2>1, <2>3 DEF ReportIsTrue
  <1>6. CASE Executes
    <2>1. /\ UNCHANGED <<said, current, carried, outcome>>
          /\ effect' = [s \in Sends |->
               IF s \in executed' \ executed THEN Effect(target[s]) ELSE effect[s]]
      BY <1>6 DEF Executes, Service!Execute
    <2>2. ASSUME current # None, effect[current] # "none" PROVE effect'[current] = effect[current]
      <3>1. current \in Sends /\ current \in executed
        BY <2>2 DEF ChainInv, TypeOK
      <3>. QED  BY <2>1, <3>1
    <2>. QED  BY <1>2, <1>3, <2>1, <2>2
  <1>7. CASE BundlerWorks
    <2>1. UNCHANGED <<said, current, carried, effect>>
      BY <1>7 DEF BundlerWorks
    <2>2. \A q \in Sends : outcome'[q] # "none" => outcome[q] # "none"
      BY <1>7, BundlerKeeps DEF BundlerWorks, TypeOK, Outcomes
    <2>. QED  BY <1>2, <1>3, <2>1, <2>2 DEF TypeOK
  <1>8. ASSUME NEW s \in Sends, Deliver(s) PROVE ReportIsTrue'
    <2>1. /\ UNCHANGED <<said, current, effect>> /\ s \in carried /\ carried' = carried \ {s}
          /\ \A q \in Sends : q # s => outcome'[q] = outcome[q]
      BY <1>8 DEF Deliver, Service!Accept, TypeOK
    <2>. QED  BY <1>2, <1>3, <2>1 DEF TypeOK
  <1>9. CASE UNCHANGED <<said, current, effect, carried, outcome>>
    BY <1>2, <1>3, <1>9
  <1>10. CASE Sign
    <2>1. said' = "running"
      BY <1>10 DEF Sign, TypeOK, Busy
    <2>. QED  BY <1>1, <2>1
  <1>11. CASE SendAnyway
    <2>1. said' = "running"
      BY <1>11 DEF SendAnyway, TypeOK, Busy
    <2>. QED  BY <1>1, <2>1
  <1>12. CASE NoReceipt
    <2>1. said' = "failed" \/ said' = "running"
      BY <1>12 DEF NoReceipt, Say, TypeOK, Busy
    <2>. QED  BY <1>1, <2>1
  <1>13. ASSUME \/ \E s \in Sends : Click(s)
                \/ CancelSend \/ SignFails \/ PostFails \/ PollFails
         PROVE  ReportIsTrue'
    <2>1. said' \in {"ready", "running", "failed"}
      BY <1>13 DEF Click, CancelSend, SignFails, PostFails, PollFails, Say
    <2>. QED  BY <1>1, <2>1
  <1>14. CASE Login \/ LoginEnds
    BY <1>1, <1>9, <1>14 DEF Login, LoginEnds
  <1>. QED
    BY <1>4, <1>5, <1>6, <1>7, <1>8, <1>9, <1>10, <1>11, <1>12, <1>13, <1>14
       DEF Next, UserStep, PageStep, Edit, ValueRead, HashArrives, Deploy, vars

----------------------------------------------------------------------------
(* The theorems                                                            *)

LEMMA InvInit == Init => SendFlowInv
  <1>. SUFFICES ASSUME Init PROVE SendFlowInv
    OBVIOUS
  <1>1. outcome = [s \in Sends |-> "none"] /\ executed = {} /\ carried = {}
    BY DEF Init, Service!Init
  <1>2. CheckedInv
    BY <1>1 DEF Init, CheckedInv, Sent
  <1>3. ChainInv
    BY <1>1 DEF Init, ChainInv
  <1>4. SilentOnlyIfWarned /\ ReportIsTrue
    BY <1>1 DEF Init, SilentOnlyIfWarned, ReportIsTrue
  <1>. QED  BY <1>2, <1>3, <1>4, TypeInit DEF SendFlowInv

\* The inductive invariant of the page: what leaves it was checked for the address
\* it calls, and what the chain did with it stays so.
THEOREM InvCorrect == Spec => []SendFlowInv
  <1>1. SendFlowInv /\ [Next]_vars => SendFlowInv'
    BY TypeNext, CheckedNext, ChainNext, SilentNext, ReportNext DEF SendFlowInv
  <1>. QED  BY <1>1, InvInit, PTL DEF Spec

\* A write that succeeds without doing anything was sent after a warning (inspectTarget
\* and the dialog of App.tsx).
THEOREM NothingSilent == Spec => []SilentOnlyIfWarned
  <1>1. SendFlowInv => SilentOnlyIfWarned
    BY DEF SendFlowInv
  <1>. QED  BY <1>1, InvCorrect, PTL

\* What the page reports of a send is what became of it (performSend).
THEOREM ReportsAreTrue == Spec => []ReportIsTrue
  <1>1. SendFlowInv => ReportIsTrue
    BY DEF SendFlowInv
  <1>. QED  BY <1>1, InvCorrect, PTL

\* The button is left disabled for good only when the wallet had gone as "Send anyway"
\* was pressed (performSend, cancelSend).
THEOREM StuckWithoutWallet == Spec => StuckOnlyWithoutWallet
  <1>1. TypeOK /\ [Next]_vars => [Stuck' => Stuck \/ (confirm /\ ~wallet)]_vars
    <2>. SUFFICES ASSUME TypeOK, Next, said' = "running", pc' = "none", ~confirm',
                         ~Stuck, ~(confirm /\ ~wallet)
                  PROVE  FALSE
      BY DEF Stuck, Busy
    <2>1. said # "running" \/ pc # "none" \/ confirm
      BY DEF Stuck, Busy
    <2>2. ~PageStep
      BY DEF PageStep, CodeRead, ValueRead, Sign, SignFails, HashArrives, PostFails,
             ReceiptArrives, NoReceipt, PollFails, Say
    <2>3. ~UserStep
      <3>1. ASSUME NEW a \in Addresses PROVE ~Edit(a)
        BY <2>1 DEF Edit
      <3>2. ASSUME NEW s \in Sends PROVE ~Click(s)
        BY DEF Click, Say
      <3>3. ~CancelSend /\ ~Login
        BY DEF CancelSend, Login, TypeOK, Busy
      <3>4. ~LoginEnds
        BY <2>1 DEF LoginEnds
      <3>5. ~SendAnyway
        BY DEF SendAnyway
      <3>. QED  BY <3>1, <3>2, <3>3, <3>4, <3>5 DEF UserStep
    <2>4. ~(\E s \in Sends : Deliver(s)) /\ ~Executes /\ ~BundlerWorks
          /\ ~(\E a \in Addresses : Deploy(a))
      BY <2>1 DEF Deliver, Executes, BundlerWorks, Deploy
    <2>. QED  BY <2>2, <2>3, <2>4 DEF Next
  <1>. QED  BY <1>1, TypeCorrect, PTL DEF Spec, StuckOnlyWithoutWallet
=============================================================================
