--------------------------- MODULE WriteLogProofs ---------------------------
(***************************************************************************)
(* Proofs about WriteLog: for every set of writes and readers, every limit *)
(* and policy, with lost answers, failed inserts and bundler restarts.     *)
(***************************************************************************)
EXTENDS WriteLog, SequenceTheorems, TLAPS

USE DEF writeVars, readVars, serviceVars

\* What a row is, what Record appends and what Settle changes.
LEMMA RowFacts ==
  ASSUME TypeOK, NEW i \in 1..Len(log), NEW v \in Successes
  PROVE  /\ log[i] \in Rows
         /\ [log EXCEPT ![i].success = v] \in Seq(Rows)
         /\ Len([log EXCEPT ![i].success = v]) = Len(log)
         /\ \A j \in 1..Len(log) :
              /\ [log EXCEPT ![i].success = v][j].write = log[j].write
              /\ [log EXCEPT ![i].success = v][j].status = log[j].status
              /\ [log EXCEPT ![i].success = v][j].hash = log[j].hash
              /\ [log EXCEPT ![i].success = v][j].success = IF j = i THEN v ELSE log[j].success
  <1>. DEFINE e == [log[i] EXCEPT !.success = v]
  <1>1. log \in Seq(Rows)
    BY DEF TypeOK
  <1>2. log[i] \in Rows
    BY <1>1, ElementOfSeq
  <1>3. /\ e \in Rows /\ e.success = v /\ e.write = log[i].write
        /\ e.status = log[i].status /\ e.hash = log[i].hash
    BY <1>2 DEF Rows
  <1>4. [log EXCEPT ![i].success = v] = [log EXCEPT ![i] = e]
    OBVIOUS
  <1>5. /\ [log EXCEPT ![i] = e] \in Seq(Rows)
        /\ Len([log EXCEPT ![i] = e]) = Len(log)
        /\ \A j \in 1..Len(log) : [log EXCEPT ![i] = e][j] = IF j = i THEN e ELSE log[j]
    <2>. HIDE DEF e
    <2>. QED  BY <1>1, <1>3, ExceptSeq
  <1>. HIDE DEF e
  <1>. QED  BY <1>2, <1>3, <1>4, <1>5

LEMMA AppendFacts ==
  ASSUME TypeOK, NEW w \in Writes, NEW st \in RowStatuses, NEW h \in Ops \cup {NoOp}
  PROVE  /\ Append(log, Row(w, st, h)) \in Seq(Rows)
         /\ Len(Append(log, Row(w, st, h))) = Len(log) + 1
         /\ \A i \in 1..Len(log) : Append(log, Row(w, st, h))[i] = log[i]
         /\ Append(log, Row(w, st, h))[Len(log) + 1] =
              [write |-> w, status |-> st, hash |-> h, success |-> "null"]
         /\ Len(log) \in Nat
  <1>1. Row(w, st, h) \in Rows
    BY DEF Row, Rows, Successes
  <1>2. log \in Seq(Rows)
    BY DEF TypeOK
  <1>. QED  BY <1>1, <1>2, AppendProperties, LenProperties DEF Row

\* Every step leaves the log alone, appends one unsettled row, or settles one
\* row with an answer on its way to settlePending.
Extends(w) ==
  \E st \in RowStatuses, h \in Ops \cup {NoOp} : log' = Append(log, Row(w, st, h))

LEMMA WriteSteps ==
  ASSUME TypeOK, NEW w \in Writes, WriteStep(w)
  PROVE  /\ log' = log \/ Extends(w)
         /\ UNCHANGED readVars
         /\ wpc' \in [Writes -> {"idle", "forwarded", "done"}]
         /\ carried' \in [Writes -> {"none", "sent", "hash", "error", "dropped"}]
         /\ reply' \in [Writes -> {"none", "blocked", "hash", "error", "internal"}]
         /\ serviceVars' = serviceVars \/ Service!Accept(w)
  <1>. USE DEF TypeOK, Answer
  <1>r. ASSUME NEW st \in RowStatuses, NEW h \in Ops \cup {NoOp},
               NEW what \in {"blocked", "hash", "error"}, Record(w, st, h, what)
        PROVE  /\ log' = log \/ Extends(w)
               /\ wpc' \in [Writes -> {"idle", "forwarded", "done"}]
               /\ reply' \in [Writes -> {"none", "blocked", "hash", "error", "internal"}]
    BY <1>r DEF Record, Extends
  <1>1. OpOf[w] \in Ops
    BY WritesAssumption
  <1>2. CASE Receive(w)
    <2>1. CASE "denied" \in PolicyOf[w] /\ Record(w, "rejected", NoOp, "blocked")
      BY <1>2, <1>r, <2>1 DEF Receive, RowStatuses
    <2>2. CASE UNCHANGED log
      BY <1>2, <2>2 DEF Receive, Record
    <2>. QED  BY <1>2, <2>1, <2>2 DEF Receive
  <1>3. CASE AnswerArrives(w)
    BY <1>1, <1>3, <1>r DEF AnswerArrives, RowStatuses
  <1>4. CASE FetchFails(w)
    <2>1. Record(w, "failed", NoOp, "error")
      BY <1>4 DEF FetchFails
    <2>2. carried' \in [Writes -> {"none", "sent", "hash", "error", "dropped"}]
      BY <1>4 DEF FetchFails
    <2>. QED  BY <1>4, <1>r, <2>1, <2>2 DEF FetchFails, RowStatuses
  <1>5. CASE BodyFails(w)
    BY <1>5 DEF BodyFails
  <1>6. CASE BundlerAccepts(w) \/ BundlerRefuses(w)
    BY <1>6 DEF BundlerAccepts, BundlerRefuses
  <1>. QED  BY <1>2, <1>3, <1>4, <1>5, <1>6 DEF WriteStep

LEMMA TypeNext == TypeOK /\ [Next]_vars => TypeOK'
  <1>. SUFFICES ASSUME TypeOK, [Next]_vars PROVE TypeOK'
    OBVIOUS
  <1>. USE DEF TypeOK
  <1>1. ASSUME NEW w \in Writes, WriteStep(w) PROVE TypeOK'
    <2>1. log' \in Seq(Rows)
      <3>1. CASE log' = log
        BY <3>1
      <3>2. CASE Extends(w)
        <4>1. PICK st \in RowStatuses, h \in Ops \cup {NoOp} : log' = Append(log, Row(w, st, h))
          BY <3>2 DEF Extends
        <4>. QED  BY <4>1, AppendFacts
      <3>. QED  BY <1>1, <3>1, <3>2, WriteSteps
    <2>2. outcome' \in [Writes -> {"none", "pending", "included", "failed", "forgotten"}]
      BY <1>1, WriteSteps DEF Service!Accept
    <2>3. executed' \in SUBSET Ops
      BY <1>1, WriteSteps DEF Service!Accept
    <2>. QED  BY <1>1, <2>1, <2>2, <2>3, WriteSteps
  <1>2. ASSUME NEW r \in Reads, ReadStep(r) PROVE TypeOK'
    <2>1. CASE StartRead(r)
      <3>1. {[row |-> i, answer |-> "open"] : i \in Newest(PendingRows)} \in SUBSET Asks
        <4>1. Len(log) \in Nat
          BY LenProperties
        <4>2. Newest(PendingRows) \subseteq Nat
          BY <4>1 DEF Newest, PendingRows
        <4>. HIDE DEF Newest
        <4>. QED  BY <4>2 DEF Asks
      <3>. QED  BY <2>1, <3>1 DEF StartRead
    <2>2. ASSUME NEW a \in asks[r], ReceiptAnswered(r, a) PROVE TypeOK'
      <3>1. a \in Asks
        OBVIOUS
      <3>2. [a EXCEPT !.answer = Receipt(log[a.row].hash)] \in Asks
        BY <2>2, <3>1 DEF ReceiptAnswered, Receipt, Asks
      <3>. QED  BY <2>2, <3>2 DEF ReceiptAnswered
    <2>3. ASSUME NEW a \in asks[r], NoReceipt(r, a) PROVE TypeOK'
      BY <2>3 DEF NoReceipt
    <2>4. ASSUME NEW a \in asks[r], Settle(r, a), a.row \in 1..Len(log) PROVE TypeOK'
      <3>0. a \in Asks
        OBVIOUS
      <3>1. a.answer \in Successes
        BY <2>4, <3>0 DEF Settle, Asks, Successes
      <3>2. log' \in Seq(Rows)
        BY <2>4, <3>1, RowFacts DEF Settle
      <3>. QED  BY <2>4, <3>2 DEF Settle
    <2>5. ASSUME NEW a \in asks[r], Settle(r, a), a.row \notin 1..Len(log) PROVE TypeOK'
      <3>1. DOMAIN log = 1..Len(log)
        BY LenProperties
      <3>2. log' = log
        BY <2>5, <3>1 DEF Settle
      <3>. QED  BY <2>5, <3>2 DEF Settle
    <2>6. CASE FinishRead(r)
      BY <2>6 DEF FinishRead
    <2>. QED  BY <1>2, <2>1, <2>2, <2>3, <2>4, <2>5, <2>6 DEF ReadStep
  <1>3. CASE BundlerWorks
    <2>1. outcome' \in [Writes -> {"none", "pending", "included", "failed", "forgotten"}]
      BY <1>3 DEF BundlerWorks, Service!Execute, Service!Settle, Service!Forget
    <2>2. executed' \in SUBSET Ops
      BY <1>3, WritesAssumption DEF BundlerWorks, Service!Execute, Service!Settle, Service!Forget
    <2>. QED  BY <1>3, <2>1, <2>2 DEF BundlerWorks
  <1>4. CASE UNCHANGED vars
    BY <1>4 DEF vars
  <1>. QED  BY <1>1, <1>2, <1>3, <1>4 DEF Next

\* Type correctness of the write path.
THEOREM TypeCorrect == Spec => []TypeOK
  <1>1. ASSUME Init PROVE TypeOK
    <2>1. log \in Seq(Rows)
      BY <1>1, EmptySeq DEF Init
    <2>2. executed \in SUBSET Ops
      BY <1>1 DEF Init, Service!Init
    <2>3. outcome \in [Writes -> {"none", "pending", "included", "failed", "forgotten"}]
      BY <1>1 DEF Init, Service!Init
    <2>. QED  BY <1>1, <2>1, <2>2, <2>3 DEF Init, TypeOK
  <1>. QED  BY <1>1, TypeNext, PTL DEF Spec

----------------------------------------------------------------------------
(* What a settled row shows is true                                        *)

IncludedExecuted == \A w \in Writes : outcome[w] = "included" => OpOf[w] \in executed

LEMMA WriteKeepsInv ==
  ASSUME TypeOK, WriteLogInv, NEW w \in Writes, WriteStep(w)
  PROVE  WriteLogInv'
  <1>1. asks' = asks /\ executed' = executed /\ (log' = log \/ Extends(w))
    BY WriteSteps DEF Service!Accept
  <1>2. IncludedExecuted'
    BY WriteSteps DEF WriteLogInv, IncludedExecuted, Service!Accept, TypeOK
  <1>3. /\ Len(log) \in Nat /\ Len(log') \in Nat /\ Len(log) <= Len(log')
        /\ \A i \in 1..Len(log) : log'[i] = log[i]
        /\ \A i \in 1..Len(log') : i \notin 1..Len(log) => log'[i].success = "null"
    <2>0. Len(log) \in Nat
      BY LenProperties DEF TypeOK
    <2>1. CASE log' = log
      BY <2>0, <2>1
    <2>2. CASE Extends(w)
      <3>1. PICK st \in RowStatuses, h \in Ops \cup {NoOp} : log' = Append(log, Row(w, st, h))
        BY <2>2 DEF Extends
      <3>2. /\ Len(log') = Len(log) + 1
            /\ \A i \in 1..Len(log) : log'[i] = log[i]
            /\ log'[Len(log) + 1].success = "null"
        <4>. DEFINE new == Append(log, Row(w, st, h))
        <4>1. /\ Len(new) = Len(log) + 1
              /\ \A i \in 1..Len(log) : new[i] = log[i]
              /\ new[Len(log) + 1] = [write |-> w, status |-> st, hash |-> h, success |-> "null"]
          BY AppendFacts
        <4>2. new[Len(log) + 1].success = "null"
          BY <4>1
        <4>. HIDE DEF new
        <4>. QED  BY <3>1, <4>1, <4>2 DEF new
      <3>. QED  BY <2>0, <3>2
    <2>. QED  BY <1>1, <2>1, <2>2
  <1>4. AsksAreTrue'
    BY <1>1, <1>3 DEF WriteLogInv, AsksAreTrue, TrueOutcome
  <1>5. SettledRowsAreTrue'
    BY <1>1, <1>3 DEF WriteLogInv, SettledRowsAreTrue
  <1>. QED  BY <1>2, <1>4, <1>5 DEF WriteLogInv, IncludedExecuted

LEMMA ReadKeepsInv ==
  ASSUME TypeOK, WriteLogInv, NEW r \in Reads, ReadStep(r)
  PROVE  WriteLogInv'
  <1>. USE DEF TypeOK
  <1>0. outcome' = outcome /\ executed' = executed
    BY DEF ReadStep, StartRead, ReceiptAnswered, NoReceipt, Settle, FinishRead
  <1>i. IncludedExecuted'
    BY <1>0 DEF WriteLogInv, IncludedExecuted
  <1>1. CASE StartRead(r)
    <2>. DEFINE new == {[row |-> i, answer |-> "open"] : i \in Newest(PendingRows)}
    <2>1. log' = log /\ asks' = [asks EXCEPT ![r] = new]
      BY <1>1 DEF StartRead
    <2>2. ASSUME NEW i \in 1..Len(log) PROVE log[i] \in Rows /\ "null" \in Successes
      BY RowFacts DEF Successes
    <2>3. \A a \in new :
            /\ a.row \in 1..Len(log) /\ a.answer = "open"
            /\ log[a.row].status = "sent" /\ log[a.row].hash \in Ops
      <3>1. ASSUME NEW i \in Newest(PendingRows)
            PROVE  /\ i \in 1..Len(log)
                   /\ log[i].status = "sent" /\ log[i].hash \in Ops
        <4>1. i \in PendingRows
          BY DEF Newest
        <4>2. i \in 1..Len(log) /\ log[i].status = "sent" /\ log[i].hash # NoOp
          BY <4>1 DEF PendingRows
        <4>. QED  BY <2>2, <4>2 DEF Rows
      <3>. QED  BY <3>1
    <2>4. AsksAreTrue'
      <3>. HIDE DEF new
      <3>. QED  BY <1>0, <2>1, <2>3 DEF WriteLogInv, AsksAreTrue, TrueOutcome
    <2>5. SettledRowsAreTrue'
      BY <1>0, <2>1 DEF WriteLogInv, SettledRowsAreTrue
    <2>. QED  BY <1>i, <2>4, <2>5 DEF WriteLogInv, IncludedExecuted
  <1>2. ASSUME NEW a \in asks[r], ReceiptAnswered(r, a) PROVE WriteLogInv'
    <2>. DEFINE h == log[a.row].hash
    <2>1. /\ a \in Asks /\ a.row \in 1..Len(log)
          /\ log[a.row].status = "sent" /\ h \in Ops
      BY DEF WriteLogInv, AsksAreTrue
    <2>2. h \in executed /\ Receipt(h) = TrueOutcome(h)
      BY <1>2 DEF ReceiptAnswered, Receipt, TrueOutcome, WriteLogInv
    <2>3. PICK b : /\ b.row = a.row /\ b.answer = TrueOutcome(h)
                   /\ log' = log /\ asks' = [asks EXCEPT ![r] = (@ \ {a}) \cup {b}]
      BY <1>2, <2>1, <2>2 DEF ReceiptAnswered, Asks
    <2>4. AsksAreTrue'
      BY <1>0, <2>1, <2>2, <2>3 DEF WriteLogInv, AsksAreTrue, TrueOutcome
    <2>5. SettledRowsAreTrue'
      BY <1>0, <2>3 DEF WriteLogInv, SettledRowsAreTrue
    <2>. QED  BY <1>i, <2>4, <2>5 DEF WriteLogInv, IncludedExecuted
  <1>3. ASSUME log' = log, asks' \in [Reads -> SUBSET Asks],
               \A q \in Reads : asks'[q] \subseteq asks[q]
        PROVE  WriteLogInv'
    BY <1>0, <1>3, <1>i
       DEF WriteLogInv, IncludedExecuted, AsksAreTrue, SettledRowsAreTrue, TrueOutcome
  <1>4. ASSUME NEW a \in asks[r], NoReceipt(r, a) PROVE WriteLogInv'
    BY <1>3, <1>4 DEF NoReceipt
  <1>5. CASE FinishRead(r)
    BY <1>3, <1>5 DEF FinishRead
  <1>6. ASSUME NEW a \in asks[r], Settle(r, a) PROVE WriteLogInv'
    <2>1. /\ a \in Asks /\ a.row \in 1..Len(log) /\ a.answer # "open"
          /\ log[a.row].status = "sent"
          /\ log[a.row].hash \in executed /\ a.answer = TrueOutcome(log[a.row].hash)
      BY <1>6 DEF Settle, WriteLogInv, AsksAreTrue
    <2>2. a.answer \in Successes
      BY <2>1 DEF Asks, Successes
    <2>3. /\ Len(log') = Len(log)
          /\ \A j \in 1..Len(log) :
               /\ log'[j].status = log[j].status /\ log'[j].hash = log[j].hash
               /\ log'[j].success = IF j = a.row THEN a.answer ELSE log[j].success
      BY <1>6, <2>1, <2>2, RowFacts DEF Settle
    <2>4. asks' = [asks EXCEPT ![r] = @ \ {a}]
      BY <1>6 DEF Settle
    <2>5. AsksAreTrue'
      BY <1>0, <2>3, <2>4 DEF WriteLogInv, AsksAreTrue, TrueOutcome
    <2>6. SettledRowsAreTrue'
      BY <1>0, <2>1, <2>3 DEF WriteLogInv, SettledRowsAreTrue, TrueOutcome
    <2>. QED  BY <1>i, <2>5, <2>6 DEF WriteLogInv, IncludedExecuted
  <1>. QED  BY <1>1, <1>2, <1>4, <1>5, <1>6 DEF ReadStep

LEMMA BundlerKeepsInv ==
  ASSUME TypeOK, WriteLogInv, BundlerWorks
  PROVE  WriteLogInv'
  <1>1. log' = log /\ asks' = asks
    BY DEF BundlerWorks
  <1>2. executed \subseteq executed'
    BY DEF BundlerWorks, Service!Execute, Service!Settle, Service!Forget
  <1>3. IncludedExecuted'
    <2>1. CASE Service!Execute
      BY <1>2, <2>1 DEF Service!Execute, WriteLogInv, IncludedExecuted
    <2>2. CASE Service!Settle
      BY <2>2 DEF Service!Settle, WriteLogInv, IncludedExecuted
    <2>3. CASE Service!Forget
      BY <2>3 DEF Service!Forget, WriteLogInv, IncludedExecuted
    <2>. QED  BY <2>1, <2>2, <2>3 DEF BundlerWorks
  <1>4. AsksAreTrue' /\ SettledRowsAreTrue'
    BY <1>1, <1>2 DEF WriteLogInv, AsksAreTrue, SettledRowsAreTrue, TrueOutcome
  <1>. QED  BY <1>3, <1>4 DEF WriteLogInv, IncludedExecuted

LEMMA InvNext == TypeOK /\ WriteLogInv /\ [Next]_vars => WriteLogInv'
  <1>1. ASSUME TypeOK, WriteLogInv, UNCHANGED vars PROVE WriteLogInv'
    BY <1>1 DEF vars, WriteLogInv, AsksAreTrue, SettledRowsAreTrue, TrueOutcome
  <1>. QED  BY <1>1, WriteKeepsInv, ReadKeepsInv, BundlerKeepsInv DEF Next

\* A row of the write log that shows an outcome shows what the chain did, for
\* any number of writes, readers, restarts and lost answers (settlePending).
THEOREM LogTellsTheTruth == Spec => []SettledRowsAreTrue
  <1>1. Init => WriteLogInv
    BY EmptySeq DEF Init, Service!Init, WriteLogInv, AsksAreTrue, SettledRowsAreTrue
  <1>2. Spec => []WriteLogInv
    BY <1>1, TypeCorrect, InvNext, PTL DEF Spec
  <1>. QED  BY <1>2, PTL DEF WriteLogInv

\* No read changes an outcome that a row already shows, however many readers
\* settle it at once and however late their answers come (log.settle).
THEOREM OutcomesAreKept == Spec => OutcomeIsKept
  <1>. DEFINE Kept ==
         \A i \in 1..Len(log) : log[i].success # "null" => log'[i].success = log[i].success
  <1>1. ASSUME TypeOK, WriteLogInv, [Next]_vars PROVE Kept
    <2>1. ASSUME NEW w \in Writes, WriteStep(w) PROVE Kept
      <3>1. CASE log' = log
        BY <3>1
      <3>2. CASE Extends(w)
        <4>1. PICK st \in RowStatuses, h \in Ops \cup {NoOp} : log' = Append(log, Row(w, st, h))
          BY <3>2 DEF Extends
        <4>2. \A i \in 1..Len(log) : log'[i] = log[i]
          BY <1>1, <4>1, AppendFacts
        <4>. QED  BY <4>2
      <3>. QED  BY <1>1, <2>1, <3>1, <3>2, WriteSteps
    <2>2. ASSUME NEW r \in Reads, NEW a \in asks[r], Settle(r, a) PROVE Kept
      <3>1. /\ a \in Asks /\ a.row \in 1..Len(log)
            /\ a.answer = TrueOutcome(log[a.row].hash)
        BY <1>1, <2>2 DEF Settle, WriteLogInv, AsksAreTrue, TypeOK
      <3>2. a.answer \in Successes
        BY <3>1 DEF Asks, Successes, TrueOutcome
      <3>3. \A j \in 1..Len(log) :
              log'[j].success = IF j = a.row THEN a.answer ELSE log[j].success
        BY <1>1, <2>2, <3>1, <3>2, RowFacts DEF Settle
      <3>4. log[a.row].success # "null" => log[a.row].success = a.answer
        BY <1>1, <3>1 DEF WriteLogInv, SettledRowsAreTrue, TrueOutcome
      <3>. QED  BY <3>3, <3>4
    <2>3. ASSUME log' = log PROVE Kept
      BY <2>3
    <2>4. ASSUME NEW r \in Reads, ReadStep(r) PROVE Kept
      BY <2>2, <2>3, <2>4 DEF ReadStep, StartRead, ReceiptAnswered, NoReceipt, FinishRead
    <2>5. CASE BundlerWorks \/ UNCHANGED vars
      BY <2>3, <2>5 DEF BundlerWorks, vars
    <2>. QED  BY <1>1, <2>1, <2>4, <2>5 DEF Next
  <1>2. TypeOK /\ WriteLogInv /\ [Next]_vars => [Kept]_vars
    BY <1>1
  <1>3. Init => WriteLogInv
    BY EmptySeq DEF Init, Service!Init, WriteLogInv, AsksAreTrue, SettledRowsAreTrue
  <1>4. Spec => []WriteLogInv
    BY <1>3, TypeCorrect, InvNext, PTL DEF Spec
  <1>. QED  BY <1>2, <1>4, TypeCorrect, PTL DEF Spec, OutcomeIsKept

----------------------------------------------------------------------------
(* What is recorded of a write                                             *)

\* A write's row is inserted before it is answered; if that throws, the answer
\* is the 500 of apiHandler.
LEMMA RecordSteps ==
  ASSUME TypeOK, NEW w \in Writes, NEW st \in RowStatuses, NEW h \in Ops \cup {NoOp}, NEW what,
         Record(w, st, h, what)
  PROVE  /\ wpc' = [wpc EXCEPT ![w] = "done"]
         /\ \/ /\ RecordMayFail
               /\ log' = log
               /\ reply' = [reply EXCEPT ![w] = "internal"]
            \/ /\ reply' = [reply EXCEPT ![w] = what]
               /\ Len(log') = Len(log) + 1
               /\ \A i \in 1..Len(log) : log'[i] = log[i]
               /\ log'[Len(log) + 1] = [write |-> w, status |-> st, hash |-> h, success |-> "null"]
         /\ Len(log) \in Nat
  <1>1. wpc' = [wpc EXCEPT ![w] = "done"]
    BY DEF Record, Answer
  <1>2. Len(log) \in Nat
    BY LenProperties DEF TypeOK
  <1>3. CASE log' = Append(log, Row(w, st, h)) /\ Answer(w, what)
    BY <1>1, <1>2, <1>3, AppendFacts DEF Answer
  <1>4. CASE RecordMayFail /\ UNCHANGED log /\ Answer(w, "internal")
    BY <1>1, <1>2, <1>4 DEF Answer
  <1>. QED  BY <1>3, <1>4 DEF Record

\* A reader changes nothing in a row but its outcome.
LEMMA ReadKeepsRows ==
  ASSUME TypeOK, AsksAreTrue, NEW r \in Reads, ReadStep(r)
  PROVE  /\ UNCHANGED writeVars
         /\ Len(log') = Len(log)
         /\ \A i \in 1..Len(log) :
              /\ log'[i].write = log[i].write
              /\ log'[i].status = log[i].status
              /\ log'[i].hash = log[i].hash
  <1>1. ASSUME NEW a \in asks[r], Settle(r, a)
        PROVE  /\ UNCHANGED writeVars
               /\ Len(log') = Len(log)
               /\ \A i \in 1..Len(log) :
                    /\ log'[i].write = log[i].write
                    /\ log'[i].status = log[i].status
                    /\ log'[i].hash = log[i].hash
    <2>1. a.row \in 1..Len(log) /\ a \in Asks
      BY DEF AsksAreTrue, TypeOK
    <2>2. a.answer \in Successes
      BY <1>1, <2>1 DEF Settle, Asks, Successes
    <2>. QED  BY <1>1, <2>1, <2>2, RowFacts DEF Settle
  <1>. QED  BY <1>1 DEF ReadStep, StartRead, ReceiptAnswered, NoReceipt, FinishRead

LEMMA RecordKeepsInv ==
  ASSUME TypeOK, RecordInv, NEW w \in Writes, wpc[w] # "done",
         NEW st \in RowStatuses, NEW h \in Ops \cup {NoOp}, NEW what \in {"blocked", "hash", "error"},
         Record(w, st, h, what),
         st = RowFor[what], h = IF what = "hash" THEN OpOf[w] ELSE NoOp,
         what = "hash" => carried'[w] = "hash",
         \A v \in Writes : v # w => carried'[v] = carried[v]
  PROVE  RecordInv'
  <1>. USE DEF TypeOK
  <1>1. wpc' = [wpc EXCEPT ![w] = "done"] /\ Len(log) \in Nat
    BY RecordSteps
  <1>2. CASE log' = log /\ reply' = [reply EXCEPT ![w] = "internal"]
    BY <1>1, <1>2 DEF RecordInv, AnsweredIsLogged
  <1>3. CASE /\ reply' = [reply EXCEPT ![w] = what]
             /\ Len(log') = Len(log) + 1
             /\ \A i \in 1..Len(log) : log'[i] = log[i]
             /\ log'[Len(log) + 1] = [write |-> w, status |-> st, hash |-> h, success |-> "null"]
    <2>1. \A i \in 1..Len(log') : i \in 1..Len(log) \/ i = Len(log) + 1
      BY <1>1, <1>3
    <2>2. \A v \in Writes : reply'[v] # "none" => wpc'[v] = "done"
      BY <1>1, <1>3 DEF RecordInv
    <2>3. ASSUME NEW i \in 1..Len(log') PROVE wpc'[log'[i].write] = "done"
      <3>1. CASE i = Len(log) + 1
        BY <1>1, <1>3, <3>1
      <3>2. CASE i \in 1..Len(log)
        <4>1. log[i] \in Rows
          BY <3>2, ElementOfSeq
        <4>. QED  BY <1>1, <1>3, <3>2, <4>1 DEF RecordInv, Rows
      <3>. QED  BY <2>1, <3>1, <3>2
    <2>4. ASSUME NEW v \in Writes, reply'[v] \notin {"none", "internal"}
          PROVE  /\ reply'[v] = "hash" => carried'[v] = "hash"
                 /\ \E i \in 1..Len(log') :
                      /\ log'[i].write = v
                      /\ log'[i].status = RowFor[reply'[v]]
                      /\ log'[i].hash = IF reply'[v] = "hash" THEN OpOf[v] ELSE NoOp
      <3>1. CASE v = w
        <4>1. /\ Len(log) + 1 \in 1..Len(log')
              /\ log'[Len(log) + 1].write = w
              /\ log'[Len(log) + 1].status = RowFor[what]
              /\ log'[Len(log) + 1].hash = IF what = "hash" THEN OpOf[w] ELSE NoOp
              /\ reply'[w] = what
          BY <1>1, <1>3, <2>4, <3>1
        <4>. QED  BY <3>1, <4>1
      <3>2. CASE v # w
        <4>1. reply'[v] = reply[v] /\ carried'[v] = carried[v]
          BY <1>3, <2>4, <3>2
        <4>2. PICK i \in 1..Len(log) :
                /\ log[i].write = v
                /\ log[i].status = RowFor[reply[v]]
                /\ log[i].hash = IF reply[v] = "hash" THEN OpOf[v] ELSE NoOp
          BY <2>4, <4>1 DEF RecordInv, AnsweredIsLogged
        <4>3. i \in 1..Len(log') /\ log'[i] = log[i]
          BY <1>1, <1>3, <4>2
        <4>. QED  BY <2>4, <4>1, <4>2, <4>3 DEF RecordInv, AnsweredIsLogged
      <3>. QED  BY <3>1, <3>2
    <2>. QED  BY <2>2, <2>3, <2>4 DEF RecordInv, AnsweredIsLogged
  <1>. QED  BY <1>2, <1>3, RecordSteps

LEMMA RecordNext == TypeOK /\ WriteLogInv /\ RecordInv /\ [Next]_vars => RecordInv'
  <1>. SUFFICES ASSUME TypeOK, WriteLogInv, RecordInv, [Next]_vars PROVE RecordInv'
    OBVIOUS
  <1>. USE DEF TypeOK
  <1>w. \A i \in 1..Len(log) : log[i].write \in Writes
    <2>1. \A i \in 1..Len(log) : log[i] \in Rows
      BY ElementOfSeq
    <2>. QED  BY <2>1 DEF Rows
  <1>k. ASSUME NEW w \in Writes, wpc[w] # "done", log' = log,
               NEW p \in {"forwarded", "done"}, wpc' = [wpc EXCEPT ![w] = p],
               \/ reply' = reply
               \/ p = "done" /\ reply' = [reply EXCEPT ![w] = "internal"],
               \A v \in Writes : v # w => carried'[v] = carried[v]
        PROVE  RecordInv'
    <2>1. reply[w] = "none" /\ \A i \in 1..Len(log) : log[i].write # w
      BY <1>k DEF RecordInv
    <2>2. \A v \in Writes : reply'[v] # "none" => wpc'[v] = "done"
      BY <1>k, <2>1 DEF RecordInv
    <2>3. \A i \in 1..Len(log) : wpc'[log[i].write] = "done"
      BY <1>k, <1>w, <2>1 DEF RecordInv
    <2>4. \A v \in Writes : reply'[v] \notin {"none", "internal"} => reply'[v] = reply[v] /\ v # w
      BY <1>k, <2>1
    <2>5. AnsweredIsLogged'
      BY <1>k, <2>4 DEF RecordInv, AnsweredIsLogged
    <2>. QED  BY <1>k, <2>2, <2>3, <2>5 DEF RecordInv
  <1>s. ASSUME UNCHANGED <<wpc, reply, log>>,
               \A v \in Writes : carried[v] = "hash" => carried'[v] = "hash"
        PROVE  RecordInv'
    BY <1>s DEF RecordInv, AnsweredIsLogged
  <1>1. ASSUME NEW w \in Writes, WriteStep(w) PROVE RecordInv'
    <2>0. OpOf[w] \in Ops
      BY WritesAssumption
    <2>1. CASE Receive(w)
      <3>1. CASE /\ Record(w, "rejected", NoOp, "blocked") /\ UNCHANGED carried
                 /\ wpc[w] = "idle"
        BY <3>1, RecordKeepsInv DEF RowStatuses, RowFor
      <3>2. CASE /\ Answer(w, "internal") /\ UNCHANGED <<carried, log>> /\ wpc[w] = "idle"
        BY <1>k, <3>2 DEF Answer
      <3>3. CASE /\ wpc' = [wpc EXCEPT ![w] = "forwarded"]
                 /\ carried' = [carried EXCEPT ![w] = "sent"]
                 /\ UNCHANGED <<reply, log>> /\ wpc[w] = "idle"
        BY <1>k, <3>3
      <3>. QED  BY <2>1, <3>1, <3>2, <3>3 DEF Receive
    <2>2. CASE AnswerArrives(w)
      BY <2>0, <2>2, RecordKeepsInv DEF AnswerArrives, RowStatuses, RowFor
    <2>3. CASE FetchFails(w)
      <3>1. /\ wpc[w] # "done" /\ Record(w, "failed", NoOp, "error")
            /\ \A v \in Writes : v # w => carried'[v] = carried[v]
        BY <2>3 DEF FetchFails
      <3>. QED  BY <3>1, RecordKeepsInv DEF RowStatuses, RowFor
    <2>4. CASE BodyFails(w)
      BY <1>k, <2>4 DEF BodyFails, Answer
    <2>5. CASE BundlerAccepts(w) \/ BundlerRefuses(w)
      <3>1. /\ UNCHANGED <<wpc, reply, log>>
            /\ \A v \in Writes : carried[v] = "hash" => carried'[v] = "hash"
        BY <2>5 DEF BundlerAccepts, BundlerRefuses
      <3>. QED  BY <1>s, <3>1
    <2>. QED  BY <1>1, <2>1, <2>2, <2>3, <2>4, <2>5 DEF WriteStep
  <1>2. ASSUME NEW r \in Reads, ReadStep(r) PROVE RecordInv'
    <2>1. /\ UNCHANGED writeVars
          /\ Len(log') = Len(log)
          /\ \A i \in 1..Len(log) : /\ log'[i].write = log[i].write
                                   /\ log'[i].status = log[i].status
                                   /\ log'[i].hash = log[i].hash
      BY <1>2, ReadKeepsRows DEF WriteLogInv
    <2>2. \A i \in 1..Len(log') : wpc'[log'[i].write] = "done"
      BY <2>1 DEF RecordInv, writeVars
    <2>3. AnsweredIsLogged'
      <3>. SUFFICES ASSUME NEW v \in Writes, reply[v] \notin {"none", "internal"}
                    PROVE  /\ reply[v] = "hash" => carried[v] = "hash"
                           /\ \E i \in 1..Len(log') :
                                /\ log'[i].write = v
                                /\ log'[i].status = RowFor[reply[v]]
                                /\ log'[i].hash = IF reply[v] = "hash" THEN OpOf[v] ELSE NoOp
        BY <2>1 DEF AnsweredIsLogged, writeVars
      <3>1. PICK i \in 1..Len(log) :
              /\ log[i].write = v
              /\ log[i].status = RowFor[reply[v]]
              /\ log[i].hash = IF reply[v] = "hash" THEN OpOf[v] ELSE NoOp
        BY DEF RecordInv, AnsweredIsLogged
      <3>2. i \in 1..Len(log')
        BY <2>1
      <3>3. reply[v] = "hash" => carried[v] = "hash"
        BY DEF RecordInv, AnsweredIsLogged
      <3>. QED  BY <2>1, <3>1, <3>2, <3>3
    <2>. QED  BY <2>1, <2>2, <2>3 DEF RecordInv, writeVars
  <1>3. CASE BundlerWorks \/ UNCHANGED vars
    BY <1>s, <1>3 DEF BundlerWorks, vars, writeVars
  <1>. QED  BY <1>1, <1>2, <1>3 DEF Next

LEMMA InvHolds == Spec => [](TypeOK /\ WriteLogInv /\ RecordInv)
  <1>1. Init => WriteLogInv /\ RecordInv
    BY EmptySeq DEF Init, Service!Init, WriteLogInv, AsksAreTrue, SettledRowsAreTrue,
                    RecordInv, AnsweredIsLogged
  <1>. QED  BY <1>1, TypeCorrect, InvNext, RecordNext, PTL DEF Spec

\* What the page was told of a write is in the log and says the same, however many
\* answers get lost and inserts fail: the row comes before the answer (handleBundler).
THEOREM AnswersAreLogged == Spec => []AnsweredIsLogged
  <1>1. RecordInv => AnsweredIsLogged
    BY DEF RecordInv
  <1>. QED  BY <1>1, InvHolds, PTL
=============================================================================
