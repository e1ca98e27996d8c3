------------------------------ MODULE WriteLog ------------------------------
(***************************************************************************)
(* The write path of the example's backend                                 *)
(* (examples/privy-google-aa/server): handleBundler forwards a user        *)
(* operation to the bundler and records the attempt in the write log       *)
(* (userop-log.mjs); handleHistory first settles pending rows by asking    *)
(* the bundler for receipts, then returns the newest rows.                 *)
(*                                                                         *)
(* The bundler is the one UserOpLifecycle promises: an item there is the   *)
(* write that submitted it.  Its own clients do not overlap duplicates, so *)
(* an operation it knows is not accepted a second time.                    *)
(***************************************************************************)
EXTENDS Integers, Sequences, FiniteSets

CONSTANTS
  Writes,            \* POST /api/bundler requests that carry a session
  Reads,             \* concurrent readers of GET /api/history
  Ops,               \* user operations, by hash
  OpOf,              \* the operation of a write
  PolicyOf,          \* what writePolicy().check may do with it, see Verdicts
  InnerReverts,      \* operations whose inner call reverts
  NoOp,              \* a row without user_op_hash
  Limit,             \* the "limit" of a history read
  AnswersMayBeLost,  \* may a fetch to the bundler fail or its body break off
  RecordMayFail      \* may an INSERT into the log throw

\* check returns, throws a PolicyError, or throws something else (dataSlice on
\* data that is too short).
Verdicts == {"allowed", "denied", "throws"}

ASSUME WritesAssumption ==
  /\ IsFiniteSet(Writes)
  /\ OpOf \in [Writes -> Ops]
  /\ PolicyOf \in [Writes -> SUBSET Verdicts]
  /\ InnerReverts \subseteq Ops
  /\ NoOp \notin Ops
ASSUME LimitsAssumption ==
  /\ Limit \in Nat \ {0}
  /\ AnswersMayBeLost \in BOOLEAN
  /\ RecordMayFail \in BOOLEAN

VARIABLES
  wpc,      \* where the handler of each write stands
  carried,  \* the forwarded request: on its way, or what the bundler answered
  reply,    \* what the handler answered the page
  log,      \* rows of userop_log, in id order
  rpc,      \* where each reader stands
  asks,     \* receipt requests of each reader's settlePending still open
  outcome,  \* the bundler's items, see UserOpLifecycle
  executed  \* operations the chain executed

Service == INSTANCE UserOpLifecycle WITH Items <- Writes

writeVars == <<wpc, carried, reply>>
readVars == <<rpc, asks>>
serviceVars == <<outcome, executed>>
vars == <<writeVars, log, readVars, serviceVars>>

RowStatuses == {"sent", "failed", "rejected"}
Successes == {"null", "true", "false"}
Rows == [write : Writes, status : RowStatuses, hash : Ops \cup {NoOp}, success : Successes]
Asks == [row : Nat, answer : {"open", "true", "false"}]

TypeOK ==
  /\ wpc \in [Writes -> {"idle", "forwarded", "done"}]
  /\ carried \in [Writes -> {"none", "sent", "hash", "error", "dropped"}]
  /\ reply \in [Writes -> {"none", "blocked", "hash", "error", "internal"}]
  /\ log \in Seq(Rows)
  /\ rpc \in [Reads -> {"idle", "settling"}]
  /\ asks \in [Reads -> SUBSET Asks]
  /\ outcome \in [Writes -> {"none", "pending", "included", "failed", "forgotten"}]
  /\ executed \in SUBSET Ops

Init ==
  /\ wpc = [w \in Writes |-> "idle"]
  /\ carried = [w \in Writes |-> "none"]
  /\ reply = [w \in Writes |-> "none"]
  /\ log = <<>>
  /\ rpc = [r \in Reads |-> "idle"]
  /\ asks = [r \in Reads |-> {}]
  /\ Service!Init

----------------------------------------------------------------------------
(* handleBundler                                                           *)

Row(w, st, h) == [write |-> w, status |-> st, hash |-> h, success |-> "null"]

Answer(w, what) ==
  /\ wpc' = [wpc EXCEPT ![w] = "done"]
  /\ reply' = [reply EXCEPT ![w] = what]

\* Fault: a row that cannot be inserted does not stop the answer.
RecordQuietly(w, st, h, what) ==
  /\ Answer(w, what)
  /\ \/ log' = Append(log, Row(w, st, h))
     \/ RecordMayFail /\ UNCHANGED log

\* userOpLog().record, then the answer; an INSERT that throws ends in the 500
\* of apiHandler.
Record(w, st, h, what) ==
  \/ /\ log' = Append(log, Row(w, st, h))
     /\ Answer(w, what)
  \/ /\ RecordMayFail
     /\ UNCHANGED log
     /\ Answer(w, "internal")

\* A denied write is recorded and blocked; an error of the check that is no
\* PolicyError is rethrown; an allowed write is forwarded.
Receive(w) ==
  /\ wpc[w] = "idle"
  /\ \/ /\ "denied" \in PolicyOf[w]
        /\ Record(w, "rejected", NoOp, "blocked")
        /\ UNCHANGED carried
     \/ /\ "throws" \in PolicyOf[w]
        /\ Answer(w, "internal")
        /\ UNCHANGED <<carried, log>>
     \/ /\ "allowed" \in PolicyOf[w]
        /\ wpc' = [wpc EXCEPT ![w] = "forwarded"]
        /\ carried' = [carried EXCEPT ![w] = "sent"]
        /\ UNCHANGED <<reply, log>>
  /\ UNCHANGED <<readVars, serviceVars>>

\* The bundler's answer arrives: a hash is a "sent" row, an error a "failed".
AnswerArrives(w) ==
  /\ wpc[w] = "forwarded"
  /\ \/ carried[w] = "hash" /\ Record(w, "sent", OpOf[w], "hash")
     \/ carried[w] = "error" /\ Record(w, "failed", NoOp, "error")
  /\ UNCHANGED <<carried, readVars, serviceVars>>

\* fetch throws: the bundler may not have got the request, may still get it,
\* or may have answered it already.
FetchFails(w) ==
  /\ AnswersMayBeLost
  /\ wpc[w] = "forwarded"
  /\ Record(w, "failed", NoOp, "error")
  /\ \/ UNCHANGED carried
     \/ carried[w] = "sent" /\ carried' = [carried EXCEPT ![w] = "dropped"]
  /\ UNCHANGED <<readVars, serviceVars>>

\* The answer's body breaks off: upstream.text() throws past the handler.
BodyFails(w) ==
  /\ AnswersMayBeLost
  /\ wpc[w] = "forwarded"
  /\ carried[w] \in {"hash", "error"}
  /\ Answer(w, "internal")
  /\ UNCHANGED <<carried, log, readVars, serviceVars>>

----------------------------------------------------------------------------
(* The bundler                                                             *)

Live == {"pending", "included", "failed"}
Known(h) == \E w \in Writes : OpOf[w] = h /\ outcome[w] \in Live

\* The bundler handles a forwarded request.  One for an operation it knows makes no
\* new item, unless it was under way before the operation was known.  It may refuse
\* one it knows too: computing the hash is a call to the node.
BundlerAccepts(w) ==
  /\ carried[w] = "sent"
  /\ carried' = [carried EXCEPT ![w] = "hash"]
  /\ \/ Known(OpOf[w]) /\ UNCHANGED serviceVars
     \/ Service!Accept(w)
  /\ UNCHANGED <<wpc, reply, log, readVars>>

BundlerRefuses(w) ==
  /\ carried[w] = "sent"
  /\ carried' = [carried EXCEPT ![w] = "error"]
  /\ UNCHANGED <<wpc, reply, log, readVars, serviceVars>>

\* Bundles are executed and settled, and the bundler may restart.
BundlerWorks ==
  /\ Service!Execute \/ Service!Settle \/ Service!Forget
  /\ UNCHANGED <<writeVars, log, readVars>>

\* eth_getUserOperationReceipt: "null" until the operation is included.
Receipt(h) ==
  IF \E w \in Writes : OpOf[w] = h /\ outcome[w] = "included"
  THEN IF h \in InnerReverts THEN "false" ELSE "true"
  ELSE "null"

----------------------------------------------------------------------------
(* handleHistory and settlePending                                         *)

\* log.pending(limit): the newest rows without an outcome.
PendingRows ==
  {i \in 1..Len(log) :
     log[i].status = "sent" /\ log[i].hash # NoOp /\ log[i].success = "null"}

\* Fault: one row fewer than the limit.
NewestButOne(S) == {i \in S : Cardinality({j \in S : j > i}) < Limit - 1}

Newest(S) == {i \in S : Cardinality({j \in S : j > i}) < Limit}

StartRead(r) ==
  /\ rpc[r] = "idle"
  /\ rpc' = [rpc EXCEPT ![r] = "settling"]
  /\ asks' = [asks EXCEPT ![r] = {[row |-> i, answer |-> "open"] : i \in Newest(PendingRows)}]
  /\ UNCHANGED <<writeVars, log, serviceVars>>

\* Fault: a receipt is taken to mean that the inner call succeeded.
ReceiptAnsweredOk(r, a) ==
  /\ a.answer = "open"
  /\ Receipt(log[a.row].hash) # "null"
  /\ asks' = [asks EXCEPT ![r] = (@ \ {a}) \cup {[a EXCEPT !.answer = "true"]}]
  /\ UNCHANGED <<writeVars, log, rpc, serviceVars>>

\* Fault: a missing receipt is taken for a failure.
ReceiptMissingFails(r, a) ==
  /\ a.answer = "open"
  /\ asks' = [asks EXCEPT ![r] = (@ \ {a}) \cup
       {[a EXCEPT !.answer = IF Receipt(log[a.row].hash) = "true" THEN "true" ELSE "false"]}]
  /\ UNCHANGED <<writeVars, log, rpc, serviceVars>>

\* The bundler answers one of the parallel requests with a receipt ...
ReceiptAnswered(r, a) ==
  /\ a.answer = "open"
  /\ Receipt(log[a.row].hash) # "null"
  /\ asks' = [asks EXCEPT ![r] =
                (@ \ {a}) \cup {[a EXCEPT !.answer = Receipt(log[a.row].hash)]}]
  /\ UNCHANGED <<writeVars, log, rpc, serviceVars>>

\* Fault: the request is repeated until there is a receipt.
NoReceiptRepeats(r, a) == a.answer = "open" /\ UNCHANGED vars

\* ... or with null, or not at all: the row stays pending.
NoReceipt(r, a) ==
  /\ \/ a.answer = "open" /\ Receipt(log[a.row].hash) = "null"
     \/ AnswersMayBeLost
  /\ asks' = [asks EXCEPT ![r] = @ \ {a}]
  /\ UNCHANGED <<writeVars, log, rpc, serviceVars>>

\* outcomeFromReceipt, then log.settle.
Settle(r, a) ==
  /\ a.answer # "open"
  /\ log' = [log EXCEPT ![a.row].success = a.answer]
  /\ asks' = [asks EXCEPT ![r] = @ \ {a}]
  /\ UNCHANGED <<writeVars, rpc, serviceVars>>

\* Promise.all has resolved: recent(limit) is returned.
FinishRead(r) ==
  /\ rpc[r] = "settling"
  /\ asks[r] = {}
  /\ rpc' = [rpc EXCEPT ![r] = "idle"]
  /\ UNCHANGED <<writeVars, log, asks, serviceVars>>

ReadStep(r) ==
  \/ StartRead(r)
  \/ \E a \in asks[r] : ReceiptAnswered(r, a) \/ NoReceipt(r, a) \/ Settle(r, a)
  \/ FinishRead(r)

WriteStep(w) ==
  \/ Receive(w)
  \/ AnswerArrives(w)
  \/ FetchFails(w)
  \/ BodyFails(w)
  \/ BundlerAccepts(w)
  \/ BundlerRefuses(w)

Next ==
  \/ \E w \in Writes : WriteStep(w)
  \/ \E r \in Reads : ReadStep(r)
  \/ BundlerWorks

Spec == Init /\ [][Next]_vars

\* The page keeps reading the log and its requests end somehow; of the answers about a
\* row that is asked for again and again not all are lost; the bundler settles what it
\* accepted (Bundler: PendingSettles).  Nothing is assumed of writes, or of what the
\* chain executes.
Fairness ==
  /\ \A r \in Reads :
       /\ WF_vars(StartRead(r))
       /\ WF_vars(\E a \in asks[r] :
                    ReceiptAnswered(r, a) \/ NoReceipt(r, a) \/ Settle(r, a))
       /\ WF_vars(FinishRead(r))
       /\ \A i \in 1..Cardinality(Writes) :
            /\ SF_vars(\E a \in asks[r] : a.row = i /\ ReceiptAnswered(r, a))
            /\ SF_vars(\E a \in asks[r] : a.row = i /\ Settle(r, a))
  /\ WF_vars(Service!Settle /\ UNCHANGED <<writeVars, log, readVars>>)

FairSpec == Spec /\ Fairness

----------------------------------------------------------------------------
(* Properties                                                              *)

\* A row that shows an outcome shows the true one: its operation was executed,
\* and "executed" or "reverted" is what its inner call did (outcomeFromReceipt),
\* also after the bundler has restarted or answers arrive late.
SettledRowsAreTrue ==
  \A i \in 1..Len(log) : log[i].success # "null" =>
    /\ log[i].status = "sent"
    /\ log[i].hash \in executed
    /\ log[i].success = IF log[i].hash \in InnerReverts THEN "false" ELSE "true"

RowFor == [hash |-> "sent", error |-> "failed", blocked |-> "rejected"]

\* What the page is told of a write is in the log, whatever fails: the row is written
\* before the answer, says the same, and a hash is one the bundler answered with.  Only
\* a write that was answered with the 500 of apiHandler may have no row.
AnsweredIsLogged ==
  \A w \in Writes : reply[w] \notin {"none", "internal"} =>
    /\ reply[w] = "hash" => carried[w] = "hash"
    /\ \E i \in 1..Len(log) :
         /\ log[i].write = w
         /\ log[i].status = RowFor[reply[w]]
         /\ log[i].hash = IF reply[w] = "hash" THEN OpOf[w] ELSE NoOp

\* The inductive invariant behind the theorems of WriteLogProofs: an open
\* receipt request is about a sent row, an answer that is on its way is true,
\* and the bundler calls included only what was executed.
TrueOutcome(h) == IF h \in InnerReverts THEN "false" ELSE "true"

AsksAreTrue ==
  \A r \in Reads : \A a \in asks[r] :
    /\ a.row \in 1..Len(log)
    /\ log[a.row].status = "sent" /\ log[a.row].hash \in Ops
    /\ a.answer # "open" =>
         log[a.row].hash \in executed /\ a.answer = TrueOutcome(log[a.row].hash)

WriteLogInv ==
  /\ AsksAreTrue
  /\ SettledRowsAreTrue
  /\ \A w \in Writes : outcome[w] = "included" => OpOf[w] \in executed

\* A write that was answered, or that has a row, is through with; what the page
\* was answered is in the log.
RecordInv ==
  /\ \A w \in Writes : reply[w] # "none" => wpc[w] = "done"
  /\ \A i \in 1..Len(log) : wpc[log[i].write] = "done"
  /\ AnsweredIsLogged

\* Once a row shows an outcome, no concurrent or later read changes it.
OutcomeIsKept ==
  [][\A i \in 1..Len(log) : log[i].success # "null" =>
       log'[i].success = log[i].success]_vars

\* "The next read tries again" (api.mjs:553): as long as the page reads the log, a row
\* whose operation has a receipt shows its outcome in the end, however often answers
\* are lost, if it stays among the newest Limit pending rows.
InReach(i) == i \in PendingRows /\ Cardinality({j \in PendingRows : j > i}) < Limit

IncludedIsBackfilled ==
  \A i \in 1..Cardinality(Writes) :
    (InReach(i) /\ Receipt(log[i].hash) # "null")
      ~> (~InReach(i) \/ Receipt(log[i].hash) = "null")

\* A history request is answered, however its receipt requests end.
ReadsAreAnswered == \A r \in Reads : rpc[r] = "settling" ~> rpc[r] = "idle"
=============================================================================
