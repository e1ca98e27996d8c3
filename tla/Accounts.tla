------------------------------ MODULE Accounts ------------------------------
(***************************************************************************)
(* The contracts of src/: smart accounts that belong to an owner           *)
(* (LnetAccount.sol), the factory that deploys them at addresses known     *)
(* beforehand (LnetAccountFactory.sol), the paymaster that sponsors        *)
(* operations signed for it (LnetVerifyingPaymaster.sol) and the Storage   *)
(* contract they call.  The EntryPoint is a git submodule; it is modelled  *)
(* from how the contracts and the bundler use it.                          *)
(*                                                                         *)
(* An account's address is the pair <<owner, salt>> that the factory       *)
(* computes it from.  An action is one transaction, but a bundle is        *)
(* validated in one step and then executed call by call, and nothing else  *)
(* happens before it is through.                                           *)
(***************************************************************************)
EXTENDS Integers, Sequences, FiniteSets, SequencesExt

CONSTANTS
  Owners,      \* addresses of people, who own accounts and send transactions
  Salts,
  EntryPoint,  \* its address
  Nobody,      \* no owner, no signer
  Signers,     \* keys that may sign sponsorships
  Admin,       \* the owner of the paymaster
  Ops,         \* signed user operations
  Op,          \* what each says: sender, nonce, init, via, calls
  SignedBy,    \* who signed it
  Sponsor,     \* its paymasterAndData, or NoSponsor: the window it claims, and by
               \* whom and over what the sponsorship service signed
  NoSponsor,
  DirectCalls, \* the calls that people make directly
  MaxBundle,   \* bound on the operations of a bundle
  MaxDeposit,  \* bound on an account's deposit
  MaxTime      \* bound on block.timestamp

Account == Owners \X Salts
Functions == {"set", "create", "initialize", "executeSet", "withdraw", "upgrade"}

\* A call names a function and the account it is about (for "set", none).
Call == [fn : Functions, to : Account]

Contents == [sender : Account, nonce : Nat, init : SUBSET Account,
             via : {"execute", "plain"}, calls : Seq(Call)]
Approvals == [op : Contents, until : Nat, after : Nat]

ASSUME AccountsAssumption ==
  /\ Nobody \notin Owners \cup Signers
  \* An address is of a person, of an account or the EntryPoint's.
  /\ EntryPoint \notin Owners \cup Account /\ Owners \cap Account = {}
  /\ Ops \cap Owners = {}
  /\ Op \in [Ops -> Contents]
  \* Calldata other than execute's names one of the account's other functions.
  /\ \A o \in Ops : Op[o].via = "plain" =>
       /\ Len(Op[o].calls) = 1
       /\ Op[o].calls[1].to = Op[o].sender /\ Op[o].calls[1].fn \notin {"set", "create"}
  /\ SignedBy \in [Ops -> Owners]
  /\ \A o \in Ops : Sponsor[o] # NoSponsor =>
       Sponsor[o].until \in Nat /\ Sponsor[o].after \in Nat /\ Sponsor[o].signed \in Approvals
  /\ DirectCalls \subseteq Call
  /\ MaxBundle \in Nat \ {0} /\ MaxDeposit \in Nat /\ MaxTime \in Nat

VARIABLES
  owner,           \* the owner slot of each account; Nobody before it is deployed
  nonce,           \* EntryPoint: next nonce of each account
  deposit,         \* EntryPoint: deposit of each account
  stored,          \* who has set Storage's value last
  verifyingSigner, \* verifyingSigner
  now,             \* block.timestamp
  running,         \* operations of the present bundle that have yet to end
  step,            \* how many calls the first of them has made
  trial,           \* what these calls have made of the world, or NoTrial
  outcome,         \* how each operation has ended
  paidAt,          \* when, and under which signer, it was sponsored
  view,            \* what simulateValidation saw of it
  done             \* who has made which account do what

stateVars == <<owner, deposit, stored, done>>
opVars == <<nonce, running, step, trial, outcome, paidAt>>
vars == <<stateVars, opVars, verifyingSigner, now, view>>

Deployed == {a \in Account : owner[a] # Nobody}
NoView == <<>>
Unpaid == <<>>
NoTrial == <<>>

\* A world is the state that calls change, and whether all of them went well.
Worlds ==
  [ok : BOOLEAN, owner : [Account -> Owners \cup {Nobody}],
   deposit : [Account -> 0..MaxDeposit], stored : Account \cup Owners \cup {Nobody},
   done : SUBSET ((Ops \cup Owners) \X Account \X Functions)]

World == [ok |-> TRUE, owner |-> owner, deposit |-> deposit, stored |-> stored, done |-> done]

TypeOK ==
  /\ World \in Worlds
  /\ nonce \in [Account -> Nat]
  /\ verifyingSigner \in Signers
  /\ now \in 0..MaxTime
  /\ running \in Seq(Ops)
  /\ step \in Nat
  /\ IF step = 0 THEN trial = NoTrial ELSE trial \in Worlds
  /\ outcome \in [Ops -> {"none", "validated", "success", "reverted"}]
  /\ paidAt \in [Ops -> {Unpaid} \cup ((0..MaxTime) \X Signers)]
  /\ view \in [Ops -> {NoView} \cup (Nat \X BOOLEAN \X (Signers \cup {Nobody}))]
  \* An operation is under way in the bundle exactly when it has no outcome yet.
  /\ \A o \in Ops : outcome[o] = "validated" <=> o \in ToSet(running)

Init ==
  /\ owner = [a \in Account |-> Nobody]
  /\ nonce = [a \in Account |-> 0] /\ deposit = [a \in Account |-> 0]
  /\ stored = Nobody /\ verifyingSigner \in Signers /\ now = 0
  /\ running = <<>> /\ step = 0 /\ trial = NoTrial
  /\ outcome = [o \in Ops |-> "none"]
  /\ paidAt = [o \in Ops |-> Unpaid] /\ view = [o \in Ops |-> NoView]
  /\ done = {}

----------------------------------------------------------------------------
(* Calls, on a world: who is msg.sender, and cause what the call happens   *)
(* on behalf of.                                                           *)

\* Fault: whoever calls may execute.
MayExecuteAny(w, who, a) == TRUE

\* _requireFromEntryPointOrOwner
MayExecute(w, who, a) == who = EntryPoint \/ who = w.owner[a]

\* _onlyOwner
MayManage(w, who, a) == who = w.owner[a] \/ who = a

\* createAccount returns the account that is there, or deploys and initialises it.
Create(w, a) ==
  IF w.owner[a] # Nobody THEN w ELSE [w EXCEPT !.owner[a] = a[1]]

\* Fault: an account can be initialised again.
InitializeAgain(w, who, a) == [w EXCEPT !.owner[a] = who]

\* initialize(who), by who; the initializer modifier lets it through only once.
Initialize(w, who, a) ==
  IF w.owner[a] # Nobody THEN [w EXCEPT !.ok = FALSE] ELSE [w EXCEPT !.owner[a] = who]

\* Storage.set, called by who.
Set(w, who) == [w EXCEPT !.stored = who]

Did(w, cause, a, fn) == [w EXCEPT !.done = @ \cup {<<cause, a, fn>>}]

\* One call.  Those to an address without code go well and do nothing.
Apply(w, cause, who, c) ==
  LET a == c.to  there == w.owner[a] # Nobody IN
  CASE c.fn = "set" /\ who \in Account -> Did(Set(w, who), cause, who, "set")
    [] c.fn = "set" /\ who \notin Account -> Set(w, who)
    [] c.fn = "create" -> Create(w, a)
    [] c.fn \notin {"set", "create"} /\ ~there -> w
    [] c.fn = "initialize" /\ there -> Initialize(w, who, a)
    [] c.fn = "executeSet" /\ there /\ MayExecute(w, who, a) -> Did(Set(w, a), cause, a, "set")
    [] c.fn = "withdraw" /\ there /\ MayManage(w, who, a) /\ w.deposit[a] > 0 ->
         [Did(w, cause, a, "withdraw") EXCEPT !.deposit[a] = @ - 1]
    [] c.fn = "upgrade" /\ there /\ MayManage(w, who, a) -> Did(w, cause, a, "upgrade")
    [] OTHER -> [w EXCEPT !.ok = FALSE]

\* Fault: what went before a failing call stays.
CommitPartly(w) ==
  /\ owner' = w.owner /\ deposit' = w.deposit /\ stored' = w.stored /\ done' = w.done

\* A failing call reverts everything.
Commit(w) ==
  IF w.ok
  THEN owner' = w.owner /\ deposit' = w.deposit /\ stored' = w.stored /\ done' = w.done
  ELSE UNCHANGED stateVars

----------------------------------------------------------------------------
(* handleOps                                                               *)

\* Fault: the window is not covered.
HashWithoutWindow(c, until, after) == <<c>>

\* Fault: the nonce is not covered.
HashWithoutNonce(c, until, after) == <<c.sender, c.init, c.via, c.calls, until, after>>

\* getHash: every field of the operation but paymasterAndData, and the window.
GetHash(c, until, after) ==
  <<c.sender, c.nonce, c.init, c.via, c.calls, until, after>>

\* ECDSA.recover of the hash over the operation and the window that it claims gives
\* the signer only if what was signed has that hash.
Recovers(o) ==
  LET s == Sponsor[o] IN
    /\ s.by = verifyingSigner
    /\ GetHash(s.signed.op, s.signed.until, s.signed.after) = GetHash(Op[o], s.until, s.after)

\* _validatePaymasterUserOp, and what the EntryPoint makes of the window it packs,
\* which is the one that is claimed: no end is written 0.
Sponsored(o) ==
  Sponsor[o] # NoSponsor =>
     /\ Recovers(o)
     /\ Sponsor[o].until = 0 \/ now <= Sponsor[o].until
     /\ now >= Sponsor[o].after

\* Fault: any operation before it counts.
EarlierAny(b, i) == 1..(i - 1)

\* Operations of b before position i that use the same account.
Earlier(b, i) == {j \in 1..(i - 1) : Op[b[j]].sender = Op[b[i]].sender}

\* The owner the account of b[i] has once its initCode has run: initCode deploys
\* that very account, and only if it is not there.
OwnerOf(b, i) ==
  LET o == b[i]  a == Op[o].sender
      created == \E j \in Earlier(b, i) : Op[b[j]].init = {a}
  IN  CASE a \notin Deployed /\ ~created /\ Op[o].init = {a} -> a[1]
        [] a \in Deployed /\ Op[o].init = {} -> owner[a]
        [] a \notin Deployed /\ created /\ Op[o].init = {} -> a[1]
        [] OTHER -> Nobody

\* _validateSignature
SignatureOk(b, i) == OwnerOf(b, i) = SignedBy[b[i]]

\* Everything is validated before anything is executed.
Valid(b) ==
  \A i \in DOMAIN b :
    /\ SignatureOk(b, i)
    /\ Op[b[i]].nonce = nonce[Op[b[i]].sender] + Cardinality(Earlier(b, i))
    /\ Sponsored(b[i])

\* Otherwise handleOps reverts and has no effect.
HandleOps(b) ==
  /\ running = <<>> /\ Valid(b)
  /\ running' = b
  /\ outcome' = [o \in Ops |-> IF o \in ToSet(b) THEN "validated" ELSE outcome[o]]
  /\ owner' = [a \in Account |->
       IF \E o \in ToSet(b) : Op[o].init = {a} THEN a[1] ELSE owner[a]]
  /\ nonce' = [a \in Account |->
       nonce[a] + Cardinality({o \in ToSet(b) : Op[o].sender = a})]
  /\ paidAt' = [o \in Ops |->
       IF o \in ToSet(b) /\ Sponsor[o] # NoSponsor THEN <<now, verifyingSigner>> ELSE paidAt[o]]
  /\ UNCHANGED <<step, trial, deposit, stored, done, verifyingSigner, now, view>>

\* The world as the calls of the running operation have left it.
Here == IF step = 0 THEN World ELSE trial

\* execute and executeBatch make the calls in the account's name; otherwise the
\* EntryPoint has called the account itself.
Caller(o) == IF Op[o].via = "execute" THEN Op[o].sender ELSE EntryPoint

\* The next call of the running operation; one that fails ends it.
CallNext ==
  /\ running # <<>>
  /\ LET o == Head(running) IN
       /\ Here.ok /\ step < Len(Op[o].calls)
       /\ trial' = Apply(Here, o, Caller(o), Op[o].calls[step + 1])
  /\ step' = step + 1
  /\ UNCHANGED <<stateVars, nonce, running, outcome, paidAt, verifyingSigner, now, view>>

\* The EntryPoint records and contains the account's failure.
EndOp ==
  /\ running # <<>>
  /\ LET o == Head(running) IN
       /\ ~Here.ok \/ step = Len(Op[o].calls)
       /\ Commit(Here)
       /\ outcome' = [outcome EXCEPT ![o] = IF Here.ok THEN "success" ELSE "reverted"]
  /\ running' = Tail(running)
  /\ step' = 0 /\ trial' = NoTrial
  /\ UNCHANGED <<nonce, paidAt, verifyingSigner, now, view>>

\* What validating o alone reads, but for the time.
Facts(o) ==
  <<nonce[Op[o].sender], Op[o].sender \in Deployed,
    IF Sponsor[o] = NoSponsor THEN Nobody ELSE verifyingSigner>>

\* simulateValidation (the bundler's, before it accepts o).
Simulate(o) ==
  /\ running = <<>> /\ view[o] = NoView /\ Valid(<<o>>)
  /\ view' = [view EXCEPT ![o] = Facts(o)]
  /\ UNCHANGED <<stateVars, opVars, verifyingSigner, now>>

----------------------------------------------------------------------------
(* Other transactions                                                      *)

\* A transaction of u with one call; it counts only if it goes well.
Transact(u, c) ==
  LET w == Apply(World, u, u, c) IN
  /\ running = <<>> /\ w.ok
  /\ Commit(w)
  /\ UNCHANGED <<opVars, verifyingSigner, now, view>>

\* A transaction of u that has the account a make a call.
TransactBy(u, a, c) ==
  LET w == Apply(World, u, a, c) IN
  /\ running = <<>> /\ a \in Deployed /\ MayExecute(World, u, a) /\ w.ok
  /\ Commit(w)
  /\ UNCHANGED <<opVars, verifyingSigner, now, view>>

\* Anybody may.
AddDeposit(a) ==
  /\ running = <<>> /\ a \in Deployed /\ deposit[a] < MaxDeposit
  /\ deposit' = [deposit EXCEPT ![a] = @ + 1]
  /\ UNCHANGED <<owner, stored, done, opVars, verifyingSigner, now, view>>

\* Fault: the zero address is taken.
SetAnySigner(u, s) ==
  /\ running = <<>> /\ u = Admin
  /\ verifyingSigner' = s
  /\ UNCHANGED <<stateVars, opVars, now, view>>

SetVerifyingSigner(u, s) ==
  /\ running = <<>> /\ u = Admin /\ s # Nobody
  /\ verifyingSigner' = s
  /\ UNCHANGED <<stateVars, opVars, now, view>>

Tick ==
  /\ running = <<>> /\ now < MaxTime
  /\ now' = now + 1
  /\ UNCHANGED <<stateVars, opVars, verifyingSigner, view>>

Bundles == UNION {[1..n -> Ops] : n \in 1..MaxBundle}

Next ==
  \/ \E b \in Bundles : HandleOps(b)
  \/ CallNext
  \/ EndOp
  \/ \E o \in Ops : Simulate(o)
  \/ \E u \in Owners, c \in DirectCalls : Transact(u, c)
  \/ \E u \in Owners, a \in Account, c \in DirectCalls : TransactBy(u, a, c)
  \/ \E a \in Account : AddDeposit(a)
  \/ \E u \in Owners, s \in Signers \cup {Nobody} : SetVerifyingSigner(u, s)
  \/ Tick

Spec == Init /\ [][Next]_vars

----------------------------------------------------------------------------
(* Properties                                                              *)

\* The account at the address that the factory computes for an owner is that
\* owner's, whoever deployed it, and stays so whatever is called on it.
NamedOwnersOwn == \A a \in Account : owner[a] \in {a[1], Nobody}

\* Whatever an account has done, its named owner sent, or signed in an operation
\* that went well: no other person, no operation of theirs and no other account can
\* make it act, and an operation reported as reverted has had no effect, not even
\* through the calls of its batch that went well.
ActsAreAuthorised ==
  \A d \in done :
    IF d[1] \in Ops
    THEN d[2][1] = SignedBy[d[1]] /\ outcome[d[1]] = "success"
    ELSE d[2][1] = d[1]

\* What the paymaster pays for is what the key that is the signer at that time has
\* signed: that operation, at a time within the window that was signed (whatever window
\* the operation claims), and nothing that was signed is paid for twice (the nonce is
\* part of the hash, and the EntryPoint lets it through once).
SponsoredAsSigned ==
  /\ \A o \in Ops : paidAt[o] # Unpaid =>
       LET s == Sponsor[o].signed  at == paidAt[o][1] IN
         /\ Sponsor[o].by = paidAt[o][2]
         /\ s.op = Op[o]
         /\ s.after <= at /\ (s.until # 0 => at <= s.until)
  /\ \A o, p \in Ops :
       paidAt[o] # Unpaid /\ paidAt[p] # Unpaid /\ Sponsor[o].signed = Sponsor[p].signed => o = p

\* What simulateValidation saw of o still holds, and its sponsorship has not ended.
StillFresh(o) ==
  /\ view[o] = Facts(o)
  /\ Sponsor[o] # NoSponsor => Sponsor[o].until = 0 \/ now <= Sponsor[o].until

\* Operations of different accounts do not spoil each other's bundle: it fails only
\* if, for one of them, the nonce, the deployment, the signer or the time has moved
\* on since its simulation.  (The bundler model takes this for granted.)
BundleFailsOnlyIfStale ==
  \A b \in Bundles :
    (/\ \A i \in DOMAIN b : StillFresh(b[i])
     /\ \A i, j \in DOMAIN b : i # j => Op[b[i]].sender # Op[b[j]].sender)
    => Valid(b)

----------------------------------------------------------------------------
(* The inductive invariant of AccountsProofs                               *)

Named(w) == \A a \in Account : w.owner[a] \in {a[1], Nobody}

\* No operation is twice in a bundle, and its account's named owner has signed it.
RunningInv ==
  /\ \A i, j \in DOMAIN running : running[i] = running[j] => i = j
  /\ \A i \in DOMAIN running : SignedBy[running[i]] = Op[running[i]].sender[1]
  /\ step # 0 => running # <<>>

\* What the running operation has had done, its own account did.
TrialInv ==
  step # 0 =>
    /\ Named(trial)
    /\ \A d \in trial.done \ done : d[1] = Head(running) /\ d[2] = Op[Head(running)].sender

\* What a simulation that succeeded has established of o.
Seen(o) ==
  /\ Op[o].nonce = view[o][1]
  /\ SignedBy[o] = Op[o].sender[1]
  /\ Op[o].init = IF view[o][2] THEN {} ELSE {Op[o].sender}
  /\ Sponsor[o] # NoSponsor =>
       /\ Sponsor[o].by = view[o][3]
       /\ Sponsor[o].signed = [op |-> Op[o], until |-> Sponsor[o].until, after |-> Sponsor[o].after]
       /\ now >= Sponsor[o].after

ViewInv == \A o \in Ops : view[o] # NoView => Seen(o)

\* An operation that was in a bundle has spent its account's nonce, which no other has;
\* only such operations are paid for.
NonceInv ==
  /\ \A o \in Ops : outcome[o] # "none" => Op[o].nonce < nonce[Op[o].sender]
  /\ \A o, p \in Ops :
       /\ outcome[o] # "none" /\ outcome[p] # "none"
       /\ Op[o].sender = Op[p].sender /\ Op[o].nonce = Op[p].nonce
       => o = p
  /\ \A o \in Ops : paidAt[o] # Unpaid => outcome[o] # "none"

AccountsInv ==
  /\ TypeOK /\ NamedOwnersOwn /\ RunningInv /\ TrialInv /\ NonceInv
  /\ ActsAreAuthorised /\ SponsoredAsSigned /\ ViewInv
=============================================================================
