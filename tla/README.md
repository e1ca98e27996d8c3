# Verification of the LNET account-abstraction stack

TLA+ models of the code in this repository (an ERC-4337 v0.7 stack for the
permissioned LNET network), the TLC runs that check them on small instances and
the TLAPS proofs of what holds for every instance. Line numbers refer to the
repository's files; `PROJECT.json` maps every definition to the lines it models.

## 1. Inventory

| Component | Source | State | Operations | Interacts with |
| --- | --- | --- | --- | --- |
| Bundler core | `bundler/src/index.js` 229-444 | `mempool`, `history` (Maps), `bundling` flag, the items' `status` and `receipt` | `sendUserOperation`, `simulateValidation`, `bundleNow`, `submitDirect`, `markIncluded`, receipt lookups, interval timer | RPC node / EntryPoint (calls, one transaction at a time), RPC server |
| Bundler RPC server and token check | `bundler/src/index.js` 449-563, `bundler/src/auth.js` | none (a token verdict per HTTP request) | `handleRpc`, batch handling, `verifyRequest` | bundler core, Keycloak JWKS |
| Bundler configuration | `bundler/src/index.js` 27-125 | none | `loadConfig`, `loadAuthConfig`, `assertConfig` | environment, files |
| Example API proxy | `examples/privy-google-aa/server/api.mjs` | cached Keycloak token | session, bundler proxy, history endpoints, `settlePending` | bundler (HTTP), write log, Privy keys, Keycloak |
| Write log | `server/userop-log.mjs` | SQLite table of attempts | `record`, `pending`, `settle`, `recent` | API proxy |
| User-operation policy | `server/userop-policy.mjs` | none | `check` and its parts | API proxy |
| Session cookie, Privy key cache | `server/session-cookie.mjs`, `server/privy-auth.mjs` | JWKS cache | `serialize`, `parse`, `verify`, `loadJwks` | API proxy |
| Browser session client | `src/session.ts`, `src/App.tsx` | token provider, `expiresAt`, in-flight creation, log rows | `ensureSession`, `createSession`, `endSession`, `signOut`, `refreshWriteLog` | API proxy (cookie) |
| Browser operation client | `src/userOp.ts`, `src/history.ts`, `src/App.tsx` | address input, status, dialog | `sendUserOp`, `inspectTarget`, `performSend`, `sendExecuteUserOp`, `waitForUserOpReceipt`, history calls | API proxy, bundler (reads) |
| On-chain account, factory, paymaster | `src/*.sol` | owner, initialised flag, signer, stored value | `execute`, `executeBatch`, `createAccount`, `setVerifyingSigner`, validation | EntryPoint |
| EntryPoint, OpenZeppelin | git submodules (not in the repository) | nonces, deposits | `handleOps`, `simulateValidation` | external, modelled from its use |
| Deployment and end-to-end scripts | `script/`, `bundler/test-service/` | none | one-shot | not modelled |

### What is hard here

* **Interleaving at awaits.** The bundler is single-threaded, but every `await`
  lets other requests, the timer and `setImmediate` callbacks run. What was
  looked up before an await (the Maps, the nonce a simulation saw) may be stale
  after it.
* **Lost and late answers.** The node may take a transaction whose submission
  or receipt the bundler never hears about; the API proxy has the same problem
  one level up with the bundler.
* **All-or-nothing bundles.** One stale operation fails its neighbours.
* **Restarts.** Mempool and history are in memory; the chain and the write log
  are not.
* **Sessions that change hands.** The browser's token provider can be replaced
  while a session request is in flight; caches hold tokens with a skew.

### What makes each component correct

* Bundler: an item is sent at most once, what is reported as included was
  executed, an outcome is final, duplicates make no second item, everything
  accepted is eventually settled.
* Proxy and write log: every attempt is in the log, a settled row agrees with
  the chain, pending rows are backfilled eventually.
* Session client and cookie: no session outlives its login or moves to another
  user; a fresh cookie is usable.
* Key cache: the key endpoint is not asked more often than the documented
  interval, and a rotated key becomes usable.
* Operation client: nothing is signed for a target that was not inspected or
  confirmed, the page reports what the chain did, and it always comes to an end.
* Contracts: only the EntryPoint or owner moves an account, initialisation
  happens once, the counterfactual address is the deployed one, sponsorship
  respects its window and signer.

## 2. Plan

| Step | Modules | Question | Status |
| --- | --- | --- | --- |
| 1 | `UserOpLifecycle`, `Bundler`, `MCBundler`, `BundlerProofs`, `BundlerQueueProofs` | Does the bundler settle each operation once and truthfully? | done |
| 2 | `WriteLog`, `MCWriteLog`, `WriteLogProofs`: API proxy and write log over the promise of `UserOpLifecycle` | Does the log tell the truth, and does every row settle? | done |
| 3 | `SessionClient`, `MCSessionClient`, `SessionClientProofs`: browser session, login and the retries that use it | Can a session outlive its login or pass to another user? | done |
| 4 | `SessionServer`, `MCSessionServer`, `SessionServerProofs`: the server's side of `POST /api/session`, with its key and token caches over time | Is a fresh session usable? Is the key endpoint spared, and does a rotated key become usable? | done |
| 5 | `Accounts`, `MCAccounts`, `AccountsProofs`: account, factory, paymaster over an external EntryPoint | Who may move an account; sponsorship windows and signer rotation | done |
| 6 | `SendFlow`, `MCSendFlow`, `SendFlowProofs`: one write as the page carries it out, over the promise of `UserOpLifecycle` | Does the page check what it signs, and is what it reports so? | done |

Every safety property of a passing run, invariant or action property, is proved
for all constants, under the hypotheses its section names; a run keeps a proved
property to show that no fault in the code could pass unnoticed (each has a
plausible fault that breaks it). Where comments and documents
claim more than the code keeps, each section says so; for four of these claims a run of
its own shows how they fail (findings 1 to 4 below).

## 3. The bundler

### Modules

* `UserOpLifecycle`: what a bundler promises. An item (one accepted submission)
  is `none`, `pending`, then `included` or `failed`, or `forgotten` by a
  restart; the chain executes accepted operations, each at most once, and an
  item is included only if its operation was executed.
* `Bundler`: the code. JavaScript runs to completion between awaits, so one
  action is the code from one await to the next.
* `MCBundler`: instances for TLC. `BundlerProofs`: theorems and proofs.

### State and actions against the code

| Model | Code |
| --- | --- |
| `pc[c]` | how far one `eth_sendUserOperation` call has come: awaiting `getUserOpHash` (`hashing`), `simulateValidation` at the node (`simulating`), its answer on the way (`simulated`) |
| `mempool`, `history` | the two Maps, hash to item; an item is named by the call that built it |
| `place`, `arrivals` | a JavaScript Map iterates in insertion order and `set` on a present key keeps its position |
| `status`, `receipt` | `item.status`, `item.receipt` (the index of the transaction it was taken from) |
| `kicks` | `setImmediate` callbacks not yet run |
| `bundling`, `phase`, `bundle`, `awaiting` | the flag, and the locals of the one suspended `bundleNow` |
| `txs`, `chainNonce` | external: handleOps transactions in the node's order, EntryPoint nonces |
| `Submit`, `HashResolved`, `HashFailed`, `NodeSimulates`, `Admit`, `Refuse` | `sendUserOperation` and `simulateValidation`, await to await |
| `BundleNow` in `Immediate` and `TimerTick` | `bundleNow` up to `await submitDirect`; the timer and the operator's `lnet_bundleNow` are the same step |
| `SubmitAccepted`, `SubmitFailed` | `submitDirect` resolves or rejects; with `RpcMayFail` it may reject although the node took the transaction |
| `WaitIncluded`, `WaitFailed` | `tx.wait()`: ethers returns a successful receipt and throws on a reverted one, or on an RPC error |
| `MarkIncluded`, `FailBundle`, `DropBundle` | `markIncluded`, the catch and the finally; entries are deleted by hash |
| `MineSuccess`, `MineRevert` | external: all-or-nothing, nonces checked in bundle order; any transaction may revert (fixed gas limit) |
| `Crash` | process restart: Maps and calls in progress are lost, the chain is not |

`eth_estimateUserOperationGas` and the proxied reads change no state and are
left out. `SimulationAnswers` follows the EntryPoint: a stale nonce reverts with
data, a bad signature is *reported* (the code does not look at it) and an
EntryPoint without simulations, or a node that does not answer, yields no data.

`Calls` is the set of calls that clients may make, each with an operation
(`OpOf`) and a property of the submitted copy (`KindOf`): the hash does not
cover the signature, so two copies of an operation may differ.

### Runs

| Run | Instance | What it shows |
| --- | --- | --- |
| `bundler_faults` | 4 calls: an operation, a badly signed copy of it, the account's next operation, a malformed one; overlap, lost answers, 1 restart, bundles of 2, `try` | `OneTxPerItem`, `QueuedIsCurrent`, `IncludedIsExecuted`, `SettledIsFinal` and the refinement `LifecycleSpec` |
| `bundler_sequential` | 4 calls: an operation, its retry, a competitor for the same nonce, another account's operation; no overlap, answers arrive, 1 restart, bundles of 2 (three operations, so leftovers occur), `disabled`, fair | `NoOvertaking`, `PendingIsQueued`, `OneItemPerOp`, `FailedIsNotExecuted`, `PendingSettles`, `ExecutedIsReported` |
| `bundler_overlap` | overlapping duplicates, `try` | violation: see finding 1 |
| `bundler_aggregator` | one call whose simulation names an aggregator, `try` | violation: see finding 2 |

Bounds: `Calls` (3 or 4; one for finding 2), `MaxBundleSize` (2) and `MaxCrashes` (0 or 1);
everything else follows from them (a call is admitted at most once and an item
bundled at most once, so there are at most as many transactions as calls). Three
calls are the least with a duplicate and a bystander in one bundle, bundles of
two the least with a neighbour to fail; one restart is enough for a resubmitted
operation to meet its own earlier transaction.

`bundler_sequential` leaves the simulation out (`disabled`): more operations are then
admitted, those with a stale nonce included, and the states are few enough to check
liveness too. `bundler_faults` has the default mode. `required` differs in `Passes`
alone and is covered by the proofs, which hold in every mode.

`TimerTick` is always possible, as the interval is, so no state is a deadlock
in TLC's sense; that the system does not stop is `PendingSettles`.

### Fairness

`FairSpec` assumes weak fairness of the interval timer of `main` (574-576), of the node
answering the worker (submission and `wait`), and of block production. The timer is the
code's; the rest is the environment's: nothing in the code bounds `tx.wait()`, so a
transaction that is never mined blocks the bundler for good. Clients are not assumed to
call, nor their calls to be answered, nor a `setImmediate` callback to run, nor the
process to restart: what is accepted settles without any of them.

### Findings

1. **Overlapping duplicates strand an operation** (`bundler_overlap`). Maps are
   checked before and written after an await; deletion is by hash. The stranded
   item is pending forever, and if the first copy was executed its receipt can
   no longer be seen.

2. **The default mode accepts aggregators** (`bundler_aggregator`). The error thrown at
   index.js:290 is caught at 292, carries no revert data, and is taken for a missing
   simulation: in `try` mode the operation is admitted. The EntryPoint's `handleOps`
   refuses it, and with it every other operation of its bundle. In `required` mode only
   the verdict "ok" passes.

### Proofs (`BundlerProofs`, `BundlerQueueProofs`)

For all constants that satisfy the module's assumptions (finitely many calls,
bundle size at least one), with overlap, lost answers and any number of
restarts:

* `TypeCorrect`: type invariant.
* `InvCorrect`: the inductive invariant `BundlerInv`. `OneTxPerItem` is not
  inductive alone: one needs to know that a queued item outside the bundle is in
  no transaction. `SentInv` gives that in one clause (a *pending* item is in a
  transaction only while `bundleNow` waits for it), `WorkerInv` ties the flag to
  the suspended activation, so that a new bundle starts only when no older one
  holds items, and `EntryInv` says Map entries are pending items of their own
  hash, so that deletion by hash removes every settled item.
* `EachItemSentOnce`, `IncludedWasExecuted`, `QueueIsCurrent`, `OutcomeIsFinal`
  follow.
* `ImplementsLifecycle`: every step is a step of `UserOpLifecycle` or invisible
  to it. The only step that needs more than `BundlerInv` is mining: that no
  operation executes twice follows from `NonceInv` (executed operations are
  behind their account's nonce), whose preservation is a cardinality argument
  over the items of one account in the bundle.

`BundlerQueueProofs` builds on these:

* `FirstInFirstOut` (`NoOvertaking`), for all constants. A place in the Map is
  older than all that come after it, but an entry that is replaced keeps its place and
  a bundle deletes entries by hash. `PlaceInv` therefore also compares the bundle in flight
  with what is still queued behind it. That a slice of the Map's values takes the oldest
  is `OldestFirst`, a cardinality argument.
* `FailedWasNotExecuted` (`FailedIsNotExecuted`). The property speaks of a node whose
  answers arrive. A rejected submission is then not at the node, and the transaction of a
  failed `wait` has reverted, so nothing that could execute the item is left.
* `PendingWaitsInQueue` (`PendingIsQueued`) and `NoSecondItem` (`OneItemPerOp`), assuming
  `~ClientsMayOverlap`; finding 1 is what happens without it. Both follow from
  `SequentialInv`: a call that is past its look at the Maps is the only one of its
  operation and found nothing, and a live item is the one that history names, so deletion
  by hash finds that item and no other.
* `OnlyDuplicatesAreLost` (`LostOnlyToDuplicate`) says what remains true with overlap, for
  all constants: an item that the Maps lost has a second item of its operation beside it,
  so finding 1 is the only way in which the bundler loses one.

Model-checked only: `PendingSettles` and `ExecutedIsReported` (liveness, out of the
prover's reach).

## 4. The write path and its log

### Module

`WriteLog` models what lies between the page and the bundler:
`handleBundler`, `settlePending` and `handleHistory` of `server/api.mjs` with the
rows of `server/userop-log.mjs`. The bundler in it is not the code of
`Bundler` but what `UserOpLifecycle` promises (`Service ==
INSTANCE UserOpLifecycle WITH Items <- Writes`), which `BundlerProofs` shows the
code to implement: an item at the bundler is the write that submitted it.
`MCWriteLog` holds the instances, `WriteLogProofs` the theorems.

| Model | Code |
| --- | --- |
| `wpc[w]`, `reply[w]` | how far one `POST /api/bundler` has come and what it was answered (`internal`: the 500 of `apiHandler`) |
| `carried[w]` | the forwarded request between proxy and bundler: on its way, answered with a hash or an error, or dropped by a broken connection |
| `log` | rows of `userop_log` in id order; a row keeps `status`, `user_op_hash` and `success`, and the write it is about |
| `rpc[r]`, `asks[r]` | one `GET /api/history` and the receipt requests of its `Promise.all` that have not ended |
| `outcome`, `executed` | the bundler's items and the chain, see `UserOpLifecycle` |
| `Receive` | session, body and policy: recorded and blocked, rethrown, or forwarded |
| `AnswerArrives`, `FetchFails`, `BodyFails` | the three ways `fetch` and `upstream.text()` end; each but the last records a row first |
| `Record` | one INSERT and the answer that follows it; an INSERT that throws ends in the 500 |
| `BundlerAccepts`, `BundlerRefuses`, `BundlerWorks` | the bundler: an operation becomes an item, a known one is answered with its hash (if it was not under way before it was known, see finding 1), anything may be refused; execution, settlement, restart |
| `StartRead`, `ReceiptAnswered`, `NoReceipt`, `Settle`, `FinishRead` | `pending(limit)`, one receipt request to its end, `outcomeFromReceipt` and `settle`, then `recent(limit)` |

A request without a session is answered 401 before anything happens, and a log
that cannot be opened is replaced by one that keeps nothing (`disabledLog`);
both are left out, and so are rows an older version left without `tx_hash`: this
bundler's receipts always carry one. The limit is one constant, as the page
always asks for ten rows. `AnswersMayBeLost` and `RecordMayFail` allow the
failures; the run and the proofs have them all.

### Runs

| Run | Instance | What it shows |
| --- | --- | --- |
| `writelog` | two writes of two operations, one of them with any verdict of the check and an inner call that reverts; two readers, limit 1, all failures, fair | `SettledRowsAreTrue`, `AnsweredIsLogged`, `OutcomeIsKept`, `IncludedIsBackfilled`, `ReadsAreAnswered` |

Two rows are the least with which the limit (1) keeps one of them from being asked
about, and with which an answer could settle the wrong row; two readers are enough for
two receipts of one row to race. The run checks liveness, so it uses no symmetry; a
repeated operation (two writes, one hash) is left to the proofs, which hold for any
`OpOf`. Rows, requests and answers are bounded by the writes.

`CHECK_DEADLOCK` stays on: a reader can always start.

### Fairness

`FairSpec` assumes that the page keeps reading, that each receipt request ends somehow
(weak fairness), and that the bundler settles what it accepted and whose transaction is
mined (`Bundler`: `PendingSettles`). For a row that is asked about in one read after the
other it assumes that not every answer is lost and not every answer is dropped before it
is written (strong fairness of `ReceiptAnswered` and `Settle` for that row and reader).
It assumes nothing of the page's writes nor of the chain, and a restart may always
intervene: `IncludedIsBackfilled` asks for an outcome only while the bundler still has
the receipt.

### Where code and comments part

Nothing in the code holds these up, so no property claims them, and none of them has a
run of its own; they are behaviours of `WriteLog` nevertheless.

* *A lost answer is "not accepted".* A fetch that rejects after the bundler took the
  operation (`FetchFails` with `carried[w] = "hash"`) leaves a row with status `failed`
  and no hash (api.mjs:493), which history.ts:66 labels "not accepted" and nothing
  settles later.
* *Not every attempt has a row.* App.tsx:210 says that the backend recorded the attempt
  either way. A check that throws something other than a `PolicyError` leaves no row
  (`Receive`, api.mjs:482: `dataSlice` throws on the call data `0x`), nor does an answer
  whose body breaks off (`BodyFails`, api.mjs:509) or an insert that fails. What holds is
  `AnsweredIsLogged`: only a write that was answered 500 may be missing.
* *Rows that never settle starve older ones.* `pending` takes the newest rows
  first and only as many as the limit (userop-log.mjs:81), although api.mjs:553 says
  that the next read tries again. `IncludedIsBackfilled` therefore speaks of a row while it is
  among the newest `Limit` pending ones (`InReach`); in the run a newer row whose
  operation failed puts the older one out of reach for good. With the page's limit, ten
  failed operations are enough.
* history.ts:25 says that a null `success` does not mean failure. The bundler's
  receipt call answers null for "not yet" and for "never" alike
  (bundler index.js:342), so a failed operation stays pending.

### Proofs (`WriteLogProofs`)

For every finite set of writes, every set of readers, every policy and limit,
with all failures and any number of bundler restarts:

* `TypeCorrect`: type invariant.
* `LogTellsTheTruth` (`SettledRowsAreTrue`): `SettledRowsAreTrue` is not
  inductive, as a reader may hold an answer for a long time before it writes it.
  `WriteLogInv` adds `AsksAreTrue` (an answer that is on its way is about a sent
  row whose operation was executed, and says what its inner call did) and that
  the bundler calls included only what was executed. Execution is never taken
  back, so answers stay true while they wait.
* `OutcomesAreKept` (`OutcomeIsKept`): two answers about one operation agree, by
  the same invariant, so the second settlement writes what is there.
* `AnswersAreLogged` (`AnsweredIsLogged`), with every failure: `RecordInv` adds that a
  write that has been answered, or has a row, is over, so that no second row or answer
  comes later.

Model-checked only: `IncludedIsBackfilled` and `ReadsAreAnswered` (liveness).

## 5. Sessions in the browser

### Module

`SessionClient` models the browser's side of a session: `src/session.ts`, the
login and the log rows of `src/App.tsx`, and the two callers of `ensureSession`,
`bundlerSend` (`src/userOp.ts`) and `fetchWriteLog` (`src/history.ts`), each with
its one retry after a 401. `handleSession` of the proxy keeps no state, so what it
does is part of a creation's stages. `MCSessionClient` holds the instances,
`SessionClientProofs` the theorems. An action is what runs from one await to the
next.

| Model | Code |
| --- | --- |
| `user`, `shown`, `privyToken` | whom Privy has logged in; whom the page's effects have seen last; is a token getter registered |
| `fresh` | `Date.now() < expiresAt`: time is a step (`Lapse`) that may come whenever it likes |
| `inFlight`, `identity` | how far the one creation has come and whose Privy token it sends; `minted` is a cookie in an answer that is on its way |
| `cookie`, `carried[j]` | whom the browser's cookie names, and the one on a request that has left; `NoUser` if it is missing, expired or of an old key |
| `pc[j]`, `reading` | one `performSend` or `refreshWriteLog`; a write is over when the refresh in its `finally` is |
| `crossed` | history: did a logout or a change of login overtake the creation in flight, or that of the session the last one made |
| `disturbed`, `lostSince` | history: jobs that began while the login was unsettled or lived through its end or a sign-out; jobs that lost a session after their re-login began |
| `Ensure`, `Wait`, `Settle` | `ensureSession`; a creation that ends releases everyone who waits for it |
| `TokenArrives`, `ServerMints`, `ServerRefuses`, `CookieArrives`, `SessionCreated`, `SessionNotCreated` | `createSession` and `handleSession` |
| `Signed`, `Serve`, `Renew`, `GiveUp`, `Finish`, `Break`, `ReadAfter` | a request, its 401 or, for a write, the bundler's -32001 (`bundler/src/index.js:456`, passed on by `api.mjs:528-533`), the forced re-login, the second refusal, the answer, any other failure, the refresh after a write |
| `signingOut`, `SignOut`, `CookieCleared`, `NotCleared`, `Leave` | `signOut`: the DELETE, which may fail unheard (`unanswered`), then Privy's logout; `out` after an answered one, until the next login |
| `Effects` | the two effects of a changed login; the cleanup and the new registration run as one step, as React runs them |

The login may change at any time, whatever is on its way: the logout is never
disabled, and Privy may end a login on its own. `Faults` switches on failed requests,
refusals of the bundler and logins that end without the page, `NewKeys` a server that
restarts with another cookie key. Privy is external: `Login` and `PrivyEnds`. The
bundler's reasons to refuse a token (expired, key set unreachable, role missing) are
not told apart: with `Faults` it may refuse any write, the retry included, since the
re-login hands out the cached token again (`api.mjs:203`). The browser keeps
one cookie, as the server uses one name. Not in this model: the clock behind
`fresh` and the cookie's expiry (see `SessionServer`), so a cookie that was just minted is
taken to be usable when the creation settles.

### Runs

| Run | Instance | What it shows |
| --- | --- | --- |
| `session_faults` | two users, one write, one more read, all faults and new keys | `InheritedOnlyInFlight`, `ServedAsOwner`, `OutlivesOnlyInFlight`, `LateRowsOnlyInFlight`, `OneReloginFixesIt` |
| `session_ends` | one user, one write, one read, all faults and new keys, fair | `JobsEnd` |
| `session_inherits` | two users, one write, one read, no faults | violation: finding 3 |

Two users are the least between whom a session can pass. A write (which ends in a
refresh of its own) and a read make one job wait for a creation while another is on
its way with an older cookie.

The comments of the code are stronger than what it does. `session.ts:48` is refuted by
`session_inherits`. App.tsx:101-102 (a logout ends the bundler session) and App.tsx:124 (rows
do not outlive the login) fail in the same way, by what was in flight: a creation
whose answer arrives after the DELETE sets the cookie again, and a refresh that is
answered after the logout shows its rows. The properties of `session_faults` say
exactly how far each holds, with everything overlapping: the history variables record
what a logout or a change of login overtook, and nothing else leaves a session, a
request or rows with the wrong login. So a hint, a cookie or rows that the code forgot to
reset are caught, however things overlap (the mutants), and closing the in-flight gaps
would make `crossed` and `disturbed` unnecessary.

`OneReloginFixesIt` is exact too: a read that is refused twice lost its session
again after its re-login began (the wait for a creation that was minted under the old
cookie key counts). A write may also be refused twice with a good cookie, by the bundler.
`JobsEnd` is about the retries of one login, so a second user adds nothing to
it. Users are interchangeable: the safety runs use symmetry. A second read at the
same time as the first one of a login is what `ReadAfter` and the button add; more
than `Reads` first reads at once are not reached.

### Fairness

`FairSpec` assumes that requests end somehow and that the wallet answers: each
job's steps and the creation's steps are weakly fair. It assumes nothing of the
user, of Privy, of lifetimes or of faults, so sessions may be lost again and
again; `JobsEnd` holds because the code retries once.

### Findings

3. **The next user inherits a session** (`session_inherits`).
   `setPrivyTokenProvider` forgets the expiry hint but not the creation that is
   in flight, which sets the hint again when it settles. The new user's writes
   then go out with the old user's cookie until the hint lapses.

### Proofs (`SessionClientProofs`)

For any users, writes and reads, with every fault:

* `TypeCorrect`: type invariant.
* `RequestsAreOwn` (`ServedAsOwner`), `SessionsAreOwn` (`InheritedOnlyInFlight`),
  `LogoutEndsSession` (`OutlivesOnlyInFlight`) and `LogoutEndsRows`
  (`LateRowsOnlyInFlight`), with logins that change at any time: none is inductive
  but the last, since a request is served as whoever its cookie names, a cookie comes
  from an answer and an answer from a token that was fetched long before. `SessionInv`
  follows that chain: a creation that nothing overtook sends the token of the login the
  page shows, and the session it makes is that login's (`CreationsBelong`); after an
  answered DELETE every creation is an overtaken one (`LogoutOvertakes`); and a job that
  was not disturbed has the login to itself: nobody signs out, nothing overtaken is in
  flight or taken for fresh, and its cookie is its user's (`UndisturbedAreOwn`). That
  last part is why `fresh` must be dropped in the step in which `shown` changes.
* `ReloginIsEnough` (`OneReloginFixesIt`): `ReloginInv` adds that a creation which is lost
  before it settles (`Spoiled`) is noted for all who wait for it, so that a retry
  without a cookie means that the session was lost in between.

Model-checked only: `JobsEnd` (liveness).

## 6. The server's side of a session

### Module

`SessionServer` models what happens to a `POST /api/session` on the server, where
everything goes by the clock: the key cache of `privy-auth.mjs`, the token cache
of `fetchToken`, the expiry of the cookie and the hint that `session.ts` derives
from it. `MCSessionServer` holds the instance. `now` advances by `Tick`; an answer
is never later than `MaxLatency`, which is an assumption about the environment
(the code sets no timeout of its own).

| Model | Code |
| --- | --- |
| `keys`, `fetchedAt`, `fetch` | the three variables of `createPrivyVerifier`; `fetch.got` is Privy's answer while it is on its way |
| `pc[r]` | waiting for the key set (`loading`) or for Keycloak (`fetching`), the answer with its cookie on its way (`minted`), the session stored by the browser (`in`); `unknown`, `refused`, `failed` are the three bad ends |
| `cache` | the token cache: the token's `exp`, and until when it is handed out |
| `given[r]`, `hint[r]` | `exp` in the cookie (`tokenExpiryMs`), and `expiresAt` of the page |
| `since[r]` | when `fetchToken` read the clock, when the answer left, or when the key was found unknown |
| `newest`, `published`, `added`, `dropped` | external: Privy's keys |
| `MustLoad`, `LoadJwks`, `JwksLoaded`, `JwksFails` | `keyFor` and `loadJwks`; a fetch that ends releases all who wait for it |
| `Verdict`, `Decide` | the rest of `verify` (a signature and claims are good or not) and `fetchToken` up to its await |
| `TokenArrives`, `TokenFails`, `SessionCreated`, `Accepted` | Keycloak's answer, `createSession` in the browser, `parse` |

`TimesAssumption` states what the constants of the code satisfy, in units of the
clock: an answer's delay plus the two margins of 5 seconds fit into the 30 by which
tokens are renewed early, and into a token's life those three and once more the larger
of delay and floor. Keycloak's `expires_in` is configuration: with tokens of less than 15
seconds plus the delay the floors of 5 seconds (api.mjs:231, session.ts:89) take over and
a session may look fresh when it is not; for 10 seconds and less it can be dead from
the start.

### Run

`session_server`: two requests at a time (they are reused), two keys, four units
of time, with `MaxLatency`, `MinRefetch`, `Floor` and `Skew` of one unit, `JwksTtl` two,
`Early` three and `TokenTtl` four: the smallest values that satisfy the assumption with
none of them zero, so every comparison of the code goes both ways. It checks `HintIsHonest`, `AdmittedByCurrentKey`,
`UnknownMeansNew`, `FetchesAreApart` and `RequestsEnd`. Two requests are the least
that share a fetch; one rotation is the least that makes a key set old. The clock is
bounded, so the run may stop.

Fairness: fetches are answered in one way or another (`JwksStep`, `ServerStep`),
the event loop goes on. Nothing is assumed of the clock or of Privy's rotation.

### Proofs (`SessionServerProofs`)

For any requests, any number of keys and all times that satisfy `TimesAssumption`:

* `TypeCorrect`, and `InvCorrect` for `SessionServerInv`.
* `FreshIsAccepted` (`HintIsHonest`) is not inductive: the hint depends on a token that
  another request may have put into the cache long before. `MarginInv` carries the
  margin along that way (from the cache to the cookie, to the answer on its way, to the
  hint), and `TimelyInv` says that no answer is on its way for longer than `MaxLatency`.
* `PublishedIsFound` (`UnknownMeansNew`) and `KeysAreCurrent` (`AdmittedByCurrentKey`)
  relate the key set at hand to what Privy published when it was asked: `KeySetInv` says
  so of the answer on its way and of the set itself, `PrivyInv` of Privy's own records.
* `KeySetsAreApart` (`FetchesAreApart`): a fetch is begun only when the last answer is old
  enough, and no other ends before it.

Model-checked only: `RequestsEnd` (liveness).

### Where code and comments part

`FetchesAreApart` speaks of fetches that succeed. The comment at
privy-auth.mjs:21 says "never refetch the JWKS more often than this", but
`fetchedAt` is set only on success (line 69): while the endpoint fails, every request
that needs a key asks again. Several tabs of one browser share a cookie and not the
hint; a tab's hint is then about a cookie that another may have replaced by a
later one, which `HintIsHonest` does not speak of.

## 7. Accounts, factory and paymaster

### Module

`Accounts` models the contracts of `src/`: `LnetAccount`, `LnetAccountFactory`,
`LnetVerifyingPaymaster` and `Storage`. The EntryPoint is a submodule and external: it
validates a whole bundle, then runs its operations one by one, call by call, each
contained; a bundle with one invalid operation has no effect. `MCAccounts` holds the instance.

| Model | Code |
| --- | --- |
| an account's name `<<owner, salt>>` | `getAddress`: CREATE2 makes it a function of both |
| `owner[a]` | the `owner` slot; `Nobody` while there is no code |
| `deposit`, `nonce`, `running`, `outcome` | external: the EntryPoint's deposits and nonces, the rest of the present bundle, how operations ended |
| `step`, `trial` | external: how many calls the running operation has made, and the state they have made, which counts only if all go well |
| `stored`, `verifyingSigner` | `Storage.value` (by whom), the paymaster's signer |
| `done`, `paidAt`, `view` | for the properties: who made which account do what, when and by whose signature an operation was sponsored, what its simulation saw |
| `MayExecute`, `MayManage`, `Initialize`, `Apply`, `Commit` | the account's functions and their modifiers, on a record of the state; a failing call reverts all |
| `CallNext`, `EndOp` | one call of `execute` or `executeBatch`, the end of the operation |
| `Create`, `OwnerOf` | `createAccount`, from a call and from an operation's `initCode` |
| `SignatureOk`, `Sponsored`, `Recovers`, `GetHash`, `SetVerifyingSigner` | `_validateSignature`, `_validatePaymasterUserOp`, `getHash`, the rotation |
| `Simulate` | `simulateValidation` of the bundler |
| `Transact`, `TransactBy`, `AddDeposit` | transactions that people send, directly or through an account of theirs |

A transaction that fails is left out, as it changes nothing. The implementation
contract has its initialisers disabled (LnetAccount.sol:38) and no owner, so it
is no account. An upgrade is recorded and taken to keep the behaviour.

### Run

`accounts`: an account each for two people, and eight operations: one that deploys, sets
Storage and withdraws, one that is a plain call of the
EntryPoint, one signed by the wrong person, one that tries to use another's
account, one that upgrades and deploys, one that fails after its first call, and two that
carry a sponsorship which was signed for another one: one claims another window, the other
has the next nonce.
Bundles have up to two operations, the paymaster two signers, the clock two ticks. It checks
`NamedOwnersOwn`, `ActsAreAuthorised`, `SponsoredAsSigned` and
`BundleFailsOnlyIfStale`. The last is what `Bundler` takes for granted about the
chain, but for the fixed gas limit: operations of different accounts that are still as
their simulations saw them make a valid bundle. Operations, deposit and clock
are bounded, so the run may stop.

### Proofs (`AccountsProofs`)

For any people, salts, operations, calls of each, sponsorships and length of bundles:

* `InvCorrect` for `AccountsInv`, and `TypeCorrect`. That operations are validated exactly
  while they run needs that no operation is twice in a bundle: the EntryPoint counts an
  account's earlier operations of the bundle, so the second would need another nonce
  (`ValidIsInjective`, a cardinality argument).
* `AccountsAreNamed` (`NamedOwnersOwn`): `ApplyFacts` shows that every call, by whomever,
  takes a world in which accounts are their named owners' to another one.
* `OwnersAuthorise` (`ActsAreAuthorised`) is about all calls of an operation at once and is
  proved call by call: `TrialInv` says that whatever the calls so far have had done, the
  operation's own account did, and `RunningInv` that its named owner signed it.
  `ApplyShape` lists the ways in which a call can make an account act: it calls itself, its
  owner calls it, or the EntryPoint does.
* `SponsorshipsHold` (`SponsoredAsSigned`): an operation carries a claimed window and a
  signature over some approval, which may be of another operation or another window. That
  the signed window is kept and the signed operation paid for follows from what `getHash`
  covers (`RecoversFacts`); that an approval pays once needs that no two operations spend
  the same nonce of an account. `NonceInv` says so, over all bundles so far; within a
  bundle it is the cardinality argument of `ValidSpends`.
* `BundlesFailOnlyIfStale` (`BundleFailsOnlyIfStale`): `ViewInv` separates what a
  simulation saw into what never changes of the operation and the four facts that may
  (nonce, deployment, signer, time).

`AccountsAssumption` says that the addresses of people, accounts and the EntryPoint differ
(CREATE2 and key pairs do not collide) and that calldata that is not `execute`'s or
`executeBatch`'s names another function of the account itself.

The comment at LnetAccountFactory.sol:26 says that initCode is executed for every
operation. The EntryPoint refuses one for an account that exists, which is how
`OwnerOf` has it; `createAccount` on an existing account is reached by direct
calls. The page gives every operation a new salt and does not meet this.

## 8. A write in the page

### Module

`SendFlow` models one press of the Send button from the inspection of the target
to the last message: `sendUserOp` and `performSend` of `App.tsx`, and `inspectTarget`,
`sendExecuteUserOp` and `waitForUserOpReceipt` of `userOp.ts`. The bundler in
it is `UserOpLifecycle`, as in `WriteLog`. `SessionClient` has the session under which the
operation is posted, `WriteLog` the proxy; here a post is delivered or not, at any
time after it has left. `MCSendFlow` holds the instance.

| Model | Code |
| --- | --- |
| `address`, `wallet`, `said`, `confirm` | `storageAddress`, the wallet of the login, `status` (the messages that a property is about), `confirmSend` |
| `pc`, `polls` | how far the one send under way has come, and its loop counter (0 when there is none) |
| `inspected[s]`, `target[s]` | the address that was inspected and the one that is called |
| `warned`, `carried` | sends that were sent anyway; posts on their way |
| `code`, `effect`, `outcome`, `executed` | external: where there is code, what a call did, the bundler's items, the chain |
| `Click`, `CodeRead`, `ValueRead` | `sendUserOp` with the two reads of `inspectTarget` |
| `CancelSend`, `SendAnyway` | the dialog; `SendAnyway` runs the `performSend` of the latest rendering, with the address of that moment |
| `Sign`, `HashArrives`, `NoReceipt`, `ReceiptArrives` and the `...Fails` | `performSend`, await to await |
| `Edit`, `Login`, `LoginEnds` | the input, which is never disabled, and the login |
| `Deliver`, `Executes`, `BundlerWorks`, `Deploy` | the proxy's target check and the bundler; the chain |

React functions see the state of the rendering they were made in: the direct way from
`sendUserOp` into `performSend` keeps the address of the click, the dialog's button
does not. The handler for rejected Google logins (App.tsx:68-83) is left out; a
login cannot be under way while a send is, as its button is disabled.

### Runs

`send_flow`: two sends, three addresses (Storage, one without code at first whose
contract answers `value()` and reverts `set`, one that swallows every call), two
polls. Two sends are the least with an operation that arrives after the page has
given it up and gone on; two polls are the least at which one repeats. It checks
`SilentOnlyIfWarned`, `ReportIsTrue`, `SendsEnd` and `StuckOnlyWithoutWallet`.

Fairness: `FairSpec` assumes that what the page awaits ends somehow. The user, the
bundler and the chain need do nothing.

`send_flow_uninspected`: one send, and `SilentOnlyWhereInspected` alone: violation, see finding 4.

One exception is stated in a property because the code has it: *the page can get stuck.* If
the login ends while the dialog is open, "Send anyway" returns at App.tsx:178 and leaves
the status running; the comment at 235-236 names this for the cancel button, which clears
it. Send and login buttons stay disabled until the page is loaded again.

### Findings

4. **What is sent anyway may never have been inspected** (`send_flow_uninspected`).
   userOp.ts:85-89 says that a call to an address without code succeeds without executing
   anything, so the address has to be checked before the operation exists. If the input is
   edited while the inspection is under way, and the inspected address has code but no
   `value()`, the dialog shows, and "Send anyway" sends to, the new address, which may have
   no code: the page then says "executed" and nothing was stored. `SilentOnlyIfWarned` is
   what remains: a silent write was always sent from the dialog, and one at the address that
   was inspected needs a contract that swallows it.

A write the page gave up may still be executed, and sending again makes a new
account and a second write; the write log shows both.

### Proofs (`SendFlowProofs`)

For any number of sends and polls, any addresses, contracts and policy:

* `TypeCorrect`, and `InvCorrect` for `SendFlowInv`.
* `NothingSilent` (`SilentOnlyIfWarned`; it does not exclude finding 4): the warning comes before the operation exists
  and its effect after it was executed, so `CheckedInv` says of every operation that has
  left the page that its inspection found code and the rest was passed or waived for the
  address it calls; once it has left, nothing changes its target.
* `ReportsAreTrue` (`ReportIsTrue`): `ChainInv` ties the effect to the execution and an
  included item to an executed operation; neither is ever taken back.
* `StuckWithoutWallet` (`StuckOnlyWithoutWallet`) follows from the type invariant.

Model-checked only: `SendsEnd` (liveness).

## 9. Not modelled

* The RPC server of the bundler and its token check: no state survives a request.
  The calls of a batch are calls of `Bundler` in any interleaving, and the verdict is
  used within the request that asked for it. An element `null` in a batch throws
  in the catch of its own call (index.js:555) and ends the process, which is
  `Crash` in `Bundler`.
* The user-operation policy but for its outcomes and its target check: it compares
  fields of one operation, which the models do not have.
* Configuration of the bundler and the proxy, read once at start; the models state
  what they need of it as assumptions on constants.
* The contents of operations, gas numbers, logging and formatting; the RPC read
  proxies; deployment, hub and end-to-end scripts, styles and build glue. The
  peer-to-peer and reputation parts of ERC-4337 are not implemented by the code.

Only model-checked: the seven liveness properties, which are out of the prover's reach.
