--------------------------- MODULE SessionServer ---------------------------
(***************************************************************************)
(* The server side of POST /api/session (examples/privy-google-aa/server): *)
(* handleSession (api.mjs) asks the verifier of privy-auth.mjs who is      *)
(* logged in and answers with a cookie (session-cookie.mjs) around a       *)
(* Keycloak token.  Both the keys that Privy publishes and the token are   *)
(* cached, and both caches go by the clock.  The browser's share is the    *)
(* hint that session.ts keeps of how long the cookie is good for.          *)
(*                                                                         *)
(* An action is the code that runs from one await to the next.  One unit   *)
(* of time is one of the clock's; answers take at most MaxLatency.         *)
(***************************************************************************)
EXTENDS Integers

CONSTANTS
  Requests,     \* POSTs in progress at the same time
  MaxKid,       \* bound on the signing keys Privy makes
  MaxTime,      \* bound on the clock
  MaxLatency,   \* a fetch is answered no later than this
  MinRefetch,   \* JWKS_MIN_REFETCH_MS
  JwksTtl,      \* JWKS_TTL_MS
  TokenTtl,     \* expires_in of a Keycloak token
  Early,        \* how early tokens (server) and cookies (browser) are renewed: 30 s
  Floor,        \* but they count as good at least this long: 5 s
  Skew          \* EXPIRY_SKEW_MS: a cookie ends this long before its token

Later(a, b) == IF a < b THEN b ELSE a

ASSUME TimesAssumption ==
  /\ MaxKid \in Nat \ {0} /\ MaxTime \in Nat /\ MaxLatency \in Nat
  /\ MinRefetch \in Nat /\ JwksTtl \in Nat
  /\ TokenTtl \in Nat /\ Early \in Nat /\ Floor \in Nat /\ Skew \in Nat
  /\ MinRefetch <= JwksTtl
  /\ MaxLatency + Floor + Skew <= Early
  /\ MaxLatency + Floor + Skew + Later(MaxLatency, Floor) <= TokenTtl

VARIABLES
  now,        \* Date.now()
  newest,     \* Privy's latest signing key
  published,  \* the keys in the JWKS that Privy serves
  added,      \* when each key was published
  dropped,    \* when it was taken out again, or Never
  keys,       \* keys: the keys of the last good fetch
  fetchedAt,  \* when that was answered
  fetch,      \* inFlight: since when, and the answer once Privy has given it
  pc,         \* where each request stands
  kid,        \* the kid its Privy token names; 0 is no key of Privy's
  since,      \* when it asked Keycloak, its answer left or its key was unknown
  given,      \* the exp of the token in its cookie
  hint,       \* expiresAt in the browser that got it
  cache       \* cache: exp of the token and until when it is handed out

privyVars == <<newest, published, added, dropped>>
jwksVars == <<keys, fetchedAt, fetch>>
cookieVars == <<since, given, hint>>
requestVars == <<pc, kid, cookieVars, cache>>
vars == <<now, privyVars, jwksVars, requestVars>>

Kids == 1..MaxKid
Never == MaxTime + 1
NoFetch == [since |-> 0, open |-> FALSE, got |-> {}]
Places == {"idle", "loading", "fetching", "minted", "in", "unknown", "refused", "failed"}
Ended == {"in", "unknown", "refused", "failed"}
Away == {"fetching", "minted"}   \* an answer is on its way to it
Free == Ended \cup {"idle"}

TypeOK ==
  /\ now \in 0..MaxTime
  /\ newest \in Kids /\ published \subseteq 1..newest /\ published # {}
  /\ added \in [Kids -> Nat] /\ dropped \in [Kids -> Nat]
  /\ keys \subseteq 1..newest /\ fetchedAt \in 0..now
  /\ fetch \in [since : 0..now, open : BOOLEAN, got : SUBSET (1..newest)]
  /\ pc \in [Requests -> Places]
  /\ kid \in [Requests -> 0..newest]
  /\ since \in [Requests -> 0..now]
  /\ given \in [Requests -> Nat] /\ hint \in [Requests -> Nat]
  /\ cache \in [exp : Nat, until : Nat]
  \* Nobody waits for a fetch that has ended.
  /\ \A r \in Requests : pc[r] = "loading" => fetch.open

Init ==
  /\ now = 0
  /\ newest = 1 /\ published = {1}
  /\ added = [k \in Kids |-> 0] /\ dropped = [k \in Kids |-> Never]
  /\ keys = {} /\ fetchedAt = 0 /\ fetch = NoFetch
  /\ pc = [r \in Requests |-> "idle"]
  /\ kid = [r \in Requests |-> 0]
  /\ since = [r \in Requests |-> 0]
  /\ given = [r \in Requests |-> 0] /\ hint = [r \in Requests |-> 0]
  /\ cache = [exp |-> 0, until |-> 0]

----------------------------------------------------------------------------
(* keyFor and loadJwks                                                     *)

\* Fault: keys are kept for good.
NeverStale == FALSE

Stale == now - fetchedAt > JwksTtl

\* Fault: an unknown key is refused without looking again.
MustLoadOnce(k) == keys = {} \/ Stale

\* Fault: every unknown key has the set fetched again.
MustLoadAtOnce(k) == keys = {} \/ Stale \/ k \notin keys

\* The key set must be fetched before the key k can be used or refused: there
\* is none, it is too old, or it lacks k and may be fetched again.
MustLoad(k) ==
  \/ keys = {}
  \/ Stale
  \/ k \notin keys /\ now - fetchedAt > MinRefetch

\* Waits for the fetch in flight, or starts one.
LoadJwks ==
  fetch' = IF fetch.open THEN fetch ELSE [since |-> now, open |-> TRUE, got |-> {}]

\* Where a request is once keyFor has looked for its key in ks: verify ends, well
\* if its signature and claims are good, and fetchToken hands out the cached token
\* or asks Keycloak for another.
Verdict(ks, k, good) ==
  CASE k \notin ks -> "unknown"
    [] k \in ks /\ ~good -> "refused"
    [] k \in ks /\ good /\ now < cache.until -> "minted"
    [] OTHER -> "fetching"

\* The requests rs, naming the keys kd, get their verdicts from the key set ks.
Decide(rs, ks, kd) ==
  \E genuine \in SUBSET rs :
    LET verdict == [r \in rs |-> Verdict(ks, kd[r], r \in genuine)] IN
    /\ pc' = [r \in Requests |-> IF r \in rs THEN verdict[r] ELSE pc[r]]
    /\ since' = [r \in Requests |->
         IF r \in rs THEN (IF verdict[r] = "refused" THEN 0 ELSE now) ELSE since[r]]
    /\ given' = [r \in Requests |->
         IF r \in rs THEN (IF verdict[r] = "minted" THEN cache.exp ELSE 0) ELSE given[r]]

\* A POST arrives whose Privy token names key k (verify up to keyFor's await).
Arrive(r, k) ==
  /\ pc[r] \in Free
  /\ kid' = [kid EXCEPT ![r] = k]
  /\ hint' = [hint EXCEPT ![r] = 0]
  /\ \/ /\ MustLoad(k)
        /\ LoadJwks
        /\ pc' = [pc EXCEPT ![r] = "loading"]
        /\ given' = [given EXCEPT ![r] = 0]
        /\ since' = [since EXCEPT ![r] = 0]
     \/ /\ ~MustLoad(k)
        /\ Decide({r}, keys, kid')
        /\ UNCHANGED fetch
  /\ UNCHANGED <<now, privyVars, keys, fetchedAt, cache>>

\* Everybody who waits goes on as soon as the fetch has ended.
Waiting == {r \in Requests : pc[r] = "loading"}

JwksLoaded ==
  /\ fetch.open /\ fetch.got # {}
  /\ keys' = fetch.got /\ fetchedAt' = now /\ fetch' = NoFetch
  /\ Decide(Waiting, fetch.got, kid)
  /\ UNCHANGED <<now, privyVars, kid, hint, cache>>

\* Fault: the callers that share a failed fetch are left waiting.
JwksFailsQuietly ==
  /\ fetch.open
  /\ fetch' = NoFetch
  /\ UNCHANGED <<now, privyVars, keys, fetchedAt, requestVars>>

\* No answer, an error status, or a body without usable keys.
JwksFails ==
  /\ fetch.open
  /\ fetch' = NoFetch
  /\ pc' = [r \in Requests |-> IF r \in Waiting THEN "failed" ELSE pc[r]]
  /\ UNCHANGED <<now, privyVars, keys, fetchedAt, kid, cookieVars, cache>>

----------------------------------------------------------------------------
(* fetchToken and the answer                                               *)

\* Fault: the token is handed out until it expires.
TokenArrivesForLife(r) ==
  /\ pc[r] = "fetching"
  /\ \E issued \in since[r]..now :
       /\ cache' = [exp |-> issued + TokenTtl, until |-> since[r] + TokenTtl]
       /\ given' = [given EXCEPT ![r] = issued + TokenTtl]
  /\ since' = [since EXCEPT ![r] = now]
  /\ pc' = [pc EXCEPT ![r] = "minted"]
  /\ UNCHANGED <<now, privyVars, jwksVars, kid, hint>>

\* Keycloak's answer.  The time it counts from was read before the request left.
TokenArrives(r) ==
  /\ pc[r] = "fetching"
  /\ \E issued \in since[r]..now :
       /\ cache' = [exp |-> issued + TokenTtl,
                    until |-> since[r] + Later(TokenTtl - Early, Floor)]
       /\ given' = [given EXCEPT ![r] = issued + TokenTtl]
  /\ since' = [since EXCEPT ![r] = now]
  /\ pc' = [pc EXCEPT ![r] = "minted"]
  /\ UNCHANGED <<now, privyVars, jwksVars, kid, hint>>

TokenFails(r) ==
  /\ pc[r] = "fetching"
  /\ pc' = [pc EXCEPT ![r] = "failed"]
  /\ since' = [since EXCEPT ![r] = 0]
  /\ UNCHANGED <<now, privyVars, jwksVars, kid, given, hint, cache>>

\* The browser stores the cookie and works out its hint.
SessionCreated(r) ==
  /\ pc[r] = "minted"
  /\ pc' = [pc EXCEPT ![r] = "in"]
  /\ hint' = [hint EXCEPT ![r] = now + Later(given[r] - now - Early, Floor)]
  /\ since' = [since EXCEPT ![r] = 0]
  /\ UNCHANGED <<now, privyVars, jwksVars, kid, given, cache>>

\* parse still accepts the cookie that r got.
Accepted(r) == now + Skew < given[r]

----------------------------------------------------------------------------
(* Privy and the clock                                                     *)

\* Privy answers the fetch with the keys of this moment.
PrivyAnswers ==
  /\ fetch.open /\ fetch.got = {}
  /\ fetch' = [fetch EXCEPT !.got = published]
  /\ UNCHANGED <<now, privyVars, keys, fetchedAt, requestVars>>

\* A new key is published; the one before it may stay.
Rotate ==
  /\ newest < MaxKid
  /\ newest' = newest + 1
  /\ \E stay \in SUBSET {newest} : published' = stay \cup {newest + 1}
  /\ added' = [added EXCEPT ![newest + 1] = now]
  /\ dropped' = [k \in Kids |-> IF k \in published \ published' THEN now ELSE dropped[k]]
  /\ UNCHANGED <<now, jwksVars, requestVars>>

\* No answer is due yet.
MayTick ==
  /\ fetch.open => now < fetch.since + MaxLatency
  /\ \A r \in Requests : pc[r] \in Away => now < since[r] + MaxLatency

Tick ==
  /\ now < MaxTime /\ MayTick
  /\ now' = now + 1
  /\ UNCHANGED <<privyVars, jwksVars, requestVars>>

ServerStep(r) == TokenArrives(r) \/ TokenFails(r) \/ SessionCreated(r)
JwksStep == PrivyAnswers \/ JwksLoaded \/ JwksFails

Next ==
  \/ \E r \in Requests : \E k \in 0..newest : Arrive(r, k)
  \/ \E r \in Requests : ServerStep(r)
  \/ JwksStep
  \/ Rotate
  \/ Tick

\* Fetches are answered one way or the other, and answers reach the browser.
Fairness == WF_vars(JwksStep) /\ \A r \in Requests : WF_vars(ServerStep(r))

Spec == Init /\ [][Next]_vars /\ Fairness

----------------------------------------------------------------------------
(* Properties                                                              *)

\* While the browser's hint says that its session is fresh, the server takes the
\* cookie it was given: the margins of the token cache (fetchToken), of the hint
\* (session.ts) and of the cookie (parse) fit together, whatever was cached for
\* how long and however late the answers came.
HintIsHonest == \A r \in Requests : pc[r] = "in" /\ now < hint[r] => Accepted(r)

\* verify has just ended well.
Admits(r) == pc[r] \in Free \cup {"loading"} /\ pc'[r] \in Away

\* Nobody gets past verify with a key that Privy took back longer ago than a key
\* set may be kept (JWKS_TTL_MS) and an answer may take.
AdmittedByCurrentKey ==
  [][\A r \in Requests : Admits(r) =>
       /\ kid'[r] # 0
       /\ now <= dropped[kid'[r]] + JwksTtl + MaxLatency]_vars

\* A key that Privy publishes is refused as unknown only shortly after it was
\* added (JWKS_MIN_REFETCH_MS and an answer's time): the reload in keyFor finds
\* it, even when the fetch it joins was answered before the key was there.
UnknownMeansNew ==
  \A r \in Requests : pc[r] = "unknown" =>
    \/ kid[r] = 0
    \/ since[r] >= dropped[kid[r]]
    \/ since[r] <= added[kid[r]] + MinRefetch + MaxLatency

\* Whatever keys the tokens name, two key sets are never fetched within
\* JWKS_MIN_REFETCH_MS of each other.
FetchesAreApart ==
  [][keys # {} /\ <<keys, fetchedAt>>' # <<keys, fetchedAt>>
       => fetchedAt' > fetchedAt + MinRefetch]_vars

\* Every POST is answered: a fetch that ends, well or not, releases all who wait.
RequestsEnd == \A r \in Requests : pc[r] \notin Free ~> pc[r] \in Free

----------------------------------------------------------------------------
(* The inductive invariant (see SessionServerProofs)                       *)

\* No answer is later than MaxLatency, and a key set is only asked for when the
\* one at hand is old enough.
TimelyInv ==
  /\ \A r \in Requests : pc[r] \in Away => now <= since[r] + MaxLatency
  /\ fetch.open => /\ now <= fetch.since + MaxLatency
                   /\ keys = {} \/ fetchedAt + MinRefetch < fetch.since

\* What is handed out of the token cache, put into a cookie or hinted at has the
\* rest of its way and both margins left.
MarginInv ==
  /\ cache.until # 0 => cache.until + MaxLatency + Floor + Skew <= cache.exp
  /\ \A r \in Requests :
       /\ pc[r] = "minted" => since[r] + MaxLatency + Floor + Skew <= given[r]
       /\ pc[r] = "in" => hint[r] + Skew <= given[r]

\* When each key was published.
PrivyInv ==
  /\ newest \in published
  /\ \A k \in Kids : k \in published \/ k > newest => dropped[k] = Never
  /\ \A k \in Kids : k <= newest /\ k \notin published => dropped[k] <= now

\* The answer on its way was true when the fetch was under way, and so was the key set.
KeySetInv ==
  /\ fetch.open => \A k \in fetch.got : fetch.since <= dropped[k]
  /\ fetch.open /\ fetch.got # {} =>
       \A k \in Kids : k <= newest /\ k \notin fetch.got =>
         dropped[k] <= now \/ fetch.since <= added[k]
  /\ \A k \in keys : fetchedAt <= dropped[k] + MaxLatency
  /\ keys # {} =>
       \A k \in Kids : k <= newest /\ k \notin keys =>
         dropped[k] <= fetchedAt \/ fetchedAt <= added[k] + MaxLatency

SessionServerInv ==
  /\ TypeOK /\ TimelyInv /\ MarginInv /\ PrivyInv /\ KeySetInv
  /\ UnknownMeansNew
=============================================================================
