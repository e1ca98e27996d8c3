------------------------ MODULE SessionServerProofs ------------------------
(***************************************************************************)
(* Proofs about SessionServer: for any number of requests and keys, any    *)
(* delays and any lifetimes that satisfy TimesAssumption.                  *)
(***************************************************************************)
EXTENDS SessionServer, TLAPS

USE DEF privyVars, jwksVars, cookieVars, requestVars

----------------------------------------------------------------------------
(* What verdicts do to the requests that wait for them                     *)

LEMMA LaterFacts ==
  ASSUME NEW a \in Int, NEW b \in Int
  PROVE  Later(a, b) \in {a, b} /\ a <= Later(a, b) /\ b <= Later(a, b)
  BY DEF Later

LEMMA VerdictFacts ==
  ASSUME NEW ks, NEW k, NEW good
  PROVE  \/ Verdict(ks, k, good) = "unknown" /\ k \notin ks
         \/ Verdict(ks, k, good) = "refused"
         \/ Verdict(ks, k, good) = "minted" /\ k \in ks /\ now < cache.until
         \/ Verdict(ks, k, good) = "fetching" /\ k \in ks
  BY DEF Verdict

LEMMA DecideFacts ==
  ASSUME TypeOK, NEW rs \in SUBSET Requests, NEW ks, NEW kd, Decide(rs, ks, kd)
  PROVE  /\ pc' \in [Requests -> Places]
         /\ since' \in [Requests -> 0..now]
         /\ given' \in [Requests -> Nat]
         /\ \A r \in Requests \ rs :
              pc'[r] = pc[r] /\ since'[r] = since[r] /\ given'[r] = given[r]
         /\ \A r \in rs :
              \/ pc'[r] = "unknown" /\ kd[r] \notin ks /\ since'[r] = now
              \/ pc'[r] = "refused"
              \/ /\ pc'[r] = "minted" /\ kd[r] \in ks /\ now < cache.until
                 /\ since'[r] = now /\ given'[r] = cache.exp
              \/ pc'[r] = "fetching" /\ kd[r] \in ks /\ since'[r] = now
  <1>1. PICK genuine \in SUBSET rs :
          LET verdict == [r \in rs |-> Verdict(ks, kd[r], r \in genuine)] IN
          /\ pc' = [r \in Requests |-> IF r \in rs THEN verdict[r] ELSE pc[r]]
          /\ since' = [r \in Requests |->
               IF r \in rs THEN (IF verdict[r] = "refused" THEN 0 ELSE now) ELSE since[r]]
          /\ given' = [r \in Requests |->
               IF r \in rs THEN (IF verdict[r] = "minted" THEN cache.exp ELSE 0) ELSE given[r]]
    BY DEF Decide
  <1>. DEFINE verdict == [r \in rs |-> Verdict(ks, kd[r], r \in genuine)]
  <1>2. \A r \in rs :
          \/ verdict[r] = "unknown" /\ kd[r] \notin ks
          \/ verdict[r] = "refused"
          \/ verdict[r] = "minted" /\ kd[r] \in ks /\ now < cache.until
          \/ verdict[r] = "fetching" /\ kd[r] \in ks
    BY VerdictFacts
  <1>3. /\ pc' = [r \in Requests |-> IF r \in rs THEN verdict[r] ELSE pc[r]]
        /\ since' = [r \in Requests |->
             IF r \in rs THEN (IF verdict[r] = "refused" THEN 0 ELSE now) ELSE since[r]]
        /\ given' = [r \in Requests |->
             IF r \in rs THEN (IF verdict[r] = "minted" THEN cache.exp ELSE 0) ELSE given[r]]
    BY <1>1
  <1>. HIDE DEF verdict
  <1>4. now \in Nat /\ cache.exp \in Nat
    BY TimesAssumption DEF TypeOK
  <1>5. pc' \in [Requests -> Places]
    BY <1>2, <1>3 DEF TypeOK, Places
  <1>6. since' \in [Requests -> 0..now]
    BY <1>3, <1>4 DEF TypeOK
  <1>7. given' \in [Requests -> Nat]
    BY <1>3, <1>4 DEF TypeOK
  <1>8. ASSUME NEW r \in Requests \ rs
        PROVE  pc'[r] = pc[r] /\ since'[r] = since[r] /\ given'[r] = given[r]
    BY <1>3
  <1>9. ASSUME NEW r \in rs
        PROVE  \/ pc'[r] = "unknown" /\ kd[r] \notin ks /\ since'[r] = now
               \/ pc'[r] = "refused"
               \/ /\ pc'[r] = "minted" /\ kd[r] \in ks /\ now < cache.until
                  /\ since'[r] = now /\ given'[r] = cache.exp
               \/ pc'[r] = "fetching" /\ kd[r] \in ks /\ since'[r] = now
    <2>1. /\ pc'[r] = verdict[r]
          /\ since'[r] = IF verdict[r] = "refused" THEN 0 ELSE now
          /\ given'[r] = IF verdict[r] = "minted" THEN cache.exp ELSE 0
      BY <1>3
    <2>. QED  BY <1>2, <2>1
  <1>. QED  BY <1>5, <1>6, <1>7, <1>8, <1>9

----------------------------------------------------------------------------
(* Type correctness                                                        *)

LEMMA TypeNext == TypeOK /\ [Next]_vars => TypeOK'
  <1>. SUFFICES ASSUME TypeOK, [Next]_vars PROVE TypeOK'
    OBVIOUS
  <1>. USE TimesAssumption
  <1>0. NoFetch \in [since : 0..now, open : BOOLEAN, got : SUBSET (1..newest)] /\ now \in Nat
    BY DEF TypeOK, NoFetch
  <1>1. ASSUME NEW r \in Requests, NEW k \in 0..newest, Arrive(r, k) PROVE TypeOK'
    <2>1. /\ kid' \in [Requests -> 0..newest] /\ hint' \in [Requests -> Nat]
          /\ UNCHANGED <<now, privyVars, keys, fetchedAt, cache>>
      BY <1>1 DEF Arrive, TypeOK
    <2>2. CASE MustLoad(k) /\ LoadJwks /\ pc' = [pc EXCEPT ![r] = "loading"]
               /\ given' = [given EXCEPT ![r] = 0] /\ since' = [since EXCEPT ![r] = 0]
      <3>1. fetch' \in [since : 0..now, open : BOOLEAN, got : SUBSET (1..newest)] /\ fetch'.open
        BY <2>2, <1>0 DEF LoadJwks, TypeOK
      <3>2. /\ pc' \in [Requests -> Places] /\ given' \in [Requests -> Nat]
            /\ since' \in [Requests -> 0..now]
        BY <2>2, <1>0 DEF TypeOK, Places
      <3>. QED  BY <2>1, <3>1, <3>2 DEF TypeOK
    <2>3. CASE Decide({r}, keys, kid') /\ UNCHANGED fetch
      <3>1. /\ pc' \in [Requests -> Places] /\ given' \in [Requests -> Nat]
            /\ since' \in [Requests -> 0..now]
        BY <2>3, DecideFacts
      <3>2. \A q \in Requests : pc'[q] = "loading" => pc[q] = "loading"
        BY <2>3, DecideFacts
      <3>. QED  BY <2>1, <2>3, <3>1, <3>2 DEF TypeOK
    <2>. QED  BY <1>1, <2>2, <2>3 DEF Arrive
  <1>2. CASE JwksLoaded
    <2>1. /\ pc' \in [Requests -> Places] /\ given' \in [Requests -> Nat]
          /\ since' \in [Requests -> 0..now]
          /\ \A q \in Requests : pc'[q] # "loading"
      <3>1. Decide(Waiting, fetch.got, kid) /\ Waiting \in SUBSET Requests
        BY <1>2 DEF JwksLoaded, Waiting
      <3>2. /\ pc' \in [Requests -> Places] /\ given' \in [Requests -> Nat]
            /\ since' \in [Requests -> 0..now]
            /\ \A q \in Requests \ Waiting : pc'[q] = pc[q]
            /\ \A q \in Waiting : pc'[q] \in {"unknown", "refused", "minted", "fetching"}
        BY <3>1, DecideFacts
      <3>. QED  BY <3>2 DEF Waiting
    <2>2. /\ keys' \subseteq 1..newest /\ fetchedAt' \in 0..now
          /\ UNCHANGED <<now, privyVars, kid, hint, cache>> /\ fetch' = NoFetch
      BY <1>2, <1>0 DEF JwksLoaded, TypeOK
    <2>. QED  BY <1>0, <2>1, <2>2 DEF TypeOK
  <1>3. CASE JwksFails
    <2>1. pc' \in [Requests -> Places] /\ \A q \in Requests : pc'[q] # "loading"
      BY <1>3 DEF JwksFails, Waiting, TypeOK, Places
    <2>2. fetch' = NoFetch /\ UNCHANGED <<now, privyVars, keys, fetchedAt, kid, cookieVars, cache>>
      BY <1>3 DEF JwksFails
    <2>. QED  BY <1>0, <2>1, <2>2 DEF TypeOK
  <1>4. ASSUME NEW r \in Requests, TokenArrives(r) PROVE TypeOK'
    <2>1. PICK issued \in since[r]..now :
            /\ cache' = [exp |-> issued + TokenTtl,
                         until |-> since[r] + Later(TokenTtl - Early, Floor)]
            /\ given' = [given EXCEPT ![r] = issued + TokenTtl]
      BY <1>4 DEF TokenArrives
    <2>2. issued \in Nat /\ since[r] \in Nat
      BY <1>0 DEF TypeOK
    <2>3. Later(TokenTtl - Early, Floor) \in Nat
      BY LaterFacts
    <2>4. cache' \in [exp : Nat, until : Nat] /\ given' \in [Requests -> Nat]
      BY <2>1, <2>2, <2>3 DEF TypeOK
    <2>5. /\ pc' \in [Requests -> Places] /\ since' \in [Requests -> 0..now]
          /\ UNCHANGED <<now, privyVars, jwksVars, kid, hint>>
          /\ \A q \in Requests : pc'[q] = "loading" => pc[q] = "loading"
      BY <1>0, <1>4 DEF TokenArrives, TypeOK, Places
    <2>. QED  BY <2>4, <2>5 DEF TypeOK
  <1>5. ASSUME NEW r \in Requests, TokenFails(r) PROVE TypeOK'
    BY <1>0, <1>5 DEF TokenFails, TypeOK, Places
  <1>6. ASSUME NEW r \in Requests, SessionCreated(r) PROVE TypeOK'
    <2>1. now + Later(given[r] - now - Early, Floor) \in Nat
      <3>1. given[r] - now - Early \in Int
        BY <1>0 DEF TypeOK
      <3>2. Floor <= Later(given[r] - now - Early, Floor)
            /\ Later(given[r] - now - Early, Floor) \in Int
        BY <3>1, LaterFacts
      <3>. QED  BY <1>0, <3>2
    <2>2. hint' \in [Requests -> Nat]
      BY <1>6, <2>1 DEF SessionCreated, TypeOK
    <2>. QED  BY <1>0, <1>6, <2>2 DEF SessionCreated, TypeOK, Places
  <1>7. CASE PrivyAnswers
    <2>1. fetch' \in [since : 0..now, open : BOOLEAN, got : SUBSET (1..newest)] /\ fetch'.open
      BY <1>7 DEF PrivyAnswers, TypeOK
    <2>. QED  BY <1>7, <2>1 DEF PrivyAnswers, TypeOK
  <1>8. CASE Rotate
    <2>1. /\ newest \in Kids /\ newest + 1 \in Kids /\ newest' = newest + 1
          /\ 1..newest \subseteq 1..newest' /\ 0..newest \subseteq 0..newest'
      BY <1>8 DEF Rotate, TypeOK, Kids
    <2>2. /\ published' \subseteq 1..newest' /\ published' # {}
          /\ added' \in [Kids -> Nat] /\ dropped' \in [Kids -> Nat]
      BY <1>0, <1>8, <2>1 DEF Rotate, TypeOK, Kids
    <2>3. UNCHANGED <<now, jwksVars, requestVars>>
      BY <1>8 DEF Rotate
    <2>4. /\ keys' \subseteq 1..newest' /\ kid' \in [Requests -> 0..newest']
          /\ fetch' \in [since : 0..now', open : BOOLEAN, got : SUBSET (1..newest')]
      BY <2>1, <2>3 DEF TypeOK
    <2>. QED  BY <2>1, <2>2, <2>3, <2>4 DEF TypeOK
  <1>9. CASE Tick
    <2>1. now' \in 0..MaxTime /\ 0..now \subseteq 0..now' /\ UNCHANGED <<privyVars, jwksVars, requestVars>>
      BY <1>0, <1>9 DEF Tick, TypeOK
    <2>2. /\ fetchedAt' \in 0..now' /\ since' \in [Requests -> 0..now']
          /\ fetch' \in [since : 0..now', open : BOOLEAN, got : SUBSET (1..newest)]
      BY <2>1 DEF TypeOK
    <2>. QED  BY <2>1, <2>2 DEF TypeOK
  <1>10. CASE UNCHANGED vars
    BY <1>10 DEF vars, TypeOK
  <1>. QED  BY <1>1, <1>2, <1>3, <1>4, <1>5, <1>6, <1>7, <1>8, <1>9, <1>10
            DEF Next, ServerStep, JwksStep

LEMMA TypeInit == Init => TypeOK
  BY TimesAssumption DEF Init, TypeOK, Kids, Never, NoFetch, Places

\* Type correctness of the session server; whoever waits for the key set waits for
\* a fetch that is under way.
THEOREM TypeCorrect == Spec => []TypeOK
  <1>. QED  BY TypeInit, TypeNext, PTL DEF Spec

----------------------------------------------------------------------------
(* Delays and margins                                                      *)

\* What a step that decides for the requests rs, and leaves the others alone, does
\* to the times of all of them.
LEMMA DecisionKeepsTimes ==
  ASSUME TypeOK, NEW rs \in SUBSET Requests, NEW ks, NEW kd, Decide(rs, ks, kd), now' = now
  PROVE  /\ (\A r \in Requests : pc[r] \in Away => now <= since[r] + MaxLatency)
            => \A r \in Requests : pc'[r] \in Away => now' <= since'[r] + MaxLatency
         /\ MarginInv /\ (\A r \in Requests \ rs : hint'[r] = hint[r]) /\ cache' = cache
            => MarginInv'
  <1>. USE TimesAssumption
  <1>1. now \in Nat /\ cache.exp \in Nat /\ cache.until \in Nat /\ since \in [Requests -> Nat]
    BY DEF TypeOK
  <1>2. ASSUME \A r \in Requests : pc[r] \in Away => now <= since[r] + MaxLatency,
               NEW r \in Requests, pc'[r] \in Away
        PROVE  now <= since'[r] + MaxLatency
    <2>1. CASE r \in rs
      <3>1. since'[r] = now
        BY <2>1, <1>2, DecideFacts DEF Away
      <3>. QED  BY <3>1, <1>1
    <2>2. CASE r \notin rs
      <3>1. pc'[r] = pc[r] /\ since'[r] = since[r]
        BY <2>2, DecideFacts
      <3>. QED  BY <3>1, <1>2
    <2>. QED  BY <2>1, <2>2
  <1>3. ASSUME MarginInv, \A r \in Requests \ rs : hint'[r] = hint[r], cache' = cache
        PROVE  MarginInv'
    <2>1. ASSUME NEW r \in Requests
          PROVE  /\ pc'[r] = "minted" => since'[r] + MaxLatency + Floor + Skew <= given'[r]
                 /\ pc'[r] = "in" => hint'[r] + Skew <= given'[r]
      <3>1. CASE r \in rs
        <4>1. \/ pc'[r] \in {"unknown", "refused", "fetching"}
              \/ pc'[r] = "minted" /\ now < cache.until /\ since'[r] = now /\ given'[r] = cache.exp
          BY <3>1, DecideFacts
        <4>. QED  BY <4>1, <1>1, <1>3 DEF MarginInv
      <3>2. CASE r \notin rs
        <4>1. pc'[r] = pc[r] /\ since'[r] = since[r] /\ given'[r] = given[r] /\ hint'[r] = hint[r]
          BY <3>2, <1>3, DecideFacts
        <4>. QED  BY <4>1, <1>3 DEF MarginInv
      <3>. QED  BY <3>1, <3>2
    <2>. QED  BY <2>1, <1>3 DEF MarginInv
  <1>. QED  BY <1>2, <1>3

LEMMA TimelyNext == TypeOK /\ TimelyInv /\ [Next]_vars => TimelyInv'
  <1>. SUFFICES ASSUME TypeOK, TimelyInv, [Next]_vars PROVE TimelyInv'
    OBVIOUS
  <1>. USE TimesAssumption
  <1>0. /\ now \in Nat /\ fetchedAt \in Nat /\ fetch.since \in Nat /\ since \in [Requests -> Nat]
        /\ ~NoFetch.open
    BY DEF TypeOK, NoFetch
  <1>1. ASSUME NEW r \in Requests, NEW k \in 0..newest, Arrive(r, k) PROVE TimelyInv'
    <2>1. UNCHANGED <<now, keys, fetchedAt>>
      BY <1>1 DEF Arrive
    <2>2. CASE MustLoad(k) /\ LoadJwks /\ pc' = [pc EXCEPT ![r] = "loading"]
               /\ given' = [given EXCEPT ![r] = 0] /\ since' = [since EXCEPT ![r] = 0]
      <3>1. \A q \in Requests : pc'[q] \in Away => now' <= since'[q] + MaxLatency
        BY <2>1, <2>2, <1>0 DEF TimelyInv, Away, TypeOK
      <3>2. CASE fetch.open
        BY <2>1, <2>2, <3>1, <3>2 DEF LoadJwks, TimelyInv
      <3>3. CASE ~fetch.open
        <4>1. fetch' = [since |-> now, open |-> TRUE, got |-> {}]
          BY <2>2, <3>3 DEF LoadJwks
        <4>2. keys = {} \/ fetchedAt + MinRefetch < now
          BY <2>2, <1>0 DEF MustLoad, Stale
        <4>. QED  BY <1>0, <2>1, <3>1, <4>1, <4>2 DEF TimelyInv
      <3>. QED  BY <3>2, <3>3
    <2>3. CASE Decide({r}, keys, kid') /\ UNCHANGED fetch
      <3>1. \A q \in Requests : pc'[q] \in Away => now' <= since'[q] + MaxLatency
        BY <2>1, <2>3, DecisionKeepsTimes DEF TimelyInv
      <3>. QED  BY <2>1, <2>3, <3>1 DEF TimelyInv
    <2>. QED  BY <1>1, <2>2, <2>3 DEF Arrive
  <1>2. CASE JwksLoaded
    <2>1. /\ Decide(Waiting, fetch.got, kid) /\ Waiting \in SUBSET Requests
          /\ now' = now /\ fetch' = NoFetch
      BY <1>2 DEF JwksLoaded, Waiting
    <2>2. \A q \in Requests : pc'[q] \in Away => now' <= since'[q] + MaxLatency
      BY <2>1, DecisionKeepsTimes DEF TimelyInv
    <2>. QED  BY <1>0, <2>1, <2>2 DEF TimelyInv
  <1>3. CASE JwksFails
    <2>1. /\ \A q \in Requests : pc'[q] \in Away => pc'[q] = pc[q]
          /\ now' = now /\ since' = since /\ fetch' = NoFetch
      BY <1>3 DEF JwksFails, Away, TypeOK
    <2>. QED  BY <1>0, <2>1 DEF TimelyInv
  <1>4. ASSUME NEW r \in Requests, ServerStep(r) PROVE TimelyInv'
    <2>1. /\ since' \in [Requests -> Nat]
          /\ \A q \in Requests : pc'[q] \in Away =>
               since'[q] = now \/ (pc'[q] = pc[q] /\ since'[q] = since[q])
          /\ now' = now /\ fetch' = fetch /\ keys' = keys /\ fetchedAt' = fetchedAt
      <3>1. CASE TokenArrives(r)
        <4>1. /\ pc' = [pc EXCEPT ![r] = "minted"] /\ since' = [since EXCEPT ![r] = now]
              /\ now' = now /\ fetch' = fetch /\ keys' = keys /\ fetchedAt' = fetchedAt
          BY <3>1 DEF TokenArrives
        <4>2. since' \in [Requests -> Nat]
          BY <1>0, <4>1
        <4>3. \A q \in Requests : q # r => pc'[q] = pc[q] /\ since'[q] = since[q]
          BY <1>0, <4>1 DEF TypeOK
        <4>4. since'[r] = now
          BY <1>0, <4>1
        <4>. QED  BY <4>1, <4>2, <4>3, <4>4
      <3>2. CASE TokenFails(r)
        BY <1>0, <3>2 DEF TokenFails, Away, TypeOK
      <3>3. CASE SessionCreated(r)
        BY <1>0, <3>3 DEF SessionCreated, Away, TypeOK
      <3>. QED  BY <1>4, <3>1, <3>2, <3>3 DEF ServerStep
    <2>. QED  BY <1>0, <2>1 DEF TimelyInv
  <1>5. CASE PrivyAnswers
    BY <1>5 DEF PrivyAnswers, TimelyInv, TypeOK
  <1>6. CASE Rotate
    BY <1>6 DEF Rotate, TimelyInv
  <1>7. CASE Tick
    BY <1>0, <1>7 DEF Tick, MayTick, TimelyInv
  <1>8. CASE UNCHANGED vars
    BY <1>8 DEF vars, TimelyInv
  <1>. QED  BY <1>1, <1>2, <1>3, <1>4, <1>5, <1>6, <1>7, <1>8 DEF Next, JwksStep

LEMMA MarginNext == TypeOK /\ TimelyInv /\ MarginInv /\ [Next]_vars => MarginInv'
  <1>. SUFFICES ASSUME TypeOK, TimelyInv, MarginInv, [Next]_vars PROVE MarginInv'
    OBVIOUS
  <1>. USE TimesAssumption
  <1>0. /\ now \in Nat /\ since \in [Requests -> Nat] /\ given \in [Requests -> Nat]
        /\ hint \in [Requests -> Nat] /\ pc \in [Requests -> Places]
    BY DEF TypeOK
  <1>1. ASSUME NEW r \in Requests, NEW k \in 0..newest, Arrive(r, k) PROVE MarginInv'
    <2>1. now' = now /\ cache' = cache /\ \A q \in Requests \ {r} : hint'[q] = hint[q]
      BY <1>0, <1>1 DEF Arrive
    <2>2. CASE pc' = [pc EXCEPT ![r] = "loading"]
               /\ given' = [given EXCEPT ![r] = 0] /\ since' = [since EXCEPT ![r] = 0]
      BY <1>0, <2>1, <2>2 DEF MarginInv
    <2>3. CASE Decide({r}, keys, kid')
      BY <2>1, <2>3, DecisionKeepsTimes
    <2>. QED  BY <1>1, <2>2, <2>3 DEF Arrive
  <1>2. CASE JwksLoaded
    <2>1. /\ Decide(Waiting, fetch.got, kid) /\ Waiting \in SUBSET Requests
          /\ now' = now /\ cache' = cache /\ hint' = hint
      BY <1>2 DEF JwksLoaded, Waiting
    <2>. QED  BY <2>1, DecisionKeepsTimes
  <1>3. CASE JwksFails
    <2>1. \A q \in Requests : pc'[q] \in {"minted", "in"} => pc'[q] = pc[q]
      BY <1>0, <1>3 DEF JwksFails
    <2>. QED  BY <1>3, <2>1 DEF JwksFails, MarginInv
  <1>4. ASSUME NEW r \in Requests, TokenArrives(r) PROVE MarginInv'
    <2>1. PICK issued \in since[r]..now :
            /\ cache' = [exp |-> issued + TokenTtl,
                         until |-> since[r] + Later(TokenTtl - Early, Floor)]
            /\ given' = [given EXCEPT ![r] = issued + TokenTtl]
      BY <1>4 DEF TokenArrives
    <2>2. /\ pc' = [pc EXCEPT ![r] = "minted"] /\ since' = [since EXCEPT ![r] = now]
          /\ hint' = hint /\ now <= since[r] + MaxLatency /\ since[r] \in Nat /\ issued \in Nat
      BY <1>0, <1>4 DEF TokenArrives, TimelyInv, Away
    <2>3. MaxLatency <= Later(MaxLatency, Floor) /\ Floor <= Later(MaxLatency, Floor)
          /\ Later(MaxLatency, Floor) \in Int
      BY LaterFacts
    <2>4. cache'.until + MaxLatency + Floor + Skew <= cache'.exp
      <3>1. Later(TokenTtl - Early, Floor) \in {TokenTtl - Early, Floor}
        BY LaterFacts
      <3>2. Later(TokenTtl - Early, Floor) + MaxLatency + Floor + Skew <= TokenTtl
        BY <2>3, <3>1
      <3>3. /\ cache'.until = since[r] + Later(TokenTtl - Early, Floor)
            /\ cache'.exp = issued + TokenTtl
        BY <2>1
      <3>4. Later(TokenTtl - Early, Floor) \in Int
        BY <3>1
      <3>. QED  BY <2>2, <3>2, <3>3, <3>4
    <2>5. now + MaxLatency + Floor + Skew <= issued + TokenTtl
      BY <1>0, <2>2, <2>3
    <2>. QED  BY <1>0, <2>1, <2>2, <2>4, <2>5 DEF MarginInv
  <1>5. ASSUME NEW r \in Requests, TokenFails(r) PROVE MarginInv'
    BY <1>0, <1>5 DEF TokenFails, MarginInv
  <1>6. ASSUME NEW r \in Requests, SessionCreated(r) PROVE MarginInv'
    <2>. DEFINE h == now + Later(given[r] - now - Early, Floor)
    <2>1. h + Skew <= given[r]
      <3>1. since[r] + MaxLatency + Floor + Skew <= given[r] /\ now <= since[r] + MaxLatency
        BY <1>6 DEF SessionCreated, MarginInv, TimelyInv, Away
      <3>2. given[r] \in Nat /\ since[r] \in Nat
        BY <1>0
      <3>3. Later(given[r] - now - Early, Floor) \in {given[r] - now - Early, Floor}
        BY <1>0, <3>2, LaterFacts
      <3>4. CASE Later(given[r] - now - Early, Floor) = given[r] - now - Early
        BY <1>0, <3>2, <3>4
      <3>5. CASE Later(given[r] - now - Early, Floor) = Floor
        BY <1>0, <3>1, <3>2, <3>5
      <3>. QED  BY <3>3, <3>4, <3>5
    <2>2. /\ pc' = [pc EXCEPT ![r] = "in"] /\ hint' = [hint EXCEPT ![r] = h]
          /\ since' = [since EXCEPT ![r] = 0] /\ given' = given /\ cache' = cache
      BY <1>6 DEF SessionCreated
    <2>. QED  BY <1>0, <2>1, <2>2 DEF MarginInv
  <1>7. CASE PrivyAnswers \/ Rotate \/ Tick \/ UNCHANGED vars
    BY <1>7 DEF PrivyAnswers, Rotate, Tick, vars, MarginInv
  <1>. QED  BY <1>1, <1>2, <1>3, <1>4, <1>5, <1>6, <1>7 DEF Next, ServerStep, JwksStep

----------------------------------------------------------------------------
(* Keys                                                                    *)

LEMMA PrivyNext == TypeOK /\ PrivyInv /\ [Next]_vars => PrivyInv'
  <1>. SUFFICES ASSUME TypeOK, PrivyInv, [Next]_vars PROVE PrivyInv'
    OBVIOUS
  <1>. USE TimesAssumption
  <1>1. CASE Rotate
    <2>0. /\ now \in Nat /\ newest \in Kids /\ published \subseteq 1..newest
          /\ dropped \in [Kids -> Nat]
      BY DEF TypeOK
    <2>1. /\ newest' = newest + 1 /\ now' = now /\ newest + 1 \in published'
          /\ published' \subseteq published \cup {newest + 1}
      <3>1. PICK stay \in SUBSET {newest} : published' = stay \cup {newest + 1}
        BY <1>1 DEF Rotate
      <3>2. stay \subseteq published
        BY DEF PrivyInv
      <3>. QED  BY <1>1, <3>1, <3>2 DEF Rotate
    <2>2. \A k \in Kids : dropped'[k] = IF k \in published \ published' THEN now ELSE dropped[k]
      BY <1>1 DEF Rotate
    <2>3. ASSUME NEW k \in Kids, k \in published' \/ k > newest' PROVE dropped'[k] = Never
      BY <2>0, <2>1, <2>2, <2>3 DEF PrivyInv, Kids
    <2>4. ASSUME NEW k \in Kids, k <= newest', k \notin published' PROVE dropped'[k] <= now'
      BY <2>0, <2>1, <2>2, <2>4 DEF PrivyInv, Kids
    <2>. QED  BY <2>1, <2>3, <2>4 DEF PrivyInv
  <1>2. CASE Tick
    <2>1. now \in Nat /\ now' = now + 1 /\ UNCHANGED privyVars
      BY <1>2 DEF Tick, TypeOK
    <2>2. ASSUME NEW k \in Kids, k <= newest, k \notin published PROVE dropped[k] <= now + 1
      BY <2>1, <2>2 DEF PrivyInv, TypeOK
    <2>. QED  BY <2>1, <2>2 DEF PrivyInv
  <1>3. CASE now' = now /\ UNCHANGED privyVars
    BY <1>3 DEF PrivyInv
  <1>. QED
    BY <1>1, <1>2, <1>3 DEF Next, Arrive, ServerStep, TokenArrives, TokenFails, SessionCreated,
         JwksStep, JwksLoaded, JwksFails, PrivyAnswers, vars

LEMMA KeySetNext ==
  TypeOK /\ TimelyInv /\ PrivyInv /\ KeySetInv /\ [Next]_vars => KeySetInv'
  <1>. SUFFICES ASSUME TypeOK, TimelyInv, PrivyInv, KeySetInv, [Next]_vars PROVE KeySetInv'
    OBVIOUS
  <1>. USE TimesAssumption
  <1>0. /\ now \in 0..MaxTime /\ now \in Nat /\ fetchedAt \in Nat /\ fetch.since \in Nat
        /\ fetchedAt <= now /\ fetch.since <= now /\ newest \in Kids
        /\ published \subseteq 1..newest /\ keys \subseteq 1..newest /\ fetch.got \subseteq 1..newest
        /\ dropped \in [Kids -> Nat] /\ added \in [Kids -> Nat] /\ 1..newest \subseteq Kids
    BY DEF TypeOK, Kids
  <1>1. ASSUME NEW r \in Requests, NEW k \in 0..newest, Arrive(r, k) PROVE KeySetInv'
    <2>1. /\ UNCHANGED <<now, privyVars, keys, fetchedAt>>
          /\ fetch' = fetch \/ fetch'.got = {}
      BY <1>1 DEF Arrive, LoadJwks
    <2>. QED  BY <2>1 DEF KeySetInv
  <1>2. CASE JwksLoaded
    <2>1. /\ keys' = fetch.got /\ fetchedAt' = now /\ fetch' = NoFetch
          /\ fetch.open /\ fetch.got # {} /\ UNCHANGED <<now, privyVars>>
      BY <1>2 DEF JwksLoaded
    <2>2. now <= fetch.since + MaxLatency /\ ~NoFetch.open
      BY <2>1 DEF TimelyInv, NoFetch
    <2>3. ASSUME NEW k \in fetch.got PROVE now <= dropped[k] + MaxLatency
      BY <1>0, <2>1, <2>2 DEF KeySetInv
    <2>4. ASSUME NEW k \in Kids, k <= newest, k \notin fetch.got
          PROVE  dropped[k] <= now \/ now <= added[k] + MaxLatency
      <3>1. dropped[k] <= now \/ fetch.since <= added[k]
        BY <2>1, <2>4 DEF KeySetInv
      <3>. QED  BY <1>0, <2>2, <3>1
    <2>. QED  BY <2>1, <2>2, <2>3, <2>4 DEF KeySetInv
  <1>3. CASE JwksFails
    <2>1. ~fetch'.open /\ UNCHANGED <<now, privyVars, keys, fetchedAt>>
      BY <1>3 DEF JwksFails, NoFetch
    <2>. QED  BY <2>1 DEF KeySetInv
  <1>4. CASE PrivyAnswers
    <2>1. /\ fetch'.got = published /\ fetch'.since = fetch.since
          /\ UNCHANGED <<now, privyVars, keys, fetchedAt>>
      BY <1>4 DEF PrivyAnswers, TypeOK
    <2>2. ASSUME NEW k \in published PROVE fetch.since <= dropped[k]
      BY <1>0 DEF PrivyInv, Never
    <2>3. ASSUME NEW k \in Kids, k <= newest, k \notin published PROVE dropped[k] <= now
      BY <2>3 DEF PrivyInv
    <2>. QED  BY <2>1, <2>2, <2>3 DEF KeySetInv
  <1>5. CASE Rotate
    <2>1. /\ newest' = newest + 1 /\ newest + 1 \in Kids
          /\ added' = [added EXCEPT ![newest + 1] = now]
          /\ UNCHANGED <<now, keys, fetchedAt, fetch>>
      BY <1>0, <1>5 DEF Rotate, Kids
    <2>2. \A k \in Kids :
            dropped'[k] = dropped[k] \/ (dropped[k] = Never /\ dropped'[k] = now)
      <3>1. \A k \in Kids : dropped'[k] = IF k \in published \ published' THEN now ELSE dropped[k]
        BY <1>5 DEF Rotate
      <3>2. \A k \in Kids : k \in published => dropped[k] = Never
        BY DEF PrivyInv
      <3>3. ASSUME NEW k \in Kids
            PROVE  dropped'[k] = dropped[k] \/ (dropped[k] = Never /\ dropped'[k] = now)
        <4>1. CASE k \in published \ published'
          BY <3>1, <3>2, <4>1
        <4>2. CASE k \notin published \ published'
          BY <3>1, <4>2
        <4>. QED  BY <4>1, <4>2
      <3>. QED  BY <3>3
    <2>3. ASSUME NEW k \in keys PROVE fetchedAt <= dropped'[k] + MaxLatency
      BY <1>0, <2>2 DEF KeySetInv
    <2>4. ASSUME fetch.open, NEW k \in fetch.got PROVE fetch.since <= dropped'[k]
      BY <1>0, <2>2, <2>4 DEF KeySetInv
    <2>5. ASSUME NEW k \in Kids, k <= newest + 1, keys # {}, k \notin keys
          PROVE  dropped'[k] <= fetchedAt \/ fetchedAt <= added'[k] + MaxLatency
      <3>1. CASE k = newest + 1
        BY <1>0, <2>1, <3>1
      <3>2. CASE k # newest + 1
        <4>1. k <= newest /\ added'[k] = added[k]
          BY <1>0, <2>1, <2>5, <3>2 DEF Kids
        <4>2. dropped[k] <= fetchedAt \/ fetchedAt <= added[k] + MaxLatency
          BY <2>5, <4>1 DEF KeySetInv
        <4>. QED  BY <1>0, <2>2, <4>1, <4>2 DEF Never
      <3>. QED  BY <3>1, <3>2
    <2>6. ASSUME NEW k \in Kids, k <= newest + 1, fetch.open, fetch.got # {}, k \notin fetch.got
          PROVE  dropped'[k] <= now \/ fetch.since <= added'[k]
      <3>1. CASE k = newest + 1
        BY <1>0, <2>1, <3>1
      <3>2. CASE k # newest + 1
        <4>1. k <= newest /\ added'[k] = added[k]
          BY <1>0, <2>1, <2>6, <3>2 DEF Kids
        <4>2. dropped[k] <= now \/ fetch.since <= added[k]
          BY <2>6, <4>1 DEF KeySetInv
        <4>. QED  BY <1>0, <2>2, <4>1, <4>2 DEF Never
      <3>. QED  BY <3>1, <3>2
    <2>. QED  BY <2>1, <2>3, <2>4, <2>5, <2>6 DEF KeySetInv
  <1>6. CASE Tick
    <2>1. now' = now + 1 /\ UNCHANGED <<privyVars, jwksVars>>
      BY <1>6 DEF Tick
    <2>2. ASSUME NEW k \in Kids, k <= newest, fetch.open, fetch.got # {}, k \notin fetch.got
          PROVE  dropped[k] <= now + 1 \/ fetch.since <= added[k]
      <3>1. dropped[k] <= now \/ fetch.since <= added[k]
        BY <2>2 DEF KeySetInv
      <3>2. dropped[k] \in Nat
        BY <1>0
      <3>. QED  BY <1>0, <3>1, <3>2
    <2>. QED  BY <2>1, <2>2 DEF KeySetInv
  <1>7. CASE UNCHANGED <<now, privyVars, jwksVars>>
    BY <1>7 DEF KeySetInv
  <1>. QED
    BY <1>1, <1>2, <1>3, <1>4, <1>5, <1>6, <1>7 DEF Next, JwksStep, ServerStep, TokenArrives,
         TokenFails, SessionCreated, vars

\* A key that a decision finds unknown is none of Privy's, dropped or new.
LEMMA KeyAtHand ==
  ASSUME TypeOK, TimelyInv, PrivyInv, KeySetInv, NEW k \in 0..newest,
         \/ ~MustLoad(k) /\ k \notin keys
         \/ fetch.open /\ fetch.got # {} /\ k \notin fetch.got
  PROVE  k = 0 \/ dropped[k] <= now \/ now <= added[k] + MinRefetch + MaxLatency
  <1>. USE TimesAssumption
  <1>1. /\ now \in Nat /\ fetchedAt \in 0..now /\ fetch.since \in 0..now
        /\ dropped \in [Kids -> Nat] /\ added \in [Kids -> Nat] /\ newest \in Kids
    BY DEF TypeOK
  <1>2. SUFFICES ASSUME k # 0
                 PROVE  dropped[k] <= now \/ now <= added[k] + MinRefetch + MaxLatency
    OBVIOUS
  <1>3. k \in Kids /\ k <= newest /\ dropped[k] \in Nat /\ added[k] \in Nat
    BY <1>1, <1>2 DEF Kids
  <1>4. CASE ~MustLoad(k) /\ k \notin keys
    <2>1. keys # {} /\ now - fetchedAt <= MinRefetch
      BY <1>1, <1>4 DEF MustLoad
    <2>2. dropped[k] <= fetchedAt \/ fetchedAt <= added[k] + MaxLatency
      BY <1>3, <1>4, <2>1 DEF KeySetInv
    <2>. QED  BY <1>1, <1>3, <2>1, <2>2
  <1>5. CASE fetch.open /\ fetch.got # {} /\ k \notin fetch.got
    <2>1. dropped[k] <= now \/ fetch.since <= added[k]
      BY <1>3, <1>5 DEF KeySetInv
    <2>2. now <= fetch.since + MaxLatency
      BY <1>5 DEF TimelyInv
    <2>. QED  BY <1>1, <1>3, <2>1, <2>2
  <1>. QED  BY <1>4, <1>5

LEMMA UnknownNext ==
  /\ TypeOK /\ TimelyInv /\ PrivyInv /\ KeySetInv /\ UnknownMeansNew /\ [Next]_vars
  => UnknownMeansNew'
  <1>. SUFFICES ASSUME TypeOK, TimelyInv, PrivyInv, KeySetInv, UnknownMeansNew, [Next]_vars
                PROVE  UnknownMeansNew'
    OBVIOUS
  <1>. USE TimesAssumption
  <1>0. /\ now \in 0..MaxTime /\ now \in Nat /\ newest \in Kids /\ kid \in [Requests -> 0..newest]
        /\ since \in [Requests -> 0..now] /\ pc \in [Requests -> Places]
    BY DEF TypeOK
  <1>1. ASSUME NEW rs \in SUBSET Requests, NEW ks, Decide(rs, ks, kid'),
               kid' \in [Requests -> 0..newest], \A q \in Requests \ rs : kid'[q] = kid[q],
               UNCHANGED privyVars,
               \A q \in rs : \/ ~MustLoad(kid'[q]) /\ ks = keys
                             \/ fetch.open /\ fetch.got # {} /\ ks = fetch.got
        PROVE  UnknownMeansNew'
    <2>1. ASSUME NEW q \in Requests, pc'[q] = "unknown"
          PROVE  \/ kid'[q] = 0
                 \/ since'[q] >= dropped[kid'[q]]
                 \/ since'[q] <= added[kid'[q]] + MinRefetch + MaxLatency
      <3>1. CASE q \in rs
        <4>1. kid'[q] \notin ks /\ since'[q] = now
          BY <1>1, <2>1, <3>1, DecideFacts
        <4>2. kid'[q] \in 0..newest
          BY <1>1
        <4>3. \/ ~MustLoad(kid'[q]) /\ kid'[q] \notin keys
              \/ fetch.open /\ fetch.got # {} /\ kid'[q] \notin fetch.got
          BY <1>1, <3>1, <4>1
        <4>4. kid'[q] = 0 \/ dropped[kid'[q]] <= now
              \/ now <= added[kid'[q]] + MinRefetch + MaxLatency
          BY <4>2, <4>3, KeyAtHand
        <4>. QED  BY <4>1, <4>4
      <3>2. CASE q \notin rs
        <4>1. pc'[q] = pc[q] /\ since'[q] = since[q] /\ kid'[q] = kid[q]
          BY <1>1, <3>2, DecideFacts
        <4>. QED  BY <2>1, <4>1 DEF UnknownMeansNew
      <3>. QED  BY <3>1, <3>2
    <2>2. dropped' = dropped /\ added' = added
      BY <1>1
    <2>. QED  BY <2>1, <2>2 DEF UnknownMeansNew
  <1>2. ASSUME NEW r \in Requests, NEW k \in 0..newest, Arrive(r, k) PROVE UnknownMeansNew'
    <2>1. kid' = [kid EXCEPT ![r] = k] /\ UNCHANGED privyVars
      BY <1>2 DEF Arrive
    <2>2. CASE pc' = [pc EXCEPT ![r] = "loading"] /\ since' = [since EXCEPT ![r] = 0]
      <3>1. \A q \in Requests : pc'[q] = "unknown" =>
              pc'[q] = pc[q] /\ since'[q] = since[q] /\ kid'[q] = kid[q]
        BY <1>0, <2>1, <2>2
      <3>. QED  BY <2>1, <3>1 DEF UnknownMeansNew
    <2>3. CASE ~MustLoad(k) /\ Decide({r}, keys, kid')
      <3>1. /\ kid' \in [Requests -> 0..newest] /\ kid'[r] = k
            /\ \A q \in Requests \ {r} : kid'[q] = kid[q]
        BY <1>0, <2>1
      <3>. QED  BY <1>1, <2>1, <2>3, <3>1
    <2>. QED  BY <1>2, <2>2, <2>3 DEF Arrive
  <1>3. CASE JwksLoaded
    <2>1. /\ Decide(Waiting, fetch.got, kid') /\ Waiting \in SUBSET Requests /\ kid' = kid
          /\ fetch.open /\ fetch.got # {} /\ UNCHANGED privyVars
      BY <1>3 DEF JwksLoaded, Waiting
    <2>. QED  BY <1>0, <1>1, <2>1
  <1>4. CASE UNCHANGED <<privyVars, kid>> /\
             \A q \in Requests : pc'[q] = "unknown" => pc[q] = "unknown" /\ since'[q] = since[q]
    BY <1>4 DEF UnknownMeansNew
  <1>5. CASE JwksFails
    <2>1. \A q \in Requests : pc'[q] = "unknown" => pc[q] = "unknown" /\ since'[q] = since[q]
      BY <1>0, <1>5 DEF JwksFails
    <2>. QED  BY <1>4, <1>5, <2>1 DEF JwksFails
  <1>6. ASSUME NEW r \in Requests, ServerStep(r) PROVE UnknownMeansNew'
    <2>1. UNCHANGED <<privyVars, kid>>
      BY <1>6 DEF ServerStep, TokenArrives, TokenFails, SessionCreated
    <2>2. PICK w, t :
            /\ w \in {"minted", "failed", "in"}
            /\ pc' = [pc EXCEPT ![r] = w] /\ since' = [since EXCEPT ![r] = t]
      BY <1>6 DEF ServerStep, TokenArrives, TokenFails, SessionCreated
    <2>3. \A q \in Requests : pc'[q] = "unknown" => pc[q] = "unknown" /\ since'[q] = since[q]
      BY <1>0, <2>2
    <2>. QED  BY <1>4, <2>1, <2>3
  <1>7. CASE Rotate
    <2>1. /\ \A k \in Kids : \/ dropped'[k] = dropped[k]
                             \/ dropped[k] = Never
          /\ \A k \in Kids : k <= newest => added'[k] = added[k]
          /\ UNCHANGED <<pc, kid, since>>
      <3>1. \A k \in Kids : dropped'[k] = IF k \in published \ published' THEN now ELSE dropped[k]
        BY <1>7 DEF Rotate
      <3>2. \A k \in Kids : k <= newest => added'[k] = added[k]
        BY <1>0, <1>7 DEF Rotate, Kids, TypeOK
      <3>. QED  BY <1>7, <3>1, <3>2 DEF PrivyInv, Rotate
    <2>2. ASSUME NEW q \in Requests, pc[q] = "unknown", kid[q] # 0
          PROVE  \/ since[q] >= dropped'[kid[q]]
                 \/ since[q] <= added'[kid[q]] + MinRefetch + MaxLatency
      <3>1. kid[q] \in Kids /\ kid[q] <= newest /\ since[q] \in 0..MaxTime
        BY <1>0, <2>2 DEF Kids
      <3>2. added'[kid[q]] = added[kid[q]]
        BY <2>1, <3>1
      <3>3. \/ since[q] >= dropped[kid[q]]
            \/ since[q] <= added[kid[q]] + MinRefetch + MaxLatency
        BY <2>2 DEF UnknownMeansNew
      <3>4. CASE dropped'[kid[q]] = dropped[kid[q]]
        BY <3>2, <3>3, <3>4
      <3>5. CASE dropped[kid[q]] = Never
        BY <3>1, <3>2, <3>3, <3>5 DEF Never
      <3>. QED  BY <2>1, <3>1, <3>4, <3>5
    <2>. QED  BY <2>1, <2>2 DEF UnknownMeansNew
  <1>8. CASE PrivyAnswers \/ Tick \/ UNCHANGED vars
    BY <1>4, <1>8 DEF PrivyAnswers, Tick, vars
  <1>. QED  BY <1>2, <1>3, <1>5, <1>6, <1>7, <1>8 DEF Next, JwksStep

----------------------------------------------------------------------------
(* The theorems                                                            *)

LEMMA InvInit == Init => SessionServerInv
  <1>. SUFFICES ASSUME Init PROVE SessionServerInv
    OBVIOUS
  <1>. USE TimesAssumption DEF Init, NoFetch
  <1>1. TypeOK
    BY TypeInit
  <1>2. TimelyInv
    BY DEF TimelyInv, Away
  <1>3. MarginInv
    BY DEF MarginInv
  <1>4. PrivyInv
    BY DEF PrivyInv, Kids
  <1>5. KeySetInv
    BY DEF KeySetInv
  <1>6. UnknownMeansNew
    BY DEF UnknownMeansNew
  <1>. QED  BY <1>1, <1>2, <1>3, <1>4, <1>5, <1>6 DEF SessionServerInv

\* The inductive invariant of the session server: answers are timely, margins are
\* kept on the way from the token cache to the hint, and what the key set lacks is
\* new or was dropped.
THEOREM InvCorrect == Spec => []SessionServerInv
  <1>1. SessionServerInv /\ [Next]_vars => SessionServerInv'
    BY TypeNext, TimelyNext, MarginNext, PrivyNext, KeySetNext, UnknownNext DEF SessionServerInv
  <1>. QED  BY <1>1, InvInit, PTL DEF Spec

\* While the browser takes its session to be fresh, the server accepts its cookie
\* (fetchToken, createSession and parse).
THEOREM FreshIsAccepted == Spec => []HintIsHonest
  <1>1. SessionServerInv => HintIsHonest
    <2>1. ASSUME SessionServerInv, NEW r \in Requests, pc[r] = "in", now < hint[r]
          PROVE  now + Skew < given[r]
      <3>1. hint[r] + Skew <= given[r]
        BY <2>1 DEF SessionServerInv, MarginInv
      <3>2. now \in Nat /\ hint[r] \in Nat /\ given[r] \in Nat
        BY <2>1, TimesAssumption DEF SessionServerInv, TypeOK
      <3>. QED  BY <2>1, <3>1, <3>2, TimesAssumption
    <2>. QED  BY <2>1 DEF HintIsHonest, Accepted
  <1>. QED  BY <1>1, InvCorrect, PTL

\* A key that Privy publishes is refused only while it is new (keyFor).
THEOREM PublishedIsFound == Spec => []UnknownMeansNew
  <1>1. SessionServerInv => UnknownMeansNew
    BY DEF SessionServerInv
  <1>. QED  BY <1>1, InvCorrect, PTL

\* Two good answers of the key endpoint are further apart than the interval
\* (JWKS_MIN_REFETCH_MS).
THEOREM KeySetsAreApart == Spec => FetchesAreApart
  <1>1. SessionServerInv /\ [Next]_vars =>
          [keys # {} /\ <<keys, fetchedAt>>' # <<keys, fetchedAt>>
             => fetchedAt' > fetchedAt + MinRefetch]_vars
    <2>. SUFFICES ASSUME SessionServerInv, [Next]_vars, keys # {},
                         <<keys, fetchedAt>>' # <<keys, fetchedAt>>
                  PROVE  fetchedAt' > fetchedAt + MinRefetch
      OBVIOUS
    <2>1. JwksLoaded
      BY DEF Next, Arrive, ServerStep, TokenArrives, TokenFails, SessionCreated, JwksStep,
             JwksFails, PrivyAnswers, Rotate, Tick, vars
    <2>2. fetchedAt + MinRefetch < fetch.since /\ fetchedAt' = now
      BY <2>1 DEF JwksLoaded, SessionServerInv, TimelyInv
    <2>3. now \in Nat /\ fetch.since \in 0..now /\ fetchedAt \in Nat
      BY TimesAssumption DEF SessionServerInv, TypeOK
    <2>. QED  BY <2>2, <2>3, TimesAssumption
  <1>. QED  BY <1>1, InvCorrect, PTL DEF Spec, FetchesAreApart

\* Nobody gets past verify with a key that Privy took back long ago (JWKS_TTL_MS).
THEOREM KeysAreCurrent == Spec => AdmittedByCurrentKey
  <1>. DEFINE Current == \A r \in Requests : Admits(r) =>
                /\ kid'[r] # 0
                /\ now <= dropped[kid'[r]] + JwksTtl + MaxLatency
  <1>1. SessionServerInv /\ [Next]_vars => [Current]_vars
    <2>. SUFFICES ASSUME SessionServerInv, Next, NEW r \in Requests, Admits(r)
                  PROVE  kid'[r] # 0 /\ now <= dropped[kid'[r]] + JwksTtl + MaxLatency
      OBVIOUS
    <2>. USE TimesAssumption
    <2>a. TypeOK /\ TimelyInv /\ KeySetInv
      BY DEF SessionServerInv
    <2>b. /\ now \in Nat /\ fetchedAt \in Nat /\ fetch.since \in Nat
          /\ dropped \in [Kids -> Nat] /\ pc \in [Requests -> Places]
          /\ kid \in [Requests -> 0..newest] /\ newest \in Kids
          /\ keys \subseteq 1..newest /\ fetch.got \subseteq 1..newest
      BY <2>a DEF TypeOK
    <2>c. keys \subseteq Kids /\ fetch.got \subseteq Kids
      BY <2>b DEF Kids
    <2>d. pc[r] \notin Away /\ pc'[r] \in Away /\ pc'[r] # "loading"
      BY DEF Admits, Away, Free, Ended
    <2>0. /\ TypeOK /\ TimelyInv /\ KeySetInv
          /\ now \in Nat /\ fetchedAt \in Nat /\ fetch.since \in Nat
          /\ keys \subseteq Kids /\ fetch.got \subseteq Kids /\ dropped \in [Kids -> Nat]
          /\ pc \in [Requests -> Places] /\ pc[r] \notin Away /\ pc'[r] \in Away
          /\ pc'[r] # pc[r] /\ pc'[r] # "loading" /\ pc'[r] \in {"fetching", "minted"}
      BY <2>a, <2>b, <2>c, <2>d DEF Away
    <2>1. CASE \E q \in Requests : \E k \in 0..newest : Arrive(q, k)
      <3>1. PICK q \in Requests, k \in 0..newest : Arrive(q, k)
        BY <2>1
      <3>2. ~MustLoad(k) /\ Decide({q}, keys, kid') /\ kid' = [kid EXCEPT ![q] = k]
        <4>1. pc' # [pc EXCEPT ![q] = "loading"]
          BY <2>0
        <4>. QED  BY <3>1, <4>1 DEF Arrive
      <3>3. q = r /\ kid'[r] \in keys
        <4>. DEFINE rs == {q}
        <4>1. rs \in SUBSET Requests /\ Decide(rs, keys, kid')
          BY <3>1, <3>2
        <4>. HIDE DEF rs
        <4>2. /\ \A p \in Requests \ rs : pc'[p] = pc[p]
              /\ \A p \in rs : pc'[p] \in {"unknown", "refused"} \/ kid'[p] \in keys
          BY <2>a, <4>1, DecideFacts
        <4>. USE DEF rs
        <4>3. q = r
          BY <2>0, <4>2
        <4>. QED  BY <2>0, <4>2, <4>3
      <3>4. kid'[r] = k
        BY <2>b, <3>2, <3>3
      <3>5. now - fetchedAt <= JwksTtl
        BY <2>0, <3>2 DEF MustLoad, Stale
      <3>6. k \in Kids /\ fetchedAt <= dropped[k] + MaxLatency /\ dropped[k] \in Nat
        BY <2>0, <3>3, <3>4 DEF KeySetInv
      <3>7. now <= dropped[k] + JwksTtl + MaxLatency
        BY <2>b, <3>5, <3>6
      <3>. QED  BY <3>4, <3>6, <3>7 DEF Kids
    <2>2. CASE JwksLoaded
      <3>1. /\ Decide(Waiting, fetch.got, kid) /\ Waiting \in SUBSET Requests
            /\ fetch.open /\ kid' = kid
        BY <2>2 DEF JwksLoaded, Waiting
      <3>2. kid[r] \in fetch.got
        BY <2>0, <3>1, DecideFacts
      <3>3. /\ kid[r] \in Kids /\ dropped[kid[r]] \in Nat
            /\ fetch.since <= dropped[kid[r]] /\ now <= fetch.since + MaxLatency
        BY <2>0, <3>1, <3>2 DEF KeySetInv, TimelyInv
      <3>4. now <= dropped[kid[r]] + JwksTtl + MaxLatency
        BY <2>b, <3>3
      <3>. QED  BY <3>1, <3>3, <3>4 DEF Kids
    <2>3. CASE \E q \in Requests : ServerStep(q)
      <3>1. PICK q \in Requests : ServerStep(q)
        BY <2>3
      <3>2. pc'[r] = pc[r] \/ pc[r] \in Away \/ pc'[r] \in Free
        BY <2>0, <3>1 DEF ServerStep, TokenArrives, TokenFails, SessionCreated, Away, Free, Ended
      <3>. QED  BY <2>0, <3>2 DEF Free, Ended
    <2>4. CASE JwksFails \/ PrivyAnswers \/ Rotate \/ Tick
      BY <2>0, <2>4 DEF JwksFails, PrivyAnswers, Rotate, Tick
    <2>. QED  BY <2>1, <2>2, <2>3, <2>4 DEF Next, JwksStep
  <1>. QED  BY <1>1, InvCorrect, PTL DEF Spec, AdmittedByCurrentKey
=============================================================================
