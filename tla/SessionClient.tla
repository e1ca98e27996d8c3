--------------------------- MODULE SessionClient ---------------------------
(***************************************************************************)
(* The browser side of the example's sessions                              *)
(* (examples/privy-google-aa/src): session.ts creates the session cookie   *)
(* and remembers how long it is good for, App.tsx ties it to the Privy     *)
(* login, and bundlerSend (userOp.ts) and fetchWriteLog (history.ts) use   *)
(* it, each with one retry.  The server's part is handleSession            *)
(* (server/api.mjs), which keeps no state but what the cookie says, and    *)
(* the bundler's check of the Keycloak token in it.                        *)
(*                                                                         *)
(* An action is the code that runs from one await to the next.  Three      *)
(* history variables (crossed, disturbed and lostSince) record what the    *)
(* properties need to know of earlier steps; no action depends on them.    *)
(***************************************************************************)
EXTENDS FiniteSets

CONSTANTS
  Users,    \* Privy users
  NoUser,   \* nobody is logged in; no usable cookie
  Writes,   \* running instances of performSend, each of which ends in a refresh
  Reads,    \* other running instances of refreshWriteLog
  Faults,   \* may requests fail, the bundler refuse tokens and Privy sessions end
  NewKeys   \* may the server restart with another cookie key

ASSUME SessionAssumption ==
  /\ NoUser \notin Users
  /\ Writes \cap Reads = {}
  /\ Faults \in BOOLEAN
  /\ NewKeys \in BOOLEAN

VARIABLES
  user,       \* whom Privy has logged in
  shown,      \* the login that the page's effects have seen last
  privyToken, \* is a token getter registered
  fresh,      \* Date.now() < expiresAt
  inFlight,   \* how far createSession has come
  identity,   \* whose Privy token it sends
  cookie,     \* whom the browser's session cookie names
  signingOut, \* how far the last signOut has come
  rows,       \* does the page show rows of the write log
  pc,         \* where each job stands
  reading,    \* jobs that run refreshWriteLog, now or last
  carried,    \* whom the cookie on the job's request names
  crossed,    \* what a logout or a change of login overtook: the creation in
              \* flight, the session that the last one made
  disturbed,  \* jobs that did not have one login to themselves, see Enter
  lostSince   \* jobs that lost a session after their re-login began

Jobs == Writes \cup Reads

loginVars == <<user, shown, privyToken, signingOut>>
sessionVars == <<fresh, inFlight, identity, cookie, crossed>>
jobVars == <<pc, reading, carried, disturbed, lostSince>>
vars == <<loginVars, sessionVars, rows, jobVars>>

Anyone == Users \cup {NoUser}
Stages == {"none", "token", "posted", "minted", "outdated", "refused", "settling"}
Places == {"idle", "signing", "ensuring", "asked", "denied",
           "renewing", "askedAgain", "deniedAgain",
           "answered", "done", "failed", "unauthorized"}

TypeOK ==
  /\ user \in Anyone /\ shown \in Anyone
  /\ privyToken \in BOOLEAN
  /\ fresh \in BOOLEAN
  /\ inFlight \in Stages
  /\ identity \in Anyone
  /\ inFlight \notin {"none", "token"} => identity \in Users
  /\ cookie \in Anyone
  /\ signingOut \in {"no", "deleting", "leaving", "unanswered", "out"}
  /\ rows \in BOOLEAN
  /\ pc \in [Jobs -> Places]
  /\ reading \subseteq Jobs
  /\ carried \in [Jobs -> Anyone]
  /\ crossed \subseteq {"creation", "session"}
  /\ disturbed \subseteq Jobs
  /\ lostSince \subseteq Jobs

Init ==
  /\ user = NoUser /\ shown = NoUser /\ privyToken = FALSE
  /\ fresh = FALSE /\ inFlight = "none" /\ identity = NoUser /\ cookie = NoUser
  /\ signingOut = "no"
  /\ rows = FALSE
  /\ pc = [j \in Jobs |-> "idle"]
  /\ reading = {}
  /\ carried = [j \in Jobs |-> NoUser]
  /\ crossed = {} /\ disturbed = {} /\ lostSince = {}

\* A write is over when the refresh in its finally is.
Ended == {"done", "failed", "unauthorized"}
AtRest(j) == pc[j] = "idle" \/ (pc[j] \in Ended /\ j \in reading)
Running(j) == ~AtRest(j)

----------------------------------------------------------------------------
(* ensureSession                                                           *)

\* The request goes out with the cookie the browser holds now.
Ask(j, at) ==
  /\ pc' = [pc EXCEPT ![j] = at]
  /\ carried' = [carried EXCEPT ![j] = cookie]

\* History: a creation that begins during a logout is one the logout overtakes.
Overtaken(late) == crossed' = IF late THEN crossed \cup {"creation"} ELSE crossed

\* Waits for the creation that is in flight, or starts one; createSession throws
\* at once when no getter is registered.
Wait(j, at) ==
  \/ /\ inFlight # "none"
     /\ pc' = [pc EXCEPT ![j] = at]
     /\ UNCHANGED <<inFlight, crossed>>
  \/ /\ inFlight = "none" /\ privyToken
     /\ inFlight' = "token"
     /\ Overtaken(signingOut # "no")
     /\ pc' = [pc EXCEPT ![j] = at]
  \/ /\ inFlight = "none" /\ ~privyToken
     /\ pc' = [pc EXCEPT ![j] = "failed"]
     /\ UNCHANGED <<inFlight, crossed>>

Ensure(j) ==
  \/ fresh /\ Ask(j, "asked") /\ UNCHANGED <<inFlight, crossed>>
  \/ ~fresh /\ Wait(j, "ensuring") /\ UNCHANGED carried

----------------------------------------------------------------------------
(* createSession and handleSession                                         *)

\* The creation is over: everyone who waits for it goes on, or fails with it.
\* Its finally clears inFlight before any of them runs.
Settle(ok, held) ==
  /\ inFlight' = "none" /\ identity' = NoUser
  /\ pc' = [j \in Jobs |->
              IF pc[j] \notin {"ensuring", "renewing"} THEN pc[j]
              ELSE IF ~ok THEN "failed"
              ELSE IF pc[j] = "ensuring" THEN "asked" ELSE "askedAgain"]
  /\ carried' = [j \in Jobs |->
                   IF ok /\ pc[j] \in {"ensuring", "renewing"} THEN held ELSE carried[j]]
  /\ crossed' = IF ~ok THEN crossed \ {"creation"}
                ELSE IF "creation" \in crossed THEN {"session"} ELSE {}
  /\ UNCHANGED <<reading, disturbed, lostSince>>

\* getAccessToken answers for whoever is logged in now, or with null.
TokenArrives ==
  /\ inFlight = "token"
  /\ \/ /\ user # NoUser
        /\ inFlight' = "posted"
        /\ identity' = user
        /\ UNCHANGED <<crossed, jobVars>>
     \/ /\ user = NoUser \/ Faults
        /\ Settle(FALSE, cookie)
  /\ UNCHANGED <<loginVars, fresh, cookie, rows>>

\* The server verifies the token and has a Keycloak token to put in a cookie.
ServerMints ==
  /\ inFlight = "posted"
  /\ inFlight' = "minted"
  /\ UNCHANGED <<loginVars, fresh, identity, cookie, crossed, rows, jobVars>>

ServerRefuses ==
  /\ Faults
  /\ inFlight = "posted"
  /\ inFlight' = "refused"
  /\ UNCHANGED <<loginVars, fresh, identity, cookie, crossed, rows, jobVars>>

\* The browser takes the cookie from the answer's headers.
CookieArrives ==
  /\ \/ inFlight = "minted" /\ cookie' = identity
     \/ inFlight = "outdated" /\ cookie' = NoUser
  /\ inFlight' = "settling"
  /\ crossed' = IF "creation" \in crossed THEN {"creation", "session"} ELSE {}
  /\ UNCHANGED <<loginVars, fresh, identity, rows, jobVars>>

SessionCreated ==
  /\ inFlight = "settling"
  /\ fresh' = TRUE
  /\ Settle(TRUE, cookie)
  /\ UNCHANGED <<loginVars, cookie, rows>>

\* The request or its answer is lost, or the answer is an error.
SessionNotCreated ==
  /\ \/ inFlight = "refused"
     \/ Faults /\ inFlight \in {"posted", "minted", "outdated", "settling"}
  /\ Settle(FALSE, cookie)
  /\ UNCHANGED <<loginVars, fresh, cookie, rows>>

\* The time that expiresAt allows is over.
Lapse ==
  /\ fresh
  /\ fresh' = FALSE
  /\ UNCHANGED <<loginVars, inFlight, identity, cookie, crossed, rows, jobVars>>

\* Cookies stop being usable, also those on requests that are on their way: the
\* token in them expires.  One that was just minted does not, as long as tokens live
\* longer than the skews of api.mjs:231 and session-cookie.mjs:65 together.
Lose(losers) ==
  /\ cookie' = NoUser
  /\ carried' = [j \in Jobs |-> IF pc[j] \in {"asked", "askedAgain"} THEN NoUser ELSE carried[j]]
  /\ lostSince' = lostSince \cup losers \cup {j \in Jobs : pc[j] = "askedAgain"}
  /\ UNCHANGED <<loginVars, fresh, identity, crossed, rows, pc, reading, disturbed>>

Expire ==
  /\ inFlight # "settling"
  /\ Lose({})
  /\ UNCHANGED inFlight

\* Those whose re-login is under way.
Renewing == {j \in Jobs : pc[j] = "renewing"}

\* The server restarts with another cookie key: just minted ones are lost too.
KeyChanges ==
  /\ NewKeys
  /\ inFlight' = IF inFlight = "minted" THEN "outdated" ELSE inFlight
  /\ Lose(IF inFlight \in {"minted", "outdated", "settling"} THEN Renewing ELSE {})

----------------------------------------------------------------------------
(* bundlerSend and fetchWriteLog                                           *)

\* History: the page and Privy disagree about the login, it is about to end, or the
\* session at hand, or the one in the making, is that of a login before.
Unsettled ==
  \/ user = NoUser \/ shown # user \/ signingOut # "no"
  \/ "creation" \in crossed \/ (fresh /\ "session" \in crossed)

\* History: a job is disturbed if it begins in such a state, or if the login ends, or
\* the user signs out, before it is over.
Enter(j, unsettled) ==
  /\ disturbed' = IF unsettled THEN disturbed \cup {j} ELSE disturbed \ {j}
  /\ lostSince' = lostSince \ {j}

Disturb == disturbed' = disturbed \cup {j \in Jobs : Running(j)}

\* performSend: the wallet of the user signs first.
StartWrite(j) ==
  /\ user # NoUser /\ shown = user
  /\ AtRest(j)
  /\ pc' = [pc EXCEPT ![j] = "signing"]
  /\ reading' = reading \ {j}
  /\ Enter(j, Unsettled)
  /\ UNCHANGED <<loginVars, sessionVars, rows, carried>>

Signed(j) ==
  /\ pc[j] = "signing"
  /\ Ensure(j)
  /\ UNCHANGED <<loginVars, fresh, identity, cookie, rows, reading, disturbed, lostSince>>

\* refreshWriteLog asks for the rows.
Refresh(j) ==
  /\ Ensure(j)
  /\ reading' = reading \cup {j}
  /\ Enter(j, Unsettled)
  /\ UNCHANGED <<loginVars, fresh, identity, cookie, rows>>

\* From the button.
StartRead(j) ==
  /\ user # NoUser /\ shown = user
  /\ AtRest(j)
  /\ Refresh(j)

\* From the finally of a write, whoever is logged in by then.
ReadAfter(j) ==
  /\ pc[j] \in Ended /\ j \notin reading
  /\ Refresh(j)

\* The server takes the request for that of the user its cookie names; without a
\* usable cookie it answers 401.  A write goes on to the bundler, whose refusal of the
\* Keycloak token (-32001) means the same to the page.
Serve(j) ==
  /\ pc[j] \in {"asked", "askedAgain"}
  /\ \/ /\ carried[j] # NoUser
        /\ pc' = [pc EXCEPT ![j] = "answered"]
     \/ /\ carried[j] = NoUser \/ (Faults /\ j \notin reading)
        /\ pc' = [pc EXCEPT ![j] = IF @ = "asked" THEN "denied" ELSE "deniedAgain"]
  /\ UNCHANGED <<loginVars, sessionVars, rows, reading, carried, disturbed, lostSince>>

\* Fault: forceRefresh is not looked at.
RenewIfLapsed(j) ==
  /\ pc[j] = "denied"
  /\ \/ fresh /\ Ask(j, "askedAgain") /\ UNCHANGED <<inFlight, crossed>>
     \/ ~fresh /\ Wait(j, "renewing") /\ UNCHANGED carried
  /\ UNCHANGED <<loginVars, fresh, identity, cookie, rows, reading, disturbed, lostSince>>

\* The session that is being created is lost already.
Spoiled == inFlight = "outdated" \/ (inFlight = "settling" /\ cookie = NoUser)

\* A 401: ensureSession(true), whatever expiresAt says, and once more.
Renew(j) ==
  /\ pc[j] = "denied"
  /\ Wait(j, "renewing")
  /\ lostSince' = IF Spoiled THEN lostSince \cup {j} ELSE lostSince
  /\ UNCHANGED <<loginVars, fresh, identity, cookie, rows, reading, carried, disturbed>>

\* Fault: a second 401 starts over.
GiveUpNever(j) ==
  /\ pc[j] = "deniedAgain"
  /\ Wait(j, "renewing")
  /\ UNCHANGED <<loginVars, fresh, identity, cookie, rows, reading, carried, disturbed, lostSince>>

\* A second 401 is thrown.
GiveUp(j) ==
  /\ pc[j] = "deniedAgain"
  /\ pc' = [pc EXCEPT ![j] = "unauthorized"]
  /\ UNCHANGED <<loginVars, sessionVars, rows, reading, carried, disturbed, lostSince>>

\* The answer arrives; refreshWriteLog shows the rows in it.
Finish(j) ==
  /\ pc[j] = "answered"
  /\ pc' = [pc EXCEPT ![j] = "done"]
  /\ rows' = (rows \/ j \in reading)
  /\ carried' = [carried EXCEPT ![j] = NoUser]
  /\ UNCHANGED <<loginVars, sessionVars, reading, disturbed, lostSince>>

Break(j) ==
  /\ Faults
  /\ pc[j] \in {"signing", "asked", "askedAgain", "denied", "deniedAgain", "answered"}
  /\ pc' = [pc EXCEPT ![j] = "failed"]
  /\ UNCHANGED <<loginVars, sessionVars, rows, reading, carried, disturbed, lostSince>>

----------------------------------------------------------------------------
(* Login and logout (App.tsx)                                              *)

\* The page offers the login once it has seen that nobody is logged in.
Login(u) ==
  /\ user = NoUser /\ shown = NoUser
  /\ user' = u
  /\ signingOut' = IF signingOut = "out" THEN "no" ELSE signingOut
  /\ UNCHANGED <<shown, privyToken, sessionVars, rows, jobVars>>

\* The effects of a changed login: the rows of one that ended are cleared, those of
\* a new one read for the first time (as many reads at once as there are Reads).
Seen ==
  /\ shown # user
  /\ shown' = user
  /\ privyToken' = (user # NoUser)
  /\ \/ user = NoUser /\ UNCHANGED <<inFlight, jobVars>>
     \/ /\ user # NoUser
        /\ inFlight' = IF inFlight = "none" THEN "token" ELSE inFlight
        /\ \E j \in Reads :
             /\ AtRest(j)
             /\ pc' = [pc EXCEPT ![j] = "ensuring"]
             /\ reading' = reading \cup {j}
             /\ Enter(j, inFlight # "none" \/ signingOut # "no")
        /\ UNCHANGED carried
  /\ Overtaken(inFlight # "none" \/ (user # NoUser /\ signingOut # "no"))
  /\ UNCHANGED <<user, signingOut, identity, cookie>>

RowsAfter == IF user = NoUser THEN FALSE ELSE rows

\* Fault: the session of the login before stays good.
EffectsKeepHint == Seen /\ UNCHANGED fresh /\ rows' = RowsAfter

\* Fault: the rows of the login before stay on the page.
EffectsKeepRows == Seen /\ fresh' = FALSE /\ UNCHANGED rows

\* setPrivyTokenProvider drops the expiry hint before anything else.
Effects == Seen /\ fresh' = FALSE /\ rows' = RowsAfter

\* endSession drops the hint and asks the server to clear the cookie ...
SignOut ==
  /\ user # NoUser /\ shown = user
  /\ signingOut = "no"
  /\ signingOut' = "deleting"
  /\ fresh' = FALSE
  /\ Disturb
  /\ UNCHANGED <<user, shown, privyToken, inFlight, identity, cookie, crossed, rows>>
  /\ UNCHANGED <<pc, reading, carried, lostSince>>

\* Fault: the answer to the DELETE clears nothing.
CookieStays ==
  /\ signingOut = "deleting"
  /\ signingOut' = "leaving"
  /\ UNCHANGED <<user, shown, privyToken, sessionVars, rows, jobVars>>

CookieCleared ==
  /\ signingOut = "deleting"
  /\ signingOut' = "leaving"
  /\ cookie' = NoUser
  /\ Overtaken(inFlight # "none")
  /\ lostSince' = IF inFlight = "settling" THEN lostSince \cup Renewing ELSE lostSince
  /\ UNCHANGED <<user, shown, privyToken, fresh, inFlight, identity, rows>>
  /\ UNCHANGED <<pc, reading, carried, disturbed>>

\* ... a failure of which is ignored, and logs out of Privy then.
NotCleared ==
  /\ Faults
  /\ signingOut = "deleting"
  /\ signingOut' = "unanswered"
  /\ UNCHANGED <<user, shown, privyToken, sessionVars, rows, jobVars>>

Leave ==
  /\ \/ signingOut = "leaving" /\ user' = NoUser /\ signingOut' = "out"
     \/ signingOut = "unanswered" /\ user' = NoUser /\ signingOut' = "no"
     \/ /\ Faults
        /\ signingOut \in {"leaving", "unanswered"}
        /\ signingOut' = "no"
        /\ UNCHANGED user
  /\ UNCHANGED <<shown, privyToken, sessionVars, rows, jobVars>>

\* Privy ends the login without the page: no endSession.
PrivyEnds ==
  /\ Faults
  /\ user # NoUser
  /\ user' = NoUser
  /\ Disturb
  /\ UNCHANGED <<shown, privyToken, signingOut, sessionVars, rows>>
  /\ UNCHANGED <<pc, reading, carried, lostSince>>

----------------------------------------------------------------------------

CreationStep ==
  \/ TokenArrives
  \/ ServerMints
  \/ CookieArrives
  \/ SessionCreated

JobStep(j) ==
  \/ Signed(j)
  \/ ReadAfter(j)
  \/ Serve(j)
  \/ Renew(j)
  \/ GiveUp(j)
  \/ Finish(j)

LoginStep ==
  \/ \E u \in Users : Login(u)
  \/ Effects
  \/ SignOut
  \/ CookieCleared
  \/ NotCleared
  \/ Leave
  \/ PrivyEnds

Next ==
  \/ CreationStep
  \/ ServerRefuses
  \/ SessionNotCreated
  \/ Lapse
  \/ Expire
  \/ KeyChanges
  \/ \E j \in Writes : StartWrite(j)
  \/ \E j \in Reads : StartRead(j)
  \/ \E j \in Jobs : JobStep(j) \/ Break(j)
  \/ LoginStep

Spec == Init /\ [][Next]_vars

\* Requests are answered, one way or another, and wallets sign; nothing is
\* assumed of users, of the lifetime of sessions, or of faults.
Fairness ==
  /\ WF_vars(CreationStep \/ SessionNotCreated)
  /\ \A j \in Jobs : WF_vars(JobStep(j))

FairSpec == Spec /\ Fairness

----------------------------------------------------------------------------
(* Properties                                                              *)

\* "A different user (or a logout) must not inherit the previous session"
\* (session.ts:48): what the page of a user takes for a fresh session is not
\* another user's.
NoSessionInherited ==
  fresh /\ shown = user /\ user # NoUser => cookie \in {user, NoUser}

\* What that sentence is worth: a page takes another user's session for a fresh one
\* only if the change of login overtook the creation of that very session.
InheritedOnlyInFlight ==
  fresh /\ shown # NoUser /\ shown = user /\ cookie \notin {user, NoUser} =>
    "session" \in crossed

\* The server takes a request for that of the user who asks (the log ties an
\* operation to "who asked", userop-log.mjs:3-6), whatever went on around it, unless
\* the login changed or ended under the job, or was unsettled when the job began.
ServedAsOwner ==
  \A j \in Jobs \ disturbed :
    pc[j] \in {"denied", "deniedAgain", "answered"} => carried[j] \in {user, NoUser}

\* The session outlives "the logout that was supposed to end it" (App.tsx:101-102),
\* once the DELETE was answered, only if its creation was in flight at the DELETE or
\* began after it.
OutlivesOnlyInFlight == signingOut = "out" /\ cookie # NoUser => "session" \in crossed

\* Rows "must not outlive the login" (App.tsx:124): a page that shows rows though
\* nobody is logged in got them from a refresh that the end of a login overtook.
LateRowsOnlyInFlight ==
  shown = NoUser /\ rows => \E j \in disturbed \cap reading : pc[j] = "done"

\* "One re-login fixes it" (history.ts:43): a refresh is refused a second time only if
\* the session was lost again after its re-login began; a write may be refused with a
\* good cookie too, as the bundler may refuse the Keycloak token in it, which the
\* re-login leaves the same (api.mjs:203).
OneReloginFixesIt ==
  \A j \in Jobs : pc[j] = "unauthorized" =>
    j \in lostSince \/ (j \notin reading /\ carried[j] # NoUser)

\* A write or a refresh comes to an end, however often sessions are lost.
JobsEnd == \A j \in Jobs : Running(j) ~> AtRest(j)

----------------------------------------------------------------------------
(* The inductive invariants behind the theorems of SessionClientProofs     *)

\* Unless a logout or a change of login overtook it, a creation is for the login that
\* the page shows, and so is the session that the last one made.
CreationsBelong ==
  /\ shown = NoUser \/ user \in {shown, NoUser}
  /\ privyToken = (shown # NoUser)
  /\ inFlight = "none" => "creation" \notin crossed
  /\ inFlight # "none" /\ "creation" \notin crossed =>
       /\ shown # NoUser
       /\ inFlight # "token" => identity = shown
       /\ inFlight = "settling" => cookie \in {shown, NoUser}
  /\ fresh /\ shown # NoUser /\ "session" \notin crossed => cookie \in {shown, NoUser}

\* After an answered DELETE only creations that it overtook, or that began later, set
\* a cookie.
LogoutOvertakes ==
  signingOut \in {"leaving", "out"} =>
    /\ cookie # NoUser => "session" \in crossed
    /\ inFlight # "none" => "creation" \in crossed

\* What an undisturbed job may rely on.
UndisturbedAreOwn ==
  \A j \in Jobs \ disturbed : Running(j) =>
    /\ user # NoUser /\ shown = user /\ signingOut = "no"
    /\ "creation" \notin crossed /\ ~(fresh /\ "session" \in crossed)
    /\ pc[j] \in {"asked", "askedAgain", "denied", "deniedAgain", "answered"} =>
         carried[j] \in {user, NoUser}

SessionInv ==
  /\ CreationsBelong
  /\ LogoutOvertakes
  /\ UndisturbedAreOwn
  /\ LateRowsOnlyInFlight

\* The creation a retry waits for ends with a cookie, which the retry carries unless
\* it was lost in between.
ReloginInv ==
  /\ Spoiled => Renewing \subseteq lostSince
  /\ \A j \in Jobs :
       /\ pc[j] = "askedAgain" /\ carried[j] = NoUser => j \in lostSince
       /\ pc[j] \in {"deniedAgain", "unauthorized"} =>
            j \in lostSince \/ (j \notin reading /\ carried[j] # NoUser)
=============================================================================
