------------------------ MODULE SessionClientProofs ------------------------
(***************************************************************************)
(* Proofs about SessionClient: for any users, and any number of writes and *)
(* refreshes of the log, with every fault, and with logins that change     *)
(* while creations, writes and refreshes are on their way.                 *)
(***************************************************************************)
EXTENDS SessionClient, TLAPS

USE DEF loginVars, sessionVars, jobVars

----------------------------------------------------------------------------
(* Type correctness                                                        *)

\* What the two ways to a session leave in their variables.
LEMMA WaitTypes ==
  ASSUME TypeOK, NEW j \in Jobs, NEW at \in Places, Wait(j, at)
  PROVE  /\ pc' \in [Jobs -> Places]
         /\ inFlight' \in {inFlight, "token"}
         /\ crossed' \subseteq {"creation", "session"}
  BY DEF TypeOK, Wait, Overtaken, Places

LEMMA EnsureTypes ==
  ASSUME TypeOK, NEW j \in Jobs, Ensure(j)
  PROVE  /\ pc' \in [Jobs -> Places]
         /\ inFlight' \in {inFlight, "token"}
         /\ crossed' \subseteq {"creation", "session"}
         /\ carried' \in [Jobs -> Anyone]
  <1>1. CASE fresh /\ Ask(j, "asked") /\ UNCHANGED <<inFlight, crossed>>
    BY <1>1 DEF TypeOK, Ask, Places
  <1>2. CASE Wait(j, "ensuring") /\ UNCHANGED carried
    BY <1>2, WaitTypes DEF TypeOK, Places
  <1>. QED  BY <1>1, <1>2 DEF Ensure

LEMMA JobTypes ==
  ASSUME TypeOK, NEW j \in Jobs, JobStep(j) \/ Break(j) \/ (j \in Reads /\ StartRead(j))
  PROVE  TypeOK'
  <1>. USE DEF TypeOK
  <1>1. CASE Signed(j)
    <2>1. UNCHANGED <<loginVars, fresh, identity, cookie, rows, reading, disturbed, lostSince>>
      BY <1>1 DEF Signed
    <2>2. Ensure(j)
      BY <1>1 DEF Signed
    <2>. QED  BY <2>1, <2>2, EnsureTypes DEF Stages
  <1>2. CASE Serve(j)
    BY <1>2 DEF Serve, Places
  <1>3. CASE Renew(j)
    <2>1. /\ lostSince' \subseteq Jobs
          /\ UNCHANGED <<loginVars, fresh, identity, cookie, rows, reading, carried, disturbed>>
      BY <1>3 DEF Renew
    <2>2. Wait(j, "renewing") /\ "renewing" \in Places
      BY <1>3 DEF Renew, Places
    <2>. QED  BY <2>1, <2>2, WaitTypes DEF Stages
  <1>4. CASE GiveUp(j) \/ Break(j)
    BY <1>4 DEF GiveUp, Break, Places
  <1>5. CASE Finish(j)
    <2>1. rows' \in BOOLEAN
      BY <1>5, Zenon DEF Finish
    <2>2. pc' \in [Jobs -> Places] /\ carried' \in [Jobs -> Anyone]
      BY <1>5 DEF Finish, Places, Anyone
    <2>3. UNCHANGED <<loginVars, sessionVars, reading, disturbed, lostSince>>
      BY <1>5 DEF Finish
    <2>. QED  BY <2>1, <2>2, <2>3
  <1>6. CASE Refresh(j)
    <2>1. /\ reading' \subseteq Jobs /\ disturbed' \subseteq Jobs /\ lostSince' \subseteq Jobs
          /\ UNCHANGED <<loginVars, fresh, identity, cookie, rows>>
      BY <1>6 DEF Refresh, Enter
    <2>2. Ensure(j)
      BY <1>6 DEF Refresh
    <2>. QED  BY <2>1, <2>2, EnsureTypes DEF Stages
  <1>. QED  BY <1>1, <1>2, <1>3, <1>4, <1>5, <1>6 DEF JobStep, ReadAfter, StartRead

LEMMA TypeNext == TypeOK /\ [Next]_vars => TypeOK'
  <1>. SUFFICES ASSUME TypeOK, [Next]_vars PROVE TypeOK'
    OBVIOUS
  <1>. USE SessionAssumption DEF TypeOK, Anyone, Stages, Places, Settle, Overtaken
  <1>1. CASE CreationStep \/ ServerRefuses \/ SessionNotCreated
    <2>1. CASE TokenArrives
      BY <2>1 DEF TokenArrives
    <2>2. CASE ServerMints
      BY <2>2 DEF ServerMints
    <2>3. CASE CookieArrives
      BY <2>3 DEF CookieArrives
    <2>4. CASE SessionCreated
      BY <2>4 DEF SessionCreated
    <2>5. CASE ServerRefuses
      BY <2>5 DEF ServerRefuses
    <2>6. CASE SessionNotCreated
      BY <2>6 DEF SessionNotCreated
    <2>. QED  BY <1>1, <2>1, <2>2, <2>3, <2>4, <2>5, <2>6 DEF CreationStep
  <1>2. CASE Lapse \/ Expire \/ KeyChanges
    <2>1. CASE Lapse
      BY <2>1 DEF Lapse
    <2>2. CASE Expire
      BY <2>2 DEF Expire, Lose
    <2>3. CASE KeyChanges
      BY <2>3 DEF KeyChanges, Lose, Renewing
    <2>. QED  BY <1>2, <2>1, <2>2, <2>3
  <1>3. ASSUME NEW j \in Writes, StartWrite(j) PROVE TypeOK'
    BY <1>3 DEF StartWrite, Enter, Jobs
  <1>4. ASSUME NEW j \in Reads, StartRead(j) PROVE TypeOK'
    BY <1>4, JobTypes DEF Jobs
  <1>5. ASSUME NEW j \in Jobs, JobStep(j) \/ Break(j) PROVE TypeOK'
    BY <1>5, JobTypes
  <1>6. CASE LoginStep
    <2>1. ASSUME NEW u \in Users, Login(u) PROVE TypeOK'
      BY <2>1 DEF Login
    <2>2. CASE Effects
      <3>1. CASE user = NoUser
        BY <2>2, <3>1 DEF Effects, Seen, RowsAfter
      <3>2. CASE user # NoUser
        <4>1. PICK j \in Reads : /\ pc' = [pc EXCEPT ![j] = "ensuring"]
                                 /\ reading' = reading \cup {j}
                                 /\ Enter(j, inFlight # "none" \/ signingOut # "no")
          BY <2>2, <3>2 DEF Effects, Seen, RowsAfter
        <4>2. /\ shown' = user /\ privyToken' \in BOOLEAN /\ fresh' = FALSE
              /\ inFlight' = IF inFlight = "none" THEN "token" ELSE inFlight
              /\ crossed' \subseteq {"creation", "session"}
              /\ UNCHANGED <<user, signingOut, identity, cookie, rows, carried>>
          BY <2>2, <3>2 DEF Effects, Seen, RowsAfter
        <4>3. /\ pc' \in [Jobs -> Places] /\ reading' \subseteq Jobs
              /\ disturbed' \subseteq Jobs /\ lostSince' \subseteq Jobs
          BY <4>1 DEF Enter, Jobs
        <4>. QED  BY <4>2, <4>3
      <3>. QED  BY <3>1, <3>2
    <2>3. CASE SignOut
      BY <2>3 DEF SignOut, Disturb
    <2>4. CASE CookieCleared
      BY <2>4 DEF CookieCleared, Renewing
    <2>5. CASE NotCleared
      BY <2>5 DEF NotCleared
    <2>6. CASE Leave
      BY <2>6 DEF Leave
    <2>7. CASE PrivyEnds
      BY <2>7 DEF PrivyEnds, Disturb
    <2>. QED  BY <1>6, <2>1, <2>2, <2>3, <2>4, <2>5, <2>6, <2>7 DEF LoginStep
  <1>7. CASE UNCHANGED vars
    BY <1>7 DEF vars
  <1>. QED  BY <1>1, <1>2, <1>3, <1>4, <1>5, <1>6, <1>7 DEF Next

\* Type correctness of the session client; a creation past its token step knows
\* whose token it sent.
THEOREM TypeCorrect == Spec => []TypeOK
  <1>1. Init => TypeOK
    BY DEF Init, TypeOK, Anyone, Stages, Places
  <1>. QED  BY <1>1, TypeNext, PTL DEF Spec

----------------------------------------------------------------------------
(* Whose sessions, requests and rows                                       *)

LEMMA CreationKeepsInv ==
  ASSUME TypeOK, SessionInv, CreationStep \/ ServerRefuses \/ SessionNotCreated
  PROVE  SessionInv'
  <1>. USE DEF TypeOK, SessionInv, CreationsBelong, Settle
  <1>1. CASE TokenArrives
    <2>1. CreationsBelong'
      BY <1>1 DEF TokenArrives
    <2>2. LogoutOvertakes'
      BY <1>1 DEF TokenArrives, LogoutOvertakes
    <2>3. UndisturbedAreOwn'
      BY <1>1 DEF TokenArrives, UndisturbedAreOwn, Running, AtRest, Ended
    <2>4. LateRowsOnlyInFlight'
      BY <1>1 DEF TokenArrives, LateRowsOnlyInFlight
    <2>. QED  BY <2>1, <2>2, <2>3, <2>4
  <1>2. CASE ServerMints \/ ServerRefuses
    BY <1>2 DEF ServerMints, ServerRefuses, LogoutOvertakes, UndisturbedAreOwn,
                LateRowsOnlyInFlight, Running, AtRest, Ended
  <1>3. CASE CookieArrives
    <2>1. CreationsBelong'
      BY <1>3 DEF CookieArrives
    <2>2. LogoutOvertakes'
      BY <1>3 DEF CookieArrives, LogoutOvertakes
    <2>3. UndisturbedAreOwn'
      BY <1>3 DEF CookieArrives, UndisturbedAreOwn, Running, AtRest, Ended
    <2>4. LateRowsOnlyInFlight'
      BY <1>3 DEF CookieArrives, LateRowsOnlyInFlight
    <2>. QED  BY <2>1, <2>2, <2>3, <2>4
  <1>4. CASE SessionCreated
    <2>1. CreationsBelong'
      BY <1>4 DEF SessionCreated
    <2>2. LogoutOvertakes'
      BY <1>4 DEF SessionCreated, LogoutOvertakes
    <2>3. UndisturbedAreOwn'
      BY <1>4 DEF SessionCreated, UndisturbedAreOwn, Running, AtRest, Ended
    <2>4. LateRowsOnlyInFlight'
      BY <1>4 DEF SessionCreated, LateRowsOnlyInFlight
    <2>. QED  BY <2>1, <2>2, <2>3, <2>4
  <1>5. CASE SessionNotCreated
    <2>1. CreationsBelong' /\ LogoutOvertakes'
      BY <1>5 DEF SessionNotCreated, LogoutOvertakes
    <2>2. UndisturbedAreOwn'
      BY <1>5 DEF SessionNotCreated, UndisturbedAreOwn, Running, AtRest, Ended
    <2>3. LateRowsOnlyInFlight'
      BY <1>5 DEF SessionNotCreated, LateRowsOnlyInFlight
    <2>. QED  BY <2>1, <2>2, <2>3
  <1>. QED  BY <1>1, <1>2, <1>3, <1>4, <1>5 DEF CreationStep

LEMMA LossKeepsInv ==
  ASSUME TypeOK, SessionInv, Lapse \/ Expire \/ KeyChanges
  PROVE  SessionInv'
  <1>. USE DEF TypeOK, SessionInv, CreationsBelong, LogoutOvertakes, UndisturbedAreOwn,
               LateRowsOnlyInFlight, Running, AtRest, Ended, Lose
  <1>1. CASE Lapse
    BY <1>1 DEF Lapse
  <1>2. CASE Expire
    BY <1>2 DEF Expire
  <1>3. CASE KeyChanges
    BY <1>3 DEF KeyChanges
  <1>. QED  BY <1>1, <1>2, <1>3

\* A step of a job that only moves on, or breaks off, disturbs nothing.
LEMMA MovingOnKeepsInv ==
  ASSUME TypeOK, SessionInv, NEW j \in Jobs, Serve(j) \/ GiveUp(j) \/ Break(j)
  PROVE  SessionInv'
  <1>1. /\ Running(j)
        /\ UNCHANGED <<loginVars, sessionVars, rows, reading, carried, disturbed>>
    BY DEF Serve, GiveUp, Break, Running, AtRest, Ended
  <1>2. PICK at \in Places : /\ pc' = [pc EXCEPT ![j] = at]
                             /\ at \in {"denied", "deniedAgain", "answered"} =>
                                  pc[j] \in {"asked", "askedAgain"}
                             /\ at \notin {"asked", "askedAgain"}
    BY DEF Serve, GiveUp, Break, Places
  <1>3. pc[j] # "done"
    BY DEF Serve, GiveUp, Break
  <1>4. CreationsBelong' /\ LogoutOvertakes'
    BY <1>1 DEF SessionInv, CreationsBelong, LogoutOvertakes
  <1>5. UndisturbedAreOwn'
    BY <1>1, <1>2 DEF SessionInv, UndisturbedAreOwn, TypeOK, Running, AtRest, Ended
  <1>6. LateRowsOnlyInFlight'
    BY <1>1, <1>2, <1>3 DEF SessionInv, LateRowsOnlyInFlight, TypeOK
  <1>. QED  BY <1>4, <1>5, <1>6 DEF SessionInv

LEMMA FinishKeepsInv ==
  ASSUME TypeOK, SessionInv, NEW j \in Jobs, Finish(j)
  PROVE  SessionInv'
  <1>1. /\ pc[j] = "answered" /\ pc' = [pc EXCEPT ![j] = "done"]
        /\ carried' = [carried EXCEPT ![j] = NoUser]
        /\ UNCHANGED <<loginVars, sessionVars, reading, disturbed>>
    BY DEF Finish
  <1>2. rows' = (rows \/ j \in reading)
    BY DEF Finish
  <1>3. CreationsBelong' /\ LogoutOvertakes'
    BY <1>1 DEF SessionInv, CreationsBelong, LogoutOvertakes
  <1>4. UndisturbedAreOwn'
    BY <1>1 DEF SessionInv, UndisturbedAreOwn, TypeOK, Running, AtRest, Ended
  <1>5. LateRowsOnlyInFlight'
    <2>. SUFFICES ASSUME shown = NoUser, rows'
                  PROVE  \E i \in disturbed \cap reading : pc'[i] = "done"
      BY <1>1 DEF LateRowsOnlyInFlight
    <2>1. CASE j \in reading
      <3>1. j \in disturbed
        BY <1>1 DEF SessionInv, UndisturbedAreOwn, Running, AtRest, Ended
      <3>. QED  BY <1>1, <2>1, <3>1 DEF TypeOK
    <2>2. CASE j \notin reading
      <3>1. rows
        BY <1>2, <2>2, Zenon
      <3>2. PICK i \in disturbed \cap reading : pc[i] = "done"
        BY <3>1 DEF SessionInv, LateRowsOnlyInFlight
      <3>. QED  BY <1>1, <3>2 DEF TypeOK
    <2>. QED  BY <2>1, <2>2
  <1>. QED  BY <1>3, <1>4, <1>5 DEF SessionInv

\* Waiting for a creation, or asking with the session at hand.
LEMMA EnsuringKeepsInv ==
  ASSUME TypeOK, SessionInv, NEW j \in Jobs, Signed(j) \/ Renew(j)
  PROVE  SessionInv'
  <1>. USE DEF TypeOK, SessionInv, CreationsBelong, Wait, Ensure, Ask, Overtaken
  <1>1. CASE Signed(j)
    <2>1. CreationsBelong'
      BY <1>1 DEF Signed
    <2>2. LogoutOvertakes'
      BY <1>1 DEF Signed, LogoutOvertakes
    <2>3. UndisturbedAreOwn'
      BY <1>1 DEF Signed, UndisturbedAreOwn, Running, AtRest, Ended
    <2>4. LateRowsOnlyInFlight'
      BY <1>1 DEF Signed, LateRowsOnlyInFlight
    <2>. QED  BY <2>1, <2>2, <2>3, <2>4
  <1>2. CASE Renew(j)
    <2>1. CreationsBelong'
      BY <1>2 DEF Renew
    <2>2. LogoutOvertakes'
      BY <1>2 DEF Renew, LogoutOvertakes
    <2>3. UndisturbedAreOwn'
      BY <1>2 DEF Renew, UndisturbedAreOwn, Running, AtRest, Ended
    <2>4. LateRowsOnlyInFlight'
      BY <1>2 DEF Renew, LateRowsOnlyInFlight
    <2>. QED  BY <2>1, <2>2, <2>3, <2>4
  <1>. QED  BY <1>1, <1>2

\* A refresh begins, of a page that somebody is logged in to, or after a write.
LEMMA RefreshKeepsInv ==
  ASSUME TypeOK, SessionInv, NEW j \in Jobs, Refresh(j), j \in reading => shown # NoUser
  PROVE  SessionInv'
  <1>. USE DEF TypeOK, SessionInv, CreationsBelong, Refresh, Wait, Ensure, Ask, Overtaken, Enter
  <1>1. CreationsBelong'
    OBVIOUS
  <1>2. LogoutOvertakes'
    BY DEF LogoutOvertakes
  <1>3. UndisturbedAreOwn'
    BY DEF UndisturbedAreOwn, Unsettled, Running, AtRest, Ended
  <1>4. LateRowsOnlyInFlight'
    BY DEF LateRowsOnlyInFlight
  <1>. QED  BY <1>1, <1>2, <1>3, <1>4

LEMMA JobKeepsInv ==
  ASSUME TypeOK, SessionInv,
         \/ \E j \in Writes : StartWrite(j)
         \/ \E j \in Reads : StartRead(j)
         \/ \E j \in Jobs : JobStep(j) \/ Break(j)
  PROVE  SessionInv'
  <1>1. ASSUME NEW j \in Writes, StartWrite(j) PROVE SessionInv'
    <2>1. j \in Jobs /\ shown = user /\ user # NoUser
      BY <1>1 DEF StartWrite, Jobs
    <2>2. CreationsBelong' /\ LogoutOvertakes'
      BY <1>1 DEF StartWrite, SessionInv, CreationsBelong, LogoutOvertakes
    <2>3. UndisturbedAreOwn'
      BY <1>1, <2>1 DEF StartWrite, SessionInv, UndisturbedAreOwn, Enter, Unsettled, TypeOK,
                        Running, AtRest, Ended
    <2>4. LateRowsOnlyInFlight'
      BY <1>1, <2>1 DEF StartWrite, LateRowsOnlyInFlight
    <2>. QED  BY <2>2, <2>3, <2>4 DEF SessionInv
  <1>2. ASSUME NEW j \in Reads, StartRead(j) PROVE SessionInv'
    BY <1>2, RefreshKeepsInv DEF StartRead, Jobs
  <1>3. ASSUME NEW j \in Jobs, ReadAfter(j) PROVE SessionInv'
    BY <1>3, RefreshKeepsInv DEF ReadAfter
  <1>. QED  BY <1>1, <1>2, <1>3, MovingOnKeepsInv, FinishKeepsInv, EnsuringKeepsInv DEF JobStep

\* Nobody is undisturbed while the page has yet to see a change of login.
LEMMA EffectsKeepInv ==
  ASSUME TypeOK, SessionInv, Effects
  PROVE  SessionInv'
  <1>1. \A j \in Jobs \ disturbed : AtRest(j)
    BY DEF Effects, Seen, SessionInv, UndisturbedAreOwn, Running
  <1>2. /\ shown' = user /\ privyToken' = (user # NoUser) /\ fresh' = FALSE
        /\ Overtaken(inFlight # "none" \/ (user # NoUser /\ signingOut # "no"))
        /\ UNCHANGED <<user, signingOut, identity, cookie>>
    BY DEF Effects, Seen
  <1>3. CASE user = NoUser
    <2>1. rows' = FALSE /\ UNCHANGED <<inFlight, jobVars>>
      BY <1>3 DEF Effects, Seen, RowsAfter
    <2>2. CreationsBelong'
      BY <1>2, <1>3, <2>1 DEF SessionInv, CreationsBelong, Overtaken
    <2>3. LogoutOvertakes'
      BY <1>2, <1>3, <2>1 DEF SessionInv, LogoutOvertakes, Overtaken
    <2>4. UndisturbedAreOwn' /\ LateRowsOnlyInFlight'
      BY <1>1, <2>1 DEF UndisturbedAreOwn, LateRowsOnlyInFlight, Running, AtRest, Ended
    <2>. QED  BY <2>2, <2>3, <2>4 DEF SessionInv
  <1>4. CASE user # NoUser
    <2>1. inFlight' = IF inFlight = "none" THEN "token" ELSE inFlight
      BY <1>4 DEF Effects, Seen
    <2>2. PICK j \in Reads : /\ pc' = [pc EXCEPT ![j] = "ensuring"]
                             /\ reading' = reading \cup {j}
                             /\ Enter(j, inFlight # "none" \/ signingOut # "no")
      BY <1>4 DEF Effects, Seen
    <2>3. j \in Jobs
      BY DEF Jobs
    <2>4. CreationsBelong'
      BY <1>2, <1>4, <2>1 DEF SessionInv, CreationsBelong, Overtaken, TypeOK
    <2>5. LogoutOvertakes'
      BY <1>2, <1>4, <2>1 DEF SessionInv, LogoutOvertakes, Overtaken
    <2>6. UndisturbedAreOwn'
      <3>. SUFFICES ASSUME NEW i \in Jobs, i \notin disturbed', Running(i)'
                    PROVE  /\ user # NoUser /\ signingOut = "no"
                           /\ "creation" \notin crossed'
                           /\ pc'[i] = "ensuring"
        BY <1>2 DEF UndisturbedAreOwn
      <3>1. i = j
        BY <1>1, <2>2, <2>3 DEF Enter, Running, AtRest, Ended, TypeOK
      <3>2. inFlight = "none" /\ signingOut = "no"
        BY <2>2, <2>3, <3>1 DEF Enter
      <3>3. "creation" \notin crossed'
        BY <1>2, <3>2 DEF Overtaken, SessionInv, CreationsBelong
      <3>. QED  BY <1>4, <2>2, <2>3, <3>1, <3>2, <3>3 DEF TypeOK
    <2>7. LateRowsOnlyInFlight'
      BY <1>2, <1>4 DEF LateRowsOnlyInFlight
    <2>. QED  BY <2>4, <2>5, <2>6, <2>7 DEF SessionInv
  <1>. QED  BY <1>3, <1>4

LEMMA LoginKeepsInv ==
  ASSUME TypeOK, SessionInv, LoginStep
  PROVE  SessionInv'
  <1>. USE DEF TypeOK, SessionInv, CreationsBelong, LogoutOvertakes, UndisturbedAreOwn,
               LateRowsOnlyInFlight, Running, AtRest, Ended, Disturb
  <1>1. ASSUME NEW u \in Users, Login(u) PROVE SessionInv'
    BY <1>1, SessionAssumption DEF Login
  <1>2. CASE SignOut
    BY <1>2 DEF SignOut
  <1>3. CASE CookieCleared
    BY <1>3 DEF CookieCleared, Overtaken
  <1>4. CASE NotCleared
    BY <1>4 DEF NotCleared
  <1>5. CASE Leave
    BY <1>5 DEF Leave
  <1>6. CASE PrivyEnds
    BY <1>6 DEF PrivyEnds
  <1>. QED  BY <1>1, <1>2, <1>3, <1>4, <1>5, <1>6, EffectsKeepInv DEF LoginStep

LEMMA InvHolds == Spec => []SessionInv
  <1>1. Init => SessionInv
    BY DEF Init, SessionInv, CreationsBelong, LogoutOvertakes, UndisturbedAreOwn,
           LateRowsOnlyInFlight, Running, AtRest
  <1>2. TypeOK /\ SessionInv /\ [Next]_vars => SessionInv'
    <2>1. ASSUME SessionInv, UNCHANGED vars PROVE SessionInv'
      BY <2>1 DEF vars, SessionInv, CreationsBelong, LogoutOvertakes, UndisturbedAreOwn,
             LateRowsOnlyInFlight, Running, AtRest
    <2>. QED  BY <2>1, CreationKeepsInv, LossKeepsInv, JobKeepsInv, LoginKeepsInv DEF Next
  <1>. QED  BY <1>1, <1>2, TypeCorrect, PTL DEF Spec

\* Whatever overlaps, what a job asks with that no change of login overtook is served as
\* the logged-in user's (handleBundler and handleLog take the user from the cookie, which
\* ensureSession does not look at).
THEOREM RequestsAreOwn == Spec => []ServedAsOwner
  <1>1. SessionInv => ServedAsOwner
    BY DEF SessionInv, UndisturbedAreOwn, ServedAsOwner, Running, AtRest, Ended
  <1>. QED  BY <1>1, InvHolds, PTL

\* A page takes another user's session for a fresh one only if that session's creation
\* was in flight when the login changed (session.ts:46-50 and 95-100).
THEOREM SessionsAreOwn == Spec => []InheritedOnlyInFlight
  <1>1. SessionInv => InheritedOnlyInFlight
    BY DEF SessionInv, CreationsBelong, InheritedOnlyInFlight
  <1>. QED  BY <1>1, InvHolds, PTL

\* After an answered DELETE the session lives on only if its creation was in flight then
\* or began later (App.tsx:101-106, signOut).
THEOREM LogoutEndsSession == Spec => []OutlivesOnlyInFlight
  <1>1. SessionInv => OutlivesOnlyInFlight
    BY DEF SessionInv, LogoutOvertakes, OutlivesOnlyInFlight
  <1>. QED  BY <1>1, InvHolds, PTL

\* A page without a login shows rows only after a refresh that the end of a login
\* overtook (App.tsx:110-130).
THEOREM LogoutEndsRows == Spec => []LateRowsOnlyInFlight
  <1>1. SessionInv => LateRowsOnlyInFlight
    BY DEF SessionInv
  <1>. QED  BY <1>1, InvHolds, PTL

----------------------------------------------------------------------------
(* One re-login is enough                                                  *)

\* A creation ends with the cookie it was minted, which those who wait for it carry.
LEMMA CreationKeepsRelogin ==
  ASSUME TypeOK, ReloginInv, CreationStep \/ ServerRefuses \/ SessionNotCreated
  PROVE  ReloginInv'
  <1>. USE SessionAssumption DEF TypeOK, ReloginInv, Settle, Spoiled, Renewing
  <1>1. CASE TokenArrives
    BY <1>1 DEF TokenArrives
  <1>2. CASE ServerMints \/ ServerRefuses
    BY <1>2 DEF ServerMints, ServerRefuses
  <1>3. CASE CookieArrives
    BY <1>3 DEF CookieArrives
  <1>4. CASE SessionCreated
    BY <1>4 DEF SessionCreated
  <1>5. CASE SessionNotCreated
    BY <1>5 DEF SessionNotCreated
  <1>. QED  BY <1>1, <1>2, <1>3, <1>4, <1>5 DEF CreationStep

\* A loss is noted for every retry on its way, one of a new session also for those who
\* wait for it.
LEMMA LossKeepsRelogin ==
  ASSUME TypeOK, ReloginInv, Lapse \/ Expire \/ KeyChanges
  PROVE  ReloginInv'
  <1>. USE DEF TypeOK, ReloginInv, Lose, Spoiled, Renewing
  <1>1. CASE Lapse
    BY <1>1 DEF Lapse
  <1>2. CASE Expire
    BY <1>2 DEF Expire
  <1>3. CASE KeyChanges
    BY <1>3 DEF KeyChanges
  <1>. QED  BY <1>1, <1>2, <1>3

LEMMA JobKeepsRelogin ==
  ASSUME TypeOK, ReloginInv,
         \/ \E j \in Writes : StartWrite(j)
         \/ \E j \in Reads : StartRead(j)
         \/ \E j \in Jobs : JobStep(j) \/ Break(j)
  PROVE  ReloginInv'
  <1>. USE DEF TypeOK, ReloginInv, Spoiled, Renewing
  <1>1. ASSUME NEW j \in Writes, StartWrite(j) PROVE ReloginInv'
    BY <1>1 DEF StartWrite, Enter, Jobs
  <1>2. ASSUME NEW j \in Jobs, Refresh(j) PROVE ReloginInv'
    BY <1>2 DEF Refresh, Enter, Ask, Wait, Ensure
  <1>3. ASSUME NEW j \in Jobs, Signed(j) PROVE ReloginInv'
    BY <1>3 DEF Signed, Ask, Wait, Ensure
  <1>4. ASSUME NEW j \in Jobs, Serve(j) PROVE ReloginInv'
    BY <1>4 DEF Serve
  <1>5. ASSUME NEW j \in Jobs, Renew(j) PROVE ReloginInv'
    BY <1>5 DEF Renew, Wait
  <1>6. ASSUME NEW j \in Jobs, GiveUp(j) \/ Finish(j) \/ Break(j) PROVE ReloginInv'
    BY <1>6 DEF GiveUp, Finish, Break
  <1>. HIDE DEF ReloginInv
  <1>7. ASSUME NEW j \in Reads, StartRead(j) PROVE ReloginInv'
    BY <1>2, <1>7 DEF StartRead, Jobs
  <1>8. ASSUME NEW j \in Jobs, ReadAfter(j) PROVE ReloginInv'
    BY <1>2, <1>8 DEF ReadAfter
  <1>. QED  BY <1>1, <1>3, <1>4, <1>5, <1>6, <1>7, <1>8 DEF JobStep

LEMMA LoginKeepsRelogin ==
  ASSUME TypeOK, ReloginInv, LoginStep
  PROVE  ReloginInv'
  <1>. USE DEF ReloginInv, Spoiled, Renewing
  <1>1. ASSUME NEW u \in Users, Login(u) PROVE ReloginInv'
    BY <1>1 DEF Login
  <1>2. CASE Effects
    <2>1. CASE user = NoUser
      BY <1>2, <2>1 DEF Effects, Seen
    <2>2. CASE user # NoUser
      <3>1. PICK j \in Reads : /\ pc' = [pc EXCEPT ![j] = "ensuring"]
                               /\ reading' = reading \cup {j}
                               /\ lostSince' = lostSince \ {j}
        BY <1>2, <2>2 DEF Effects, Seen, Enter
      <3>2. /\ inFlight' = IF inFlight = "none" THEN "token" ELSE inFlight
            /\ UNCHANGED <<cookie, carried>>
        BY <1>2, <2>2 DEF Effects, Seen
      <3>. QED  BY <3>1, <3>2 DEF TypeOK, Jobs
    <2>. QED  BY <2>1, <2>2
  <1>3. CASE CookieCleared
    BY <1>3 DEF CookieCleared, TypeOK
  <1>4. CASE SignOut \/ NotCleared \/ Leave \/ PrivyEnds
    BY <1>4 DEF SignOut, NotCleared, Leave, PrivyEnds
  <1>. QED  BY <1>1, <1>2, <1>3, <1>4 DEF LoginStep

\* A refresh is refused for a second time only if its session was lost again after the
\* re-login began, and so is a write, unless the bundler refused a good session's token
\* (the single retry of bundlerSend and fetchWriteLog, history.ts:43).
THEOREM ReloginIsEnough == Spec => []OneReloginFixesIt
  <1>1. Init => ReloginInv
    BY DEF Init, ReloginInv, Spoiled
  <1>2. ASSUME TypeOK, ReloginInv, [Next]_vars PROVE ReloginInv'
    <2>1. CASE UNCHANGED vars
      BY <1>2, <2>1 DEF vars, ReloginInv, Spoiled, Renewing
    <2>. QED
      BY <1>2, <2>1, CreationKeepsRelogin, LossKeepsRelogin, JobKeepsRelogin,
         LoginKeepsRelogin DEF Next
  <1>3. ReloginInv => OneReloginFixesIt
    BY DEF ReloginInv, OneReloginFixesIt
  <1>. QED  BY <1>1, <1>2, <1>3, TypeCorrect, PTL DEF Spec
=============================================================================
