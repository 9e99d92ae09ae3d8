--------------------------------- MODULE Auth ---------------------------------
(***************************************************************************)
(* Signing in: the sessions, the reset link, the profile's password, the   *)
(* codes and the trusted devices of one account together, with requests of *)
(* all of them in progress at once.  A request may also end anywhere: the  *)
(* process dies, or a statement fails.                                     *)
(***************************************************************************)
EXTENDS Sessions, TwoFactor

\* Any deadline may pass; one of a row that is over already changes nothing.
LockLapses ==
  /\ user.lock = "on"
  /\ user' = [user EXCEPT !.lock = "lapsed"]
  /\ UNCHANGED <<mix, sessions, links, challenges, devices, requests, history>>

SessionLapses(t) ==
  /\ sessions[t].live /\ sessions[t].fresh
  /\ sessions' = [sessions EXCEPT ![t].fresh = FALSE]
  /\ UNCHANGED <<mix, user, links, challenges, devices, requests, history>>

LinkAges(l) ==
  /\ \/ /\ links[l].recent
        /\ links' = [links EXCEPT ![l].recent = FALSE]
     \/ /\ links[l].fresh /\ ~links[l].recent /\ ~links[l].used
        /\ links' = [links EXCEPT ![l].fresh = FALSE]
  /\ UNCHANGED <<mix, user, sessions, challenges, devices, requests, history>>

ChallengeAges(c) ==
  /\ challenges[c].open
  /\ \/ /\ challenges[c].cooling
        /\ challenges' = [challenges EXCEPT ![c].cooling = FALSE]
     \/ /\ challenges[c].fresh /\ ~challenges[c].cooling
        /\ challenges' = [challenges EXCEPT ![c].fresh = FALSE]
  /\ UNCHANGED <<mix, user, sessions, links, devices, requests, history>>

DeviceLapses(d) ==
  /\ devices[d].live /\ devices[d].fresh
  /\ devices' = [devices EXCEPT ![d].fresh = FALSE]
  /\ UNCHANGED <<mix, user, sessions, links, challenges, requests, history>>

Die(r) ==
  /\ requests[r].at # "idle"
  /\ history' = [history EXCEPT !.died = @ \/ requests[r].at \in {"lock", "forget"}]
  /\ Done(r)
  /\ UNCHANGED <<mix, user, sessions, links, challenges, devices>>

-----------------------------------------------------------------------------
\* An account just registered, and the session that registering opened.
Init ==
  /\ mix \in Mixes
  /\ user \in [password: {1}, failed: {0}, lock: {"none"}, twoFactor: BOOLEAN]
  /\ sessions = [t \in SessionIds |->
                   IF t = 1 THEN [NoSession EXCEPT !.made = TRUE, !.live = TRUE, !.fresh = TRUE,
                                                   !.proof = 1]
                            ELSE NoSession]
  /\ links = [l \in LinkIds |-> NoLink]
  /\ challenges = [c \in ChallengeIds |-> NoChallenge]
  /\ devices = [d \in DeviceIds |-> NoDevice]
  /\ requests = [r \in Requests |-> Idle]
  /\ history = NothingYet

SessionStep(r) ==
  \/ LoginLoad(r) \/ CountFailedLogin(r) \/ LockAccount(r) \/ PasswordRight(r) \/ SignIn(r)
  \/ RefreshLoad(r) \/ ReuseDetected(r) \/ Rotate(r)

PasswordStep(r) ==
  \/ ForgotLoad(r) \/ IssueLink(r) \/ ResetLoad(r) \/ ResetPassword(r) \/ LinkRefused(r)
  \/ ProfileLoad(r) \/ SaveProfile(r) \/ ForgetDevices(r)

CodeStep(r) ==
  \/ TrustedEntry(r) \/ Touch(r) \/ StartLogin(r)
  \/ VerifyLoad(r) \/ CountGuess(r) \/ ClaimCode(r) \/ Trust(r)
  \/ ResendLoad(r) \/ Resend(r)
  \/ SettingsLoad(r) \/ Cooldown(r) \/ StartSettings(r)
  \/ ConfirmLoad(r) \/ Latest(r) \/ TurnOn(r) \/ TurnOff(r)

Lapse ==
  \/ LockLapses
  \/ \E t \in SessionIds : SessionLapses(t)
  \/ \E l \in LinkIds : LinkAges(l)
  \/ \E c \in ChallengeIds : ChallengeAges(c)
  \/ \E d \in DeviceIds : DeviceLapses(d)

Next ==
  \/ \E r \in Requests : SessionStep(r) \/ PasswordStep(r) \/ CodeStep(r) \/ Die(r)
  \/ \E t \in SessionIds : Logout(t)
  \/ \E d \in DeviceIds : RevokeDevice(d)
  \/ RevokeDevices
  \/ Lapse

Spec == Init /\ [][Next]_vars

-----------------------------------------------------------------------------
\* Every row is well formed.
TypeOK ==
  /\ mix \in Mixes
  /\ user \in UserRow
  /\ sessions \in [SessionIds -> SessionRow]
  /\ links \in [LinkIds -> LinkRow]
  /\ challenges \in [ChallengeIds -> ChallengeRow]
  /\ devices \in [DeviceIds -> DeviceRow]
  /\ requests \in [Requests -> RequestRow]
  /\ history \in HistoryRow

At(place) == \E r \in Requests : requests[r].at = place

\* No wrong password is lost, however many come in at once: each is in the count
\* or was cleared with it; a lock costs the whole limit; and a count at the limit
\* always has a request about to lock, unless that one died there
\* (AuthService.countFailedLogin).
EveryGuessCounts ==
  /\ history.wrong = user.failed + history.cleared
  /\ history.locks * MaxFailed <= history.cleared
  /\ user.failed >= MaxFailed => At("lock") \/ history.died

\* A new password, from a link or from the profile, ends every session and every
\* trusted device opened with an older one; those of requests and challenges the
\* change overtook are the exception, and devices wait for the request that
\* changed it (PasswordResetService.reset, ProfileService.update).
OldPasswordIsOut ==
  /\ \A t \in SessionIds :
       sessions[t].live /\ ~sessions[t].late => sessions[t].proof = user.password
  /\ \A d \in DeviceIds :
       devices[d].live /\ ~devices[d].late =>
         devices[d].proof = user.password \/ At("forget") \/ history.died

\* A refresh token is replaced once: a second session from one token was read
\* while the first rotation was in flight (AuthService.refresh).
ForksOnlyInRaces ==
  \A s, t \in SessionIds :
    /\ sessions[s].from = sessions[t].from
    /\ sessions[s].from # 0
    /\ ~sessions[s].raced
    /\ ~sessions[t].raced
    => s = t

\* A link sets one password and a code lets one request through, whatever two
\* tabs do with them (PasswordResetService.reset, TwoFactorService.check).
UsedOnce ==
  /\ \A l \in LinkIds : history.resets[l] <= 1
  /\ \A c \in ChallengeIds : history.claimed[c] <= 1

\* A challenge answers at most MaxAttempts guesses, parallel ones and those made
\* after a resend included (TwoFactorService.check, resendLogin).
GuessesAreBounded ==
  \A c \in ChallengeIds : history.answered[c] <= MaxAttempts
=============================================================================
