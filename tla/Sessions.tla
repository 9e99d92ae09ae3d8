------------------------------ MODULE Sessions ------------------------------
(***************************************************************************)
(* AuthService, PasswordResetService and ProfileService: the password and  *)
(* its lock, refresh tokens and their rotation, the reset link.  An action *)
(* runs from one await of the database to the next.                        *)
(***************************************************************************)
EXTENDS Account

\* verifyCredentials reads the user: a locked account is refused here.  The
\* password is compared with the row as it was read.
LoginLoad(r) ==
  /\ user.lock # "on"
  /\ \/ /\ Arrives(r, "login")
        /\ Hold(r, [Arrived("right") EXCEPT !.saw = user, !.proof = user.password])
     \/ /\ Arrives(r, "mistyped")
        /\ Hold(r, [Arrived("wrong") EXCEPT !.saw = user])
  /\ UNCHANGED <<mix, user, sessions, links, challenges, devices, history>>

\* One more wrong password; the request that reaches the limit goes on to lock.
CountFailedLogin_readThenWrite(r) ==
  LET count == requests[r].saw.failed + 1
  IN /\ requests[r].at = "wrong"
     /\ history.wrong < MaxWrong
     /\ user' = [user EXCEPT !.failed = count]
     /\ history' = [history EXCEPT !.wrong = @ + 1]
     /\ IF count < MaxFailed THEN Done(r) ELSE Goto(r, "lock")
     /\ UNCHANGED <<mix, sessions, links, challenges, devices>>

CountFailedLogin(r) ==
  LET count == user.failed + 1
  IN /\ requests[r].at = "wrong"
     /\ history.wrong < MaxWrong
     /\ user' = [user EXCEPT !.failed = count]
     /\ history' = [history EXCEPT !.wrong = @ + 1]
     /\ IF count < MaxFailed THEN Done(r) ELSE Goto(r, "lock")
     /\ UNCHANGED <<mix, sessions, links, challenges, devices>>

\* The lock is a conditional update: of several at the limit one locks.
LockAccount(r) ==
  /\ requests[r].at = "lock"
  /\ IF user.failed >= MaxFailed
       THEN /\ user' = [user EXCEPT !.failed = 0, !.lock = "on"]
            /\ history' = [history EXCEPT !.cleared = @ + user.failed, !.locks = @ + 1]
       ELSE UNCHANGED <<user, history>>
  /\ Done(r)
  /\ UNCHANGED <<mix, sessions, links, challenges, devices>>

\* The right password clears the count and the lock, when the row as it was
\* read had either.
PasswordRight_takesOff(r) ==
  /\ requests[r].at = "right"
  /\ IF requests[r].saw.failed > 0 \/ requests[r].saw.lock # "none"
       THEN /\ user' = [user EXCEPT !.failed = @ - requests[r].saw.failed, !.lock = "none"]
            /\ history' = [history EXCEPT !.cleared = @ + requests[r].saw.failed]
       ELSE UNCHANGED <<user, history>>
  /\ Goto(r, "entry")
  /\ UNCHANGED <<mix, sessions, links, challenges, devices>>

PasswordRight(r) ==
  /\ requests[r].at = "right"
  /\ IF requests[r].saw.failed > 0 \/ requests[r].saw.lock # "none"
       THEN /\ user' = [user EXCEPT !.failed = 0, !.lock = "none"]
            /\ history' = [history EXCEPT !.cleared = @ + user.failed]
       ELSE UNCHANGED <<user, history>>
  /\ Goto(r, "entry")
  /\ UNCHANGED <<mix, sessions, links, challenges, devices>>

NewSession(r) ==
  [made |-> TRUE, live |-> TRUE, fresh |-> TRUE, proof |-> requests[r].proof,
   late |-> Overtaken(r), from |-> 0, raced |-> FALSE]

\* A session for someone whose identity is settled: by password alone, by a
\* trusted browser, or by a code.  A code may come with "remember this device".
SignIn(r) ==
  /\ \/ requests[r].at = "admit"
     \/ requests[r].at = "entry" /\ ~requests[r].saw.twoFactor
  /\ \E n \in SessionIds : /\ IsNext(sessions, n)
                           /\ sessions' = [sessions EXCEPT ![n] = NewSession(r)]
  /\ IF requests[r].remember THEN Goto(r, "trust") ELSE Done(r)
  /\ UNCHANGED <<mix, user, links, challenges, devices, history>>

-----------------------------------------------------------------------------
\* refresh reads the row of the token it was given: a revoked or expired one
\* is taken for stolen.
RefreshLoad_anyToken(r) ==
  /\ Arrives(r, "refresh")
  /\ \E t \in SessionIds :
       /\ sessions[t].made
       /\ Hold(r, [Arrived(IF sessions[t].fresh THEN "rotate" ELSE "reuse")
                     EXCEPT !.id = t, !.live = sessions[t].live,
                            !.proof = sessions[t].proof, !.late = sessions[t].late])
  /\ UNCHANGED <<mix, user, sessions, links, challenges, devices, history>>

RefreshLoad(r) ==
  /\ Arrives(r, "refresh")
  /\ \E t \in SessionIds :
       /\ sessions[t].made
       /\ Hold(r, [Arrived(IF sessions[t].live /\ sessions[t].fresh THEN "rotate" ELSE "reuse")
                     EXCEPT !.id = t, !.live = sessions[t].live,
                            !.proof = sessions[t].proof, !.late = sessions[t].late])
  /\ UNCHANGED <<mix, user, sessions, links, challenges, devices, history>>

AllRevoked == [t \in SessionIds |-> [sessions[t] EXCEPT !.live = FALSE]]

\* A token presented again ends every session of the user.
ReuseDetected(r) ==
  /\ requests[r].at = "reuse"
  /\ sessions' = AllRevoked
  /\ Done(r)
  /\ UNCHANGED <<mix, user, links, challenges, devices, history>>

\* The rotation is one transaction, but the row it replaces was read before it
\* and is not looked at again.
Rotate(r) ==
  LET t == requests[r].id
      replaced == [sessions EXCEPT ![t].live = FALSE]
  IN /\ requests[r].at = "rotate"
     /\ \E n \in SessionIds :
          /\ IsNext(sessions, n)
          /\ sessions' = [replaced EXCEPT ![n] =
                            [NewSession(r) EXCEPT !.from = t,
                               !.raced = requests[r].live /\ ~sessions[t].live]]
     /\ Done(r)
     /\ UNCHANGED <<mix, user, links, challenges, devices, history>>

\* logout revokes the token it is given, in one update.
Logout(t) ==
  /\ "logout" \in mix.kinds
  /\ sessions[t].live
  /\ sessions' = [sessions EXCEPT ![t].live = FALSE]
  /\ UNCHANGED <<mix, user, links, challenges, devices, requests, history>>

-----------------------------------------------------------------------------
\* A link was asked for; one a minute.
ForgotLoad(r) ==
  /\ Arrives(r, "forgot")
  /\ \A l \in LinkIds : ~links[l].recent
  /\ Hold(r, Arrived("issue"))
  /\ UNCHANGED <<mix, user, sessions, links, challenges, devices, history>>

SpentLinks == [l \in LinkIds |-> [links[l] EXCEPT !.used = links[l].made]]

\* Earlier links are retired and the new one made, in one transaction.
IssueLink(r) ==
  /\ requests[r].at = "issue"
  /\ \E n \in LinkIds :
       /\ IsNext(links, n)
       /\ links' = [SpentLinks EXCEPT ![n] =
                      [made |-> TRUE, used |-> FALSE, fresh |-> TRUE, recent |-> TRUE]]
  /\ Done(r)
  /\ UNCHANGED <<mix, user, sessions, challenges, devices, history>>

\* reset finds the link; whether it is used is only looked at when it is
\* claimed, after the new password has been hashed.  One that had expired when
\* the request came in is refused there too.
ResetLoad(r) ==
  /\ Arrives(r, "reset")
  /\ \E l \in LinkIds : /\ links[l].made
                        /\ links[l].fresh
                        /\ Hold(r, [Arrived("claim") EXCEPT !.id = l])
  /\ UNCHANGED <<mix, user, sessions, links, challenges, devices, history>>

\* One transaction: claim the link, set the password, clear the lock, retire
\* the other links, end every session.  A link already used changes nothing.
ResetPassword_keepsSessions(r) ==
  LET l == requests[r].id
  IN /\ requests[r].at = "claim"
     /\ ~links[l].used
     /\ user.password < mix.passwords
     /\ user' = [user EXCEPT !.password = @ + 1, !.failed = 0, !.lock = "none"]
     /\ links' = SpentLinks
     /\ history' = [history EXCEPT !.cleared = @ + user.failed, !.resets[l] = @ + 1]
     /\ Goto(r, "forget")
     /\ UNCHANGED <<mix, sessions, challenges, devices>>

ResetPassword_unclaimed(r) ==
  LET l == requests[r].id
  IN /\ requests[r].at = "claim"
     /\ user.password < mix.passwords
     /\ user' = [user EXCEPT !.password = @ + 1, !.failed = 0, !.lock = "none"]
     /\ links' = SpentLinks
     /\ sessions' = AllRevoked
     /\ history' = [history EXCEPT !.cleared = @ + user.failed, !.resets[l] = @ + 1]
     /\ Goto(r, "forget")
     /\ UNCHANGED <<mix, challenges, devices>>

ResetPassword(r) ==
  LET l == requests[r].id
  IN /\ requests[r].at = "claim"
     /\ ~links[l].used
     /\ user.password < mix.passwords
     /\ user' = [user EXCEPT !.password = @ + 1, !.failed = 0, !.lock = "none"]
     /\ links' = SpentLinks
     /\ sessions' = AllRevoked
     /\ history' = [history EXCEPT !.cleared = @ + user.failed, !.resets[l] = @ + 1]
     /\ Goto(r, "forget")
     /\ UNCHANGED <<mix, challenges, devices>>

LinkRefused(r) ==
  /\ requests[r].at = "claim"
  /\ links[requests[r].id].used
  /\ Done(r)
  /\ UNCHANGED <<mix, user, sessions, links, challenges, devices, history>>

\* The profile form with a new password; the cookie says which session to keep.
ProfileLoad(r) ==
  /\ Arrives(r, "profile")
  /\ \E keep \in {0} \union {t \in SessionIds : sessions[t].made} :
       Hold(r, [Arrived("save") EXCEPT !.id = keep])
  /\ UNCHANGED <<mix, user, sessions, links, challenges, devices, history>>

\* One transaction: the new password, and every session but the kept one ends.
\* Whoever holds the kept one set the new password.
SaveProfile(r) ==
  LET new == user.password + 1
  IN /\ requests[r].at = "save"
     /\ new <= mix.passwords
     /\ user' = [user EXCEPT !.password = new]
     /\ sessions' = [t \in SessionIds |->
                       IF t = requests[r].id
                         THEN [sessions[t] EXCEPT !.proof = new, !.late = FALSE]
                         ELSE [sessions[t] EXCEPT !.live = FALSE]]
     /\ Goto(r, "forget")
     /\ UNCHANGED <<mix, links, challenges, devices, history>>

\* Every trusted device is forgotten, after the transaction that called for it.
ForgetDevices(r) ==
  /\ requests[r].at = "forget"
  /\ devices' = [d \in DeviceIds |-> [devices[d] EXCEPT !.live = FALSE]]
  /\ Done(r)
  /\ UNCHANGED <<mix, user, sessions, links, challenges, history>>
=============================================================================
