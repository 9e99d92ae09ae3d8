------------------------------ MODULE TwoFactor ------------------------------
(***************************************************************************)
(* TwoFactorService and TrustedDevicesService: codes sent by mail for      *)
(* signing in and for turning two-factor on and off, and the browsers that *)
(* need none.  An action runs from one await of the database to the next.  *)
(***************************************************************************)
EXTENDS Account

\* Signing in with two-factor on, from a browser whose cookie is of a trusted
\* device.
TrustedEntry(r) ==
  /\ requests[r].at = "entry"
  /\ requests[r].saw.twoFactor
  /\ \E d \in DeviceIds :
       /\ devices[d].live
       /\ devices[d].fresh
       /\ Hold(r, [requests[r] EXCEPT !.at = "touch", !.id = d])
  /\ UNCHANGED <<mix, user, sessions, links, challenges, devices, history>>

\* isTrusted notes the use; the update of a row deleted meanwhile fails, and
\* the sign-in with it.
Touch(r) ==
  /\ requests[r].at = "touch"
  /\ IF devices[requests[r].id].live THEN Goto(r, "admit") ELSE Done(r)
  /\ UNCHANGED <<mix, user, sessions, links, challenges, devices, history>>

Closed(purpose) ==
  [c \in ChallengeIds |->
     [challenges[c] EXCEPT !.open = @ /\ challenges[c].purpose # purpose]]

\* start: older open challenges of the purpose are closed and a new one made, in
\* one transaction.
Start(r, purpose) ==
  \E n \in ChallengeIds :
    /\ IsNext(challenges, n)
    /\ n <= mix.challenges
    /\ challenges' = [Closed(purpose) EXCEPT ![n] =
                        [made |-> TRUE, purpose |-> purpose, attempts |-> 0, open |-> TRUE,
                         fresh |-> TRUE, cooling |-> TRUE, proof |-> requests[r].proof,
                         late |-> Overtaken(r)]]

\* No trusted browser: the password alone opens no session, a code is sent.
StartLogin(r) ==
  /\ requests[r].at = "entry"
  /\ requests[r].saw.twoFactor
  /\ Start(r, "LOGIN")
  /\ Done(r)
  /\ UNCHANGED <<mix, user, sessions, links, devices, history>>

-----------------------------------------------------------------------------
\* check, up to its first write: the challenge as it was read is open, not
\* exhausted and not expired, and the code is compared with its code.
Judge(r, c, request) ==
  /\ challenges[c].fresh
  /\ Guessable(c)
  /\ \/ Hold(r, [request EXCEPT !.at = "accept", !.id = c])
     \/ /\ "miscoded" \in mix.kinds
        /\ Hold(r, [request EXCEPT !.at = "guess", !.id = c])

\* A code for a sign-in challenge, with or without "remember this device".
VerifyLoad(r) ==
  /\ Arrives(r, "verify")
  /\ \E c \in ChallengeIds, remember \in BOOLEAN :
       /\ challenges[c].purpose = "LOGIN"
       /\ Judge(r, c, [Arrived("idle") EXCEPT
                         !.remember = remember, !.proof = challenges[c].proof,
                         !.late = challenges[c].late \/ challenges[c].proof # user.password])
  /\ UNCHANGED <<mix, user, sessions, links, challenges, devices, history>>

\* A wrong guess is counted by a conditional update before it is answered; one
\* past the limit, or at a code used meanwhile, is refused without a word on it.
CountGuess(r) ==
  LET c == requests[r].id
  IN /\ requests[r].at = "guess"
     /\ IF Guessable(c)
          THEN /\ challenges' = [challenges EXCEPT ![c].attempts = @ + 1]
               /\ history' = [history EXCEPT !.answered[c] = @ + 1]
          ELSE UNCHANGED <<challenges, history>>
     /\ Done(r)
     /\ UNCHANGED <<mix, user, sessions, links, devices>>

Accepted(purpose) == CASE purpose = "LOGIN" -> "admit"
                       [] purpose = "ENABLE" -> "turnOn"
                       [] purpose = "DISABLE" -> "turnOff"

\* A right one is claimed the same way.  The code itself is not looked at again:
\* one replaced by a resend after it was read is still claimed.
ClaimCode(r) ==
  LET c == requests[r].id
  IN /\ requests[r].at = "accept"
     /\ IF Guessable(c)
          THEN /\ challenges' = [challenges EXCEPT ![c].open = FALSE]
               /\ history' = [history EXCEPT !.answered[c] = @ + 1, !.claimed[c] = @ + 1]
               /\ Goto(r, Accepted(challenges[c].purpose))
          ELSE /\ Done(r)
               /\ UNCHANGED <<challenges, history>>
     /\ UNCHANGED <<mix, user, sessions, links, devices>>

\* "Remember this device", after the session has been opened.
Trust(r) ==
  /\ requests[r].at = "trust"
  /\ \E n \in DeviceIds :
       /\ IsNext(devices, n)
       /\ devices' = [devices EXCEPT ![n] =
                        [made |-> TRUE, live |-> TRUE, fresh |-> TRUE,
                         proof |-> requests[r].proof, late |-> Overtaken(r)]]
  /\ Done(r)
  /\ UNCHANGED <<mix, user, sessions, links, challenges, history>>

-----------------------------------------------------------------------------
\* resendLogin: an expired challenge may be sent a new code, a dead one may not.
ResendLoad(r) ==
  /\ Arrives(r, "resend")
  /\ \E c \in ChallengeIds :
       /\ challenges[c].purpose = "LOGIN"
       /\ Guessable(c)
       /\ ~challenges[c].cooling
       /\ Hold(r, [Arrived("resend") EXCEPT !.id = c])
  /\ UNCHANGED <<mix, user, sessions, links, challenges, devices, history>>

\* A new code with its own ten minutes; the guesses already made still count.
Resend_forgetsAttempts(r) ==
  LET c == requests[r].id
  IN /\ requests[r].at = "resend"
     /\ IF Guessable(c)
          THEN challenges' = [challenges EXCEPT ![c].fresh = TRUE, ![c].cooling = TRUE,
                                                ![c].attempts = 0]
          ELSE UNCHANGED challenges
     /\ Done(r)
     /\ UNCHANGED <<mix, user, sessions, links, devices, history>>

Resend(r) ==
  LET c == requests[r].id
  IN /\ requests[r].at = "resend"
     /\ IF Guessable(c)
          THEN challenges' = [challenges EXCEPT ![c].fresh = TRUE, ![c].cooling = TRUE]
          ELSE UNCHANGED challenges
     /\ Done(r)
     /\ UNCHANGED <<mix, user, sessions, links, devices, history>>

\* Turning two-factor on is for an account that has it off, and the reverse.
SettingsPurpose == IF user.twoFactor THEN "DISABLE" ELSE "ENABLE"

SettingsLoad(r) ==
  /\ Arrives(r, "settings")
  /\ Hold(r, [Arrived("cool") EXCEPT !.purpose = SettingsPurpose])
  /\ UNCHANGED <<mix, user, sessions, links, challenges, devices, history>>

\* The open challenge of a purpose that was made last.
IsLatest(c, purpose) ==
  /\ challenges[c].open
  /\ challenges[c].purpose = purpose
  /\ \A later \in ChallengeIds :
       later > c => ~(challenges[later].open /\ challenges[later].purpose = purpose)

\* assertCooldown
Cooldown(r) ==
  /\ requests[r].at = "cool"
  /\ IF \E c \in ChallengeIds : IsLatest(c, requests[r].purpose) /\ challenges[c].cooling
       THEN Done(r)
       ELSE Goto(r, "code")
  /\ UNCHANGED <<mix, user, sessions, links, challenges, devices, history>>

StartSettings(r) ==
  /\ requests[r].at = "code"
  /\ Start(r, requests[r].purpose)
  /\ Done(r)
  /\ UNCHANGED <<mix, user, sessions, links, devices, history>>

ConfirmLoad(r) ==
  /\ Arrives(r, "confirm")
  /\ Hold(r, [Arrived("latest") EXCEPT !.purpose = SettingsPurpose])
  /\ UNCHANGED <<mix, user, sessions, links, challenges, devices, history>>

\* checkLatest
Latest(r) ==
  /\ requests[r].at = "latest"
  /\ \/ \E c \in ChallengeIds : /\ IsLatest(c, requests[r].purpose)
                                /\ Judge(r, c, requests[r])
     \/ /\ ~\E c \in ChallengeIds : /\ IsLatest(c, requests[r].purpose)
                                    /\ challenges[c].fresh
                                    /\ Guessable(c)
        /\ Done(r)
  /\ UNCHANGED <<mix, user, sessions, links, challenges, devices, history>>

TurnOn(r) ==
  /\ requests[r].at = "turnOn"
  /\ user' = [user EXCEPT !.twoFactor = TRUE]
  /\ Done(r)
  /\ UNCHANGED <<mix, sessions, links, challenges, devices, history>>

\* Off, and then every trusted device is forgotten.
TurnOff(r) ==
  /\ requests[r].at = "turnOff"
  /\ user' = [user EXCEPT !.twoFactor = FALSE]
  /\ Goto(r, "forget")
  /\ UNCHANGED <<mix, sessions, links, challenges, devices, history>>

\* One device of the list is forgotten.
RevokeDevice(d) ==
  /\ "devices" \in mix.kinds
  /\ devices[d].live
  /\ devices' = [devices EXCEPT ![d].live = FALSE]
  /\ UNCHANGED <<mix, user, sessions, links, challenges, requests, history>>

\* All of them at once.
RevokeDevices ==
  /\ "devices" \in mix.kinds
  /\ \E d \in DeviceIds : devices[d].live
  /\ devices' = [d \in DeviceIds |-> [devices[d] EXCEPT !.live = FALSE]]
  /\ UNCHANGED <<mix, user, sessions, links, challenges, requests, history>>
=============================================================================
