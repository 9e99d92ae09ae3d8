------------------------------- MODULE Account -------------------------------
(***************************************************************************)
(* One person's account: the rows the sign-in services keep for it, and    *)
(* the requests in progress against them.  Every statement of those        *)
(* services reads and writes the rows of one user, so one account is the   *)
(* whole of what can interfere.                                            *)
(*                                                                         *)
(* Passwords are numbered in the order they were set; 0 is no password.    *)
(* Deadlines (a lock, a link, a code, a session) are flags that may lapse  *)
(* at any moment, so the properties do not depend on their lengths; `now`  *)
(* in the code is the moment the request came in.                          *)
(***************************************************************************)
EXTENDS Integers, FiniteSets

CONSTANTS
  Requests,       \* slots for requests in progress
  Mixes,          \* kinds of request that meet, and how many codes and passwords are made
  MaxFailed,      \* wrong passwords in a row that lock the account
  MaxAttempts,    \* wrong guesses a challenge takes
  \* Bounds on how much happens, and so on how many rows there are:
  MaxWrong, MaxSessions, MaxLinks, MaxChallenges, MaxDevices

ASSUME AccountAssumption ==
  /\ MaxFailed \in Nat \ {0}
  /\ MaxAttempts \in Nat \ {0}
  /\ {MaxWrong, MaxLinks, MaxChallenges, MaxDevices} \subseteq Nat
  /\ MaxSessions \in Nat \ {0}

VARIABLES
  mix,         \* which of Mixes this behaviour has
  user,        \* the row of users
  sessions,    \* refresh_tokens
  links,       \* password_reset_tokens
  challenges,  \* two_factor_challenges
  devices,     \* trusted_devices
  requests,    \* what each request in progress holds
  history      \* what happened, for the properties only

vars == <<mix, user, sessions, links, challenges, devices, requests, history>>

SessionIds == 1..MaxSessions
LinkIds == 1..MaxLinks
ChallengeIds == 1..MaxChallenges
DeviceIds == 1..MaxDevices

Purposes == {"LOGIN", "ENABLE", "DISABLE"}

\* `lapsed` is a lockedUntil that is over and not yet cleared.
UserRow == [password: Nat, failed: Nat, lock: {"none", "on", "lapsed"}, twoFactor: BOOLEAN]

\* proof: the password its sign-in was opened with; late: it, or one it comes
\* from, was written by a request that a change of password overtook; from and
\* raced: the session it replaced, and whether another had replaced it already.
\* The last four are there for the properties only.
SessionRow == [made: BOOLEAN, live: BOOLEAN, fresh: BOOLEAN,
               proof: Nat, late: BOOLEAN, from: {0} \union SessionIds, raced: BOOLEAN]

\* recent: younger than the minute between two links.
LinkRow == [made: BOOLEAN, used: BOOLEAN, fresh: BOOLEAN, recent: BOOLEAN]

\* open: not consumed; cooling: its code went out less than a minute ago.
ChallengeRow == [made: BOOLEAN, purpose: Purposes, attempts: Nat, open: BOOLEAN,
                 fresh: BOOLEAN, cooling: BOOLEAN, proof: Nat, late: BOOLEAN]

DeviceRow == [made: BOOLEAN, live: BOOLEAN, fresh: BOOLEAN, proof: Nat, late: BOOLEAN]

Places == {"idle", "wrong", "lock", "right", "entry", "touch", "admit", "trust", "rotate",
           "reuse", "issue", "claim", "save", "forget", "guess", "accept", "resend", "cool",
           "code", "latest", "turnOn", "turnOff"}

\* began: the password when the request came in (for the properties only).
RequestRow == [at: Places, began: Nat, saw: UserRow, id: Nat, live: BOOLEAN,
               purpose: Purposes, remember: BOOLEAN, proof: Nat, late: BOOLEAN]

\* answered: guesses at a code whose answer said whether they were right.
HistoryRow == [wrong: Nat, cleared: Nat, locks: Nat, died: BOOLEAN,
               answered: [ChallengeIds -> Nat], claimed: [ChallengeIds -> Nat],
               resets: [LinkIds -> Nat]]

NoUser == [password |-> 0, failed |-> 0, lock |-> "none", twoFactor |-> FALSE]

NoSession == [made |-> FALSE, live |-> FALSE, fresh |-> FALSE, proof |-> 0, late |-> FALSE,
              from |-> 0, raced |-> FALSE]

NoLink == [made |-> FALSE, used |-> FALSE, fresh |-> FALSE, recent |-> FALSE]

NoChallenge == [made |-> FALSE, purpose |-> "LOGIN", attempts |-> 0, open |-> FALSE,
                fresh |-> FALSE, cooling |-> FALSE, proof |-> 0, late |-> FALSE]

NoDevice == [made |-> FALSE, live |-> FALSE, fresh |-> FALSE, proof |-> 0, late |-> FALSE]

Idle == [at |-> "idle", began |-> 0, saw |-> NoUser, id |-> 0, live |-> FALSE,
         purpose |-> "LOGIN", remember |-> FALSE, proof |-> 0, late |-> FALSE]

NothingYet == [wrong |-> 0, cleared |-> 0, locks |-> 0, died |-> FALSE,
               answered |-> [c \in ChallengeIds |-> 0], claimed |-> [c \in ChallengeIds |-> 0],
               resets |-> [l \in LinkIds |-> 0]]

-----------------------------------------------------------------------------
\* A request of kind k comes in at slot r.
Arrives(r, k) == /\ requests[r].at = "idle"
                 /\ k \in mix.kinds

Arrived(place) == [Idle EXCEPT !.at = place, !.began = user.password]

Hold(r, row) == requests' = [requests EXCEPT ![r] = row]

Goto(r, place) == requests' = [requests EXCEPT ![r].at = place]

\* Answered, refused or failed: the request holds nothing any more.
Done(r) == requests' = [requests EXCEPT ![r] = Idle]

\* The next row of a table: the lowest one not made yet.
IsNext(table, n) == /\ ~table[n].made
                    /\ \A m \in DOMAIN table : m < n => table[m].made

\* What is written now by a request that came in before the password changed.
Overtaken(r) == requests[r].late \/ requests[r].began # user.password

\* A challenge that still takes a code, were it not for the clock.
Guessable(c) == challenges[c].open /\ challenges[c].attempts < MaxAttempts
=============================================================================
