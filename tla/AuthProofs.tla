------------------------------ MODULE AuthProofs ------------------------------
(***************************************************************************)
(* Theorems about Auth, for any number of requests, any limits and any     *)
(* mix of kinds: its types and each of its safety invariants.              *)
(***************************************************************************)
EXTENDS Auth, TLAPS

\* Places where a request carries the password its sign-in was opened with.
Carrying == {"right", "entry", "touch", "admit", "trust", "rotate"}

CarriesItsProof(r) == requests[r].late \/ requests[r].proof = requests[r].began

\* What a request holds is there: the row it read, and of a session that it was
\* live.
RequestOK(r) ==
  /\ requests[r].at \in Carrying => CarriesItsProof(r)
  /\ requests[r].at = "rotate" => /\ requests[r].id \in SessionIds
                                  /\ sessions[requests[r].id].made
                                  /\ requests[r].live
  /\ requests[r].at = "claim" => /\ requests[r].id \in LinkIds
                                 /\ links[requests[r].id].made
  /\ requests[r].at = "touch" => requests[r].id \in DeviceIds
  /\ requests[r].at = "latest" => requests[r].purpose # "LOGIN"
  /\ requests[r].at \in {"guess", "accept", "resend"} =>
       /\ requests[r].id \in ChallengeIds
       /\ challenges[requests[r].id].made
  /\ requests[r].at = "accept" /\ challenges[requests[r].id].purpose = "LOGIN" =>
       CarriesItsProof(r)

RequestsOK == \A r \in Requests : RequestOK(r)

\* A session replaced by one that was not raced is over.
SessionsOK ==
  /\ \A t \in SessionIds :
       sessions[t].live /\ ~sessions[t].late => sessions[t].proof = user.password
  /\ \A t \in SessionIds :
       sessions[t].from # 0 =>
         /\ sessions[sessions[t].from].made
         /\ ~sessions[t].raced => ~sessions[sessions[t].from].live

DevicesOK ==
  \A d \in DeviceIds :
    devices[d].live /\ ~devices[d].late =>
      devices[d].proof = user.password \/ At("forget") \/ history.died

LinksOK ==
  \A l \in LinkIds :
    /\ history.resets[l] <= 1
    /\ history.resets[l] # 0 => links[l].made /\ links[l].used

\* Every guess that was answered is an attempt or the one claim, and a claim
\* left room for itself.
ChallengeOK(c) ==
  /\ challenges[c].attempts <= MaxAttempts
  /\ history.answered[c] = challenges[c].attempts + history.claimed[c]
  /\ history.claimed[c] <= 1
  /\ history.claimed[c] # 0 => ~challenges[c].open /\ challenges[c].attempts < MaxAttempts
  /\ challenges[c].open => challenges[c].made
  /\ ~challenges[c].made => challenges[c].attempts = 0 /\ history.claimed[c] = 0

ChallengesOK == \A c \in ChallengeIds : ChallengeOK(c)

IInv ==
  /\ TypeOK
  /\ EveryGuessCounts
  /\ RequestsOK
  /\ SessionsOK
  /\ ForksOnlyInRaces
  /\ DevicesOK
  /\ LinksOK
  /\ ChallengesOK

-----------------------------------------------------------------------------
(* Types.                                                                  *)

LEMMA BoundsTyped ==
  /\ MaxFailed \in Nat /\ MaxFailed > 0
  /\ MaxAttempts \in Nat /\ MaxAttempts > 0
  /\ MaxSessions \in Nat /\ MaxSessions > 0
  /\ MaxLinks \in Nat /\ MaxChallenges \in Nat /\ MaxDevices \in Nat
  BY AccountAssumption

LEMMA BlankTyped ==
  /\ NoSession \in SessionRow
  /\ NoLink \in LinkRow
  /\ NoChallenge \in ChallengeRow
  /\ NoDevice \in DeviceRow
  /\ Idle \in RequestRow
  /\ NothingYet \in HistoryRow
  <1>1. NoUser \in UserRow
    BY DEF NoUser, UserRow
  <1> QED
    BY <1>1 DEF NoSession, SessionRow, NoLink, LinkRow, NoChallenge, ChallengeRow, Purposes,
                NoDevice, DeviceRow, Idle, RequestRow, Places, NothingYet, HistoryRow

LEMMA HoldTyped ==
  ASSUME TypeOK, NEW r \in Requests, NEW row \in RequestRow, Hold(r, row)
  PROVE  requests' \in [Requests -> RequestRow]
  BY DEF TypeOK, Hold

LEMMA GotoTyped ==
  ASSUME TypeOK, NEW r \in Requests, NEW place \in Places, Goto(r, place)
  PROVE  requests' \in [Requests -> RequestRow]
  <1>1. requests[r] \in RequestRow
    BY DEF TypeOK
  <1>2. [requests[r] EXCEPT !.at = place] \in RequestRow
    BY <1>1 DEF RequestRow
  <1>3. requests' = [requests EXCEPT ![r] = [requests[r] EXCEPT !.at = place]]
    BY DEF Goto
  <1> QED
    BY <1>2, <1>3 DEF TypeOK

LEMMA DoneTyped ==
  ASSUME TypeOK, NEW r \in Requests, Done(r)
  PROVE  requests' \in [Requests -> RequestRow]
  BY BlankTyped DEF TypeOK, Done

LEMMA ArrivedTyped ==
  ASSUME TypeOK, NEW place \in Places
  PROVE  /\ Arrived(place) \in RequestRow
         /\ Arrived(place).at = place
         /\ Arrived(place).began = user.password
  <1>1. user.password \in Nat
    BY DEF TypeOK, UserRow
  <1> QED
    BY <1>1, BlankTyped DEF Arrived, RequestRow, Idle

LEMMA NewSessionTyped ==
  ASSUME TypeOK, NEW r \in Requests
  PROVE  NewSession(r) \in SessionRow
  <1>1. requests[r].proof \in Nat /\ Overtaken(r) \in BOOLEAN
    BY DEF TypeOK, RequestRow, Overtaken
  <1> QED
    BY <1>1 DEF NewSession, SessionRow

LEMMA InitEstablishes == Init => IInv
  <1> SUFFICES ASSUME Init PROVE IInv
    OBVIOUS
  <1>1. TypeOK
    <2>1. user \in UserRow
      BY DEF Init, UserRow
    <2>2. sessions \in [SessionIds -> SessionRow]
      BY BlankTyped, BoundsTyped DEF Init, NoSession, SessionRow
    <2> QED
      BY <2>1, <2>2, BlankTyped DEF Init, TypeOK
  <1>2. EveryGuessCounts
    BY BoundsTyped DEF Init, EveryGuessCounts, NothingYet
  <1>3. RequestsOK
    BY DEF Init, RequestsOK, RequestOK, Idle, Carrying
  <1>4. SessionsOK /\ ForksOnlyInRaces
    BY BoundsTyped DEF Init, SessionsOK, ForksOnlyInRaces, NoSession, SessionIds
  <1>5. DevicesOK /\ LinksOK /\ ChallengesOK
    BY BoundsTyped DEF Init, DevicesOK, LinksOK, ChallengesOK, ChallengeOK, NoDevice, NoLink,
                       NoChallenge, NothingYet
  <1> QED
    BY <1>1, <1>2, <1>3, <1>4, <1>5 DEF IInv

LEMMA UserFacts ==
  ASSUME TypeOK
  PROVE  /\ user.password \in Nat /\ user.failed \in Nat
         /\ user.lock \in {"none", "on", "lapsed"} /\ user.twoFactor \in BOOLEAN
         /\ history.wrong \in Nat /\ history.cleared \in Nat /\ history.locks \in Nat
         /\ history.died \in BOOLEAN
  BY DEF TypeOK, UserRow, HistoryRow

(* What the actions write into the row of users and into history.          *)

LEMMA Bump ==
  ASSUME NEW S, NEW f \in [S -> Nat], NEW x \in S, NEW g, g = [f EXCEPT ![x] = @ + 1]
  PROVE  g \in [S -> Nat] /\ \A y \in S : g[y] = IF y = x THEN f[y] + 1 ELSE f[y]
  OBVIOUS

LEMMA FailedSet ==
  ASSUME NEW u \in UserRow, NEW n \in Nat, NEW new, new = [u EXCEPT !.failed = n]
  PROVE  new \in UserRow /\ new.password = u.password /\ new.failed = n
  BY DEF UserRow

LEMMA PasswordSet ==
  ASSUME NEW u \in UserRow, NEW n \in Nat, NEW new, new = [u EXCEPT !.password = n]
  PROVE  new \in UserRow /\ new.password = n /\ new.failed = u.failed
  BY DEF UserRow

LEMMA LockSet ==
  ASSUME NEW u \in UserRow, NEW l \in {"none", "on", "lapsed"}, NEW new,
         new = [u EXCEPT !.failed = 0, !.lock = l]
  PROVE  new \in UserRow /\ new.password = u.password /\ new.failed = 0
  BY DEF UserRow

LEMMA ResetSet ==
  ASSUME NEW u \in UserRow, NEW new,
         new = [u EXCEPT !.password = @ + 1, !.failed = 0, !.lock = "none"]
  PROVE  new \in UserRow /\ new.password = u.password + 1 /\ new.failed = 0
  <1>1. PICK n : n \in Nat /\ n = u.password + 1
    BY DEF UserRow
  <1>2. new = [u EXCEPT !.password = n, !.failed = 0, !.lock = "none"]
    BY <1>1
  <1>3. new \in UserRow /\ new.password = n /\ new.failed = 0
    BY ONLY u \in UserRow, <1>1, <1>2 DEF UserRow
  <1> QED
    BY <1>1, <1>3

\* The parts of history that have to do with codes and links.
SameUses(h, new) ==
  new.resets = h.resets /\ new.answered = h.answered /\ new.claimed = h.claimed

LEMMA WrongCounted ==
  ASSUME NEW h \in HistoryRow, NEW new, new = [h EXCEPT !.wrong = @ + 1]
  PROVE  /\ new \in HistoryRow /\ new.wrong = h.wrong + 1 /\ new.cleared = h.cleared
         /\ new.locks = h.locks /\ new.died = h.died /\ SameUses(h, new)
  BY DEF HistoryRow, SameUses

LEMMA DeathNoted ==
  ASSUME NEW h \in HistoryRow, NEW b \in BOOLEAN, NEW new, new = [h EXCEPT !.died = @ \/ b]
  PROVE  /\ new \in HistoryRow /\ new.wrong = h.wrong /\ new.cleared = h.cleared
         /\ new.locks = h.locks /\ (new.died <=> h.died \/ b) /\ SameUses(h, new)
  <1>1. h.died \in BOOLEAN /\ (h.died \/ b) \in BOOLEAN
    BY DEF HistoryRow
  <1> QED
    BY <1>1 DEF HistoryRow, SameUses

LEMMA CountCleared ==
  ASSUME NEW h \in HistoryRow, NEW n \in Nat, NEW new, new = [h EXCEPT !.cleared = @ + n]
  PROVE  /\ new \in HistoryRow /\ new.wrong = h.wrong /\ new.cleared = h.cleared + n
         /\ new.locks = h.locks /\ new.died = h.died /\ SameUses(h, new)
  BY DEF HistoryRow, SameUses

LEMMA LockNoted ==
  ASSUME NEW h \in HistoryRow, NEW n \in Nat, NEW new,
         new = [h EXCEPT !.cleared = @ + n, !.locks = @ + 1]
  PROVE  /\ new \in HistoryRow /\ new.wrong = h.wrong /\ new.cleared = h.cleared + n
         /\ new.locks = h.locks + 1 /\ new.died = h.died /\ SameUses(h, new)
  <1>1. PICK a \in Nat : a = h.cleared + n
    BY DEF HistoryRow
  <1>2. PICK b \in Nat : b = h.locks + 1
    BY DEF HistoryRow
  <1>3. new = [h EXCEPT !.cleared = a, !.locks = b]
    BY <1>1, <1>2
  <1> QED
    BY <1>1, <1>2, <1>3 DEF HistoryRow, SameUses

LEMMA ResetNoted ==
  ASSUME history \in HistoryRow, NEW n \in Nat, NEW l \in LinkIds,
         history' = [history EXCEPT !.cleared = @ + n, !.resets[l] = @ + 1]
  PROVE  /\ history' \in HistoryRow /\ history'.wrong = history.wrong
         /\ history'.cleared = history.cleared + n
         /\ history'.locks = history.locks /\ history'.died = history.died
         /\ history'.answered = history.answered /\ history'.claimed = history.claimed
         /\ \A m \in LinkIds :
              history'.resets[m] = IF m = l THEN history.resets[m] + 1 ELSE history.resets[m]
  <1>0. history.resets \in [LinkIds -> Nat]
    BY DEF HistoryRow
  <1>1. PICK a \in Nat : a = history.cleared + n
    BY DEF HistoryRow
  <1>2. PICK b : b = [history.resets EXCEPT ![l] = @ + 1]
    OBVIOUS
  <1>3. /\ b \in [LinkIds -> Nat]
        /\ \A m \in LinkIds : b[m] = IF m = l THEN history.resets[m] + 1 ELSE history.resets[m]
    BY <1>0, <1>2, Bump
  <1>4. history' = [history EXCEPT !.cleared = a, !.resets = b]
    BY <1>1, <1>2
  <1>5. /\ history' \in HistoryRow /\ history'.wrong = history.wrong
         /\ history'.cleared = a
        /\ history'.locks = history.locks /\ history'.died = history.died /\ history'.resets = b
        /\ history'.answered = history.answered /\ history'.claimed = history.claimed
    BY ONLY history \in HistoryRow, a \in Nat, <1>3, <1>4 DEF HistoryRow
  <1> QED
    BY <1>1, <1>3, <1>5

LEMMA AnswerNoted ==
  ASSUME history \in HistoryRow, NEW c \in ChallengeIds,
         history' = [history EXCEPT !.answered[c] = @ + 1]
  PROVE  /\ history' \in HistoryRow /\ history'.wrong = history.wrong
         /\ history'.cleared = history.cleared
         /\ history'.locks = history.locks /\ history'.died = history.died
         /\ history'.resets = history.resets /\ history'.claimed = history.claimed
         /\ \A m \in ChallengeIds :
              history'.answered[m] = IF m = c THEN history.answered[m] + 1 ELSE history.answered[m]
  <1>0. history.answered \in [ChallengeIds -> Nat]
    BY DEF HistoryRow
  <1>1. PICK a : a = [history.answered EXCEPT ![c] = @ + 1]
    OBVIOUS
  <1>2. /\ a \in [ChallengeIds -> Nat]
        /\ \A m \in ChallengeIds :
             a[m] = IF m = c THEN history.answered[m] + 1 ELSE history.answered[m]
    BY <1>0, <1>1, Bump
  <1>3. history' = [history EXCEPT !.answered = a]
    BY <1>1
  <1> QED
    BY <1>2, <1>3 DEF HistoryRow

LEMMA ClaimNoted ==
  ASSUME history \in HistoryRow, NEW c \in ChallengeIds,
         history' = [history EXCEPT !.answered[c] = @ + 1, !.claimed[c] = @ + 1]
  PROVE  /\ history' \in HistoryRow /\ history'.wrong = history.wrong
         /\ history'.cleared = history.cleared
         /\ history'.locks = history.locks /\ history'.died = history.died
         /\ history'.resets = history.resets
         /\ \A m \in ChallengeIds :
              /\ history'.answered[m] = IF m = c THEN history.answered[m] + 1 ELSE history.answered[m]
              /\ history'.claimed[m] = IF m = c THEN history.claimed[m] + 1 ELSE history.claimed[m]
  <1>0. history.answered \in [ChallengeIds -> Nat] /\ history.claimed \in [ChallengeIds -> Nat]
    BY DEF HistoryRow
  <1>1. PICK a : a = [history.answered EXCEPT ![c] = @ + 1]
    OBVIOUS
  <1>2. PICK b : b = [history.claimed EXCEPT ![c] = @ + 1]
    OBVIOUS
  <1>3. /\ a \in [ChallengeIds -> Nat]
        /\ \A m \in ChallengeIds :
             a[m] = IF m = c THEN history.answered[m] + 1 ELSE history.answered[m]
        /\ b \in [ChallengeIds -> Nat]
        /\ \A m \in ChallengeIds :
             b[m] = IF m = c THEN history.claimed[m] + 1 ELSE history.claimed[m]
    BY <1>0, <1>1, <1>2, Bump
  <1>4. history' = [history EXCEPT !.answered = a, !.claimed = b]
    BY <1>1, <1>2
  <1> QED
    BY <1>3, <1>4 DEF HistoryRow

-----------------------------------------------------------------------------
\* What a request holds when it comes in and as it goes on.
Untouched(row, new) ==
  new.began = row.began /\ new.proof = row.proof /\ new.late = row.late

LEMMA SawSet ==
  ASSUME NEW row \in RequestRow, NEW u \in UserRow, NEW new,
         \/ new = [row EXCEPT !.saw = u, !.proof = u.password]
         \/ new = [row EXCEPT !.saw = u]
  PROVE  /\ new \in RequestRow /\ new.at = row.at /\ new.began = row.began
         /\ new.proof \in {row.proof, u.password}
         /\ new = [row EXCEPT !.saw = u, !.proof = u.password] => new.proof = u.password
  <1>1. u.password \in Nat
    BY DEF UserRow
  <1> QED
    BY <1>1 DEF RequestRow

LEMMA TokenSet ==
  ASSUME NEW row \in RequestRow, NEW t \in Nat, NEW s \in SessionRow, NEW new,
         new = [row EXCEPT !.id = t, !.live = s.live, !.proof = s.proof, !.late = s.late]
  PROVE  /\ new \in RequestRow /\ new.at = row.at /\ new.began = row.began
         /\ new.id = t /\ new.live = s.live /\ new.proof = s.proof /\ new.late = s.late
  <1>1. PICK b \in BOOLEAN : b = s.live
    BY DEF SessionRow
  <1>2. PICK l \in BOOLEAN : l = s.late
    BY DEF SessionRow
  <1>3. PICK n \in Nat : n = s.proof
    BY DEF SessionRow
  <1>4. new = [row EXCEPT !.id = t, !.live = b, !.proof = n, !.late = l]
    BY <1>1, <1>2, <1>3
  <1> QED
    BY <1>1, <1>2, <1>3, <1>4 DEF RequestRow

LEMMA IdSet ==
  ASSUME NEW row \in RequestRow, NEW i \in Nat, NEW new, new = [row EXCEPT !.id = i]
  PROVE  new \in RequestRow /\ new.at = row.at /\ new.id = i /\ Untouched(row, new)
  BY DEF RequestRow, Untouched

-----------------------------------------------------------------------------
(* Types.                                                                  *)

\* An action that only moves its request keeps every type.
LEMMA MoveTypes ==
  ASSUME TypeOK, requests' \in [Requests -> RequestRow],
         UNCHANGED <<mix, user, sessions, links, challenges, devices, history>>
  PROVE  TypeOK'
  BY DEF TypeOK

LEMMA RowsTyped ==
  ASSUME TypeOK
  PROVE  user \in UserRow /\ history \in HistoryRow /\ 0 \in Nat /\ user.failed + 1 \in Nat
  BY UserFacts DEF TypeOK

\* The rows a rotation leaves: the old session over, the new one in its place.
LEMMA RotateSessions ==
  ASSUME TypeOK, RequestsOK, NEW r \in Requests, Rotate(r)
  PROVE  /\ sessions' \in [SessionIds -> SessionRow]
         /\ \E n \in SessionIds :
              LET t == requests[r].id
              IN /\ IsNext(sessions, n)
                 /\ sessions'[n].made /\ sessions'[n].live /\ sessions'[n].from = t
                 /\ sessions'[n].proof = requests[r].proof
                 /\ sessions'[n].late <=> Overtaken(r)
                 /\ sessions'[n].raced <=> requests[r].live /\ ~sessions[t].live
                 /\ \A s \in SessionIds \ {n} :
                      sessions'[s] = IF s = t THEN [sessions[s] EXCEPT !.live = FALSE]
                                              ELSE sessions[s]
  <1> DEFINE t == requests[r].id
  <1>1. t \in SessionIds /\ requests[r].live \in BOOLEAN /\ sessions[t] \in SessionRow
    BY DEF Rotate, RequestsOK, RequestOK, TypeOK, RequestRow
  <1>1a. PICK n \in SessionIds, b \in BOOLEAN : \E new :
          /\ IsNext(sessions, n)
          /\ b = (requests[r].live /\ ~sessions[t].live)
          /\ new = [NewSession(r) EXCEPT !.from = t, !.raced = b]
          /\ sessions' = [[sessions EXCEPT ![t].live = FALSE] EXCEPT ![n] = new]
    BY <1>1 DEF Rotate, SessionRow
  <1>2. PICK new :
          /\ IsNext(sessions, n)
          /\ b = (requests[r].live /\ ~sessions[t].live)
          /\ new = [NewSession(r) EXCEPT !.from = t, !.raced = b]
          /\ sessions' = [[sessions EXCEPT ![t].live = FALSE] EXCEPT ![n] = new]
    BY <1>1a
  <1>3. new \in SessionRow /\ new = [NewSession(r) EXCEPT !.from = t, !.raced = b]
    BY <1>1, <1>2, NewSessionTyped DEF SessionRow
  <1>4. /\ new.made /\ new.live /\ new.from = t /\ new.proof = requests[r].proof
        /\ new.late = Overtaken(r) /\ new.raced = b
    BY <1>1, <1>3, NewSessionTyped DEF SessionRow, NewSession
  <1>5. [sessions[t] EXCEPT !.live = FALSE] \in SessionRow
    BY <1>1 DEF SessionRow
  <1>6. sessions' = [[sessions EXCEPT ![t] = [sessions[t] EXCEPT !.live = FALSE]] EXCEPT ![n] = new]
    BY <1>1, <1>2
  <1>7. /\ sessions' \in [SessionIds -> SessionRow] /\ sessions'[n] = new
        /\ \A s \in SessionIds \ {n} :
             sessions'[s] = IF s = t THEN [sessions[s] EXCEPT !.live = FALSE] ELSE sessions[s]
    BY <1>1, <1>3, <1>5, <1>6 DEF TypeOK
  <1> QED
    BY <1>2, <1>4, <1>7

LEMMA SessionStepTypes ==
  ASSUME TypeOK, RequestsOK, NEW r \in Requests, SessionStep(r)
  PROVE  TypeOK'
  <1>0. requests[r] \in RequestRow
    BY DEF TypeOK
  <1>1. ASSUME LoginLoad(r) PROVE TypeOK'
    <2>0. PICK place \in {"wrong", "right"} : \E new :
            /\ \/ new = [Arrived(place) EXCEPT !.saw = user, !.proof = user.password]
               \/ new = [Arrived(place) EXCEPT !.saw = user]
            /\ Hold(r, new)
      BY <1>1 DEF LoginLoad
    <2>1. PICK new :
            /\ \/ new = [Arrived(place) EXCEPT !.saw = user, !.proof = user.password]
               \/ new = [Arrived(place) EXCEPT !.saw = user]
            /\ Hold(r, new)
      BY <2>0
    <2>2. new \in RequestRow
      <3>1. Arrived(place) \in RequestRow /\ user \in UserRow
        BY ArrivedTyped, RowsTyped DEF Places
      <3> QED
        BY <2>1, <3>1, SawSet
    <2> QED
      BY <1>1, <2>1, <2>2, HoldTyped, MoveTypes DEF LoginLoad
  <1>2. ASSUME CountFailedLogin(r) PROVE TypeOK'
    <2>1. user' \in UserRow /\ history' \in HistoryRow
      BY <1>2, RowsTyped, FailedSet, WrongCounted DEF CountFailedLogin
    <2>2. requests' \in [Requests -> RequestRow]
      BY <1>2, DoneTyped, GotoTyped DEF CountFailedLogin, Places
    <2> QED
      BY <1>2, <2>1, <2>2 DEF CountFailedLogin, TypeOK
  <1>3. ASSUME LockAccount(r) PROVE TypeOK'
    <2>1. user' \in UserRow /\ history' \in HistoryRow
      BY <1>3, RowsTyped, UserFacts, LockSet, LockNoted DEF LockAccount
    <2>2. requests' \in [Requests -> RequestRow]
      BY <1>3, DoneTyped DEF LockAccount
    <2> QED
      BY <1>3, <2>1, <2>2 DEF LockAccount, TypeOK
  <1>4. ASSUME PasswordRight(r) PROVE TypeOK'
    <2>1. user' \in UserRow /\ history' \in HistoryRow
      BY <1>4, RowsTyped, UserFacts, LockSet, CountCleared DEF PasswordRight
    <2>2. requests' \in [Requests -> RequestRow]
      BY <1>4, GotoTyped DEF PasswordRight, Places
    <2> QED
      BY <1>4, <2>1, <2>2 DEF PasswordRight, TypeOK
  <1>5. ASSUME SignIn(r) PROVE TypeOK'
    <2>1. sessions' \in [SessionIds -> SessionRow]
      BY <1>5, NewSessionTyped DEF SignIn, TypeOK
    <2>2. requests' \in [Requests -> RequestRow]
      BY <1>5, DoneTyped, GotoTyped DEF SignIn, Places
    <2> QED
      BY <1>5, <2>1, <2>2 DEF SignIn, TypeOK
  <1>6. ASSUME RefreshLoad(r) PROVE TypeOK'
    <2>0. PICK t \in SessionIds, place \in {"rotate", "reuse"} : \E new :
            /\ new = [Arrived(place) EXCEPT !.id = t, !.live = sessions[t].live,
                        !.proof = sessions[t].proof, !.late = sessions[t].late]
            /\ Hold(r, new)
      BY <1>6 DEF RefreshLoad
    <2>1. PICK new :
            /\ new = [Arrived(place) EXCEPT !.id = t, !.live = sessions[t].live,
                        !.proof = sessions[t].proof, !.late = sessions[t].late]
            /\ Hold(r, new)
      BY <2>0
    <2>2. new \in RequestRow
      <3>1. Arrived(place) \in RequestRow /\ sessions[t] \in SessionRow /\ t \in Nat
        BY ArrivedTyped, BoundsTyped DEF TypeOK, Places, SessionIds
      <3> QED
        BY <2>1, <3>1, TokenSet
    <2> QED
      BY <1>6, <2>1, <2>2, HoldTyped, MoveTypes DEF RefreshLoad
  <1>7. ASSUME ReuseDetected(r) PROVE TypeOK'
    <2>1. AllRevoked \in [SessionIds -> SessionRow]
      BY DEF AllRevoked, TypeOK, SessionRow
    <2>2. requests' \in [Requests -> RequestRow]
      BY <1>7, DoneTyped DEF ReuseDetected
    <2> QED
      BY <1>7, <2>1, <2>2 DEF ReuseDetected, TypeOK
  <1>8. ASSUME Rotate(r) PROVE TypeOK'
    <2>1. sessions' \in [SessionIds -> SessionRow]
      BY <1>8, RotateSessions
    <2>2. requests' \in [Requests -> RequestRow]
      BY <1>8, DoneTyped DEF Rotate
    <2> QED
      BY <1>8, <2>1, <2>2 DEF Rotate, TypeOK
  <1> QED
    BY <1>1, <1>2, <1>3, <1>4, <1>5, <1>6, <1>7, <1>8 DEF SessionStep

LEMMA LinkTables ==
  ASSUME TypeOK
  PROVE  /\ SpentLinks \in [LinkIds -> LinkRow]
         /\ \A l \in LinkIds : /\ SpentLinks[l].made = links[l].made
                               /\ SpentLinks[l].used = links[l].made
  BY DEF SpentLinks, TypeOK, LinkRow

LEMMA RevokedTable ==
  ASSUME TypeOK
  PROVE  /\ AllRevoked \in [SessionIds -> SessionRow]
         /\ \A t \in SessionIds : /\ ~AllRevoked[t].live
                                  /\ AllRevoked[t].made = sessions[t].made
                                  /\ AllRevoked[t].from = sessions[t].from
                                  /\ AllRevoked[t].raced = sessions[t].raced
  <1>1. SUFFICES ASSUME NEW t \in SessionIds
                 PROVE  /\ AllRevoked[t] \in SessionRow
                        /\ ~AllRevoked[t].live
                        /\ AllRevoked[t].made = sessions[t].made
                        /\ AllRevoked[t].from = sessions[t].from
                        /\ AllRevoked[t].raced = sessions[t].raced
    BY DEF AllRevoked
  <1>2. sessions[t] \in SessionRow /\ AllRevoked[t] = [sessions[t] EXCEPT !.live = FALSE]
    BY DEF TypeOK, AllRevoked
  <1> QED
    BY <1>2 DEF SessionRow

\* The sessions a new password leaves: the kept one, if any, and only it alive.
LEMMA ProfileSessions ==
  ASSUME TypeOK, NEW r \in Requests, SaveProfile(r)
  PROVE  /\ sessions' \in [SessionIds -> SessionRow]
         /\ \A t \in SessionIds :
              /\ sessions'[t].live => /\ t = requests[r].id
                                      /\ sessions[t].live
                                      /\ sessions'[t].proof = user.password + 1
              /\ sessions'[t].made = sessions[t].made
              /\ sessions'[t].from = sessions[t].from
              /\ sessions'[t].raced = sessions[t].raced
  <1>1. PICK n \in Nat : n = user.password + 1
    BY UserFacts
  <1>2. SUFFICES ASSUME NEW t \in SessionIds
                 PROVE  /\ sessions'[t] \in SessionRow
                        /\ sessions'[t].live => /\ t = requests[r].id
                                                /\ sessions[t].live
                                                /\ sessions'[t].proof = n
                        /\ sessions'[t].made = sessions[t].made
                        /\ sessions'[t].from = sessions[t].from
                        /\ sessions'[t].raced = sessions[t].raced
    BY <1>1 DEF SaveProfile
  <1>3. sessions[t] \in SessionRow
    BY DEF TypeOK
  <1>4. CASE t = requests[r].id
    <2>1. sessions'[t] = [sessions[t] EXCEPT !.proof = n, !.late = FALSE]
      BY <1>1, <1>4 DEF SaveProfile
    <2> QED
      BY <1>3, <1>4, <2>1 DEF SessionRow
  <1>5. CASE t # requests[r].id
    <2>1. sessions'[t] = [sessions[t] EXCEPT !.live = FALSE]
      BY <1>5 DEF SaveProfile
    <2> QED
      BY <1>3, <2>1 DEF SessionRow
  <1> QED
    BY <1>4, <1>5

LEMMA PasswordStepTypes ==
  ASSUME TypeOK, RequestsOK, NEW r \in Requests, PasswordStep(r)
  PROVE  TypeOK'
  <1>1. ASSUME ForgotLoad(r) PROVE TypeOK'
    <2>1. Arrived("issue") \in RequestRow
      BY ArrivedTyped DEF Places
    <2> QED
      BY <1>1, <2>1, HoldTyped, MoveTypes DEF ForgotLoad
  <1>2. ASSUME IssueLink(r) PROVE TypeOK'
    <2>0. PICK n \in LinkIds : \E new :
            /\ new = [made |-> TRUE, used |-> FALSE, fresh |-> TRUE, recent |-> TRUE]
            /\ links' = [SpentLinks EXCEPT ![n] = new]
      BY <1>2 DEF IssueLink
    <2>1. PICK new :
            /\ new = [made |-> TRUE, used |-> FALSE, fresh |-> TRUE, recent |-> TRUE]
            /\ links' = [SpentLinks EXCEPT ![n] = new]
      BY <2>0
    <2>2. new \in LinkRow
      BY <2>1 DEF LinkRow
    <2>3. links' \in [LinkIds -> LinkRow]
      BY <2>1, <2>2, LinkTables
    <2>4. requests' \in [Requests -> RequestRow]
      BY <1>2, DoneTyped DEF IssueLink
    <2> QED
      BY <1>2, <2>3, <2>4 DEF IssueLink, TypeOK
  <1>3. ASSUME ResetLoad(r) PROVE TypeOK'
    <2>0. PICK l \in LinkIds : \E new :
            /\ new = [Arrived("claim") EXCEPT !.id = l] /\ Hold(r, new)
      BY <1>3 DEF ResetLoad
    <2>1. PICK new :
            /\ new = [Arrived("claim") EXCEPT !.id = l] /\ Hold(r, new)
      BY <2>0
    <2>2. Arrived("claim") \in RequestRow /\ l \in Nat
      BY ArrivedTyped, BoundsTyped DEF Places, LinkIds
    <2>3. new \in RequestRow
      BY <2>1, <2>2, IdSet
    <2> QED
      BY <1>3, <2>1, <2>3, HoldTyped, MoveTypes DEF ResetLoad
  <1>4. ASSUME ResetPassword(r) PROVE TypeOK'
    <2>1. requests[r].id \in LinkIds
      BY <1>4 DEF ResetPassword, RequestsOK, RequestOK
    <2>2. user' \in UserRow
      BY <1>4, RowsTyped, ResetSet DEF ResetPassword
    <2>3. history' \in HistoryRow
      BY <1>4, <2>1, RowsTyped, UserFacts, ResetNoted DEF ResetPassword
    <2>4. requests' \in [Requests -> RequestRow]
      BY <1>4, GotoTyped DEF ResetPassword, Places
    <2> QED
      BY <1>4, <2>2, <2>3, <2>4, LinkTables, RevokedTable DEF ResetPassword, TypeOK
  <1>5. ASSUME LinkRefused(r) PROVE TypeOK'
    BY <1>5, DoneTyped, MoveTypes DEF LinkRefused
  <1>6. ASSUME ProfileLoad(r) PROVE TypeOK'
    <2>0. PICK keep \in {0} \union SessionIds : \E new :
            /\ new = [Arrived("save") EXCEPT !.id = keep] /\ Hold(r, new)
      BY <1>6 DEF ProfileLoad
    <2>1. PICK new :
            /\ new = [Arrived("save") EXCEPT !.id = keep] /\ Hold(r, new)
      BY <2>0
    <2>2. Arrived("save") \in RequestRow /\ keep \in Nat
      BY ArrivedTyped, BoundsTyped DEF Places, SessionIds
    <2>3. new \in RequestRow
      BY <2>1, <2>2, IdSet
    <2> QED
      BY <1>6, <2>1, <2>3, HoldTyped, MoveTypes DEF ProfileLoad
  <1>7. ASSUME SaveProfile(r) PROVE TypeOK'
    <2>1. user' \in UserRow
      <3>1. PICK n \in Nat : n = user.password + 1
        BY UserFacts
      <3>2. user' = [user EXCEPT !.password = n]
        BY <1>7, <3>1 DEF SaveProfile
      <3> QED
        BY <3>1, <3>2, RowsTyped, PasswordSet
    <2>2. requests' \in [Requests -> RequestRow]
      BY <1>7, GotoTyped DEF SaveProfile, Places
    <2> QED
      BY <1>7, <2>1, <2>2, ProfileSessions DEF SaveProfile, TypeOK
  <1>8. ASSUME ForgetDevices(r) PROVE TypeOK'
    <2>1. devices' \in [DeviceIds -> DeviceRow]
      BY <1>8 DEF ForgetDevices, TypeOK, DeviceRow
    <2>2. requests' \in [Requests -> RequestRow]
      BY <1>8, DoneTyped DEF ForgetDevices
    <2> QED
      BY <1>8, <2>1, <2>2 DEF ForgetDevices, TypeOK
  <1> QED
    BY <1>1, <1>2, <1>3, <1>4, <1>5, <1>6, <1>7, <1>8 DEF PasswordStep

LEMMA ClosedTable ==
  ASSUME TypeOK, NEW purpose \in Purposes
  PROVE  /\ Closed(purpose) \in [ChallengeIds -> ChallengeRow]
         /\ \A c \in ChallengeIds :
              /\ Closed(purpose)[c].open => challenges[c].open
              /\ Closed(purpose)[c].made = challenges[c].made
              /\ Closed(purpose)[c].purpose = challenges[c].purpose
              /\ Closed(purpose)[c].attempts = challenges[c].attempts
  <1>1. SUFFICES ASSUME NEW c \in ChallengeIds
                 PROVE  /\ Closed(purpose)[c] \in ChallengeRow
                        /\ Closed(purpose)[c].open => challenges[c].open
                        /\ Closed(purpose)[c].made = challenges[c].made
                        /\ Closed(purpose)[c].purpose = challenges[c].purpose
                        /\ Closed(purpose)[c].attempts = challenges[c].attempts
    BY DEF Closed
  <1>2. PICK b \in BOOLEAN : b = (challenges[c].open /\ challenges[c].purpose # purpose)
    OBVIOUS
  <1>3. challenges[c] \in ChallengeRow /\ Closed(purpose)[c] = [challenges[c] EXCEPT !.open = b]
    BY <1>2 DEF TypeOK, Closed
  <1> QED
    BY <1>2, <1>3 DEF ChallengeRow

\* The challenges after one has been started.
LEMMA StartTable ==
  ASSUME TypeOK, NEW r \in Requests, NEW purpose \in Purposes, Start(r, purpose)
  PROVE  /\ challenges' \in [ChallengeIds -> ChallengeRow]
         /\ \E n \in ChallengeIds :
              /\ IsNext(challenges, n)
              /\ challenges'[n].made /\ challenges'[n].attempts = 0
              /\ \A c \in ChallengeIds \ {n} : challenges'[c] = Closed(purpose)[c]
  <1>0. PICK n \in ChallengeIds : \E new :
          /\ IsNext(challenges, n)
          /\ new = [made |-> TRUE, purpose |-> purpose, attempts |-> 0, open |-> TRUE,
                    fresh |-> TRUE, cooling |-> TRUE, proof |-> requests[r].proof,
                    late |-> Overtaken(r)]
          /\ challenges' = [Closed(purpose) EXCEPT ![n] = new]
    BY DEF Start
  <1>1. PICK new :
          /\ IsNext(challenges, n)
          /\ new = [made |-> TRUE, purpose |-> purpose, attempts |-> 0, open |-> TRUE,
                    fresh |-> TRUE, cooling |-> TRUE, proof |-> requests[r].proof,
                    late |-> Overtaken(r)]
          /\ challenges' = [Closed(purpose) EXCEPT ![n] = new]
    BY <1>0
  <1>2. requests[r].proof \in Nat /\ Overtaken(r) \in BOOLEAN
    BY DEF TypeOK, RequestRow, Overtaken
  <1>3. new \in ChallengeRow /\ new.made /\ new.attempts = 0
    BY <1>1, <1>2 DEF ChallengeRow
  <1> QED
    BY <1>1, <1>3, ClosedTable

\* A counted guess.
LEMMA AttemptTable ==
  ASSUME TypeOK, NEW c \in ChallengeIds, challenges' = [challenges EXCEPT ![c].attempts = @ + 1]
  PROVE  /\ challenges' \in [ChallengeIds -> ChallengeRow]
         /\ \A m \in ChallengeIds \ {c} : challenges'[m] = challenges[m]
         /\ challenges'[c].attempts = challenges[c].attempts + 1
         /\ challenges'[c].open = challenges[c].open
         /\ challenges'[c].made = challenges[c].made
         /\ challenges'[c].purpose = challenges[c].purpose
  <1>1. challenges[c] \in ChallengeRow
    BY DEF TypeOK
  <1>2. PICK new : new = [challenges[c] EXCEPT !.attempts = @ + 1]
    OBVIOUS
  <1>3. /\ new \in ChallengeRow /\ new.attempts = challenges[c].attempts + 1
        /\ new.open = challenges[c].open /\ new.made = challenges[c].made
        /\ new.purpose = challenges[c].purpose
    BY <1>1, <1>2 DEF ChallengeRow
  <1>4. challenges' = [challenges EXCEPT ![c] = new]
    BY <1>2
  <1> QED
    BY <1>3, <1>4 DEF TypeOK

\* A claimed code.
LEMMA ClaimTable ==
  ASSUME TypeOK, NEW c \in ChallengeIds, challenges' = [challenges EXCEPT ![c].open = FALSE]
  PROVE  /\ challenges' \in [ChallengeIds -> ChallengeRow]
         /\ \A m \in ChallengeIds \ {c} : challenges'[m] = challenges[m]
         /\ ~challenges'[c].open
         /\ challenges'[c].attempts = challenges[c].attempts
         /\ challenges'[c].made = challenges[c].made
         /\ challenges'[c].purpose = challenges[c].purpose
  <1>1. challenges[c] \in ChallengeRow
    BY DEF TypeOK
  <1>2. PICK new : new = [challenges[c] EXCEPT !.open = FALSE]
    OBVIOUS
  <1>3. /\ new \in ChallengeRow /\ ~new.open /\ new.attempts = challenges[c].attempts
        /\ new.made = challenges[c].made /\ new.purpose = challenges[c].purpose
    BY <1>1, <1>2 DEF ChallengeRow
  <1>4. challenges' = [challenges EXCEPT ![c] = new]
    BY <1>2
  <1> QED
    BY <1>3, <1>4 DEF TypeOK

\* Only the clock of a challenge: a code sent again, or time going by.
SameButClock(c) ==
  /\ challenges'[c].attempts = challenges[c].attempts
  /\ challenges'[c].open = challenges[c].open
  /\ challenges'[c].made = challenges[c].made
  /\ challenges'[c].purpose = challenges[c].purpose

LEMMA ClockTable ==
  ASSUME TypeOK, NEW c \in ChallengeIds,
         \/ challenges' = [challenges EXCEPT ![c].fresh = TRUE, ![c].cooling = TRUE]
         \/ challenges' = [challenges EXCEPT ![c].cooling = FALSE]
         \/ challenges' = [challenges EXCEPT ![c].fresh = FALSE]
         \/ challenges' = challenges
  PROVE  /\ challenges' \in [ChallengeIds -> ChallengeRow]
         /\ \A m \in ChallengeIds : SameButClock(m)
  <1>1. challenges[c] \in ChallengeRow
    BY DEF TypeOK
  <1>2. CASE challenges' = [challenges EXCEPT ![c].fresh = TRUE, ![c].cooling = TRUE]
    <2>1. challenges' = [challenges EXCEPT ![c] = [challenges[c] EXCEPT !.fresh = TRUE,
                                                                        !.cooling = TRUE]]
      BY <1>2 DEF TypeOK
    <2> QED
      BY <1>1, <2>1 DEF TypeOK, ChallengeRow, SameButClock
  <1>3. CASE challenges' = [challenges EXCEPT ![c].cooling = FALSE]
    BY <1>1, <1>3 DEF TypeOK, ChallengeRow, SameButClock
  <1>4. CASE challenges' = [challenges EXCEPT ![c].fresh = FALSE]
    BY <1>1, <1>4 DEF TypeOK, ChallengeRow, SameButClock
  <1>5. CASE challenges' = challenges
    BY <1>5 DEF TypeOK, SameButClock
  <1> QED
    BY <1>2, <1>3, <1>4, <1>5

\* A request whose code has been compared.
LEMMA Judged ==
  ASSUME TypeOK, NEW r \in Requests, NEW c \in ChallengeIds, NEW row \in RequestRow,
         Judge(r, c, row)
  PROVE  \E new \in RequestRow :
           /\ requests' = [requests EXCEPT ![r] = new]
           /\ new.at \in {"guess", "accept"} /\ new.id = c /\ Untouched(row, new)
           /\ challenges[c].open
  <1>0. PICK place \in {"guess", "accept"} : \E new :
          /\ new = [row EXCEPT !.at = place, !.id = c]
          /\ requests' = [requests EXCEPT ![r] = new]
    BY DEF Judge, Hold
  <1>1. PICK new :
          /\ new = [row EXCEPT !.at = place, !.id = c]
          /\ requests' = [requests EXCEPT ![r] = new]
    BY <1>0
  <1>2. c \in Nat /\ place \in Places
    BY BoundsTyped DEF ChallengeIds, Places
  <1>3. new \in RequestRow /\ new.at = place /\ new.id = c /\ Untouched(row, new)
    BY ONLY row \in RequestRow, <1>1, <1>2 DEF RequestRow, Untouched
  <1> QED
    BY <1>1, <1>3 DEF Judge, Guessable

\* What a request for a sign-in code holds as it comes in.
LEMMA VerifyRow ==
  ASSUME TypeOK, NEW c \in ChallengeIds, NEW remember \in BOOLEAN, NEW row,
         row = [Arrived("idle") EXCEPT
                  !.remember = remember, !.proof = challenges[c].proof,
                  !.late = challenges[c].late \/ challenges[c].proof # user.password]
  PROVE  /\ row \in RequestRow
         /\ row.late \/ row.proof = row.began
  <1>1. PICK n \in Nat : n = challenges[c].proof
    BY DEF TypeOK, ChallengeRow
  <1>2. PICK l \in BOOLEAN : l = (challenges[c].late \/ challenges[c].proof # user.password)
    OBVIOUS
  <1>3. row = [Arrived("idle") EXCEPT !.remember = remember, !.proof = n, !.late = l]
    BY <1>1, <1>2
  <1>4. PICK blank \in RequestRow : blank = Arrived("idle")
    BY ArrivedTyped DEF Places
  <1>5. row = [blank EXCEPT !.remember = remember, !.proof = n, !.late = l]
    BY <1>3, <1>4
  <1>6. /\ row \in RequestRow /\ row.began = blank.began
        /\ row.proof = n /\ row.late = l
    BY <1>5 DEF RequestRow
  <1> QED
    BY <1>1, <1>2, <1>4, <1>6, ArrivedTyped DEF Places

LEMMA SettingsRow ==
  ASSUME TypeOK, NEW place \in Places, NEW row,
         row = [Arrived(place) EXCEPT !.purpose = SettingsPurpose]
  PROVE  row \in RequestRow /\ row.at = place /\ row.purpose # "LOGIN"
  <1>1. PICK blank \in RequestRow : blank = Arrived(place) /\ blank.at = place
    BY ArrivedTyped
  <1>2. PICK p \in {"ENABLE", "DISABLE"} : p = SettingsPurpose
    BY DEF SettingsPurpose
  <1>3. row = [blank EXCEPT !.purpose = p]
    BY <1>1, <1>2
  <1> QED
    BY <1>1, <1>3 DEF RequestRow, Purposes

LEMMA AcceptedTyped ==
  ASSUME NEW p \in Purposes
  PROVE  /\ Accepted(p) \in {"admit", "turnOn", "turnOff"}
         /\ Accepted(p) = "admit" => p = "LOGIN"
  BY DEF Purposes, Accepted

LEMMA CodeStepTypes ==
  ASSUME TypeOK, RequestsOK, NEW r \in Requests, CodeStep(r)
  PROVE  TypeOK'
  <1>0. requests[r] \in RequestRow /\ requests[r].purpose \in Purposes
    BY DEF TypeOK, RequestRow
  <1>1. ASSUME TrustedEntry(r) PROVE TypeOK'
    <2>0. PICK d \in DeviceIds : \E new :
            /\ new = [requests[r] EXCEPT !.at = "touch", !.id = d] /\ Hold(r, new)
      BY <1>1 DEF TrustedEntry
    <2>1. PICK new :
            /\ new = [requests[r] EXCEPT !.at = "touch", !.id = d] /\ Hold(r, new)
      BY <2>0
    <2>2. d \in Nat /\ "touch" \in Places
      BY BoundsTyped DEF DeviceIds, Places
    <2>3. PICK row \in RequestRow : row = requests[r]
      BY <1>0
    <2>4. new = [row EXCEPT !.at = "touch", !.id = d]
      BY <2>1, <2>3
    <2>5. new \in RequestRow
      BY ONLY row \in RequestRow, <2>2, <2>4 DEF RequestRow
    <2> QED
      BY <1>1, <2>1, <2>5, HoldTyped, MoveTypes DEF TrustedEntry
  <1>2. ASSUME Touch(r) PROVE TypeOK'
    <2>1. requests' \in [Requests -> RequestRow]
      BY <1>2, DoneTyped, GotoTyped DEF Touch, Places
    <2> QED
      BY <1>2, <2>1, MoveTypes DEF Touch
  <1>3. ASSUME StartLogin(r) \/ StartSettings(r) PROVE TypeOK'
    <2>1. challenges' \in [ChallengeIds -> ChallengeRow]
      BY <1>0, <1>3, StartTable DEF StartLogin, StartSettings, Purposes
    <2>2. requests' \in [Requests -> RequestRow]
      BY <1>3, DoneTyped DEF StartLogin, StartSettings
    <2> QED
      BY <1>3, <2>1, <2>2 DEF StartLogin, StartSettings, TypeOK
  <1>4. ASSUME VerifyLoad(r) PROVE TypeOK'
    <2>0. PICK c \in ChallengeIds, remember \in BOOLEAN : \E row :
            /\ row = [Arrived("idle") EXCEPT
                        !.remember = remember, !.proof = challenges[c].proof,
                        !.late = challenges[c].late \/ challenges[c].proof # user.password]
            /\ Judge(r, c, row)
      BY <1>4 DEF VerifyLoad
    <2>1. PICK row :
            /\ row = [Arrived("idle") EXCEPT
                        !.remember = remember, !.proof = challenges[c].proof,
                        !.late = challenges[c].late \/ challenges[c].proof # user.password]
            /\ Judge(r, c, row)
      BY <2>0
    <2>2. row \in RequestRow
      BY <2>1, VerifyRow
    <2>3. requests' \in [Requests -> RequestRow]
      BY <2>1, <2>2, Judged DEF TypeOK
    <2> QED
      BY <1>4, <2>3, MoveTypes DEF VerifyLoad
  <1>5. ASSUME CountGuess(r) PROVE TypeOK'
    <2>1. requests[r].id \in ChallengeIds
      BY <1>5 DEF CountGuess, RequestsOK, RequestOK
    <2>2. challenges' \in [ChallengeIds -> ChallengeRow] /\ history' \in HistoryRow
      BY <1>5, <2>1, RowsTyped, AttemptTable, AnswerNoted DEF CountGuess, TypeOK
    <2>3. requests' \in [Requests -> RequestRow]
      BY <1>5, DoneTyped DEF CountGuess
    <2> QED
      BY <1>5, <2>2, <2>3 DEF CountGuess, TypeOK
  <1>6. ASSUME ClaimCode(r) PROVE TypeOK'
    <2>1. requests[r].id \in ChallengeIds
      BY <1>6 DEF ClaimCode, RequestsOK, RequestOK
    <2>2. challenges' \in [ChallengeIds -> ChallengeRow] /\ history' \in HistoryRow
      BY <1>6, <2>1, RowsTyped, ClaimTable, ClaimNoted DEF ClaimCode, TypeOK
    <2>3. Accepted(challenges[requests[r].id].purpose) \in Places
      BY <2>1, AcceptedTyped DEF TypeOK, ChallengeRow, Places
    <2>4. requests' \in [Requests -> RequestRow]
      BY <1>6, <2>3, DoneTyped, GotoTyped DEF ClaimCode
    <2> QED
      BY <1>6, <2>2, <2>4 DEF ClaimCode, TypeOK
  <1>7. ASSUME Trust(r) PROVE TypeOK'
    <2>0. PICK n \in DeviceIds : \E new :
            /\ new = [made |-> TRUE, live |-> TRUE, fresh |-> TRUE,
                      proof |-> requests[r].proof, late |-> Overtaken(r)]
            /\ devices' = [devices EXCEPT ![n] = new]
      BY <1>7 DEF Trust
    <2>1. PICK new :
            /\ new = [made |-> TRUE, live |-> TRUE, fresh |-> TRUE,
                      proof |-> requests[r].proof, late |-> Overtaken(r)]
            /\ devices' = [devices EXCEPT ![n] = new]
      BY <2>0
    <2>2. requests[r].proof \in Nat /\ Overtaken(r) \in BOOLEAN
      BY DEF TypeOK, RequestRow, Overtaken
    <2>3. new \in DeviceRow
      BY <2>1, <2>2 DEF DeviceRow
    <2>4. requests' \in [Requests -> RequestRow]
      BY <1>7, DoneTyped DEF Trust
    <2> QED
      BY <1>7, <2>1, <2>3, <2>4 DEF Trust, TypeOK
  <1>8. ASSUME ResendLoad(r) PROVE TypeOK'
    <2>0. PICK c \in ChallengeIds : \E new :
            /\ new = [Arrived("resend") EXCEPT !.id = c] /\ Hold(r, new)
      BY <1>8 DEF ResendLoad
    <2>1. PICK new :
            /\ new = [Arrived("resend") EXCEPT !.id = c] /\ Hold(r, new)
      BY <2>0
    <2>2. Arrived("resend") \in RequestRow /\ c \in Nat
      BY ArrivedTyped, BoundsTyped DEF Places, ChallengeIds
    <2>3. new \in RequestRow
      BY <2>1, <2>2, IdSet
    <2> QED
      BY <1>8, <2>1, <2>3, HoldTyped, MoveTypes DEF ResendLoad
  <1>9. ASSUME Resend(r) PROVE TypeOK'
    <2>1. requests[r].id \in ChallengeIds
      BY <1>9 DEF Resend, RequestsOK, RequestOK
    <2>2. challenges' \in [ChallengeIds -> ChallengeRow]
      BY <1>9, <2>1, ClockTable DEF Resend
    <2>3. requests' \in [Requests -> RequestRow]
      BY <1>9, DoneTyped DEF Resend
    <2> QED
      BY <1>9, <2>2, <2>3 DEF Resend, TypeOK
  <1>10. ASSUME SettingsLoad(r) \/ ConfirmLoad(r) PROVE TypeOK'
    <2>0. PICK place \in {"cool", "latest"} : \E new :
            /\ new = [Arrived(place) EXCEPT !.purpose = SettingsPurpose] /\ Hold(r, new)
      BY <1>10 DEF SettingsLoad, ConfirmLoad
    <2>1. PICK new :
            /\ new = [Arrived(place) EXCEPT !.purpose = SettingsPurpose] /\ Hold(r, new)
      BY <2>0
    <2>2. new \in RequestRow
      BY <2>1, SettingsRow DEF Places
    <2> QED
      BY <1>10, <2>1, <2>2, HoldTyped, MoveTypes DEF SettingsLoad, ConfirmLoad
  <1>11. ASSUME Cooldown(r) PROVE TypeOK'
    <2>1. requests' \in [Requests -> RequestRow]
      BY <1>11, DoneTyped, GotoTyped DEF Cooldown, Places
    <2> QED
      BY <1>11, <2>1, MoveTypes DEF Cooldown
  <1>12. ASSUME Latest(r) PROVE TypeOK'
    <2>1. requests' \in [Requests -> RequestRow]
      BY <1>0, <1>12, Judged, DoneTyped DEF Latest, TypeOK
    <2> QED
      BY <1>12, <2>1, MoveTypes DEF Latest
  <1>13. ASSUME TurnOn(r) \/ TurnOff(r) PROVE TypeOK'
    <2>1. user' \in UserRow
      BY <1>13, RowsTyped DEF TurnOn, TurnOff, UserRow
    <2>2. requests' \in [Requests -> RequestRow]
      BY <1>13, DoneTyped, GotoTyped DEF TurnOn, TurnOff, Places
    <2> QED
      BY <1>13, <2>1, <2>2 DEF TurnOn, TurnOff, TypeOK
  <1> QED
    BY <1>1, <1>2, <1>3, <1>4, <1>5, <1>6, <1>7, <1>8, <1>9, <1>10, <1>11, <1>12, <1>13
    DEF CodeStep

LEMMA OtherTypes ==
  ASSUME TypeOK,
         \/ \E r \in Requests : Die(r)
         \/ \E t \in SessionIds : Logout(t)
         \/ \E d \in DeviceIds : RevokeDevice(d)
         \/ RevokeDevices
         \/ Lapse
  PROVE  TypeOK'
  <1>1. ASSUME NEW r \in Requests, Die(r) PROVE TypeOK'
    <2>1. PICK b \in BOOLEAN : b <=> requests[r].at \in {"lock", "forget"}
      OBVIOUS
    <2>2. history' = [history EXCEPT !.died = @ \/ b]
      BY <1>1, <2>1 DEF Die
    <2>3. history' \in HistoryRow /\ requests' \in [Requests -> RequestRow]
      BY <1>1, <2>2, RowsTyped, DeathNoted, DoneTyped DEF Die
    <2> QED
      BY <1>1, <2>3 DEF Die, TypeOK
  <1>2. ASSUME NEW t \in SessionIds, Logout(t) \/ SessionLapses(t) PROVE TypeOK'
    <2>1. sessions' \in [SessionIds -> SessionRow]
      <3>1. sessions[t] \in SessionRow
        BY DEF TypeOK
      <3>2. \/ sessions' = [sessions EXCEPT ![t] = [sessions[t] EXCEPT !.live = FALSE]]
            \/ sessions' = [sessions EXCEPT ![t] = [sessions[t] EXCEPT !.fresh = FALSE]]
        BY <1>2 DEF Logout, SessionLapses
      <3>3. /\ [sessions[t] EXCEPT !.live = FALSE] \in SessionRow
            /\ [sessions[t] EXCEPT !.fresh = FALSE] \in SessionRow
        BY <3>1 DEF SessionRow
      <3> QED
        BY <3>2, <3>3 DEF TypeOK
    <2> QED
      BY <1>2, <2>1 DEF Logout, SessionLapses, TypeOK
  <1>3. ASSUME NEW d \in DeviceIds, RevokeDevice(d) \/ DeviceLapses(d) PROVE TypeOK'
    <2>1. devices' \in [DeviceIds -> DeviceRow]
      <3>1. devices[d] \in DeviceRow
        BY DEF TypeOK
      <3>2. \/ devices' = [devices EXCEPT ![d] = [devices[d] EXCEPT !.live = FALSE]]
            \/ devices' = [devices EXCEPT ![d] = [devices[d] EXCEPT !.fresh = FALSE]]
        BY <1>3 DEF RevokeDevice, DeviceLapses
      <3>3. /\ [devices[d] EXCEPT !.live = FALSE] \in DeviceRow
            /\ [devices[d] EXCEPT !.fresh = FALSE] \in DeviceRow
        BY <3>1 DEF DeviceRow
      <3> QED
        BY <3>2, <3>3 DEF TypeOK
    <2> QED
      BY <1>3, <2>1 DEF RevokeDevice, DeviceLapses, TypeOK
  <1>4. ASSUME LockLapses PROVE TypeOK'
    <2>1. user' \in UserRow
      BY <1>4, RowsTyped DEF LockLapses, UserRow
    <2> QED
      BY <1>4, <2>1 DEF LockLapses, TypeOK
  <1>5. ASSUME NEW l \in LinkIds, LinkAges(l) PROVE TypeOK'
    <2>1. links' \in [LinkIds -> LinkRow]
      BY <1>5 DEF LinkAges, TypeOK, LinkRow
    <2> QED
      BY <1>5, <2>1 DEF LinkAges, TypeOK
  <1>6. ASSUME NEW c \in ChallengeIds, ChallengeAges(c) PROVE TypeOK'
    <2>1. challenges' \in [ChallengeIds -> ChallengeRow]
      BY <1>6, ClockTable DEF ChallengeAges
    <2> QED
      BY <1>6, <2>1 DEF ChallengeAges, TypeOK
  <1>7. ASSUME RevokeDevices PROVE TypeOK'
    <2>1. devices' \in [DeviceIds -> DeviceRow]
      BY <1>7 DEF RevokeDevices, TypeOK, DeviceRow
    <2> QED
      BY <1>7, <2>1 DEF RevokeDevices, TypeOK
  <1> QED
    BY <1>1, <1>2, <1>3, <1>4, <1>5, <1>6, <1>7 DEF Lapse

LEMMA TypeStep == TypeOK /\ RequestsOK /\ [Next]_vars => TypeOK'
  <1> SUFFICES ASSUME TypeOK, RequestsOK, [Next]_vars PROVE TypeOK'
    OBVIOUS
  <1>1. ASSUME UNCHANGED vars PROVE TypeOK'
    BY <1>1 DEF vars, TypeOK
  <1> QED
    BY <1>1, SessionStepTypes, PasswordStepTypes, CodeStepTypes, OtherTypes DEF Next

-----------------------------------------------------------------------------
(* Requests.                                                               *)

LEMMA OneMoves ==
  ASSUME TypeOK, NEW r \in Requests,
         SessionStep(r) \/ PasswordStep(r) \/ CodeStep(r) \/ Die(r)
  PROVE  \E row : requests' = [requests EXCEPT ![r] = row]
  <1>1. CASE SessionStep(r)
    BY <1>1 DEF SessionStep, LoginLoad, CountFailedLogin, LockAccount, PasswordRight, SignIn,
                RefreshLoad, ReuseDetected, Rotate, Hold, Goto, Done
  <1>2. CASE PasswordStep(r)
    BY <1>2 DEF PasswordStep, ForgotLoad, IssueLink, ResetLoad, ResetPassword, LinkRefused,
                ProfileLoad, SaveProfile, ForgetDevices, Hold, Goto, Done
  <1>3. CASE CodeStep(r)
    BY <1>3 DEF CodeStep, TrustedEntry, Touch, StartLogin, VerifyLoad, CountGuess, ClaimCode,
                Trust, ResendLoad, Resend, SettingsLoad, Cooldown, StartSettings, ConfirmLoad,
                Latest, TurnOn, TurnOff, Judge, Hold, Goto, Done
  <1>4. CASE Die(r)
    BY <1>4 DEF Die, Done
  <1> QED
    BY <1>1, <1>2, <1>3, <1>4

LEMMA OthersWait ==
  ASSUME TypeOK, NEW r \in Requests, NEW q \in Requests, q # r,
         SessionStep(r) \/ PasswordStep(r) \/ CodeStep(r) \/ Die(r)
  PROVE  requests'[q] = requests[q]
  BY OneMoves DEF TypeOK

LEMMA NobodyMoves ==
  ASSUME \/ UNCHANGED vars
         \/ \E t \in SessionIds : Logout(t)
         \/ \E d \in DeviceIds : RevokeDevice(d)
         \/ RevokeDevices
         \/ Lapse
  PROVE  requests' = requests
  BY DEF vars, Logout, RevokeDevice, RevokeDevices, Lapse, LockLapses, SessionLapses, LinkAges,
         ChallengeAges, DeviceLapses

-----------------------------------------------------------------------------
(* Which actions write which table.                                        *)

LEMMA SessionWriters ==
  ASSUME [Next]_vars
  PROVE  \/ UNCHANGED sessions
         \/ \E r \in Requests : \/ SignIn(r) \/ ReuseDetected(r) \/ Rotate(r)
                                \/ ResetPassword(r) \/ SaveProfile(r)
         \/ \E t \in SessionIds : Logout(t) \/ SessionLapses(t)
  BY DEF Next, vars, SessionStep, PasswordStep, CodeStep, Lapse, LoginLoad, CountFailedLogin,
         LockAccount, PasswordRight, RefreshLoad, ForgotLoad, IssueLink, ResetLoad, LinkRefused,
         ProfileLoad, ForgetDevices, TrustedEntry, Touch, StartLogin, VerifyLoad, CountGuess,
         ClaimCode, Trust, ResendLoad, Resend, SettingsLoad, Cooldown, StartSettings, ConfirmLoad,
         Latest, TurnOn, TurnOff, Die, RevokeDevice, RevokeDevices, LockLapses, LinkAges,
         ChallengeAges, DeviceLapses

LEMMA LinkWriters ==
  ASSUME [Next]_vars
  PROVE  \/ UNCHANGED links
         \/ \E r \in Requests : IssueLink(r) \/ ResetPassword(r)
         \/ \E l \in LinkIds : LinkAges(l)
  BY DEF Next, vars, SessionStep, PasswordStep, CodeStep, Lapse, LoginLoad, CountFailedLogin,
         LockAccount, PasswordRight, SignIn, RefreshLoad, ReuseDetected, Rotate, ForgotLoad,
         ResetLoad, LinkRefused, ProfileLoad, SaveProfile, ForgetDevices, TrustedEntry, Touch,
         StartLogin, VerifyLoad, CountGuess, ClaimCode, Trust, ResendLoad, Resend, SettingsLoad,
         Cooldown, StartSettings, ConfirmLoad, Latest, TurnOn, TurnOff, Die, Logout,
         RevokeDevice, RevokeDevices, LockLapses, SessionLapses, ChallengeAges, DeviceLapses

LEMMA ChallengeWriters ==
  ASSUME [Next]_vars
  PROVE  \/ UNCHANGED challenges
         \/ \E r \in Requests : \/ StartLogin(r) \/ StartSettings(r)
                                \/ CountGuess(r) \/ ClaimCode(r) \/ Resend(r)
         \/ \E c \in ChallengeIds : ChallengeAges(c)
  BY DEF Next, vars, SessionStep, PasswordStep, CodeStep, Lapse, LoginLoad, CountFailedLogin,
         LockAccount, PasswordRight, SignIn, RefreshLoad, ReuseDetected, Rotate, ForgotLoad,
         IssueLink, ResetLoad, ResetPassword, LinkRefused, ProfileLoad, SaveProfile, ForgetDevices,
         TrustedEntry, Touch, VerifyLoad, Trust, ResendLoad, SettingsLoad, Cooldown, ConfirmLoad,
         Latest, TurnOn, TurnOff, Die, Logout, RevokeDevice, RevokeDevices, LockLapses,
         SessionLapses, LinkAges, DeviceLapses

LEMMA DeviceWriters ==
  ASSUME [Next]_vars
  PROVE  \/ UNCHANGED devices
         \/ \E r \in Requests : Trust(r) \/ ForgetDevices(r)
         \/ \E d \in DeviceIds : RevokeDevice(d) \/ DeviceLapses(d)
         \/ RevokeDevices
  BY DEF Next, vars, SessionStep, PasswordStep, CodeStep, Lapse, LoginLoad, CountFailedLogin,
         LockAccount, PasswordRight, SignIn, RefreshLoad, ReuseDetected, Rotate, ForgotLoad,
         IssueLink, ResetLoad, ResetPassword, LinkRefused, ProfileLoad, SaveProfile, TrustedEntry,
         Touch, StartLogin, VerifyLoad, CountGuess, ClaimCode, ResendLoad, Resend, SettingsLoad,
         Cooldown, StartSettings, ConfirmLoad, Latest, TurnOn, TurnOff, Die, Logout, LockLapses,
         SessionLapses, LinkAges, ChallengeAges

LEMMA HistoryWriters ==
  ASSUME [Next]_vars
  PROVE  \/ UNCHANGED history
         \/ \E r \in Requests : \/ CountFailedLogin(r) \/ LockAccount(r) \/ PasswordRight(r)
                                \/ ResetPassword(r) \/ CountGuess(r) \/ ClaimCode(r) \/ Die(r)
  BY DEF Next, vars, SessionStep, PasswordStep, CodeStep, Lapse, LoginLoad, SignIn, RefreshLoad,
         ReuseDetected, Rotate, ForgotLoad, IssueLink, ResetLoad, LinkRefused, ProfileLoad,
         SaveProfile, ForgetDevices, TrustedEntry, Touch, StartLogin, VerifyLoad, Trust,
         ResendLoad, Resend, SettingsLoad, Cooldown, StartSettings, ConfirmLoad, Latest, TurnOn,
         TurnOff, Logout, RevokeDevice, RevokeDevices, LockLapses, SessionLapses, LinkAges,
         ChallengeAges, DeviceLapses

\* Signing in by password says nothing of links and codes.
LEMMA SignInUses ==
  ASSUME TypeOK, NEW r \in Requests,
         CountFailedLogin(r) \/ LockAccount(r) \/ PasswordRight(r) \/ Die(r)
  PROVE  SameUses(history, history')
  <1>0. history \in HistoryRow /\ user.failed \in Nat
    BY RowsTyped, UserFacts
  <1>1. CASE history' = history
    BY <1>1 DEF SameUses
  <1>2. CASE history' = [history EXCEPT !.wrong = @ + 1]
    BY <1>0, <1>2, WrongCounted
  <1>3. CASE history' = [history EXCEPT !.cleared = @ + user.failed]
    BY <1>0, <1>3, CountCleared
  <1>4. CASE history' = [history EXCEPT !.cleared = @ + user.failed, !.locks = @ + 1]
    BY <1>0, <1>4, LockNoted
  <1>5. ASSUME Die(r) PROVE SameUses(history, history')
    <2>1. PICK b \in BOOLEAN : b <=> requests[r].at \in {"lock", "forget"}
      OBVIOUS
    <2>2. history' = [history EXCEPT !.died = @ \/ b]
      BY <1>5, <2>1 DEF Die
    <2> QED
      BY <1>0, <2>2, DeathNoted
  <1> QED
    BY <1>1, <1>2, <1>3, <1>4, <1>5 DEF CountFailedLogin, LockAccount, PasswordRight

LEMMA ResetWriters ==
  ASSUME TypeOK, RequestsOK, [Next]_vars
  PROVE  \/ history'.resets = history.resets
         \/ \E r \in Requests : ResetPassword(r)
  <1>1. ASSUME NEW r \in Requests, CountGuess(r) \/ ClaimCode(r)
        PROVE  history'.resets = history.resets
    <2> DEFINE c == requests[r].id
    <2>0. c \in ChallengeIds /\ history \in HistoryRow
      BY <1>1, RowsTyped DEF CountGuess, ClaimCode, RequestsOK, RequestOK
    <2>1. CASE history' = history
      BY <2>1
    <2>2. CASE history' = [history EXCEPT !.answered[c] = @ + 1]
      BY <2>0, <2>2, AnswerNoted
    <2>3. CASE history' = [history EXCEPT !.answered[c] = @ + 1, !.claimed[c] = @ + 1]
      BY <2>0, <2>3, ClaimNoted
    <2> QED
      BY <1>1, <2>1, <2>2, <2>3 DEF CountGuess, ClaimCode
  <1> QED
    BY <1>1, HistoryWriters, SignInUses DEF SameUses

LEMMA PasswordWriters ==
  ASSUME TypeOK, [Next]_vars
  PROVE  \/ user'.password = user.password
         \/ \E r \in Requests : ResetPassword(r) \/ SaveProfile(r)
  <1>1. \/ UNCHANGED user
        \/ \E r \in Requests : CountFailedLogin(r) \/ LockAccount(r) \/ PasswordRight(r)
        \/ \E r \in Requests : ResetPassword(r) \/ SaveProfile(r)
        \/ \E r \in Requests : TurnOn(r) \/ TurnOff(r)
        \/ LockLapses
    BY DEF Next, vars, SessionStep, PasswordStep, CodeStep, Lapse, LoginLoad, SignIn, RefreshLoad,
           ReuseDetected, Rotate, ForgotLoad, IssueLink, ResetLoad, LinkRefused, ProfileLoad,
           ForgetDevices, TrustedEntry, Touch, StartLogin, VerifyLoad, CountGuess, ClaimCode,
           Trust, ResendLoad, Resend, SettingsLoad, Cooldown, StartSettings, ConfirmLoad, Latest,
           Die, Logout, RevokeDevice, RevokeDevices, SessionLapses, LinkAges, ChallengeAges,
           DeviceLapses
  <1>2. ASSUME NEW r \in Requests, CountFailedLogin(r) \/ LockAccount(r) \/ PasswordRight(r)
        PROVE  user'.password = user.password
    <2>1. ASSUME CountFailedLogin(r) PROVE user'.password = user.password
      BY <2>1, RowsTyped, FailedSet DEF CountFailedLogin
    <2>2. ASSUME LockAccount(r) PROVE user'.password = user.password
      BY <2>2, RowsTyped, LockSet DEF LockAccount
    <2>3. ASSUME PasswordRight(r) PROVE user'.password = user.password
      BY <2>3, RowsTyped, LockSet DEF PasswordRight
    <2> QED
      BY <1>2, <2>1, <2>2, <2>3
  <1>3. ASSUME NEW r \in Requests, TurnOn(r) \/ TurnOff(r)
        PROVE  user'.password = user.password
    BY <1>3, RowsTyped DEF TurnOn, TurnOff, UserRow
  <1>4. ASSUME LockLapses
        PROVE  user'.password = user.password
    BY <1>4, RowsTyped DEF LockLapses, UserRow
  <1> QED
    BY <1>1, <1>2, <1>3, <1>4

-----------------------------------------------------------------------------
(* Requests.                                                               *)

\* Rows stay once made, and a challenge is for what it was made for.
SessionsStay == \A t \in SessionIds : sessions[t].made => sessions'[t].made

LEMMA SessionRowsStay ==
  ASSUME TypeOK, RequestsOK, [Next]_vars
  PROVE  SessionsStay
  <1>1. CASE UNCHANGED sessions
    BY <1>1 DEF SessionsStay
  <1>2. ASSUME NEW r \in Requests, SignIn(r)
        PROVE  SessionsStay
    BY <1>2 DEF SignIn, IsNext, SessionsStay, TypeOK
  <1>3. ASSUME NEW r \in Requests, ReuseDetected(r) \/ ResetPassword(r)
        PROVE  SessionsStay
    BY <1>3, RevokedTable DEF ReuseDetected, ResetPassword, SessionsStay
  <1>4. ASSUME NEW r \in Requests, Rotate(r)
        PROVE  SessionsStay
    <2>1. SUFFICES ASSUME NEW t \in SessionIds, sessions[t].made PROVE sessions'[t].made
      BY DEF SessionsStay
    <2>2. [sessions[t] EXCEPT !.live = FALSE].made = sessions[t].made
      BY DEF TypeOK, SessionRow
    <2> QED
      BY <1>4, <2>1, <2>2, RotateSessions DEF IsNext
  <1>5. ASSUME NEW r \in Requests, SaveProfile(r)
        PROVE  SessionsStay
    BY <1>5, ProfileSessions DEF SessionsStay
  <1>6. ASSUME NEW t \in SessionIds, Logout(t) \/ SessionLapses(t)
        PROVE  SessionsStay
    BY <1>6 DEF Logout, SessionLapses, SessionsStay, TypeOK, SessionRow
  <1> QED
    BY <1>1, <1>2, <1>3, <1>4, <1>5, <1>6, SessionWriters

LinksStay == \A l \in LinkIds : links[l].made => links'[l].made

LEMMA LinkRowsStay ==
  ASSUME TypeOK, [Next]_vars
  PROVE  LinksStay
  <1>1. CASE UNCHANGED links
    BY <1>1 DEF LinksStay
  <1>2. ASSUME NEW r \in Requests, IssueLink(r) \/ ResetPassword(r)
        PROVE  LinksStay
    BY <1>2, LinkTables DEF IssueLink, ResetPassword, IsNext, LinksStay
  <1>3. ASSUME NEW l \in LinkIds, LinkAges(l)
        PROVE  LinksStay
    BY <1>3 DEF LinkAges, LinksStay, TypeOK, LinkRow
  <1> QED
    BY <1>1, <1>2, <1>3, LinkWriters

ChallengesStay ==
  \A c \in ChallengeIds :
    challenges[c].made => /\ challenges'[c].made
                          /\ challenges'[c].purpose = challenges[c].purpose

LEMMA ChallengeRowsStay ==
  ASSUME TypeOK, RequestsOK, [Next]_vars
  PROVE  ChallengesStay
  <1>1. CASE UNCHANGED challenges
    BY <1>1 DEF ChallengesStay
  <1>2. ASSUME NEW r \in Requests, StartLogin(r) \/ StartSettings(r)
        PROVE  ChallengesStay
    <2>1. PICK purpose \in Purposes : Start(r, purpose)
      BY <1>2 DEF StartLogin, StartSettings, TypeOK, RequestRow, Purposes
    <2> QED
      BY <2>1, StartTable, ClosedTable DEF IsNext, ChallengesStay
  <1>3. ASSUME NEW r \in Requests, CountGuess(r) \/ ClaimCode(r) \/ Resend(r)
        PROVE  ChallengesStay
    <2>1. requests[r].id \in ChallengeIds
      BY <1>3 DEF CountGuess, ClaimCode, Resend, RequestsOK, RequestOK
    <2>2. ASSUME CountGuess(r) PROVE ChallengesStay
      BY <2>1, <2>2, AttemptTable DEF CountGuess, ChallengesStay
    <2>3. ASSUME ClaimCode(r) PROVE ChallengesStay
      BY <2>1, <2>3, ClaimTable DEF ClaimCode, ChallengesStay
    <2>4. ASSUME Resend(r) PROVE ChallengesStay
      BY <2>1, <2>4, ClockTable DEF Resend, ChallengesStay, SameButClock
    <2> QED
      BY <1>3, <2>2, <2>3, <2>4
  <1>4. ASSUME NEW c \in ChallengeIds, ChallengeAges(c)
        PROVE  ChallengesStay
    BY <1>4, ClockTable DEF ChallengeAges, ChallengesStay, SameButClock
  <1> QED
    BY <1>1, <1>2, <1>3, <1>4, ChallengeWriters

\* What a request that does not move holds stays there.
LEMMA WaitingKeeps ==
  ASSUME TypeOK, RequestsOK, [Next]_vars, NEW q \in Requests, requests'[q] = requests[q]
  PROVE  RequestOK(q)'
  BY SessionRowsStay, LinkRowsStay, ChallengeRowsStay
  DEF RequestsOK, RequestOK, SessionsStay, LinksStay, ChallengesStay, CarriesItsProof

\* Places where nothing is held that the invariant speaks of.
Plain == Places \ (Carrying \union {"claim", "touch", "latest", "guess", "accept", "resend"})

LEMMA PlainKeeps ==
  ASSUME NEW r \in Requests, requests'[r].at \in Plain
  PROVE  RequestOK(r)'
  BY DEF RequestOK, Plain, Carrying

LEMMA GotoFields ==
  ASSUME TypeOK, NEW r \in Requests, NEW place, Goto(r, place)
  PROVE  /\ requests'[r].at = place /\ requests'[r].id = requests[r].id
         /\ CarriesItsProof(r)' <=> CarriesItsProof(r)
  <1>1. requests[r] \in RequestRow
    BY DEF TypeOK
  <1>2. requests'[r] = [requests[r] EXCEPT !.at = place]
    BY DEF TypeOK, Goto
  <1> QED
    BY <1>1, <1>2 DEF RequestRow, CarriesItsProof

LEMMA DoneKeeps ==
  ASSUME TypeOK, NEW r \in Requests, Done(r)
  PROVE  RequestOK(r)'
  <1>1. requests'[r].at = "idle"
    BY DEF TypeOK, Done, Idle
  <1> QED
    BY <1>1, PlainKeeps DEF Plain, Places, Carrying

\* A step that takes its request to a plain place, or ends it.
LEMMA EndingKeeps ==
  ASSUME TypeOK, NEW r \in Requests,
         \/ CountFailedLogin(r) \/ LockAccount(r) \/ ReuseDetected(r) \/ Rotate(r)
         \/ ForgotLoad(r) \/ IssueLink(r) \/ ResetPassword(r) \/ LinkRefused(r) \/ SaveProfile(r)
         \/ ForgetDevices(r) \/ StartLogin(r) \/ CountGuess(r) \/ Trust(r) \/ Resend(r)
         \/ Cooldown(r) \/ StartSettings(r) \/ TurnOn(r) \/ TurnOff(r) \/ Die(r)
  PROVE  RequestOK(r)'
  <1>1. \/ Done(r)
        \/ \E place \in {"lock", "forget", "code"} : Goto(r, place)
        \/ Hold(r, Arrived("issue"))
    BY DEF CountFailedLogin, LockAccount, ReuseDetected, Rotate, ForgotLoad, IssueLink,
           ResetPassword, LinkRefused, SaveProfile, ForgetDevices, StartLogin, CountGuess, Trust,
           Resend, Cooldown, StartSettings, TurnOn, TurnOff, Die
  <1>2. ASSUME NEW place \in {"lock", "forget", "code"}, Goto(r, place)
        PROVE  RequestOK(r)'
    BY <1>2, GotoFields, PlainKeeps DEF Plain, Places, Carrying
  <1>3. ASSUME Hold(r, Arrived("issue"))
        PROVE  RequestOK(r)'
    <2>1. requests'[r].at = "issue"
      BY <1>3, ArrivedTyped DEF Hold, TypeOK, Places
    <2> QED
      BY <2>1, PlainKeeps DEF Plain, Places, Carrying
  <1> QED
    BY <1>1, <1>2, <1>3, DoneKeeps

LEMMA SigningInKeeps ==
  ASSUME TypeOK, RequestsOK, SessionsOK, NEW r \in Requests, [Next]_vars,
         \/ LoginLoad(r) \/ PasswordRight(r) \/ SignIn(r) \/ RefreshLoad(r)
         \/ TrustedEntry(r) \/ Touch(r)
  PROVE  RequestOK(r)'
  <1>0. requests[r] \in RequestRow /\ RequestOK(r)
    BY DEF TypeOK, RequestsOK
  <1>1. ASSUME LoginLoad(r) PROVE RequestOK(r)'
    <2>0. PICK place \in {"wrong", "right"} : \E new :
            /\ \/ new = [Arrived(place) EXCEPT !.saw = user, !.proof = user.password]
               \/ new = [Arrived(place) EXCEPT !.saw = user] /\ place = "wrong"
            /\ requests' = [requests EXCEPT ![r] = new]
      BY <1>1 DEF LoginLoad, Hold
    <2>1. PICK new :
            /\ \/ new = [Arrived(place) EXCEPT !.saw = user, !.proof = user.password]
               \/ new = [Arrived(place) EXCEPT !.saw = user] /\ place = "wrong"
            /\ requests' = [requests EXCEPT ![r] = new]
      BY <2>0
    <2>2. /\ Arrived(place) \in RequestRow /\ user \in UserRow
          /\ Arrived(place).at = place /\ Arrived(place).began = user.password
      BY ArrivedTyped, RowsTyped DEF Places
    <2>3. /\ new.at = place /\ new.began = user.password
          /\ place = "right" => new.proof = user.password
      <3>1. CASE new = [Arrived(place) EXCEPT !.saw = user, !.proof = user.password]
        BY <2>2, <3>1, SawSet
      <3>2. CASE new = [Arrived(place) EXCEPT !.saw = user] /\ place = "wrong"
        BY <2>2, <3>2, SawSet
      <3> QED
        BY <2>1, <3>1, <3>2
    <2>4. requests'[r] = new
      BY <2>1 DEF TypeOK
    <2> QED
      BY <2>0, <2>1, <2>3, <2>4 DEF RequestOK, Carrying, CarriesItsProof
  <1>2. ASSUME PasswordRight(r) PROVE RequestOK(r)'
    <2>1. Goto(r, "entry") /\ CarriesItsProof(r)
      BY <1>0, <1>2 DEF PasswordRight, RequestOK, Carrying
    <2> QED
      BY <2>1, GotoFields DEF RequestOK, Carrying
  <1>3. ASSUME SignIn(r) PROVE RequestOK(r)'
    <2>1. (Goto(r, "trust") \/ Done(r)) /\ CarriesItsProof(r)
      BY <1>0, <1>3 DEF SignIn, RequestOK, Carrying
    <2>2. ASSUME Goto(r, "trust") PROVE RequestOK(r)'
      BY <2>1, <2>2, GotoFields DEF RequestOK, Carrying
    <2> QED
      BY <2>1, <2>2, DoneKeeps
  <1>4. ASSUME RefreshLoad(r) PROVE RequestOK(r)'
    <2>0. PICK t \in SessionIds, place \in {"rotate", "reuse"} : \E new :
            /\ sessions[t].made
            /\ place = "rotate" => sessions[t].live
            /\ new = [Arrived(place) EXCEPT !.id = t, !.live = sessions[t].live,
                        !.proof = sessions[t].proof, !.late = sessions[t].late]
            /\ requests' = [requests EXCEPT ![r] = new]
      BY <1>4 DEF RefreshLoad, Hold
    <2>1. PICK new :
            /\ sessions[t].made
            /\ place = "rotate" => sessions[t].live
            /\ new = [Arrived(place) EXCEPT !.id = t, !.live = sessions[t].live,
                        !.proof = sessions[t].proof, !.late = sessions[t].late]
            /\ requests' = [requests EXCEPT ![r] = new]
      BY <2>0
    <2>2. /\ Arrived(place) \in RequestRow /\ sessions[t] \in SessionRow /\ t \in Nat
          /\ Arrived(place).at = place /\ Arrived(place).began = user.password
      BY ArrivedTyped, BoundsTyped DEF TypeOK, Places, SessionIds
    <2>5. PICK row \in RequestRow, live \in BOOLEAN, proof \in Nat, late \in BOOLEAN :
            /\ row = Arrived(place) /\ live = sessions[t].live
            /\ proof = sessions[t].proof /\ late = sessions[t].late
      BY <2>2 DEF SessionRow
    <2>6. new = [row EXCEPT !.id = t, !.live = live, !.proof = proof, !.late = late]
      BY <2>1, <2>5
    <2>3. /\ new.at = row.at /\ new.began = row.began /\ new.id = t
          /\ new.live = live /\ new.proof = proof /\ new.late = late
      BY ONLY <2>6, row \in RequestRow DEF RequestRow
    <2>4. requests'[r] = new /\ sessions'[t].made
      BY <2>1, SessionRowsStay DEF TypeOK, SessionsStay
    <2>7. place = "rotate" => sessions[t].late \/ sessions[t].proof = user.password
      BY <2>1 DEF SessionsOK
    <2> QED
      BY <2>1, <2>2, <2>3, <2>4, <2>5, <2>7 DEF RequestOK, Carrying, CarriesItsProof
  <1>5. ASSUME TrustedEntry(r) PROVE RequestOK(r)'
    <2>0. PICK d \in DeviceIds, row \in RequestRow : \E new :
            /\ row = requests[r] /\ row.at = "entry"
            /\ new = [row EXCEPT !.at = "touch", !.id = d]
            /\ requests' = [requests EXCEPT ![r] = new]
      BY <1>0, <1>5 DEF TrustedEntry, Hold
    <2>1. PICK new :
            /\ row = requests[r] /\ row.at = "entry"
            /\ new = [row EXCEPT !.at = "touch", !.id = d]
            /\ requests' = [requests EXCEPT ![r] = new]
      BY <2>0
    <2>2. new.at = "touch" /\ new.id = d /\ Untouched(row, new)
      BY ONLY row \in RequestRow, <2>1 DEF RequestRow, Untouched
    <2>3. requests'[r] = new
      BY <2>1 DEF TypeOK
    <2> QED
      BY <1>0, <2>1, <2>2, <2>3 DEF RequestOK, Carrying, CarriesItsProof, Untouched
  <1>6. ASSUME Touch(r) PROVE RequestOK(r)'
    <2>1. (Goto(r, "admit") \/ Done(r)) /\ CarriesItsProof(r)
      BY <1>0, <1>6 DEF Touch, RequestOK, Carrying
    <2>2. ASSUME Goto(r, "admit") PROVE RequestOK(r)'
      BY <2>1, <2>2, GotoFields DEF RequestOK, Carrying
    <2> QED
      BY <2>1, <2>2, DoneKeeps
  <1> QED
    BY <1>1, <1>2, <1>3, <1>4, <1>5, <1>6

LEMMA LinkRequestsKeep ==
  ASSUME TypeOK, NEW r \in Requests, [Next]_vars, ResetLoad(r) \/ ProfileLoad(r)
  PROVE  RequestOK(r)'
  <1>1. ASSUME ResetLoad(r) PROVE RequestOK(r)'
    <2>0. PICK l \in LinkIds : \E new :
            /\ links[l].made
            /\ new = [Arrived("claim") EXCEPT !.id = l]
            /\ requests' = [requests EXCEPT ![r] = new]
      BY <1>1 DEF ResetLoad, Hold
    <2>1. PICK new :
            /\ links[l].made
            /\ new = [Arrived("claim") EXCEPT !.id = l]
            /\ requests' = [requests EXCEPT ![r] = new]
      BY <2>0
    <2>2. Arrived("claim") \in RequestRow /\ Arrived("claim").at = "claim" /\ l \in Nat
      BY ArrivedTyped, BoundsTyped DEF Places, LinkIds
    <2>3. new.at = "claim" /\ new.id = l
      BY <2>1, <2>2, IdSet
    <2>4. requests'[r] = new /\ links'[l].made
      BY <2>1, LinkRowsStay DEF TypeOK, LinksStay
    <2> QED
      BY <2>3, <2>4 DEF RequestOK, Carrying
  <1>2. ASSUME ProfileLoad(r) PROVE RequestOK(r)'
    <2>0. PICK keep \in {0} \union SessionIds : \E new :
            /\ new = [Arrived("save") EXCEPT !.id = keep]
            /\ requests' = [requests EXCEPT ![r] = new]
      BY <1>2 DEF ProfileLoad, Hold
    <2>1. PICK new :
            /\ new = [Arrived("save") EXCEPT !.id = keep]
            /\ requests' = [requests EXCEPT ![r] = new]
      BY <2>0
    <2>2. Arrived("save") \in RequestRow /\ Arrived("save").at = "save" /\ keep \in Nat
      BY ArrivedTyped, BoundsTyped DEF Places, SessionIds
    <2>3. requests'[r].at = "save"
      BY <2>1, <2>2, IdSet DEF TypeOK
    <2> QED
      BY <2>3, PlainKeeps DEF Plain, Places, Carrying
  <1> QED
    BY <1>1, <1>2

\* A code compared: what the request needs is in the row it held before.
LEMMA JudgedKeeps ==
  ASSUME TypeOK, RequestsOK, ChallengesOK, [Next]_vars, NEW r \in Requests,
         NEW c \in ChallengeIds, NEW row \in RequestRow, Judge(r, c, row),
         challenges[c].purpose = "LOGIN" => row.late \/ row.proof = row.began
  PROVE  RequestOK(r)'
  <1>1. PICK new \in RequestRow :
          /\ requests' = [requests EXCEPT ![r] = new]
          /\ new.at \in {"guess", "accept"} /\ new.id = c /\ Untouched(row, new)
          /\ challenges[c].open
    BY Judged
  <1>2. requests'[r] = new
    BY <1>1 DEF TypeOK
  <1>3. challenges'[c].made /\ challenges'[c].purpose = challenges[c].purpose
    BY <1>1, ChallengeRowsStay DEF ChallengesOK, ChallengeOK, ChallengesStay
  <1> QED
    BY <1>1, <1>2, <1>3 DEF RequestOK, Carrying, CarriesItsProof, Untouched

LEMMA CodeRequestsKeep ==
  ASSUME TypeOK, RequestsOK, ChallengesOK, [Next]_vars, NEW r \in Requests,
         \/ VerifyLoad(r) \/ ClaimCode(r) \/ ResendLoad(r)
         \/ SettingsLoad(r) \/ ConfirmLoad(r) \/ Latest(r)
  PROVE  RequestOK(r)'
  <1>0. requests[r] \in RequestRow /\ RequestOK(r)
    BY DEF TypeOK, RequestsOK
  <1>1. ASSUME VerifyLoad(r) PROVE RequestOK(r)'
    <2>0. PICK c \in ChallengeIds, remember \in BOOLEAN : \E row :
            /\ row = [Arrived("idle") EXCEPT
                        !.remember = remember, !.proof = challenges[c].proof,
                        !.late = challenges[c].late \/ challenges[c].proof # user.password]
            /\ Judge(r, c, row)
      BY <1>1 DEF VerifyLoad
    <2>1. PICK row :
            /\ row = [Arrived("idle") EXCEPT
                        !.remember = remember, !.proof = challenges[c].proof,
                        !.late = challenges[c].late \/ challenges[c].proof # user.password]
            /\ Judge(r, c, row)
      BY <2>0
    <2>2. row \in RequestRow /\ (row.late \/ row.proof = row.began)
      BY <2>1, VerifyRow
    <2> QED
      BY <2>1, <2>2, JudgedKeeps
  <1>2. ASSUME ClaimCode(r) PROVE RequestOK(r)'
    <2> DEFINE p == challenges[requests[r].id].purpose
    <2>1. CASE Done(r)
      BY <2>1, DoneKeeps
    <2>2. CASE Goto(r, Accepted(p))
      <3>1. p \in Purposes /\ (p = "LOGIN" => CarriesItsProof(r))
        BY <1>0, <1>2 DEF ClaimCode, RequestOK, TypeOK, ChallengeRow
      <3>2. /\ requests'[r].at = Accepted(p)
            /\ CarriesItsProof(r)' <=> CarriesItsProof(r)
        BY <2>2, GotoFields
      <3> QED
        BY <3>1, <3>2, AcceptedTyped DEF RequestOK, Carrying
    <2> QED
      BY <1>2, <2>1, <2>2 DEF ClaimCode
  <1>3. ASSUME ResendLoad(r) PROVE RequestOK(r)'
    <2>0. PICK c \in ChallengeIds : \E new :
            /\ challenges[c].open
            /\ new = [Arrived("resend") EXCEPT !.id = c]
            /\ requests' = [requests EXCEPT ![r] = new]
      BY <1>3 DEF ResendLoad, Hold, Guessable
    <2>1. PICK new :
            /\ challenges[c].open
            /\ new = [Arrived("resend") EXCEPT !.id = c]
            /\ requests' = [requests EXCEPT ![r] = new]
      BY <2>0
    <2>2. Arrived("resend") \in RequestRow /\ Arrived("resend").at = "resend" /\ c \in Nat
      BY ArrivedTyped, BoundsTyped DEF Places, ChallengeIds
    <2>3. new.at = "resend" /\ new.id = c
      BY <2>1, <2>2, IdSet
    <2>4. requests'[r] = new /\ challenges'[c].made
      BY <2>1, ChallengeRowsStay DEF TypeOK, ChallengesOK, ChallengeOK, ChallengesStay
    <2> QED
      BY <2>3, <2>4 DEF RequestOK, Carrying
  <1>4. ASSUME SettingsLoad(r) \/ ConfirmLoad(r) PROVE RequestOK(r)'
    <2>0. PICK place \in {"cool", "latest"} : \E new :
            /\ new = [Arrived(place) EXCEPT !.purpose = SettingsPurpose]
            /\ requests' = [requests EXCEPT ![r] = new]
      BY <1>4 DEF SettingsLoad, ConfirmLoad, Hold
    <2>1. PICK new :
            /\ new = [Arrived(place) EXCEPT !.purpose = SettingsPurpose]
            /\ requests' = [requests EXCEPT ![r] = new]
      BY <2>0
    <2>2. place \in Places
      BY DEF Places
    <2>3. requests'[r].at = place /\ requests'[r].purpose # "LOGIN"
      BY <2>1, <2>2, SettingsRow DEF TypeOK
    <2> QED
      BY <2>3 DEF RequestOK, Carrying
  <1>5. ASSUME Latest(r) PROVE RequestOK(r)'
    <2>1. CASE Done(r)
      BY <2>1, DoneKeeps
    <2>2. ASSUME NEW c \in ChallengeIds, IsLatest(c, requests[r].purpose), Judge(r, c, requests[r])
          PROVE  RequestOK(r)'
      <3>1. challenges[c].purpose # "LOGIN"
        BY <1>0, <1>5, <2>2 DEF Latest, RequestOK, IsLatest
      <3> QED
        BY <1>0, <2>2, <3>1, JudgedKeeps
    <2> QED
      BY <1>5, <2>1, <2>2 DEF Latest
  <1> QED
    BY <1>1, <1>2, <1>3, <1>4, <1>5

LEMMA RequestsStep ==
  ASSUME TypeOK, RequestsOK, SessionsOK, ChallengesOK, [Next]_vars
  PROVE  RequestsOK'
  <1> SUFFICES ASSUME NEW q \in Requests PROVE RequestOK(q)'
    BY DEF RequestsOK
  <1>1. CASE requests' = requests
    BY <1>1, WaitingKeeps
  <1>2. ASSUME NEW r \in Requests, SessionStep(r) \/ PasswordStep(r) \/ CodeStep(r) \/ Die(r)
        PROVE  RequestOK(q)'
    <2>1. CASE q # r
      BY <1>2, <2>1, OthersWait, WaitingKeeps
    <2>2. CASE q = r
      BY <1>2, <2>2, EndingKeeps, SigningInKeeps, LinkRequestsKeep, CodeRequestsKeep
      DEF SessionStep, PasswordStep, CodeStep
    <2> QED
      BY <2>1, <2>2
  <1> QED
    BY <1>1, <1>2, NobodyMoves DEF Next

-----------------------------------------------------------------------------
(* The count of wrong passwords.                                           *)

\* Nothing about the count changes, and no request about to lock moves.
LEMMA CountFrame ==
  ASSUME EveryGuessCounts,
         user'.failed = user.failed, history'.wrong = history.wrong,
         history'.cleared = history.cleared, history'.locks = history.locks,
         history'.died = history.died,
         \A r \in Requests : requests[r].at = "lock" => requests'[r].at = "lock"
  PROVE  EveryGuessCounts'
  BY DEF EveryGuessCounts, At

\* A request that is not about to lock moves.
LEMMA LockersStay ==
  ASSUME TypeOK, NEW r \in Requests, requests[r].at # "lock",
         SessionStep(r) \/ PasswordStep(r) \/ CodeStep(r) \/ Die(r)
  PROVE  \A q \in Requests : requests[q].at = "lock" => requests'[q].at = "lock"
  BY OthersWait

LEMMA CountFailedLoginCounts ==
  ASSUME TypeOK, EveryGuessCounts, NEW r \in Requests, CountFailedLogin(r)
  PROVE  EveryGuessCounts'
  <1>1. /\ user'.failed = user.failed + 1
        /\ history'.wrong = history.wrong + 1 /\ history'.cleared = history.cleared
        /\ history'.locks = history.locks /\ history'.died = history.died
    BY RowsTyped, FailedSet, WrongCounted DEF CountFailedLogin
  <1>2. user'.failed >= MaxFailed => At("lock")' \/ history'.died
    <2>1. CASE user.failed + 1 < MaxFailed
      BY <1>1, <2>1, UserFacts, BoundsTyped
    <2>2. CASE ~(user.failed + 1 < MaxFailed)
      <3>1. Goto(r, "lock")
        BY <2>2 DEF CountFailedLogin
      <3> QED
        BY <3>1, GotoFields DEF At
    <2> QED
      BY <2>1, <2>2
  <1> QED
    BY <1>1, <1>2, UserFacts, BoundsTyped DEF EveryGuessCounts

LEMMA LockAccountCounts ==
  ASSUME TypeOK, EveryGuessCounts, NEW r \in Requests, LockAccount(r)
  PROVE  EveryGuessCounts'
  <1>1. CASE user.failed >= MaxFailed
    <2>0. /\ user' = [user EXCEPT !.failed = 0, !.lock = "on"]
          /\ history' = [history EXCEPT !.cleared = @ + user.failed, !.locks = @ + 1]
      BY <1>1 DEF LockAccount
    <2>3. user'.failed = 0
      BY <2>0, RowsTyped, LockSet
    <2>1. /\ history'.wrong = history.wrong
          /\ history'.cleared = history.cleared + user.failed
          /\ history'.locks = history.locks + 1
      BY <2>0, RowsTyped, UserFacts, LockNoted
    <2>2. (history.locks + 1) * MaxFailed = history.locks * MaxFailed + MaxFailed
      BY UserFacts, BoundsTyped
    <2> QED
      BY <1>1, <2>1, <2>2, <2>3, UserFacts, BoundsTyped DEF EveryGuessCounts
  <1>2. CASE ~(user.failed >= MaxFailed)
    <2>1. UNCHANGED <<user, history>>
      BY <1>2 DEF LockAccount
    <2> QED
      BY <1>2, <2>1 DEF EveryGuessCounts
  <1> QED
    BY <1>1, <1>2

\* The count cleared, by the right password or by a new one.
LEMMA ClearingCounts ==
  ASSUME TypeOK, RequestsOK, EveryGuessCounts, NEW r \in Requests,
         PasswordRight(r) \/ ResetPassword(r)
  PROVE  EveryGuessCounts'
  <1>1. ASSUME PasswordRight(r), UNCHANGED <<user, history>>
        PROVE  EveryGuessCounts'
    BY <1>1, LockersStay, CountFrame DEF SessionStep, PasswordRight
  <1>2. ASSUME PasswordRight(r),
               user' = [user EXCEPT !.failed = 0, !.lock = "none"],
               history' = [history EXCEPT !.cleared = @ + user.failed]
        PROVE  EveryGuessCounts'
    <2>1. user'.failed = 0
      BY <1>2, RowsTyped, LockSet
    <2>2. /\ history'.wrong = history.wrong /\ history'.locks = history.locks
          /\ history'.cleared = history.cleared + user.failed
      BY <1>2, RowsTyped, UserFacts, CountCleared
    <2> QED
      BY <2>1, <2>2, UserFacts, BoundsTyped DEF EveryGuessCounts
  <1>3. ASSUME ResetPassword(r)
        PROVE  EveryGuessCounts'
    <2>1. user'.failed = 0
      BY <1>3, RowsTyped, ResetSet DEF ResetPassword
    <2>2. /\ history'.wrong = history.wrong /\ history'.locks = history.locks
          /\ history'.cleared = history.cleared + user.failed
      <3>1. requests[r].id \in LinkIds
        BY <1>3 DEF ResetPassword, RequestsOK, RequestOK
      <3>2. history' = [history EXCEPT !.cleared = @ + user.failed,
                                       !.resets[requests[r].id] = @ + 1]
        BY <1>3 DEF ResetPassword
      <3>3. history \in HistoryRow /\ user.failed \in Nat
        BY RowsTyped, UserFacts
      <3>4. history'.wrong = history.wrong
        BY <3>1, <3>2, <3>3, ResetNoted
      <3>5. history'.locks = history.locks
        BY <3>1, <3>2, <3>3, ResetNoted
      <3>6. history'.cleared = history.cleared + user.failed
        BY <3>1, <3>2, <3>3, ResetNoted
      <3> QED
        BY <3>4, <3>5, <3>6
    <2> QED
      BY <2>1, <2>2, UserFacts, BoundsTyped DEF EveryGuessCounts
  <1> QED
    BY <1>1, <1>2, <1>3 DEF PasswordRight

LEMMA DeathCounts ==
  ASSUME TypeOK, EveryGuessCounts, NEW r \in Requests, Die(r)
  PROVE  EveryGuessCounts'
  <1>1. PICK b \in BOOLEAN : b <=> requests[r].at \in {"lock", "forget"}
    OBVIOUS
  <1>2. history' = [history EXCEPT !.died = @ \/ b]
    BY <1>1 DEF Die
  <1>0. history \in HistoryRow
    BY RowsTyped
  <1>3. /\ history'.wrong = history.wrong /\ history'.cleared = history.cleared
        /\ history'.locks = history.locks /\ (history'.died <=> history.died \/ b)
    <2>2. history'.wrong = history.wrong
      BY <1>0, <1>2, DeathNoted
    <2>3. history'.cleared = history.cleared
      BY <1>0, <1>2, DeathNoted
    <2>4. history'.locks = history.locks
      BY <1>0, <1>2, DeathNoted
    <2>5. history'.died <=> history.died \/ b
      BY <1>0, <1>2, DeathNoted
    <2> QED
      BY <2>2, <2>3, <2>4, <2>5
  <1>4. user' = user
    BY DEF Die
  <1>5. CASE b
    BY <1>3, <1>4, <1>5 DEF EveryGuessCounts
  <1>6. CASE ~b
    <2>1. \A q \in Requests : requests[q].at = "lock" => requests'[q].at = "lock"
      BY <1>1, <1>6, LockersStay
    <2> QED
      BY <1>3, <1>4, <1>6, <2>1, UserFacts DEF EveryGuessCounts, At
  <1> QED
    BY <1>5, <1>6

\* What the other steps do to the count and to the part of history about it.
CountSame ==
  /\ user'.failed = user.failed
  /\ history'.wrong = history.wrong /\ history'.cleared = history.cleared
  /\ history'.locks = history.locks /\ history'.died = history.died

LEMMA CodesCount ==
  ASSUME TypeOK, RequestsOK, NEW r \in Requests, CountGuess(r) \/ ClaimCode(r)
  PROVE  CountSame
  <1>1. requests[r].id \in ChallengeIds
    BY DEF CountGuess, ClaimCode, RequestsOK, RequestOK
  <1>2. user' = user
    BY DEF CountGuess, ClaimCode
  <1>3. CASE history' = history
    BY <1>2, <1>3 DEF CountSame
  <1>4. CASE history' = [history EXCEPT !.answered[requests[r].id] = @ + 1]
    BY <1>1, <1>2, <1>4, RowsTyped, AnswerNoted DEF CountSame
  <1>5. CASE history' = [history EXCEPT !.answered[requests[r].id] = @ + 1,
                                        !.claimed[requests[r].id] = @ + 1]
    <2>1. history \in HistoryRow
      BY RowsTyped
    <2>2. history'.wrong = history.wrong
      BY <1>1, <1>5, <2>1, ClaimNoted
    <2>3. history'.cleared = history.cleared
      BY <1>1, <1>5, <2>1, ClaimNoted
    <2>4. history'.locks = history.locks
      BY <1>1, <1>5, <2>1, ClaimNoted
    <2>5. history'.died = history.died
      BY <1>1, <1>5, <2>1, ClaimNoted
    <2> QED
      BY <1>2, <2>2, <2>3, <2>4, <2>5 DEF CountSame
  <1> QED
    BY <1>3, <1>4, <1>5 DEF CountGuess, ClaimCode

LEMMA SettingsCount ==
  ASSUME TypeOK, NEW r \in Requests, TurnOn(r) \/ TurnOff(r) \/ SaveProfile(r)
  PROVE  CountSame
  <1>1. ASSUME TurnOn(r) \/ TurnOff(r) PROVE CountSame
    BY <1>1, RowsTyped DEF TurnOn, TurnOff, UserRow, CountSame
  <1>2. ASSUME SaveProfile(r) PROVE CountSame
    <2>1. PICK n \in Nat : n = user.password + 1
      BY UserFacts
    <2>2. user' = [user EXCEPT !.password = n]
      BY <1>2, <2>1 DEF SaveProfile
    <2>3. user'.failed = user.failed
      BY <2>2, RowsTyped, PasswordSet
    <2> QED
      BY <1>2, <2>3 DEF SaveProfile, CountSame
  <1> QED
    BY <1>1, <1>2

LEMMA LapseCounts ==
  ASSUME TypeOK, LockLapses
  PROVE  CountSame
  BY RowsTyped DEF LockLapses, UserRow, CountSame

LEMMA CountsStep ==
  ASSUME TypeOK, RequestsOK, EveryGuessCounts, [Next]_vars
  PROVE  EveryGuessCounts'
  <1>1. ASSUME NEW r \in Requests, SessionStep(r)
        PROVE  EveryGuessCounts'
    <2>1. CASE CountFailedLogin(r) \/ LockAccount(r) \/ PasswordRight(r)
      BY <2>1, CountFailedLoginCounts, LockAccountCounts, ClearingCounts
    <2>2. CASE LoginLoad(r) \/ SignIn(r) \/ RefreshLoad(r) \/ ReuseDetected(r) \/ Rotate(r)
      <3>1. UNCHANGED <<user, history>> /\ requests[r].at # "lock"
        BY <2>2 DEF LoginLoad, SignIn, RefreshLoad, ReuseDetected, Rotate, Arrives
      <3> QED
        BY <1>1, <3>1, LockersStay, CountFrame
    <2> QED
      BY <1>1, <2>1, <2>2 DEF SessionStep
  <1>2. ASSUME NEW r \in Requests, PasswordStep(r)
        PROVE  EveryGuessCounts'
    <2>1. CASE ResetPassword(r)
      BY <2>1, ClearingCounts
    <2>2. CASE SaveProfile(r)
      <3>1. requests[r].at # "lock"
        BY <2>2 DEF SaveProfile
      <3> QED
        BY <1>2, <2>2, <3>1, LockersStay, SettingsCount, CountFrame DEF CountSame
    <2>3. CASE \/ ForgotLoad(r) \/ IssueLink(r) \/ ResetLoad(r) \/ LinkRefused(r)
               \/ ProfileLoad(r) \/ ForgetDevices(r)
      <3>1. UNCHANGED <<user, history>> /\ requests[r].at # "lock"
        BY <2>3 DEF ForgotLoad, IssueLink, ResetLoad, LinkRefused, ProfileLoad, ForgetDevices,
                    Arrives
      <3> QED
        BY <1>2, <3>1, LockersStay, CountFrame
    <2> QED
      BY <1>2, <2>1, <2>2, <2>3 DEF PasswordStep
  <1>3. ASSUME NEW r \in Requests, CodeStep(r)
        PROVE  EveryGuessCounts'
    <2>1. CASE CountGuess(r) \/ ClaimCode(r) \/ TurnOn(r) \/ TurnOff(r)
      <3>1. requests[r].at # "lock"
        BY <2>1 DEF CountGuess, ClaimCode, TurnOn, TurnOff
      <3> QED
        BY <1>3, <2>1, <3>1, LockersStay, CodesCount, SettingsCount, CountFrame DEF CountSame
    <2>2. CASE \/ TrustedEntry(r) \/ Touch(r) \/ StartLogin(r) \/ VerifyLoad(r) \/ Trust(r)
               \/ ResendLoad(r) \/ Resend(r) \/ SettingsLoad(r) \/ Cooldown(r)
               \/ StartSettings(r) \/ ConfirmLoad(r) \/ Latest(r)
      <3>1. UNCHANGED <<user, history>> /\ requests[r].at # "lock"
        BY <2>2 DEF TrustedEntry, Touch, StartLogin, VerifyLoad, Trust, ResendLoad, Resend,
                    SettingsLoad, Cooldown, StartSettings, ConfirmLoad, Latest, Arrives
      <3> QED
        BY <1>3, <3>1, LockersStay, CountFrame
    <2> QED
      BY <1>3, <2>1, <2>2 DEF CodeStep
  <1>4. ASSUME \/ UNCHANGED vars
               \/ \E t \in SessionIds : Logout(t)
               \/ \E d \in DeviceIds : RevokeDevice(d)
               \/ RevokeDevices
               \/ Lapse
        PROVE  EveryGuessCounts'
    <2>1. CASE LockLapses
      BY <2>1, LapseCounts, CountFrame DEF LockLapses, CountSame
    <2>2. CASE UNCHANGED <<user, history, requests>>
      BY <2>2, CountFrame
    <2> QED
      BY <1>4, <2>1, <2>2 DEF vars, Logout, RevokeDevice, RevokeDevices, Lapse, SessionLapses,
                              LinkAges, ChallengeAges, DeviceLapses
  <1> QED
    BY <1>1, <1>2, <1>3, <1>4, DeathCounts DEF Next

-----------------------------------------------------------------------------
(* Sessions.                                                               *)

\* A session just written: opened with the password in force, or overtaken.
LEMMA WrittenWithProof ==
  ASSUME TypeOK, NEW r \in Requests, CarriesItsProof(r)
  PROVE  Overtaken(r) \/ requests[r].proof = user.password
  BY DEF CarriesItsProof, Overtaken

\* Sessions that only end, or lapse.
Fewer ==
  \A t \in SessionIds :
    /\ sessions'[t].live => sessions[t].live
    /\ sessions'[t].live => /\ sessions'[t].proof = sessions[t].proof
                            /\ sessions'[t].late = sessions[t].late
    /\ sessions'[t].made = sessions[t].made
    /\ sessions'[t].from = sessions[t].from
    /\ sessions'[t].raced = sessions[t].raced

LEMMA FewerKeeps ==
  ASSUME TypeOK, SessionsOK, Fewer, user'.password = user.password
  PROVE  SessionsOK'
  <1>1. \A t \in SessionIds : sessions[t].from \in {0} \union SessionIds
    BY DEF TypeOK, SessionRow
  <1> QED
    BY <1>1 DEF SessionsOK, Fewer

LEMMA NoneLeft ==
  ASSUME TypeOK, SessionsOK, sessions' = AllRevoked
  PROVE  SessionsOK'
  <1>1. \A t \in SessionIds : sessions[t].from \in {0} \union SessionIds
    BY DEF TypeOK, SessionRow
  <1> QED
    BY <1>1, RevokedTable DEF SessionsOK

LEMMA SignInKeepsSessions ==
  ASSUME TypeOK, RequestsOK, SessionsOK, NEW r \in Requests, SignIn(r)
  PROVE  SessionsOK'
  <1>1. PICK n \in SessionIds, new \in SessionRow :
          /\ new = NewSession(r) /\ ~sessions[n].made
          /\ sessions' = [sessions EXCEPT ![n] = new]
    BY NewSessionTyped DEF SignIn, IsNext
  <1>2. /\ new.proof = requests[r].proof /\ (new.late <=> Overtaken(r)) /\ new.from = 0
    BY <1>1 DEF NewSession
  <1>3. new.late \/ new.proof = user.password
    BY <1>2, WrittenWithProof DEF SignIn, RequestsOK, RequestOK, Carrying
  <1>4. user' = user
    BY DEF SignIn
  <1>5. \A t \in SessionIds : /\ sessions[t].from \in {0} \union SessionIds
                              /\ sessions'[t] = IF t = n THEN new ELSE sessions[t]
    BY <1>1 DEF TypeOK, SessionRow
  <1> QED
    BY <1>1, <1>2, <1>3, <1>4, <1>5 DEF SessionsOK

LEMMA RotateKeepsSessions ==
  ASSUME TypeOK, RequestsOK, SessionsOK, NEW r \in Requests, Rotate(r)
  PROVE  SessionsOK'
  <1> DEFINE t == requests[r].id
  <1>1. PICK n \in SessionIds :
          /\ IsNext(sessions, n)
          /\ sessions'[n].made /\ sessions'[n].live /\ sessions'[n].from = t
          /\ sessions'[n].proof = requests[r].proof
          /\ sessions'[n].late <=> Overtaken(r)
          /\ sessions'[n].raced <=> requests[r].live /\ ~sessions[t].live
          /\ \A s \in SessionIds \ {n} :
               sessions'[s] = IF s = t THEN [sessions[s] EXCEPT !.live = FALSE]
                                       ELSE sessions[s]
    BY RotateSessions
  <1>2. t \in SessionIds /\ sessions[t].made /\ CarriesItsProof(r) /\ ~sessions[n].made
    BY <1>1 DEF Rotate, RequestsOK, RequestOK, Carrying, IsNext
  <1>3. sessions'[n].late \/ sessions'[n].proof = user.password
    BY <1>1, <1>2, WrittenWithProof
  <1>4. user' = user
    BY DEF Rotate
  <1>5. \A s \in SessionIds : sessions[s] \in SessionRow
    BY DEF TypeOK
  <1>6. \A s \in SessionIds \ {n} :
          /\ sessions'[s].live => sessions[s].live /\ s # t
          /\ sessions'[s].made = sessions[s].made
          /\ sessions'[s].from = sessions[s].from
          /\ sessions'[s].raced = sessions[s].raced
          /\ sessions'[s].proof = sessions[s].proof
          /\ sessions'[s].late = sessions[s].late
    <2> SUFFICES ASSUME NEW s \in SessionIds \ {n}
                 PROVE  /\ sessions'[s].live => sessions[s].live /\ s # t
                        /\ sessions'[s].made = sessions[s].made
                        /\ sessions'[s].from = sessions[s].from
                        /\ sessions'[s].raced = sessions[s].raced
                        /\ sessions'[s].proof = sessions[s].proof
                        /\ sessions'[s].late = sessions[s].late
      OBVIOUS
    <2>1. PICK row \in SessionRow : row = sessions[s]
      BY <1>5
    <2>2. CASE s = t
      <3>1. sessions'[s] = [row EXCEPT !.live = FALSE]
        BY <1>1, <2>1, <2>2
      <3> QED
        BY <2>1, <3>1 DEF SessionRow
    <2>3. CASE s # t
      BY <1>1, <2>3
    <2> QED
      BY <2>2, <2>3
  <1>7. ASSUME NEW s \in SessionIds, sessions'[s].live, ~sessions'[s].late
        PROVE  sessions'[s].proof = user'.password
    BY <1>3, <1>4, <1>6, <1>7 DEF SessionsOK
  <1>8. ASSUME NEW s \in SessionIds, sessions'[s].from # 0
        PROVE  /\ sessions'[sessions'[s].from].made
               /\ ~sessions'[s].raced => ~sessions'[sessions'[s].from].live
    <2>1. CASE s = n
      BY <1>1, <1>2, <1>6, <2>1
    <2>2. CASE s # n
      <3>1. sessions[s].from \in SessionIds /\ sessions'[s].from = sessions[s].from
        BY <1>5, <1>6, <1>8, <2>2 DEF SessionRow
      <3>2. /\ sessions[sessions[s].from].made
            /\ ~sessions[s].raced => ~sessions[sessions[s].from].live
        BY <1>8, <3>1 DEF SessionsOK
      <3>3. sessions[s].from # n
        BY <1>2, <3>2
      <3> QED
        BY <1>6, <2>2, <3>1, <3>2, <3>3
    <2> QED
      BY <2>1, <2>2
  <1> QED
    BY <1>7, <1>8 DEF SessionsOK

LEMMA ProfileKeepsSessions ==
  ASSUME TypeOK, SessionsOK, NEW r \in Requests, SaveProfile(r)
  PROVE  SessionsOK'
  <1>1. user'.password = user.password + 1
    <2>1. PICK n \in Nat : n = user.password + 1
      BY UserFacts
    <2>2. user' = [user EXCEPT !.password = n]
      BY <2>1 DEF SaveProfile
    <2> QED
      BY <2>1, <2>2, RowsTyped, PasswordSet
  <1>2. \A t \in SessionIds : sessions[t].from \in {0} \union SessionIds
    BY DEF TypeOK, SessionRow
  <1> QED
    BY <1>1, <1>2, ProfileSessions DEF SessionsOK

LEMMA SessionsStep ==
  ASSUME TypeOK, RequestsOK, SessionsOK, [Next]_vars
  PROVE  SessionsOK'
  <1>1. CASE UNCHANGED sessions /\ user'.password = user.password
    <2>1. Fewer
      BY <1>1 DEF Fewer
    <2> QED
      BY <1>1, <2>1, FewerKeeps
  <1>2. ASSUME NEW r \in Requests, SignIn(r) \/ Rotate(r) \/ SaveProfile(r)
        PROVE  SessionsOK'
    BY <1>2, SignInKeepsSessions, RotateKeepsSessions, ProfileKeepsSessions
  <1>3. ASSUME NEW r \in Requests, ReuseDetected(r) \/ ResetPassword(r)
        PROVE  SessionsOK'
    BY <1>3, NoneLeft DEF ReuseDetected, ResetPassword
  <1>4. ASSUME NEW t \in SessionIds, Logout(t) \/ SessionLapses(t)
        PROVE  SessionsOK'
    <2>1. sessions \in [SessionIds -> SessionRow]
      BY DEF TypeOK
    <2>2. Fewer /\ user' = user
      BY <1>4, <2>1 DEF Logout, SessionLapses, Fewer, SessionRow
    <2> QED
      BY <2>2, FewerKeeps
  <1> QED
    BY <1>1, <1>2, <1>3, <1>4, SessionWriters, PasswordWriters

\* A token replaced while it was still live has no other successor that was not
\* raced.
LEMMA RotateForks ==
  ASSUME TypeOK, RequestsOK, SessionsOK, ForksOnlyInRaces, NEW r \in Requests, Rotate(r)
  PROVE  ForksOnlyInRaces'
  <1> DEFINE t == requests[r].id
  <1>1. PICK n \in SessionIds :
          /\ sessions'[n].from = t
          /\ sessions'[n].raced <=> requests[r].live /\ ~sessions[t].live
          /\ \A s \in SessionIds \ {n} :
               sessions'[s] = IF s = t THEN [sessions[s] EXCEPT !.live = FALSE]
                                       ELSE sessions[s]
    BY RotateSessions
  <1>2. requests[r].live /\ t \in SessionIds
    BY DEF Rotate, RequestsOK, RequestOK
  <1>3. \A s \in SessionIds \ {n} : /\ sessions'[s].from = sessions[s].from
                                    /\ sessions'[s].raced = sessions[s].raced
    <2> SUFFICES ASSUME NEW s \in SessionIds \ {n}
                 PROVE  /\ sessions'[s].from = sessions[s].from
                        /\ sessions'[s].raced = sessions[s].raced
      OBVIOUS
    <2>1. PICK row \in SessionRow : row = sessions[s]
      BY DEF TypeOK
    <2>2. CASE s = t
      <3>1. sessions'[s] = [row EXCEPT !.live = FALSE]
        BY <1>1, <2>1, <2>2
      <3> QED
        BY <2>1, <3>1 DEF SessionRow
    <2>3. CASE s # t
      BY <1>1, <2>3
    <2> QED
      BY <2>2, <2>3
  <1>4. ASSUME ~sessions'[n].raced,
               NEW s \in SessionIds \ {n}, sessions[s].from = t, sessions[s].from # 0
        PROVE  sessions[s].raced
    BY <1>1, <1>2, <1>4 DEF SessionsOK
  <1> QED
    BY <1>1, <1>3, <1>4 DEF ForksOnlyInRaces

LEMMA ForksStep ==
  ASSUME TypeOK, RequestsOK, SessionsOK, ForksOnlyInRaces, [Next]_vars
  PROVE  ForksOnlyInRaces'
  <1> DEFINE SameFamily == \A t \in SessionIds : /\ sessions'[t].from = sessions[t].from
                                                 /\ sessions'[t].raced = sessions[t].raced
  <1>0. SameFamily => ForksOnlyInRaces'
    BY DEF ForksOnlyInRaces
  <1>1. CASE UNCHANGED sessions
    BY <1>0, <1>1
  <1>2. ASSUME NEW r \in Requests, SignIn(r)
        PROVE  ForksOnlyInRaces'
    <2>1. PICK n \in SessionIds :
            sessions' = [sessions EXCEPT ![n] = NewSession(r)]
      BY <1>2 DEF SignIn
    <2>2. \A s \in SessionIds : sessions'[s] = IF s = n THEN NewSession(r) ELSE sessions[s]
      BY <2>1 DEF TypeOK
    <2>3. NewSession(r).from = 0
      BY DEF NewSession
    <2> QED
      BY <2>2, <2>3 DEF ForksOnlyInRaces
  <1>3. ASSUME NEW r \in Requests, ReuseDetected(r) \/ ResetPassword(r)
        PROVE  ForksOnlyInRaces'
    BY <1>0, <1>3, RevokedTable DEF ReuseDetected, ResetPassword
  <1>4. ASSUME NEW r \in Requests, Rotate(r)
        PROVE  ForksOnlyInRaces'
    BY <1>4, RotateForks
  <1>5. ASSUME NEW r \in Requests, SaveProfile(r)
        PROVE  ForksOnlyInRaces'
    BY <1>0, <1>5, ProfileSessions
  <1>6. ASSUME NEW t \in SessionIds, Logout(t) \/ SessionLapses(t)
        PROVE  ForksOnlyInRaces'
    <2>1. sessions \in [SessionIds -> SessionRow]
      BY DEF TypeOK
    <2>2. SameFamily
      BY <1>6, <2>1 DEF Logout, SessionLapses, SessionRow
    <2> QED
      BY <1>0, <2>2
  <1> QED
    BY <1>1, <1>2, <1>3, <1>4, <1>5, <1>6, SessionWriters

-----------------------------------------------------------------------------
(* Links.                                                                  *)

LEMMA LinksStep ==
  ASSUME TypeOK, RequestsOK, LinksOK, [Next]_vars
  PROVE  LinksOK'
  <1> DEFINE Kept == \A l \in LinkIds : links[l].made /\ links[l].used =>
                                         links'[l].made /\ links'[l].used
  <1>1. Kept
    <2>1. CASE UNCHANGED links
      BY <2>1
    <2>2. ASSUME NEW r \in Requests, IssueLink(r) \/ ResetPassword(r)
          PROVE  Kept
      BY <2>2, LinkTables DEF IssueLink, ResetPassword, IsNext
    <2>3. ASSUME NEW l \in LinkIds, LinkAges(l)
          PROVE  Kept
      BY <2>3 DEF LinkAges, TypeOK, LinkRow
    <2> QED
      BY <2>1, <2>2, <2>3, LinkWriters
  <1>2. CASE history'.resets = history.resets
    BY <1>1, <1>2 DEF LinksOK
  <1>3. ASSUME NEW r \in Requests, ResetPassword(r)
        PROVE  LinksOK'
    <2> DEFINE l == requests[r].id
    <2>1. l \in LinkIds /\ links[l].made /\ ~links[l].used
      BY <1>3 DEF ResetPassword, RequestsOK, RequestOK
    <2>2. history' = [history EXCEPT !.cleared = @ + user.failed, !.resets[l] = @ + 1]
      BY <1>3 DEF ResetPassword
    <2>3. \A m \in LinkIds :
            history'.resets[m] = IF m = l THEN history.resets[m] + 1 ELSE history.resets[m]
      BY <2>1, <2>2, RowsTyped, UserFacts, ResetNoted
    <2>4. history.resets[l] = 0
      BY <2>1 DEF LinksOK
    <2>5. links'[l].made /\ links'[l].used
      BY <1>3, <2>1, LinkTables DEF ResetPassword
    <2> QED
      BY <1>1, <2>1, <2>3, <2>4, <2>5 DEF LinksOK
  <1> QED
    BY <1>2, <1>3, ResetWriters

-----------------------------------------------------------------------------
(* Challenges.                                                             *)

LEMMA ChallengesFrame ==
  ASSUME ChallengesOK, history'.answered = history.answered, history'.claimed = history.claimed,
         \A c \in ChallengeIds : SameButClock(c)
  PROVE  ChallengesOK'
  BY DEF ChallengesOK, ChallengeOK, SameButClock

LEMMA StartKeepsChallenges ==
  ASSUME TypeOK, ChallengesOK, NEW r \in Requests, StartLogin(r) \/ StartSettings(r)
  PROVE  ChallengesOK'
  <1>1. PICK purpose \in Purposes : Start(r, purpose)
    BY DEF StartLogin, StartSettings, TypeOK, RequestRow, Purposes
  <1>2. PICK n \in ChallengeIds :
          /\ ~challenges[n].made
          /\ challenges'[n].made /\ challenges'[n].attempts = 0
          /\ \A c \in ChallengeIds \ {n} : challenges'[c] = Closed(purpose)[c]
    BY <1>1, StartTable DEF IsNext
  <1>3. history' = history
    BY DEF StartLogin, StartSettings
  <1>4. \A c \in ChallengeIds \ {n} :
          /\ challenges'[c].open => challenges[c].open
          /\ challenges'[c].made = challenges[c].made
          /\ challenges'[c].attempts = challenges[c].attempts
    BY <1>2, ClosedTable
  <1> SUFFICES ASSUME NEW m \in ChallengeIds PROVE ChallengeOK(m)'
    BY DEF ChallengesOK
  <1>5. ChallengeOK(m)
    BY DEF ChallengesOK
  <1>6. CASE m = n
    BY <1>2, <1>3, <1>5, <1>6, BoundsTyped DEF ChallengeOK
  <1>7. CASE m # n
    BY <1>3, <1>4, <1>5, <1>7 DEF ChallengeOK
  <1> QED
    BY <1>6, <1>7

LEMMA GuessKeepsChallenges ==
  ASSUME TypeOK, RequestsOK, ChallengesOK, NEW r \in Requests, CountGuess(r)
  PROVE  ChallengesOK'
  <1>0. /\ requests[r].id \in ChallengeIds /\ challenges[requests[r].id].made
        /\ history \in HistoryRow
    BY RowsTyped DEF CountGuess, RequestsOK, RequestOK
  <1>1. PICK c \in ChallengeIds : c = requests[r].id /\ challenges[c].made
    BY <1>0
  <1>2. CASE Guessable(c)
    <2>1. /\ challenges' = [challenges EXCEPT ![c].attempts = @ + 1]
          /\ history' = [history EXCEPT !.answered[c] = @ + 1]
      BY <1>1, <1>2 DEF CountGuess
    <2>2. /\ \A m \in ChallengeIds \ {c} : challenges'[m] = challenges[m]
          /\ challenges'[c].attempts = challenges[c].attempts + 1
          /\ challenges'[c].open = challenges[c].open
          /\ challenges'[c].made = challenges[c].made
      BY <1>1, <2>1, AttemptTable
    <2>3. \A m \in ChallengeIds :
            history'.answered[m] = IF m = c THEN history.answered[m] + 1 ELSE history.answered[m]
      BY <1>0, <2>1, AnswerNoted
    <2>4. history'.claimed = history.claimed
      BY <1>0, <2>1, AnswerNoted
    <2>5. challenges[c].attempts \in Nat /\ history.claimed[c] \in Nat
      BY DEF TypeOK, ChallengeRow, HistoryRow
    <2> SUFFICES ASSUME NEW m \in ChallengeIds PROVE ChallengeOK(m)'
      BY DEF ChallengesOK
    <2>6. ChallengeOK(m)
      BY DEF ChallengesOK
    <2>7. CASE m = c
      <3>1. /\ history'.answered[c] = history.answered[c] + 1
            /\ history'.claimed[c] = history.claimed[c]
        BY <2>3, <2>4
      <3>2. ChallengeOK(c) /\ challenges[c].open /\ challenges[c].attempts < MaxAttempts
        BY <1>2 DEF ChallengesOK, Guessable
      <3>3. ChallengeOK(c)'
        BY <1>1, <2>2, <2>4, <2>5, <3>1, <3>2, BoundsTyped DEF ChallengeOK
      <3> QED
        BY <2>7, <3>3
    <2>8. CASE m # c
      BY <2>2, <2>3, <2>4, <2>6, <2>8 DEF ChallengeOK
    <2> QED
      BY <2>7, <2>8
  <1>3. CASE ~Guessable(c)
    BY <1>1, <1>3, ChallengesFrame DEF CountGuess, SameButClock
  <1> QED
    BY <1>2, <1>3

LEMMA ClaimKeepsChallenges ==
  ASSUME TypeOK, RequestsOK, ChallengesOK, NEW r \in Requests, ClaimCode(r)
  PROVE  ChallengesOK'
  <1>0. /\ requests[r].id \in ChallengeIds /\ challenges[requests[r].id].made
        /\ history \in HistoryRow
    BY RowsTyped DEF ClaimCode, RequestsOK, RequestOK
  <1>1. PICK c \in ChallengeIds : c = requests[r].id /\ challenges[c].made
    BY <1>0
  <1>2. CASE Guessable(c)
    <2>1. /\ challenges' = [challenges EXCEPT ![c].open = FALSE]
          /\ history' = [history EXCEPT !.answered[c] = @ + 1, !.claimed[c] = @ + 1]
      BY <1>1, <1>2 DEF ClaimCode
    <2>2. /\ \A m \in ChallengeIds \ {c} : challenges'[m] = challenges[m]
          /\ ~challenges'[c].open
          /\ challenges'[c].attempts = challenges[c].attempts
          /\ challenges'[c].made = challenges[c].made
      BY <1>1, <2>1, ClaimTable
    <2>3. \A m \in ChallengeIds :
            /\ history'.answered[m] = IF m = c THEN history.answered[m] + 1 ELSE history.answered[m]
            /\ history'.claimed[m] = IF m = c THEN history.claimed[m] + 1 ELSE history.claimed[m]
      BY <1>0, <2>1, ClaimNoted
    <2>4. challenges[c].attempts \in Nat /\ history.claimed[c] \in Nat
      BY DEF TypeOK, ChallengeRow, HistoryRow
    <2>5. history.claimed[c] = 0 /\ history.answered[c] = challenges[c].attempts
      BY <1>1, <1>2, <2>4 DEF ChallengesOK, ChallengeOK, Guessable
    <2> SUFFICES ASSUME NEW m \in ChallengeIds PROVE ChallengeOK(m)'
      BY DEF ChallengesOK
    <2>6. ChallengeOK(m)
      BY DEF ChallengesOK
    <2>7. CASE m = c
      <3>1. /\ history'.answered[c] = history.answered[c] + 1
            /\ history'.claimed[c] = history.claimed[c] + 1
        BY <2>3
      <3>2. ChallengeOK(c) /\ challenges[c].open /\ challenges[c].attempts < MaxAttempts
        BY <1>2 DEF ChallengesOK, Guessable
      <3>3. ChallengeOK(c)'
        BY <1>1, <2>2, <2>4, <2>5, <3>1, <3>2, BoundsTyped DEF ChallengeOK
      <3> QED
        BY <2>7, <3>3
    <2>8. CASE m # c
      BY <2>2, <2>3, <2>4, <2>6, <2>8 DEF ChallengeOK
    <2> QED
      BY <2>7, <2>8
  <1>3. CASE ~Guessable(c)
    BY <1>1, <1>3, ChallengesFrame DEF ClaimCode, SameButClock
  <1> QED
    BY <1>2, <1>3

LEMMA ChallengesStep ==
  ASSUME TypeOK, RequestsOK, ChallengesOK, [Next]_vars
  PROVE  ChallengesOK'
  <1>1. ASSUME NEW r \in Requests,
               StartLogin(r) \/ StartSettings(r) \/ CountGuess(r) \/ ClaimCode(r)
        PROVE  ChallengesOK'
    BY <1>1, StartKeepsChallenges, GuessKeepsChallenges, ClaimKeepsChallenges
  <1>2. ASSUME NEW r \in Requests, Resend(r)
        PROVE  ChallengesOK'
    <2>1. requests[r].id \in ChallengeIds /\ history' = history
      BY <1>2 DEF Resend, RequestsOK, RequestOK
    <2> QED
      BY <1>2, <2>1, ClockTable, ChallengesFrame DEF Resend
  <1>3. ASSUME NEW c \in ChallengeIds, ChallengeAges(c)
        PROVE  ChallengesOK'
    BY <1>3, ClockTable, ChallengesFrame DEF ChallengeAges
  <1>4. CASE UNCHANGED challenges
    <2>1. \A c \in ChallengeIds : SameButClock(c)
      BY <1>4 DEF SameButClock
    <2>2. CASE UNCHANGED history
      BY <2>1, <2>2, ChallengesFrame
    <2>3. ASSUME NEW r \in Requests,
                 CountFailedLogin(r) \/ LockAccount(r) \/ PasswordRight(r) \/ Die(r)
          PROVE  ChallengesOK'
      BY <2>1, <2>3, SignInUses, ChallengesFrame DEF SameUses
    <2>4. ASSUME NEW r \in Requests, ResetPassword(r)
          PROVE  ChallengesOK'
      <3>1. requests[r].id \in LinkIds /\ history \in HistoryRow /\ user.failed \in Nat
        BY <2>4, RowsTyped, UserFacts DEF ResetPassword, RequestsOK, RequestOK
      <3>2. history' = [history EXCEPT !.cleared = @ + user.failed,
                                       !.resets[requests[r].id] = @ + 1]
        BY <2>4 DEF ResetPassword
      <3>3. history'.answered = history.answered
        BY <3>1, <3>2, ResetNoted
      <3>4. history'.claimed = history.claimed
        BY <3>1, <3>2, ResetNoted
      <3> QED
        BY <2>1, <3>3, <3>4, ChallengesFrame
    <2> QED
      BY <1>1, <2>2, <2>3, <2>4, HistoryWriters
  <1> QED
    BY <1>1, <1>2, <1>3, <1>4, ChallengeWriters

-----------------------------------------------------------------------------
(* Trusted devices.                                                        *)

LEMMA DiedStays ==
  ASSUME TypeOK, RequestsOK, [Next]_vars, history.died
  PROVE  history'.died
  <1>0. history \in HistoryRow /\ user.failed \in Nat
    BY RowsTyped, UserFacts
  <1>1. ASSUME NEW r \in Requests, CountFailedLogin(r) \/ LockAccount(r) \/ PasswordRight(r)
        PROVE  history'.died = history.died
    <2>1. CASE history' = history
      BY <2>1
    <2>2. CASE history' = [history EXCEPT !.wrong = @ + 1]
      BY <1>0, <2>2, WrongCounted
    <2>3. CASE history' = [history EXCEPT !.cleared = @ + user.failed]
      BY <1>0, <2>3, CountCleared
    <2>4. CASE history' = [history EXCEPT !.cleared = @ + user.failed, !.locks = @ + 1]
      BY <1>0, <2>4, LockNoted
    <2> QED
      BY <1>1, <2>1, <2>2, <2>3, <2>4 DEF CountFailedLogin, LockAccount, PasswordRight
  <1>2. ASSUME NEW r \in Requests, ResetPassword(r)
        PROVE  history'.died = history.died
    <2>1. requests[r].id \in LinkIds
      BY <1>2 DEF ResetPassword, RequestsOK, RequestOK
    <2>2. history' = [history EXCEPT !.cleared = @ + user.failed,
                                     !.resets[requests[r].id] = @ + 1]
      BY <1>2 DEF ResetPassword
    <2> QED
      BY <1>0, <2>1, <2>2, ResetNoted
  <1>3. ASSUME NEW r \in Requests, CountGuess(r) \/ ClaimCode(r)
        PROVE  history'.died = history.died
    BY <1>3, CodesCount DEF CountSame
  <1>4. ASSUME NEW r \in Requests, Die(r)
        PROVE  history'.died
    <2>1. PICK b \in BOOLEAN : b <=> requests[r].at \in {"lock", "forget"}
      OBVIOUS
    <2>2. history' = [history EXCEPT !.died = @ \/ b]
      BY <1>4, <2>1 DEF Die
    <2>3. history'.died <=> history.died \/ b
      BY <1>0, <2>2, DeathNoted
    <2> QED
      BY <2>3
  <1> QED
    BY <1>1, <1>2, <1>3, <1>4, HistoryWriters

\* A request about to forget the devices does so, unless it dies.
LEMMA ForgettersStay ==
  ASSUME TypeOK, [Next]_vars, At("forget")
  PROVE  At("forget")' \/ history'.died \/ \E r \in Requests : ForgetDevices(r)
  <1>1. PICK q \in Requests : requests[q].at = "forget"
    BY DEF At
  <1>2. CASE requests' = requests
    BY <1>1, <1>2 DEF At
  <1>3. ASSUME NEW r \in Requests, SessionStep(r) \/ PasswordStep(r) \/ CodeStep(r) \/ Die(r)
        PROVE  At("forget")' \/ history'.died \/ ForgetDevices(r)
    <2>1. CASE q # r
      BY <1>1, <1>3, <2>1, OthersWait DEF At
    <2>2. CASE q = r
      <3>1. ForgetDevices(r) \/ Die(r)
        BY <1>1, <1>3, <2>2
        DEF SessionStep, PasswordStep, CodeStep, LoginLoad, CountFailedLogin, LockAccount,
            PasswordRight, SignIn, RefreshLoad, ReuseDetected, Rotate, ForgotLoad, IssueLink,
            ResetLoad, ResetPassword, LinkRefused, ProfileLoad, SaveProfile, TrustedEntry, Touch,
            StartLogin, VerifyLoad, CountGuess, ClaimCode, Trust, ResendLoad, Resend, SettingsLoad,
            Cooldown, StartSettings, ConfirmLoad, Latest, TurnOn, TurnOff, Arrives
      <3>2. ASSUME Die(r) PROVE history'.died
        <4>1. history' = [history EXCEPT !.died = @ \/ TRUE]
          BY <1>1, <2>2, <3>2 DEF Die
        <4>2. history'.died <=> history.died \/ TRUE
          BY <4>1, RowsTyped, DeathNoted
        <4> QED
          BY <4>2
      <3> QED
        BY <3>1, <3>2
    <2> QED
      BY <2>1, <2>2
  <1> QED
    BY <1>2, <1>3, NobodyMoves DEF Next

\* A new password is set by a request that goes on to forget the devices.
LEMMA NewPasswordForgets ==
  ASSUME TypeOK, NEW r \in Requests, ResetPassword(r) \/ SaveProfile(r)
  PROVE  At("forget")'
  <1>1. Goto(r, "forget")
    BY DEF ResetPassword, SaveProfile
  <1> QED
    BY <1>1, GotoFields DEF At

LEMMA TrustKeepsDevices ==
  ASSUME TypeOK, RequestsOK, NEW r \in Requests, Trust(r)
  PROVE  \E n \in DeviceIds :
           /\ devices'[n].late \/ devices'[n].proof = user.password
           /\ \A d \in DeviceIds \ {n} : devices'[d] = devices[d]
  <1>0. PICK n \in DeviceIds : \E new :
          /\ new = [made |-> TRUE, live |-> TRUE, fresh |-> TRUE,
                    proof |-> requests[r].proof, late |-> Overtaken(r)]
          /\ devices' = [devices EXCEPT ![n] = new]
    BY DEF Trust
  <1>1. PICK new :
          /\ new = [made |-> TRUE, live |-> TRUE, fresh |-> TRUE,
                    proof |-> requests[r].proof, late |-> Overtaken(r)]
          /\ devices' = [devices EXCEPT ![n] = new]
    BY <1>0
  <1>2. devices'[n] = new /\ \A d \in DeviceIds \ {n} : devices'[d] = devices[d]
    BY <1>1 DEF TypeOK
  <1>3. Overtaken(r) \/ requests[r].proof = user.password
    BY WrittenWithProof DEF Trust, RequestsOK, RequestOK, Carrying
  <1>4. new.proof = requests[r].proof /\ (new.late <=> Overtaken(r))
    BY <1>1
  <1> QED
    BY <1>2, <1>3, <1>4

LEMMA DevicesStep ==
  ASSUME TypeOK, RequestsOK, DevicesOK, [Next]_vars
  PROVE  DevicesOK'
  <1>1. CASE history'.died \/ At("forget")'
    BY <1>1 DEF DevicesOK
  <1>2. ASSUME NEW r \in Requests, ForgetDevices(r)
        PROVE  DevicesOK'
    <2>1. \A d \in DeviceIds : ~devices'[d].live
      BY <1>2 DEF ForgetDevices, TypeOK, DeviceRow
    <2> QED
      BY <2>1 DEF DevicesOK
  <1>3. CASE ~At("forget") /\ ~history.died /\ user'.password = user.password
    <2>1. \A d \in DeviceIds :
            devices[d].live /\ ~devices[d].late => devices[d].proof = user.password
      BY <1>3 DEF DevicesOK
    <2>2. CASE UNCHANGED devices
      BY <1>3, <2>1, <2>2 DEF DevicesOK
    <2>3. ASSUME NEW r \in Requests, Trust(r)
          PROVE  DevicesOK'
      BY <1>3, <2>1, <2>3, TrustKeepsDevices DEF DevicesOK
    <2>4. ASSUME NEW d \in DeviceIds, RevokeDevice(d) \/ DeviceLapses(d)
          PROVE  DevicesOK'
      <3>1. \A e \in DeviceIds : /\ devices'[e].live => devices[e].live
                                 /\ devices'[e].proof = devices[e].proof
                                 /\ devices'[e].late = devices[e].late
        BY <2>4 DEF RevokeDevice, DeviceLapses, TypeOK, DeviceRow
      <3> QED
        BY <1>3, <2>1, <3>1 DEF DevicesOK
    <2>5. ASSUME RevokeDevices
          PROVE  DevicesOK'
      <3>1. \A d \in DeviceIds : ~devices'[d].live
        BY <2>5 DEF RevokeDevices, TypeOK, DeviceRow
      <3> QED
        BY <3>1 DEF DevicesOK
    <2> QED
      BY <1>2, <2>2, <2>3, <2>4, <2>5, DeviceWriters
  <1> QED
    BY <1>1, <1>2, <1>3, DiedStays, ForgettersStay, NewPasswordForgets, PasswordWriters

-----------------------------------------------------------------------------
(* The inductive invariant, and what it gives.                             *)

LEMMA IInvStep == IInv /\ [Next]_vars => IInv'
  BY TypeStep, CountsStep, RequestsStep, SessionsStep, ForksStep, DevicesStep, LinksStep,
     ChallengesStep
  DEF IInv

LEMMA Invariance == Spec => []IInv
  BY InitEstablishes, IInvStep, PTL DEF Spec

\* Every row of the account stays well formed (prisma/schema.prisma).
THEOREM Typing == Spec => []TypeOK
  <1>1. IInv => TypeOK
    BY DEF IInv
  <1> QED
    BY <1>1, Invariance, PTL

\* However many wrong passwords come in at once, each is counted or was cleared,
\* every lock costs MaxFailed of them, and a count at the limit has a request
\* about to lock (AuthService.countFailedLogin).
THEOREM NoGuessIsLost == Spec => []EveryGuessCounts
  <1>1. IInv => EveryGuessCounts
    BY DEF IInv
  <1> QED
    BY <1>1, Invariance, PTL

\* Whoever is signed in, or skips the code, with an older password was let in by
\* a request the change overtook (PasswordResetService.reset,
\* ProfileService.update, TrustedDevicesService.revokeAll).
THEOREM NewPasswordEndsOldSessions == Spec => []OldPasswordIsOut
  <1>1. IInv => OldPasswordIsOut
    BY DEF IInv, SessionsOK, DevicesOK, OldPasswordIsOut
  <1> QED
    BY <1>1, Invariance, PTL

\* A refresh token has two successors only when two requests raced with it
\* (AuthService.refresh).
THEOREM TokensRotate == Spec => []ForksOnlyInRaces
  <1>1. IInv => ForksOnlyInRaces
    BY DEF IInv
  <1> QED
    BY <1>1, Invariance, PTL

\* A reset link sets one password and a code is claimed once
\* (PasswordResetService.reset, TwoFactorService.check).
THEOREM SingleUse == Spec => []UsedOnce
  <1>1. IInv => UsedOnce
    BY DEF IInv, LinksOK, ChallengesOK, ChallengeOK, UsedOnce
  <1> QED
    BY <1>1, Invariance, PTL

\* A challenge never answers more than MaxAttempts guesses, however they
\* interleave with each other and with resends (TwoFactorService.check).
THEOREM GuessingIsBounded == Spec => []GuessesAreBounded
  <1>1. IInv => GuessesAreBounded
    <2> SUFFICES ASSUME IInv, NEW c \in ChallengeIds
                 PROVE  history.answered[c] <= MaxAttempts
      BY DEF GuessesAreBounded
    <2>1. challenges[c].attempts \in Nat /\ history.claimed[c] \in Nat
      BY DEF IInv, TypeOK, ChallengeRow, HistoryRow
    <2> QED
      BY <2>1, BoundsTyped DEF IInv, ChallengesOK, ChallengeOK
  <1> QED
    BY <1>1, Invariance, PTL
=============================================================================
