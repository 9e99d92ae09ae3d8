---------------------------- MODULE ScreensProofs ----------------------------
(***************************************************************************)
(* Five pages settle: the week's grid, the code step of signing in, the    *)
(* settings of two-factor, the forms of entry, and the pages of one        *)
(* invoice or account.                                                     *)
(*                                                                         *)
(* What a page shows at rest is what the server has.  In the middle of     *)
(* things it is not: an answer is on its way, and the invariant of each    *)
(* page says which one.  GInv, CInv, SecInv, FInv and DInv hold for any    *)
(* number of weeks, boxes, devices, figures and documents, however many    *)
(* requests are in flight and in whatever order they are answered or lost. *)
(* Each has a lemma that it holds at first, one that every step keeps it,  *)
(* and one that the page's types and what it settles to follow.            *)
(***************************************************************************)
EXTENDS WeekGrid, CodeStep, SecurityPage, EntryForms, DetailPages, FiniteSetTheorems, TLAPS

-----------------------------------------------------------------------------
\* WeekGrid.  The week on screen is the week the manager named, as the server has
\* it; until then the newest load, or an action that ends in one, is in flight.

GridPages == [week : Weeks \union {0}, day : DayChoices, locked : BOOLEAN]

GridRequests ==
  [of : Actions \union {"none", "page"}, kind : Actions \union {"none", "load"},
   at : {"idle", "sent", "done", "refused"}, id : Nat, week : Weeks \union {0},
   on : Weeks \union {0}, choice : DayChoices, page : GridPages]

GridTyped ==
  /\ planned \in [Weeks -> WeekPlan] /\ named \in Weeks
  /\ grid \in GridPages /\ (grid # NoWeek => grid.week \in Weeks)
  /\ newest \in Nat /\ requests \in [GridCalls -> GridRequests]
  /\ gridError \in BOOLEAN /\ outrun \in BOOLEAN
  /\ moves \in 0..MaxGridMoves /\ gridLost \in 0..MaxGridLost

\* What a request is about; a load is no newer than the newest.
GridRequestFits(r) ==
  /\ r.of = "none" <=> r.kind = "none"
  /\ r.kind # "none" => r.week \in Weeks /\ r.id <= newest
  /\ r.kind = "assign" => r.on \in Weeks
  /\ r.kind \in Actions => r.of = r.kind
  /\ r.kind = "load" /\ r.at = "done" => r.page.week \in Weeks
  /\ r.kind \in {"publish", "unlock"} /\ r.at = "done" => r.page.week \in Weeks

\* An action that the server did and the page has not heard of.
Answering(r) == r.kind \in Actions /\ r.at = "done"

\* An action that ends in a load.
EndsInLoad(r) == r.kind \in {"assign", "copy"} /\ r.at = "done"

NewestLoad(r) == r.kind = "load" /\ r.id = newest

\* While no action is outrun: the newest load is about the week named, and what it
\* or an action of that week answered with is what the server has, or another
\* answer is still to come.
GridRequestIsFresh(r) ==
  /\ NewestLoad(r) => r.week = named
  /\ NewestLoad(r) /\ r.at = "done" =>
       r.page = ViewOf(named) \/ \E c \in GridCalls : Answering(requests[c])
  /\ r.kind \in {"publish", "unlock"} /\ r.at = "done" /\ r.id = newest /\ r.week = named =>
       r.page = ViewOf(named) \/ \E c \in GridCalls : EndsInLoad(requests[c])

GridIsFresh ==
  \/ grid = ViewOf(named) \/ gridError
  \/ \E c \in GridCalls : NewestLoad(requests[c]) \/ Answering(requests[c])

GInv ==
  /\ GridTyped
  /\ \A c \in GridCalls : GridRequestFits(requests[c])
  /\ \A c, d \in GridCalls :
       requests[c].of \in Actions \ {"assign"} /\ requests[d].of \in Actions \ {"assign"} => c = d
  /\ ~outrun => GridIsFresh /\ \A c \in GridCalls : GridRequestIsFresh(requests[c])
-----------------------------------------------------------------------------
LEMMA GridParts ==
  /\ MaxGridMoves \in Nat /\ MaxGridLost \in Nat /\ GridCalls # {}
  /\ \A w \in Weeks : w \in Nat /\ w # 0
  /\ 0 \in 0..MaxGridMoves /\ 0 \in 0..MaxGridLost
  BY GridAssumption

LEMMA OneMove ==
  ASSUME GridTyped, Move
  PROVE  moves' \in 0..MaxGridMoves
  BY GridParts DEF Move, GridTyped

LEMMA NoRequestIsOne ==
  /\ NoWeek \in GridPages /\ NoWeek.week = 0 /\ NoRequest \in GridRequests
  /\ NoRequest.of = "none" /\ NoRequest.kind = "none" /\ NoRequest.at = "idle"
  BY DEF NoRequest, NoWeek, GridRequests, GridPages, DayChoices

\* One slot takes another request.
LEMMA SlotIsTaken ==
  ASSUME GridTyped, NEW c \in GridCalls, NEW q \in GridRequests,
         requests' = [requests EXCEPT ![c] = q]
  PROVE  /\ requests' \in [GridCalls -> GridRequests] /\ requests'[c] = q
         /\ \A d \in GridCalls : d # c => requests'[d] = requests[d]
  BY DEF GridTyped

LEMMA GridStarts ==
  ASSUME GridInit
  PROVE  GInv
  <1>1. PICK w \in Weeks : \A v \in Weeks : w >= v
    BY GridAssumption
  <1>2. named \in Weeks
    BY <1>1 DEF GridInit
  <1>3. PICK first \in GridCalls :
          requests = [c \in GridCalls |->
            IF c = first THEN [NoRequest EXCEPT !.of = "page", !.kind = "load", !.at = "sent",
                                                !.id = 1, !.week = named]
            ELSE NoRequest]
    <2>1. (CHOOSE c \in GridCalls : TRUE) \in GridCalls
      BY GridParts
    <2> QED
      BY <2>1 DEF GridInit
  <1>4. PICK q \in GridRequests :
          /\ q = [NoRequest EXCEPT !.of = "page", !.kind = "load", !.at = "sent",
                                   !.id = 1, !.week = named]
          /\ q.of = "page" /\ q.kind = "load" /\ q.at = "sent" /\ q.id = 1 /\ q.week = named
    <2> DEFINE q == [NoRequest EXCEPT !.of = "page", !.kind = "load", !.at = "sent",
                                      !.id = 1, !.week = named]
    <2>1. /\ q \in GridRequests
          /\ q.of = "page" /\ q.kind = "load" /\ q.at = "sent" /\ q.id = 1 /\ q.week = named
      BY <1>2, NoRequestIsOne DEF GridRequests
    <2> QED
      BY <2>1
  <1>5. \A c \in GridCalls : requests[c] = IF c = first THEN q ELSE NoRequest
    BY <1>3, <1>4
  <1>6. requests \in [GridCalls -> GridRequests]
    BY <1>3, <1>4, NoRequestIsOne
  <1>7. planned \in [Weeks -> WeekPlan]
    BY DEF GridInit, WeekPlan, DayChoices
  <1>8. grid = NoWeek /\ newest = 1 /\ ~gridError /\ ~outrun
    BY DEF GridInit
  <1>9. GridTyped
    BY <1>2, <1>6, <1>7, NoRequestIsOne, GridParts DEF GridTyped, GridInit
  <1>10. \A c \in GridCalls : GridRequestFits(requests[c])
    <2>1. GridRequestFits(NoRequest)
      BY NoRequestIsOne DEF GridRequestFits, Actions
    <2>2. GridRequestFits(q)
      BY <1>2, <1>4, <1>8 DEF GridRequestFits, Actions
    <2> QED
      BY <1>5, <2>1, <2>2
  <1>11. \A c \in GridCalls : requests[c].of \notin Actions
    BY <1>4, <1>5, NoRequestIsOne DEF Actions
  <1>12. GridIsFresh
    BY <1>4, <1>5, <1>8 DEF GridIsFresh, NewestLoad
  <1>13. \A c \in GridCalls : GridRequestIsFresh(requests[c])
    BY <1>4, <1>5, <1>11, NoRequestIsOne DEF GridRequestIsFresh, NewestLoad
  <1> QED
    BY <1>9, <1>10, <1>11, <1>12, <1>13 DEF GInv

LEMMA LoadIsOne ==
  ASSUME GridTyped, NEW of \in Actions \union {"page"}, NEW w \in Weeks
  PROVE  \E q \in GridRequests :
           /\ q = LoadOf(of, w) /\ q.of = of /\ q.kind = "load" /\ q.at = "sent"
           /\ q.id = newest + 1 /\ q.week = w
  <1>1. PICK n \in Nat : n = newest + 1
    BY DEF GridTyped
  <1> DEFINE q == [NoRequest EXCEPT !.of = of, !.kind = "load", !.at = "sent",
                                    !.id = n, !.week = w]
  <1>2. /\ q \in GridRequests /\ q.of = of /\ q.kind = "load" /\ q.at = "sent"
        /\ q.id = n /\ q.week = w
    BY NoRequestIsOne DEF GridRequests
  <1>3. q = LoadOf(of, w)
    BY <1>1 DEF LoadOf
  <1> HIDE DEF q
  <1> QED
    BY <1>1, <1>2, <1>3

LEMMA WeekIsChosen ==
  ASSUME GInv, NEW c \in GridCalls, NEW w \in Weeks, GoToWeek(c, w)
  PROVE  GInv'
  <1> USE DEF GInv
  <1>1. PICK q \in GridRequests :
          /\ q = LoadOf("page", w) /\ q.of = "page" /\ q.kind = "load" /\ q.at = "sent"
          /\ q.id = newest + 1 /\ q.week = w
    BY LoadIsOne
  <1>2. /\ UNCHANGED <<planned, grid, gridError, gridLost>> /\ named' = w /\ newest' = newest + 1
        /\ requests' = [requests EXCEPT ![c] = q] /\ outrun' = FALSE
        /\ requests[c].of = "none" /\ moves' \in 0..MaxGridMoves
    BY <1>1, OneMove DEF GoToWeek, Waiting
  <1>3. /\ requests' \in [GridCalls -> GridRequests] /\ requests'[c] = q
        /\ \A d \in GridCalls : d # c => requests'[d] = requests[d]
    BY <1>2, SlotIsTaken
  <1>4. newest \in Nat /\ newest' \in Nat
    BY <1>2 DEF GridTyped
  <1>5. GridTyped'
    BY <1>2, <1>3, <1>4 DEF GridTyped
  <1>6. ASSUME NEW d \in GridCalls PROVE GridRequestFits(requests[d])'
    <2>1. requests[d] \in GridRequests /\ requests[d].id \in Nat
      BY DEF GridTyped, GridRequests
    <2> QED
      BY <1>1, <1>2, <1>3, <1>4, <2>1 DEF GridRequestFits, Actions
  <1>7. \A d \in GridCalls : requests'[d].of \in Actions => requests'[d] = requests[d]
    BY <1>1, <1>3 DEF Actions
  <1>8. ASSUME ~outrun' PROVE GridIsFresh' /\ \A d \in GridCalls : GridRequestIsFresh(requests[d])'
    <2>1. GridIsFresh'
      BY <1>1, <1>2, <1>3 DEF GridIsFresh, NewestLoad
    <2>2. GridRequestIsFresh(q)'
      BY <1>1, <1>2 DEF GridRequestIsFresh
    <2>3. ASSUME NEW d \in GridCalls, d # c PROVE GridRequestIsFresh(requests[d])'
      <3>1. requests[d].id \in Nat /\ (requests[d].kind # "none" => requests[d].id <= newest)
        BY DEF GridTyped, GridRequests, GridRequestFits
      <3>2. requests[d].kind # "none" => requests[d].id # newest'
        BY <1>2, <1>4, <3>1
      <3> QED
        BY <1>3, <2>3, <3>2 DEF GridRequestIsFresh, NewestLoad
    <2> QED
      BY <1>3, <2>1, <2>2, <2>3
  <1> QED
    BY <1>5, <1>6, <1>7, <1>8

LEMMA ActionIsSent ==
  ASSUME GInv, NEW c \in GridCalls, NEW q \in GridRequests, NEW action \in Actions,
         requests[c].of = "none", requests' = [requests EXCEPT ![c] = q],
         q.of = action, q.kind = action, q.at = "sent", q.week = named,
         action = "assign" => q.on \in Weeks, q.id <= newest,
         action # "assign" => \A d \in GridCalls : requests[d].of \notin Actions \ {"assign"},
         UNCHANGED <<planned, named, grid, newest, gridError, outrun, gridLost>>,
         moves' \in 0..MaxGridMoves
  PROVE  GInv'
  <1> USE DEF GInv
  <1>1. /\ requests' \in [GridCalls -> GridRequests] /\ requests'[c] = q
        /\ \A d \in GridCalls : d # c => requests'[d] = requests[d]
    BY SlotIsTaken
  <1>2. GridTyped'
    BY <1>1 DEF GridTyped
  <1>3. requests[c].kind = "none"
    BY DEF GridRequestFits
  <1>4. GridRequestFits(q)'
    BY DEF GridRequestFits, Actions, GridTyped
  <1>5. \A d \in GridCalls : GridRequestFits(requests[d])'
    BY <1>1, <1>4 DEF GridRequestFits
  <1>6. \A d, e \in GridCalls :
          requests'[d].of \in Actions \ {"assign"} /\ requests'[e].of \in Actions \ {"assign"} => d = e
    BY <1>1
  <1>7. ASSUME ~outrun' PROVE GridIsFresh' /\ \A d \in GridCalls : GridRequestIsFresh(requests[d])'
    <2>1. GridIsFresh /\ \A d \in GridCalls : GridRequestIsFresh(requests[d])
      BY <1>7
    <2>2. ASSUME NEW e \in GridCalls
          PROVE  /\ NewestLoad(requests[e]) => NewestLoad(requests[e])'
                 /\ Answering(requests[e]) => Answering(requests'[e])
                 /\ EndsInLoad(requests[e]) => EndsInLoad(requests'[e])
      BY <1>1, <1>3 DEF NewestLoad, Answering, EndsInLoad, Actions
    <2>3. GridIsFresh'
      BY <2>1, <2>2 DEF GridIsFresh, ViewOf
    <2>4. GridRequestIsFresh(q)'
      BY DEF GridRequestIsFresh, NewestLoad, Actions
    <2>5. ASSUME NEW d \in GridCalls, d # c PROVE GridRequestIsFresh(requests[d])'
      BY <1>1, <2>1, <2>2, <2>5 DEF GridRequestIsFresh, NewestLoad, ViewOf
    <2> QED
      BY <1>1, <2>3, <2>4, <2>5
  <1> QED
    BY <1>2, <1>5, <1>6, <1>7

LEMMA ActionIsChosen ==
  ASSUME GInv, NEW c \in GridCalls,
         \/ \E choice \in DayChoices : Assign(c, choice)
         \/ \E action \in Actions \ {"assign"} : Press(c, action)
  PROVE  GInv'
  <1>1. named \in Weeks /\ newest \in Nat
    BY DEF GInv, GridTyped
  <1>2. ASSUME NEW choice \in DayChoices, Assign(c, choice) PROVE GInv'
    <2>1. grid.week \in Weeks
      BY <1>2 DEF Assign, GInv, GridTyped
    <2> DEFINE q == [NoRequest EXCEPT !.of = "assign", !.kind = "assign", !.at = "sent",
                                      !.week = named, !.on = grid.week, !.choice = choice]
    <2>2. /\ q \in GridRequests /\ q.of = "assign" /\ q.kind = "assign" /\ q.at = "sent"
          /\ q.week = named /\ q.on \in Weeks /\ q.id = 0
      BY <1>1, <2>1, NoRequestIsOne DEF GridRequests, Actions, NoRequest
    <2>3. requests' = [requests EXCEPT ![c] = q]
      BY <1>2 DEF Assign
    <2>4. /\ requests[c].of = "none" /\ moves' \in 0..MaxGridMoves
          /\ UNCHANGED <<planned, named, grid, newest, gridError, outrun, gridLost>>
      BY <1>2, OneMove DEF Assign, Waiting, GInv
    <2> HIDE DEF q
    <2>5. q.id <= newest /\ "assign" \in Actions
      BY <1>1, <2>2 DEF Actions
    <2> QED
      BY <2>2, <2>3, <2>4, <2>5, ActionIsSent
  <1>3. ASSUME NEW action \in Actions \ {"assign"}, Press(c, action) PROVE GInv'
    <2> DEFINE q == [NoRequest EXCEPT !.of = action, !.kind = action, !.at = "sent",
                                      !.week = named, !.id = newest]
    <2>1. /\ q \in GridRequests /\ q.of = action /\ q.kind = action /\ q.at = "sent"
          /\ q.week = named /\ q.id = newest
      BY <1>1, NoRequestIsOne DEF GridRequests, NoRequest
    <2>2. requests' = [requests EXCEPT ![c] = q]
      BY <1>3 DEF Press
    <2>3. /\ requests[c].of = "none" /\ moves' \in 0..MaxGridMoves
          /\ UNCHANGED <<planned, named, grid, newest, gridError, outrun, gridLost>>
          /\ \A d \in GridCalls : requests[d].of \notin Actions \ {"assign"}
      BY <1>3, OneMove DEF Press, Waiting, GInv, Busy
    <2> HIDE DEF q
    <2>4. q.id <= newest /\ action \in Actions /\ action # "assign"
      BY <1>1, <2>1
    <2> QED
      BY <2>1, <2>2, <2>3, <2>4, ActionIsSent
  <1> QED
    BY <1>2, <1>3

\* What is answered keeps what it was about.
LEMMA SlotIsRefused ==
  ASSUME GridTyped, NEW c \in GridCalls, requests' = [requests EXCEPT ![c].at = "refused"]
  PROVE  \E q \in GridRequests :
           /\ requests' = [requests EXCEPT ![c] = q] /\ q.at = "refused"
           /\ q.of = requests[c].of /\ q.kind = requests[c].kind /\ q.id = requests[c].id
           /\ q.week = requests[c].week /\ q.on = requests[c].on
  <1>1. requests[c] \in GridRequests
    BY DEF GridTyped
  <1> DEFINE q == [requests[c] EXCEPT !.at = "refused"]
  <1>2. /\ q \in GridRequests /\ q.at = "refused"
        /\ q.of = requests[c].of /\ q.kind = requests[c].kind /\ q.id = requests[c].id
        /\ q.week = requests[c].week /\ q.on = requests[c].on
    BY <1>1 DEF GridRequests
  <1>3. requests' = [requests EXCEPT ![c] = q]
    OBVIOUS
  <1> HIDE DEF q
  <1> QED
    BY <1>2, <1>3

LEMMA SlotIsDone ==
  ASSUME GridTyped, NEW c \in GridCalls, NEW page \in GridPages, Done(c, page)
  PROVE  \E q \in GridRequests :
           /\ requests' = [requests EXCEPT ![c] = q] /\ q.at = "done" /\ q.page = page
           /\ q.of = requests[c].of /\ q.kind = requests[c].kind /\ q.id = requests[c].id
           /\ q.week = requests[c].week /\ q.on = requests[c].on
  <1>1. requests[c] \in GridRequests
    BY DEF GridTyped
  <1> DEFINE q == [requests[c] EXCEPT !.at = "done", !.page = page]
  <1>2. /\ q \in GridRequests /\ q.at = "done" /\ q.page = page
        /\ q.of = requests[c].of /\ q.kind = requests[c].kind /\ q.id = requests[c].id
        /\ q.week = requests[c].week /\ q.on = requests[c].on
    BY <1>1 DEF GridRequests
  <1>3. requests' = [requests EXCEPT ![c] = q]
    BY <1>1 DEF GridTyped, Done
  <1> HIDE DEF q
  <1> QED
    BY <1>2, <1>3

\* The server did nothing, or nothing of it is heard.
LEMMA GridIsRefused ==
  ASSUME GInv, NEW c \in GridCalls, requests' = [requests EXCEPT ![c].at = "refused"],
         requests[c].at \in {"sent", "done"}, UNCHANGED <<planned, named, grid, newest, gridError, moves>>,
         gridLost' \in 0..MaxGridLost, outrun' \in BOOLEAN, outrun => outrun',
         Answering(requests[c]) => outrun'
  PROVE  GInv'
  <1> USE DEF GInv
  <1>1. PICK q \in GridRequests :
           /\ requests' = [requests EXCEPT ![c] = q] /\ q.at = "refused"
           /\ q.of = requests[c].of /\ q.kind = requests[c].kind /\ q.id = requests[c].id
           /\ q.week = requests[c].week /\ q.on = requests[c].on
    BY SlotIsRefused
  <1>2. /\ requests' \in [GridCalls -> GridRequests] /\ requests'[c] = q
        /\ \A d \in GridCalls : d # c => requests'[d] = requests[d]
    BY <1>1, SlotIsTaken
  <1>3. GridTyped'
    BY <1>2 DEF GridTyped
  <1>4. GridRequestFits(q)'
    BY <1>1 DEF GridRequestFits
  <1>5. \A d \in GridCalls : GridRequestFits(requests[d])'
    BY <1>2, <1>4 DEF GridRequestFits
  <1>6. \A d, e \in GridCalls :
          requests'[d].of \in Actions \ {"assign"} /\ requests'[e].of \in Actions \ {"assign"} => d = e
    BY <1>1, <1>2
  <1>7. ASSUME ~outrun' PROVE GridIsFresh' /\ \A d \in GridCalls : GridRequestIsFresh(requests[d])'
    <2>1. GridIsFresh /\ ~Answering(requests[c]) /\ \A d \in GridCalls : GridRequestIsFresh(requests[d])
      BY <1>7
    <2>2. ASSUME NEW e \in GridCalls
          PROVE  /\ NewestLoad(requests[e]) => NewestLoad(requests[e])'
                 /\ Answering(requests[e]) => Answering(requests'[e])
                 /\ EndsInLoad(requests[e]) => EndsInLoad(requests'[e])
      BY <1>1, <1>2, <2>1 DEF NewestLoad, Answering, EndsInLoad, Actions
    <2>3. GridIsFresh'
      BY <2>1, <2>2 DEF GridIsFresh, ViewOf
    <2>4. GridRequestIsFresh(q)'
      BY <1>1, <2>1 DEF GridRequestIsFresh, NewestLoad
    <2>5. ASSUME NEW d \in GridCalls, d # c PROVE GridRequestIsFresh(requests[d])'
      BY <1>2, <2>1, <2>2, <2>5 DEF GridRequestIsFresh, NewestLoad, ViewOf
    <2> QED
      BY <1>2, <2>3, <2>4, <2>5
  <1> QED
    BY <1>3, <1>5, <1>6, <1>7

\* An action that the server does is answering from then on.
LEMMA ActionIsDone ==
  ASSUME GInv, NEW c \in GridCalls, requests[c].kind \in Actions, requests[c].at = "sent",
         planned' \in [Weeks -> WeekPlan], NEW page \in GridPages, Done(c, page),
         NEW w \in Weeks, w = requests[c].week,
         requests[c].kind \in {"publish", "unlock"} => page = ViewOf(w)',
         UNCHANGED <<named, grid, newest, gridError, outrun, moves, gridLost>>
  PROVE  GInv'
  <1> USE DEF GInv
  <1>1. PICK q \in GridRequests :
           /\ requests' = [requests EXCEPT ![c] = q] /\ q.at = "done"
           /\ q.of = requests[c].of /\ q.kind = requests[c].kind /\ q.id = requests[c].id
           /\ q.week = w /\ q.on = requests[c].on /\ q.page = page
    BY SlotIsDone
  <1>2. /\ requests' \in [GridCalls -> GridRequests] /\ requests'[c] = q
        /\ \A d \in GridCalls : d # c => requests'[d] = requests[d]
    BY <1>1, SlotIsTaken
  <1>4. GridTyped'
    BY <1>2 DEF GridTyped
  <1>5. requests[c].kind \in {"publish", "unlock"} => page.week = w
    BY DEF ViewOf
  <1>6. GridRequestFits(q)'
    BY <1>1, <1>5 DEF GridRequestFits, Actions
  <1>7. \A d \in GridCalls : GridRequestFits(requests[d])'
    BY <1>2, <1>6 DEF GridRequestFits
  <1>8. \A d, e \in GridCalls :
          requests'[d].of \in Actions \ {"assign"} /\ requests'[e].of \in Actions \ {"assign"} => d = e
    BY <1>1, <1>2
  <1>9. Answering(requests'[c])
    BY <1>1, <1>2 DEF Answering
  <1>10. ASSUME ~outrun' PROVE GridIsFresh' /\ \A d \in GridCalls : GridRequestIsFresh(requests[d])'
    <2>1. \A d \in GridCalls : GridRequestIsFresh(requests[d])
      BY <1>10
    <2>2. GridIsFresh'
      BY <1>9 DEF GridIsFresh
    <2>3. requests[c].of = requests[c].kind
      BY DEF GridRequestFits
    <2>5. GridRequestIsFresh(q)'
      <3>1. q.kind \in {"publish", "unlock"} /\ q.week = named => q.page = ViewOf(named)'
        BY <1>1
      <3>2. q.kind # "load"
        BY <1>1 DEF Actions
      <3> QED
        BY <3>1, <3>2 DEF GridRequestIsFresh, NewestLoad
    <2>6. ASSUME NEW d \in GridCalls, d # c PROVE GridRequestIsFresh(requests[d])'
      <3>1. requests[d].kind \in {"publish", "unlock"} =>
              \E e \in GridCalls : EndsInLoad(requests'[e])
        <4>1. requests[d].kind \in {"publish", "unlock"} => requests[d].of = requests[d].kind
          BY DEF GridRequestFits, Actions
        <4>2. requests[d].kind \in {"publish", "unlock"} => requests[c].kind = "assign"
          BY <2>3, <2>6, <4>1 DEF Actions
        <4> QED
          BY <1>1, <1>2, <4>2 DEF EndsInLoad
      <3> QED
        BY <1>2, <1>9, <2>1, <2>6, <3>1 DEF GridRequestIsFresh, NewestLoad
    <2> QED
      BY <1>2, <2>2, <2>5, <2>6
  <1> QED
    BY <1>4, <1>7, <1>8, <1>10

LEMMA WeekIsRead ==
  ASSUME GInv, NEW c \in GridCalls, requests[c].kind = "load", requests[c].at = "sent",
         Done(c, ViewOf(requests[c].week)),
         UNCHANGED <<planned, named, grid, newest, gridError, outrun, moves, gridLost>>
  PROVE  GInv'
  <1> USE DEF GInv
  <1>1. PICK w \in Weeks : w = requests[c].week
    BY DEF GridRequestFits
  <1>2. ViewOf(w) \in GridPages /\ ViewOf(w).week = w
    BY DEF ViewOf, GridPages, GridTyped, WeekPlan
  <1>3. PICK q \in GridRequests :
           /\ requests' = [requests EXCEPT ![c] = q] /\ q.at = "done" /\ q.page = ViewOf(w)
           /\ q.of = requests[c].of /\ q.kind = requests[c].kind /\ q.id = requests[c].id
           /\ q.week = w /\ q.on = requests[c].on
    BY <1>1, <1>2, SlotIsDone
  <1>4. /\ requests' \in [GridCalls -> GridRequests] /\ requests'[c] = q
        /\ \A d \in GridCalls : d # c => requests'[d] = requests[d]
    BY <1>3, SlotIsTaken
  <1>5. GridTyped'
    BY <1>4 DEF GridTyped
  <1>6. GridRequestFits(q)'
    BY <1>1, <1>2, <1>3 DEF GridRequestFits
  <1>7. \A d \in GridCalls : GridRequestFits(requests[d])'
    BY <1>4, <1>6 DEF GridRequestFits
  <1>8. \A d, e \in GridCalls :
          requests'[d].of \in Actions \ {"assign"} /\ requests'[e].of \in Actions \ {"assign"} => d = e
    BY <1>3, <1>4
  <1>9. ASSUME ~outrun' PROVE GridIsFresh' /\ \A d \in GridCalls : GridRequestIsFresh(requests[d])'
    <2>1. GridIsFresh /\ \A d \in GridCalls : GridRequestIsFresh(requests[d])
      BY <1>9
    <2>2. ASSUME NEW e \in GridCalls
          PROVE  /\ NewestLoad(requests[e]) => NewestLoad(requests[e])'
                 /\ Answering(requests[e]) => Answering(requests'[e])
                 /\ EndsInLoad(requests[e]) => EndsInLoad(requests'[e])
      BY <1>3, <1>4 DEF NewestLoad, Answering, EndsInLoad, Actions
    <2>3. GridIsFresh'
      BY <2>1, <2>2 DEF GridIsFresh, ViewOf
    <2>4. NewestLoad(q)' => q.week = named
      BY <1>1, <1>3, <2>1 DEF GridRequestIsFresh, NewestLoad
    <2>5. NewestLoad(q)' => q.page = ViewOf(named)'
      BY <1>3, <2>4 DEF ViewOf
    <2>6. GridRequestIsFresh(q)'
      BY <1>1, <1>3, <2>1, <2>4, <2>5 DEF GridRequestIsFresh
    <2>7. ASSUME NEW d \in GridCalls, d # c PROVE GridRequestIsFresh(requests[d])'
      BY <1>4, <2>1, <2>2, <2>7 DEF GridRequestIsFresh, NewestLoad, ViewOf
    <2> QED
      BY <1>4, <2>3, <2>6, <2>7
  <1> QED
    BY <1>5, <1>7, <1>8, <1>9

LEMMA GridIsServed ==
  ASSUME GInv, NEW c \in GridCalls, ServeGrid(c)
  PROVE  GInv'
  <1>1. /\ requests[c].at = "sent" /\ requests[c] \in GridRequests /\ GridTyped
        /\ UNCHANGED <<named, grid, newest, gridError, outrun, moves, gridLost>>
    BY DEF ServeGrid, GInv, GridTyped
  <1>2. ASSUME Refused(c) PROVE GInv'
    <2>1. gridLost \in 0..MaxGridLost /\ outrun \in BOOLEAN /\ ~Answering(requests[c])
      BY <1>1 DEF GridTyped, Answering
    <2> QED
      BY <1>1, <1>2, <2>1, GridIsRefused DEF Refused
  <1>3. CASE requests[c].kind = "load" /\ Done(c, ViewOf(requests[c].week)) /\ UNCHANGED planned
    BY <1>1, <1>3, WeekIsRead
  <1>4. ASSUME NEW w \in Weeks, NEW day \in DayChoices, Edits(c, w, day),
               requests[c].kind \in {"assign", "copy"}
        PROVE  GInv'
    <2>1. CASE planned' = [planned EXCEPT ![w].day = day] /\ Done(c, NoWeek)
      <3>1. planned' \in [Weeks -> WeekPlan]
        BY <1>1, <2>1 DEF GridTyped, WeekPlan
      <3>2. PICK v \in Weeks : v = requests[c].week
        BY <1>4 DEF GInv, GridRequestFits
      <3>3. requests[c].kind \in Actions /\ requests[c].kind \notin {"publish", "unlock"}
        BY <1>4 DEF Actions
      <3> QED
        BY <1>1, <2>1, <3>1, <3>2, <3>3, NoRequestIsOne, ActionIsDone
    <2> QED
      BY <1>2, <1>4, <2>1 DEF Edits
  <1>5. ASSUME NEW w \in Weeks, w = requests[c].week, NEW locked \in BOOLEAN, Locks(c, w, locked),
               requests[c].kind \in {"publish", "unlock"}
        PROVE  GInv'
    <2>1. CASE planned' = [planned EXCEPT ![w].locked = locked]
               /\ Done(c, [ViewOf(w) EXCEPT !.locked = locked])
      <3>1. planned' \in [Weeks -> WeekPlan]
        BY <1>1, <2>1 DEF GridTyped, WeekPlan
      <3>2. PICK page \in GridPages : page = [ViewOf(w) EXCEPT !.locked = locked]
        BY <1>1 DEF GridTyped, WeekPlan, ViewOf, GridPages
      <3>3. page = ViewOf(w)'
        BY <1>1, <2>1, <3>2 DEF GridTyped, WeekPlan, ViewOf
      <3>4. requests[c].kind \in Actions
        BY <1>5 DEF Actions
      <3> QED
        BY <1>1, <1>5, <2>1, <3>1, <3>2, <3>3, <3>4, ActionIsDone
    <2> QED
      BY <1>2, <1>5, <2>1 DEF Locks
  <1>6. requests[c].kind # "none" => requests[c].week \in Weeks
    BY DEF GInv, GridRequestFits
  <1>7. CASE requests[c].kind = "assign" /\ Edits(c, requests[c].on, requests[c].choice)
    <2>1. requests[c].on \in Weeks /\ requests[c].choice \in DayChoices
      BY <1>1, <1>7 DEF GInv, GridRequestFits, GridRequests
    <2> QED
      BY <1>4, <1>7, <2>1
  <1>8. CASE requests[c].kind = "copy" /\ Edits(c, requests[c].week, CopiedInto(requests[c].week))
    <2>1. CopiedInto(requests[c].week) \in DayChoices
      BY <1>1, <1>6, <1>8 DEF CopiedInto, GridTyped, WeekPlan
    <2> QED
      BY <1>4, <1>6, <1>8, <2>1
  <1>9. CASE requests[c].kind = "publish" /\ Locks(c, requests[c].week, TRUE)
    BY <1>5, <1>6, <1>9
  <1>10. CASE requests[c].kind = "unlock" /\ Locks(c, requests[c].week, FALSE)
    BY <1>5, <1>6, <1>10
  <1> QED
    BY <1>3, <1>7, <1>8, <1>9, <1>10 DEF ServeGrid

LEMMA GridIsLost ==
  ASSUME GInv, NEW c \in GridCalls, LoseGrid(c)
  PROVE  GInv'
  <1>1. /\ requests' = [requests EXCEPT ![c].at = "refused"]
        /\ requests[c].at \in {"sent", "done"} /\ gridLost' \in 0..MaxGridLost
        /\ UNCHANGED <<planned, named, grid, newest, gridError, moves>>
    BY GridParts DEF LoseGrid, GInv, GridTyped
  <1>2. outrun' \in BOOLEAN /\ (outrun => outrun') /\ (Answering(requests[c]) => outrun')
    BY DEF LoseGrid, GInv, GridTyped, Answering
  <1> QED
    BY <1>1, <1>2, GridIsRefused

LEMMA AnswerEndsInLoad ==
  ASSUME GInv, NEW c \in GridCalls, Reload(c)
  PROVE  GInv'
  <1> USE DEF GInv
  <1>1. /\ requests[c].kind \in {"assign", "copy"} /\ requests[c].kind = requests[c].of
        /\ requests[c].of \in Actions /\ requests[c].week \in Weeks
    BY DEF Reload, GridRequestFits, Actions
  <1>2. PICK q \in GridRequests :
          /\ q = LoadOf(requests[c].of, requests[c].week) /\ q.of = requests[c].of
          /\ q.kind = "load" /\ q.at = "sent" /\ q.id = newest + 1 /\ q.week = requests[c].week
    BY <1>1, LoadIsOne
  <1>3. /\ UNCHANGED <<planned, named, grid, gridError, moves, gridLost>>
        /\ newest' = newest + 1 /\ requests' = [requests EXCEPT ![c] = q]
        /\ outrun' = (q.week # named)
    BY <1>2 DEF Reload
  <1>4. /\ requests' \in [GridCalls -> GridRequests] /\ requests'[c] = q
        /\ \A d \in GridCalls : d # c => requests'[d] = requests[d]
    BY <1>3, SlotIsTaken
  <1>5. newest \in Nat /\ newest' \in Nat
    BY <1>3 DEF GridTyped
  <1>6. GridTyped'
    BY <1>3, <1>4, <1>5 DEF GridTyped
  <1>7. ASSUME NEW d \in GridCalls PROVE GridRequestFits(requests[d])'
    <2>1. requests[d] \in GridRequests /\ requests[d].id \in Nat /\ GridRequestFits(requests[d])
      BY DEF GridTyped, GridRequests
    <2>2. CASE d = c
      BY <1>1, <1>2, <1>3, <1>4, <1>5, <2>2 DEF GridRequestFits, Actions
    <2>3. CASE d # c
      BY <1>3, <1>4, <1>5, <2>1, <2>3 DEF GridRequestFits
    <2> QED
      BY <2>2, <2>3
  <1>8. \A d, e \in GridCalls :
          requests'[d].of \in Actions \ {"assign"} /\ requests'[e].of \in Actions \ {"assign"} => d = e
    BY <1>2, <1>4
  <1>9. ASSUME ~outrun' PROVE GridIsFresh' /\ \A d \in GridCalls : GridRequestIsFresh(requests[d])'
    <2>2. GridIsFresh'
      BY <1>2, <1>3, <1>4 DEF GridIsFresh, NewestLoad
    <2>3. q.week = named
      BY <1>3, <1>9
    <2>4. GridRequestIsFresh(q)'
      BY <1>2, <1>3, <2>3 DEF GridRequestIsFresh
    <2>5. ASSUME NEW d \in GridCalls, d # c PROVE GridRequestIsFresh(requests[d])'
      <3>1. requests[d].id \in Nat /\ (requests[d].kind # "none" => requests[d].id <= newest)
        BY DEF GridTyped, GridRequests, GridRequestFits
      <3>2. requests[d].kind # "none" => requests[d].id # newest'
        BY <1>3, <1>5, <3>1
      <3> QED
        BY <1>4, <2>5, <3>2 DEF GridRequestIsFresh, NewestLoad
    <2> QED
      BY <1>4, <2>2, <2>4, <2>5
  <1> QED
    BY <1>6, <1>7, <1>8, <1>9

\* A request is over, whatever it put on screen.
LEMMA GridSlotIsFreed ==
  ASSUME GInv, NEW c \in GridCalls, requests' = [requests EXCEPT ![c] = NoRequest],
         UNCHANGED <<planned, named, newest, moves, gridLost>>,
         grid' \in GridPages, grid' # NoWeek => grid'.week \in Weeks,
         gridError' \in BOOLEAN, outrun' \in BOOLEAN, outrun => outrun',
         ~outrun' => GridIsFresh', ~EndsInLoad(requests[c]),
         ~outrun' /\ Answering(requests[c]) => \A d \in GridCalls : requests[d].kind # "load"
  PROVE  GInv'
  <1> USE DEF GInv
  <1>1. /\ requests' \in [GridCalls -> GridRequests] /\ requests'[c] = NoRequest
        /\ \A d \in GridCalls : d # c => requests'[d] = requests[d]
    BY SlotIsTaken, NoRequestIsOne
  <1>2. GridTyped'
    BY <1>1 DEF GridTyped
  <1>3. GridRequestFits(NoRequest)' /\ ~EndsInLoad(NoRequest) /\ ~Answering(NoRequest)
    BY NoRequestIsOne DEF GridRequestFits, Actions, EndsInLoad, Answering
  <1>4. \A d \in GridCalls : GridRequestFits(requests[d])'
    BY <1>1, <1>3 DEF GridRequestFits
  <1>5. \A d, e \in GridCalls :
          requests'[d].of \in Actions \ {"assign"} /\ requests'[e].of \in Actions \ {"assign"} => d = e
    BY <1>1, NoRequestIsOne DEF Actions
  <1>6. ASSUME ~outrun' PROVE \A d \in GridCalls : GridRequestIsFresh(requests[d])'
    <2>1. \A d \in GridCalls : GridRequestIsFresh(requests[d])
      BY <1>6
    <2>2. GridRequestIsFresh(NoRequest)'
      BY NoRequestIsOne DEF GridRequestIsFresh, NewestLoad
    <2>3. \A e \in GridCalls : EndsInLoad(requests[e]) => EndsInLoad(requests'[e])
      BY <1>1
    <2>4. ASSUME NEW d \in GridCalls, d # c PROVE GridRequestIsFresh(requests[d])'
      <3>1. NewestLoad(requests[d]) =>
              \A e \in GridCalls : Answering(requests[e]) => Answering(requests'[e])
        BY <1>1, <1>6 DEF NewestLoad
      <3> QED
        BY <1>1, <2>1, <2>3, <2>4, <3>1 DEF GridRequestIsFresh, NewestLoad, ViewOf
    <2> QED
      BY <1>1, <2>2, <2>4
  <1> QED
    BY <1>2, <1>4, <1>5, <1>6

LEMMA LoadIsHeard ==
  ASSUME GInv, NEW c \in GridCalls, Loaded(c)
  PROVE  GInv'
  <1> USE DEF GInv
  <1>1. /\ requests[c].kind = "load" /\ requests[c].at \in {"done", "refused"}
        /\ requests' = [requests EXCEPT ![c] = NoRequest]
        /\ UNCHANGED <<planned, named, newest, outrun, moves, gridLost>>
    BY DEF Loaded
  <1>2. requests[c] \in GridRequests /\ ~Answering(requests[c]) /\ ~EndsInLoad(requests[c])
    BY <1>1 DEF GridTyped, Answering, EndsInLoad, Actions
  <1>3. \A d \in GridCalls : d # c => requests'[d] = requests[d]
    BY <1>1
  <1>4. CASE requests[c].id = newest
    <2>1. CASE requests[c].at = "done"
      <3>1. grid' = requests[c].page /\ ~gridError' /\ gridError' \in BOOLEAN
        BY <1>4, <2>1 DEF Loaded
      <3>2. grid' \in GridPages /\ grid'.week \in Weeks
        BY <1>1, <1>2, <2>1, <3>1 DEF GridRequests, GridRequestFits
      <3>3. ASSUME ~outrun' PROVE GridIsFresh'
        <4>1. GridRequestIsFresh(requests[c])
          BY <1>1, <3>3
        <4>2. CASE requests[c].page = ViewOf(named)
          <5>1. grid' = ViewOf(named)'
            BY <1>1, <3>1, <4>2 DEF ViewOf
          <5> QED
            BY <5>1 DEF GridIsFresh
        <4>3. ASSUME NEW d \in GridCalls, Answering(requests[d]) PROVE GridIsFresh'
          BY <1>2, <1>3, <4>3 DEF GridIsFresh
        <4> QED
          BY <1>1, <1>4, <2>1, <4>1, <4>2, <4>3 DEF GridRequestIsFresh, NewestLoad
      <3> QED
        BY <1>1, <1>2, <3>1, <3>2, <3>3, GridSlotIsFreed DEF GridTyped
    <2>2. CASE requests[c].at = "refused"
      <3>1. grid' = grid /\ gridError' /\ gridError' \in BOOLEAN
        BY <1>4, <2>2 DEF Loaded
      <3>2. GridIsFresh'
        BY <3>1 DEF GridIsFresh
      <3> QED
        BY <1>1, <1>2, <3>1, <3>2, GridSlotIsFreed DEF GridTyped
    <2> QED
      BY <1>1, <2>1, <2>2
  <1>5. CASE requests[c].id # newest
    <2>1. UNCHANGED <<grid, gridError>>
      BY <1>5 DEF Loaded
    <2>2. ASSUME ~outrun' PROVE GridIsFresh'
      <3>1. GridIsFresh
        BY <1>1, <2>2
      <3>2. ASSUME NEW e \in GridCalls
            PROVE  /\ NewestLoad(requests[e]) => NewestLoad(requests[e])'
                   /\ Answering(requests[e]) => Answering(requests'[e])
        BY <1>1, <1>2, <1>3, <1>5 DEF NewestLoad
      <3> QED
        BY <1>1, <2>1, <3>1, <3>2 DEF GridIsFresh, ViewOf
    <2> QED
      BY <1>1, <1>2, <2>1, <2>2, GridSlotIsFreed DEF GridTyped
  <1> QED
    BY <1>4, <1>5

LEMMA AnswerIsShown ==
  ASSUME GInv, NEW c \in GridCalls, ShowAnswer(c)
  PROVE  GInv'
  <1> USE DEF GInv
  <1>1. /\ requests[c].kind \in {"publish", "unlock"} /\ requests[c].at = "done"
        /\ requests' = [requests EXCEPT ![c] = NoRequest] /\ grid' = requests[c].page
        /\ UNCHANGED <<planned, named, newest, gridError, moves, gridLost>>
        /\ outrun' = (outrun \/ requests[c].week # named \/ requests[c].id # newest
                        \/ \E d \in GridCalls : requests[d].kind = "load")
    BY DEF ShowAnswer
  <1>2. requests[c] \in GridRequests /\ ~EndsInLoad(requests[c])
    BY <1>1 DEF GridTyped, EndsInLoad
  <1>3. grid' \in GridPages /\ grid'.week \in Weeks
    BY <1>1, <1>2 DEF GridRequests, GridRequestFits
  <1>4. ASSUME ~outrun' PROVE GridIsFresh'
    <2>1. /\ GridRequestIsFresh(requests[c]) /\ requests[c].id = newest
          /\ requests[c].week = named
      BY <1>1, <1>4
    <2>2. CASE requests[c].page = ViewOf(named)
      <3>1. grid' = ViewOf(named)'
        BY <1>1, <2>2 DEF ViewOf
      <3> QED
        BY <3>1 DEF GridIsFresh
    <2>3. ASSUME NEW d \in GridCalls, EndsInLoad(requests[d]) PROVE GridIsFresh'
      <3>1. d # c /\ requests'[d] = requests[d]
        BY <1>1, <1>2, <2>3
      <3>2. Answering(requests'[d])
        BY <2>3, <3>1 DEF EndsInLoad, Answering, Actions
      <3> QED
        BY <3>2 DEF GridIsFresh
    <2> QED
      BY <1>1, <2>1, <2>2, <2>3 DEF GridRequestIsFresh
  <1>5. outrun' \in BOOLEAN /\ gridError' \in BOOLEAN /\ (outrun => outrun')
        /\ (~outrun' => \A d \in GridCalls : requests[d].kind # "load")
    BY <1>1 DEF GridTyped
  <1> QED
    BY <1>1, <1>2, <1>3, <1>4, <1>5, GridSlotIsFreed

LEMMA ActionIsGivenUp ==
  ASSUME GInv, NEW c \in GridCalls, GiveUp(c)
  PROVE  GInv'
  <1> USE DEF GInv
  <1>1. /\ requests[c].kind \in {"copy", "publish", "unlock"} /\ requests[c].at = "refused"
        /\ requests' = [requests EXCEPT ![c] = NoRequest]
        /\ UNCHANGED <<planned, named, grid, newest, gridError, outrun, moves, gridLost>>
    BY DEF GiveUp
  <1>2. ~Answering(requests[c]) /\ ~EndsInLoad(requests[c]) /\ ~NewestLoad(requests[c])
    BY <1>1 DEF Answering, EndsInLoad, NewestLoad
  <1>3. ASSUME ~outrun' PROVE GridIsFresh'
    <2>1. GridIsFresh
      BY <1>1, <1>3
    <2>2. ASSUME NEW e \in GridCalls
          PROVE  /\ NewestLoad(requests[e]) => NewestLoad(requests[e])'
                 /\ Answering(requests[e]) => Answering(requests'[e])
      BY <1>1, <1>2 DEF NewestLoad
    <2> QED
      BY <1>1, <2>1, <2>2 DEF GridIsFresh, ViewOf
  <1> QED
    BY <1>1, <1>2, <1>3, GridSlotIsFreed DEF GridTyped

LEMMA GridGoesOn ==
  ASSUME GInv, [GridNext]_gridVars
  PROVE  GInv'
  <1>1. ASSUME NEW c \in GridCalls, \E w \in Weeks : GoToWeek(c, w) PROVE GInv'
    BY <1>1, WeekIsChosen
  <1>2. ASSUME NEW c \in GridCalls,
               \/ \E choice \in DayChoices : Assign(c, choice)
               \/ \E action \in Actions \ {"assign"} : Press(c, action)
        PROVE  GInv'
    BY <1>2, ActionIsChosen
  <1>3. ASSUME NEW c \in GridCalls,
               ServeGrid(c) \/ LoseGrid(c) \/ Loaded(c) \/ Reload(c) \/ ShowAnswer(c) \/ GiveUp(c)
        PROVE  GInv'
    BY <1>3, GridIsServed, GridIsLost, LoadIsHeard, AnswerEndsInLoad, AnswerIsShown,
       ActionIsGivenUp
  <1>4. CASE UNCHANGED gridVars
    BY <1>4
       DEF gridVars, GInv, GridTyped, GridRequestFits, GridIsFresh, GridRequestIsFresh, NewestLoad,
           ViewOf
  <1> QED
    BY <1>1, <1>2, <1>3, <1>4 DEF GridNext

LEMMA GridIsRight ==
  ASSUME GInv
  PROVE  GridTypeOK /\ GridSettles
  <1>1. GridTypeOK
    BY DEF GInv, GridTyped, GridTypeOK, GridPages, GridRequests
  <1>2. GridSettles
    <2> SUFFICES ASSUME \A c \in GridCalls : Waiting(c), ~outrun, ~gridError
                 PROVE  grid = ViewOf(named)
      BY DEF GridSettles
    <2>1. \A c \in GridCalls : requests[c].kind = "none"
      BY DEF GInv, Waiting, GridRequestFits
    <2> QED
      BY <2>1 DEF GInv, GridIsFresh, NewestLoad, Answering, Actions
  <1> QED
    BY <1>1, <1>2

-----------------------------------------------------------------------------
\* CodeStep.  The dialog's step is about the newest challenge, and what is in
\* flight is about that one: a code is right only for the challenge that asked.

CodeRequests ==
  [kind : {"login", "verify", "resend"}, id : Challenges \union {0},
   code : [Boxes -> Digits \union {0}], mounted : Nat, at : {"sent", "answered"},
   answer : {"none", "ok", "dead", "expired", "wrong", "soon", "lost"}, mails : 0..MaxMails]

ChallengeRecords ==
  [made : BOOLEAN, open : BOOLEAN, wrong : 0..MaxWrong, fresh : BOOLEAN, cooling : BOOLEAN,
   mails : 0..MaxMails, right : BOOLEAN]

ModalRecords ==
  [step : {"password", "code", "in"}, submitting : BOOLEAN, id : Challenges \union {0},
   mails : 0..MaxMails, verifying : BOOLEAN, resending : BOOLEAN, dead : BOOLEAN, mounted : Nat]

CodeTyped ==
  /\ challenge \in [Challenges -> ChallengeRecords] /\ modal \in ModalRecords
  /\ boxes \in [Boxes -> Digits \union {0}] /\ sent \subseteq CodeRequests
  /\ swapped \in BOOLEAN /\ missed \subseteq {"ok", "dead"}
  /\ codeMoves \in 0..MaxCodeMoves /\ codeLost \in 0..MaxCodeLost

\* Challenges are made one after the other; a code still to come has room.
ChallengeIsMade(c) ==
  /\ challenge[c].made => \A d \in Challenges : d < c => challenge[d].made
  /\ challenge[c].open \/ challenge[c].right => challenge[c].made
  /\ challenge[c].made /\ ~challenge[c].cooling => challenge[c].mails < MaxMails

\* What a request in flight, or its answer, is about.
CodeRequestIsSound(r) ==
  /\ r.mounted <= modal.mounted
  /\ r.at = "sent" <=> r.answer = "none"
  /\ r.kind # "login" => r.id \in Challenges /\ challenge[r.id].made
  /\ r.kind = "login" => r.answer \in {"none", "ok", "lost"}
  /\ r.kind = "login" /\ r.answer = "ok" => r.id \in Challenges /\ challenge[r.id].made
  /\ r.answer = "dead" => challenge[r.id].wrong >= MaxWrong
  /\ r.kind = "verify" /\ r.answer = "ok" => challenge[r.id].right

\* One sign-in is in flight at a time, and the button waits for it; the challenge
\* it has made is the newest, and nobody has asked anything about it.
SignInIsOne(r) ==
  r.kind = "login" =>
    /\ modal.submitting /\ \A q \in sent : q.kind = "login" => q = r
    /\ r.answer = "ok" =>
         /\ challenge[r.id].wrong = 0
         /\ \A c \in Challenges : challenge[c].made => c <= r.id
         /\ modal.step = "code" => modal.id # r.id
         /\ \A q \in sent : q.kind # "login" => q.id # r.id

\* What is asked from the step on screen is about its challenge, and nothing else is.
CodeRequestIsFresh(r) ==
  r.kind # "login" /\ (r.mounted = modal.mounted <=> r.id = modal.id)

ModalIsSound ==
  /\ modal.step = "code" => modal.id \in Challenges /\ challenge[modal.id].made
  /\ modal.step = "password" => boxes = NoDigits
  /\ modal.step = "code" /\ IsFull(boxes) => modal.verifying
  /\ modal.step = "in" => \E c \in Challenges : challenge[c].right

\* The step is about the newest challenge, and dead where that one is or is about
\* to be told so.
ModalIsFresh ==
  /\ modal.dead => challenge[modal.id].wrong >= MaxWrong
  /\ \A c \in Challenges : challenge[c].made => c <= modal.id
  /\ "dead" \notin missed /\ challenge[modal.id].wrong >= MaxWrong =>
       modal.dead \/ \E r \in sent : r.kind = "verify" /\ r.answer = "dead" /\ r.id = modal.id

\* A code that was right is told, or was lost on the way back.
RightIsTold ==
  \A c \in Challenges : challenge[c].right =>
    \/ modal.step = "in" \/ "ok" \in missed
    \/ \E r \in sent : r.kind = "verify" /\ r.answer = "ok"

CInv ==
  /\ CodeTyped
  /\ \A c \in Challenges : ChallengeIsMade(c)
  /\ \A r \in sent : CodeRequestIsSound(r) /\ SignInIsOne(r)
  /\ ModalIsSound /\ RightIsTold
  /\ modal.step = "code" /\ ~swapped =>
       ModalIsFresh /\ \A r \in sent : CodeRequestIsFresh(r)

-----------------------------------------------------------------------------
LEMMA CodeParts ==
  /\ CodeLength \in Nat \ {0} /\ MaxWrong \in Nat \ {0} /\ MaxMails \in Nat \ {0}
  /\ MaxCodeMoves \in Nat /\ MaxCodeLost \in Nat
  /\ \A c \in Challenges : c \in Nat \ {0}
  /\ \A d \in Digits : d \in Nat \ {0}
  /\ 1 \in 1..MaxMails /\ 0 \in 0..MaxWrong /\ 0 \in 0..MaxMails /\ 1 \in 0..MaxMails
  BY CodeStepAssumption

LEMMA BoxesEmpty == NoDigits \in [Boxes -> Digits \union {0}] /\ ~IsFull(NoDigits)
  <1>1. 1 \in Boxes
    BY CodeParts DEF Boxes
  <1> QED
    BY <1>1 DEF NoDigits, IsFull

LEMMA CodeStarts ==
  ASSUME CodeInit
  PROVE  CInv
  <1>1. NotMade \in ChallengeRecords
    BY CodeParts DEF NotMade, ChallengeRecords
  <1>2. Opened \in ModalRecords
    BY CodeParts DEF Opened, ModalRecords
  <1>3. CodeTyped
    <2>1. challenge \in [Challenges -> ChallengeRecords]
      BY <1>1 DEF CodeInit
    <2>2. codeMoves \in 0..MaxCodeMoves /\ codeLost \in 0..MaxCodeLost
      BY CodeParts DEF CodeInit
    <2> QED
      BY <1>2, <2>1, <2>2, BoxesEmpty DEF CodeInit, CodeTyped
  <1>4. \A c \in Challenges : ~challenge[c].made /\ ~challenge[c].open /\ ~challenge[c].right
    BY DEF CodeInit, NotMade
  <1>5. \A c \in Challenges : ChallengeIsMade(c)
    BY <1>4 DEF ChallengeIsMade
  <1>6. modal.step = "password"
    BY DEF CodeInit, Opened
  <1>7. ModalIsSound /\ RightIsTold
    BY <1>4, <1>6 DEF ModalIsSound, RightIsTold, CodeInit
  <1> QED
    BY <1>3, <1>5, <1>6, <1>7 DEF CInv, CodeInit

\* A request sent from where the modal is.
LEMMA RequestPosted ==
  ASSUME CInv, NEW kind \in {"login", "verify", "resend"},
         NEW code \in [Boxes -> Digits \union {0}], Post(kind, code)
  PROVE  \E q \in CodeRequests :
           /\ sent' = sent \union {q} /\ q.kind = kind /\ q.id = modal.id
           /\ q.mounted = modal.mounted /\ q.at = "sent" /\ q.answer = "none"
  <1> DEFINE q == [kind |-> kind, id |-> modal.id, code |-> code, mounted |-> modal.mounted,
                   at |-> "sent", answer |-> "none", mails |-> 0]
  <1>1. q \in CodeRequests
    BY CodeParts DEF CodeRequests, CInv, CodeTyped, ModalRecords
  <1>2. sent' = sent \union {q}
    BY DEF Post
  <1> QED
    BY <1>1, <1>2

LEMMA OneCodeMove ==
  ASSUME CodeTyped, CodeMove
  PROVE  codeMoves' \in 0..MaxCodeMoves
  BY CodeParts DEF CodeMove, CodeTyped

LEMMA PasswordIsGiven ==
  ASSUME CInv, SubmitPassword
  PROVE  CInv'
  <1> USE DEF CInv
  <1>1. /\ modal.step = "password" /\ ~modal.submitting /\ Post("login", NoDigits)
        /\ UNCHANGED <<challenge, boxes, swapped, missed, codeLost>>
        /\ modal' = [modal EXCEPT !.submitting = TRUE]
    BY DEF SubmitPassword
  <1>2. PICK q \in CodeRequests :
          /\ sent' = sent \union {q} /\ q.kind = "login" /\ q.id = modal.id
          /\ q.mounted = modal.mounted /\ q.at = "sent" /\ q.answer = "none"
    BY <1>1, RequestPosted, BoxesEmpty
  <1>3. /\ modal' \in ModalRecords /\ modal'.step = "password" /\ modal'.submitting
        /\ modal'.mounted = modal.mounted /\ modal'.id = modal.id
    BY <1>1 DEF CodeTyped, ModalRecords
  <1>4. CodeTyped'
    BY <1>1, <1>2, <1>3, OneCodeMove DEF CodeTyped, SubmitPassword
  <1>5. \A c \in Challenges : ChallengeIsMade(c)'
    BY <1>1 DEF ChallengeIsMade
  <1>6. \A r \in sent' : CodeRequestIsSound(r)'
    <2>1. ASSUME NEW r \in sent PROVE CodeRequestIsSound(r)'
      BY <1>1, <1>3, <2>1 DEF CodeRequestIsSound
    <2>2. CodeRequestIsSound(q)'
      BY <1>1, <1>2, <1>3 DEF CodeRequestIsSound, CodeTyped, ModalRecords
    <2> QED
      BY <1>2, <2>1, <2>2
  <1>7. ModalIsSound' /\ RightIsTold'
    BY <1>1, <1>2, <1>3 DEF ModalIsSound, RightIsTold
  <1>8. ASSUME NEW r \in sent' PROVE SignInIsOne(r)'
    <2>1. \A p \in sent : p.kind # "login"
      BY <1>1 DEF SignInIsOne
    <2> QED
      BY <1>2, <1>3, <2>1 DEF SignInIsOne
  <1> QED
    BY <1>3, <1>4, <1>5, <1>6, <1>7, <1>8

\* From the code step, a code or a new one is asked for; the boxes may be full
\* only while a code is being checked.
LEMMA AskedFromTheStep ==
  ASSUME CInv, modal.step = "code", NEW kind \in {"verify", "resend"},
         NEW code \in [Boxes -> Digits \union {0}], Post(kind, code),
         UNCHANGED <<challenge, swapped, missed, codeLost>>, codeMoves' \in 0..MaxCodeMoves,
         modal' \in ModalRecords, modal'.step = "code", modal'.id = modal.id,
         modal'.submitting = modal.submitting,
         modal'.dead = modal.dead, modal'.mounted = modal.mounted,
         boxes' \in [Boxes -> Digits \union {0}], IsFull(boxes') => modal'.verifying
  PROVE  CInv'
  <1> USE DEF CInv
  <1>1. PICK q \in CodeRequests :
          /\ sent' = sent \union {q} /\ q.kind = kind /\ q.id = modal.id
          /\ q.mounted = modal.mounted /\ q.at = "sent" /\ q.answer = "none"
    BY RequestPosted
  <1>2. CodeTyped'
    BY <1>1 DEF CodeTyped
  <1>3. \A c \in Challenges : ChallengeIsMade(c)'
    BY DEF ChallengeIsMade
  <1>4. \A r \in sent' : CodeRequestIsSound(r)'
    <2>1. ASSUME NEW r \in sent PROVE CodeRequestIsSound(r)'
      BY <2>1 DEF CodeRequestIsSound
    <2>2. CodeRequestIsSound(q)'
      BY <1>1 DEF CodeRequestIsSound, CodeTyped, ModalRecords, ModalIsSound
    <2> QED
      BY <1>1, <2>1, <2>2
  <1>5. ModalIsSound' /\ RightIsTold'
    BY <1>1 DEF ModalIsSound, RightIsTold
  <1>6. ASSUME NEW r \in sent' PROVE SignInIsOne(r)'
    BY <1>1, <1>6 DEF SignInIsOne
  <1>7. ASSUME ~swapped' PROVE ModalIsFresh' /\ \A r \in sent' : CodeRequestIsFresh(r)'
    <2>1. ModalIsFresh /\ \A r \in sent : CodeRequestIsFresh(r)
      BY <1>7
    <2>2. ModalIsFresh'
      BY <1>1, <2>1 DEF ModalIsFresh
    <2> QED
      BY <1>1, <2>1, <2>2 DEF CodeRequestIsFresh
  <1> QED
    BY <1>2, <1>3, <1>4, <1>5, <1>6, <1>7

LEMMA DigitsFilled ==
  ASSUME CodeTyped, NEW incoming \in Incoming, NEW i \in Boxes
  PROVE  Fill(i, incoming) \in [Boxes -> Digits \union {0}]
  <1>1. PICK n \in 1..CodeLength : incoming \in [1..n -> Digits]
    BY DEF Incoming
  <1>2. n \in Nat /\ Len(incoming) = n
    BY <1>1, CodeParts
  <1>3. \A j \in Boxes : j \in i..(i + n - 1) => j - i + 1 \in 1..n
    BY <1>2, CodeParts DEF Boxes
  <1> QED
    BY <1>1, <1>2, <1>3 DEF Fill, CodeTyped

LEMMA CodeIsEntered ==
  ASSUME CInv, NEW i \in Boxes, NEW incoming \in Incoming, Enters(i, incoming)
  PROVE  CInv'
  <1> DEFINE start == IF Len(incoming) >= CodeLength THEN 1 ELSE i
             next == Fill(start, incoming)
  <1>1. start \in Boxes
    BY CodeParts DEF Boxes
  <1>2. next \in [Boxes -> Digits \union {0}]
    BY <1>1, DigitsFilled DEF CInv
  <1>3. /\ boxes' = next /\ modal.step = "code" /\ ~modal.verifying
        /\ IF IsFull(next)
           THEN modal' = [modal EXCEPT !.verifying = TRUE] /\ Post("verify", next)
           ELSE UNCHANGED <<modal, sent>>
        /\ UNCHANGED <<challenge, swapped, missed, codeLost>>
    BY DEF Enters
  <1>4. codeMoves' \in 0..MaxCodeMoves
    BY OneCodeMove DEF Enters, CInv
  <1> HIDE DEF next
  <1>5. CASE IsFull(next)
    <2>1. modal' = [modal EXCEPT !.verifying = TRUE] /\ Post("verify", next)
      BY <1>3, <1>5
    <2>2. /\ modal' \in ModalRecords /\ modal'.step = "code" /\ modal'.id = modal.id
          /\ modal'.dead = modal.dead /\ modal'.mounted = modal.mounted /\ modal'.verifying
          /\ modal'.submitting = modal.submitting
      BY <1>3, <2>1 DEF CInv, CodeTyped, ModalRecords
    <2> QED
      BY <1>2, <1>3, <1>4, <2>1, <2>2, AskedFromTheStep
  <1>6. CASE ~IsFull(next)
    <2> USE DEF CInv
    <2>1. CodeTyped'
      BY <1>2, <1>3, <1>4, <1>6 DEF CodeTyped
    <2>2. UNCHANGED <<challenge, modal, sent, swapped, missed>>
      BY <1>3, <1>6
    <2>3. ModalIsSound'
      BY <1>3, <1>6, <2>2 DEF ModalIsSound
    <2> QED
      BY <2>1, <2>2, <2>3
         DEF ChallengeIsMade, CodeRequestIsSound, SignInIsOne, CodeRequestIsFresh, ModalIsFresh,
             RightIsTold
  <1> QED
    BY <1>5, <1>6

LEMMA AnotherIsAskedFor ==
  ASSUME CInv, AskAgain
  PROVE  CInv'
  <1>1. /\ modal' \in ModalRecords /\ modal'.step = "code" /\ modal'.id = modal.id
        /\ modal'.dead = modal.dead /\ modal'.mounted = modal.mounted
        /\ modal'.verifying = modal.verifying /\ modal'.submitting = modal.submitting
    BY DEF CInv, CodeTyped, ModalRecords, AskAgain
  <1>2. /\ Post("resend", NoDigits) /\ UNCHANGED <<challenge, boxes, swapped, missed, codeLost>>
        /\ modal.step = "code" /\ codeMoves' \in 0..MaxCodeMoves
    BY OneCodeMove DEF CInv, AskAgain
  <1>3. boxes' \in [Boxes -> Digits \union {0}] /\ (IsFull(boxes') => modal'.verifying)
    BY <1>1, <1>2 DEF CInv, CodeTyped, ModalIsSound
  <1> QED
    BY <1>1, <1>2, <1>3, BoxesEmpty, AskedFromTheStep

\* A digit taken out, and back to the password.
LEMMA StepIsLeft ==
  ASSUME CInv, GoBack \/ (\E i \in Boxes : Erase(i)) \/ UNCHANGED codeVars
  PROVE  CInv'
  <1> USE DEF CInv
  <1>1. ASSUME NEW i \in Boxes, Erase(i) PROVE CInv'
    <2>1. UNCHANGED <<challenge, modal, sent, swapped, missed, codeLost>> /\ modal.step = "code"
      BY <1>1 DEF Erase
    <2>2. PICK j \in Boxes : boxes' = [boxes EXCEPT ![j] = 0]
      <3>1. CASE boxes[i] # 0
        BY <1>1, <3>1 DEF Erase
      <3>2. CASE boxes[i] = 0
        <4>1. i > 1 /\ boxes' = [boxes EXCEPT ![i - 1] = 0]
          BY <1>1, <3>2 DEF Erase
        <4>2. i - 1 \in Boxes
          BY <4>1, CodeParts DEF Boxes
        <4> QED
          BY <4>1, <4>2
      <3> QED
        BY <3>1, <3>2
    <2>3. boxes' \in [Boxes -> Digits \union {0}] /\ ~IsFull(boxes')
      BY <2>2 DEF CodeTyped, IsFull
    <2>4. CodeTyped'
      BY <1>1, <2>1, <2>3, OneCodeMove DEF CodeTyped, Erase
    <2>5. ModalIsSound'
      BY <2>1, <2>3 DEF ModalIsSound
    <2> QED
      BY <2>1, <2>4, <2>5
         DEF ChallengeIsMade, CodeRequestIsSound, SignInIsOne, CodeRequestIsFresh, ModalIsFresh,
             RightIsTold
  <1>2. CASE GoBack
    <2>1. /\ UNCHANGED <<challenge, sent, swapped, missed, codeLost>> /\ boxes' = NoDigits
          /\ modal.step = "code"
      BY <1>2 DEF GoBack
    <2>2. /\ modal' \in ModalRecords /\ modal'.step = "password"
          /\ modal'.mounted = modal.mounted /\ modal'.submitting = modal.submitting
      BY <1>2, CodeParts DEF GoBack, CodeTyped, ModalRecords, Opened
    <2>3. CodeTyped'
      BY <1>2, <2>1, <2>2, OneCodeMove, BoxesEmpty DEF CodeTyped, GoBack
    <2>4. ModalIsSound' /\ RightIsTold'
      BY <2>1, <2>2 DEF ModalIsSound, RightIsTold
    <2>5. \A r \in sent' : CodeRequestIsSound(r)' /\ SignInIsOne(r)'
      BY <2>1, <2>2 DEF CodeRequestIsSound, SignInIsOne
    <2> QED
      BY <2>1, <2>2, <2>3, <2>4, <2>5 DEF ChallengeIsMade
  <1>3. CASE UNCHANGED codeVars
    BY <1>3 DEF codeVars, CodeTyped, ChallengeIsMade, CodeRequestIsSound, SignInIsOne,
       CodeRequestIsFresh, ModalIsSound, ModalIsFresh, RightIsTold
  <1> QED
    BY <1>1, <1>2, <1>3

-----------------------------------------------------------------------------
\* A challenge only gains wrong guesses, and stays made and right.
ChallengesGrow ==
  \A c \in Challenges :
    /\ challenge[c].made => challenge'[c].made
    /\ challenge[c].made => challenge'[c].wrong >= challenge[c].wrong
    /\ challenge[c].right => challenge'[c].right

\* What is in flight besides, when the challenges only grow.
LEMMA OthersStand ==
  ASSUME CInv, ChallengesGrow, challenge' \in [Challenges -> ChallengeRecords],
         UNCHANGED modal, NEW r \in sent
  PROVE  CodeRequestIsSound(r)'
  <1>1. CodeRequestIsSound(r) /\ r \in CodeRequests
    BY DEF CInv, CodeTyped
  <1>2. r.answer = "dead" => r.id \in Challenges /\ challenge[r.id].made
    BY <1>1 DEF CodeRequestIsSound
  <1>3. r.answer = "dead" => challenge'[r.id].wrong >= MaxWrong
    <2> SUFFICES ASSUME r.answer = "dead" PROVE challenge'[r.id].wrong >= MaxWrong
      OBVIOUS
    <2>1. /\ challenge[r.id].wrong \in Nat /\ challenge'[r.id].wrong \in Nat
          /\ challenge[r.id].wrong >= MaxWrong /\ challenge'[r.id].wrong >= challenge[r.id].wrong
      BY <1>1, <1>2 DEF CInv, CodeTyped, ChallengeRecords, ChallengesGrow, CodeRequestIsSound
    <2> QED
      BY <2>1, CodeParts
  <1>4. r.kind = "verify" /\ r.answer = "ok" => challenge'[r.id].right
    BY <1>1 DEF CodeRequestIsSound, ChallengesGrow
  <1>5. r.id \in Challenges /\ challenge[r.id].made => challenge'[r.id].made
    BY DEF ChallengesGrow
  <1> QED
    BY <1>1, <1>3, <1>4, <1>5 DEF CodeRequestIsSound

LEMMA ModalStands ==
  ASSUME CInv, ChallengesGrow, challenge' \in [Challenges -> ChallengeRecords],
         UNCHANGED <<modal, boxes>>
  PROVE  /\ ModalIsSound'
         /\ ModalIsFresh /\ modal.step = "code" =>
              (modal.dead => challenge'[modal.id].wrong >= MaxWrong)
  <1>1. ModalIsSound'
    BY DEF CInv, ModalIsSound, ChallengesGrow
  <1>2. ASSUME ModalIsFresh, modal.step = "code", modal.dead
        PROVE  challenge'[modal.id].wrong >= MaxWrong
    <2>1. modal.id \in Challenges /\ challenge[modal.id].made
      BY <1>2 DEF CInv, ModalIsSound
    <2>2. /\ challenge[modal.id].wrong \in Nat /\ challenge'[modal.id].wrong \in Nat
          /\ challenge[modal.id].wrong >= MaxWrong
          /\ challenge'[modal.id].wrong >= challenge[modal.id].wrong
      BY <1>2, <2>1 DEF CInv, CodeTyped, ChallengeRecords, ChallengesGrow, ModalIsFresh
    <2> QED
      BY <2>2, CodeParts
  <1> QED
    BY <1>1, <1>2

LEMMA AnswerIsSent ==
  ASSUME NEW r \in CodeRequests, NEW id \in Challenges, challenge'[id].mails \in 0..MaxMails,
         NEW answer \in {"ok", "dead", "expired", "wrong", "soon"}, Answers(r, answer, id)
  PROVE  \E a \in CodeRequests :
           /\ sent' = (sent \ {r}) \union {a}
           /\ a.kind = r.kind /\ a.id = id /\ a.at = "answered"
           /\ a.answer = answer /\ a.mounted = r.mounted
  <1>1. PICK n \in 0..MaxMails : n = challenge'[id].mails
    OBVIOUS
  <1> DEFINE a == [r EXCEPT !.at = "answered", !.answer = answer, !.id = id, !.mails = n]
  <1>2. sent' = (sent \ {r}) \union {a}
    BY <1>1 DEF Answers
  <1>3. /\ a \in CodeRequests /\ a.kind = r.kind /\ a.id = id /\ a.at = "answered"
        /\ a.answer = answer /\ a.mounted = r.mounted
    BY <1>1 DEF CodeRequests
  <1> QED
    BY <1>2, <1>3

LEMMA SignInIsServed ==
  ASSUME CInv, NEW r \in sent, r.at = "sent", r.kind = "login", Serve(r)
  PROVE  CInv'
  <1> USE DEF CInv
  <1>1. PICK c \in Challenges :
          /\ ~challenge[c].made /\ \A d \in Challenges : d < c => challenge[d].made
          /\ challenge' = [d \in Challenges |->
               IF d = c THEN [NotMade EXCEPT !.made = TRUE, !.open = TRUE, !.fresh = TRUE,
                                             !.cooling = TRUE, !.mails = 1]
               ELSE [challenge[d] EXCEPT !.open = FALSE]]
          /\ Answers(r, "ok", c)
    BY DEF Serve, ServeLogin
  <1>2. UNCHANGED <<modal, boxes, swapped, missed, codeMoves, codeLost>>
    BY DEF Serve
  <1>3. r \in CodeRequests /\ CodeRequestIsSound(r) /\ SignInIsOne(r)
    BY DEF CodeTyped
  <1>4. /\ challenge'[c] \in ChallengeRecords /\ challenge'[c].made /\ challenge'[c].open
        /\ challenge'[c].cooling /\ ~challenge'[c].right /\ challenge'[c].mails \in 0..MaxMails
        /\ challenge'[c].wrong = 0
    BY <1>1, CodeParts DEF NotMade, ChallengeRecords
  <1>5. ASSUME NEW d \in Challenges \ {c}
        PROVE  /\ challenge'[d] \in ChallengeRecords
               /\ challenge'[d].made = challenge[d].made /\ ~challenge'[d].open
               /\ challenge'[d].wrong = challenge[d].wrong
               /\ challenge'[d].cooling = challenge[d].cooling
               /\ challenge'[d].mails = challenge[d].mails
               /\ challenge'[d].right = challenge[d].right
    BY <1>1, <1>5 DEF CodeTyped, ChallengeRecords
  <1>6. challenge' \in [Challenges -> ChallengeRecords]
    <2>1. challenge' = [d \in Challenges |-> challenge'[d]]
      BY <1>1
    <2> QED
      BY <1>4, <1>5, <2>1
  <1>7. ChallengesGrow
    <2>1. ~challenge[c].right
      BY <1>1 DEF ChallengeIsMade
    <2>2. \A d \in Challenges : challenge[d].wrong \in Nat
      BY DEF CodeTyped, ChallengeRecords
    <2> QED
      BY <1>1, <1>4, <1>5, <2>1, <2>2 DEF ChallengesGrow
  <1>8. PICK a \in CodeRequests :
          /\ sent' = (sent \ {r}) \union {a}
          /\ a.kind = "login" /\ a.id = c /\ a.at = "answered"
          /\ a.answer = "ok" /\ a.mounted = r.mounted
    <2>1. Answers(r, "ok", c) /\ "ok" \in {"ok", "dead", "expired", "wrong", "soon"}
      BY <1>1
    <2>2. \E a \in CodeRequests :
            /\ sent' = (sent \ {r}) \union {a}
            /\ a.kind = r.kind /\ a.id = c /\ a.at = "answered"
            /\ a.answer = "ok" /\ a.mounted = r.mounted
      BY ONLY <1>3, <1>4, <2>1, AnswerIsSent
    <2> QED
      BY <2>2
  <1>10. CodeTyped'
    BY <1>2, <1>6, <1>8 DEF CodeTyped
  <1>11. ASSUME NEW d \in Challenges PROVE ChallengeIsMade(d)'
    <2>1. \A e \in Challenges : e < d /\ challenge'[d].made => challenge'[e].made
      <3> SUFFICES ASSUME NEW e \in Challenges, e < d, challenge'[d].made
                   PROVE  challenge'[e].made
        OBVIOUS
      <3>1. CASE d = c
        BY <1>1, <1>7, <3>1 DEF ChallengesGrow
      <3>2. CASE d # c
        BY <1>5, <1>7, <3>2 DEF ChallengesGrow, ChallengeIsMade
      <3> QED
        BY <3>1, <3>2
    <2> QED
      BY <1>4, <1>5, <2>1 DEF ChallengeIsMade
  <1>12. \A q \in sent' : CodeRequestIsSound(q)'
    <2>1. \A q \in sent : CodeRequestIsSound(q)'
      BY <1>2, <1>6, <1>7, OthersStand
    <2>2. CodeRequestIsSound(a)'
      BY <1>2, <1>3, <1>4, <1>8 DEF CodeRequestIsSound
    <2> QED
      BY <1>8, <2>1, <2>2
  <1>13. ModalIsSound'
    BY <1>2, <1>6, <1>7, ModalStands
  <1>14. RightIsTold'
    <2>1. \A d \in Challenges : challenge'[d].right => challenge[d].right
      BY <1>4, <1>5
    <2>2. \A q \in sent : q.kind = "verify" => q \in sent'
      BY <1>8
    <2> QED
      BY <1>2, <2>1, <2>2 DEF RightIsTold
  <1>15. \A d \in Challenges : challenge'[d].made => d <= c
    <2> SUFFICES ASSUME NEW d \in Challenges, challenge'[d].made, ~(d <= c) PROVE FALSE
      OBVIOUS
    <2>1. d \in Nat /\ c \in Nat
      BY CodeParts
    <2>2. c < d /\ challenge[d].made
      BY <1>5, <2>1
    <2> QED
      BY <1>1, <2>2 DEF ChallengeIsMade
  <1>16. \A q \in sent : q.kind = "login" => q = r
    BY <1>3 DEF SignInIsOne
  <1>17. ASSUME NEW q \in sent' PROVE SignInIsOne(q)'
    <2>1. CASE q # a
      BY <1>8, <1>16, <2>1 DEF SignInIsOne
    <2>2. CASE q = a
      <3>1. \A p \in sent' : p.kind = "login" => p = a
        BY <1>8, <1>16
      <3>2. \A p \in sent' : p.kind # "login" => p.id # c
        BY <1>1, <1>8 DEF CodeRequestIsSound
      <3>3. modal'.submitting /\ (modal'.step = "code" => modal'.id # c)
        BY <1>1, <1>2, <1>3 DEF SignInIsOne, ModalIsSound
      <3> QED
        BY <1>4, <1>8, <1>15, <2>2, <3>1, <3>2, <3>3 DEF SignInIsOne
    <2> QED
      BY <2>1, <2>2
  <1>18. modal.step = "code" => swapped
    BY DEF CodeRequestIsFresh
  <1> QED
    BY <1>2, <1>10, <1>11, <1>12, <1>13, <1>14, <1>17, <1>18

\* check and resendLogin answer; a challenge may be changed, never made.
LEMMA CodeIsAnswered ==
  ASSUME CInv, NEW r \in sent, r.kind # "login", r.at = "sent",
         NEW answer \in {"ok", "dead", "expired", "wrong", "soon"}, Answers(r, answer, r.id),
         UNCHANGED <<modal, boxes, swapped, missed, codeMoves, codeLost>>,
         challenge' \in [Challenges -> ChallengeRecords], ChallengesGrow,
         \A c \in Challenges : ChallengeIsMade(c)',
         \A c \in Challenges : challenge'[c].made => challenge[c].made,
         \A c \in Challenges : challenge'[c].right =>
           challenge[c].right \/ (c = r.id /\ r.kind = "verify" /\ answer = "ok"),
         answer = "dead" => challenge'[r.id].wrong >= MaxWrong,
         r.kind = "verify" /\ answer = "ok" => challenge'[r.id].right,
         \A c \in Challenges : challenge'[c].wrong = challenge[c].wrong
           \/ (c = r.id /\ r.kind = "verify" /\ (challenge'[c].wrong >= MaxWrong => answer = "dead"))
  PROVE  CInv'
  <1> USE DEF CInv
  <1>1. r \in CodeRequests /\ CodeRequestIsSound(r) /\ r.id \in Challenges /\ challenge[r.id].made
    BY DEF CodeTyped, CodeRequestIsSound
  <1>2. challenge'[r.id].mails \in 0..MaxMails
    BY <1>1 DEF ChallengeRecords
  <1>3. PICK a \in CodeRequests :
          /\ sent' = (sent \ {r}) \union {a}
          /\ a.kind = r.kind /\ a.id = r.id /\ a.at = "answered"
          /\ a.answer = answer /\ a.mounted = r.mounted
    BY <1>1, <1>2, AnswerIsSent
  <1>4. CodeTyped'
    BY <1>3 DEF CodeTyped
  <1>5. \A q \in sent' : CodeRequestIsSound(q)'
    <2>1. \A q \in sent : CodeRequestIsSound(q)'
      BY OthersStand
    <2>2. CodeRequestIsSound(a)'
      BY <1>1, <1>3 DEF CodeRequestIsSound, ChallengesGrow
    <2> QED
      BY <1>3, <2>1, <2>2
  <1>6. ModalIsSound'
    BY ModalStands
  <1>7. r.answer = "none"
    BY <1>1 DEF CodeRequestIsSound
  <1>8. RightIsTold'
    <2>1. ASSUME NEW c \in Challenges, challenge'[c].right
          PROVE  \/ modal.step = "in" \/ "ok" \in missed
                 \/ \E q \in sent' : q.kind = "verify" /\ q.answer = "ok"
      <3>1. CASE challenge[c].right
        BY <1>3, <1>7, <3>1 DEF RightIsTold
      <3>2. CASE c = r.id /\ r.kind = "verify" /\ answer = "ok"
        BY <1>3, <3>2
      <3> QED
        BY <2>1, <3>1, <3>2
    <2> QED
      BY <2>1 DEF RightIsTold
  <1>9. ASSUME NEW q \in sent' PROVE SignInIsOne(q)'
    <2> SUFFICES ASSUME q.kind = "login" PROVE SignInIsOne(q)'
      BY DEF SignInIsOne
    <2>1. q \in sent /\ q # a /\ SignInIsOne(q) /\ CodeRequestIsSound(q)
      BY <1>3
    <2>2. \A p \in sent' : (p.kind = "login" => p = q)
      BY <1>3, <2>1 DEF SignInIsOne
    <2>3. ASSUME q.answer = "ok"
          PROVE  /\ challenge'[q.id].wrong = 0
                 /\ \A c \in Challenges : challenge'[c].made => c <= q.id
                 /\ \A p \in sent' : p.kind # "login" => p.id # q.id
      BY <1>3, <2>1, <2>3 DEF SignInIsOne, CodeRequestIsSound
    <2> QED
      BY <2>1, <2>2, <2>3 DEF SignInIsOne
  <1>10. ASSUME modal'.step = "code", ~swapped'
         PROVE  ModalIsFresh' /\ \A q \in sent' : CodeRequestIsFresh(q)'
    <2>1. ModalIsFresh /\ \A q \in sent : CodeRequestIsFresh(q)
      BY <1>10
    <2>2. ASSUME "dead" \notin missed, challenge'[modal.id].wrong >= MaxWrong, ~modal.dead
          PROVE  \E q \in sent' : q.kind = "verify" /\ q.answer = "dead" /\ q.id = modal.id
      <3>1. modal.id \in Challenges
        BY <1>10 DEF ModalIsSound
      <3>2. CASE challenge'[modal.id].wrong = challenge[modal.id].wrong
        BY <1>3, <1>7, <2>1, <2>2, <3>2 DEF ModalIsFresh
      <3>3. CASE modal.id = r.id /\ r.kind = "verify" /\ answer = "dead"
        BY <1>3, <3>3
      <3> QED
        BY <2>2, <3>1, <3>2, <3>3
    <2>3. modal.dead => challenge'[modal.id].wrong >= MaxWrong
      BY <1>10, <2>1, ModalStands
    <2>4. ModalIsFresh'
      BY <2>1, <2>2, <2>3 DEF ModalIsFresh
    <2>5. \A q \in sent' : CodeRequestIsFresh(q)'
      BY <1>3, <2>1 DEF CodeRequestIsFresh
    <2> QED
      BY <2>4, <2>5
  <1> QED
    BY <1>4, <1>5, <1>6, <1>8, <1>9, <1>10

LEMMA CodeIsServed ==
  ASSUME CInv, NEW r \in sent, r.kind # "login", r.at = "sent", Serve(r)
  PROVE  CInv'
  <1>1. /\ r.id \in Challenges /\ challenge[r.id].made /\ challenge[r.id] \in ChallengeRecords
        /\ challenge \in [Challenges -> ChallengeRecords] /\ r.kind \in {"verify", "resend"}
    BY DEF CInv, CodeTyped, CodeRequestIsSound, CodeRequests
  <1>2. ServeCode(r) /\ UNCHANGED <<modal, boxes, swapped, missed, codeMoves, codeLost>>
    BY DEF Serve
  <1>3. challenge[r.id].wrong \in 0..MaxWrong /\ challenge[r.id].mails \in 0..MaxMails
    BY <1>1 DEF ChallengeRecords
  <1>4. ASSUME NEW answer \in {"dead", "expired", "soon"}, UNCHANGED challenge,
               Answers(r, answer, r.id),
               answer = "dead" => challenge[r.id].wrong >= MaxWrong
        PROVE  CInv'
    <2>1. \A c \in Challenges : challenge[c].wrong \in Nat
      BY <1>1 DEF ChallengeRecords
    <2>2. ChallengesGrow
      BY <1>4, <2>1 DEF ChallengesGrow
    <2>3. \A c \in Challenges : ChallengeIsMade(c)'
      BY <1>4 DEF CInv, ChallengeIsMade
    <2> QED
      BY <1>1, <1>2, <1>4, <2>2, <2>3, CodeIsAnswered
  <1>5. ASSUME NEW d \in ChallengeRecords,
               challenge' = [challenge EXCEPT ![r.id] = d], d.made,
               d.wrong >= challenge[r.id].wrong, challenge[r.id].right => d.right,
               ~d.cooling => d.mails < MaxMails,
               NEW answer \in {"ok", "dead", "wrong"}, Answers(r, answer, r.id),
               d.right => challenge[r.id].right \/ (r.kind = "verify" /\ answer = "ok"),
               answer = "dead" => d.wrong >= MaxWrong,
               r.kind = "verify" /\ answer = "ok" => d.right,
               \/ d.wrong = challenge[r.id].wrong
               \/ r.kind = "verify" /\ (d.wrong >= MaxWrong => answer = "dead")
        PROVE  CInv'
    <2>1. /\ challenge' \in [Challenges -> ChallengeRecords] /\ challenge'[r.id] = d
          /\ \A c \in Challenges \ {r.id} : challenge'[c] = challenge[c]
      BY <1>1, <1>5
    <2>2. \A c \in Challenges : challenge[c].wrong \in Nat
      BY <1>1 DEF ChallengeRecords
    <2>3. ChallengesGrow
      BY <1>5, <2>1, <2>2 DEF ChallengesGrow
    <2>4. ASSUME NEW c \in Challenges PROVE ChallengeIsMade(c)'
      BY <1>1, <1>5, <2>1 DEF CInv, ChallengeIsMade
    <2>5. \A c \in Challenges : challenge'[c].made => challenge[c].made
      BY <1>1, <2>1
    <2>6. \A c \in Challenges : challenge'[c].right =>
            challenge[c].right \/ (c = r.id /\ r.kind = "verify" /\ answer = "ok")
      BY <1>5, <2>1
    <2>7. \A c \in Challenges : challenge'[c].wrong = challenge[c].wrong
            \/ (c = r.id /\ r.kind = "verify" /\ (challenge'[c].wrong >= MaxWrong => answer = "dead"))
      BY <1>5, <2>1
    <2> QED
      BY <1>2, <1>5, <2>1, <2>3, <2>4, <2>5, <2>6, <2>7, CodeIsAnswered
  <1> DEFINE c == challenge[r.id]
  <1>6. ChallengeIsMade(r.id)
    BY <1>1 DEF CInv
  <1>7. CASE /\ ~(c.wrong >= MaxWrong) /\ c.open /\ r.kind = "verify" /\ c.fresh
             /\ r.code = MailedCode(c.mails)
    <2> DEFINE d == [challenge[r.id] EXCEPT !.open = FALSE, !.right = TRUE]
    <2>1. challenge' = [challenge EXCEPT ![r.id] = d] /\ Answers(r, "ok", r.id)
      BY <1>1, <1>2, <1>7 DEF ServeCode
    <2>2. /\ d \in ChallengeRecords /\ d.made /\ d.wrong = challenge[r.id].wrong /\ d.right
          /\ d.cooling = challenge[r.id].cooling /\ d.mails = challenge[r.id].mails
      BY <1>1 DEF ChallengeRecords
    <2> HIDE DEF d
    <2>3. d.wrong >= challenge[r.id].wrong /\ (~d.cooling => d.mails < MaxMails)
      BY <1>1, <1>3, <1>6, <2>2 DEF ChallengeIsMade
    <2> QED
      BY <1>5, <1>7, <2>1, <2>2, <2>3
  <1>8. CASE /\ ~(c.wrong >= MaxWrong) /\ c.open /\ r.kind = "verify" /\ c.fresh
             /\ r.code # MailedCode(c.mails)
    <2> DEFINE d == [challenge[r.id] EXCEPT !.wrong = challenge[r.id].wrong + 1]
               answer == IF challenge[r.id].wrong + 1 >= MaxWrong THEN "dead" ELSE "wrong"
    <2>1. challenge' = [challenge EXCEPT ![r.id] = d] /\ Answers(r, answer, r.id)
      BY <1>1, <1>2, <1>8 DEF ServeCode
    <2>2. challenge[r.id].wrong + 1 \in 0..MaxWrong
      BY <1>3, <1>8, CodeParts
    <2>3. /\ d \in ChallengeRecords /\ d.made /\ d.wrong = challenge[r.id].wrong + 1
          /\ d.right = challenge[r.id].right
          /\ d.cooling = challenge[r.id].cooling /\ d.mails = challenge[r.id].mails
      BY <1>1, <2>2 DEF ChallengeRecords
    <2>4. answer \in {"dead", "wrong"} /\ (answer = "dead" <=> d.wrong >= MaxWrong)
      BY <2>3
    <2> HIDE DEF d, answer
    <2>5. d.wrong >= challenge[r.id].wrong /\ (~d.cooling => d.mails < MaxMails)
      BY <1>1, <1>3, <1>6, <2>3 DEF ChallengeIsMade
    <2> QED
      BY <1>5, <1>8, <2>1, <2>3, <2>4, <2>5
  <1>9. CASE ~(c.wrong >= MaxWrong) /\ c.open /\ r.kind = "resend" /\ ~c.cooling
    <2> DEFINE d == [challenge[r.id] EXCEPT !.fresh = TRUE, !.cooling = TRUE,
                                            !.mails = challenge[r.id].mails + 1]
    <2>1. challenge' = [challenge EXCEPT ![r.id] = d] /\ Answers(r, "ok", r.id)
      BY <1>1, <1>2, <1>9 DEF ServeCode
    <2>2. challenge[r.id].mails + 1 \in 0..MaxMails
      BY <1>1, <1>3, <1>6, <1>9, CodeParts DEF ChallengeIsMade
    <2>3. /\ d \in ChallengeRecords /\ d.made /\ d.wrong = challenge[r.id].wrong
          /\ d.right = challenge[r.id].right /\ d.cooling
      BY <1>1, <2>2 DEF ChallengeRecords
    <2> HIDE DEF d
    <2>4. d.wrong >= challenge[r.id].wrong
      BY <1>3, <2>3
    <2> QED
      BY <1>5, <1>9, <2>1, <2>3, <2>4
  <1>10. CASE /\ UNCHANGED challenge
              /\ \/ c.wrong >= MaxWrong /\ Answers(r, "dead", r.id)
                 \/ Answers(r, "expired", r.id) \/ Answers(r, "soon", r.id)
    BY <1>4, <1>10
  <1> QED
    BY <1>2, <1>7, <1>8, <1>9, <1>10 DEF ServeCode

LEMMA TimePasses ==
  ASSUME CInv, NEW c \in Challenges, Passes(c)
  PROVE  CInv'
  <1> USE DEF CInv
  <1>1. UNCHANGED <<modal, boxes, sent, swapped, missed, codeMoves, codeLost>>
    BY DEF Passes
  <1>2. challenge \in [Challenges -> ChallengeRecords]
    BY DEF CodeTyped
  <1>3. PICK d \in ChallengeRecords :
          /\ challenge' = [challenge EXCEPT ![c] = d]
          /\ d.made = challenge[c].made /\ d.open = challenge[c].open
          /\ d.wrong = challenge[c].wrong /\ d.mails = challenge[c].mails
          /\ d.right = challenge[c].right
          /\ ~d.cooling => ~challenge[c].cooling \/ challenge[c].mails < MaxMails
    <2>1. CASE challenge[c].mails < MaxMails /\ challenge' = [challenge EXCEPT ![c].cooling = FALSE]
      <3> DEFINE d == [challenge[c] EXCEPT !.cooling = FALSE]
      <3>1. d \in ChallengeRecords /\ d.made = challenge[c].made /\ d.open = challenge[c].open
            /\ d.wrong = challenge[c].wrong /\ d.mails = challenge[c].mails
            /\ d.right = challenge[c].right
        BY <1>2 DEF ChallengeRecords
      <3> QED
        BY <2>1, <3>1
    <2>2. CASE ~challenge[c].cooling /\ challenge' = [challenge EXCEPT ![c].fresh = FALSE]
      <3> DEFINE d == [challenge[c] EXCEPT !.fresh = FALSE]
      <3>1. d \in ChallengeRecords /\ d.made = challenge[c].made /\ d.open = challenge[c].open
            /\ d.wrong = challenge[c].wrong /\ d.mails = challenge[c].mails
            /\ d.right = challenge[c].right
        BY <1>2 DEF ChallengeRecords
      <3> QED
        BY <2>2, <3>1
    <2> QED
      BY <2>1, <2>2 DEF Passes
  <1>4. /\ challenge' \in [Challenges -> ChallengeRecords] /\ challenge'[c] = d
        /\ \A b \in Challenges \ {c} : challenge'[b] = challenge[b]
    BY <1>2, <1>3
  <1>5. \A b \in Challenges : challenge[b].wrong \in Nat
    BY <1>2 DEF ChallengeRecords
  <1>6. ChallengesGrow
    BY <1>3, <1>4, <1>5 DEF ChallengesGrow
  <1>7. ASSUME NEW b \in Challenges PROVE ChallengeIsMade(b)'
    BY <1>3, <1>4 DEF ChallengeIsMade
  <1>8. \A r \in sent' : CodeRequestIsSound(r)'
    BY <1>1, <1>4, <1>6, OthersStand
  <1>9. CodeTyped' /\ ModalIsSound'
    BY <1>1, <1>4, <1>6, ModalStands DEF CodeTyped
  <1>10. \A b \in Challenges :
           /\ challenge'[b].made <=> challenge[b].made
           /\ challenge'[b].right <=> challenge[b].right
           /\ challenge'[b].wrong = challenge[b].wrong
    BY <1>3, <1>4
  <1>11. RightIsTold'
    BY <1>1, <1>10 DEF RightIsTold
  <1>12. ASSUME NEW r \in sent' PROVE SignInIsOne(r)'
    BY <1>1, <1>10, <1>12 DEF SignInIsOne, CodeRequestIsSound
  <1>13. ASSUME modal'.step = "code", ~swapped'
         PROVE  ModalIsFresh' /\ \A r \in sent' : CodeRequestIsFresh(r)'
    <2>1. ModalIsFresh /\ (\A r \in sent : CodeRequestIsFresh(r)) /\ modal.id \in Challenges
      BY <1>1, <1>13 DEF ModalIsSound
    <2>2. ModalIsFresh'
      BY <1>1, <1>10, <2>1 DEF ModalIsFresh
    <2> QED
      BY <1>1, <2>1, <2>2 DEF CodeRequestIsFresh
  <1> QED
    BY <1>7, <1>8, <1>9, <1>11, <1>12, <1>13

\* An answer that leaves the step on screen and whose challenge it is.
LEMMA AnswerLeavesTheStep ==
  ASSUME CInv, NEW r \in sent, sent' = sent \ {r},
         UNCHANGED <<challenge, swapped, missed, codeMoves, codeLost>>,
         modal' \in ModalRecords, modal'.step = modal.step, modal'.id = modal.id,
         modal'.mounted = modal.mounted, modal'.submitting = modal.submitting \/ r.kind = "login",
         boxes' \in {boxes, NoDigits}, modal'.verifying = modal.verifying \/ boxes' = NoDigits,
         modal.step = "code" /\ ~swapped =>
           /\ modal'.dead => modal.dead \/ challenge[modal.id].wrong >= MaxWrong
           /\ modal.dead \/ (r.answer = "dead" /\ r.id = modal.id) => modal'.dead,
         r.kind = "verify" /\ r.answer = "ok" => modal.step = "in"
  PROVE  CInv'
  <1> USE DEF CInv
  <1>1. CodeTyped'
    BY BoxesEmpty DEF CodeTyped
  <1>2. \A c \in Challenges : ChallengeIsMade(c)'
    BY DEF ChallengeIsMade
  <1>3. \A q \in sent' : CodeRequestIsSound(q)'
    BY DEF CodeRequestIsSound
  <1>4. ModalIsSound' /\ RightIsTold'
    BY BoxesEmpty DEF ModalIsSound, RightIsTold
  <1>5. ASSUME NEW q \in sent' PROVE SignInIsOne(q)'
    <2>1. r.kind = "login" => q.kind # "login"
      BY <1>5 DEF SignInIsOne
    <2> QED
      BY <1>5, <2>1 DEF SignInIsOne
  <1>6. ASSUME modal'.step = "code", ~swapped'
        PROVE  ModalIsFresh' /\ \A q \in sent' : CodeRequestIsFresh(q)'
    <2>1. ModalIsFresh /\ \A q \in sent : CodeRequestIsFresh(q)
      BY <1>6
    <2>2. ModalIsFresh'
      BY <1>6, <2>1 DEF ModalIsFresh
    <2> QED
      BY <2>1, <2>2 DEF CodeRequestIsFresh
  <1> QED
    BY <1>1, <1>2, <1>3, <1>4, <1>5, <1>6

LEMMA AnswerIsHeard ==
  ASSUME CInv, NEW r \in sent, CodeAnswer(r)
  PROVE  CInv'
  <1> USE DEF CInv
  <1>1. /\ r.at = "answered" /\ sent' = sent \ {r}
        /\ UNCHANGED <<challenge, missed, codeMoves, codeLost>>
        /\ r \in CodeRequests /\ CodeRequestIsSound(r) /\ SignInIsOne(r) /\ modal \in ModalRecords
    BY DEF CodeAnswer, CodeTyped
  <1>2. CASE PasswordTaken(r) /\ r.answer = "ok" /\ modal.step = "password"
    <2>1. /\ r.kind = "login" /\ UNCHANGED boxes /\ swapped' = FALSE
          /\ modal' = [Opened EXCEPT !.step = "code", !.id = r.id, !.mails = r.mails,
                                     !.mounted = modal.mounted + 1]
      BY <1>2 DEF PasswordTaken
    <2>2. /\ modal' \in ModalRecords /\ modal'.step = "code" /\ modal'.id = r.id
          /\ ~modal'.dead /\ modal'.mounted = modal.mounted + 1
      <3>1. PICK n \in Nat : n = modal.mounted + 1
        BY <1>1 DEF ModalRecords
      <3>2. modal' = [Opened EXCEPT !.step = "code", !.id = r.id, !.mails = r.mails, !.mounted = n]
        BY <2>1, <3>1
      <3>3. r.id \in Challenges \union {0} /\ r.mails \in 0..MaxMails /\ Opened \in ModalRecords
        BY <1>1, CodeParts DEF CodeRequests, Opened, ModalRecords
      <3>4. ~Opened.dead
        BY DEF Opened
      <3> QED
        BY <3>1, <3>2, <3>3, <3>4 DEF ModalRecords
    <2>3. boxes' = NoDigits /\ r.id \in Challenges /\ challenge[r.id].made
      BY <1>1, <1>2, <2>1 DEF ModalIsSound, CodeRequestIsSound
    <2>4. CodeTyped'
      BY <1>1, <2>1, <2>2 DEF CodeTyped
    <2>5. \A c \in Challenges : ChallengeIsMade(c)'
      BY <1>1 DEF ChallengeIsMade
    <2>6. ASSUME NEW q \in sent' PROVE CodeRequestIsSound(q)' /\ q.mounted < modal'.mounted
      <3>1. q \in sent /\ q \in CodeRequests /\ CodeRequestIsSound(q)
        BY <1>1, <2>6 DEF CodeTyped
      <3>2. q.mounted <= modal.mounted /\ q.mounted \in Nat /\ modal.mounted \in Nat
        BY <1>1, <3>1 DEF CodeRequestIsSound, CodeRequests, ModalRecords
      <3>3. q.mounted <= modal'.mounted /\ q.mounted < modal'.mounted
        BY <2>2, <3>2
      <3> QED
        BY <1>1, <3>1, <3>3 DEF CodeRequestIsSound
    <2>7. ModalIsSound' /\ RightIsTold'
      BY <1>1, <1>2, <2>1, <2>2, <2>3, BoxesEmpty DEF ModalIsSound, RightIsTold
    <2>8. \A q \in sent' : q.kind # "login" /\ q.id # r.id
      BY <1>1, <1>2, <2>1 DEF SignInIsOne
    <2>9. \A q \in sent' : SignInIsOne(q)'
      BY <2>8 DEF SignInIsOne
    <2>10. challenge[r.id].wrong = 0 /\ ~(0 >= MaxWrong)
      BY <1>1, <1>2, <2>1, CodeParts DEF SignInIsOne
    <2>11. ModalIsFresh'
      BY <1>1, <1>2, <2>1, <2>2, <2>10 DEF ModalIsFresh, SignInIsOne
    <2>12. ASSUME NEW q \in sent' PROVE CodeRequestIsFresh(q)'
      <3>1. modal'.mounted \in Nat /\ q.mounted < modal'.mounted
        BY <2>2, <2>6 DEF ModalRecords
      <3>2. q.mounted # modal'.mounted
        BY <3>1
      <3> QED
        BY <2>2, <2>8, <3>2 DEF CodeRequestIsFresh
    <2> QED
      BY <2>4, <2>5, <2>6, <2>7, <2>9, <2>11, <2>12
  <1>9. CASE PasswordTaken(r) /\ r.answer = "ok" /\ modal.step = "code"
    <2>1. /\ r.kind = "login" /\ UNCHANGED <<boxes, swapped>>
          /\ modal' = [modal EXCEPT !.submitting = FALSE, !.id = r.id, !.mails = r.mails]
      BY <1>9 DEF PasswordTaken
    <2>2. /\ modal' \in ModalRecords /\ modal'.step = "code" /\ modal'.id = r.id
          /\ modal'.mounted = modal.mounted /\ modal'.verifying = modal.verifying
      BY <1>1, <1>9, <2>1 DEF ModalRecords, CodeRequests
    <2>3. r.id \in Challenges /\ challenge[r.id].made
      BY <1>1, <1>9, <2>1 DEF CodeRequestIsSound
    <2>4. CodeTyped' /\ \A c \in Challenges : ChallengeIsMade(c)'
      BY <1>1, <2>1, <2>2 DEF CodeTyped, ChallengeIsMade
    <2>5. \A q \in sent' : CodeRequestIsSound(q)'
      BY <1>1, <2>2 DEF CodeRequestIsSound
    <2>6. ModalIsSound' /\ RightIsTold'
      BY <1>1, <1>9, <2>1, <2>2, <2>3 DEF ModalIsSound, RightIsTold
    <2>7. \A q \in sent' : SignInIsOne(q)'
      BY <1>1, <2>1 DEF SignInIsOne
    <2>8. swapped'
      BY <1>9, <2>1 DEF CodeRequestIsFresh
    <2> QED
      BY <2>4, <2>5, <2>6, <2>7, <2>8
  <1>3. CASE PasswordTaken(r) /\ r.answer # "ok"
    <2>1. /\ r.kind = "login" /\ UNCHANGED <<boxes, swapped>>
          /\ modal' = [modal EXCEPT !.submitting = FALSE]
      BY <1>3 DEF PasswordTaken
    <2>2. /\ modal' \in ModalRecords /\ modal'.step = modal.step /\ modal'.id = modal.id
          /\ modal'.mounted = modal.mounted /\ modal'.verifying = modal.verifying
          /\ modal'.dead = modal.dead
      BY <1>1, <2>1 DEF ModalRecords
    <2>3. r.answer # "dead"
      BY <1>1, <2>1 DEF CodeRequestIsSound
    <2> QED
      BY <1>1, <2>1, <2>2, <2>3, AnswerLeavesTheStep
  <1>4. CASE (CodeRefused(r) \/ ResendRefused(r)) /\ Asking(r)
    <2>1. /\ r.kind # "login" /\ r.answer # "ok" /\ modal.step = "code"
          /\ modal.mounted = r.mounted /\ swapped' = swapped /\ boxes' \in {boxes, NoDigits}
      BY <1>4 DEF CodeRefused, ResendRefused, Asking
    <2>2. /\ modal' \in ModalRecords /\ modal'.step = modal.step /\ modal'.id = modal.id
          /\ modal'.mounted = modal.mounted /\ modal'.submitting = modal.submitting
          /\ modal'.dead <=> modal.dead \/ r.answer = "dead"
          /\ modal'.verifying = modal.verifying \/ boxes' = NoDigits
      <3>1. CASE CodeRefused(r)
        <4>1. modal' = [modal EXCEPT !.verifying = FALSE, !.dead = @ \/ r.answer = "dead"]
              /\ boxes' = NoDigits
          BY <1>4, <3>1 DEF CodeRefused
        <4> QED
          BY <1>1, <4>1 DEF ModalRecords
      <3>2. CASE ResendRefused(r)
        <4>1. modal' = [modal EXCEPT !.resending = FALSE, !.dead = @ \/ r.answer = "dead"]
          BY <1>4, <3>2 DEF ResendRefused
        <4> QED
          BY <1>1, <4>1 DEF ModalRecords
      <3> QED
        BY <1>4, <3>1, <3>2
    <2>3. ~swapped /\ r.answer = "dead" => challenge[modal.id].wrong >= MaxWrong
      BY <1>1, <2>1 DEF CodeRequestIsFresh, CodeRequestIsSound
    <2> QED
      BY <1>1, <2>1, <2>2, <2>3, AnswerLeavesTheStep
  <1>5. CASE \/ (CodeRefused(r) \/ ResendRefused(r)) /\ ~Asking(r)
             \/ Unheard(r)
    <2>1. UNCHANGED <<modal, boxes, swapped>> /\ ~(r.kind = "verify" /\ r.answer = "ok")
      BY <1>5 DEF CodeRefused, ResendRefused, Unheard
    <2>2. /\ modal' \in ModalRecords /\ modal'.step = modal.step /\ modal'.id = modal.id
          /\ modal'.mounted = modal.mounted /\ modal'.submitting = modal.submitting
          /\ modal'.verifying = modal.verifying /\ modal'.dead = modal.dead /\ boxes' = boxes
          /\ swapped' = swapped
      BY <1>1, <2>1
    <2>3. modal.step = "code" /\ ~swapped =>
            /\ modal.dead => modal.dead \/ challenge[modal.id].wrong >= MaxWrong
            /\ r.answer = "dead" /\ r.id = modal.id => modal.dead
      <3> SUFFICES ASSUME modal.step = "code", ~swapped, r.answer = "dead", r.id = modal.id
                   PROVE  FALSE
        OBVIOUS
      <3>1. r.kind # "login" /\ Asking(r)
        BY DEF CodeRequestIsFresh, Asking
      <3> QED
        BY <1>5, <3>1 DEF Unheard
    <2> QED
      BY <1>1, <2>1, <2>2, <2>3, AnswerLeavesTheStep
  <1>6. CASE CodeTaken(r)
    <2>1. /\ r.kind = "verify" /\ r.answer = "ok" /\ UNCHANGED <<boxes, swapped>>
          /\ modal' = [modal EXCEPT !.step = "in", !.verifying = FALSE]
      BY <1>6 DEF CodeTaken
    <2>2. /\ modal' \in ModalRecords /\ modal'.step = "in" /\ modal'.mounted = modal.mounted
          /\ modal'.submitting = modal.submitting
      BY <1>1, <2>1 DEF ModalRecords
    <2>3. r.id \in Challenges /\ challenge[r.id].right
      BY <1>1, <2>1 DEF CodeRequestIsSound
    <2>4. CodeTyped' /\ ModalIsSound' /\ RightIsTold'
      BY <1>1, <2>1, <2>2, <2>3 DEF CodeTyped, ModalIsSound, RightIsTold
    <2>5. \A c \in Challenges : ChallengeIsMade(c)'
      BY <1>1 DEF ChallengeIsMade
    <2>6. \A q \in sent' : CodeRequestIsSound(q)' /\ SignInIsOne(q)'
      BY <1>1, <2>2 DEF CodeRequestIsSound, SignInIsOne
    <2> QED
      BY <2>2, <2>4, <2>5, <2>6
  <1>7. CASE Resent(r) /\ Asking(r)
    <2>1. /\ r.kind = "resend" /\ r.answer = "ok" /\ modal.step = "code"
          /\ modal.mounted = r.mounted /\ boxes' = NoDigits /\ swapped' = swapped
          /\ modal' = [modal EXCEPT !.resending = FALSE, !.mails = r.mails, !.id = r.id]
      BY <1>7 DEF Resent, Asking
    <2>2. /\ modal' \in ModalRecords /\ modal'.step = "code" /\ modal'.id = r.id
          /\ modal'.mounted = modal.mounted /\ modal'.dead = modal.dead
          /\ modal'.submitting = modal.submitting
      BY <1>1, <2>1 DEF ModalRecords, CodeRequests
    <2>3. r.id \in Challenges /\ challenge[r.id].made
      BY <1>1, <2>1 DEF CodeRequestIsSound
    <2>4. CodeTyped' /\ ModalIsSound' /\ RightIsTold'
      BY <1>1, <2>1, <2>2, <2>3, BoxesEmpty DEF CodeTyped, ModalIsSound, RightIsTold
    <2>5. \A c \in Challenges : ChallengeIsMade(c)'
      BY <1>1 DEF ChallengeIsMade
    <2>6. \A q \in sent' : CodeRequestIsSound(q)' /\ SignInIsOne(q)'
      BY <1>1, <2>1, <2>2 DEF CodeRequestIsSound, SignInIsOne
    <2>7. ASSUME ~swapped' PROVE ModalIsFresh' /\ \A q \in sent' : CodeRequestIsFresh(q)'
      <3>1. ModalIsFresh /\ \A q \in sent : CodeRequestIsFresh(q)
        BY <2>1, <2>7
      <3>2. r.id = modal.id
        BY <2>1, <3>1 DEF CodeRequestIsFresh
      <3>3. ModalIsFresh'
        BY <1>1, <2>1, <2>2, <3>1, <3>2 DEF ModalIsFresh
      <3> QED
        BY <1>1, <2>1, <2>2, <3>1, <3>2, <3>3 DEF CodeRequestIsFresh
    <2> QED
      BY <2>4, <2>5, <2>6, <2>7
  <1>8. CASE Resent(r) /\ ~Asking(r)
    <2>1. /\ r.kind = "resend" /\ r.answer = "ok" /\ modal.step # "in"
          /\ boxes' = boxes /\ swapped' = TRUE
          /\ modal' = [modal EXCEPT !.step = "code", !.id = r.id, !.mails = r.mails,
                        !.mounted = IF modal.step = "code" THEN @ ELSE @ + 1]
      BY <1>8 DEF Resent
    <2>2. /\ modal' \in ModalRecords /\ modal'.step = "code" /\ modal'.id = r.id
          /\ modal'.mounted >= modal.mounted /\ modal'.verifying = modal.verifying
          /\ modal'.submitting = modal.submitting
      <3>1. modal.mounted \in Nat
        BY <1>1 DEF ModalRecords
      <3>2. PICK n \in Nat : n = IF modal.step = "code" THEN modal.mounted ELSE modal.mounted + 1
        BY <3>1
      <3>3. modal' = [modal EXCEPT !.step = "code", !.id = r.id, !.mails = r.mails, !.mounted = n]
        BY <2>1, <3>2
      <3>4. r.id \in Challenges \union {0} /\ r.mails \in 0..MaxMails
        BY <1>1 DEF CodeRequests
      <3>5. n >= modal.mounted
        BY <3>1, <3>2
      <3> QED
        BY <1>1, <3>2, <3>3, <3>4, <3>5 DEF ModalRecords
    <2>3. r.id \in Challenges /\ challenge[r.id].made
      BY <1>1, <2>1 DEF CodeRequestIsSound
    <2>4. IsFull(boxes) => modal.verifying
      BY <2>1, <1>1, BoxesEmpty DEF ModalIsSound, ModalRecords
    <2>5. CodeTyped' /\ ModalIsSound' /\ RightIsTold'
      BY <1>1, <2>1, <2>2, <2>3, <2>4, BoxesEmpty DEF CodeTyped, ModalIsSound, RightIsTold
    <2>6. \A c \in Challenges : ChallengeIsMade(c)'
      BY <1>1 DEF ChallengeIsMade
    <2>7. ASSUME NEW q \in sent' PROVE CodeRequestIsSound(q)'
      <3>1. q \in sent /\ q \in CodeRequests /\ CodeRequestIsSound(q)
        BY <1>1, <2>7 DEF CodeTyped
      <3>2. q.mounted <= modal'.mounted
        BY <1>1, <2>2, <3>1 DEF CodeRequestIsSound, CodeRequests, ModalRecords
      <3> QED
        BY <1>1, <3>1, <3>2 DEF CodeRequestIsSound
    <2>8. \A q \in sent' : SignInIsOne(q)'
      BY <1>1, <2>1, <2>2 DEF SignInIsOne
    <2> QED
      BY <2>1, <2>5, <2>6, <2>7, <2>8
  <1> QED
    BY <1>1, <1>2, <1>3, <1>4, <1>5, <1>6, <1>7, <1>8, <1>9 DEF CodeAnswer, PasswordTaken, ModalRecords

\* Lost on the way there, nothing comes of it; lost on the way back, it is noted.
LEMMA CodeIsLost ==
  ASSUME CInv, NEW r \in sent, LoseCode(r)
  PROVE  CInv'
  <1> USE DEF CInv
  <1>1. r \in CodeRequests /\ CodeRequestIsSound(r)
    BY DEF CodeTyped
  <1> DEFINE a == [r EXCEPT !.at = "answered", !.answer = "lost"]
  <1>2. /\ sent' = (sent \ {r}) \union {a} /\ UNCHANGED <<challenge, modal, boxes, swapped, codeMoves>>
        /\ missed' = IF r.kind = "verify" /\ r.answer \in {"ok", "dead"}
                     THEN missed \union {r.answer} ELSE missed
        /\ codeLost < MaxCodeLost /\ codeLost' = codeLost + 1
    BY DEF LoseCode
  <1>3. /\ a \in CodeRequests /\ a.kind = r.kind /\ a.id = r.id /\ a.mounted = r.mounted
        /\ a.at = "answered" /\ a.answer = "lost"
    BY <1>1 DEF CodeRequests
  <1> HIDE DEF a
  <1>4. CodeTyped'
    <2>1. codeLost' \in 0..MaxCodeLost
      BY <1>2, CodeParts DEF CodeTyped
    <2>2. missed' \subseteq {"ok", "dead"}
      BY <1>2 DEF CodeTyped
    <2> QED
      BY <1>2, <1>3, <2>1, <2>2 DEF CodeTyped
  <1>5. \A c \in Challenges : ChallengeIsMade(c)'
    BY <1>2 DEF ChallengeIsMade
  <1>6. \A q \in sent' : CodeRequestIsSound(q)'
    <2>1. \A q \in sent : CodeRequestIsSound(q)'
      BY <1>2 DEF CodeRequestIsSound
    <2>2. CodeRequestIsSound(a)'
      BY <1>1, <1>2, <1>3 DEF CodeRequestIsSound
    <2> QED
      BY <1>2, <2>1, <2>2
  <1>7. ModalIsSound' /\ RightIsTold'
    BY <1>2, <1>3 DEF ModalIsSound, RightIsTold
  <1>8. ASSUME NEW q \in sent' PROVE SignInIsOne(q)'
    <2>1. SignInIsOne(r) /\ \A p \in sent : SignInIsOne(p)
      OBVIOUS
    <2>2. a.kind = "login" => \A p \in sent' : p.kind = "login" => p = a
      BY <1>2, <1>3, <2>1 DEF SignInIsOne
    <2>3. CASE q = a
      BY <1>2, <1>3, <2>1, <2>2, <2>3 DEF SignInIsOne
    <2>4. CASE q # a
      BY <1>2, <1>3, <2>1, <2>4 DEF SignInIsOne
    <2> QED
      BY <2>3, <2>4
  <1>9. ASSUME modal'.step = "code", ~swapped'
        PROVE  ModalIsFresh' /\ \A q \in sent' : CodeRequestIsFresh(q)'
    <2>1. ModalIsFresh /\ \A q \in sent : CodeRequestIsFresh(q)
      BY <1>2, <1>9
    <2>2. ModalIsFresh'
      BY <1>2, <2>1 DEF ModalIsFresh
    <2> QED
      BY <1>2, <1>3, <2>1, <2>2 DEF CodeRequestIsFresh
  <1> QED
    BY <1>4, <1>5, <1>6, <1>7, <1>8, <1>9

LEMMA CodeGoesOn ==
  ASSUME CInv, [CodeNext]_codeVars
  PROVE  CInv'
  <1>1. ASSUME NEW r \in sent, Serve(r) PROVE CInv'
    BY <1>1, SignInIsServed, CodeIsServed DEF Serve
  <1> QED
    BY <1>1, PasswordIsGiven, AnotherIsAskedFor, StepIsLeft, CodeIsEntered, AnswerIsHeard,
       CodeIsLost, TimePasses DEF CodeNext

LEMMA CodeStepIsRight ==
  ASSUME CInv
  PROVE  CodeTypeOK /\ CodeStepHolds
  <1>1. CodeTypeOK
    BY DEF CInv, CodeTyped, CodeTypeOK, ModalRecords, ChallengeRecords
  <1>2. modal.step = "code" /\ IsFull(boxes) => modal.verifying
    BY DEF CInv, ModalIsSound
  <1>3. modal.step = "code" /\ ~swapped =>
          /\ modal.dead => challenge[modal.id].wrong >= MaxWrong
          /\ \A c \in Challenges : challenge[c].made => c <= modal.id
          /\ sent = {} /\ "dead" \notin missed /\ challenge[modal.id].wrong >= MaxWrong => modal.dead
    BY DEF CInv, ModalIsFresh
  <1>4. modal.step = "in" => \E c \in Challenges : challenge[c].right
    BY DEF CInv, ModalIsSound
  <1>5. sent = {} /\ "ok" \notin missed /\ (\E c \in Challenges : challenge[c].right) =>
          modal.step = "in"
    BY DEF CInv, RightIsTold
  <1> QED
    BY <1>1, <1>2, <1>3, <1>4, <1>5 DEF CodeStepHolds

-----------------------------------------------------------------------------
\* SecurityPage.  Two-factor is turned on and off by the dialog the page would
\* open: a change the page has not heard of is the answer in flight, and only one.

\* The codes of a purpose, and a request of the page or of a dialog.
CodeRecords == [open : BOOLEAN, tries : 0..MaxTries, cooling : BOOLEAN, number : Nat]
AccountRecords == [on : BOOLEAN, devices : SUBSET Devices, codes : [Purposes -> CodeRecords]]
DialogRecords == [purpose : Purposes \union {"none"}, opened : Nat, busy : BOOLEAN,
                  coded : BOOLEAN, done : BOOLEAN]

SecurityCalls ==
  [to : {"status", "list", "reload", "revoke", "startEnable", "startDisable", "enable", "disable"},
   about : Devices \union {"none", "all", "right", "wrong", "password"}, code : Nat,
   opened : Nat, at : {"sent", "answered"}, ok : BOOLEAN, on : BOOLEAN,
   devices : SUBSET Devices]

SecurityTyped ==
  /\ account \in AccountRecords /\ settings \in PageShown /\ dialog \in DialogRecords
  /\ inFlight \subseteq SecurityCalls /\ outpaced \in BOOLEAN
  /\ clicks \in 0..MaxClicks /\ securityLost \in 0..MaxSecurityLost

\* What is open fits the account: codes to turn it on while it is off, and the
\* other way round.
CodesFit ==
  \A p \in Purposes :
    account.codes[p].open => account.codes[p].number > 0 /\ (account.on <=> p = "disable")

\* A code given that would be taken.
Live(c) ==
  /\ c.to \in Purposes /\ c.at = "sent"
  /\ account.codes[c.to].open /\ c.code = account.codes[c.to].number

Turned(c) == c.to \in Purposes /\ c.ok

OfTheList(c) == c.to \in {"revoke", "reload"}

PurposeOf(c) == CASE c.to \in {"startEnable", "enable"} -> "enable"
                  [] c.to \in {"startDisable", "disable"} -> "disable"
                  [] OTHER -> "none"

\* What the page says is on is not what is on: the change is not heard of yet.
Heeded == settings.on <=> account.on

\* The purpose of a dialog the page would open.
Offered == IF settings.on THEN "disable" ELSE "enable"

CallFits(c) ==
  /\ c.at = "sent" => ~c.ok
  /\ c.to \in Purposes => c.code <= account.codes[c.to].number
  /\ c.opened <= dialog.opened
  /\ PurposeOf(c) # "none" /\ Asked(c) => dialog.purpose = PurposeOf(c)
  /\ Live(c) => Heeded /\ dialog.purpose \in {"none", c.to}
  /\ Turned(c) => /\ ~Heeded /\ (account.on <=> c.to = "enable")
                  /\ c.to = "disable" => account.devices = {}
  /\ c \in Loads => settings.at = "loading"
  /\ c \in Loads /\ c.ok => (c.on <=> account.on) /\ c.devices = account.devices
  /\ OfTheList(c) => settings.busy # "none"

CallsFit ==
  /\ \A c \in inFlight : CallFits(c)
  /\ \A c, d \in inFlight :
       (Turned(c) /\ Turned(d)) \/ (OfTheList(c) /\ OfTheList(d)) => c = d

PageFits ==
  /\ settings.at # "ready" =>
       dialog.purpose = "none" /\ settings.busy = "none" /\ inFlight = Loads
  /\ settings.at = "ready" /\ ~Heeded => dialog.purpose \in {"none", Offered}
  /\ dialog.coded => dialog.purpose # "none"
  /\ dialog.done => dialog.purpose = "enable" /\ account.on

\* A list that may differ from the server's is on its way to be read again, or
\* to be emptied.
ListIsDue ==
  \E c \in inFlight : c.to = "reload" \/ (c.ok /\ c.to \in {"revoke", "disable"})

ChangeIsDue ==
  settings.at = "ready" /\ ~outpaced =>
    /\ ~Heeded => \E c \in inFlight : Turned(c)
    /\ settings.devices = account.devices \/ ListIsDue
    /\ \A c \in inFlight : c.to = "reload" /\ c.ok =>
         c.devices = account.devices \/ \E d \in inFlight : d.to = "disable" /\ d.ok

SecInv == SecurityTyped /\ CodesFit /\ CallsFit /\ PageFits /\ ChangeIsDue

-----------------------------------------------------------------------------
LEMMA SecurityParts ==
  /\ MaxTries \in Nat \ {0} /\ MaxClicks \in Nat /\ MaxSecurityLost \in Nat
  /\ 0 \in 0..MaxClicks /\ 0 \in 0..MaxSecurityLost /\ 0 \in 0..MaxTries
  /\ \A d \in Devices : d # "none" /\ d # "all"
  BY SecurityAssumption

LEMMA OneClick ==
  ASSUME SecurityTyped, Click
  PROVE  clicks' \in 0..MaxClicks
  BY SecurityParts DEF Click, SecurityTyped

LEMMA CallIsMade ==
  ASSUME NEW to \in {"status", "list", "reload", "revoke", "startEnable", "startDisable",
                     "enable", "disable"},
         NEW about \in Devices \union {"none", "all", "right", "wrong", "password"},
         NEW opened \in Nat
  PROVE  /\ Call(to, about, opened) \in SecurityCalls
         /\ Call(to, about, opened).to = to /\ Call(to, about, opened).opened = opened
         /\ Call(to, about, opened).code = 0 /\ Call(to, about, opened).at = "sent"
         /\ ~Call(to, about, opened).ok
  BY DEF Call, SecurityCalls

LEMMA SecurityStarts ==
  ASSUME SecurityInit
  PROVE  SecInv
  <1>1. NoCode \in CodeRecords /\ NoDialog \in DialogRecords /\ NoDialog.purpose = "none"
        /\ NoDialog.opened = 0 /\ ~NoDialog.coded /\ ~NoDialog.done
    BY SecurityParts DEF NoCode, CodeRecords, NoDialog, DialogRecords
  <1>2. PICK on \in BOOLEAN :
          account = [on |-> on, devices |-> IF on THEN Devices ELSE {},
                     codes |-> [p \in Purposes |-> NoCode]]
    BY DEF SecurityInit
  <1>3. account \in AccountRecords /\ \A p \in Purposes : ~account.codes[p].open
    BY <1>1, <1>2 DEF AccountRecords, NoCode
  <1>4. settings \in PageShown /\ settings.at = "loading" /\ settings.busy = "none"
    BY DEF SecurityInit, PageShown
  <1>5. \A c \in inFlight : c \in SecurityCalls /\ c \in Loads /\ ~c.ok /\ c.opened = 0
    BY CallIsMade DEF SecurityInit, Loads
  <1>6. SecurityTyped
    BY <1>1, <1>3, <1>4, <1>5, SecurityParts DEF SecurityTyped, SecurityInit
  <1>7. CodesFit
    BY <1>3 DEF CodesFit
  <1>8. CallsFit
    BY <1>1, <1>4, <1>5
       DEF CallsFit, CallFits, Loads, SecurityInit, Live, Turned, OfTheList, PurposeOf, Purposes
  <1>9. PageFits /\ ChangeIsDue
    BY <1>1, <1>4, <1>5 DEF PageFits, ChangeIsDue, SecurityInit, Loads
  <1> QED
    BY <1>6, <1>7, <1>8, <1>9 DEF SecInv

\* A call more, of which nothing is true yet; the page and the dialog are drawn
\* anew.
LEMMA MoreIsAsked ==
  ASSUME SecInv, NEW new, new \subseteq SecurityCalls, inFlight' = inFlight \union new,
         UNCHANGED <<account, outpaced, securityLost>>, clicks' \in 0..MaxClicks,
         settings' \in PageShown, dialog' \in DialogRecords,
         settings'.on = settings.on, settings'.devices = settings.devices,
         dialog'.opened = dialog.opened, dialog'.purpose = dialog.purpose,
         dialog'.coded = dialog.coded, dialog'.done = dialog.done,
         settings'.busy = "none" => settings.busy = "none",
         \A c \in inFlight : c \in Loads => settings'.at = "loading",
         settings'.at = "ready" <=> settings.at = "ready",
         settings'.at # "ready" => settings'.busy = "none",
         \A c \in new : /\ c.at = "sent" /\ ~c.ok /\ c.opened <= dialog.opened
                        /\ CallFits(c)'
                        /\ settings'.at # "ready" => c.to \in {"status", "list"},
         \A c, d \in new : OfTheList(c) /\ OfTheList(d) => c = d,
         (\E c \in new : OfTheList(c)) => settings.busy = "none"
  PROVE  SecInv'
  <1> USE DEF SecInv
  <1>1. SecurityTyped'
    BY DEF SecurityTyped
  <1>2. CodesFit'
    BY DEF CodesFit
  <1>3. \A c \in inFlight : CallFits(c)'
    BY DEF CallsFit, CallFits, Live, Turned, Heeded, Loads, OfTheList, Asked
  <1>4. CallsFit'
    BY <1>3 DEF CallsFit, CallFits, Turned, OfTheList
  <1>5. PageFits'
    BY DEF PageFits, Loads, Heeded, Offered
  <1>6. ChangeIsDue'
    BY DEF ChangeIsDue, Heeded, Turned, ListIsDue
  <1> QED
    BY <1>1, <1>2, <1>4, <1>5, <1>6

\* One call more.
LEMMA OneIsAsked ==
  ASSUME SecInv, NEW q \in SecurityCalls, inFlight' = inFlight \union {q},
         UNCHANGED <<account, outpaced, securityLost>>, clicks' \in 0..MaxClicks,
         settings.at = "ready", settings' \in PageShown, dialog' \in DialogRecords,
         settings'.on = settings.on, settings'.devices = settings.devices,
         dialog'.opened = dialog.opened, dialog'.purpose = dialog.purpose,
         dialog'.coded = dialog.coded, dialog'.done = dialog.done,
         settings'.busy = "none" => settings.busy = "none", settings'.at = "ready",
         q.at = "sent", ~q.ok, q.opened <= dialog.opened, CallFits(q)',
         OfTheList(q) => settings.busy = "none"
  PROVE  SecInv'
  <1> DEFINE new == {q}
  <1>1. new \subseteq SecurityCalls /\ inFlight' = inFlight \union new
    OBVIOUS
  <1>2. \A c \in new : c = q
    OBVIOUS
  <1> HIDE DEF new
  <1>3. \A c \in inFlight : c \notin Loads
    BY DEF SecInv, CallsFit, CallFits
  <1>4. \A c \in new : c.at = "sent" /\ ~c.ok /\ c.opened <= dialog.opened /\ CallFits(c)'
    BY <1>2
  <1>5. /\ \A c, d \in new : OfTheList(c) /\ OfTheList(d) => c = d
        /\ (\E c \in new : OfTheList(c)) => settings.busy = "none"
    BY <1>2
  <1> QED
    BY <1>1, <1>3, <1>4, <1>5, MoreIsAsked

LEMMA PageIsTriedAgain ==
  ASSUME SecInv, RetryLoad
  PROVE  SecInv'
  <1> DEFINE new == {Call("status", "none", 0), Call("list", "none", 0)}
  <1>1. /\ settings' \in PageShown /\ settings'.at = "loading" /\ settings'.on = settings.on
        /\ settings'.devices = settings.devices /\ settings'.busy = settings.busy
        /\ settings.at = "failed" /\ settings.busy = "none"
    BY DEF RetryLoad, SecInv, SecurityTyped, PageShown, PageFits
  <1>2. /\ UNCHANGED <<account, dialog, outpaced, securityLost>> /\ clicks' \in 0..MaxClicks
        /\ inFlight' = inFlight \union new
    BY OneClick DEF RetryLoad, SecInv
  <1>3. \A c \in new : /\ c \in SecurityCalls /\ c.to \in {"status", "list"} /\ c.at = "sent"
                       /\ ~c.ok /\ c.opened = 0
    BY CallIsMade
  <1> HIDE DEF new
  <1>4. 0 <= dialog.opened /\ dialog \in DialogRecords
    BY DEF SecInv, SecurityTyped, DialogRecords
  <1>5. \A c \in new : CallFits(c)'
    BY <1>1, <1>2, <1>3, <1>4
       DEF CallFits, Live, Turned, OfTheList, PurposeOf, Purposes
  <1>6. \A c \in new : ~OfTheList(c)
    BY <1>3 DEF OfTheList
  <1> QED
    BY <1>1, <1>2, <1>3, <1>4, <1>5, <1>6, MoreIsAsked

\* A dialog opened, or closed under what it asked.
LEMMA DialogIsOpenedOrClosed ==
  ASSUME SecInv, OpenDialog \/ CloseDialog
  PROVE  SecInv'
  <1> USE DEF SecInv
  <1>1. /\ UNCHANGED <<account, settings, inFlight, outpaced, securityLost>>
        /\ clicks' \in 0..MaxClicks
    BY OneClick DEF OpenDialog, CloseDialog
  <1>2. dialog \in DialogRecords /\ dialog.opened \in Nat
    BY DEF SecurityTyped, DialogRecords
  <1>3. dialog' \in DialogRecords /\ ~dialog'.coded /\ ~dialog'.done
    <2>1. CASE OpenDialog
      <3>1. PICK n \in Nat : n = dialog.opened + 1
        BY <1>2
      <3>2. PICK p \in Purposes : p = IF settings.on THEN "disable" ELSE "enable"
        BY DEF Purposes
      <3>3. dialog' = [NoDialog EXCEPT !.purpose = p, !.opened = n]
        BY <2>1, <3>1, <3>2 DEF OpenDialog
      <3> QED
        BY <3>3 DEF NoDialog, DialogRecords
    <2>2. CASE CloseDialog
      BY <1>2, <2>2 DEF CloseDialog, NoDialog, DialogRecords, Purposes
    <2> QED
      BY <2>1, <2>2
  <1>4. \/ dialog'.opened = dialog.opened + 1 /\ dialog'.purpose = Offered
           /\ settings.at = "ready"
        \/ dialog'.opened = dialog.opened /\ dialog'.purpose = "none"
    BY DEF OpenDialog, CloseDialog, NoDialog, Offered
  <1>5. SecurityTyped'
    BY <1>1, <1>3 DEF SecurityTyped
  <1>6. CodesFit'
    BY <1>1 DEF CodesFit
  <1>7. ASSUME NEW c \in inFlight PROVE CallFits(c)'
    <2>1. CallFits(c) /\ c.opened \in Nat
      BY DEF CallsFit, SecurityTyped, SecurityCalls
    <2>2. ~Asked(c)'
      BY <1>2, <1>4, <2>1 DEF CallFits, Asked
    <2>3. c.opened <= dialog'.opened
      BY <1>2, <1>4, <2>1 DEF CallFits
    <2>4. Live(c)' => Heeded' /\ dialog'.purpose \in {"none", c.to}
      BY <1>1, <1>4, <2>1 DEF CallFits, Live, Heeded, Offered, CodesFit, Purposes
    <2> QED
      BY <1>1, <2>1, <2>2, <2>3, <2>4 DEF CallFits, Heeded, Turned, Loads
  <1>8. CallsFit'
    BY <1>1, <1>7 DEF CallsFit, Turned
  <1>9. PageFits'
    BY <1>1, <1>3, <1>4 DEF PageFits, Heeded, Offered, Loads
  <1>10. ChangeIsDue'
    BY <1>1 DEF ChangeIsDue, Heeded, ListIsDue, Turned
  <1> QED
    BY <1>5, <1>6, <1>8, <1>9, <1>10

\* A dialog waits for what it asks.
LEMMA DialogAsks ==
  ASSUME SecInv, NEW q \in SecurityCalls, Calls(q), q.at = "sent", ~q.ok,
         dialog.purpose # "none", q.opened = dialog.opened, PurposeOf(q) = dialog.purpose,
         q.to \in Purposes => q.code \in {0, account.codes[q.to].number},
         dialog' = [dialog EXCEPT !.busy = TRUE],
         UNCHANGED <<account, settings, outpaced, securityLost>>, clicks' \in 0..MaxClicks
  PROVE  SecInv'
  <1>1. /\ dialog \in DialogRecords /\ dialog.opened \in Nat /\ dialog.purpose \in Purposes
        /\ settings \in PageShown /\ settings.at = "ready"
    BY DEF SecInv, SecurityTyped, DialogRecords, PageFits
  <1>2. /\ dialog' \in DialogRecords /\ dialog'.purpose = dialog.purpose
        /\ dialog'.opened = dialog.opened /\ dialog'.coded = dialog.coded
        /\ dialog'.done = dialog.done
    BY <1>1 DEF DialogRecords
  <1>3. q.to \notin {"status", "list"} /\ ~OfTheList(q) /\ (q.to \in Purposes => q.to = dialog.purpose)
    BY <1>1 DEF PurposeOf, OfTheList, Purposes
  <1>4. q.to \in Purposes => account.codes[q.to].number \in Nat
    BY DEF SecInv, SecurityTyped, AccountRecords, CodeRecords
  <1>5. Live(q)' => Heeded'
    <2> SUFFICES ASSUME q.to \in Purposes, account.codes[q.to].open PROVE Heeded
      BY DEF Live, Heeded
    <2>1. account.on <=> q.to = "disable"
      BY DEF SecInv, CodesFit
    <2>2. ~Heeded => q.to = Offered
      BY <1>1, <1>3 DEF SecInv, PageFits, Purposes
    <2> QED
      BY <1>1, <2>1, <2>2 DEF Heeded, Offered, Purposes
  <1>6. CallFits(q)'
    BY <1>1, <1>2, <1>3, <1>4, <1>5 DEF CallFits, Live, Turned, Loads
  <1>7. q.opened <= dialog.opened /\ inFlight' = inFlight \union {q}
    BY <1>1 DEF Calls
  <1> QED
    BY <1>1, <1>2, <1>3, <1>6, <1>7, OneIsAsked

LEMMA CodeIsAskedFor ==
  ASSUME SecInv, SendCode
  PROVE  SecInv'
  <1>1. /\ dialog \in DialogRecords /\ dialog.opened \in Nat /\ dialog.purpose \in Purposes
        /\ dialog.purpose # "none"
    BY DEF SendCode, SecInv, SecurityTyped, DialogRecords
  <1>2. PICK to \in {"startEnable", "startDisable"} :
          StartOf[dialog.purpose] = to /\ (dialog.purpose = "enable" <=> to = "startEnable")
    BY <1>1 DEF StartOf, Purposes
  <1>3. PICK q \in SecurityCalls :
          /\ q = Call(to, "none", dialog.opened) /\ q.to = to /\ q.at = "sent" /\ ~q.ok
          /\ q.opened = dialog.opened
    BY <1>1, CallIsMade
  <1>4. PurposeOf(q) = dialog.purpose /\ q.to \notin Purposes
    BY <1>1, <1>2, <1>3 DEF PurposeOf, Purposes
  <1>5. /\ UNCHANGED <<account, settings, outpaced, securityLost>> /\ clicks' \in 0..MaxClicks
        /\ Calls(q) /\ dialog' = [dialog EXCEPT !.busy = TRUE]
    BY <1>2, <1>3, OneClick DEF SendCode, SecInv
  <1> QED
    BY <1>1, <1>3, <1>4, <1>5, DialogAsks

LEMMA CodeIsGiven ==
  ASSUME SecInv, NEW about \in {"right", "wrong", "password"}, GiveCode(about)
  PROVE  SecInv'
  <1>1. /\ dialog \in DialogRecords /\ dialog.opened \in Nat /\ dialog.purpose \in Purposes
        /\ dialog.purpose # "none" /\ account.codes[dialog.purpose] \in CodeRecords
    BY DEF GiveCode, SecInv, SecurityTyped, DialogRecords, PageFits, AccountRecords, Purposes
  <1>2. PICK n \in Nat :
          /\ n = IF about = "right" THEN account.codes[dialog.purpose].number ELSE 0
          /\ n \in {0, account.codes[dialog.purpose].number}
    BY <1>1 DEF CodeRecords
  <1>3. PICK c \in SecurityCalls :
          /\ c = Call(dialog.purpose, about, dialog.opened) /\ c.to = dialog.purpose
          /\ c.at = "sent" /\ ~c.ok /\ c.opened = dialog.opened
    <2>1. PICK to \in {"enable", "disable"}, opened \in Nat :
            to = dialog.purpose /\ opened = dialog.opened
      BY <1>1 DEF Purposes
    <2>2. /\ Call(to, about, opened) \in SecurityCalls /\ Call(to, about, opened).to = to
          /\ Call(to, about, opened).at = "sent" /\ ~Call(to, about, opened).ok
          /\ Call(to, about, opened).opened = opened
      <3>1. to \in {"status", "list", "reload", "revoke", "startEnable", "startDisable",
                    "enable", "disable"}
        OBVIOUS
      <3>2. about \in Devices \union {"none", "all", "right", "wrong", "password"}
        OBVIOUS
      <3> QED
        BY <3>1, <3>2, CallIsMade
    <2>3. PICK c : c = Call(to, about, opened)
      OBVIOUS
    <2> QED
      BY <2>1, <2>2, <2>3
  <1>4. PICK q \in SecurityCalls :
          /\ q = [c EXCEPT !.code = n] /\ q.code = n /\ q.to = dialog.purpose
          /\ q.at = "sent" /\ ~q.ok /\ q.opened = dialog.opened
    <2> DEFINE q == [c EXCEPT !.code = n]
    <2>1. /\ q \in SecurityCalls /\ q.code = n /\ q.to = dialog.purpose
          /\ q.at = "sent" /\ ~q.ok /\ q.opened = dialog.opened
      BY <1>3 DEF SecurityCalls
    <2> QED
      BY <2>1
  <1>5. PurposeOf(q) = dialog.purpose
    BY <1>1, <1>4 DEF PurposeOf, Purposes
  <1>6. /\ UNCHANGED <<account, settings, outpaced, securityLost>> /\ clicks' \in 0..MaxClicks
        /\ Calls(q) /\ dialog' = [dialog EXCEPT !.busy = TRUE]
    BY <1>2, <1>3, <1>4, OneClick DEF GiveCode, SecInv
  <1> QED
    BY <1>1, <1>2, <1>4, <1>5, <1>6, DialogAsks

LEMMA DeviceIsForgotten ==
  ASSUME SecInv, NEW target \in Devices \union {"all"}, Revoke(target)
  PROVE  SecInv'
  <1> DEFINE q == Call("revoke", target, 0)
  <1>1. /\ q \in SecurityCalls /\ q.to = "revoke" /\ q.at = "sent" /\ ~q.ok /\ q.opened = 0
    BY CallIsMade
  <1>2. /\ UNCHANGED <<account, dialog, outpaced, securityLost>> /\ clicks' \in 0..MaxClicks
        /\ inFlight' = inFlight \union {q}
    BY OneClick DEF Revoke, Calls, SecInv
  <1> HIDE DEF q
  <1>3. /\ settings' \in PageShown /\ settings'.at = "ready" /\ settings'.on = settings.on
        /\ settings'.devices = settings.devices /\ settings'.busy # "none"
        /\ settings.at = "ready" /\ settings.busy = "none"
    BY SecurityParts DEF Revoke, SecInv, SecurityTyped, PageShown
  <1>4. dialog \in DialogRecords /\ 0 <= dialog.opened
    BY DEF SecInv, SecurityTyped, DialogRecords
  <1>5. CallFits(q)'
    BY <1>1, <1>2, <1>3, <1>4 DEF CallFits, Live, Turned, OfTheList, PurposeOf, Purposes, Loads
  <1>6. /\ dialog' \in DialogRecords /\ dialog'.opened = dialog.opened
        /\ dialog'.purpose = dialog.purpose /\ dialog'.coded = dialog.coded
        /\ dialog'.done = dialog.done /\ q.opened <= dialog.opened
    BY <1>1, <1>2, <1>4
  <1> QED
    BY <1>1, <1>2, <1>3, <1>5, <1>6, OneIsAsked

\* What the server says yes to is answered with what it has now.
LEMMA YesComes ==
  ASSUME SecInv, NEW c \in inFlight, account' \in AccountRecords, Yes(c)
  PROVE  \E q \in SecurityCalls :
           /\ inFlight' = (inFlight \ {c}) \union {q} /\ q.to = c.to /\ q.code = c.code
           /\ q.opened = c.opened /\ q.at = "answered" /\ q.ok
           /\ q.on = account'.on /\ q.devices = account'.devices
  <1>1. c \in SecurityCalls
    BY DEF SecInv, SecurityTyped
  <1>2. PICK on \in BOOLEAN, devices \in SUBSET Devices :
          on = account'.on /\ devices = account'.devices
    BY DEF AccountRecords
  <1> DEFINE q == [c EXCEPT !.at = "answered", !.ok = TRUE, !.on = on, !.devices = devices]
  <1>3. /\ q \in SecurityCalls /\ q.to = c.to /\ q.code = c.code /\ q.opened = c.opened
        /\ q.at = "answered" /\ q.ok /\ q.on = on /\ q.devices = devices
    BY <1>1 DEF SecurityCalls
  <1>4. inFlight' = (inFlight \ {c}) \union {q}
    BY <1>2 DEF Yes, Heard
  <1> HIDE DEF q
  <1> QED
    BY <1>2, <1>3, <1>4

\* A refusal, or a request or an answer that is lost.
LEMMA NoComes ==
  ASSUME SecInv, NEW c \in inFlight,
         Heard(c, [c EXCEPT !.at = "answered", !.ok = FALSE])
           \/ (~c.ok /\ Heard(c, [c EXCEPT !.at = "answered"]))
  PROVE  \E q \in SecurityCalls :
           /\ inFlight' = (inFlight \ {c}) \union {q} /\ q.to = c.to /\ q.code = c.code
           /\ q.opened = c.opened /\ q.at = "answered" /\ ~q.ok
  <1>1. c \in SecurityCalls
    BY DEF SecInv, SecurityTyped
  <1> DEFINE q == [c EXCEPT !.at = "answered", !.ok = FALSE]
             p == [c EXCEPT !.at = "answered"]
  <1>2. /\ q \in SecurityCalls /\ q.to = c.to /\ q.code = c.code /\ q.opened = c.opened
        /\ q.at = "answered" /\ ~q.ok
    BY <1>1 DEF SecurityCalls
  <1>3. /\ p \in SecurityCalls /\ p.to = c.to /\ p.code = c.code /\ p.opened = c.opened
        /\ p.at = "answered" /\ (~c.ok => ~p.ok)
    BY <1>1 DEF SecurityCalls
  <1>4. Heard(c, q) \/ (~c.ok /\ Heard(c, p))
    OBVIOUS
  <1> HIDE DEF q, p
  <1> QED
    BY <1>2, <1>3, <1>4 DEF Heard

LEMMA NothingIsDone ==
  ASSUME SecInv, NEW c \in inFlight, NEW q \in SecurityCalls,
         inFlight' = (inFlight \ {c}) \union {q}, q.to = c.to, q.code = c.code,
         q.opened = c.opened, q.at = "answered", ~q.ok,
         account' \in AccountRecords, account'.on = account.on,
         account'.devices = account.devices,
         \A p \in Purposes : /\ account'.codes[p].number = account.codes[p].number
                             /\ account'.codes[p].open = account.codes[p].open,
         UNCHANGED <<settings, dialog, clicks>>, securityLost' \in 0..MaxSecurityLost,
         outpaced' \in BOOLEAN, outpaced => outpaced',
         c.ok /\ c.to \in {"enable", "disable", "revoke"} => outpaced'
  PROVE  SecInv'
  <1> USE DEF SecInv
  <1>1. SecurityTyped'
    BY DEF SecurityTyped
  <1>2. CodesFit'
    BY DEF CodesFit
  <1>3. \A d \in inFlight : CallFits(d)'
    BY DEF CallsFit, CallFits, Live, Turned, Heeded, Loads, OfTheList, Asked
  <1>4. CallFits(q)'
    <2>1. CallFits(c) /\ PurposeOf(q) = PurposeOf(c)
      BY DEF CallsFit, PurposeOf
    <2> QED
      BY <2>1 DEF CallFits, Live, Turned, Loads, OfTheList, Asked
  <1>5. CallsFit'
    BY <1>3, <1>4 DEF CallsFit, Turned, OfTheList
  <1>6. PageFits'
    BY DEF PageFits, Loads, Heeded, Offered
  <1>7. ChangeIsDue'
    <2> SUFFICES ASSUME settings.at = "ready", ~outpaced' PROVE ChangeIsDue'
      BY DEF ChangeIsDue
    <2>1. ~Heeded' => \E d \in inFlight' : Turned(d)
      BY DEF ChangeIsDue, Heeded, Turned, Purposes
    <2>2. settings.devices = account.devices \/ ListIsDue'
      BY DEF ChangeIsDue, ListIsDue
    <2>3. \A d \in inFlight' : d.to = "reload" /\ d.ok =>
            d.devices = account.devices \/ \E e \in inFlight' : e.to = "disable" /\ e.ok
      BY DEF ChangeIsDue
    <2> QED
      BY <2>1, <2>2, <2>3 DEF ChangeIsDue
  <1> QED
    BY <1>1, <1>2, <1>5, <1>6, <1>7

LEMMA SecurityIsLost ==
  ASSUME SecInv, NEW c \in inFlight, LoseSecurity(c)
  PROVE  SecInv'
  <1>1. PICK q \in SecurityCalls :
          /\ inFlight' = (inFlight \ {c}) \union {q} /\ q.to = c.to /\ q.code = c.code
          /\ q.opened = c.opened /\ q.at = "answered" /\ ~q.ok
    BY NoComes DEF LoseSecurity
  <1>2. /\ UNCHANGED <<account, settings, dialog, clicks>>
        /\ securityLost' \in 0..MaxSecurityLost
    BY SecurityParts DEF LoseSecurity, SecInv, SecurityTyped
  <1>3. /\ outpaced' \in BOOLEAN /\ (outpaced => outpaced')
        /\ (c.at = "answered" /\ c.to \in {"enable", "disable", "revoke"} => outpaced')
    BY DEF LoseSecurity, SecInv, SecurityTyped
  <1>4. c.ok => c.at = "answered"
    BY DEF SecInv, CallsFit, CallFits, SecurityTyped, SecurityCalls
  <1>5. account \in AccountRecords
    BY DEF SecInv, SecurityTyped
  <1> QED
    BY <1>1, <1>2, <1>3, <1>4, <1>5, NothingIsDone

LEMMA SecurityIsRefused ==
  ASSUME SecInv, NEW c \in inFlight, c.at = "sent", Heard(c, [c EXCEPT !.at = "answered"]),
         account' \in AccountRecords, account'.on = account.on,
         account'.devices = account.devices,
         \A p \in Purposes : /\ account'.codes[p].number = account.codes[p].number
                             /\ account'.codes[p].open = account.codes[p].open,
         UNCHANGED <<settings, dialog, outpaced, clicks, securityLost>>
  PROVE  SecInv'
  <1>1. ~c.ok
    BY DEF SecInv, CallsFit, CallFits
  <1>2. PICK q \in SecurityCalls :
          /\ inFlight' = (inFlight \ {c}) \union {q} /\ q.to = c.to /\ q.code = c.code
          /\ q.opened = c.opened /\ q.at = "answered" /\ ~q.ok
    BY <1>1, NoComes
  <1>3. securityLost' \in 0..MaxSecurityLost /\ outpaced' \in BOOLEAN
    BY DEF SecInv, SecurityTyped
  <1> QED
    BY <1>1, <1>2, <1>3, NothingIsDone

\* The page and its list are read as they are.
LEMMA SecurityIsRead ==
  ASSUME SecInv, NEW c \in inFlight, c.at = "sent", c.to \in {"status", "list", "reload"},
         Yes(c), UNCHANGED <<account, settings, dialog, outpaced, clicks, securityLost>>
  PROVE  SecInv'
  <1> USE DEF SecInv
  <1>1. PICK q \in SecurityCalls :
          /\ inFlight' = (inFlight \ {c}) \union {q} /\ q.to = c.to /\ q.code = c.code
          /\ q.opened = c.opened /\ q.at = "answered" /\ q.ok
          /\ q.on = account'.on /\ q.devices = account'.devices
    BY YesComes DEF SecurityTyped
  <1>2. SecurityTyped'
    BY <1>1 DEF SecurityTyped
  <1>3. \A d \in inFlight : CallFits(d)'
    BY <1>1 DEF CallsFit, CallFits, Live, Turned, Heeded, Loads, OfTheList, Asked
  <1>4. CallFits(q)'
    <2>1. CallFits(c) /\ PurposeOf(q) = "none" /\ q.to \notin Purposes
      BY <1>1 DEF CallsFit, PurposeOf, Purposes
    <2> QED
      BY <1>1, <2>1 DEF CallFits, Live, Turned, Loads, OfTheList, Asked
  <1>5. CallsFit'
    BY <1>1, <1>3, <1>4 DEF CallsFit, Turned, OfTheList, Purposes
  <1>6. PageFits'
    BY <1>1 DEF PageFits, Loads, Heeded, Offered
  <1>7. ChangeIsDue'
    <2> SUFFICES ASSUME settings.at = "ready", ~outpaced PROVE ChangeIsDue'
      BY DEF ChangeIsDue
    <2>1. ~Heeded' => \E d \in inFlight' : Turned(d)
      BY <1>1 DEF ChangeIsDue, Heeded, Turned, Purposes
    <2>2. settings.devices = account.devices \/ ListIsDue'
      BY <1>1 DEF ChangeIsDue, ListIsDue
    <2>3. \A d \in inFlight' : d.to = "reload" /\ d.ok =>
            d.devices = account.devices \/ \E e \in inFlight' : e.to = "disable" /\ e.ok
      BY <1>1 DEF ChangeIsDue
    <2> QED
      BY <2>1, <2>2, <2>3 DEF ChangeIsDue
  <1> QED
    BY <1>1, <1>2, <1>5, <1>6, <1>7 DEF CodesFit

LEMMA CodeIsMailed ==
  ASSUME SecInv, NEW c \in inFlight, c.at = "sent", NEW p \in Purposes, c.to = StartOf[p],
         Start(c, p), UNCHANGED <<settings, dialog, outpaced, clicks, securityLost>>
  PROVE  SecInv'
  <1> USE DEF SecInv
  <1>1. /\ account \in AccountRecords /\ account.codes[p] \in CodeRecords
        /\ account.codes[p].number \in Nat
    BY DEF SecurityTyped, AccountRecords, CodeRecords
  <1>2. CASE No(c)
    BY <1>1, <1>2, SecurityIsRefused DEF No
  <1>3. CASE /\ account.on = (p = "disable") /\ Yes(c)
             /\ account' = [account EXCEPT !.codes[p] =
                              [open |-> TRUE, tries |-> 0, cooling |-> TRUE,
                               number |-> account.codes[p].number + 1]]
    <2>1. PICK n \in Nat : n = account.codes[p].number + 1
      BY <1>1
    <2>2. PICK k \in CodeRecords :
            /\ k = [open |-> TRUE, tries |-> 0, cooling |-> TRUE, number |-> n]
            /\ k.open /\ k.number = n
      <3> DEFINE k == [open |-> TRUE, tries |-> 0, cooling |-> TRUE, number |-> n]
      <3>1. k \in CodeRecords /\ k.open /\ k.number = n
        BY SecurityParts DEF CodeRecords
      <3> QED
        BY <3>1
    <2>3. account' = [account EXCEPT !.codes[p] = k]
      BY <1>3, <2>1, <2>2
    <2>4. /\ account' \in AccountRecords /\ account'.on = account.on
          /\ account'.devices = account.devices /\ account'.codes = [account.codes EXCEPT ![p] = k]
      BY <1>1, <2>3 DEF AccountRecords
    <2>5. /\ account'.codes[p] = k
          /\ \A o \in Purposes : o # p => account'.codes[o] = account.codes[o]
      BY <1>1, <2>4 DEF AccountRecords
    <2>6. PICK q \in SecurityCalls :
            /\ inFlight' = (inFlight \ {c}) \union {q} /\ q.to = c.to /\ q.code = c.code
            /\ q.opened = c.opened /\ q.at = "answered" /\ q.ok
            /\ q.on = account'.on /\ q.devices = account'.devices
      BY <1>3, <2>4, YesComes
    <2>7. SecurityTyped'
      BY <2>4, <2>6 DEF SecurityTyped
    <2>8. CodesFit'
      <3>1. account.on <=> p = "disable"
        BY <1>1, <1>3 DEF AccountRecords
      <3>2. n > 0
        BY <1>1, <2>1
      <3> QED
        BY <2>2, <2>4, <2>5, <3>1, <3>2 DEF CodesFit
    <2>9. c.to \in {"startEnable", "startDisable"}
      BY DEF StartOf, Purposes
    <2>10. ASSUME NEW d \in inFlight PROVE CallFits(d)'
      <3>1. CallFits(d) /\ (d.to \in Purposes => d.code \in Nat /\ account.codes[d.to].number \in Nat)
        BY DEF CallsFit, SecurityTyped, SecurityCalls, AccountRecords, CodeRecords
      <3>2. d.to \in Purposes => d.code <= account'.codes[d.to].number
        BY <1>1, <2>1, <2>2, <2>5, <3>1 DEF CallFits
      <3>3. Live(d)' => Live(d)
        BY <1>1, <2>1, <2>2, <2>5, <3>1 DEF CallFits, Live
      <3> QED
        BY <2>4, <2>6, <3>1, <3>2, <3>3 DEF CallFits, Turned, Heeded, Loads, OfTheList, Asked
    <2>11. CallFits(q)'
      <3>1. CallFits(c) /\ PurposeOf(q) = PurposeOf(c) /\ q.to \notin Purposes
        BY <2>6, <2>9 DEF CallsFit, PurposeOf, Purposes
      <3> QED
        BY <2>6, <2>9, <3>1 DEF CallFits, Live, Turned, Loads, OfTheList, Asked
    <2>12. CallsFit'
      BY <2>6, <2>9, <2>10, <2>11 DEF CallsFit, Turned, OfTheList, Purposes
    <2>13. PageFits'
      BY <2>4, <2>6, <2>9 DEF PageFits, Loads, Heeded, Offered
    <2>14. ChangeIsDue'
      <3> SUFFICES ASSUME settings.at = "ready", ~outpaced PROVE ChangeIsDue'
        BY DEF ChangeIsDue
      <3>1. ~Heeded' => \E d \in inFlight' : Turned(d)
        BY <2>4, <2>6, <2>9 DEF ChangeIsDue, Heeded, Turned, Purposes
      <3>2. settings.devices = account'.devices \/ ListIsDue'
        BY <2>4, <2>6, <2>9 DEF ChangeIsDue, ListIsDue
      <3>3. \A d \in inFlight' : d.to = "reload" /\ d.ok =>
              d.devices = account'.devices \/ \E e \in inFlight' : e.to = "disable" /\ e.ok
        BY <2>4, <2>6, <2>9 DEF ChangeIsDue
      <3> QED
        BY <3>1, <3>2, <3>3 DEF ChangeIsDue
    <2> QED
      BY <2>7, <2>8, <2>12, <2>13, <2>14
  <1> QED
    BY <1>2, <1>3 DEF Start

\* Once nothing else in flight reads the list, what is answered of it is due.
LEMMA ListStaysDue ==
  ASSUME SecInv, NEW c \in inFlight, c.to \in {"revoke", "enable", "disable"},
         NEW q \in SecurityCalls, inFlight' = (inFlight \ {c}) \union {q}, q.to = c.to, q.ok,
         settings.at = "ready", ~outpaced, settings' = settings,
         c.to = "enable" => account'.devices = account.devices
  PROVE  /\ settings.devices = account'.devices \/ ListIsDue'
         /\ \A d \in inFlight' : d.to = "reload" /\ d.ok =>
              d.devices = account'.devices \/ \E e \in inFlight' : e.to = "disable" /\ e.ok
  <1> USE DEF SecInv
  <1>1. settings.devices = account'.devices \/ ListIsDue'
    BY DEF ChangeIsDue, ListIsDue
  <1>2. ASSUME NEW d \in inFlight', d.to = "reload", d.ok
        PROVE  d.devices = account'.devices \/ \E e \in inFlight' : e.to = "disable" /\ e.ok
    <2>1. d \in inFlight /\ c.to # "revoke"
      BY <1>2 DEF CallsFit, OfTheList
    <2> QED
      BY <1>2, <2>1 DEF ChangeIsDue
  <1> QED
    BY <1>1, <1>2

LEMMA CodeIsTaken ==
  ASSUME SecInv, NEW c \in inFlight, c.at = "sent", NEW p \in Purposes, c.to = p, Yes(c),
         account.on = (p = "disable"), account.codes[p].open, c.code = account.codes[p].number,
         account' = [account EXCEPT !.codes[p].open = FALSE, !.on = p = "enable",
                                    !.devices = IF p = "enable" THEN @ ELSE {}],
         UNCHANGED <<settings, dialog, outpaced, clicks, securityLost>>
  PROVE  SecInv'
  <1> USE DEF SecInv
  <1>1. /\ account \in AccountRecords /\ account.codes[p] \in CodeRecords
        /\ (account.on <=> p = "disable")
    BY DEF SecurityTyped, AccountRecords
  <1>2. Live(c) /\ CallFits(c)
    BY DEF Live, CallsFit
  <1>3. Heeded /\ dialog.purpose \in {"none", p} /\ settings.at = "ready"
    <2>1. c \notin Loads
      BY DEF Loads, Purposes
    <2> QED
      BY <1>2, <2>1 DEF CallFits, PageFits
  <1>4. /\ account' \in AccountRecords /\ (account'.on <=> p = "enable")
        /\ account'.devices = (IF p = "enable" THEN account.devices ELSE {})
        /\ ~account'.codes[p].open
        /\ \A o \in Purposes : /\ account'.codes[o].number = account.codes[o].number
                               /\ account'.codes[o].open => account.codes[o].open
    <2>1. PICK on \in BOOLEAN, devices \in SUBSET Devices :
            /\ on = (p = "enable")
            /\ devices = IF p = "enable" THEN account.devices ELSE {}
      BY <1>1 DEF AccountRecords
    <2>2. PICK codes \in [Purposes -> CodeRecords] :
            /\ codes = [account.codes EXCEPT ![p].open = FALSE] /\ ~codes[p].open
            /\ \A o \in Purposes : /\ codes[o].number = account.codes[o].number
                                   /\ codes[o].open => account.codes[o].open
      <3> DEFINE codes == [account.codes EXCEPT ![p].open = FALSE]
      <3>1. account.codes \in [Purposes -> CodeRecords]
        BY <1>1 DEF AccountRecords
      <3>2. codes \in [Purposes -> CodeRecords] /\ ~codes[p].open
        BY <3>1 DEF CodeRecords
      <3>3. \A o \in Purposes : /\ codes[o].number = account.codes[o].number
                                /\ codes[o].open => account.codes[o].open
        BY <3>1 DEF CodeRecords
      <3> HIDE DEF codes
      <3>4. codes = [account.codes EXCEPT ![p].open = FALSE]
        BY DEF codes
      <3> QED
        BY <3>2, <3>3, <3>4
    <2>3. account' = [on |-> on, devices |-> devices, codes |-> codes]
      BY <1>1, <2>1, <2>2 DEF AccountRecords
    <2>4. PICK a \in AccountRecords :
            account' = a /\ a.on = on /\ a.devices = devices /\ a.codes = codes
      <3> DEFINE a == [on |-> on, devices |-> devices, codes |-> codes]
      <3>1. a \in AccountRecords
        BY DEF AccountRecords
      <3>2. a.on = on /\ a.devices = devices /\ a.codes = codes
        OBVIOUS
      <3>3. account' = a
        BY <2>3
      <3> HIDE DEF a
      <3> QED
        BY <3>1, <3>2, <3>3
    <2>5. /\ account' \in AccountRecords /\ account'.on = on /\ account'.devices = devices
          /\ account'.codes = codes
      BY <2>4
    <2> QED
      BY <2>1, <2>2, <2>5
  <1>5. PICK q \in SecurityCalls :
          /\ inFlight' = (inFlight \ {c}) \union {q} /\ q.to = c.to /\ q.code = c.code
          /\ q.opened = c.opened /\ q.at = "answered" /\ q.ok
          /\ q.on = account'.on /\ q.devices = account'.devices
    BY <1>4, YesComes
  <1>6. \A o \in Purposes : ~account'.codes[o].open
    BY <1>1, <1>4 DEF CodesFit, Purposes
  <1>7. ~Heeded'
    BY <1>1, <1>3, <1>4 DEF Heeded, Purposes
  <1>8. \A d \in inFlight : ~Turned(d) /\ d \notin Loads
    BY <1>3 DEF CallsFit, CallFits
  <1>9. SecurityTyped' /\ CodesFit'
    BY <1>4, <1>5, <1>6 DEF SecurityTyped, CodesFit
  <1>10. \A d \in inFlight : CallFits(d)'
    BY <1>4, <1>6, <1>8 DEF CallsFit, CallFits, Live, Turned, Loads, OfTheList, Asked
  <1>11. CallFits(q)'
    <2>1. PurposeOf(q) = PurposeOf(c) /\ ~OfTheList(q) /\ q.to \notin {"status", "list"}
      BY <1>5 DEF PurposeOf, Purposes, OfTheList
    <2>2. account'.on <=> q.to = "enable"
      BY <1>4, <1>5
    <2>3. q.to = "disable" => account'.devices = {}
      BY <1>4, <1>5
    <2>4. q.code <= account'.codes[q.to].number
      BY <1>2, <1>4, <1>5 DEF CallFits
    <2> QED
      BY <1>2, <1>5, <1>7, <2>1, <2>2, <2>3, <2>4 DEF CallFits, Live, Turned, Loads, Asked
  <1>12. CallsFit'
    <2>1. ~OfTheList(q)
      BY <1>5 DEF OfTheList, Purposes
    <2> QED
      BY <1>5, <1>8, <1>10, <1>11, <2>1 DEF CallsFit, Turned, OfTheList
  <1>13. PageFits'
    <2>1. p = Offered
      BY <1>1, <1>3 DEF Offered, Heeded, Purposes
    <2>2. ~dialog.done
      BY <1>1, <1>3 DEF PageFits, Purposes
    <2> QED
      BY <1>3, <2>1, <2>2 DEF PageFits, Offered
  <1>14. ChangeIsDue'
    <2>1. Turned(q)
      BY <1>5 DEF Turned
    <2>2. ASSUME ~outpaced
          PROVE  /\ settings.devices = account'.devices \/ ListIsDue'
                 /\ \A d \in inFlight' : d.to = "reload" /\ d.ok =>
                      d.devices = account'.devices \/ \E e \in inFlight' : e.to = "disable" /\ e.ok
      <3>1. c.to \in {"revoke", "enable", "disable"} /\ (c.to = "enable" => p = "enable")
        BY DEF Purposes
      <3>2. c.to = "enable" => account'.devices = account.devices
        BY <1>4, <3>1
      <3> QED
        BY <1>3, <1>4, <1>5, <2>2, <3>1, <3>2, ListStaysDue
    <2> QED
      BY <1>5, <2>1, <2>2 DEF ChangeIsDue
  <1> QED
    BY <1>9, <1>12, <1>13, <1>14

LEMMA CodeIsChecked ==
  ASSUME SecInv, NEW c \in inFlight, c.at = "sent", NEW p \in Purposes, c.to = p, Check(c, p),
         UNCHANGED <<settings, dialog, outpaced, clicks, securityLost>>
  PROVE  SecInv'
  <1>1. account \in AccountRecords /\ account.codes[p] \in CodeRecords
    BY DEF SecInv, SecurityTyped, AccountRecords
  <1>2. CASE No(c)
    BY <1>1, <1>2, SecurityIsRefused DEF No
  <1>3. CASE /\ account.codes[p].tries < MaxTries
             /\ account' = [account EXCEPT !.codes[p].tries = @ + 1]
             /\ Heard(c, [c EXCEPT !.at = "answered"])
    <2>1. PICK n \in 0..MaxTries : n = account.codes[p].tries + 1
      BY <1>1, <1>3, SecurityParts DEF CodeRecords
    <2>2. account' = [account EXCEPT !.codes[p].tries = n]
      BY <1>3, <2>1
    <2>3. /\ account' \in AccountRecords /\ account'.on = account.on
          /\ account'.devices = account.devices
          /\ \A o \in Purposes : /\ account'.codes[o].number = account.codes[o].number
                                 /\ account'.codes[o].open = account.codes[o].open
      BY <1>1, <2>2 DEF AccountRecords, CodeRecords
    <2> QED
      BY <1>3, <2>3, SecurityIsRefused
  <1>4. CASE /\ account.on = (p = "disable") /\ account.codes[p].open
             /\ c.code = account.codes[p].number /\ Yes(c)
             /\ account' = [account EXCEPT !.codes[p].open = FALSE, !.on = p = "enable",
                                           !.devices = IF p = "enable" THEN @ ELSE {}]
    BY <1>4, CodeIsTaken
  <1> QED
    BY <1>2, <1>3, <1>4 DEF Check

LEMMA DeviceIsGone ==
  ASSUME SecInv, NEW c \in inFlight, c.at = "sent", c.to = "revoke", Forget(c),
         UNCHANGED <<settings, dialog, outpaced, clicks, securityLost>>
  PROVE  SecInv'
  <1> USE DEF SecInv
  <1>1. account \in AccountRecords
    BY DEF SecurityTyped
  <1>2. CASE No(c)
    BY <1>1, <1>2, SecurityIsRefused DEF No
  <1>3. CASE Yes(c) /\ \E gone : account' = [account EXCEPT !.devices = @ \ gone]
    <2>1. PICK gone : account' = [account EXCEPT !.devices = @ \ gone]
      BY <1>3
    <2>2. PICK left \in SUBSET Devices : left = account.devices \ gone /\ left \subseteq account.devices
      BY <1>1 DEF AccountRecords
    <2>3. account' = [account EXCEPT !.devices = left]
      BY <2>1, <2>2
    <2>4. /\ account' \in AccountRecords /\ account'.on = account.on
          /\ account'.codes = account.codes /\ account'.devices = left
      BY <1>1, <2>3 DEF AccountRecords
    <2>5. PICK q \in SecurityCalls :
            /\ inFlight' = (inFlight \ {c}) \union {q} /\ q.to = c.to /\ q.code = c.code
            /\ q.opened = c.opened /\ q.at = "answered" /\ q.ok
            /\ q.on = account'.on /\ q.devices = account'.devices
      BY <1>3, <2>4, YesComes
    <2>6. settings.at = "ready" /\ CallFits(c) /\ \A d \in inFlight : d \notin Loads
      BY DEF CallsFit, CallFits, PageFits, Loads
    <2>7. SecurityTyped' /\ CodesFit'
      BY <2>4, <2>5 DEF SecurityTyped, CodesFit
    <2>8. \A d \in inFlight : CallFits(d)'
      BY <2>2, <2>4, <2>5, <2>6
         DEF CallsFit, CallFits, Live, Turned, Heeded, Loads, OfTheList, Asked
    <2>9. CallFits(q)'
      <3>1. PurposeOf(q) = "none" /\ q.to \notin Purposes /\ q.to \notin {"status", "list"}
        BY <2>5 DEF PurposeOf, Purposes
      <3> QED
        BY <2>5, <2>6, <3>1 DEF CallFits, Live, Turned, Loads, OfTheList
    <2>10. CallsFit'
      BY <2>5, <2>8, <2>9 DEF CallsFit, Turned, OfTheList, Purposes
    <2>11. PageFits'
      BY <2>4, <2>6 DEF PageFits, Heeded, Offered
    <2>12. ChangeIsDue'
      <3>1. ~outpaced /\ ~Heeded' => \E d \in inFlight' : Turned(d)
        BY <2>4, <2>5, <2>6 DEF ChangeIsDue, Heeded, Turned, Purposes
      <3>2. ~outpaced =>
              /\ settings.devices = account'.devices \/ ListIsDue'
              /\ \A d \in inFlight' : d.to = "reload" /\ d.ok =>
                   d.devices = account'.devices \/ \E e \in inFlight' : e.to = "disable" /\ e.ok
        BY <2>4, <2>5, <2>6, ListStaysDue
      <3> QED
        BY <3>1, <3>2 DEF ChangeIsDue
    <2> QED
      BY <2>7, <2>10, <2>11, <2>12
  <1> QED
    BY <1>2, <1>3 DEF Forget

LEMMA SecurityIsServed ==
  ASSUME SecInv, NEW c \in inFlight, ServeSecurity(c)
  PROVE  SecInv'
  <1>1. c.at = "sent" /\ UNCHANGED <<settings, dialog, outpaced, clicks, securityLost>>
    BY DEF ServeSecurity
  <1>2. CASE c.to \in {"status", "list", "reload"} /\ UNCHANGED account /\ Yes(c)
    BY <1>1, <1>2, SecurityIsRead
  <1>3. CASE \E p \in Purposes : c.to = StartOf[p] /\ Start(c, p)
    BY <1>1, <1>3, CodeIsMailed
  <1>4. CASE \E p \in Purposes : c.to = p /\ Check(c, p)
    BY <1>1, <1>4, CodeIsChecked
  <1>5. CASE c.to = "revoke" /\ Forget(c)
    BY <1>1, <1>5, DeviceIsGone
  <1> QED
    BY <1>2, <1>3, <1>4, <1>5 DEF ServeSecurity

LEMMA CodesCool ==
  ASSUME SecInv, NEW p \in Purposes, CoolsDown(p)
  PROVE  SecInv'
  <1> USE DEF SecInv
  <1>1. account \in AccountRecords
    BY DEF SecurityTyped
  <1>2. /\ account' \in AccountRecords /\ account'.on = account.on
        /\ account'.devices = account.devices
        /\ \A o \in Purposes : /\ account'.codes[o].number = account.codes[o].number
                               /\ account'.codes[o].open => account.codes[o].open
    <2>1. CASE account' = [account EXCEPT !.codes[p].cooling = FALSE]
      BY <1>1, <2>1 DEF AccountRecords, CodeRecords
    <2>2. CASE account' = [account EXCEPT !.codes[p].open = FALSE]
      BY <1>1, <2>2 DEF AccountRecords, CodeRecords
    <2> QED
      BY <2>1, <2>2 DEF CoolsDown
  <1>3. UNCHANGED <<settings, dialog, inFlight, outpaced, clicks, securityLost>>
    BY DEF CoolsDown
  <1>4. SecurityTyped' /\ CodesFit'
    BY <1>2, <1>3 DEF SecurityTyped, CodesFit
  <1>5. ASSUME NEW c \in inFlight PROVE CallFits(c)'
    <2>1. Live(c)' => Live(c)
      BY <1>2 DEF Live
    <2> QED
      BY <1>2, <1>3, <2>1 DEF CallsFit, CallFits, Turned, Heeded, Loads, OfTheList, Asked
  <1>6. CallsFit'
    BY <1>3, <1>5 DEF CallsFit, Turned
  <1>7. PageFits' /\ ChangeIsDue'
    BY <1>2, <1>3 DEF PageFits, ChangeIsDue, Heeded, Offered, Loads, ListIsDue, Turned
  <1> QED
    BY <1>4, <1>6, <1>7

LEMMA PageIsLoaded ==
  ASSUME SecInv, HasLoaded
  PROVE  SecInv'
  <1> USE DEF SecInv
  <1>1. /\ UNCHANGED <<account, dialog, outpaced, clicks, securityLost>> /\ Loads # {}
        /\ inFlight' = inFlight \ Loads
    BY DEF HasLoaded
  <1>2. settings.at = "loading" /\ settings.busy = "none" /\ dialog.purpose = "none"
        /\ inFlight = Loads
    BY <1>1 DEF CallsFit, CallFits, PageFits, Loads
  <1>3. inFlight' = {}
    BY <1>1, <1>2
  <1>4. /\ settings' \in PageShown /\ settings'.busy = "none"
        /\ settings'.at = "ready" => (settings'.on <=> account.on)
                                     /\ settings'.devices = account.devices
    <2>1. CASE settings' = [settings EXCEPT !.at = "failed"]
      BY <1>2, <2>1 DEF SecurityTyped, PageShown
    <2>2. CASE /\ \A c \in Loads : c.at = "answered" /\ c.ok
               /\ \E s, l \in Loads :
                    settings' = [settings EXCEPT !.at = "ready", !.on = s.on, !.devices = l.devices]
      <3>1. PICK s, l \in Loads :
              settings' = [settings EXCEPT !.at = "ready", !.on = s.on, !.devices = l.devices]
        BY <2>2
      <3>2. s \in SecurityCalls /\ l \in SecurityCalls /\ s \in inFlight /\ l \in inFlight
        BY DEF Loads, SecurityTyped
      <3>3. (s.on <=> account.on) /\ l.devices = account.devices
        BY <2>2, <3>2 DEF CallsFit, CallFits
      <3>4. s.on \in BOOLEAN /\ l.devices \in SUBSET Devices
        BY <3>2 DEF SecurityCalls
      <3> QED
        BY <1>2, <3>1, <3>3, <3>4 DEF SecurityTyped, PageShown
    <2> QED
      BY <2>1, <2>2 DEF HasLoaded
  <1>5. SecurityTyped' /\ CodesFit' /\ CallsFit'
    BY <1>1, <1>3, <1>4 DEF SecurityTyped, CodesFit, CallsFit
  <1>6. Loads' = {}
    BY <1>3 DEF Loads
  <1>7. PageFits' /\ ChangeIsDue'
    BY <1>1, <1>2, <1>3, <1>4, <1>6 DEF PageFits, ChangeIsDue, Heeded, Offered
  <1> QED
    BY <1>5, <1>7

\* The page is up when what is answered is not of the loading.
LEMMA DialogIsAnswered ==
  ASSUME SecInv, NEW c \in inFlight, c.at = "answered", DialogAnswered(c),
         UNCHANGED <<account, clicks, securityLost>>
  PROVE  SecInv'
  <1> USE DEF SecInv
  <1>1. /\ c.to \in {"startEnable", "startDisable", "enable"} /\ inFlight' = inFlight \ {c}
        /\ UNCHANGED <<account, outpaced, clicks, securityLost>>
    BY DEF DialogAnswered
  <1>2. CallFits(c) /\ settings.at = "ready" /\ c \notin Loads /\ ~OfTheList(c)
    BY <1>1 DEF CallsFit, PageFits, Loads, OfTheList
  <1>3. /\ dialog \in DialogRecords /\ settings \in PageShown /\ c \in SecurityCalls
        /\ account \in AccountRecords
    BY DEF SecurityTyped
  <1>4. Turned(c) <=> c.ok /\ c.to = "enable"
    BY <1>1 DEF Turned, Purposes
  <1>5. /\ settings' \in PageShown /\ settings'.at = "ready" /\ settings'.busy = settings.busy
        /\ settings'.devices = settings.devices
        /\ ~Turned(c) => settings'.on = settings.on
        /\ Turned(c) => settings'.on
    <2>1. CASE Turned(c)
      <3>1. settings' = [settings EXCEPT !.on = TRUE]
        BY <1>4, <2>1 DEF DialogAnswered
      <3> QED
        BY <1>2, <1>3, <2>1, <3>1 DEF PageShown
    <2>2. CASE ~Turned(c)
      BY <1>2, <1>3, <1>4, <2>2 DEF DialogAnswered
    <2> QED
      BY <2>1, <2>2
  <1>6. /\ dialog' \in DialogRecords /\ dialog'.purpose = dialog.purpose
        /\ dialog'.opened = dialog.opened
        /\ dialog'.coded => dialog.purpose # "none"
        /\ dialog'.done => dialog.done \/ (Asked(c) /\ Turned(c))
    <2>1. CASE Asked(c)
      <3>1. PICK coded \in BOOLEAN, done \in BOOLEAN :
              /\ coded = (dialog.coded \/ (c.ok /\ c.to # "enable"))
              /\ done = (c.ok /\ c.to = "enable")
        BY <1>3
      <3>2. dialog' = [dialog EXCEPT !.busy = FALSE, !.coded = coded, !.done = done]
        BY <1>1, <2>1, <3>1 DEF DialogAnswered
      <3>3. dialog.purpose # "none"
        BY <2>1 DEF Asked
      <3> QED
        BY <1>3, <1>4, <2>1, <3>1, <3>2, <3>3 DEF DialogRecords
    <2>2. CASE ~Asked(c)
      BY <1>3, <2>2 DEF DialogAnswered, PageFits
    <2> QED
      BY <2>1, <2>2
  <1>7. Turned(c) => account.on /\ ~Heeded /\ Heeded' /\ \A d \in inFlight' : ~Turned(d) /\ ~Live(d)
    BY <1>1, <1>2, <1>4, <1>5 DEF CallsFit, CallFits, Heeded, Live
  <1>8. ~Turned(c) => (Heeded' <=> Heeded)
    BY <1>1, <1>5 DEF Heeded
  <1>9. SecurityTyped' /\ CodesFit'
    BY <1>1, <1>5, <1>6 DEF SecurityTyped, CodesFit
  <1>10. ASSUME NEW d \in inFlight' PROVE CallFits(d)'
    <2>1. CallFits(d) /\ d \in inFlight /\ (Live(d)' <=> Live(d)) /\ (Asked(d)' <=> Asked(d))
      BY <1>1, <1>6 DEF CallsFit, Live, Asked
    <2>2. d \notin Loads
      BY <1>2, <2>1 DEF CallFits
    <2>3. d \notin Loads'
      BY <1>1, <2>1, <2>2 DEF Loads
    <2>4. Live(d)' => Heeded' /\ dialog'.purpose \in {"none", d.to}
      BY <1>6, <1>7, <1>8, <2>1 DEF CallFits
    <2>5. Turned(d) => /\ ~Heeded' /\ (account'.on <=> d.to = "enable")
                       /\ d.to = "disable" => account'.devices = {}
      BY <1>1, <1>7, <1>8, <2>1 DEF CallFits
    <2> QED
      BY <1>1, <1>5, <1>6, <2>1, <2>3, <2>4, <2>5 DEF CallFits, Turned, OfTheList
  <1>11. CallsFit'
    BY <1>1, <1>10 DEF CallsFit, Turned
  <1>12. PageFits'
    <2>1. ~Heeded' => dialog.purpose \in {"none", Offered'}
      BY <1>2, <1>5, <1>7, <1>8 DEF PageFits, Offered
    <2>2. dialog'.done => dialog.purpose = "enable" /\ account.on
      <3>1. Asked(c) /\ Turned(c) => dialog.purpose = "enable"
        BY <1>2, <1>4 DEF CallFits, PurposeOf
      <3> QED
        BY <1>6, <1>7, <3>1 DEF PageFits
    <2> QED
      BY <1>1, <1>5, <1>6, <2>1, <2>2 DEF PageFits
  <1>13. ChangeIsDue'
    <2>1. ~outpaced /\ ~Heeded' => \E d \in inFlight' : Turned(d)
      BY <1>1, <1>2, <1>7, <1>8 DEF ChangeIsDue
    <2>2. ~outpaced => settings'.devices = account'.devices \/ ListIsDue'
      BY <1>1, <1>2, <1>5 DEF ChangeIsDue, ListIsDue
    <2>3. ~outpaced => \A d \in inFlight' : d.to = "reload" /\ d.ok =>
            d.devices = account'.devices \/ \E e \in inFlight' : e.to = "disable" /\ e.ok
      BY <1>1, <1>2 DEF ChangeIsDue
    <2> QED
      BY <1>1, <2>1, <2>2, <2>3 DEF ChangeIsDue, Turned
  <1> QED
    BY <1>9, <1>11, <1>12, <1>13

\* A call is gone, and nothing of the page or the dialog that its kind is about.
LEMMA RestStillFits ==
  ASSUME SecInv, NEW c \in inFlight, inFlight' = inFlight \ {c}, settings.at = "ready",
         UNCHANGED account, dialog'.opened = dialog.opened,
         dialog'.purpose \in {"none", dialog.purpose},
         settings'.on = settings.on \/ (Turned(c) /\ Heeded'),
         settings'.busy = "none" => settings.busy = "none" \/ OfTheList(c)
  PROVE  CallsFit'
  <1> USE DEF SecInv
  <1>1. ASSUME NEW d \in inFlight' PROVE CallFits(d)'
    <2>1. CallFits(d) /\ d \in inFlight /\ (Live(d)' <=> Live(d)) /\ (Asked(d)' => Asked(d))
      BY DEF CallsFit, Live, Asked
    <2>2. d \notin Loads /\ d \notin Loads'
      BY <2>1 DEF CallFits, Loads
    <2>3. CASE settings'.on = settings.on
      BY <2>1, <2>2, <2>3 DEF CallFits, Turned, OfTheList, Heeded, CallsFit, Asked
    <2>4. CASE Turned(c) /\ Heeded'
      <3>1. ~Turned(d) /\ ~Turned(d)'
        BY <2>1, <2>4 DEF CallsFit, Turned
      <3> QED
        BY <2>1, <2>2, <2>4, <3>1 DEF CallFits, OfTheList, CallsFit, Asked
    <2> QED
      BY <2>3, <2>4
  <1> QED
    BY <1>1 DEF CallsFit, Turned

LEMMA SecurityTurnedOff ==
  ASSUME SecInv, NEW c \in inFlight, c.at = "answered", TurnedOff(c),
         UNCHANGED <<account, clicks, securityLost>>
  PROVE  SecInv'
  <1> USE DEF SecInv
  <1>1. c.to = "disable" /\ inFlight' = inFlight \ {c} /\ UNCHANGED <<account, clicks, securityLost>>
    BY DEF TurnedOff
  <1>2. CallFits(c) /\ settings.at = "ready" /\ c \notin Loads /\ ~OfTheList(c)
    BY <1>1 DEF CallsFit, PageFits, Loads, OfTheList
  <1>3. /\ dialog \in DialogRecords /\ settings \in PageShown /\ account \in AccountRecords
    BY DEF SecurityTyped
  <1>4. Turned(c) <=> c.ok
    BY <1>1 DEF Turned, Purposes
  <1>5. CASE c.ok
    <2>1. ~account.on /\ account.devices = {} /\ ~Heeded /\ \A d \in inFlight' : ~Turned(d)
      BY <1>1, <1>2, <1>4, <1>5 DEF CallFits, CallsFit
    <2>2. /\ settings' = [settings EXCEPT !.on = FALSE, !.devices = {}]
          /\ dialog' = [NoDialog EXCEPT !.opened = dialog.opened]
          /\ outpaced' = (outpaced \/ \E r \in inFlight : r.to = "reload")
      BY <1>5 DEF TurnedOff
    <2>3. /\ settings' \in PageShown /\ settings'.at = "ready" /\ ~settings'.on
          /\ settings'.devices = {} /\ settings'.busy = settings.busy
      BY <1>2, <1>3, <2>2 DEF PageShown
    <2>4. /\ dialog' \in DialogRecords /\ dialog'.opened = dialog.opened
          /\ dialog'.purpose = "none" /\ ~dialog'.coded /\ ~dialog'.done
      BY <1>3, <2>2 DEF DialogRecords, NoDialog
    <2>5. Heeded'
      BY <1>1, <2>1, <2>3 DEF Heeded
    <2>6. SecurityTyped' /\ CodesFit'
      BY <1>1, <2>2, <2>3, <2>4 DEF SecurityTyped, CodesFit
    <2>7. CallsFit'
      BY <1>1, <1>2, <1>4, <1>5, <2>3, <2>4, <2>5, RestStillFits
    <2>8. PageFits'
      BY <2>3, <2>4, <2>5 DEF PageFits
    <2>9. ChangeIsDue'
      BY <1>1, <2>1, <2>2, <2>3, <2>5 DEF ChangeIsDue
    <2> QED
      BY <2>6, <2>7, <2>8, <2>9
  <1>6. CASE ~c.ok
    <2>1. /\ dialog' = IF Asked(c) THEN [dialog EXCEPT !.busy = FALSE] ELSE dialog
          /\ UNCHANGED <<settings, outpaced>>
      BY <1>6 DEF TurnedOff
    <2>2. /\ dialog' \in DialogRecords /\ dialog'.opened = dialog.opened
          /\ dialog'.purpose = dialog.purpose /\ dialog'.coded = dialog.coded
          /\ dialog'.done = dialog.done
      BY <1>3, <2>1 DEF DialogRecords
    <2>3. SecurityTyped' /\ CodesFit'
      BY <1>1, <2>1, <2>2 DEF SecurityTyped, CodesFit
    <2>4. CallsFit'
      BY <1>1, <1>2, <2>1, <2>2, RestStillFits
    <2>5. PageFits'
      BY <1>1, <1>2, <2>1, <2>2 DEF PageFits, Heeded, Offered
    <2>6. ChangeIsDue'
      <3>1. ~outpaced /\ ~Heeded => \E d \in inFlight' : Turned(d)
        BY <1>1, <1>2, <1>4, <1>6 DEF ChangeIsDue
      <3>2. ~outpaced => settings.devices = account.devices \/ ListIsDue'
        BY <1>1, <1>2, <1>6 DEF ChangeIsDue, ListIsDue
      <3>3. ~outpaced => \A d \in inFlight' : d.to = "reload" /\ d.ok =>
              d.devices = account.devices \/ \E e \in inFlight' : e.to = "disable" /\ e.ok
        BY <1>1, <1>2, <1>6 DEF ChangeIsDue
      <3> QED
        BY <1>1, <2>1, <3>1, <3>2, <3>3 DEF ChangeIsDue, Turned, Heeded
    <2> QED
      BY <2>3, <2>4, <2>5, <2>6
  <1> QED
    BY <1>5, <1>6

\* A device is forgotten, and the list read again.
LEMMA ListIsAskedFor ==
  ASSUME SecInv, NEW c \in inFlight, c.at = "answered", Revoked(c),
         UNCHANGED <<account, clicks, securityLost>>
  PROVE  SecInv'
  <1> USE DEF SecInv
  <1>1. c.to = "revoke" /\ OfTheList(c) /\ ~Turned(c)
    BY DEF Revoked, OfTheList, Turned, Purposes
  <1>2. CallFits(c) /\ settings.at = "ready" /\ c \notin Loads /\ settings.busy # "none"
    BY <1>1 DEF CallsFit, CallFits, PageFits, Loads
  <1>3. UNCHANGED <<account, dialog, outpaced, clicks, securityLost>>
    BY DEF Revoked
  <1>4. \A d \in inFlight : OfTheList(d) => d = c
    BY <1>1 DEF CallsFit
  <1>5. \A d \in inFlight : d \notin Loads
    BY <1>2 DEF CallsFit, CallFits
  <1>6. CASE ~c.ok
    <2>1. inFlight' = inFlight \ {c} /\ settings' = [settings EXCEPT !.busy = "none"]
      BY <1>6 DEF Revoked
    <2>2. /\ settings' \in PageShown /\ settings'.at = "ready" /\ settings'.busy = "none"
          /\ settings'.on = settings.on /\ settings'.devices = settings.devices
      BY <1>2, <2>1 DEF SecurityTyped, PageShown
    <2>3. SecurityTyped' /\ CodesFit'
      BY <1>3, <2>1, <2>2 DEF SecurityTyped, CodesFit
    <2>4. CallsFit'
      <3>1. ASSUME NEW d \in inFlight' PROVE CallFits(d)'
        <4>1. CallFits(d) /\ d \in inFlight /\ ~OfTheList(d) /\ d \notin Loads
          BY <1>4, <1>5, <2>1 DEF CallsFit
        <4> QED
          BY <1>3, <2>1, <2>2, <4>1
             DEF CallFits, Live, Turned, Heeded, Loads, OfTheList, Asked
      <3> QED
        BY <2>1, <3>1 DEF CallsFit, Turned
    <2>5. PageFits'
      BY <1>2, <1>3, <2>2 DEF PageFits, Heeded, Offered
    <2>6. ChangeIsDue'
      <3>1. ~outpaced /\ ~Heeded => \E d \in inFlight' : Turned(d)
        BY <1>1, <1>2, <2>1 DEF ChangeIsDue
      <3>2. ~outpaced => settings.devices = account.devices \/ ListIsDue'
        BY <1>1, <1>2, <1>6, <2>1 DEF ChangeIsDue, ListIsDue
      <3>3. \A d \in inFlight' : d.to # "reload"
        BY <1>4, <2>1 DEF OfTheList
      <3> QED
        BY <1>3, <2>2, <3>1, <3>2, <3>3 DEF ChangeIsDue, Turned, Heeded
    <2> QED
      BY <2>3, <2>4, <2>5, <2>6
  <1>7. CASE c.ok
    <2>1. PICK q \in SecurityCalls : /\ q = Call("reload", "none", 0) /\ q.to = "reload"
                                     /\ q.at = "sent" /\ ~q.ok /\ q.opened = 0
      BY CallIsMade
    <2>2. inFlight' = (inFlight \ {c}) \union {q} /\ settings' = settings
      BY <1>7, <2>1 DEF Revoked
    <2>3. SecurityTyped' /\ CodesFit'
      BY <1>3, <2>2 DEF SecurityTyped, CodesFit
    <2>4. CallFits(q)'
      <3>1. PurposeOf(q) = "none" /\ q.to \notin Purposes /\ q.to \notin {"status", "list"}
        BY <2>1 DEF PurposeOf, Purposes
      <3>2. 0 <= dialog.opened
        BY DEF SecurityTyped, DialogRecords
      <3> QED
        BY <1>2, <1>3, <2>1, <2>2, <3>1, <3>2 DEF CallFits, Live, Turned, Loads, OfTheList
    <2>5. \A d \in inFlight : CallFits(d)'
      BY <1>3, <1>5, <2>2 DEF CallsFit, CallFits, Live, Turned, Heeded, Loads, OfTheList, Asked
    <2>6. CallsFit'
      BY <1>4, <2>1, <2>2, <2>4, <2>5 DEF CallsFit, Turned, OfTheList, Purposes
    <2>7. PageFits'
      BY <1>2, <1>3, <2>2 DEF PageFits, Heeded, Offered
    <2>8. ChangeIsDue'
      <3>1. ~outpaced /\ ~Heeded => \E d \in inFlight' : Turned(d)
        BY <1>1, <1>2, <2>2 DEF ChangeIsDue
      <3>2. ListIsDue'
        BY <2>1, <2>2 DEF ListIsDue
      <3>3. \A d \in inFlight' : ~(d.to = "reload" /\ d.ok)
        BY <1>1, <1>4, <2>1, <2>2 DEF OfTheList
      <3> QED
        BY <1>3, <2>2, <3>1, <3>2, <3>3 DEF ChangeIsDue, Turned, Heeded
    <2> QED
      BY <2>3, <2>6, <2>7, <2>8
  <1> QED
    BY <1>6, <1>7

LEMMA ListIsRead ==
  ASSUME SecInv, NEW c \in inFlight, c.at = "answered", DevicesRead(c),
         UNCHANGED <<account, clicks, securityLost>>
  PROVE  SecInv'
  <1> USE DEF SecInv
  <1>1. c.to = "reload" /\ OfTheList(c) /\ ~Turned(c) /\ inFlight' = inFlight \ {c}
    BY DEF DevicesRead, OfTheList, Turned, Purposes
  <1>2. CallFits(c) /\ settings.at = "ready"
    BY <1>1 DEF CallsFit, PageFits, Loads
  <1>3. UNCHANGED <<account, dialog, clicks, securityLost>> /\ outpaced' \in BOOLEAN
        /\ (outpaced' <=> outpaced \/ ~c.ok)
    BY DEF DevicesRead, SecurityTyped
  <1>4. \A d \in inFlight' : ~OfTheList(d) /\ d \notin Loads
    BY <1>1, <1>2 DEF CallsFit, CallFits
  <1>5. PICK devices \in SUBSET Devices : devices = IF c.ok THEN c.devices ELSE settings.devices
    BY DEF SecurityTyped, PageShown, SecurityCalls
  <1>6. settings' = [settings EXCEPT !.busy = "none", !.devices = devices]
    BY <1>5 DEF DevicesRead
  <1>7. /\ settings' \in PageShown /\ settings'.at = "ready" /\ settings'.busy = "none"
        /\ settings'.on = settings.on /\ settings'.devices = devices
    BY <1>2, <1>6 DEF SecurityTyped, PageShown
  <1>8. SecurityTyped' /\ CodesFit'
    BY <1>1, <1>3, <1>7 DEF SecurityTyped, CodesFit
  <1>9. CallsFit'
    BY <1>1, <1>2, <1>3, <1>7, RestStillFits
  <1>10. PageFits'
    BY <1>2, <1>3, <1>7 DEF PageFits, Heeded, Offered
  <1>11. ChangeIsDue'
    <2>1. ~outpaced /\ ~Heeded => \E d \in inFlight' : Turned(d)
      BY <1>1, <1>2 DEF ChangeIsDue
    <2>2. ~outpaced' => settings'.devices = account.devices \/ ListIsDue'
      BY <1>1, <1>2, <1>3, <1>5, <1>7 DEF ChangeIsDue, ListIsDue
    <2>3. \A d \in inFlight' : d.to # "reload"
      BY <1>4 DEF OfTheList
    <2> QED
      BY <1>3, <1>7, <2>1, <2>2, <2>3 DEF ChangeIsDue, Turned, Heeded
  <1> QED
    BY <1>8, <1>9, <1>10, <1>11

LEMMA SecurityGoesOn ==
  ASSUME SecInv, [SecurityNext]_securityVars
  PROVE  SecInv'
  <1>1. CASE RetryLoad \/ OpenDialog \/ CloseDialog \/ SendCode \/ HasLoaded
    BY <1>1, PageIsTriedAgain, DialogIsOpenedOrClosed, CodeIsAskedFor, PageIsLoaded
  <1>2. ASSUME NEW about \in {"right", "wrong", "password"}, GiveCode(about) PROVE SecInv'
    BY <1>2, CodeIsGiven
  <1>3. ASSUME NEW target \in Devices \union {"all"}, Revoke(target) PROVE SecInv'
    BY <1>3, DeviceIsForgotten
  <1>4. ASSUME NEW c \in inFlight, ServeSecurity(c) PROVE SecInv'
    BY <1>4, SecurityIsServed
  <1>5. ASSUME NEW c \in inFlight, SecurityAnswer(c) PROVE SecInv'
    BY <1>5, DialogIsAnswered, SecurityTurnedOff, ListIsAskedFor, ListIsRead DEF SecurityAnswer
  <1>6. ASSUME NEW c \in inFlight, LoseSecurity(c) PROVE SecInv'
    BY <1>6, SecurityIsLost
  <1>7. ASSUME NEW p \in Purposes, CoolsDown(p) PROVE SecInv'
    BY <1>7, CodesCool
  <1>8. CASE UNCHANGED securityVars
    BY <1>8
       DEF securityVars, SecInv, SecurityTyped, CodesFit, CallsFit, CallFits, PageFits, ChangeIsDue,
           Live, Turned, OfTheList, Heeded, Offered, Loads, Asked, ListIsDue
  <1> QED
    BY <1>1, <1>2, <1>3, <1>4, <1>5, <1>6, <1>7, <1>8 DEF SecurityNext

LEMMA SecurityIsRight ==
  ASSUME SecInv
  PROVE  SecurityTypeOK /\ SecuritySettles
  <1>1. SecurityTypeOK
    BY DEF SecInv, SecurityTyped, SecurityTypeOK, AccountRecords, DialogRecords, CodeRecords
  <1>2. SecuritySettles
    BY DEF SecInv, SecurityTyped, PageShown, AccountRecords, PageFits, ChangeIsDue, Heeded,
           ListIsDue, SecuritySettles
  <1> QED
    BY <1>1, <1>2

-----------------------------------------------------------------------------
\* EntryForms.  A form opened stores at most one thing, at the price it showed, and
\* the list behind it is loaded again by the newest load.

AskKinds == {"account", "check", "store", "price", "list"}

AskRecords ==
  [to : AskKinds, figure : Figures \union {0}, opening : 0..MaxOpenings, typing : 0..MaxTypings,
   load : Nat, at : {"sent", "answered"}, ok : BOOLEAN, shows : [Figures -> Nat]]

FormRecords ==
  [opening : 0..MaxOpenings, busy : BOOLEAN, typed : Figures \union {0},
   quote : Figures \union {0}, hasAccount : BOOLEAN]

FormsTyped ==
  /\ formKind \in FormKinds /\ member \in BOOLEAN /\ stored \in [Figures -> Nat]
  /\ form \in FormRecords /\ formsOpened \in 0..MaxOpenings /\ typings \in 0..MaxTypings
  /\ pricer \in BOOLEAN /\ asks \subseteq AskRecords /\ listed \in [Figures -> Nat]
  /\ listLoads \in Nat /\ listNewest \in 0..listLoads /\ pageLeft \in BOOLEAN
  /\ created \in [1..MaxOpenings -> Nat] /\ verified \subseteq Figures
  /\ behind \in BOOLEAN /\ uncertain \in BOOLEAN /\ formLost \in 0..MaxFormLost

\* A request of a submission: one at a time, and its form waits.
Submits(r) == r.to \in {"account", "check", "store"}

AskFits(r) ==
  /\ r.to # "list" => r.opening \in 1..formsOpened
  /\ r.to = "list" => r.load \in 1..listLoads
  /\ r.typing <= typings /\ (r.at = "sent" => ~r.ok)
  /\ r.to = "account" => formKind = "register"
  /\ r.to = "check" => formKind = "account"
  /\ Submits(r) => r.figure \in Figures /\ (form.opening = r.opening => form.busy)

OneSubmission ==
  \A q, r \in asks : Submits(q) /\ Submits(r) /\ q.opening = r.opening => q = r

\* A form on screen is the last one opened.
FormFits ==
  /\ form = NoForm \/ (form.opening = formsOpened /\ formsOpened > 0)
  /\ pricer => form # NoForm
  /\ \A n \in 1..MaxOpenings : n > formsOpened => created[n] = 0

PricesFit ==
  /\ \A r \in asks : IsLive(r) => r.figure = form.typed
  /\ formKind \in Invoices =>
       form = NoForm \/ pricer \/ (\E r \in asks : IsLive(r)) \/ form.quote \in {0, form.typed}

VerifiedFirst ==
  formKind = "account" =>
    /\ \A f \in Figures : stored[f] > 0 => f \in verified
    /\ \A r \in asks : r.to = "store" \/ (r.to = "check" /\ r.ok) => r.figure \in verified

AccountIsKnown ==
  /\ formKind = "register" /\ formsOpened = 0 => ~member
  /\ ~uncertain /\ formKind = "register" /\ formsOpened <= 1 /\ member /\ form # NoForm =>
       form.hasAccount \/ (form.busy /\ \E r \in asks : r.to = "account" /\ r.ok /\ r.opening = form.opening)

StoreHeard(r) == r.to = "store" /\ r.at = "answered" /\ r.ok

CreatedOnce ==
  ~uncertain => \A n \in 1..MaxOpenings :
    /\ created[n] <= 1
    /\ created[n] > 0 =>
         /\ \A r \in asks : Submits(r) /\ r.opening = n => StoreHeard(r)
         /\ form.opening = n => \E r \in asks : StoreHeard(r) /\ r.opening = n

StoreIsDue == \E r \in asks : StoreHeard(r)
NewestListDue == \E r \in asks : r.to = "list" /\ r.load = listLoads

ListFits ==
  /\ NewestListDue \/ listNewest = listLoads
  /\ ~uncertain /\ formKind \in ListedKinds =>
       /\ listed = stored \/ behind \/ StoreIsDue \/ NewestListDue
       /\ \A r \in asks : r.to = "list" /\ r.load = listLoads /\ r.ok => r.shows = stored \/ StoreIsDue

FInv ==
  /\ FormsTyped /\ (\A r \in asks : AskFits(r)) /\ OneSubmission /\ FormFits /\ PricesFit
  /\ VerifiedFirst /\ AccountIsKnown /\ CreatedOnce /\ ListFits

-----------------------------------------------------------------------------
LEMMA FormPartsAre ==
  /\ 0 \notin Figures /\ Figures # {} /\ Figures \subseteq Nat
  /\ MaxOpenings \in Nat /\ MaxTypings \in Nat /\ MaxFormLost \in Nat
  /\ NoForm \in FormRecords /\ NoForm.opening = 0 /\ ~NoForm.busy /\ ~NoForm.hasAccount
  /\ NothingThere \in [Figures -> Nat]
  BY FormsAssumption DEF NoForm, FormRecords, NothingThere

\* A request as it is sent.
LEMMA AskIsMade ==
  ASSUME NEW to \in AskKinds, NEW figure \in Figures \union {0}, NEW o \in 0..MaxOpenings,
         NEW q, q = ToForm(to, figure, o)
  PROVE  /\ q \in AskRecords /\ q.to = to /\ q.figure = figure /\ q.opening = o
         /\ q.at = "sent" /\ ~q.ok /\ q.typing = 0 /\ q.load = 0
  BY FormPartsAre, FormsAssumption DEF ToForm, AskRecords

LEMMA FormsStart ==
  ASSUME FormsInit
  PROVE  FInv
  <1>1. stored \in [Figures -> Nat] /\ listed = stored
    BY FormPartsAre DEF FormsInit
  <1>2. FormsTyped
    <2>1. /\ formKind \in FormKinds /\ member \in BOOLEAN /\ form = NoForm /\ formsOpened = 0
          /\ typings = 0 /\ pricer = FALSE /\ asks = {} /\ listLoads = 0 /\ listNewest = 0
          /\ pageLeft = FALSE /\ created = [n \in 1..MaxOpenings |-> 0] /\ verified = {}
          /\ behind = FALSE /\ uncertain = FALSE /\ formLost = 0
      BY DEF FormsInit
    <2>2. /\ created \in [1..MaxOpenings -> Nat] /\ asks \subseteq AskRecords
          /\ verified \subseteq Figures /\ formsOpened \in 0..MaxOpenings
          /\ typings \in 0..MaxTypings /\ formLost \in 0..MaxFormLost /\ form \in FormRecords
          /\ listNewest \in 0..listLoads /\ listLoads \in Nat
      BY <2>1, FormPartsAre
    <2> QED
      BY <1>1, <2>1, <2>2 DEF FormsTyped
  <1>3. asks = {} /\ form = NoForm
    BY DEF FormsInit
  <1>4. formKind = "account" => \A f \in Figures : stored[f] = 0
    BY DEF FormsInit, NothingThere
  <1>5. (\A r \in asks : AskFits(r)) /\ OneSubmission /\ FormFits /\ PricesFit
        /\ AccountIsKnown /\ CreatedOnce
    <2>1. /\ formsOpened = 0 /\ pricer = FALSE /\ created = [n \in 1..MaxOpenings |-> 0]
          /\ (formKind = "register" => ~member)
      BY DEF FormsInit
    <2>2. \A n \in 1..MaxOpenings : created[n] = 0
      BY <2>1
    <2>3. AccountIsKnown
      BY <1>3, <2>1 DEF AccountIsKnown
    <2>4. CreatedOnce /\ FormFits
      BY <1>3, <2>1, <2>2 DEF CreatedOnce, FormFits
    <2> QED
      BY <1>3, <2>3, <2>4 DEF OneSubmission, PricesFit
  <1>6. VerifiedFirst
    BY <1>3, <1>4 DEF VerifiedFirst
  <1>7. ListFits
    BY <1>1, <1>3 DEF FormsInit, ListFits
  <1> QED
    BY <1>2, <1>5, <1>6, <1>7 DEF FInv

\* What the person does to the form sends nothing and stores nothing.
LEMMA FormIsOpened ==
  ASSUME FInv, OpenForm
  PROVE  FInv'
  <1> USE DEF FInv
  <1>1. /\ form = NoForm /\ formsOpened' = formsOpened + 1 /\ formsOpened' \in 1..MaxOpenings
        /\ UNCHANGED <<formKind, member, stored, typings, pricer, asks, listed, listLoads,
                       listNewest, pageLeft, created, verified, behind, uncertain, formLost>>
    <2>1. formsOpened < MaxOpenings /\ formsOpened' = formsOpened + 1 /\ formsOpened \in 0..MaxOpenings
      BY DEF OpenForm, FormsTyped
    <2>2. formsOpened' \in 1..MaxOpenings
      BY <2>1, FormPartsAre
    <2> QED
      BY <2>1, <2>2 DEF OpenForm
  <1>2. /\ form' \in FormRecords /\ form'.opening = formsOpened' /\ form'.quote \in {0, form'.typed}
        /\ form' # NoForm
    <2>0. PICK n \in 1..MaxOpenings : n = formsOpened' /\ n \in 0..MaxOpenings /\ n # 0
      BY <1>1, FormPartsAre
    <2>1. CASE form' = [NoForm EXCEPT !.opening = formsOpened']
      BY <2>0, <2>1, FormPartsAre DEF FormRecords, NoForm
    <2>2. CASE form' # [NoForm EXCEPT !.opening = formsOpened']
      <3>1. PICK f \in Figures :
              form' = [NoForm EXCEPT !.opening = formsOpened', !.typed = f, !.quote = f]
        BY <2>2 DEF OpenForm
      <3> QED
        BY <2>0, <3>1, FormPartsAre DEF FormRecords, NoForm
    <2> QED
      BY <2>1, <2>2
  <1>3. \A r \in asks : r \in AskRecords /\ AskFits(r)
    BY DEF FormsTyped
  <1>3a. \A r \in asks : r.to # "list" => r.opening # form'.opening
    BY <1>1, <1>2, <1>3, FormPartsAre DEF FormsTyped, AskFits
  <1>4. FormsTyped'
    BY <1>1, <1>2 DEF FormsTyped, AskRecords, FormRecords
  <1>5. \A r \in asks : AskFits(r)'
    BY <1>1, <1>3, <1>3a, FormPartsAre DEF AskFits, FormsTyped, Submits
  <1>6. OneSubmission'
    BY <1>1 DEF OneSubmission, Submits
  <1>7. FormFits'
    BY <1>1, <1>2, FormPartsAre DEF FormFits, FormsTyped
  <1>8. PricesFit'
    BY <1>1, <1>2, <1>3a DEF PricesFit, IsLive
  <1>9. VerifiedFirst' /\ ListFits'
    BY <1>1 DEF VerifiedFirst, ListFits, StoreIsDue, NewestListDue, StoreHeard
  <1>10. AccountIsKnown'
    BY <1>1 DEF AccountIsKnown, FormsTyped
  <1>11. CreatedOnce'
    BY <1>1, <1>2, FormPartsAre DEF CreatedOnce, FormFits, FormsTyped, Submits, StoreHeard
  <1> QED
    BY <1>1, <1>4, <1>5, <1>6, <1>7, <1>8, <1>9, <1>10, <1>11

LEMMA FormIsClosed ==
  ASSUME FInv, CloseForm
  PROVE  FInv'
  <1> USE DEF FInv
  <1>1. /\ form' = NoForm /\ pricer' = FALSE
        /\ UNCHANGED <<formKind, member, stored, formsOpened, typings, asks, listed, listLoads,
                       listNewest, pageLeft, created, verified, behind, uncertain, formLost>>
    BY DEF CloseForm
  <1>2. form' \in FormRecords /\ form'.opening = 0 /\ NoForm' = NoForm
    BY <1>1, FormPartsAre DEF NoForm
  <1>3. \A r \in asks : r \in AskRecords /\ AskFits(r)
    BY DEF FormsTyped
  <1>4. \A r \in asks : r.to # "list" => r.opening # 0
    BY <1>3, FormPartsAre DEF FormsTyped, AskFits
  <1>5. FormsTyped'
    BY <1>1, <1>2 DEF FormsTyped, AskRecords, FormRecords
  <1>6. \A r \in asks : AskFits(r)'
    BY <1>1, <1>2, <1>3, <1>4 DEF AskFits, Submits
  <1>7. OneSubmission' /\ VerifiedFirst' /\ ListFits'
    BY <1>1 DEF OneSubmission, Submits, VerifiedFirst, ListFits, StoreIsDue, NewestListDue, StoreHeard
  <1>8. FormFits'
    BY <1>1, <1>2 DEF FormFits
  <1>9. PricesFit'
    BY <1>1, <1>2, <1>4 DEF PricesFit, IsLive
  <1>10. AccountIsKnown'
    BY <1>1, <1>2 DEF AccountIsKnown
  <1>11. CreatedOnce'
    BY <1>1, <1>2, FormPartsAre DEF CreatedOnce, Submits, StoreHeard, FormsTyped
  <1> QED
    BY <1>1, <1>5, <1>6, <1>7, <1>8, <1>9, <1>10, <1>11

LEMMA FigureIsTyped ==
  ASSUME FInv, NEW f \in Figures \union {0}, TypeFigure(f)
  PROVE  FInv'
  <1> USE DEF FInv
  <1>1. /\ form # NoForm /\ typings' = typings + 1 /\ typings \in 0..MaxTypings
        /\ pricer' = (formKind \in PricedKinds /\ f # 0)
        /\ UNCHANGED <<formKind, member, stored, formsOpened, asks, listed, listLoads,
                       listNewest, pageLeft, created, verified, behind, uncertain, formLost>>
    BY DEF TypeFigure, FormsTyped
  <1>2. typings' \in 0..MaxTypings
    BY <1>1, FormPartsAre DEF TypeFigure
  <1>3. /\ form' \in FormRecords /\ form'.opening = form.opening /\ form'.busy = form.busy
        /\ form'.hasAccount = form.hasAccount /\ form'.typed = f /\ form'.quote \in {0, form.quote}
        /\ formKind \in Invoices /\ f = 0 => form'.quote = 0
    BY DEF TypeFigure, FormsTyped, FormRecords
  <1>4. form.opening = formsOpened /\ formsOpened > 0 /\ form' # NoForm /\ NoForm' = NoForm
    BY <1>1, <1>3, FormPartsAre DEF FormFits, NoForm
  <1>5. \A r \in asks : r \in AskRecords /\ AskFits(r) /\ r.typing <= typings /\ r.typing \in Nat
    BY FormPartsAre DEF FormsTyped, AskFits, AskRecords
  <1>6. FormsTyped'
    BY <1>1, <1>2, <1>3 DEF FormsTyped, AskRecords, FormRecords
  <1>7. ASSUME NEW r \in asks PROVE AskFits(r)'
    <2>1. r.typing <= typings'
      BY <1>1, <1>5
    <2> QED
      BY <1>1, <1>3, <1>5, <2>1 DEF AskFits, Submits
  <1>8. OneSubmission' /\ VerifiedFirst' /\ ListFits'
    BY <1>1 DEF OneSubmission, Submits, VerifiedFirst, ListFits, StoreIsDue, NewestListDue, StoreHeard
  <1>9. FormFits'
    BY <1>1, <1>3, <1>4 DEF FormFits
  <1>10. PricesFit'
    <2>1. \A r \in asks : r.typing # typings'
      BY <1>1, <1>5
    <2>2. f # 0 => formKind \notin Invoices \/ pricer'
      BY <1>1 DEF PricedKinds, Invoices
    <2> QED
      BY <1>1, <1>3, <2>1, <2>2 DEF PricesFit, IsLive
  <1>11. AccountIsKnown'
    BY <1>1, <1>3, <1>4 DEF AccountIsKnown
  <1>12. CreatedOnce'
    BY <1>1, <1>3 DEF CreatedOnce, Submits, StoreHeard
  <1> QED
    BY <1>1, <1>6, <1>7, <1>8, <1>9, <1>10, <1>11, <1>12

LEMMA PriceIsAsked ==
  ASSUME FInv, AskPrice
  PROVE  FInv'
  <1> USE DEF FInv
  <1>1. /\ pricer /\ pricer' = FALSE
        /\ UNCHANGED <<formKind, member, stored, form, formsOpened, typings, listed, listLoads,
                       listNewest, pageLeft, created, verified, behind, uncertain, formLost>>
    BY DEF AskPrice
  <1>2. form # NoForm /\ form.opening = formsOpened /\ formsOpened > 0 /\ form.opening \in 1..formsOpened
        /\ form.typed \in Figures \union {0} /\ form.opening \in 0..MaxOpenings /\ typings \in 0..MaxTypings
    BY <1>1 DEF FormFits, FormsTyped, FormRecords
  <1>3. PICK q \in AskRecords :
          /\ asks' = asks \union {q} /\ q.to = "price" /\ q.figure = form.typed
          /\ q.opening = form.opening /\ q.typing = typings /\ q.at = "sent" /\ ~q.ok
    <2>1. PICK t : t = ToForm("price", form.typed, form.opening)
      OBVIOUS
    <2>2. /\ t \in AskRecords /\ t.to = "price" /\ t.figure = form.typed
          /\ t.opening = form.opening /\ t.at = "sent" /\ ~t.ok
      BY <1>2, <2>1, AskIsMade DEF AskKinds
    <2> DEFINE q == [t EXCEPT !.typing = typings]
    <2>3. /\ q \in AskRecords /\ q.to = "price" /\ q.figure = form.typed
          /\ q.opening = form.opening /\ q.typing = typings /\ q.at = "sent" /\ ~q.ok
      BY <1>2, <2>2 DEF AskRecords
    <2>4. asks' = asks \union {q}
      BY <2>1 DEF AskPrice
    <2> HIDE DEF q
    <2> QED
      BY <2>3, <2>4
  <1>4. NoForm' = NoForm
    BY DEF NoForm
  <1>5. FormsTyped'
    BY <1>1, <1>3 DEF FormsTyped, AskRecords, FormRecords
  <1>6. ASSUME NEW r \in asks' PROVE AskFits(r)'
    <2>1. CASE r \in asks
      BY <1>1, <2>1 DEF AskFits, Submits
    <2>2. CASE r = q
      BY <1>1, <1>2, <1>3, <2>2 DEF AskFits, Submits
    <2> QED
      BY <1>3, <2>1, <2>2
  <1>7. ~Submits(q) /\ ~StoreHeard(q) /\ q.to \notin {"store", "check", "list", "account"}
    BY <1>3 DEF Submits, StoreHeard
  <1>8. OneSubmission'
    BY <1>3, <1>7 DEF OneSubmission, Submits
  <1>9. FormFits'
    BY <1>1, <1>4 DEF FormFits
  <1>10. PricesFit'
    <2>1. IsLive(q)' /\ q.figure = form'.typed
      BY <1>1, <1>3 DEF IsLive
    <2> QED
      BY <1>1, <1>3, <2>1 DEF PricesFit, IsLive
  <1>11. VerifiedFirst'
    BY <1>1, <1>3, <1>7 DEF VerifiedFirst
  <1>12. AccountIsKnown'
    BY <1>1, <1>3, <1>4 DEF AccountIsKnown
  <1>13. CreatedOnce'
    BY <1>1, <1>3, <1>7 DEF CreatedOnce, Submits, StoreHeard
  <1>14. ListFits'
    BY <1>1, <1>3, <1>7 DEF ListFits, StoreIsDue, NewestListDue, StoreHeard
  <1> QED
    BY <1>5, <1>6, <1>8, <1>9, <1>10, <1>11, <1>12, <1>13, <1>14

LEMMA FormIsSubmitted ==
  ASSUME FInv, SubmitForm
  PROVE  FInv'
  <1> USE DEF FInv
  <1>1. /\ form # NoForm /\ ~form.busy /\ form.typed # 0
        /\ UNCHANGED <<formKind, member, stored, formsOpened, typings, pricer, listed, listLoads,
                       listNewest, pageLeft, created, verified, behind, uncertain, formLost>>
    BY DEF SubmitForm
  <1>2. /\ form.opening = formsOpened /\ formsOpened > 0 /\ form.opening \in 1..formsOpened
        /\ form.typed \in Figures /\ form.opening \in 0..MaxOpenings /\ typings \in Nat
    BY <1>1, FormPartsAre DEF FormFits, FormsTyped, FormRecords
  <1>3. /\ form' \in FormRecords /\ form'.opening = form.opening /\ form'.busy
        /\ form'.hasAccount = form.hasAccount /\ form'.typed = form.typed /\ form'.quote = form.quote
        /\ form' # NoForm /\ NoForm' = NoForm
    BY <1>1, FormPartsAre DEF SubmitForm, FormsTyped, FormRecords, NoForm
  <1>4. PICK q \in AskRecords :
          /\ asks' = asks \union {q} /\ q.to = FirstStep /\ q.figure = form.typed
          /\ q.opening = form.opening /\ q.typing = 0 /\ q.at = "sent" /\ ~q.ok
    <2>1. PICK t : t = ToForm(FirstStep, form.typed, form.opening)
      OBVIOUS
    <2>2. FirstStep \in AskKinds
      BY DEF FirstStep, AskKinds
    <2>3. asks' = asks \union {t}
      BY <2>1 DEF SubmitForm
    <2> QED
      BY <1>2, <2>1, <2>2, <2>3, AskIsMade
  <1>5. /\ q.to \in {"account", "check", "store"}
        /\ q.to = "account" => formKind = "register"
        /\ q.to = "check" <=> formKind = "account"
    BY <1>4 DEF FirstStep
  <1>6. \A r \in asks : Submits(r) => r.opening # form.opening
    BY <1>1 DEF AskFits
  <1>7. FormsTyped'
    BY <1>1, <1>3, <1>4 DEF FormsTyped, AskRecords, FormRecords
  <1>8. ASSUME NEW r \in asks' PROVE AskFits(r)'
    <2>1. CASE r \in asks
      BY <1>1, <1>3, <2>1 DEF AskFits, Submits
    <2>2. CASE r = q
      BY <1>1, <1>2, <1>3, <1>4, <1>5, <2>2 DEF AskFits, Submits
    <2> QED
      BY <1>4, <2>1, <2>2
  <1>9. OneSubmission'
    BY <1>4, <1>6 DEF OneSubmission, Submits
  <1>10. FormFits'
    BY <1>1, <1>3 DEF FormFits
  <1>11. PricesFit'
    <2>1. ~IsLive(q)'
      BY <1>5 DEF IsLive
    <2> QED
      BY <1>1, <1>3, <1>4, <2>1 DEF PricesFit, IsLive
  <1>12. VerifiedFirst'
    BY <1>1, <1>4, <1>5 DEF VerifiedFirst
  <1>13. AccountIsKnown'
    BY <1>1, <1>3, <1>4 DEF AccountIsKnown
  <1>14. CreatedOnce'
    <2>1. ASSUME ~uncertain PROVE created[form.opening] = 0
      <3>1. form.opening \in 1..MaxOpenings /\ created[form.opening] \in Nat
        BY <1>2, FormPartsAre DEF FormsTyped
      <3>2. \A r \in asks : StoreHeard(r) => Submits(r)
        BY DEF StoreHeard, Submits
      <3> QED
        BY <1>6, <2>1, <3>1, <3>2 DEF CreatedOnce
    <2> QED
      BY <1>1, <1>3, <1>4, <1>6, <2>1 DEF CreatedOnce, Submits, StoreHeard
  <1>15. ListFits'
    BY <1>1, <1>4, <1>5 DEF ListFits, StoreIsDue, NewestListDue, StoreHeard
  <1> QED
    BY <1>7, <1>8, <1>9, <1>10, <1>11, <1>12, <1>13, <1>14, <1>15

\* One request answered: the page hears nothing of it yet.
LEMMA AskMovesOn ==
  ASSUME FInv, NEW r \in asks, NEW q \in AskRecords, asks' = (asks \ {r}) \union {q},
         q.to = r.to, q.figure = r.figure, q.opening = r.opening, q.typing = r.typing,
         q.load = r.load, q.at = "answered",
         UNCHANGED <<formKind, form, formsOpened, typings, pricer, listed, listLoads,
                     listNewest, pageLeft, behind>>,
         member' \in BOOLEAN, stored' \in [Figures -> Nat], created' \in [1..MaxOpenings -> Nat],
         verified' \subseteq Figures, uncertain' \in BOOLEAN, formLost' \in 0..MaxFormLost,
         \A n \in 1..MaxOpenings : created'[n] # created[n] => n <= formsOpened
  PROVE  /\ FormsTyped' /\ (\A s \in asks' : AskFits(s)') /\ OneSubmission' /\ FormFits'
         /\ PricesFit'
  <1> USE DEF FInv
  <1>1. FormsTyped'
    BY DEF FormsTyped, AskRecords, FormRecords
  <1>2. ASSUME NEW s \in asks' PROVE AskFits(s)'
    <2>1. CASE s \in asks
      BY <2>1 DEF AskFits, Submits
    <2>2. CASE s = q
      <3>1. AskFits(r)
        OBVIOUS
      <3> QED
        BY <2>2, <3>1 DEF AskFits, Submits
    <2> QED
      BY <2>1, <2>2
  <1>3. OneSubmission'
    BY DEF OneSubmission, Submits
  <1>4. FormFits'
    <2>1. NoForm' = NoForm
      BY DEF NoForm
    <2>2. ASSUME NEW n \in 1..MaxOpenings, n > formsOpened PROVE created'[n] = 0
      <3>1. ~(n <= formsOpened)
        BY <2>2, FormPartsAre DEF FormsTyped
      <3> QED
        BY <2>2, <3>1 DEF FormFits
    <2> QED
      BY <2>1, <2>2 DEF FormFits
  <1>5. PricesFit'
    <2>1. NoForm' = NoForm
      BY DEF NoForm
    <2>2. IsLive(q)' <=> IsLive(r)
      BY DEF IsLive
    <2>3. ASSUME NEW s \in asks' PROVE IsLive(s)' => s.figure = form'.typed
      BY <2>2 DEF PricesFit, IsLive
    <2>4. (\E s \in asks : IsLive(s)) => (\E s \in asks' : IsLive(s)')
      BY <2>2 DEF IsLive
    <2> QED
      BY <2>1, <2>3, <2>4 DEF PricesFit
  <1> QED
    BY <1>1, <1>2, <1>3, <1>4, <1>5

\* The answer to a request.
LEMMA FormIsAnswered ==
  ASSUME FInv, NEW r \in asks, NEW ok \in BOOLEAN, AnswerForm(r, ok)
  PROVE  \E q \in AskRecords :
           /\ asks' = (asks \ {r}) \union {q}
           /\ q.to = r.to /\ q.figure = r.figure /\ q.opening = r.opening
           /\ q.typing = r.typing /\ q.load = r.load /\ q.at = "answered" /\ q.ok = ok
           /\ r.to = "list" => q.shows = stored
  <1>1. PICK shows \in [Figures -> Nat] :
          /\ asks' = (asks \ {r}) \union {[r EXCEPT !.at = "answered", !.ok = ok, !.shows = shows]}
          /\ r.to = "list" => shows = stored
    BY DEF AnswerForm, FInv, FormsTyped, AskRecords
  <1> DEFINE q == [r EXCEPT !.at = "answered", !.ok = ok, !.shows = shows]
  <1>2. /\ q \in AskRecords /\ q.to = r.to /\ q.figure = r.figure /\ q.opening = r.opening
        /\ q.typing = r.typing /\ q.load = r.load /\ q.at = "answered" /\ q.ok = ok
        /\ q.shows = shows
    BY DEF FInv, FormsTyped, AskRecords
  <1>3. asks' = (asks \ {r}) \union {q}
    BY <1>1
  <1> HIDE DEF q
  <1> QED
    BY <1>1, <1>2, <1>3

LEMMA AccountIsServed ==
  ASSUME FInv, NEW r \in asks, r.at = "sent", ServeAccount(r),
         UNCHANGED <<formKind, form, formsOpened, typings, pricer, listed, listLoads,
                     listNewest, pageLeft, behind, uncertain, formLost>>
  PROVE  FInv'
  <1> USE DEF FInv
  <1>1. /\ r.to = "account" /\ member' = TRUE /\ AnswerForm(r, ~member)
        /\ UNCHANGED <<stored, created, verified>>
    BY DEF ServeAccount
  <1>1a. PICK ok \in BOOLEAN : ok <=> ~member
    BY DEF FormsTyped
  <1>1b. AnswerForm(r, ok)
    BY <1>1, <1>1a DEF FormsTyped
  <1>2. PICK q \in AskRecords :
          /\ asks' = (asks \ {r}) \union {q}
          /\ q.to = r.to /\ q.figure = r.figure /\ q.opening = r.opening
          /\ q.typing = r.typing /\ q.load = r.load /\ q.at = "answered" /\ q.ok = ok
    BY <1>1b, FormIsAnswered
  <1>3. /\ FormsTyped' /\ (\A s \in asks' : AskFits(s)') /\ OneSubmission' /\ FormFits' /\ PricesFit'
    BY <1>1, <1>2, AskMovesOn DEF FormsTyped
  <1>4. AskFits(r) /\ Submits(r) /\ formKind = "register" /\ ~r.ok
    BY <1>1 DEF AskFits, Submits
  <1>5. VerifiedFirst'
    BY <1>4 DEF VerifiedFirst
  <1>6. AccountIsKnown'
    <2>1. formsOpened # 0
      BY <1>1, <1>4, FormPartsAre DEF AskFits, FormsTyped
    <2>2. ASSUME formsOpened <= 1, form # NoForm, ~uncertain
          PROVE  form.hasAccount \/ (form.busy /\ \E s \in asks' : s.to = "account" /\ s.ok /\ s.opening = form.opening)
      <3>1. r.opening = form.opening
        BY <1>1, <1>4, <2>1, <2>2, FormPartsAre DEF AskFits, FormsTyped, FormFits
      <3>2. form.busy
        BY <1>4, <3>1 DEF AskFits
      <3>3. CASE member
        <4>1. ASSUME NEW s \in asks, s.to = "account", s.ok, s.opening = form.opening PROVE FALSE
          BY <1>4, <3>1, <4>1 DEF OneSubmission, Submits
        <4> QED
          BY <1>4, <2>2, <3>3, <4>1 DEF AccountIsKnown
      <3>4. CASE ~member
        BY <1>1, <1>1a, <1>2, <3>1, <3>2, <3>4
      <3> QED
        BY <3>3, <3>4
    <2>3. NoForm' = NoForm
      BY DEF NoForm
    <2> QED
      BY <2>1, <2>2, <2>3 DEF AccountIsKnown
  <1>7. CreatedOnce'
    <2>1. ~StoreHeard(r)
      BY <1>1 DEF StoreHeard
    <2> QED
      BY <1>1, <1>2, <1>4, <2>1 DEF CreatedOnce, Submits, StoreHeard
  <1>8. ListFits'
    BY <1>4, <1>1, <1>2 DEF ListFits, ListedKinds, NewestListDue
  <1> QED
    BY <1>3, <1>5, <1>6, <1>7, <1>8

LEMMA CheckIsServed ==
  ASSUME FInv, NEW r \in asks, r.at = "sent", ServeCheck(r),
         UNCHANGED <<formKind, form, formsOpened, typings, pricer, listed, listLoads,
                     listNewest, pageLeft, behind, uncertain, formLost>>
  PROVE  FInv'
  <1> USE DEF FInv
  <1>1. PICK ok \in BOOLEAN :
          /\ AnswerForm(r, ok)
          /\ verified' = IF ok THEN verified \union {r.figure} ELSE verified
    BY DEF ServeCheck
  <1>2. r.to = "check" /\ UNCHANGED <<member, stored, created>> /\ r \in AskRecords
    BY DEF ServeCheck, FormsTyped
  <1>3. PICK q \in AskRecords :
          /\ asks' = (asks \ {r}) \union {q}
          /\ q.to = r.to /\ q.figure = r.figure /\ q.opening = r.opening
          /\ q.typing = r.typing /\ q.load = r.load /\ q.at = "answered" /\ q.ok = ok
    BY <1>1, FormIsAnswered
  <1>4. AskFits(r) /\ Submits(r) /\ r.figure \in Figures /\ formKind = "account"
    BY <1>2 DEF AskFits, Submits
  <1>5. verified' \subseteq Figures /\ verified \subseteq verified' /\ (q.ok => q.figure \in verified')
    BY <1>1, <1>3, <1>4 DEF FormsTyped
  <1>6. /\ FormsTyped' /\ (\A s \in asks' : AskFits(s)') /\ OneSubmission' /\ FormFits' /\ PricesFit'
    BY <1>2, <1>3, <1>5, AskMovesOn DEF FormsTyped
  <1>7. VerifiedFirst'
    BY <1>2, <1>3, <1>5 DEF VerifiedFirst
  <1>8. AccountIsKnown'
    BY <1>4 DEF AccountIsKnown
  <1>9. CreatedOnce'
    <2>1. ~StoreHeard(r)
      BY <1>2 DEF StoreHeard
    <2> QED
      BY <1>2, <1>3, <1>4, <2>1 DEF CreatedOnce, Submits, StoreHeard
  <1>10. ListFits'
    BY <1>2, <1>3 DEF ListFits, StoreIsDue, NewestListDue, StoreHeard
  <1> QED
    BY <1>6, <1>7, <1>8, <1>9, <1>10

LEMMA StoreIsServed ==
  ASSUME FInv, NEW r \in asks, r.at = "sent", ServeStore(r),
         UNCHANGED <<formKind, form, formsOpened, typings, pricer, listed, listLoads,
                     listNewest, pageLeft, behind, uncertain, formLost>>
  PROVE  FInv'
  <1> USE DEF FInv
  <1>1. PICK ok \in BOOLEAN :
          /\ AnswerForm(r, ok)
          /\ \/ ~ok /\ UNCHANGED <<stored, created>>
             \/ /\ ok
                /\ stored' = IF formKind = "edit" THEN [NothingThere EXCEPT ![r.figure] = 1]
                             ELSE [stored EXCEPT ![r.figure] = @ + 1]
                /\ created' = [created EXCEPT ![r.opening] = @ + 1]
    <2> DEFINE refused == formKind \in Keyed /\ stored[r.figure] > 0
    <2>1. CASE refused
      BY <2>1 DEF ServeStore
    <2>2. CASE ~refused
      BY <2>2 DEF ServeStore
    <2> QED
      BY <2>1, <2>2
  <1>2. r.to = "store" /\ UNCHANGED <<member, verified>> /\ r \in AskRecords
    BY DEF ServeStore, FormsTyped
  <1>3. PICK q \in AskRecords :
          /\ asks' = (asks \ {r}) \union {q}
          /\ q.to = r.to /\ q.figure = r.figure /\ q.opening = r.opening
          /\ q.typing = r.typing /\ q.load = r.load /\ q.at = "answered" /\ q.ok = ok
    BY <1>1, FormIsAnswered
  <1>4. AskFits(r) /\ Submits(r) /\ r.figure \in Figures /\ r.opening \in 1..formsOpened
    BY <1>2 DEF AskFits, Submits
  <1>4a. r.opening \in 1..MaxOpenings /\ r.opening <= formsOpened /\ ~StoreHeard(r)
    BY <1>4, FormPartsAre DEF FormsTyped, StoreHeard
  <1>5. /\ stored' \in [Figures -> Nat] /\ created' \in [1..MaxOpenings -> Nat]
        /\ \A n \in 1..MaxOpenings : created'[n] # created[n] => n = r.opening
        /\ formKind = "account" => \A f \in Figures : stored'[f] > 0 => stored[f] > 0 \/ f = r.figure
    <2>1. CASE ~ok
      BY <1>1, <2>1 DEF FormsTyped
    <2>2. CASE ok
      <3>1. created' \in [1..MaxOpenings -> Nat] /\ \A n \in 1..MaxOpenings : created'[n] # created[n] => n = r.opening
        <4>1. PICK c \in Nat : c = created[r.opening] + 1
          BY <1>4a DEF FormsTyped
        <4>2. created' = [created EXCEPT ![r.opening] = c]
          BY <1>1, <2>2, <4>1
        <4> QED
          BY <1>4a, <4>2 DEF FormsTyped
      <3>2. /\ stored' \in [Figures -> Nat]
            /\ formKind = "account" => \A f \in Figures : stored'[f] > 0 => stored[f] > 0 \/ f = r.figure
        <4>1. CASE formKind = "edit"
          BY <1>1, <1>4, <2>2, <4>1, FormPartsAre
        <4>2. CASE formKind # "edit"
          <5>1. PICK c \in Nat : c = stored[r.figure] + 1
            BY <1>4 DEF FormsTyped
          <5>2. stored' = [stored EXCEPT ![r.figure] = c]
            BY <1>1, <2>2, <4>2, <5>1
          <5> QED
            BY <1>4, <5>2 DEF FormsTyped
        <4> QED
          BY <4>1, <4>2
      <3> QED
        BY <3>1, <3>2
    <2> QED
      BY <2>1, <2>2
  <1>6. /\ FormsTyped' /\ (\A s \in asks' : AskFits(s)') /\ OneSubmission' /\ FormFits' /\ PricesFit'
    BY <1>2, <1>3, <1>4a, <1>5, AskMovesOn DEF FormsTyped
  <1>7. VerifiedFirst'
    BY <1>2, <1>3, <1>5 DEF VerifiedFirst
  <1>8. AccountIsKnown'
    <2>1. NoForm' = NoForm
      BY DEF NoForm
    <2> QED
      BY <1>2, <1>3, <2>1 DEF AccountIsKnown
  <1>9. CreatedOnce'
    <2>1. ASSUME ~uncertain, NEW n \in 1..MaxOpenings
          PROVE  /\ created'[n] <= 1
                 /\ created'[n] > 0 =>
                      /\ \A s \in asks' : Submits(s) /\ s.opening = n => StoreHeard(s)
                      /\ form.opening = n => \E s \in asks' : StoreHeard(s) /\ s.opening = n
      <3>1. CASE n # r.opening
        <4>1. created'[n] = created[n]
          BY <1>5, <3>1
        <4> QED
          BY <1>3, <2>1, <3>1, <4>1 DEF CreatedOnce
      <3>2. CASE n = r.opening
        <4>1. created[n] = 0
          <5>1. created[n] \in Nat
            BY DEF FormsTyped
          <5>2. ~(created[n] > 0)
            BY <1>4, <1>4a, <2>1, <3>2 DEF CreatedOnce
          <5> QED
            BY <5>1, <5>2
        <4>2. CASE ~ok
          BY <1>1, <4>1, <4>2
        <4>3. CASE ok
          <5>1. created'[n] = 1
            <6>1. created' = [created EXCEPT ![n] = created[n] + 1] /\ created \in [1..MaxOpenings -> Nat]
              BY <1>1, <3>2, <4>3 DEF FormsTyped
            <6> QED
              BY <4>1, <6>1
          <5>2. StoreHeard(q)
            BY <1>2, <1>3, <4>3 DEF StoreHeard
          <5>3. \A s \in asks : Submits(s) /\ s.opening = n => s = r
            BY <1>4, <3>2 DEF OneSubmission
          <5> QED
            BY <1>3, <3>2, <5>1, <5>2, <5>3
        <4> QED
          BY <4>2, <4>3
      <3> QED
        BY <3>1, <3>2
    <2>2. \A s : (Submits(s)' <=> Submits(s)) /\ (StoreHeard(s)' <=> StoreHeard(s))
      BY DEF Submits, StoreHeard
    <2> QED
      BY <2>1, <2>2 DEF CreatedOnce
  <1>10. ListFits'
    <2>1. CASE ok
      <3>1. StoreHeard(q)' /\ q \in asks'
        BY <1>2, <1>3, <2>1 DEF StoreHeard
      <3> QED
        BY <1>2, <1>3, <3>1 DEF ListFits, StoreIsDue, NewestListDue
    <2>2. CASE ~ok
      BY <1>1, <1>2, <1>3, <1>4a, <2>2 DEF ListFits, StoreIsDue, NewestListDue, StoreHeard
    <2> QED
      BY <2>1, <2>2
  <1> QED
    BY <1>6, <1>7, <1>8, <1>9, <1>10

LEMMA ReadIsServed ==
  ASSUME FInv, NEW r \in asks, r.at = "sent", r.to \in {"price", "list"}, AnswerForm(r, TRUE),
         UNCHANGED <<member, stored, created, verified, formKind, form, formsOpened, typings,
                     pricer, listed, listLoads, listNewest, pageLeft, behind, uncertain, formLost>>
  PROVE  FInv'
  <1> USE DEF FInv
  <1>1. PICK q \in AskRecords :
          /\ asks' = (asks \ {r}) \union {q}
          /\ q.to = r.to /\ q.figure = r.figure /\ q.opening = r.opening
          /\ q.typing = r.typing /\ q.load = r.load /\ q.at = "answered" /\ q.ok = TRUE
          /\ r.to = "list" => q.shows = stored
    BY FormIsAnswered
  <1>2. /\ FormsTyped' /\ (\A s \in asks' : AskFits(s)') /\ OneSubmission' /\ FormFits' /\ PricesFit'
    BY <1>1, AskMovesOn DEF FormsTyped
  <1>3. VerifiedFirst'
    BY <1>1 DEF VerifiedFirst
  <1>4. AccountIsKnown'
    <2>1. NoForm' = NoForm
      BY DEF NoForm
    <2> QED
      BY <1>1, <2>1 DEF AccountIsKnown
  <1>5. CreatedOnce'
    BY <1>1 DEF CreatedOnce, Submits, StoreHeard
  <1>6. ListFits'
    BY <1>1 DEF ListFits, StoreIsDue, NewestListDue, StoreHeard
  <1> QED
    BY <1>2, <1>3, <1>4, <1>5, <1>6

LEMMA FormIsLost ==
  ASSUME FInv, NEW r \in asks, LoseForm(r)
  PROVE  FInv'
  <1> USE DEF FInv
  <1>1. /\ formLost' = formLost + 1 /\ formLost < MaxFormLost /\ (r.at = "sent" \/ r.ok)
        /\ uncertain' = (uncertain \/ (r.at = "answered" /\ r.to \in {"account", "store"}))
        /\ UNCHANGED <<formKind, member, stored, form, formsOpened, typings, pricer,
                       listed, listLoads, listNewest, pageLeft, created, verified, behind>>
    BY DEF LoseForm
  <1>2. PICK q \in AskRecords :
          /\ asks' = (asks \ {r}) \union {q}
          /\ q.to = r.to /\ q.figure = r.figure /\ q.opening = r.opening
          /\ q.typing = r.typing /\ q.load = r.load /\ q.at = "answered" /\ q.ok = FALSE
    <2> DEFINE q == [r EXCEPT !.at = "answered", !.ok = FALSE]
    <2>1. /\ q \in AskRecords /\ q.to = r.to /\ q.figure = r.figure /\ q.opening = r.opening
          /\ q.typing = r.typing /\ q.load = r.load /\ q.at = "answered" /\ q.ok = FALSE
      BY DEF FormsTyped, AskRecords
    <2>2. asks' = (asks \ {r}) \union {q}
      BY DEF LoseForm
    <2> HIDE DEF q
    <2> QED
      BY <2>1, <2>2
  <1>3. formLost' \in 0..MaxFormLost /\ uncertain' \in BOOLEAN
    BY <1>1, FormPartsAre DEF FormsTyped
  <1>4. /\ FormsTyped' /\ (\A s \in asks' : AskFits(s)') /\ OneSubmission' /\ FormFits' /\ PricesFit'
    BY <1>1, <1>2, <1>3, AskMovesOn DEF FormsTyped
  <1>5. AskFits(r) /\ ~StoreHeard(q) /\ r \in AskRecords
    BY <1>2 DEF StoreHeard, FormsTyped
  <1>6. ~uncertain' => ~uncertain /\ ~StoreHeard(r) /\ ~(r.to = "account" /\ r.ok)
    BY <1>1, <1>5 DEF StoreHeard, AskFits, AskRecords
  <1>7. VerifiedFirst'
    BY <1>1, <1>2 DEF VerifiedFirst
  <1>8. AccountIsKnown'
    <2>1. NoForm' = NoForm
      BY DEF NoForm
    <2> QED
      BY <1>1, <1>2, <1>6, <2>1 DEF AccountIsKnown
  <1>9. CreatedOnce'
    <2>1. \A s : (Submits(s)' <=> Submits(s)) /\ (StoreHeard(s)' <=> StoreHeard(s))
      BY DEF Submits, StoreHeard
    <2>2. Submits(q) <=> Submits(r)
      BY <1>2 DEF Submits
    <2> QED
      BY <1>1, <1>2, <1>6, <2>1, <2>2 DEF CreatedOnce
  <1>10. ListFits'
    <2>1. StoreIsDue /\ ~uncertain' => StoreIsDue'
      BY <1>2, <1>6 DEF StoreIsDue, StoreHeard
    <2>2. NewestListDue => NewestListDue'
      BY <1>1, <1>2 DEF NewestListDue
    <2> QED
      BY <1>1, <1>2, <1>6, <2>1, <2>2 DEF ListFits
  <1> QED
    BY <1>4, <1>7, <1>8, <1>9, <1>10

\* A refusal: the form is free again, unless it is another one by now.
LEMMA FormIsRefused ==
  ASSUME FInv, NEW r \in asks, r.at = "answered", ~r.ok, Submits(r), FormRefused(r),
         UNCHANGED <<formKind, member, stored, formsOpened, typings, listed, listNewest,
                     created, verified, behind, uncertain, formLost>>
  PROVE  FInv'
  <1> USE DEF FInv
  <1>1. /\ asks' = asks \ {r} /\ UNCHANGED <<pricer, pageLeft, listLoads>>
        /\ form' = IF form.opening = r.opening THEN [form EXCEPT !.busy = FALSE] ELSE form
    BY DEF FormRefused, IsAsking
  <1>2. /\ form' \in FormRecords /\ form'.opening = form.opening /\ form'.typed = form.typed
        /\ form'.quote = form.quote /\ form'.hasAccount = form.hasAccount
        /\ form'.busy = (form.busy /\ form.opening # r.opening) /\ NoForm' = NoForm
    BY <1>1 DEF FormsTyped, FormRecords, NoForm
  <1>3. AskFits(r) /\ r.opening # 0 /\ r.to \notin {"list", "price"} /\ ~StoreHeard(r) /\ ~IsLive(r)
    BY FormPartsAre DEF AskFits, FormsTyped, Submits, StoreHeard, IsLive
  <1>4. form = NoForm <=> form' = NoForm
    <2>1. CASE form.opening = r.opening
      BY <1>2, <1>3, <2>1, FormPartsAre
    <2>2. CASE form.opening # r.opening
      BY <1>1, <2>2
    <2> QED
      BY <2>1, <2>2
  <1>5. FormsTyped'
    BY <1>1, <1>2 DEF FormsTyped, AskRecords, FormRecords
  <1>6. ASSUME NEW s \in asks' PROVE AskFits(s)'
    <2>1. s \in asks /\ s # r /\ AskFits(s)
      BY <1>1
    <2>2. Submits(s) => s.opening # r.opening
      BY <2>1 DEF OneSubmission
    <2> QED
      BY <1>1, <1>2, <2>1, <2>2 DEF AskFits, Submits
  <1>7. OneSubmission' /\ VerifiedFirst'
    BY <1>1 DEF OneSubmission, Submits, VerifiedFirst
  <1>8. FormFits'
    BY <1>1, <1>2, <1>4 DEF FormFits
  <1>9. PricesFit'
    BY <1>1, <1>2, <1>3, <1>4 DEF PricesFit, IsLive
  <1>10. AccountIsKnown'
    <2>1. form' # NoForm /\ form.busy /\ (\E s \in asks : s.to = "account" /\ s.ok /\ s.opening = form.opening) =>
            form'.busy /\ (\E s \in asks' : s.to = "account" /\ s.ok /\ s.opening = form.opening)
      <3>1. ASSUME NEW s \in asks, s.to = "account", s.ok, s.opening = form.opening
            PROVE  s # r /\ form.opening # r.opening
        BY <3>1 DEF OneSubmission, Submits
      <3> QED
        BY <1>1, <1>2, <3>1
    <2> QED
      BY <1>1, <1>2, <1>4, <2>1 DEF AccountIsKnown
  <1>11. CreatedOnce'
    BY <1>1, <1>2, <1>3 DEF CreatedOnce, Submits, StoreHeard
  <1>12. ListFits'
    BY <1>1, <1>3 DEF ListFits, StoreIsDue, NewestListDue, StoreHeard
  <1> QED
    BY <1>5, <1>6, <1>7, <1>8, <1>9, <1>10, <1>11, <1>12

\* The account is there or the bank said yes.
LEMMA FormGoesOn ==
  ASSUME FInv, NEW r \in asks, r.at = "answered", r.ok, GoesOn(r),
         UNCHANGED <<formKind, member, stored, formsOpened, typings, listed, listNewest,
                     created, verified, behind, uncertain, formLost>>
  PROVE  FInv'
  <1> USE DEF FInv
  <1>1. /\ r.to \in {"account", "check"} /\ UNCHANGED <<pricer, pageLeft, listLoads>>
        /\ asks' = (asks \ {r}) \union {ToForm("store", r.figure, r.opening)}
        /\ form' = IF form.opening = r.opening /\ r.to = "account"
                   THEN [form EXCEPT !.hasAccount = TRUE] ELSE form
    BY DEF GoesOn, IsAsking
  <1>2. /\ form' \in FormRecords /\ form'.opening = form.opening /\ form'.typed = form.typed
        /\ form'.quote = form.quote /\ form'.busy = form.busy
        /\ form'.hasAccount <=> form.hasAccount \/ (form.opening = r.opening /\ r.to = "account")
        /\ NoForm' = NoForm
    BY <1>1 DEF FormsTyped, FormRecords, NoForm
  <1>3. /\ AskFits(r) /\ Submits(r) /\ r \in AskRecords /\ r.figure \in Figures
        /\ r.opening \in 1..formsOpened /\ r.opening # 0 /\ ~StoreHeard(r) /\ ~IsLive(r)
    BY <1>1, FormPartsAre DEF AskFits, FormsTyped, Submits, StoreHeard, IsLive
  <1>4. form = NoForm <=> form' = NoForm
    <2>1. CASE form.opening = r.opening
      BY <1>2, <1>3, <2>1, FormPartsAre
    <2>2. CASE form.opening # r.opening
      BY <1>1, <2>2
    <2> QED
      BY <2>1, <2>2
  <1>5. PICK q \in AskRecords :
          /\ asks' = (asks \ {r}) \union {q} /\ q.to = "store" /\ q.figure = r.figure
          /\ q.opening = r.opening /\ q.at = "sent" /\ ~q.ok /\ q.typing = 0
    <2>1. PICK t : t = ToForm("store", r.figure, r.opening)
      OBVIOUS
    <2>2. r.opening \in 0..MaxOpenings
      BY <1>3 DEF AskRecords
    <2> QED
      BY <1>1, <1>3, <2>1, <2>2, AskIsMade DEF AskKinds
  <1>6. FormsTyped'
    BY <1>1, <1>2, <1>5 DEF FormsTyped, AskRecords, FormRecords
  <1>7. ASSUME NEW s \in asks' PROVE AskFits(s)'
    <2>1. CASE s \in asks
      BY <1>1, <1>2, <2>1 DEF AskFits, Submits
    <2>2. CASE s = q
      <3>1. 0 <= typings
        BY FormPartsAre DEF FormsTyped
      <3> QED
        BY <1>1, <1>2, <1>3, <1>5, <2>2, <3>1 DEF AskFits, Submits
    <2> QED
      BY <1>5, <2>1, <2>2
  <1>8. OneSubmission'
    BY <1>3, <1>5 DEF OneSubmission, Submits
  <1>9. FormFits'
    BY <1>1, <1>2, <1>4 DEF FormFits
  <1>10. PricesFit'
    <2>1. ~IsLive(q)'
      BY <1>5 DEF IsLive
    <2> QED
      BY <1>1, <1>2, <1>3, <1>4, <1>5, <2>1 DEF PricesFit, IsLive
  <1>11. VerifiedFirst'
    <2>1. formKind = "account" => r.to = "check"
      BY <1>1, <1>3 DEF AskFits
    <2> QED
      BY <1>5, <2>1 DEF VerifiedFirst
  <1>12. AccountIsKnown'
    <2>1. ASSUME NEW s \in asks, s.to = "account", s.ok, s.opening = form.opening
          PROVE  form'.hasAccount \/ s \in asks'
      BY <1>2, <1>5, <2>1
    <2> QED
      BY <1>1, <1>2, <1>4, <2>1 DEF AccountIsKnown
  <1>13. CreatedOnce'
    <2>1. ASSUME ~uncertain PROVE created[r.opening] = 0
      <3>1. r.opening \in 1..MaxOpenings /\ created[r.opening] \in Nat
        BY <1>3, FormPartsAre DEF FormsTyped
      <3> QED
        BY <1>3, <2>1, <3>1 DEF CreatedOnce
    <2>2. \A s : (Submits(s)' <=> Submits(s)) /\ (StoreHeard(s)' <=> StoreHeard(s))
      BY DEF Submits, StoreHeard
    <2>3. \A s \in asks : StoreHeard(s) => s \in asks'
      BY <1>3, <1>5
    <2> QED
      BY <1>2, <1>5, <2>1, <2>2, <2>3 DEF CreatedOnce
  <1>14. ListFits'
    BY <1>1, <1>3, <1>5 DEF ListFits, StoreIsDue, NewestListDue, StoreHeard
  <1> QED
    BY <1>6, <1>7, <1>8, <1>9, <1>10, <1>11, <1>12, <1>13, <1>14

LEMMA FormHasStored ==
  ASSUME FInv, NEW r \in asks, r.at = "answered", r.ok, HasStored(r),
         UNCHANGED <<formKind, member, stored, formsOpened, typings, listed, listNewest,
                     created, verified, behind, uncertain, formLost>>
  PROVE  FInv'
  <1> USE DEF FInv
  <1>1. r.to = "store" /\ form' = NoForm /\ pricer' = FALSE /\ NoForm' = NoForm
    BY DEF HasStored, NoForm
  <1>2. form' \in FormRecords /\ form'.opening = 0
    BY <1>1, FormPartsAre
  <1>3. AskFits(r) /\ Submits(r) /\ r \in AskRecords
    BY <1>1 DEF Submits, FormsTyped
  <1>4. \A s \in asks : s.to # "list" => s.opening # 0
    BY FormPartsAre DEF FormsTyped, AskFits
  <1>5. CASE formKind \in ListedKinds
    <2>1. listLoads' = listLoads + 1 /\ UNCHANGED pageLeft /\ listLoads' \in Nat /\ listLoads' > listLoads
      BY <1>1, <1>5 DEF HasStored, FormsTyped
    <2>2. PICK q \in AskRecords :
            /\ asks' = (asks \ {r}) \union {q} /\ q.to = "list" /\ q.load = listLoads'
            /\ q.at = "sent" /\ ~q.ok /\ q.typing = 0
      <3>1. PICK t : t = ToForm("list", 0, 0)
        OBVIOUS
      <3>2. 0 \in 0..MaxOpenings
        BY FormPartsAre
      <3>3. t \in AskRecords /\ t.to = "list" /\ t.at = "sent" /\ ~t.ok /\ t.typing = 0
        BY <3>1, <3>2, AskIsMade DEF AskKinds
      <3>4. PICK n \in Nat : n = listLoads'
        BY <2>1
      <3> DEFINE q == [t EXCEPT !.load = n]
      <3>5. /\ q \in AskRecords /\ q.to = "list" /\ q.load = n
            /\ q.at = "sent" /\ ~q.ok /\ q.typing = 0
        BY <3>3 DEF AskRecords
      <3>6. asks' = (asks \ {r}) \union {q}
        BY <1>1, <1>5, <3>1, <3>4 DEF HasStored
      <3> HIDE DEF q
      <3> QED
        BY <3>4, <3>5, <3>6
    <2>3. FormsTyped'
      <3>1. listNewest' \in 0..listLoads'
        BY <2>1 DEF FormsTyped
      <3> QED
        BY <1>1, <1>2, <2>1, <2>2, <3>1 DEF FormsTyped, AskRecords, FormRecords
    <2>4. ASSUME NEW s \in asks' PROVE AskFits(s)'
      <3>1. CASE s \in asks
        <4>1. s.to = "list" => s.load \in 1..listLoads'
          BY <2>1, <3>1 DEF AskFits, FormsTyped
        <4> QED
          BY <1>1, <1>2, <1>4, <3>1, <4>1 DEF AskFits, Submits
      <3>2. CASE s = q
        <4>1. 0 <= typings /\ q.load \in 1..listLoads'
          BY <2>1, <2>2, FormPartsAre DEF FormsTyped
        <4> QED
          BY <2>2, <3>2, <4>1 DEF AskFits, Submits
      <3> QED
        BY <2>2, <3>1, <3>2
    <2>5. OneSubmission'
      BY <2>2 DEF OneSubmission, Submits
    <2>6. FormFits'
      BY <1>1 DEF FormFits
    <2>7. PricesFit'
      <3>1. ~IsLive(q)'
        BY <2>2 DEF IsLive
      <3> QED
        BY <1>1, <1>2, <1>4, <2>2, <3>1 DEF PricesFit, IsLive
    <2>8. VerifiedFirst'
      BY <2>2 DEF VerifiedFirst
    <2>9. AccountIsKnown'
      BY <1>1 DEF AccountIsKnown
    <2>10. CreatedOnce'
      <3>1. ~Submits(q)
        BY <2>2 DEF Submits
      <3>2. \A n \in 1..MaxOpenings : n # 0
        BY FormPartsAre
      <3> QED
        BY <1>2, <2>2, <3>1, <3>2 DEF CreatedOnce, Submits, StoreHeard
    <2>11. ListFits'
      <3>1. NewestListDue'
        BY <2>2 DEF NewestListDue
      <3>2. \A s \in asks : s.to = "list" => s.load # listLoads'
        BY <2>1 DEF AskFits, FormsTyped
      <3> QED
        BY <2>2, <3>1, <3>2 DEF ListFits
    <2> QED
      BY <2>3, <2>4, <2>5, <2>6, <2>7, <2>8, <2>9, <2>10, <2>11
  <1>6. CASE formKind \notin ListedKinds
    <2>1. pageLeft' = TRUE /\ asks' = asks \ {r} /\ UNCHANGED listLoads
      BY <1>1, <1>6 DEF HasStored
    <2>2. FormsTyped'
      BY <1>1, <1>2, <2>1 DEF FormsTyped, AskRecords, FormRecords
    <2>3. ASSUME NEW s \in asks' PROVE AskFits(s)'
      BY <1>1, <1>2, <1>4, <2>1 DEF AskFits, Submits
    <2>4. OneSubmission' /\ VerifiedFirst'
      BY <2>1 DEF OneSubmission, Submits, VerifiedFirst
    <2>5. FormFits' /\ AccountIsKnown'
      BY <1>1 DEF FormFits, AccountIsKnown
    <2>6. PricesFit'
      BY <1>1, <1>2, <1>4, <2>1 DEF PricesFit, IsLive
    <2>7. CreatedOnce'
      <3>1. \A n \in 1..MaxOpenings : n # 0
        BY FormPartsAre
      <3> QED
        BY <1>2, <2>1, <3>1 DEF CreatedOnce, Submits, StoreHeard
    <2>8. ListFits'
      BY <1>1, <1>6, <2>1 DEF ListFits, NewestListDue
    <2> QED
      BY <2>2, <2>3, <2>4, <2>5, <2>6, <2>7, <2>8
  <1> QED
    BY <1>5, <1>6

LEMMA PriceComes ==
  ASSUME FInv, NEW r \in asks, r.at = "answered", PriceArrives(r),
         UNCHANGED <<formKind, member, stored, formsOpened, typings, listed, listNewest,
                     created, verified, behind, uncertain, formLost>>
  PROVE  FInv'
  <1> USE DEF FInv
  <1>1. r.to = "price" /\ asks' = asks \ {r} /\ UNCHANGED <<pricer, pageLeft, listLoads>>
    BY DEF PriceArrives
  <1>2. r \in AskRecords /\ AskFits(r) /\ ~Submits(r) /\ ~StoreHeard(r) /\ r.opening # 0
    BY <1>1, FormPartsAre DEF FormsTyped, Submits, StoreHeard, AskFits
  <1>3. /\ form' \in FormRecords /\ form'.opening = form.opening /\ form'.typed = form.typed
        /\ form'.busy = form.busy /\ form'.hasAccount = form.hasAccount /\ NoForm' = NoForm
        /\ form = NoForm <=> form' = NoForm
        /\ IF IsLive(r) /\ formKind \in Invoices THEN form'.quote \in {0, form.typed}
           ELSE form'.quote = form.quote \/ formKind \notin Invoices
    <2>1. CASE ~IsLive(r) \/ (~r.ok /\ formKind \notin Invoices)
      BY <2>1 DEF PriceArrives, FormsTyped, NoForm
    <2>2. CASE ~(~IsLive(r) \/ (~r.ok /\ formKind \notin Invoices))
      <3>1. PICK f \in Figures \union {0} : /\ f \in {0, r.figure} /\ form' = [form EXCEPT !.quote = f]
        BY <1>2, <2>2 DEF PriceArrives, AskRecords
      <3>2. r.figure = form.typed
        BY <2>2 DEF PricesFit
      <3>3. /\ form' \in FormRecords /\ form'.opening = form.opening /\ form'.typed = form.typed
            /\ form'.busy = form.busy /\ form'.hasAccount = form.hasAccount /\ form'.quote = f
        BY <3>1 DEF FormsTyped, FormRecords
      <3>4. form.opening # 0
        BY <1>2, <2>2 DEF IsLive
      <3> QED
        BY <2>2, <3>1, <3>2, <3>3, <3>4, FormPartsAre DEF NoForm
    <2> QED
      BY <2>1, <2>2
  <1>4. FormsTyped'
    BY <1>1, <1>3 DEF FormsTyped, AskRecords, FormRecords
  <1>5. ASSUME NEW s \in asks' PROVE AskFits(s)'
    BY <1>1, <1>3 DEF AskFits, Submits
  <1>6. OneSubmission' /\ VerifiedFirst'
    BY <1>1 DEF OneSubmission, Submits, VerifiedFirst
  <1>7. FormFits'
    BY <1>1, <1>3 DEF FormFits
  <1>8. PricesFit'
    <2>1. \A s : IsLive(s)' <=> IsLive(s)
      BY <1>3 DEF IsLive
    <2>2. formKind \in Invoices => form' = NoForm \/ pricer \/ (\E s \in asks' : IsLive(s)) \/ form'.quote \in {0, form.typed}
      BY <1>1, <1>3 DEF PricesFit
    <2> QED
      BY <1>1, <1>3, <2>1, <2>2 DEF PricesFit
  <1>9. AccountIsKnown'
    BY <1>1, <1>3 DEF AccountIsKnown
  <1>10. CreatedOnce'
    BY <1>1, <1>2, <1>3 DEF CreatedOnce, Submits, StoreHeard
  <1>11. ListFits'
    BY <1>1, <1>2 DEF ListFits, StoreIsDue, NewestListDue, StoreHeard
  <1> QED
    BY <1>4, <1>5, <1>6, <1>7, <1>8, <1>9, <1>10, <1>11

LEMMA ListComes ==
  ASSUME FInv, NEW r \in asks, ListArrives(r)
  PROVE  FInv'
  <1> USE DEF FInv
  <1>1. /\ r.to = "list" /\ asks' = asks \ {r}
        /\ listed' = IF r.ok THEN r.shows ELSE listed
        /\ listNewest' = IF r.load > listNewest THEN r.load ELSE listNewest
        /\ behind' = (~r.ok \/ r.load < listNewest)
        /\ UNCHANGED <<formKind, member, stored, form, formsOpened, typings, pricer,
                       listLoads, pageLeft, created, verified, uncertain, formLost>>
    BY DEF ListArrives
  <1>2. r \in AskRecords /\ AskFits(r) /\ ~Submits(r) /\ ~StoreHeard(r) /\ ~IsLive(r) /\ NoForm' = NoForm
    BY <1>1 DEF FormsTyped, Submits, StoreHeard, IsLive, NoForm
  <1>3. r.load \in 1..listLoads /\ listNewest \in 0..listLoads /\ listLoads \in Nat
    BY <1>1, <1>2 DEF AskFits, FormsTyped
  <1>4. FormsTyped'
    <2>1. listed' \in [Figures -> Nat]
      BY <1>1, <1>2 DEF FormsTyped, AskRecords
    <2>2. listNewest' \in 0..listLoads /\ behind' \in BOOLEAN
      BY <1>1, <1>3
    <2> QED
      BY <1>1, <2>1, <2>2 DEF FormsTyped, AskRecords, FormRecords
  <1>5. ASSUME NEW s \in asks' PROVE AskFits(s)'
    BY <1>1 DEF AskFits, Submits
  <1>6. OneSubmission' /\ VerifiedFirst'
    BY <1>1 DEF OneSubmission, Submits, VerifiedFirst
  <1>7. FormFits'
    BY <1>1, <1>2 DEF FormFits
  <1>8. PricesFit'
    BY <1>1, <1>2 DEF PricesFit, IsLive
  <1>9. AccountIsKnown'
    BY <1>1, <1>2 DEF AccountIsKnown
  <1>10. CreatedOnce'
    BY <1>1, <1>2 DEF CreatedOnce, Submits, StoreHeard
  <1>11. ListFits'
    <2>1. NewestListDue' \/ listNewest' = listLoads
      <3>1. CASE r.load = listLoads
        BY <1>1, <1>3, <3>1
      <3>2. CASE r.load # listLoads
        <4>1. NewestListDue => NewestListDue'
          BY <1>1, <3>2 DEF NewestListDue
        <4>2. listNewest = listLoads => listNewest' = listLoads
          BY <1>1, <1>3
        <4> QED
          BY <4>1, <4>2 DEF ListFits
      <3> QED
        BY <3>1, <3>2
    <2>2. StoreIsDue' <=> StoreIsDue
      BY <1>1, <1>2 DEF StoreIsDue, StoreHeard
    <2>3. ASSUME ~uncertain, formKind \in ListedKinds
          PROVE  listed' = stored \/ behind' \/ StoreIsDue \/ NewestListDue'
      <3>1. CASE r.load = listLoads
        BY <1>1, <2>3, <3>1 DEF ListFits
      <3>2. CASE r.load # listLoads
        <4>1. NewestListDue => NewestListDue'
          BY <1>1, <3>2 DEF NewestListDue
        <4>2. listNewest = listLoads => r.load < listNewest
          BY <1>3, <3>2
        <4> QED
          BY <1>1, <4>1, <4>2 DEF ListFits
      <3> QED
        BY <3>1, <3>2
    <2> QED
      BY <1>1, <2>1, <2>2, <2>3 DEF ListFits
  <1> QED
    BY <1>4, <1>5, <1>6, <1>7, <1>8, <1>9, <1>10, <1>11

LEMMA FormsGoOn ==
  ASSUME FInv, [FormsNext]_formVars
  PROVE  FInv'
  <1>1. CASE UNCHANGED formVars
    <2>1. UNCHANGED <<formKind, member, stored, form, formsOpened, typings, pricer, asks, listed,
                      listLoads, listNewest, pageLeft, created, verified, behind, uncertain, formLost>>
      BY <1>1 DEF formVars
    <2>2. FormsTyped'
      BY <2>1 DEF FInv, FormsTyped, AskRecords, FormRecords
    <2>3. (\A r \in asks' : AskFits(r)') /\ OneSubmission'
      BY <2>1 DEF FInv, AskFits, OneSubmission, Submits
    <2>4. FormFits' /\ PricesFit' /\ AccountIsKnown'
      BY <2>1 DEF FInv, FormFits, PricesFit, AccountIsKnown, IsLive, NoForm
    <2>5. VerifiedFirst' /\ CreatedOnce'
      BY <2>1 DEF FInv, VerifiedFirst, CreatedOnce, Submits, StoreHeard
    <2>6. ListFits'
      BY <2>1 DEF FInv, ListFits, StoreIsDue, NewestListDue, StoreHeard
    <2> QED
      BY <2>2, <2>3, <2>4, <2>5, <2>6 DEF FInv
  <1>2. CASE OpenForm
    BY <1>2, FormIsOpened
  <1>3. CASE CloseForm
    BY <1>3, FormIsClosed
  <1>4. CASE AskPrice
    BY <1>4, PriceIsAsked
  <1>5. CASE SubmitForm
    BY <1>5, FormIsSubmitted
  <1>6. CASE \E f \in Figures \union {0} : TypeFigure(f)
    BY <1>6, FigureIsTyped
  <1>7. ASSUME NEW r \in asks, ServeForm(r) PROVE FInv'
    <2>1. /\ r.at = "sent"
          /\ UNCHANGED <<formKind, form, formsOpened, typings, pricer, listed, listLoads,
                         listNewest, pageLeft, behind, uncertain, formLost>>
      BY <1>7 DEF ServeForm
    <2>2. CASE ServeAccount(r)
      BY <2>1, <2>2, AccountIsServed
    <2>3. CASE ServeCheck(r)
      BY <2>1, <2>3, CheckIsServed
    <2>4. CASE ServeStore(r)
      BY <2>1, <2>4, StoreIsServed
    <2>5. CASE /\ r.to \in {"price", "list"} /\ AnswerForm(r, TRUE)
               /\ UNCHANGED <<member, stored, created, verified>>
      BY <2>1, <2>5, ReadIsServed
    <2> QED
      BY <1>7, <2>2, <2>3, <2>4, <2>5 DEF ServeForm
  <1>8. ASSUME NEW r \in asks, FormAnswer(r) PROVE FInv'
    <2>1. /\ r.at = "answered"
          /\ UNCHANGED <<formKind, member, stored, formsOpened, typings, listed, listNewest,
                         created, verified, behind, uncertain, formLost>>
      BY <1>8 DEF FormAnswer
    <2>2. CASE GoesOn(r)
      <3>1. CASE r.ok
        BY <2>1, <2>2, <3>1, FormGoesOn
      <3>2. CASE ~r.ok
        BY <2>1, <2>2, <3>2, FormIsRefused DEF GoesOn, Submits
      <3> QED
        BY <3>1, <3>2
    <2>3. CASE HasStored(r)
      <3>1. CASE r.ok
        BY <2>1, <2>3, <3>1, FormHasStored
      <3>2. CASE ~r.ok
        BY <2>1, <2>3, <3>2, FormIsRefused DEF HasStored, Submits
      <3> QED
        BY <3>1, <3>2
    <2>4. CASE PriceArrives(r)
      BY <2>1, <2>4, PriceComes
    <2> QED
      BY <1>8, <2>2, <2>3, <2>4 DEF FormAnswer
  <1> QED
    BY <1>1, <1>2, <1>3, <1>4, <1>5, <1>6, <1>7, <1>8, ListComes, FormIsLost DEF FormsNext

LEMMA FormsAreRight ==
  ASSUME FInv
  PROVE  FormsTypeOK /\ FormsSettle
  <1> USE DEF FInv
  <1>1. FormsTypeOK
    BY FormPartsAre DEF FormsTypeOK, FormsTyped, FormRecords, FormFits
  <1>2. FormsSettle
    <2>1. formKind \in Invoices /\ form # NoForm /\ ~pricer /\ (\A r \in asks : ~IsLive(r))
            => form.quote \in {0, form.typed}
      BY DEF PricesFit
    <2>2. formKind = "account" => \A f \in Figures : stored[f] > 0 => f \in verified
      BY DEF VerifiedFirst
    <2>3. ~uncertain /\ formKind = "register" /\ formsOpened = 1 /\ form # NoForm /\ ~form.busy /\ member
            => form.hasAccount
      BY DEF AccountIsKnown
    <2>4. ~uncertain => \A n \in 1..MaxOpenings : created[n] <= 1
      BY DEF CreatedOnce
    <2>5. ~uncertain /\ asks = {} /\ ~behind /\ formKind \in ListedKinds => listed = stored
      BY DEF ListFits, StoreIsDue, NewestListDue
    <2> QED
      BY <2>1, <2>2, <2>3, <2>4, <2>5 DEF FormsSettle
  <1> QED
    BY <1>1, <1>2

-----------------------------------------------------------------------------
\* DetailPages.  The document on screen is that of the URL, or is still to come,
\* unless it came late or the newest load is of a page that was left; and it is true
\* if the page was told of every change.

\* What one part of an invoice or an account is read as.
DocViews == IF detailKind = "invoice" THEN Statuses ELSE Bookings
PartsRead == [Parts -> DocViews \union {NotRead}]

DetailRecords ==
  [to : {"load", "change"}, of : {"page", "change"}, id : Docs, reload : Docs, number : Nat,
   parts : PartsRead, at : {"sent", "read", "answered"}, wish : Statuses \union {"none"},
   saw : Statuses \union Bookings \union {"none"}, answer : {"none", "ok", "changed", "other"},
   told : BOOLEAN]

DocRecords == [id : Docs \union {"none"}, parts : PartsRead]

DetailTyped ==
  /\ detailKind \in DetailKinds /\ shelf \in [Docs -> DocViews]
  /\ pastDue \subseteq Docs /\ viewed \in Docs /\ (detailKind = "account" => pastDue = {})
  /\ doc \in DocRecords /\ docCalls \subseteq DetailRecords
  /\ notFound \in BOOLEAN /\ docLoading \in BOOLEAN /\ updating \in BOOLEAN
  /\ docError \in {"none", "changed", "other"} /\ docSent \in Nat
  /\ told \in BOOLEAN /\ docLate \in BOOLEAN /\ strayed \in BOOLEAN
  /\ detailMoves \in 0..MaxDetailMoves /\ elsewhereMoves \in 0..MaxElsewhere
  /\ docLost \in 0..MaxDetailLost

WhollyRead(parts) == \A p \in Parts : parts[p] # NotRead

\* What was read of i is what the server has.
ReadTruly(i, parts) == \A p \in Parts : parts[p] # NotRead => parts[p] = ViewOfDoc(i)

DetailCallFits(r) ==
  /\ r.to = "change" => detailKind = "invoice" /\ r.wish \in Statuses /\ r.of = "page"
  /\ r.to = "load" /\ r.at = "answered" =>
       (r.answer = "ok" /\ WhollyRead(r.parts)) \/ (r.answer # "ok" /\ docLost > 0)
  /\ r.to = "load" /\ r.at # "answered" => r.at = "sent"
  /\ r.to = "load" /\ r.told => ReadTruly(r.id, r.parts)

\* No load is newer than the last one sent, which is of the URL unless it strayed.
LoadIsInOrder(r) ==
  r.to = "load" => r.number <= docSent /\ (r.number = docSent /\ ~strayed => r.id = viewed)

DocIsDue == \E r \in docCalls : r.to = "load"
NewestIsDue == \E r \in docCalls : r.to = "load" /\ r.number = docSent

\* The document on screen is that of the URL, or is the one before, and true if
\* the page was told; or one is still to come.
DocFits ==
  /\ docLoading => DocIsDue
  /\ updating => \E r \in docCalls : r.to = "change" \/ r.of = "change"
  /\ docLost = 0 => ~notFound /\ (doc # NoDoc \/ DocIsDue)
  /\ doc # NoDoc => doc.id \in Docs /\ WhollyRead(doc.parts)
  /\ ~docLate /\ ~strayed => doc = NoDoc \/ doc.id = viewed \/ NewestIsDue
  /\ told => doc = NoDoc \/ ReadTruly(doc.id, doc.parts) \/ DocIsDue
  /\ detailKind = "account" /\ ~docLate /\ ~docLoading => doc = NoDoc \/ doc.id = viewed
  /\ detailKind = "account" => ~strayed

DInv == DetailTyped /\ DocFits /\ \A r \in docCalls : DetailCallFits(r) /\ LoadIsInOrder(r)
-----------------------------------------------------------------------------
LEMMA DetailParts ==
  /\ Docs # {} /\ MaxDetailMoves \in Nat /\ MaxElsewhere \in Nat /\ MaxDetailLost \in Nat
  /\ 0 \in 0..MaxDetailMoves /\ 0 \in 0..MaxElsewhere /\ 0 \in 0..MaxDetailLost
  BY DetailAssumption

LEMMA DocPartsAre ==
  /\ Parts # {} /\ NotRead \notin DocViews
  /\ NoDoc \in DocRecords /\ NoDoc.id = "none" /\ NoDoc.parts \in PartsRead
  /\ \A p \in Parts : NoDoc.parts[p] = NotRead
  /\ DocViews \subseteq Statuses \union Bookings
  BY DEF Parts, NotRead, DocViews, NoDoc, DocRecords, PartsRead, Statuses, Bookings

LEMMA DocIsViewed ==
  ASSUME DetailTyped, NEW i \in Docs
  PROVE  ViewOfDoc(i) \in DocViews
  BY DEF DetailTyped, ViewOfDoc, DocViews, IsOverdue, Statuses, Bookings

LEMMA DocIsRequested ==
  ASSUME DetailTyped, NEW to \in {"load", "change"}, NEW i \in Docs
  PROVE  /\ ToDetail(to, i) \in DetailRecords /\ ToDetail(to, i).to = to
         /\ ToDetail(to, i).of = "page" /\ ToDetail(to, i).id = i /\ ToDetail(to, i).at = "sent"
         /\ ToDetail(to, i).parts = NoDoc.parts
  BY DocPartsAre DEF ToDetail, DetailRecords

LEMMA LoadOfDocIs ==
  ASSUME DetailTyped, NEW of \in {"page", "change"}, NEW i \in Docs
  PROVE  \E q \in DetailRecords :
           /\ q = LoadOfDoc(of, i) /\ q.to = "load" /\ q.of = of /\ q.id = i /\ q.at = "sent"
           /\ q.parts = NoDoc.parts /\ q.number = docSent + 1
  <1>1. PICK n \in Nat : n = docSent + 1
    BY DEF DetailTyped
  <1>2. PICK c \in DetailRecords :
          /\ c = ToDetail("load", i) /\ c.to = "load" /\ c.id = i /\ c.at = "sent"
          /\ c.parts = NoDoc.parts
    BY DocIsRequested
  <1> DEFINE q == [c EXCEPT !.of = of, !.number = n]
  <1>3. /\ q \in DetailRecords /\ q.to = "load" /\ q.of = of /\ q.id = i /\ q.at = "sent"
        /\ q.parts = NoDoc.parts /\ q.number = n
    BY <1>2 DEF DetailRecords
  <1>4. q = LoadOfDoc(of, i)
    BY <1>1, <1>2 DEF LoadOfDoc
  <1> HIDE DEF q
  <1> QED
    BY <1>1, <1>3, <1>4

\* A load that has read nothing yet is true of what it has read.
LEMMA NothingReadYet ==
  ASSUME NEW r, r.to = "load", r.at = "sent", r.parts = NoDoc.parts
  PROVE  DetailCallFits(r)
  BY DocPartsAre DEF DetailCallFits, ReadTruly

LEMMA DetailStarts ==
  ASSUME DetailInit
  PROVE  DInv
  <1>1. detailKind \in DetailKinds /\ viewed \in Docs /\ pastDue = {} /\ doc = NoDoc
        /\ ~notFound /\ docLoading /\ ~updating /\ docError = "none" /\ docSent = 1
        /\ docCalls = {[ToDetail("load", viewed) EXCEPT !.number = 1]}
    BY DEF DetailInit
  <1>2. shelf \in [Docs -> DocViews]
    BY DEF DetailInit, DocViews, DetailKinds, Statuses, Bookings
  <1>3. PICK c : /\ c = ToDetail("load", viewed) /\ c \in DetailRecords /\ c.to = "load"
                 /\ c.of = "page" /\ c.id = viewed /\ c.at = "sent" /\ c.parts = NoDoc.parts
    <2> DEFINE c == ToDetail("load", viewed)
    <2>1. /\ c \in DetailRecords /\ c.to = "load" /\ c.of = "page" /\ c.id = viewed
          /\ c.at = "sent" /\ c.parts = NoDoc.parts
      BY <1>1, DocPartsAre DEF ToDetail, DetailRecords
    <2> HIDE DEF c
    <2>2. c = ToDetail("load", viewed)
      BY DEF c
    <2> QED
      BY <2>1, <2>2
  <1>4. PICK q : /\ docCalls = {q} /\ q \in DetailRecords /\ q.to = "load" /\ q.of = "page"
                 /\ q.id = viewed /\ q.at = "sent" /\ q.parts = NoDoc.parts /\ q.number = 1
    <2> DEFINE q == [c EXCEPT !.number = 1]
    <2>1. /\ q \in DetailRecords /\ q.to = "load" /\ q.of = "page"
          /\ q.id = viewed /\ q.at = "sent" /\ q.parts = NoDoc.parts /\ q.number = 1
      BY <1>3 DEF DetailRecords
    <2>2. docCalls = {q}
      BY <1>1, <1>3
    <2> HIDE DEF q
    <2> QED
      BY <2>1, <2>2
  <1>5. DetailTyped
    <2>1. /\ told /\ ~docLate /\ ~strayed /\ detailMoves = 0 /\ elsewhereMoves = 0 /\ docLost = 0
      BY DEF DetailInit
    <2>2. told \in BOOLEAN /\ docLate \in BOOLEAN /\ strayed \in BOOLEAN /\ notFound \in BOOLEAN
          /\ docLoading \in BOOLEAN /\ updating \in BOOLEAN
      BY DEF DetailInit
    <2> QED
      BY <1>1, <1>2, <1>4, <2>1, <2>2, DocPartsAre, DetailParts DEF DetailTyped
  <1>6. DocFits
    BY <1>1, <1>4 DEF DocFits, DocIsDue, DetailInit
  <1>7. LoadIsInOrder(q)
    BY <1>1, <1>4 DEF LoadIsInOrder
  <1> QED
    BY <1>4, <1>5, <1>6, <1>7, NothingReadYet DEF DInv

\* The page stays as it is, and so does what the requests in flight are for.
LEMMA DocStays ==
  ASSUME DInv, UNCHANGED <<detailKind, viewed, doc, notFound, docLoading, updating, docError,
                           docSent, docLate, strayed, detailMoves>>,
         shelf' \in [Docs -> DocViews], pastDue' \subseteq Docs,
         detailKind = "account" => pastDue' = {},
         told' \in BOOLEAN, elsewhereMoves' \in 0..MaxElsewhere, docLost' \in 0..MaxDetailLost,
         docLost' = 0 => docLost = 0,
         \A q \in docCalls' :
           /\ q \in DetailRecords /\ DetailCallFits(q)'
           /\ \E c \in docCalls : q.to = c.to /\ q.id = c.id /\ q.number = c.number,
         \A r \in docCalls : \E q \in docCalls' :
           q.to = r.to /\ q.of = r.of /\ q.number = r.number,
         told' => told /\ (doc = NoDoc \/ ViewOfDoc(doc.id)' = ViewOfDoc(doc.id))
  PROVE  DInv'
  <1> USE DEF DInv
  <1>1. /\ Parts' = Parts /\ DocViews' = DocViews /\ NoDoc' = NoDoc
        /\ PartsRead' = PartsRead
    BY DEF Parts, DocViews, NoDoc, PartsRead
  <1>2. DetailRecords' = DetailRecords /\ DocRecords' = DocRecords
    BY <1>1 DEF DetailRecords, DocRecords
  <1>3. DetailTyped'
    BY <1>1, <1>2 DEF DetailTyped
  <1>4. (DocIsDue => DocIsDue') /\ (NewestIsDue => NewestIsDue')
    BY DEF DocIsDue, NewestIsDue
  <1>5. (\E r \in docCalls : r.to = "change" \/ r.of = "change") =>
          (\E r \in docCalls' : r.to = "change" \/ r.of = "change")
    OBVIOUS
  <1>6. told' => doc = NoDoc \/ ReadTruly(doc.id, doc.parts)' \/ DocIsDue'
    BY <1>1, <1>4 DEF DocFits, ReadTruly
  <1>7. DocFits'
    BY <1>1, <1>4, <1>5, <1>6 DEF DocFits, WhollyRead
  <1>8. \A q \in docCalls' : LoadIsInOrder(q)'
    BY DEF LoadIsInOrder
  <1> QED
    BY <1>3, <1>7, <1>8

\* What was read of i and is not told of its change.
LEMMA UntoldAre ==
  ASSUME DInv, NEW i \in Docs, NEW those, those \subseteq docCalls
  PROVE  /\ \A q \in Untold(i, those) : q \in DetailRecords /\ \E c \in those :
              /\ q.to = c.to /\ q.of = c.of /\ q.id = c.id /\ q.number = c.number
              /\ q.parts = c.parts /\ q.at = c.at /\ q.wish = c.wish /\ q.answer = c.answer
              /\ q.told => c.told /\ (c.id # i \/ \A p \in Parts : c.parts[p] = NotRead)
         /\ \A c \in those : \E q \in Untold(i, those) :
              q.to = c.to /\ q.of = c.of /\ q.number = c.number
  <1> DEFINE Remarked(c) == IF c.id = i /\ \E p \in Parts : c.parts[p] # NotRead
                        THEN [c EXCEPT !.told = FALSE] ELSE c
  <1>1. Untold(i, those) = {Remarked(c) : c \in those}
    BY DEF Untold
  <1>2. ASSUME NEW c \in those
        PROVE  /\ Remarked(c) \in DetailRecords
               /\ Remarked(c).to = c.to /\ Remarked(c).of = c.of /\ Remarked(c).id = c.id
               /\ Remarked(c).number = c.number /\ Remarked(c).parts = c.parts /\ Remarked(c).at = c.at
               /\ Remarked(c).wish = c.wish /\ Remarked(c).answer = c.answer
               /\ Remarked(c).told => c.told /\ (c.id # i \/ \A p \in Parts : c.parts[p] = NotRead)
    <2>1. c \in DetailRecords
      BY DEF DInv, DetailTyped
    <2>2. CASE c.id = i /\ \E p \in Parts : c.parts[p] # NotRead
      BY <2>1, <2>2 DEF DetailRecords
    <2>3. CASE ~(c.id = i /\ \E p \in Parts : c.parts[p] # NotRead)
      BY <2>1, <2>3
    <2> QED
      BY <2>2, <2>3
  <1> HIDE DEF Remarked
  <1> QED
    BY <1>1, <1>2

\* A request fits still when only documents it has not read, or was told of, change.
LEMMA StillFits ==
  ASSUME NEW q, NEW c, DetailCallFits(c), c.id \in Docs,
         q.to = c.to, q.of = c.of, q.id = c.id, q.parts = c.parts, q.at = c.at,
         q.wish = c.wish, q.answer = c.answer, UNCHANGED detailKind,
         docLost > 0 => docLost' > 0,
         q.told => c.told /\ (ViewOfDoc(c.id)' = ViewOfDoc(c.id) \/ \A p \in Parts : c.parts[p] = NotRead)
  PROVE  DetailCallFits(q)'
  <1>1. Parts' = Parts
    BY DEF Parts
  <1> QED
    BY <1>1 DEF DetailCallFits, WhollyRead, ReadTruly

LEMMA SomeoneChangesIt ==
  ASSUME DInv, NEW i \in Docs, ChangedElsewhere(i) \/ DueDatePasses(i)
  PROVE  DInv'
  <1> USE DEF DInv
  <1>1. /\ UNCHANGED <<detailKind, viewed, doc, notFound, docLoading, updating, docError,
                       docSent, docLate, strayed, detailMoves, docLost>>
        /\ told' = (told /\ doc.id # i) /\ elsewhereMoves' \in 0..MaxElsewhere
        /\ docLost \in 0..MaxDetailLost
    BY DetailParts DEF ChangedElsewhere, DueDatePasses, StillTold, DetailTyped
  <1>2. /\ shelf' \in [Docs -> DocViews] /\ pastDue' \subseteq Docs
        /\ detailKind = "account" => pastDue' = {}
        /\ \A j \in Docs : j # i => ViewOfDoc(j)' = ViewOfDoc(j)
    <2>1. CASE ChangedElsewhere(i)
      <3>1. PICK s : /\ s \in IF detailKind = "invoice" THEN AllowedFrom(shelf[i])
                                                        ELSE Bookings \ {shelf[i]}
                     /\ shelf' = [shelf EXCEPT ![i] = s]
        BY <2>1 DEF ChangedElsewhere
      <3>2. s \in DocViews
        BY <3>1 DEF DetailTyped, DocViews, AllowedFrom, Statuses
      <3> QED
        BY <2>1, <3>1, <3>2 DEF ChangedElsewhere, DetailTyped, ViewOfDoc, IsOverdue
    <2>2. CASE DueDatePasses(i)
      BY <2>2 DEF DueDatePasses, DetailTyped, ViewOfDoc, IsOverdue
    <2> QED
      BY <2>1, <2>2
  <1>3. PICK those : /\ those = Untold(i, docCalls)
                     /\ \/ docCalls' = those
                        \/ docCalls' = {IF c.to = "change" /\ c.id = i /\ c.at = "answered"
                                        THEN [c EXCEPT !.told = FALSE] ELSE c : c \in those}
    BY DEF ChangedElsewhere, DueDatePasses
  <1>4. /\ \A q \in those :
             /\ q \in DetailRecords /\ DetailCallFits(q)'
             /\ \E c \in docCalls : q.to = c.to /\ q.id = c.id /\ q.number = c.number
        /\ \A r \in docCalls : \E q \in those : q.to = r.to /\ q.of = r.of /\ q.number = r.number
    <2>1. ASSUME NEW q \in those
          PROVE  /\ q \in DetailRecords /\ DetailCallFits(q)'
                 /\ \E c \in docCalls : q.to = c.to /\ q.id = c.id /\ q.number = c.number
      <3>1. PICK c \in docCalls :
              /\ q.to = c.to /\ q.of = c.of /\ q.id = c.id /\ q.number = c.number
              /\ q.parts = c.parts /\ q.at = c.at /\ q.wish = c.wish /\ q.answer = c.answer
              /\ q.told => c.told /\ (c.id # i \/ \A p \in Parts : c.parts[p] = NotRead)
        BY <1>3, UntoldAre
      <3>2. c.id \in Docs /\ DetailCallFits(c)
        BY DEF DetailTyped, DetailRecords
      <3>3. q.told => c.told /\ (ViewOfDoc(c.id)' = ViewOfDoc(c.id)
                                   \/ \A p \in Parts : c.parts[p] = NotRead)
        BY <1>2, <3>1, <3>2
      <3>4. DetailCallFits(q)'
        BY <1>1, <3>1, <3>2, <3>3, StillFits
      <3> QED
        BY <1>3, <3>1, <3>4, UntoldAre
    <2> QED
      BY <1>3, <2>1, UntoldAre
  <1>5. /\ \A q \in docCalls' :
             /\ q \in DetailRecords /\ DetailCallFits(q)'
             /\ \E c \in docCalls : q.to = c.to /\ q.id = c.id /\ q.number = c.number
        /\ \A r \in docCalls : \E q \in docCalls' : q.to = r.to /\ q.of = r.of /\ q.number = r.number
    <2>1. CASE docCalls' = those
      BY <1>4, <2>1
    <2>2. CASE docCalls' = {IF c.to = "change" /\ c.id = i /\ c.at = "answered"
                            THEN [c EXCEPT !.told = FALSE] ELSE c : c \in those}
      <3> DEFINE Remarked(c) == IF c.to = "change" /\ c.id = i /\ c.at = "answered"
                            THEN [c EXCEPT !.told = FALSE] ELSE c
      <3>1. ASSUME NEW c \in those
            PROVE  /\ Remarked(c) \in DetailRecords /\ Remarked(c).to = c.to /\ Remarked(c).of = c.of
                   /\ Remarked(c).number = c.number /\ Remarked(c).id = c.id
                   /\ DetailCallFits(Remarked(c))'
        <4>1. CASE c.to = "change" /\ c.id = i /\ c.at = "answered"
          <5>1. c \in DetailRecords /\ DetailCallFits(c)'
            BY <1>4
          <5>2. PICK q \in DetailRecords :
                  /\ q = [c EXCEPT !.told = FALSE] /\ q.to = c.to /\ q.of = c.of
                  /\ q.number = c.number /\ q.id = c.id /\ q.wish = c.wish
            <6> DEFINE q == [c EXCEPT !.told = FALSE]
            <6>1. /\ q \in DetailRecords /\ q.to = c.to /\ q.of = c.of
                  /\ q.number = c.number /\ q.id = c.id /\ q.wish = c.wish
              BY <5>1 DEF DetailRecords
            <6> QED
              BY <6>1
          <5>3. DetailCallFits(q)'
            BY <4>1, <5>1, <5>2 DEF DetailCallFits
          <5>4. Remarked(c) = q
            BY <4>1, <5>2
          <5> QED
            BY <5>2, <5>3, <5>4
        <4>2. CASE ~(c.to = "change" /\ c.id = i /\ c.at = "answered")
          <5>1. Remarked(c) = c
            BY <4>2
          <5> QED
            BY <1>4, <5>1
        <4> QED
          BY <4>1, <4>2
      <3>2. docCalls' = {Remarked(c) : c \in those}
        BY <2>2
      <3> HIDE DEF Remarked
      <3> QED
        BY <1>4, <3>1, <3>2
    <2> QED
      BY <1>3, <2>1, <2>2
  <1>6. told' => told /\ (doc = NoDoc \/ ViewOfDoc(doc.id)' = ViewOfDoc(doc.id))
    BY <1>1, <1>2 DEF DocFits
  <1> QED
    BY <1>1, <1>2, <1>5, <1>6, DocStays DEF DetailTyped

\* One request answered, or further on; the page hears nothing of it yet.
LEMMA OneMovesOn ==
  ASSUME DInv, NEW r \in docCalls, NEW q \in DetailRecords,
         docCalls' = (docCalls \ {r}) \union {q}, q.to = r.to, q.of = r.of,
         q.id = r.id, q.number = r.number, DetailCallFits(q)',
         UNCHANGED <<detailKind, shelf, pastDue, viewed, doc, notFound, docLoading, updating,
                     docError, docSent, told, docLate, strayed, detailMoves, elsewhereMoves>>,
         docLost' \in 0..MaxDetailLost, docLost > 0 => docLost' > 0
  PROVE  DInv'
  <1> USE DEF DInv
  <1>1. ASSUME NEW c \in docCalls PROVE c \in DetailRecords /\ DetailCallFits(c)'
    <2>1. c \in DetailRecords /\ DetailCallFits(c) /\ c.id \in Docs
      BY DEF DetailTyped, DetailRecords
    <2>2. ViewOfDoc(c.id)' = ViewOfDoc(c.id)
      BY DEF ViewOfDoc, IsOverdue
    <2> QED
      BY <2>1, <2>2, StillFits
  <1>2. \A d \in docCalls' :
          /\ d \in DetailRecords /\ DetailCallFits(d)'
          /\ \E c \in docCalls : d.to = c.to /\ d.id = c.id /\ d.number = c.number
    BY <1>1
  <1>3. \A c \in docCalls : \E d \in docCalls' : d.to = c.to /\ d.of = c.of /\ d.number = c.number
    OBVIOUS
  <1>4. ViewOfDoc(doc.id)' = ViewOfDoc(doc.id)
    BY DEF ViewOfDoc, IsOverdue
  <1>5. docLost' = 0 => docLost = 0
    BY DEF DetailTyped
  <1> QED
    BY <1>2, <1>3, <1>4, <1>5, DocStays DEF DetailTyped

LEMMA PartIsServed ==
  ASSUME DInv, NEW r \in docCalls, NEW p \in Parts, ServePart(r, p)
  PROVE  DInv'
  <1> USE DEF DInv
  <1>1. /\ r.to = "load" /\ r.at = "sent" /\ r.parts[p] = NotRead
        /\ UNCHANGED <<detailKind, shelf, pastDue, viewed, doc, notFound, docLoading, updating,
                       docError, docSent, told, docLate, strayed, detailMoves, elsewhereMoves,
                       docLost>>
    BY DEF ServePart
  <1>2. r \in DetailRecords /\ r.parts \in PartsRead /\ r.id \in Docs /\ DetailCallFits(r)
    BY DEF DetailTyped, DetailRecords
  <1>3. PICK read \in PartsRead :
          /\ read = [r.parts EXCEPT ![p] = ViewOfDoc(r.id)] /\ read[p] = ViewOfDoc(r.id)
          /\ \A o \in Parts : o # p => read[o] = r.parts[o]
    <2> DEFINE read == [r.parts EXCEPT ![p] = ViewOfDoc(r.id)]
    <2>1. read \in PartsRead /\ read[p] = ViewOfDoc(r.id) /\ \A o \in Parts : o # p => read[o] = r.parts[o]
      BY <1>2, DocIsViewed DEF PartsRead
    <2> QED
      BY <2>1
  <1>4. PICK at \in {"sent", "answered"}, answer \in {"ok", "none"} :
          /\ docCalls' = (docCalls \ {r}) \union
               {[r EXCEPT !.parts = read, !.at = at, !.answer = answer]}
          /\ at = "answered" => answer = "ok" /\ WhollyRead(read)
    <2>1. CASE WhollyRead(read)
      BY <1>3, <2>1 DEF ServePart, WhollyRead
    <2>2. CASE ~WhollyRead(read)
      BY <1>3, <2>2 DEF ServePart, WhollyRead
    <2> QED
      BY <2>1, <2>2
  <1> DEFINE q == [r EXCEPT !.parts = read, !.at = at, !.answer = answer]
  <1>5. /\ q \in DetailRecords /\ q.to = "load" /\ q.of = r.of /\ q.number = r.number /\ q.id = r.id
        /\ q.parts = read /\ q.at = at /\ q.answer = answer /\ q.told = r.told
    BY <1>1, <1>2 DEF DetailRecords
  <1>6. docCalls' = (docCalls \ {r}) \union {q}
    BY <1>4
  <1> HIDE DEF q
  <1>7. r.told => ReadTruly(r.id, read)
    BY <1>1, <1>2, <1>3 DEF DetailCallFits, ReadTruly
  <1>8. DetailCallFits(q)
    BY <1>4, <1>5, <1>7 DEF DetailCallFits
  <1>9. DetailCallFits(q)'
    <2>1. ViewOfDoc(q.id)' = ViewOfDoc(q.id)
      BY <1>1 DEF ViewOfDoc, IsOverdue
    <2> QED
      BY <1>1, <1>2, <1>5, <1>8, <2>1, StillFits
  <1> QED
    BY <1>1, <1>5, <1>6, <1>9, OneMovesOn DEF DetailTyped

\* A change of status is a step further, or anything is lost.
LEMMA ChangeMovesOn ==
  ASSUME DInv, NEW r \in docCalls, CheckChange(r) \/ LoseDetail(r)
  PROVE  DInv'
  <1> USE DEF DInv
  <1>1. r \in DetailRecords /\ DetailCallFits(r)
    BY DEF DetailTyped
  <1>2. UNCHANGED <<detailKind, shelf, pastDue, viewed, doc, notFound, docLoading, updating,
                    docError, docSent, told, docLate, strayed, detailMoves, elsewhereMoves>>
    BY DEF CheckChange, LoseDetail
  <1>3. /\ docLost' \in 0..MaxDetailLost /\ (docLost > 0 => docLost' > 0)
        /\ LoseDetail(r) => docLost' > 0
    BY DetailParts DEF CheckChange, LoseDetail, DetailTyped
  <1>4. PICK q \in DetailRecords :
          /\ docCalls' = (docCalls \ {r}) \union {q} /\ q.to = r.to /\ q.of = r.of /\ q.id = r.id
          /\ q.number = r.number /\ q.parts = r.parts /\ q.wish = r.wish
          /\ r.to = "load" => docLost' > 0 /\ q.at = "answered" /\ q.answer = "other" /\ q.told = r.told
    <2>1. CASE LoseDetail(r)
      <3> DEFINE q == [r EXCEPT !.at = "answered", !.answer = "other"]
      <3>1. /\ q \in DetailRecords /\ q.to = r.to /\ q.of = r.of /\ q.id = r.id
            /\ q.number = r.number /\ q.parts = r.parts /\ q.wish = r.wish
            /\ q.at = "answered" /\ q.answer = "other" /\ q.told = r.told
        BY <1>1 DEF DetailRecords
      <3>2. docCalls' = (docCalls \ {r}) \union {q}
        BY <2>1 DEF LoseDetail
      <3> HIDE DEF q
      <3> QED
        BY <1>3, <2>1, <3>1, <3>2
    <2>2. CASE CheckChange(r)
      <3>1. r.to = "change" /\ r.id \in Docs /\ shelf[r.id] \in Statuses \union Bookings
        BY <1>1, <2>2, DocPartsAre DEF CheckChange, DetailRecords, DetailTyped
      <3>2. CASE r.wish \in AllowedFrom(shelf[r.id])
        <4>1. PICK s \in Statuses \union Bookings : s = shelf[r.id]
          BY <3>1
        <4> DEFINE q == [r EXCEPT !.at = "read", !.saw = s]
        <4>2. /\ q \in DetailRecords /\ q.to = r.to /\ q.of = r.of /\ q.id = r.id
              /\ q.number = r.number /\ q.parts = r.parts /\ q.wish = r.wish
          BY <1>1 DEF DetailRecords
        <4>3. docCalls' = (docCalls \ {r}) \union {q}
          BY <2>2, <3>2, <4>1 DEF CheckChange
        <4> HIDE DEF q
        <4> QED
          BY <3>1, <4>2, <4>3
      <3>3. CASE r.wish \notin AllowedFrom(shelf[r.id])
        <4> DEFINE q == [r EXCEPT !.at = "answered", !.answer = "other", !.told = TRUE]
        <4>2. /\ q \in DetailRecords /\ q.to = r.to /\ q.of = r.of /\ q.id = r.id
              /\ q.number = r.number /\ q.parts = r.parts /\ q.wish = r.wish
          BY <1>1 DEF DetailRecords
        <4>3. docCalls' = (docCalls \ {r}) \union {q}
          BY <2>2, <3>3 DEF CheckChange, AnswerChange
        <4> HIDE DEF q
        <4> QED
          BY <3>1, <4>2, <4>3
      <3> QED
        BY <3>2, <3>3
    <2> QED
      BY <2>1, <2>2
  <1>5. Parts' = Parts /\ (ReadTruly(r.id, r.parts) => ReadTruly(r.id, r.parts)')
    BY <1>2 DEF Parts, ReadTruly, ViewOfDoc, IsOverdue
  <1>6. DetailCallFits(q)'
    BY <1>1, <1>2, <1>4, <1>5 DEF DetailCallFits, DetailRecords
  <1> QED
    BY <1>2, <1>3, <1>4, <1>6, OneMovesOn

LEMMA ChangeIsAnswered ==
  ASSUME DInv, NEW r \in docCalls, r.to = "change", NEW answer \in {"ok", "changed", "other"},
         NEW those, AnswerChange(r, answer, those)
  PROVE  \E q \in DetailRecords :
           /\ docCalls' = (those \ {r}) \union {q} /\ q.to = "change" /\ q.of = r.of
           /\ q.id = r.id /\ q.number = r.number /\ q.wish = r.wish
  <1>1. r \in DetailRecords
    BY DEF DInv, DetailTyped
  <1> DEFINE q == [r EXCEPT !.at = "answered", !.answer = answer, !.told = TRUE]
  <1>2. q \in DetailRecords /\ q.to = "change" /\ q.of = r.of /\ q.number = r.number
        /\ q.id = r.id /\ q.wish = r.wish
    BY <1>1 DEF DetailRecords
  <1>3. docCalls' = (those \ {r}) \union {q}
    BY DEF AnswerChange
  <1> HIDE DEF q
  <1> QED
    BY <1>2, <1>3

LEMMA ChangeIsWritten ==
  ASSUME DInv, NEW r \in docCalls, WriteChange(r)
  PROVE  DInv'
  <1> USE DEF DInv
  <1>1. /\ r \in DetailRecords /\ DetailCallFits(r) /\ r.id \in Docs /\ r.at = "read"
        /\ UNCHANGED <<detailKind, pastDue, viewed, doc, notFound, docLoading, updating, docError,
                       docSent, docLate, strayed, detailMoves, elsewhereMoves, docLost>>
    BY DEF WriteChange, DetailTyped, DetailRecords
  <1>2. r.to = "change" /\ r.wish \in Statuses /\ detailKind = "invoice" /\ r.of = "page"
    BY <1>1 DEF DetailCallFits, DetailRecords
  <1>3. ASSUME NEW answer \in {"changed", "other"}, AnswerChange(r, answer, docCalls),
               UNCHANGED <<shelf, told>>
        PROVE  DInv'
    <2>1. PICK q \in DetailRecords :
            /\ docCalls' = (docCalls \ {r}) \union {q} /\ q.to = "change" /\ q.of = r.of
            /\ q.id = r.id /\ q.number = r.number /\ q.wish = r.wish
      BY <1>2, <1>3, ChangeIsAnswered
    <2>2. DetailCallFits(q)'
      BY <1>1, <1>2, <2>1 DEF DetailCallFits
    <2> QED
      BY <1>1, <1>2, <1>3, <2>1, <2>2, OneMovesOn DEF DetailTyped
  <1>4. CASE /\ shelf' = [shelf EXCEPT ![r.id] = r.wish]
             /\ AnswerChange(r, "ok", {r} \union Untold(r.id, docCalls \ {r}))
             /\ told' = StillTold(r.id)
    <2> DEFINE others == Untold(r.id, docCalls \ {r})
               all == {r} \union others
    <2>0. AnswerChange(r, "ok", all)
      BY <1>4
    <2> HIDE DEF all
    <2>1. PICK q \in DetailRecords :
            /\ docCalls' = (all \ {r}) \union {q} /\ q.to = "change" /\ q.of = r.of
            /\ q.id = r.id /\ q.number = r.number /\ q.wish = r.wish
      BY <1>2, <2>0, ChangeIsAnswered
    <2> USE DEF all
    <2>2. DetailCallFits(q)'
      BY <1>1, <1>2, <2>1 DEF DetailCallFits
    <2>3. /\ shelf' \in [Docs -> DocViews]
          /\ \A j \in Docs : j # r.id => ViewOfDoc(j)' = ViewOfDoc(j)
      BY <1>1, <1>2, <1>4 DEF DetailTyped, DocViews, ViewOfDoc, IsOverdue
    <2>4. ASSUME NEW d \in others
          PROVE  /\ d \in DetailRecords /\ DetailCallFits(d)'
                 /\ \E c \in docCalls : d.to = c.to /\ d.id = c.id /\ d.number = c.number
      <3>1. PICK c \in docCalls :
              /\ d.to = c.to /\ d.of = c.of /\ d.id = c.id /\ d.number = c.number
              /\ d.parts = c.parts /\ d.at = c.at /\ d.wish = c.wish /\ d.answer = c.answer
              /\ d.told => c.told /\ (c.id # r.id \/ \A p \in Parts : c.parts[p] = NotRead)
        BY <1>1, UntoldAre
      <3>2. c.id \in Docs /\ DetailCallFits(c)
        BY DEF DetailTyped, DetailRecords
      <3>3. d.told => c.told /\ (ViewOfDoc(c.id)' = ViewOfDoc(c.id)
                                   \/ \A p \in Parts : c.parts[p] = NotRead)
        BY <2>3, <3>1, <3>2
      <3>4. DetailCallFits(d)'
        BY <1>1, <3>1, <3>2, <3>3, StillFits
      <3>5. d \in DetailRecords
        BY <1>1, UntoldAre
      <3> QED
        BY <3>1, <3>4, <3>5
    <2>5. \A d \in docCalls' :
            /\ d \in DetailRecords /\ DetailCallFits(d)'
            /\ \E c \in docCalls : d.to = c.to /\ d.id = c.id /\ d.number = c.number
      BY <1>2, <2>1, <2>2, <2>4
    <2>6. ASSUME NEW c \in docCalls
          PROVE  \E d \in docCalls' : d.to = c.to /\ d.of = c.of /\ d.number = c.number
      <3>1. CASE c = r
        BY <1>2, <2>1, <3>1
      <3>2. CASE c # r
        <4>1. PICK d \in others : d.to = c.to /\ d.of = c.of /\ d.number = c.number
          BY <1>1, <3>2, UntoldAre
        <4>2. CASE d = r
          BY <1>2, <2>1, <4>1, <4>2
        <4>3. CASE d # r
          BY <2>1, <4>1, <4>3
        <4> QED
          BY <4>2, <4>3
      <3> QED
        BY <3>1, <3>2
    <2>7. told' => told /\ (doc = NoDoc \/ ViewOfDoc(doc.id)' = ViewOfDoc(doc.id))
      BY <1>1, <1>4, <2>3 DEF StillTold, DocFits
    <2>8. told' \in BOOLEAN
      BY <1>4 DEF StillTold, DetailTyped
    <2> QED
      BY <1>1, <2>3, <2>5, <2>6, <2>7, <2>8, DocStays DEF DetailTyped
  <1> QED
    BY <1>3, <1>4 DEF WriteChange

LEMMA DocIsOpened ==
  ASSUME DInv, NEW i \in Docs, OpenDoc(i)
  PROVE  DInv'
  <1> USE DEF DInv
  <1>1. PICK q \in DetailRecords :
          /\ q = LoadOfDoc("page", i) /\ q.to = "load" /\ q.of = "page" /\ q.id = i /\ q.at = "sent"
          /\ q.parts = NoDoc.parts /\ q.number = docSent + 1
    BY LoadOfDocIs
  <1>2. /\ UNCHANGED <<detailKind, shelf, pastDue, doc, updating, docError, told, elsewhereMoves,
                       docLost>>
        /\ viewed' = i /\ docCalls' = docCalls \union {q} /\ docSent' = docSent + 1
        /\ docLoading' = (docLoading \/ detailKind = "account") /\ ~notFound'
        /\ notFound' \in BOOLEAN /\ detailMoves' \in 0..MaxDetailMoves
        /\ docLate' = docLate /\ strayed' = FALSE
    <2>1. docLate' = docLate /\ strayed' = FALSE /\ notFound' = FALSE
      BY DEF OpenDoc
    <2>2. detailMoves' \in 0..MaxDetailMoves
      BY DetailParts DEF OpenDoc, DetailTyped
    <2> QED
      BY <1>1, <2>1, <2>2 DEF OpenDoc, DetailTyped
  <1>3. /\ Parts' = Parts /\ DocViews' = DocViews /\ NoDoc' = NoDoc /\ PartsRead' = PartsRead
        /\ \A j : ViewOfDoc(j)' = ViewOfDoc(j)
    BY <1>2 DEF Parts, DocViews, NoDoc, PartsRead, ViewOfDoc, IsOverdue
  <1>4. DetailRecords' = DetailRecords /\ DocRecords' = DocRecords
    BY <1>3 DEF DetailRecords, DocRecords
  <1>5. docSent' \in Nat /\ docLoading' \in BOOLEAN
    BY <1>2 DEF DetailTyped
  <1>6. DetailTyped'
    BY <1>2, <1>3, <1>4, <1>5 DEF DetailTyped
  <1>7. DocIsDue' /\ NewestIsDue'
    BY <1>1, <1>2 DEF DocIsDue, NewestIsDue
  <1>8. DocFits'
    BY <1>2, <1>3, <1>7 DEF DocFits, WhollyRead
  <1>9. \A r \in docCalls' : DetailCallFits(r)'
    <2>1. DetailCallFits(q)
      BY <1>1, NothingReadYet
    <2>2. \A r \in docCalls' : DetailCallFits(r)
      BY <1>2, <2>1
    <2> QED
      BY <1>2, <1>3, <2>2 DEF DetailCallFits, WhollyRead, ReadTruly
  <1>10. ASSUME NEW r \in docCalls' PROVE LoadIsInOrder(r)'
    <2>1. CASE r = q
      BY <1>1, <1>2, <1>5, <2>1 DEF LoadIsInOrder
    <2>2. CASE r # q
      <3>1. r \in docCalls /\ r.number \in Nat /\ docSent \in Nat
        BY <1>2, <2>2 DEF DetailTyped, DetailRecords
      <3>2. r.to = "load" => r.number < docSent + 1
        BY <3>1 DEF LoadIsInOrder
      <3> QED
        BY <1>2, <3>1, <3>2 DEF LoadIsInOrder
    <2> QED
      BY <2>1, <2>2
  <1> QED
    BY <1>6, <1>8, <1>9, <1>10

LEMMA StatusIsChosen ==
  ASSUME DInv, NEW wish \in Statuses, ChangeStatus(wish)
  PROVE  DInv'
  <1> USE DEF DInv
  <1>1. /\ UNCHANGED <<detailKind, shelf, pastDue, viewed, doc, notFound, docLoading, docSent,
                       told, docLate, strayed, elsewhereMoves, docLost>>
        /\ detailKind = "invoice" /\ doc # NoDoc /\ updating' /\ updating' \in BOOLEAN
        /\ docError' = "none" /\ detailMoves' \in 0..MaxDetailMoves
        /\ docCalls' = docCalls \union 
             {[ToDetail("change", doc.id) EXCEPT !.wish = wish, !.reload = viewed]}
    BY DetailParts DEF ChangeStatus, DetailTyped, DrawnDoc
  <1>2. doc.id \in Docs /\ viewed \in Docs
    BY <1>1 DEF DocFits, DetailTyped
  <1>3. PICK c \in DetailRecords :
          c = ToDetail("change", doc.id) /\ c.to = "change" /\ c.of = "page"
    BY <1>2, DocIsRequested
  <1>4. PICK q \in DetailRecords :
          /\ docCalls' = docCalls \union {q} /\ q.to = "change" /\ q.of = "page" /\ q.wish = wish
    <2> DEFINE q == [c EXCEPT !.wish = wish, !.reload = viewed]
    <2>1. q \in DetailRecords /\ q.to = "change" /\ q.of = "page" /\ q.wish = wish
      BY <1>2, <1>3 DEF DetailRecords
    <2>2. docCalls' = docCalls \union {q}
      BY <1>1, <1>3
    <2> HIDE DEF q
    <2> QED
      BY <2>1, <2>2
  <1>5. /\ Parts' = Parts /\ DocViews' = DocViews /\ NoDoc' = NoDoc /\ PartsRead' = PartsRead
        /\ \A j : ViewOfDoc(j)' = ViewOfDoc(j)
    BY <1>1 DEF Parts, DocViews, NoDoc, PartsRead, ViewOfDoc, IsOverdue
  <1>6. DetailRecords' = DetailRecords /\ DocRecords' = DocRecords
    BY <1>5 DEF DetailRecords, DocRecords
  <1>7. DetailTyped'
    BY <1>1, <1>4, <1>5, <1>6 DEF DetailTyped
  <1>8. (DocIsDue => DocIsDue') /\ (NewestIsDue => NewestIsDue')
    BY <1>1, <1>4 DEF DocIsDue, NewestIsDue
  <1>9. DocFits'
    <2>1. told' => doc = NoDoc \/ ReadTruly(doc.id, doc.parts)' \/ DocIsDue'
      BY <1>1, <1>5, <1>8 DEF DocFits, ReadTruly
    <2> QED
      BY <1>1, <1>4, <1>5, <1>8, <2>1 DEF DocFits, WhollyRead
  <1>10. \A r \in docCalls' : DetailCallFits(r)'
    <2>1. DetailCallFits(q)
      BY <1>1, <1>4 DEF DetailCallFits
    <2>2. \A r \in docCalls' : DetailCallFits(r)
      BY <1>4, <2>1
    <2> QED
      BY <1>1, <1>5, <2>2 DEF DetailCallFits, WhollyRead, ReadTruly
  <1>11. \A r \in docCalls' : LoadIsInOrder(r)'
    BY <1>1, <1>4 DEF LoadIsInOrder
  <1> QED
    BY <1>7, <1>9, <1>10, <1>11

LEMMA DocIsLoaded ==
  ASSUME DInv, NEW r \in docCalls, DocArrives(r)
  PROVE  DInv'
  <1> USE DEF DInv
  <1>1. /\ r.to = "load" /\ r.at = "answered" /\ docCalls' = docCalls \ {r}
        /\ told' = r.told /\ docLoading' = FALSE
        /\ notFound' = (notFound \/ (detailKind = "account" /\ r.answer # "ok"))
        /\ updating' = (updating /\ r.of = "page")
        /\ docLate' = (r.number # docSent)
        /\ UNCHANGED <<detailKind, shelf, pastDue, viewed, docError, docSent, strayed, detailMoves,
                       elsewhereMoves, docLost>>
    BY DEF DocArrives
  <1>2. r \in DetailRecords /\ r.parts \in PartsRead /\ r.id \in Docs /\ DetailCallFits(r)
        /\ r.told \in BOOLEAN
    BY DEF DetailTyped, DetailRecords
  <1>3. /\ Parts' = Parts /\ DocViews' = DocViews /\ NoDoc' = NoDoc /\ PartsRead' = PartsRead
        /\ \A j : ViewOfDoc(j)' = ViewOfDoc(j)
    BY <1>1 DEF Parts, DocViews, NoDoc, PartsRead, ViewOfDoc, IsOverdue
  <1>4. DetailRecords' = DetailRecords /\ DocRecords' = DocRecords
    BY <1>3 DEF DetailRecords, DocRecords
  <1>5. \/ r.answer # "ok" /\ docLost > 0 /\ doc' = NoDoc
        \/ /\ r.answer = "ok" /\ WhollyRead(r.parts) /\ doc'.id = r.id /\ doc'.parts = r.parts
           /\ doc' \in DocRecords /\ doc' # NoDoc
    <2>1. CASE r.answer = "ok"
      <3>1. doc' = [id |-> r.id, parts |-> r.parts] /\ WhollyRead(r.parts)
        BY <1>1, <1>2, <2>1 DEF DocArrives, DetailCallFits
      <3>2. doc'.id = r.id /\ doc'.parts = r.parts /\ doc' \in DocRecords
        BY <1>2, <3>1 DEF DocRecords
      <3> QED
        BY <2>1, <3>1, <3>2, DocPartsAre DEF WhollyRead
    <2>2. CASE r.answer # "ok"
      BY <1>1, <1>2, <2>2 DEF DocArrives, DetailCallFits
    <2> QED
      BY <2>1, <2>2
  <1>6. doc' \in DocRecords
    BY <1>5, DocPartsAre
  <1>7. /\ notFound' \in BOOLEAN /\ docLoading' \in BOOLEAN /\ updating' \in BOOLEAN
        /\ docLate' \in BOOLEAN /\ told' \in BOOLEAN
    BY <1>1, <1>2
  <1>8. DetailTyped'
    BY <1>1, <1>3, <1>4, <1>6, <1>7 DEF DetailTyped
  <1>9. told' => doc' = NoDoc \/ ReadTruly(doc'.id, doc'.parts)
    BY <1>1, <1>2, <1>5 DEF DetailCallFits
  <1>10. told' => doc' = NoDoc' \/ ReadTruly(doc.id, doc.parts)'
    BY <1>3, <1>9 DEF ReadTruly
  <1>11. ~docLate' /\ ~strayed => doc' = NoDoc \/ doc'.id = viewed
    BY <1>1, <1>5 DEF LoadIsInOrder
  <1>12. docLost = 0 => ~notFound' /\ doc' # NoDoc
    BY <1>1, <1>5 DEF DocFits, DetailTyped
  <1>13. updating' => \E c \in docCalls' : c.to = "change" \/ c.of = "change"
    BY <1>1 DEF DocFits
  <1>14. doc' # NoDoc => doc'.id \in Docs /\ WhollyRead(doc'.parts)
    BY <1>2, <1>5
  <1>15. DocFits'
    BY <1>1, <1>3, <1>10, <1>11, <1>12, <1>13, <1>14 DEF DocFits, WhollyRead
  <1>16. \A c \in docCalls' : DetailCallFits(c)'
    BY <1>1, <1>3 DEF DetailCallFits, WhollyRead, ReadTruly
  <1>17. \A c \in docCalls' : LoadIsInOrder(c)'
    BY <1>1 DEF LoadIsInOrder
  <1> QED
    BY <1>8, <1>15, <1>16, <1>17

LEMMA ChangeIsHeard ==
  ASSUME DInv, NEW r \in docCalls, ChangeArrives(r)
  PROVE  DInv'
  <1> USE DEF DInv
  <1>1. /\ r.to = "change" /\ r.at = "answered"
        /\ docError' = (IF r.answer = "ok" THEN "none" ELSE r.answer)
        /\ told' = (IF doc.id = r.id /\ r.answer \in {"ok", "changed"} THEN r.told ELSE told)
        /\ UNCHANGED <<detailKind, shelf, pastDue, viewed, doc, notFound, docLoading,
                       docLate, detailMoves, elsewhereMoves, docLost>>
    BY DEF ChangeArrives
  <1>2. /\ r \in DetailRecords /\ r.id \in Docs /\ r.reload \in Docs /\ DetailCallFits(r)
        /\ r.told \in BOOLEAN /\ detailKind = "invoice"
        /\ r.answer \in {"none", "ok", "changed", "other"}
    BY <1>1 DEF DetailTyped, DetailRecords, DetailCallFits
  <1>3. /\ Parts' = Parts /\ DocViews' = DocViews /\ NoDoc' = NoDoc /\ PartsRead' = PartsRead
        /\ \A j : ViewOfDoc(j)' = ViewOfDoc(j)
    BY <1>1 DEF Parts, DocViews, NoDoc, PartsRead, ViewOfDoc, IsOverdue
  <1>4. DetailRecords' = DetailRecords /\ DocRecords' = DocRecords
    BY <1>3 DEF DetailRecords, DocRecords
  <1>5. told' \in BOOLEAN /\ docError' \in {"none", "changed", "other"}
    BY <1>1, <1>2 DEF DetailTyped
  <1>6. \A c \in docCalls : DetailCallFits(c)'
    BY <1>1, <1>3 DEF DetailCallFits, WhollyRead, ReadTruly
  <1>7. CASE r.answer \in {"ok", "changed"}
    <2>1. PICK q \in DetailRecords :
            /\ q = LoadOfDoc("change", r.reload) /\ q.to = "load" /\ q.of = "change"
            /\ q.id = r.reload /\ q.at = "sent" /\ q.parts = NoDoc.parts /\ q.number = docSent + 1
      BY <1>2, LoadOfDocIs
    <2>2. /\ docCalls' = (docCalls \ {r}) \union {q} /\ docSent' = docSent + 1
          /\ UNCHANGED updating /\ docSent' \in Nat /\ strayed' = (r.reload # viewed)
      BY <1>7, <2>1 DEF ChangeArrives, DetailTyped
    <2>3. DetailTyped'
      BY <1>1, <1>3, <1>4, <1>5, <2>2 DEF DetailTyped
    <2>4. DocIsDue' /\ NewestIsDue'
      BY <2>1, <2>2 DEF DocIsDue, NewestIsDue
    <2>5. updating' => \E c \in docCalls' : c.to = "change" \/ c.of = "change"
      BY <2>1, <2>2
    <2>6. DocFits'
      BY <1>1, <1>2, <1>3, <2>4, <2>5 DEF DocFits, WhollyRead
    <2>7. DetailCallFits(q)'
      <3>1. DetailCallFits(q)
        BY <2>1, NothingReadYet
      <3> QED
        BY <1>1, <1>3, <3>1 DEF DetailCallFits, WhollyRead, ReadTruly
    <2>8. ASSUME NEW c \in docCalls' PROVE LoadIsInOrder(c)'
      <3>1. CASE c = q
        <4>1. ~strayed' => q.id = viewed'
          BY <1>1, <2>1, <2>2
        <4>2. q.number <= docSent'
          BY <2>1, <2>2
        <4> QED
          BY <3>1, <4>1, <4>2 DEF LoadIsInOrder
      <3>2. CASE c # q
        <4>1. c \in docCalls /\ c.number \in Nat /\ docSent \in Nat
          BY <2>2, <3>2 DEF DetailTyped, DetailRecords
        <4>2. c.to = "load" => c.number < docSent + 1
          BY <4>1 DEF LoadIsInOrder
        <4> QED
          BY <2>2, <4>1, <4>2 DEF LoadIsInOrder
      <3> QED
        BY <3>1, <3>2
    <2> QED
      BY <1>6, <2>2, <2>3, <2>6, <2>7, <2>8
  <1>8. CASE r.answer \notin {"ok", "changed"}
    <2>1. docCalls' = docCalls \ {r} /\ updating' = FALSE /\ UNCHANGED <<docSent, strayed, told>>
      BY <1>1, <1>8 DEF ChangeArrives
    <2>2. DetailTyped'
      BY <1>1, <1>3, <1>4, <1>5, <2>1 DEF DetailTyped
    <2>3. (DocIsDue => DocIsDue') /\ (NewestIsDue => NewestIsDue')
      BY <1>1, <2>1 DEF DocIsDue, NewestIsDue
    <2>4. told' => doc = NoDoc \/ ReadTruly(doc.id, doc.parts)' \/ DocIsDue'
      BY <1>1, <1>3, <2>1, <2>3 DEF DocFits, ReadTruly
    <2>5. DocFits'
      BY <1>1, <1>3, <2>1, <2>3, <2>4 DEF DocFits, WhollyRead
    <2>6. \A c \in docCalls' : LoadIsInOrder(c)'
      BY <1>1, <2>1 DEF LoadIsInOrder
    <2> QED
      BY <1>6, <2>1, <2>2, <2>5, <2>6
  <1> QED
    BY <1>7, <1>8

LEMMA DetailGoesOn ==
  ASSUME DInv, [DetailNext]_detailVars
  PROVE  DInv'
  <1>1. ASSUME NEW i \in Docs, OpenDoc(i) \/ ChangedElsewhere(i) \/ DueDatePasses(i) PROVE DInv'
    BY <1>1, DocIsOpened, SomeoneChangesIt
  <1>2. ASSUME NEW wish \in Statuses, ChangeStatus(wish) PROVE DInv'
    BY <1>2, StatusIsChosen
  <1>3. ASSUME NEW r \in docCalls,
               \/ \E p \in Parts : ServePart(r, p)
               \/ CheckChange(r) \/ WriteChange(r) \/ LoseDetail(r)
               \/ DocArrives(r) \/ ChangeArrives(r)
        PROVE  DInv'
    BY <1>3, PartIsServed, ChangeMovesOn, ChangeIsWritten, DocIsLoaded, ChangeIsHeard
  <1>4. CASE UNCHANGED detailVars
    <2>1. UNCHANGED <<detailKind, shelf, pastDue, viewed, doc, notFound, docLoading, updating,
                      docError, docCalls, docSent, told, docLate, strayed, detailMoves,
                      elsewhereMoves, docLost>>
      BY <1>4 DEF detailVars
    <2>2. /\ Parts' = Parts /\ DocViews' = DocViews /\ NoDoc' = NoDoc /\ PartsRead' = PartsRead
          /\ \A j : ViewOfDoc(j)' = ViewOfDoc(j)
      BY <2>1 DEF Parts, DocViews, NoDoc, PartsRead, ViewOfDoc, IsOverdue
    <2>3. DetailRecords' = DetailRecords /\ DocRecords' = DocRecords
      BY <2>2 DEF DetailRecords, DocRecords
    <2>4. DInv => DetailTyped' /\ DocFits'
      BY <2>1, <2>2, <2>3
         DEF DInv, DetailTyped, DocFits, DocIsDue, NewestIsDue, WhollyRead, ReadTruly
    <2>5. \A r \in docCalls' : DetailCallFits(r)' /\ LoadIsInOrder(r)'
      BY <2>1, <2>2 DEF DInv, DetailCallFits, LoadIsInOrder, WhollyRead, ReadTruly
    <2> QED
      BY <2>4, <2>5 DEF DInv
  <1> QED
    BY <1>1, <1>2, <1>3, <1>4 DEF DetailNext

LEMMA DetailIsRight ==
  ASSUME DInv
  PROVE  DetailTypeOK /\ DetailSettles
  <1> USE DEF DInv
  <1>1. DetailTypeOK
    <2>1. shelf \in [Docs -> Statuses \union Bookings]
      BY DocPartsAre DEF DetailTyped
    <2> QED
      BY <2>1 DEF DetailTyped, DetailTypeOK, DocFits
  <1>2. DrawnDoc # NoDoc => DrawnDoc = doc /\ doc # NoDoc /\ ~docLoading /\ ~notFound
    BY DEF DrawnDoc
  <1>3. ASSUME docCalls = {} PROVE ~updating /\ ~docLoading /\ ~DocIsDue /\ ~NewestIsDue
    BY <1>3 DEF DocFits, DocIsDue, NewestIsDue
  <1>4. docCalls = {} /\ docLost = 0 => DrawnDoc # NoDoc
    BY <1>3 DEF DocFits, DrawnDoc
  <1>5. ASSUME docCalls = {}, DrawnDoc # NoDoc, told
        PROVE  /\ \A p \in Parts : DrawnDoc.parts[p] = ViewOfDoc(DrawnDoc.id)
               /\ detailKind = "invoice" =>
                    NextStatuses(DrawnDoc.parts["details"]) \subseteq AllowedFrom(shelf[DrawnDoc.id])
    <2>1. DrawnDoc = doc /\ doc.id \in Docs /\ ReadTruly(doc.id, doc.parts) /\ WhollyRead(doc.parts)
      BY <1>2, <1>3, <1>5 DEF DocFits
    <2>2. \A p \in Parts : DrawnDoc.parts[p] = ViewOfDoc(DrawnDoc.id)
      BY <2>1 DEF ReadTruly, WhollyRead
    <2>3. ASSUME detailKind = "invoice"
          PROVE  NextStatuses(ViewOfDoc(doc.id)) \subseteq AllowedFrom(shelf[doc.id])
      <3>1. shelf[doc.id] \in Statuses
        BY <2>1, <2>3 DEF DetailTyped, DocViews
      <3> QED
        BY <3>1 DEF ViewOfDoc, IsOverdue, NextStatuses, AllowedFrom, Statuses
    <2>4. detailKind = "invoice" => "details" \in Parts
      BY DEF Parts
    <2> QED
      BY <2>1, <2>2, <2>3, <2>4
  <1>6. (detailKind = "account" \/ docCalls = {}) /\ ~docLate /\ ~strayed /\ DrawnDoc # NoDoc =>
          DrawnDoc.id = viewed
    BY <1>2, <1>3 DEF DocFits
  <1> QED
    BY <1>1, <1>3, <1>4, <1>5, <1>6 DEF DetailSettles
=============================================================================
