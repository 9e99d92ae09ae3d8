------------------------------- MODULE WeekGrid -------------------------------
(***************************************************************************)
(* The schedule page of one manager (SchedulePage.tsx, useScheduleWeek in  *)
(* lib/schedule.ts, ShiftPicker.tsx).  The week named in the URL, the week *)
(* on screen and the weeks at the server are three things: loads and       *)
(* actions carry the week they were started on, overlap, and are answered  *)
(* late or never.  The server's handlers are one step each here;           *)
(* SchedulePublication takes them apart.                                   *)
(***************************************************************************)
EXTENDS Naturals

CONSTANTS Weeks,        \* consecutive weeks, by number
          GridCalls,    \* slots for requests in flight
          MaxGridMoves, \* bound: things the manager does
          MaxGridLost   \* bound: requests or answers lost

ASSUME GridAssumption ==
  /\ Weeks \subseteq Nat \ {0} /\ \E w \in Weeks : \A v \in Weeks : w >= v
  /\ GridCalls # {}
  /\ {MaxGridMoves, MaxGridLost} \subseteq Nat

VARIABLES
  planned,   \* at the server: [Weeks -> [day, locked]]
  named,     \* the week in the URL
  grid,      \* the week on screen
  newest,    \* latest.current: number of the newest load
  requests,
  gridError, \* hasError
  outrun,    \* history: since the newest load of the week named was sent, an action
             \* ended for another week, across a load, or without its answer
  moves, gridLost

gridVars ==
  <<planned, named, grid, newest, requests, gridError, outrun, moves, gridLost>>

\* What one person's day can be set to.
DayChoices == {"clear", "shift", "dayOff"}

WeekPlan == [day : DayChoices, locked : BOOLEAN]

\* The server's view of a week.
ViewOf(w) == [week |-> w, day |-> planned[w].day, locked |-> planned[w].locked]

NoWeek == [week |-> 0, day |-> "clear", locked |-> FALSE]

Actions == {"assign", "copy", "publish", "unlock"}

\* of: what the manager did; kind: the request now in flight; week: the one the
\* handler was made for; on, choice: the entry an assignment writes; id: the
\* number of a load, or of the newest one when an action was sent.
NoRequest == [of |-> "none", kind |-> "none", at |-> "idle", id |-> 0,
              week |-> NoWeek.week, on |-> NoWeek.week, choice |-> "clear", page |-> NoWeek]

Waiting(c) == requests[c].of = "none"

\* busyAction: the three buttons wait for each other, a cell for none of them.
Busy == \E c \in GridCalls : requests[c].of \in Actions \ {"assign"}

-----------------------------------------------------------------------------
\* What the manager does.

Move == moves < MaxGridMoves /\ moves' = moves + 1

LoadOf(of, w) == [NoRequest EXCEPT !.of = of, !.kind = "load", !.at = "sent",
                                   !.id = newest + 1, !.week = w]

\* The arrows and "this week".
GoToWeek(c, w) ==
  /\ Move /\ Waiting(c) /\ w # named
  /\ named' = w
  /\ requests' = [requests EXCEPT ![c] = LoadOf("page", w)]
  /\ newest' = newest + 1
  /\ outrun' = FALSE
  /\ UNCHANGED <<planned, grid, gridError, gridLost>>

\* The picker's choices: one that the day holds already only closes it.
PickerOffers == DayChoices \ {grid.day}

\* A choice in the picker of a cell, which a locked week does not open.  The
\* picker can be closed while it saves and opened again.
Assign(c, choice) ==
  /\ Move /\ Waiting(c)
  /\ grid # NoWeek /\ ~grid.locked /\ choice \in PickerOffers
  /\ requests' = [requests EXCEPT ![c] =
       [NoRequest EXCEPT !.of = "assign", !.kind = "assign", !.at = "sent",
                         !.week = named, !.on = grid.week, !.choice = choice]]
  /\ UNCHANGED <<planned, named, grid, newest, gridError, outrun, gridLost>>

\* "Copy last week", "Publish" and, on a locked week, "Unlock".
Press(c, action) ==
  /\ Move /\ Waiting(c)
  /\ grid # NoWeek /\ ~Busy
  /\ grid.locked <=> action = "unlock"
  /\ requests' = [requests EXCEPT ![c] =
       [NoRequest EXCEPT !.of = action, !.kind = action, !.at = "sent", !.week = named,
                         !.id = newest]]
  /\ UNCHANGED <<planned, named, grid, newest, gridError, outrun, gridLost>>

-----------------------------------------------------------------------------
\* The server.

Done(c, page) ==
  requests' = [requests EXCEPT ![c].at = "done", ![c].page = page]

Refused(c) == requests' = [requests EXCEPT ![c].at = "refused"] /\ UNCHANGED planned

\* An entry is written, and a week copied into, only while it is not locked.
Edits(c, w, day) ==
  \/ /\ ~planned[w].locked
     /\ planned' = [planned EXCEPT ![w].day = day]
     /\ Done(c, NoWeek)
  \/ planned[w].locked /\ Refused(c)

\* Days with nothing last week keep what this week has.
CopiedInto(w) ==
  IF w - 1 \in Weeks /\ planned[w - 1].day # "clear" THEN planned[w - 1].day
  ELSE planned[w].day

Locks(c, w, locked) ==
  LET view == [ViewOf(w) EXCEPT !.locked = locked] IN
  \/ /\ locked => ~planned[w].locked
     /\ planned' = [planned EXCEPT ![w].locked = locked]
     /\ Done(c, view)
  \/ locked /\ planned[w].locked /\ Refused(c)

ServeGrid(c) ==
  LET r == requests[c] IN
  /\ r.at = "sent"
  /\ \/ r.kind = "load" /\ Done(c, ViewOf(r.week)) /\ UNCHANGED planned
     \/ r.kind = "assign" /\ Edits(c, r.on, r.choice)
     \/ r.kind = "copy" /\ Edits(c, r.week, CopiedInto(r.week))
     \/ r.kind = "publish" /\ Locks(c, r.week, TRUE)
     \/ r.kind = "unlock" /\ Locks(c, r.week, FALSE)
  /\ UNCHANGED <<named, grid, newest, gridError, outrun, moves, gridLost>>

\* A request that never arrives, or whose answer does not come back.
LoseGrid(c) ==
  /\ gridLost < MaxGridLost /\ gridLost' = gridLost + 1
  /\ requests[c].at \in {"sent", "done"}
  /\ requests' = [requests EXCEPT ![c].at = "refused"]
  /\ outrun' = (outrun \/ (requests[c].at = "done" /\ requests[c].kind \in Actions))
  /\ UNCHANGED <<planned, named, grid, newest, gridError, moves>>

-----------------------------------------------------------------------------
\* What comes back.

\* Whatever load answers last is shown.
Loaded_anyAnswer(c) ==
  /\ requests[c].kind = "load" /\ requests[c].at \in {"done", "refused"}
  /\ IF requests[c].at = "done"
     THEN grid' = requests[c].page /\ gridError' = FALSE
     ELSE gridError' = TRUE /\ UNCHANGED grid
  /\ requests' = [requests EXCEPT ![c] = NoRequest]
  /\ UNCHANGED <<planned, named, newest, outrun, moves, gridLost>>

\* load: only the newest request is heard, and an action that ended in one ends.
Loaded(c) ==
  LET heard == requests[c].id = newest IN
  /\ requests[c].kind = "load" /\ requests[c].at \in {"done", "refused"}
  /\ grid' = IF heard /\ requests[c].at = "done" THEN requests[c].page ELSE grid
  /\ gridError' = IF heard THEN requests[c].at = "refused" ELSE gridError
  /\ requests' = [requests EXCEPT ![c] = NoRequest]
  /\ UNCHANGED <<planned, named, newest, outrun, moves, gridLost>>

\* assign and copyPrevious end by loading the week they were made for; a
\* refused assignment is loaded under the picker's message, a refused copy not.
\* A load of a week that is no longer named is the newest all the same.
Reload(c) ==
  LET r == requests[c] IN
  /\ r.kind \in {"assign", "copy"}
  /\ r.at = "done" \/ (r.at = "refused" /\ r.kind = "assign")
  /\ requests' = [requests EXCEPT ![c] = LoadOf(r.of, r.week)]
  /\ newest' = newest + 1
  /\ outrun' = (r.week # named)
  /\ UNCHANGED <<planned, named, grid, gridError, moves, gridLost>>

\* publish and unlock show the week in their answer, without a look at newest.
ShowAnswer(c) ==
  LET r == requests[c] IN
  /\ r.kind \in {"publish", "unlock"} /\ r.at = "done"
  /\ grid' = r.page
  /\ requests' = [requests EXCEPT ![c] = NoRequest]
  /\ outrun' = (outrun \/ r.week # named \/ r.id # newest
                  \/ \E d \in GridCalls : requests[d].kind = "load")
  /\ UNCHANGED <<planned, named, newest, gridError, moves, gridLost>>

\* Only a message.
GiveUp(c) ==
  /\ requests[c].kind \in {"copy", "publish", "unlock"} /\ requests[c].at = "refused"
  /\ requests' = [requests EXCEPT ![c] = NoRequest]
  /\ UNCHANGED <<planned, named, grid, newest, gridError, outrun, moves, gridLost>>

-----------------------------------------------------------------------------
\* Opened on a week, which loads at once.
GridInit ==
  /\ planned \in [Weeks -> [day : {"clear", "shift"}, locked : {FALSE}]]
  /\ named = (CHOOSE w \in Weeks : \A v \in Weeks : w >= v)
  /\ grid = NoWeek /\ newest = 1 /\ gridError = FALSE
  /\ LET first == CHOOSE c \in GridCalls : TRUE IN
     requests = [c \in GridCalls |->
       IF c = first THEN [NoRequest EXCEPT !.of = "page", !.kind = "load", !.at = "sent",
                                           !.id = 1, !.week = named]
       ELSE NoRequest]
  /\ outrun = FALSE /\ moves = 0 /\ gridLost = 0

GridNext ==
  \E c \in GridCalls :
    \/ \E w \in Weeks : GoToWeek(c, w)
    \/ \E choice \in DayChoices : Assign(c, choice)
    \/ \E action \in Actions \ {"assign"} : Press(c, action)
    \/ ServeGrid(c) \/ LoseGrid(c)
    \/ Loaded(c) \/ Reload(c) \/ ShowAnswer(c) \/ GiveUp(c)

-----------------------------------------------------------------------------
GridTypeOK ==
  /\ planned \in [Weeks -> WeekPlan] /\ named \in Weeks
  /\ grid.day \in DayChoices /\ grid.locked \in BOOLEAN
  /\ newest \in Nat /\ moves \in 0..MaxGridMoves /\ gridLost \in 0..MaxGridLost
  /\ \A c \in GridCalls : requests[c].at \in {"idle", "sent", "done", "refused"}

\* Once nothing is in flight the page shows, under the week it names, that week
\* as the server has it, or says that it could not load it (schedule.ts:161: "Every
\* mutation answers with, or is followed by, the server's own view"): however
\* loads and edits overlapped before the newest load of that week was sent, and
\* after it unless an action ended then for another week, with an answer that
\* crossed a load, or with its answer lost.
GridSettles ==
  (\A c \in GridCalls : Waiting(c)) /\ ~outrun /\ ~gridError => grid = ViewOf(named)
=============================================================================
