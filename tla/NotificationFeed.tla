--------------------------- MODULE NotificationFeed ---------------------------
(***************************************************************************)
(* One member's notification centre: the table (notifications.service.ts), *)
(* the push that follows a written row (notifications.gateway.ts), and the *)
(* browser's copy of it (useNotifications.ts), which loads pages, folds in *)
(* pushes or polls, and marks rows read before the server has.             *)
(*                                                                         *)
(* A row's id is its place in the table, so a later row has a greater id   *)
(* and the newest first is the greatest first.  A call to the server is a  *)
(* record in a slot; the two reads of a page are apart, in either order.   *)
(***************************************************************************)
EXTENDS Naturals, Sequences, FiniteSets, Functions

CONSTANTS Calls,      \* slots for calls in flight
          PAGE_SIZE,
          MaxRows,    \* bound: rows in the table that no sweep wrote
          MaxClicks,  \* bound: times the member marks something read
          MaxFailed   \* bound: calls that fail and connections that drop

ASSUME FeedAssumption ==
  /\ PAGE_SIZE \in Nat \ {0}
  /\ {MaxRows, MaxClicks, MaxFailed} \subseteq Nat

VARIABLES
  rows,    \* the table: [key, read], oldest first
  live,    \* whether this build holds a socket (LIVE_FEED) or polls
  socket,  \* "up", "down"
  pushed,  \* ids on their way to this socket, in order
  screen,  \* what the browser shows
  calls,
  clicks, failed

feedVars == <<rows, live, socket, pushed, screen, calls, clicks, failed>>

Ids == Nat \ {0}
Shown == [id : Ids, read : BOOLEAN]
Kinds == {"none", "load", "more", "poll", "read", "readAll"}

\* An event-driven notification carries no dedupe key.
NoKey == [of |-> "event"]

NoCall == [kind |-> "none", id |-> 0, page |-> <<>>, next |-> 0, count |-> 0,
           todo |-> {}]

Blank == [list |-> <<>>, count |-> 0, cursor |-> 0, loadingMore |-> FALSE]

-----------------------------------------------------------------------------
\* The server: the table and what it answers.

Unread == {i \in DOMAIN rows : ~rows[i].read}

\* A row already written under the same key.
Written(key) == key # NoKey /\ \E i \in DOMAIN rows : rows[i].key = key

\* The row is written, then pushed to whoever is connected.
AppendRow(key) ==
  /\ rows' = Append(rows, [key |-> key, read |-> FALSE])
  /\ pushed' = IF socket = "up" THEN Append(pushed, Len(rows) + 1) ELSE pushed

\* NotificationsService.create: nothing more where the key is taken.
Create(key) ==
  IF Written(key) THEN UNCHANGED <<rows, pushed>> ELSE AppendRow(key)

\* The newest row below a cursor; below it, every id down to the first.
Newest(cursor) == IF cursor \in DOMAIN rows THEN cursor - 1 ELSE Len(rows)

\* The rows of one page below a cursor, newest first.
PageOf(cursor) ==
  LET newest == Newest(cursor)
      take == IF newest < PAGE_SIZE THEN newest ELSE PAGE_SIZE
  IN  [i \in 1..take |-> [id |-> newest + 1 - i, read |-> rows[newest + 1 - i].read]]

NextCursor(cursor) ==
  IF Newest(cursor) > PAGE_SIZE THEN PageOf(cursor)[PAGE_SIZE].id ELSE 0

\* The page of a list call, and its count of unread rows: two queries at once.
ReadPage(c) ==
  /\ "page" \in calls[c].todo
  /\ calls' = [calls EXCEPT ![c].page = PageOf(calls[c].id),
                            ![c].next = NextCursor(calls[c].id),
                            ![c].todo = @ \ {"page"}]
  /\ UNCHANGED <<rows, live, socket, pushed, screen, clicks, failed>>

ReadCount(c) ==
  /\ "count" \in calls[c].todo /\ "mark" \notin calls[c].todo
  /\ calls' = [calls EXCEPT ![c].count = Cardinality(Unread), ![c].todo = @ \ {"count"}]
  /\ UNCHANGED <<rows, live, socket, pushed, screen, clicks, failed>>

\* markRead and markAllRead: the update, before the count is read.
Mark(c) ==
  /\ "mark" \in calls[c].todo
  /\ rows' = [i \in DOMAIN rows |->
                IF calls[c].kind = "readAll" \/ i = calls[c].id
                THEN [rows[i] EXCEPT !.read = TRUE] ELSE rows[i]]
  /\ calls' = [calls EXCEPT ![c].todo = @ \ {"mark"}]
  /\ UNCHANGED <<live, socket, pushed, screen, clicks, failed>>

-----------------------------------------------------------------------------
\* The browser: calls it starts.

IsFree(c) == calls[c].kind = "none"

ListCall(kind, cursor) ==
  [NoCall EXCEPT !.kind = kind, !.id = cursor, !.todo = {"page", "count"}]

LoadMore(c) ==
  /\ IsFree(c) /\ screen.cursor # 0 /\ ~screen.loadingMore
  /\ screen' = [screen EXCEPT !.loadingMore = TRUE]
  /\ calls' = [calls EXCEPT ![c] = ListCall("more", screen.cursor)]
  /\ UNCHANGED <<rows, live, socket, pushed, clicks, failed>>

\* The timer, or the tab coming back into view: another may be in flight.
Poll(c) ==
  /\ ~live /\ IsFree(c)
  /\ calls' = [calls EXCEPT ![c] = ListCall("poll", 0)]
  /\ UNCHANGED <<rows, live, socket, pushed, screen, clicks, failed>>

IdsOf(list) == {list[i].id : i \in DOMAIN list}

Greyed(list, which) ==
  [i \in DOMAIN list |-> IF list[i].id \in which THEN [list[i] EXCEPT !.read = TRUE]
                         ELSE list[i]]

\* The count taken down without a floor.
LessOne_any(n) == n - 1

LessOne(n) == IF n = 0 THEN 0 ELSE n - 1

\* A row is greyed at once.  The call is sent only if React has run the updater
\* by the next line, where wasUnread is read; React does not promise it.
MarkRead(c) ==
  /\ clicks < MaxClicks /\ clicks' = clicks + 1
  /\ \E i \in DOMAIN screen.list :
       /\ ~screen.list[i].read
       /\ LET id == screen.list[i].id
              grey == [screen EXCEPT !.list = Greyed(@, {id})]
          IN  \/ /\ IsFree(c)
                 /\ screen' = [grey EXCEPT !.count = LessOne(@)]
                 /\ calls' = [calls EXCEPT ![c] =
                       [NoCall EXCEPT !.kind = "read", !.id = id, !.todo = {"mark", "count"}]]
              \/ screen' = grey /\ UNCHANGED calls
  /\ UNCHANGED <<rows, live, socket, pushed, failed>>

MarkAllRead(c) ==
  /\ clicks < MaxClicks /\ clicks' = clicks + 1
  /\ IsFree(c) /\ screen.count > 0
  /\ screen' = [screen EXCEPT !.list = Greyed(@, IdsOf(@)), !.count = 0]
  /\ calls' = [calls EXCEPT ![c] = [NoCall EXCEPT !.kind = "readAll", !.todo = {"mark"}]]
  /\ UNCHANGED <<rows, live, socket, pushed, failed>>

-----------------------------------------------------------------------------
\* The browser: what comes back.

\* What a filter leaves of a list: its entries at some places, in their order.
Kept(list, places) ==
  LET nth(n) == CHOOSE i \in places : Cardinality({j \in places : j <= i}) = n
  IN  [n \in 1..Cardinality(places) |-> list[nth(n)]]

NotAmong(list, ids) == Kept(list, {i \in DOMAIN list : list[i].id \notin ids})

\* The next page, less what is on screen already.
MergeById(current, incoming) ==
  current \o NotAmong(incoming, IdsOf(current))

\* Rows known already left as they are.
WithLatest_newOnly(current, latest) ==
  NotAmong(latest, IdsOf(current)) \o current

\* A fresh first page: new rows on top, known rows updated in place.
WithLatest(current, latest) ==
  LET fresh(row) == IF row.id \in IdsOf(latest)
                    THEN latest[CHOOSE i \in DOMAIN latest : latest[i].id = row.id]
                    ELSE row
  IN  NotAmong(latest, IdsOf(current)) \o [i \in DOMAIN current |-> fresh(current[i])]

Answer(c) ==
  LET call == calls[c] IN
  /\ ~IsFree(c) /\ call.todo = {}
  /\ \/ /\ call.kind = "load"
        /\ screen' = [screen EXCEPT !.list = call.page, !.count = call.count, !.cursor = call.next]
     \/ /\ call.kind = "more"
        /\ screen' = [list |-> MergeById(screen.list, call.page), count |-> call.count,
                      cursor |-> call.next, loadingMore |-> FALSE]
     \/ /\ call.kind = "poll"
        /\ screen' = [screen EXCEPT !.list = WithLatest(@, call.page), !.count = call.count]
     \/ call.kind = "read" /\ screen' = [screen EXCEPT !.count = call.count]
     \/ call.kind = "readAll" /\ UNCHANGED screen
  /\ calls' = [calls EXCEPT ![c] = NoCall]
  /\ UNCHANGED <<rows, live, socket, pushed, clicks, failed>>

\* A call that fails, before or after the server has done its part: a failed
\* load clears the screen, a failed mark loads again.
Failed(c) ==
  /\ failed < MaxFailed /\ failed' = failed + 1
  /\ ~IsFree(c)
  /\ \/ /\ calls[c].kind = "load"
        /\ screen' = [Blank EXCEPT !.loadingMore = screen.loadingMore]
     \/ calls[c].kind = "more" /\ screen' = [screen EXCEPT !.loadingMore = FALSE]
     \/ calls[c].kind \notin {"load", "more"} /\ UNCHANGED screen
  /\ calls' = [calls EXCEPT ![c] =
                 IF calls[c].kind \in {"read", "readAll"} THEN ListCall("load", 0) ELSE NoCall]
  /\ UNCHANGED <<rows, live, socket, pushed, clicks>>

\* The handler of notification:created.
Receive ==
  /\ pushed # <<>>
  /\ LET row == [id |-> Head(pushed), read |-> FALSE]
     IN  screen' = [screen EXCEPT
                      !.list = IF row.id \in IdsOf(@) THEN @ ELSE <<row>> \o @,
                      !.count = @ + 1]
  /\ pushed' = Tail(pushed)
  /\ UNCHANGED <<rows, live, socket, calls, clicks, failed>>

\* The connection drops; what was on its way is gone.
Drop ==
  /\ socket = "up" /\ failed < MaxFailed /\ failed' = failed + 1
  /\ socket' = "down" /\ pushed' = <<>>
  /\ UNCHANGED <<rows, live, screen, calls, clicks>>

\* A handshake accepted or refused: either way the list is loaded again.
Handshake(c) ==
  /\ live /\ socket = "down" /\ IsFree(c)
  /\ \/ socket' = "up" /\ UNCHANGED failed
     \/ failed < MaxFailed /\ failed' = failed + 1 /\ UNCHANGED socket
  /\ calls' = [calls EXCEPT ![c] = ListCall("load", 0)]
  /\ UNCHANGED <<rows, live, pushed, screen, clicks>>

-----------------------------------------------------------------------------
\* Nothing shown, the first load under way.
FeedInit ==
  /\ rows = <<>> /\ live \in BOOLEAN
  /\ socket = "down" /\ pushed = <<>>
  /\ screen = Blank
  /\ LET first == CHOOSE c \in Calls : TRUE
     IN  calls = [c \in Calls |-> IF c = first THEN ListCall("load", 0) ELSE NoCall]
  /\ clicks = 0 /\ failed = 0

FeedStep(c) ==
  \/ ReadPage(c) \/ ReadCount(c) \/ Mark(c)
  \/ LoadMore(c) \/ Poll(c) \/ MarkRead(c) \/ MarkAllRead(c)
  \/ Answer(c) \/ Failed(c) \/ Handshake(c)

FeedNext == (\E c \in Calls : FeedStep(c)) \/ Receive \/ Drop

-----------------------------------------------------------------------------
FeedTypeOK ==
  /\ \A i \in DOMAIN rows : rows[i].read \in BOOLEAN
  /\ live \in BOOLEAN /\ socket \in {"up", "down"}
  /\ pushed \in Seq(Ids) /\ screen.list \in Seq(Shown)
  /\ screen.count \in Nat /\ screen.cursor \in {0} \union Ids
  /\ \A c \in Calls : calls[c].kind \in Kinds /\ calls[c].page \in Seq(Shown)
  /\ clicks \in 0..MaxClicks /\ failed \in 0..MaxFailed

\* However loads, pages, polls and pushes cross, no notification is on screen
\* twice: a page is merged by id and a push looks first.
NoRowTwice == \A i, j \in DOMAIN screen.list :
                screen.list[i].id = screen.list[j].id => i = j

\* Where no socket is held, a poll that has read the table as it stands leaves
\* the screen as it stands, whatever late answers, marks that never reached the
\* server and pages of other moments did to it: the unread count is right and
\* every row of the newest page is shown as it is.
Current ==
  /\ screen.count = Cardinality(Unread)
  /\ \A i \in DOMAIN PageOf(0) : PageOf(0)[i] \in Range(screen.list)

PollCatchesUp ==
  [][ \A c \in Calls :
        /\ calls[c].kind = "poll" /\ IsFree(c)' /\ UNCHANGED failed
        /\ calls[c].page = PageOf(0) /\ calls[c].count = Cardinality(Unread)
        => Current' ]_feedVars
=============================================================================
