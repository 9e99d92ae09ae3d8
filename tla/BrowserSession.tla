---------------------------- MODULE BrowserSession ----------------------------
(***************************************************************************)
(* One browser: its cookies, and tabs that renew an expired session        *)
(* (lib/api.ts) and know whether somebody is signed in (AuthContext.tsx).  *)
(* The server's handlers are one step each here; Sessions takes them       *)
(* apart.  Cookies travel with a request as they are when it leaves, and   *)
(* are set when an answer comes in.                                        *)
(***************************************************************************)
EXTENDS Naturals, FiniteSets

CONSTANTS Tabs,
          TabCalls,    \* slots for requests in flight
          MaxTabMoves, \* bound: things that happen in the browser
          MaxTabLost   \* bound: requests or answers lost

ASSUME BrowserAssumption ==
  Tabs # {} /\ IsFiniteSet(TabCalls) /\ {MaxTabMoves, MaxTabLost} \subseteq Nat

VARIABLES
  live,      \* refresh tokens the server takes
  issued,    \* the last one it made
  jar,       \* cookies: [access, token]; no token is 0
  calls,
  renewals,  \* refreshes in flight
  screen,    \* status of AuthContext, per tab
  alarmed,   \* history: the server took a token for stolen
  crossed,   \* history: a refresh met another tab's, a login or a logout, or
             \* its answer was lost
  unheard,   \* history: a tab shows nobody signed in because an answer failed
  denied,    \* history: a call was told 401 with a live token in the jar
  tabMoves, tabLost

browserVars == <<live, issued, jar, calls, renewals, screen, alarmed, crossed, unheard,
                 denied, tabMoves, tabLost>>

\* access: sent with a valid access token; token: the refresh token sent with
\* it; ok, grants: the answer and the refresh token in it.
NoTabCall == [tab |-> "none", path |-> "none", at |-> "idle", access |-> FALSE,
              token |-> 0, retried |-> FALSE, ok |-> FALSE, grants |-> 0]

Free(c) == calls[c] = NoTabCall

Sent(t, path) ==
  [NoTabCall EXCEPT !.tab = t, !.path = path, !.at = "sent", !.access = jar.access,
                    !.token = jar.token]

Entering == {c \in TabCalls : calls[c].path \in {"login", "logout"}}
Renewing(t) == {r \in renewals : r.tab = t}

TabMove == tabMoves < MaxTabMoves /\ tabMoves' = tabMoves + 1

-----------------------------------------------------------------------------
\* What happens in the browser.

\* Any page that asks the server for something.
UsePage(c, t) ==
  /\ TabMove /\ Free(c) /\ screen[t] = "in"
  /\ calls' = [calls EXCEPT ![c] = Sent(t, "page")]
  /\ UNCHANGED <<live, issued, jar, renewals, screen, alarmed, crossed, unheard,
                 denied, tabLost>>

\* "Log out" and the sign-in form, by a right password.
Enter(c, t, path) ==
  /\ TabMove /\ Free(c)
  /\ \/ path = "logout" /\ screen[t] = "in"
     \/ path = "login" /\ screen[t] = "out"
  /\ \A d \in Entering : calls[d].tab # t
  /\ calls' = [calls EXCEPT ![c] = Sent(t, path)]
  /\ crossed' = (crossed \/ renewals # {})
  /\ UNCHANGED <<live, issued, jar, renewals, screen, alarmed, unheard, denied,
                 tabLost>>

\* The access cookie is over after fifteen minutes.
AccessExpires ==
  /\ TabMove /\ jar.access /\ jar' = [jar EXCEPT !.access = FALSE]
  /\ UNCHANGED <<live, issued, calls, renewals, screen, alarmed, crossed, unheard,
                 denied, tabLost>>

-----------------------------------------------------------------------------
\* The server.

NewToken == issued + 1

\* Pages and /auth/me, and /auth/logout with them, are behind the access token.
ServeCall(c) ==
  LET call == calls[c]
      answer(ok, grants) ==
        calls' = [calls EXCEPT ![c].at = "answered", ![c].ok = ok, ![c].grants = grants]
  IN  /\ call.at = "sent"
      /\ \/ /\ call.path \in {"page", "me"} /\ answer(call.access, 0)
            /\ UNCHANGED <<live, issued>>
         \/ /\ call.path = "logout" /\ answer(call.access, 0)
            /\ live' = IF call.access THEN live \ {call.token} ELSE live
            /\ UNCHANGED issued
         \/ /\ call.path = "login" /\ answer(TRUE, NewToken)
            /\ live' = live \union {NewToken} /\ issued' = NewToken
      /\ UNCHANGED <<jar, renewals, screen, alarmed, crossed, unheard, denied,
                     tabMoves, tabLost>>

\* refresh: a token no longer taken is taken for stolen, and ends every session.
ServeRenewal(r) ==
  LET answered(ok, grants) ==
        renewals' = (renewals \ {r})
                      \union {[r EXCEPT !.at = "answered", !.ok = ok, !.grants = grants]}
  IN  /\ r \in renewals /\ r.at = "sent"
      /\ \/ /\ r.token = 0 /\ answered(FALSE, 0)
            /\ UNCHANGED <<live, issued, alarmed>>
         \/ /\ r.token \in live /\ answered(TRUE, NewToken)
            /\ live' = (live \ {r.token}) \union {NewToken} /\ issued' = NewToken
            /\ UNCHANGED alarmed
         \/ /\ r.token \notin live \union {0} /\ answered(FALSE, 0)
            /\ live' = {} /\ alarmed' = TRUE /\ UNCHANGED issued
      /\ UNCHANGED <<jar, calls, screen, crossed, unheard, denied, tabMoves,
                     tabLost>>

-----------------------------------------------------------------------------
\* What comes back.

\* A call refused or lost for good: /auth/me takes it for signed out, the page
\* shows its error.
Fails(t, path) ==
  screen' = IF path = "me" THEN [screen EXCEPT ![t] = "out"] ELSE screen

Succeeds(c) ==
  LET call == calls[c] IN
  /\ call.ok
  /\ \/ /\ call.path = "page"
        /\ calls' = [calls EXCEPT ![c] = NoTabCall] /\ UNCHANGED <<jar, screen>>
     \/ /\ call.path = "me" /\ screen' = [screen EXCEPT ![call.tab] = "in"]
        /\ calls' = [calls EXCEPT ![c] = NoTabCall] /\ UNCHANGED jar
     \/ /\ call.path = "login"
        /\ jar' = [access |-> TRUE, token |-> call.grants]
        /\ calls' = [calls EXCEPT ![c] =
             [Sent(call.tab, "me") EXCEPT !.access = TRUE, !.token = call.grants]]
        /\ UNCHANGED screen
     \/ /\ call.path = "logout" /\ screen' = [screen EXCEPT ![call.tab] = "out"]
        /\ jar' = [access |-> FALSE, token |-> 0]
        /\ calls' = [calls EXCEPT ![c] = NoTabCall]
  /\ UNCHANGED <<renewals, crossed, unheard, denied>>

\* Every caller starts a rotation of its own.
Renew_each(c) ==
  renewals' = renewals \union {[by |-> c, tab |-> calls[c].tab, at |-> "sent",
                                token |-> jar.token, ok |-> FALSE, grants |-> 0]}

\* refreshSession: one rotation at a time, shared by the tab's callers.
Renew(c) ==
  renewals' = IF Renewing(calls[c].tab) # {} THEN renewals
              ELSE renewals \union {[by |-> c, tab |-> calls[c].tab, at |-> "sent",
                                     token |-> jar.token, ok |-> FALSE, grants |-> 0]}

\* The response interceptor: a first 401 waits for a rotation, a second one and
\* a refused logout go to the caller.  Logging out shows nobody either way.
Refused401(c) ==
  LET call == calls[c] IN
  /\ ~call.ok
  /\ \/ /\ call.path \in {"page", "me"} /\ ~call.retried
        /\ calls' = [calls EXCEPT ![c].at = "waiting", ![c].retried = TRUE]
        /\ Renew(c)
        /\ crossed' = (crossed \/ Entering # {} \/ \E r \in renewals : r.tab # call.tab)
        /\ UNCHANGED <<screen, unheard, denied>>
     \/ /\ call.path \in {"page", "me"} /\ call.retried
        /\ calls' = [calls EXCEPT ![c] = NoTabCall] /\ Fails(call.tab, call.path)
        /\ denied' = (denied \/ jar.token \in live)
        /\ UNCHANGED <<renewals, crossed, unheard>>
     \/ /\ call.path = "logout" /\ screen' = [screen EXCEPT ![call.tab] = "out"]
        /\ calls' = [calls EXCEPT ![c] = NoTabCall] /\ unheard' = TRUE
        /\ UNCHANGED <<renewals, crossed, denied>>
  /\ UNCHANGED jar

CallReturns(c) ==
  /\ calls[c].at = "answered"
  /\ Succeeds(c) \/ Refused401(c)
  /\ UNCHANGED <<live, issued, alarmed, tabMoves, tabLost>>

\* The callers that waited are sent again with the new cookies, or given the
\* 401 they first got.
RenewalEnds(r, ok) ==
  LET waiting == {c \in TabCalls : calls[c].at = "waiting" /\ calls[c].tab = r.tab}
      cookies == IF ok THEN [access |-> TRUE, token |-> r.grants] ELSE jar
      failed == ~ok /\ \E c \in waiting : calls[c].path = "me"
  IN  /\ renewals' = renewals \ {r}
      /\ jar' = cookies
      /\ calls' = [c \in TabCalls |->
           IF c \notin waiting THEN calls[c]
           ELSE IF ok THEN [calls[c] EXCEPT !.at = "sent", !.ok = FALSE,
                                            !.access = TRUE, !.token = r.grants]
           ELSE NoTabCall]
      /\ screen' = IF failed THEN [screen EXCEPT ![r.tab] = "out"] ELSE screen

RenewalReturns(r) ==
  /\ r \in renewals /\ r.at = "answered"
  /\ RenewalEnds(r, r.ok)
  /\ denied' = (denied \/ (~r.ok /\ jar.token \in live))
  /\ UNCHANGED <<live, issued, alarmed, crossed, unheard, tabMoves, tabLost>>

-----------------------------------------------------------------------------
\* A request that never arrives, or whose answer does not come back.
Loses == tabLost < MaxTabLost /\ tabLost' = tabLost + 1

LoseTabCall(c) ==
  /\ Loses /\ calls[c].at \in {"sent", "answered"}
  /\ calls' = [calls EXCEPT ![c] = NoTabCall]
  /\ screen' = IF calls[c].path \in {"me", "logout"}
               THEN [screen EXCEPT ![calls[c].tab] = "out"] ELSE screen
  /\ unheard' = (unheard \/ calls[c].path # "page")
  /\ crossed' = (crossed \/ (c \in Entering /\ calls[c].at = "answered"))
  /\ UNCHANGED <<live, issued, jar, renewals, alarmed, denied, tabMoves>>

LoseRenewal(r) ==
  /\ Loses /\ r \in renewals
  /\ RenewalEnds(r, FALSE)
  /\ crossed' = (crossed \/ r.at = "answered") /\ unheard' = TRUE
  /\ UNCHANGED <<live, issued, alarmed, denied, tabMoves>>

\* Tabs opened in a browser with nobody signed in, with a session, or with one
\* whose access cookie is over.
BrowserInit ==
  /\ jar \in {[access |-> FALSE, token |-> 0], [access |-> TRUE, token |-> 1],
              [access |-> FALSE, token |-> 1]}
  /\ issued = 1 /\ live = {1} \intersect {jar.token}
  /\ \E first \in [Tabs -> TabCalls] :
       /\ \A s, t \in Tabs : s # t => first[s] # first[t]
       /\ calls = [c \in TabCalls |->
            IF \E t \in Tabs : first[t] = c
            THEN Sent(CHOOSE t \in Tabs : first[t] = c, "me") ELSE NoTabCall]
  /\ renewals = {} /\ screen = [t \in Tabs |-> "loading"]
  /\ alarmed = FALSE /\ crossed = FALSE /\ unheard = FALSE /\ denied = FALSE
  /\ tabMoves = 0 /\ tabLost = 0

BrowserNext ==
  \/ \E c \in TabCalls, t \in Tabs :
       UsePage(c, t) \/ Enter(c, t, "login") \/ Enter(c, t, "logout")
  \/ AccessExpires
  \/ \E c \in TabCalls : ServeCall(c) \/ CallReturns(c) \/ LoseTabCall(c)
  \/ \E r \in renewals : ServeRenewal(r) \/ RenewalReturns(r) \/ LoseRenewal(r)

-----------------------------------------------------------------------------
BrowserTypeOK ==
  /\ live \subseteq 1..issued /\ jar.token \in 0..issued
  /\ screen \in [Tabs -> {"loading", "in", "out"}]
  /\ \A c \in TabCalls : calls[c].at \in {"idle", "sent", "answered", "waiting"}
  /\ Cardinality(renewals) <= Cardinality(TabCalls)

\* "Two requests failing at once must therefore share a single rotation rather
\* than each starting their own" (api.ts:37): however many calls find the access
\* cookie over, the server never takes the tab's token for stolen, and no call
\* is told 401 while the session lives.  Once nothing is in flight and every tab
\* shows nobody signed in, the browser holds no live session.  Not so once a
\* refresh crossed another tab's, a login or a logout, or an answer was lost.
RenewalHolds ==
  /\ ~crossed => ~alarmed /\ ~denied
  /\ (\A c \in TabCalls : Free(c)) /\ renewals = {} /\ ~crossed /\ ~unheard
       /\ (\A t \in Tabs : screen[t] = "out")
     => jar.token \notin live
=============================================================================
