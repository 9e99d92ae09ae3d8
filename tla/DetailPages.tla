------------------------------ MODULE DetailPages ------------------------------
(***************************************************************************)
(* The page of one invoice and the page of one bank account                *)
(* (InvoiceDetailPage.tsx, BankAccountDetailPage.tsx with useInvoice and   *)
(* useBankAccount).  A notification leads from one invoice or account      *)
(* straight to another and the page stays mounted, so loads of both may be *)
(* in flight; other people and the bank change what is shown.  The owner's *)
(* buttons change an invoice's status in two steps at the server.          *)
(***************************************************************************)
EXTENDS Naturals

CONSTANTS Docs,           \* invoices, or accounts, of the company
          MaxDetailMoves, \* bound: things the owner does
          MaxElsewhere,   \* bound: changes made by others, and days that pass
          MaxDetailLost   \* bound: requests or answers lost

ASSUME DetailAssumption ==
  Docs # {} /\ {MaxDetailMoves, MaxElsewhere, MaxDetailLost} \subseteq Nat

VARIABLES
  detailKind,   \* "invoice" or "account"
  shelf,        \* at the server: [Docs -> status]; of an account, its bookings
  pastDue,      \* invoices whose due date has passed
  viewed,       \* the id in the URL
  doc,          \* what was loaded last, or NoDoc
  notFound,     \* of the account's page
  docLoading,   \* isLoading
  updating,     \* isUpdating
  docError,     \* error: "none", "changed" or "other"
  docCalls,     \* requests in flight
  docSent,      \* loads sent so far
  told,         \* history: nothing changed since that the page was not told of
  docLate,      \* history: the answer on screen came after a newer load was sent
  strayed,      \* history: the newest load is a change's, for an id no longer in the URL
  detailMoves, elsewhereMoves, docLost

detailVars == <<detailKind, shelf, pastDue, viewed, doc, notFound, docLoading, updating,
                docError, docCalls, docSent, told, docLate, strayed, detailMoves,
                elsewhereMoves, docLost>>

\* Where a notification leads to a page of one thing.
DetailKinds == {"invoice", "account"}

Statuses == {"DRAFT", "SENT", "OVERDUE", "PAID", "CANCELLED"}
Bookings == {"before", "after"}

\* The transitions the server allows.
AllowedFrom(status) ==
  CASE status = "DRAFT" -> {"SENT", "CANCELLED"}
    [] status = "SENT" -> {"PAID", "OVERDUE", "CANCELLED"}
    [] status = "OVERDUE" -> {"PAID", "CANCELLED"}
    [] status \in {"PAID", "CANCELLED"} -> {}

\* Sending offered again.
NextStatuses_resends(status) ==
  CASE status = "DRAFT" -> {"SENT", "CANCELLED"}
    [] status \in {"SENT", "OVERDUE"} -> {"SENT", "PAID", "CANCELLED"}
    [] status \in {"PAID", "CANCELLED"} -> {}

\* NEXT_STATUSES: the buttons.
NextStatuses(status) ==
  CASE status = "DRAFT" -> {"SENT", "CANCELLED"}
    [] status \in {"SENT", "OVERDUE"} -> {"PAID", "CANCELLED"}
    [] status \in {"PAID", "CANCELLED"} -> {}

IsOverdue(i) == shelf[i] = "SENT" /\ i \in pastDue

\* toSummary, with "overdue ? 'OVERDUE' : status" of the page.
ViewOfDoc(i) == IF IsOverdue(i) THEN "OVERDUE" ELSE shelf[i]

\* An invoice is one read; an account's page reads the account and its statement.
Parts == IF detailKind = "invoice" THEN {"details"} ELSE {"details", "statement"}
NotRead == "unread"
NoDoc == [id |-> "none", parts |-> [p \in Parts |-> NotRead]]

\* of: "page", or "change" for the load a change of status ends in; reload: what
\* that load is of.
ToDetail(to, i) ==
  [to |-> to, of |-> "page", id |-> i, reload |-> i, number |-> 0, parts |-> NoDoc.parts,
   at |-> "sent", wish |-> "none", saw |-> "none", answer |-> "none", told |-> TRUE]

LoadOfDoc(of, i) == [ToDetail("load", i) EXCEPT !.of = of, !.number = docSent + 1]

\* What the page draws: "loading" and "not found" come before what it holds.
DrawnDoc == IF docLoading \/ notFound THEN NoDoc ELSE doc

-----------------------------------------------------------------------------
\* What the owner does.

\* A link in the bell, or back and forward.  Only the account's page forgets that
\* it has loaded.
OpenDoc(i) ==
  /\ detailMoves < MaxDetailMoves /\ detailMoves' = detailMoves + 1
  /\ i # viewed /\ viewed' = i
  /\ docCalls' = docCalls \union {LoadOfDoc("page", i)}
  /\ docSent' = docSent + 1
  /\ docLoading' = (docLoading \/ detailKind = "account")
  /\ notFound' = FALSE
  /\ strayed' = FALSE
  /\ UNCHANGED <<detailKind, shelf, pastDue, doc, updating, docError, told, docLate,
                 elsewhereMoves, docLost>>

\* changeStatus, from one of the buttons of the invoice on screen, which need not
\* be the one in the URL yet; the reload it ends in is of the one in the URL now.
ChangeStatus(wish) ==
  /\ detailMoves < MaxDetailMoves /\ detailMoves' = detailMoves + 1
  /\ detailKind = "invoice" /\ DrawnDoc # NoDoc /\ ~updating
  /\ wish \in NextStatuses(doc.parts["details"])
  /\ updating' = TRUE /\ docError' = "none"
  /\ docCalls' = docCalls \union 
       {[ToDetail("change", doc.id) EXCEPT !.wish = wish, !.reload = viewed]}
  /\ UNCHANGED <<detailKind, shelf, pastDue, viewed, doc, notFound, docLoading, docSent,
                 told, docLate, strayed, elsewhereMoves, docLost>>

-----------------------------------------------------------------------------
\* The server, and everybody else.

\* Whoever has read i, and is not r, has not heard of its change.
Untold(i, calls) ==
  {IF c.id = i /\ \E p \in Parts : c.parts[p] # NotRead THEN [c EXCEPT !.told = FALSE] ELSE c :
     c \in calls}

StillTold(i) == told /\ doc.id # i

\* Somebody else's change, or the bank's booking.
ChangedElsewhere(i) ==
  /\ elsewhereMoves < MaxElsewhere /\ elsewhereMoves' = elsewhereMoves + 1
  /\ \E s \in IF detailKind = "invoice" THEN AllowedFrom(shelf[i]) ELSE Bookings \ {shelf[i]} :
       shelf' = [shelf EXCEPT ![i] = s]
  /\ docCalls' = {IF c.to = "change" /\ c.id = i /\ c.at = "answered"
                  THEN [c EXCEPT !.told = FALSE] ELSE c : c \in Untold(i, docCalls)}
  /\ told' = StillTold(i)
  /\ UNCHANGED <<detailKind, pastDue, viewed, doc, notFound, docLoading, updating,
                 docError, docSent, docLate, strayed, detailMoves, docLost>>

DueDatePasses(i) ==
  /\ elsewhereMoves < MaxElsewhere /\ elsewhereMoves' = elsewhereMoves + 1
  /\ detailKind = "invoice" /\ i \notin pastDue /\ pastDue' = pastDue \union {i}
  /\ docCalls' = Untold(i, docCalls) /\ told' = StillTold(i)
  /\ UNCHANGED <<detailKind, shelf, viewed, doc, notFound, docLoading, updating, docError,
                 docSent, docLate, strayed, detailMoves, docLost>>

\* findOne; findOneForCompany and findTransactions, in either order.
ServePart(r, p) ==
  /\ r \in docCalls /\ r.to = "load" /\ r.at = "sent" /\ p \in Parts /\ r.parts[p] = NotRead
  /\ LET read == [r.parts EXCEPT ![p] = ViewOfDoc(r.id)]
         whole == \A q \in Parts : read[q] # NotRead
     IN  docCalls' = (docCalls \ {r}) \union
           {[r EXCEPT !.parts = read, !.at = IF whole THEN "answered" ELSE "sent",
                      !.answer = IF whole THEN "ok" ELSE "none"]}
  /\ UNCHANGED <<detailKind, shelf, pastDue, viewed, doc, notFound, docLoading, updating,
                 docError, docSent, told, docLate, strayed, detailMoves, elsewhereMoves, docLost>>

AnswerChange(r, answer, calls) ==
  docCalls' = (calls \ {r}) \union {[r EXCEPT !.at = "answered", !.answer = answer, !.told = TRUE]}

\* updateStatus, up to its transition check.
CheckChange(r) ==
  /\ r \in docCalls /\ r.to = "change" /\ r.at = "sent"
  /\ IF r.wish \in AllowedFrom(shelf[r.id])
     THEN docCalls' = (docCalls \ {r}) \union {[r EXCEPT !.at = "read", !.saw = shelf[r.id]]}
     ELSE AnswerChange(r, "other", docCalls)
  /\ UNCHANGED <<detailKind, shelf, pastDue, viewed, doc, notFound, docLoading, updating,
                 docError, docSent, told, docLate, strayed, detailMoves, elsewhereMoves, docLost>>

\* Written from the status it was read with; a payment needs an account as well.
WriteChange(r) ==
  /\ r \in docCalls /\ r.at = "read"
  /\ \/ /\ shelf[r.id] = r.saw /\ shelf' = [shelf EXCEPT ![r.id] = r.wish]
        /\ AnswerChange(r, "ok", {r} \union Untold(r.id, docCalls \ {r}))
        /\ told' = StillTold(r.id)
     \/ /\ shelf[r.id] # r.saw /\ AnswerChange(r, "changed", docCalls) /\ UNCHANGED <<shelf, told>>
     \/ /\ r.wish = "PAID" /\ AnswerChange(r, "other", docCalls) /\ UNCHANGED <<shelf, told>>
  /\ UNCHANGED <<detailKind, pastDue, viewed, doc, notFound, docLoading, updating,
                 docError, docSent, docLate, strayed, detailMoves, elsewhereMoves, docLost>>

\* A request that never arrives, or whose answer does not come back.
LoseDetail(r) ==
  /\ docLost < MaxDetailLost /\ docLost' = docLost + 1
  /\ r \in docCalls /\ (r.at = "sent" \/ r.answer \in {"ok", "changed"})
  /\ docCalls' = (docCalls \ {r}) \union {[r EXCEPT !.at = "answered", !.answer = "other"]}
  /\ UNCHANGED <<detailKind, shelf, pastDue, viewed, doc, notFound, docLoading, updating,
                 docError, docSent, told, docLate, strayed, detailMoves, elsewhereMoves>>

-----------------------------------------------------------------------------
\* What comes back.

\* load: the last answer to come is what the page holds, and a failure empties it.
DocArrives(r) ==
  /\ r \in docCalls /\ r.to = "load" /\ r.at = "answered" /\ docCalls' = docCalls \ {r}
  /\ doc' = IF r.answer = "ok" THEN [id |-> r.id, parts |-> r.parts] ELSE NoDoc
  /\ told' = r.told
  /\ notFound' = (notFound \/ (detailKind = "account" /\ r.answer # "ok"))
  /\ docLoading' = FALSE
  /\ updating' = (updating /\ r.of = "page")
  /\ docLate' = (r.number # docSent)
  /\ UNCHANGED <<detailKind, shelf, pastDue, viewed, docError, docSent, strayed, detailMoves,
                 elsewhereMoves, docLost>>

\* "Changed meanwhile" shown like any other refusal.
ChangeArrives_noReload(r) ==
  /\ r \in docCalls /\ r.to = "change" /\ r.at = "answered"
  /\ docError' = IF r.answer = "ok" THEN "none" ELSE r.answer
  /\ told' = IF doc.id = r.id /\ r.answer \in {"ok", "changed"} THEN r.told ELSE told
  /\ IF r.answer = "ok"
     THEN /\ docCalls' = (docCalls \ {r}) \union {LoadOfDoc("change", r.reload)}
          /\ docSent' = docSent + 1 /\ UNCHANGED updating
     ELSE /\ docCalls' = docCalls \ {r} /\ updating' = FALSE /\ UNCHANGED docSent
  /\ UNCHANGED <<detailKind, shelf, pastDue, viewed, doc, notFound, docLoading,
                 docLate, strayed, detailMoves, elsewhereMoves, docLost>>

\* Changed, or changed by somebody else meanwhile: what was in the URL at the
\* click is loaded again, whatever is there by now.  Any other refusal is a message.
ChangeArrives(r) ==
  LET heard == r.answer \in {"ok", "changed"} IN
  /\ r \in docCalls /\ r.to = "change" /\ r.at = "answered"
  /\ docError' = IF r.answer = "ok" THEN "none" ELSE r.answer
  /\ told' = IF doc.id = r.id /\ heard THEN r.told ELSE told
  /\ IF heard
     THEN /\ docCalls' = (docCalls \ {r}) \union {LoadOfDoc("change", r.reload)}
          /\ docSent' = docSent + 1 /\ strayed' = (r.reload # viewed) /\ UNCHANGED updating
     ELSE /\ docCalls' = docCalls \ {r} /\ updating' = FALSE /\ UNCHANGED <<docSent, strayed>>
  /\ UNCHANGED <<detailKind, shelf, pastDue, viewed, doc, notFound, docLoading,
                 docLate, detailMoves, elsewhereMoves, docLost>>

\* Mounted on one, which loads at once.
DetailInit ==
  /\ detailKind \in DetailKinds
  /\ shelf \in [Docs -> IF detailKind = "invoice" THEN {"DRAFT", "SENT"} ELSE {"before"}]
  /\ pastDue = {} /\ viewed \in Docs
  /\ doc = NoDoc /\ notFound = FALSE /\ docLoading = TRUE
  /\ updating = FALSE /\ docError = "none"
  /\ docSent = 1 /\ docCalls = {[ToDetail("load", viewed) EXCEPT !.number = 1]}
  /\ told = TRUE /\ docLate = FALSE /\ strayed = FALSE
  /\ detailMoves = 0 /\ elsewhereMoves = 0 /\ docLost = 0

DetailNext ==
  \/ \E i \in Docs : OpenDoc(i) \/ ChangedElsewhere(i) \/ DueDatePasses(i)
  \/ \E wish \in Statuses : ChangeStatus(wish)
  \/ \E r \in docCalls : \/ \E p \in Parts : ServePart(r, p)
                         \/ CheckChange(r) \/ WriteChange(r) \/ LoseDetail(r)
                         \/ DocArrives(r) \/ ChangeArrives(r)

-----------------------------------------------------------------------------
DetailTypeOK ==
  /\ detailKind \in DetailKinds
  /\ shelf \in [Docs -> Statuses \union Bookings] /\ pastDue \subseteq Docs /\ viewed \in Docs
  /\ doc = NoDoc \/ doc.id \in Docs
  /\ docError \in {"none", "changed", "other"} /\ docSent \in Nat
  /\ {updating, docLoading, notFound, told, docLate, strayed} \subseteq BOOLEAN

\* At rest the page waits for nothing and, if nothing was lost, shows something;
\* what it shows is as it is at the server, unless it changed without the page
\* being told, and "changed meanwhile" counts as being told; and it offers only
\* what the server would do ("Mirrors the backend's transition table",
\* useInvoices.ts:70).  However loads and changes overlap, that is the invoice or
\* account of the URL (an account's page shows no other even while it loads), with
\* two exceptions: the answer that came last is not of the newest load, or the
\* newest load is the one a change of status ends in, for the page it was made on.
DetailSettles ==
  /\ docCalls = {} =>
       /\ ~updating /\ ~docLoading
       /\ docLost = 0 => DrawnDoc # NoDoc
       /\ DrawnDoc # NoDoc /\ told =>
            /\ \A p \in Parts : DrawnDoc.parts[p] = ViewOfDoc(DrawnDoc.id)
            /\ detailKind = "invoice" =>
                 NextStatuses(DrawnDoc.parts["details"]) \subseteq AllowedFrom(shelf[DrawnDoc.id])
  /\ (detailKind = "account" \/ docCalls = {}) /\ ~docLate /\ ~strayed /\ DrawnDoc # NoDoc =>
       DrawnDoc.id = viewed
=============================================================================
