------------------------------ MODULE PayDialog ------------------------------
(***************************************************************************)
(* Paying a month's salaries from the team page: usePayrollRun, the button *)
(* of EmployeesPage and the dialog of PayPayrollModal, against a server    *)
(* whose handlers are one step each; PayrollRun takes them apart.          *)
(***************************************************************************)
EXTENDS Naturals, FiniteSets

CONSTANTS Quotes,       \* 1..n: runs the bank may be asked to price
          PayReloads,   \* slots for the page's loads in flight
          MaxPayMoves,  \* bound: things the owner does
          MaxPayLost    \* bound: requests or answers lost

ASSUME PayAssumption ==
  /\ Quotes \subseteq Nat /\ IsFiniteSet(Quotes) /\ PayReloads # {}
  /\ {MaxPayMoves, MaxPayLost} \subseteq Nat

VARIABLES
  runs,      \* at the bank: "none", "pending" or "executed"
  shownRun,  \* status: "none" (nothing to show), "owed" or "paid"
  payModal,  \* PayPayrollModal
  payCalls,  \* previews and confirms in flight
  reloads,   \* loads in flight
  news,      \* notifications of a run not arrived yet
  openings,  \* history: times the dialog was drawn
  escaped,   \* history: the dialog was closed, by the owner or for want of a
             \* status, under a payment
  elsewhere, \* history: a run was approved at the bank
  overtaken, \* history: since the page was last told of the payment, an answer
             \* from before it came in, or a load that would tell was lost
  payMoves, payLost

payVars == <<runs, shownRun, payModal, payCalls, reloads, news, openings, escaped, elsewhere,
             overtaken, payMoves, payLost>>

Executed == {q \in Quotes : runs[q] = "executed"}
Owed == IF Executed = {} THEN "owed" ELSE "paid"

\* wanted: isPaying; opening: the number of the dialog on screen, 0 for none.
NoDialogDrawn == [wanted |-> FALSE, opening |-> 0, stage |-> "pricing", quote |-> 0]

NoReload == [at |-> "idle", status |-> "none"]

PayMove == payMoves < MaxPayMoves /\ payMoves' = payMoves + 1

ToServer(kind, quote, opening) ==
  [kind |-> kind, quote |-> quote, opening |-> opening, at |-> "sent", ok |-> FALSE,
   status |-> "none"]

StartsReload(s) == reloads' = [reloads EXCEPT ![s] = [NoReload EXCEPT !.at = "sent"]]

\* The dialog is drawn while it is wanted and there is a status, and asks the
\* bank for a price as soon as it is drawn anew.
Drawn(wanted, status, asking) ==
  LET there == wanted /\ status # "none" IN
  IF there /\ payModal.opening = 0
  THEN /\ payModal' = [NoDialogDrawn EXCEPT !.wanted = TRUE, !.opening = openings + 1]
       /\ openings' = openings + 1
       /\ payCalls' = asking \union {ToServer("preview", 0, openings + 1)}
       /\ UNCHANGED escaped
  ELSE /\ payModal' = IF there THEN payModal ELSE [NoDialogDrawn EXCEPT !.wanted = wanted]
       /\ payCalls' = asking /\ UNCHANGED openings
       /\ escaped' = (escaped \/ (~there /\ payModal.stage = "paying"))

-----------------------------------------------------------------------------
\* What the owner does.

\* The button, "only while this period's salaries are actually owed".
OpenPay ==
  /\ PayMove /\ shownRun = "owed" /\ ~payModal.wanted
  /\ \E q \in Quotes : runs[q] = "none"
  /\ Drawn(TRUE, shownRun, payCalls)
  /\ UNCHANGED <<runs, shownRun, reloads, news, elsewhere, overtaken, payLost>>

\* Cancel waits for a payment; Escape, the cross and a click outside do not.
ClosePay ==
  /\ PayMove /\ payModal.opening # 0
  /\ Drawn(FALSE, shownRun, payCalls)
  /\ UNCHANGED <<runs, shownRun, reloads, news, elsewhere, overtaken, payLost>>

Pay ==
  /\ PayMove /\ payModal.opening # 0 /\ payModal.stage = "ready"
  /\ payModal' = [payModal EXCEPT !.stage = "paying"]
  /\ payCalls' = payCalls \union {ToServer("confirm", payModal.quote, payModal.opening)}
  /\ UNCHANGED <<runs, shownRun, reloads, news, openings, escaped, elsewhere,
                 overtaken, payLost>>

\* Drawn again in another language, the dialog prices the run again.
SwitchLanguage_pricesAgain ==
  /\ PayMove /\ payModal.opening # 0
  /\ \E q \in Quotes : runs[q] = "none"
  /\ payCalls' = payCalls \union {ToServer("preview", 0, payModal.opening)}
  /\ UNCHANGED <<runs, shownRun, payModal, reloads, news, openings, escaped,
                 elsewhere, overtaken, payLost>>

\* Drawn again in another language, the effect sees hasPriced.
SwitchLanguage ==
  /\ PayMove /\ payModal.opening # 0
  /\ UNCHANGED <<runs, shownRun, payModal, payCalls, reloads, news, openings,
                 escaped, elsewhere, overtaken, payLost>>

-----------------------------------------------------------------------------
\* The server and the bank.

Replies(c, ok) ==
  payCalls' = (payCalls \ {c})
    \union {[c EXCEPT !.at = "answered", !.ok = ok,
                      !.status = IF Executed' = {} THEN "owed" ELSE "paid"]}

\* preview: nothing is priced for a month that is paid.
Preview(c) ==
  /\ c.kind = "preview"
  /\ \/ /\ Owed = "owed"
        /\ \E q \in Quotes :
             /\ runs[q] = "none" /\ \A p \in Quotes : p < q => runs[p] # "none"
             /\ runs' = [runs EXCEPT ![q] = "pending"]
             /\ payCalls' = (payCalls \ {c})
                  \union {[c EXCEPT !.at = "answered", !.ok = TRUE, !.quote = q, !.status = "owed"]}
     \/ Owed = "paid" /\ UNCHANGED runs /\ Replies(c, FALSE)
  /\ UNCHANGED news

\* confirm: what is pending is executed; that the month is owed is not asked.
Confirm(c) ==
  /\ c.kind = "confirm"
  /\ \/ /\ runs[c.quote] = "pending"
        /\ runs' = [runs EXCEPT ![c.quote] = "executed"]
        /\ Replies(c, TRUE) /\ news' = news + 1
     \/ /\ runs[c.quote] # "pending"
        /\ UNCHANGED <<runs, news>> /\ Replies(c, FALSE)

ServePay(c) ==
  /\ c \in payCalls /\ c.at = "sent"
  /\ Preview(c) \/ Confirm(c)
  /\ UNCHANGED <<shownRun, payModal, reloads, openings, escaped, elsewhere,
                 overtaken, payMoves, payLost>>

ServeReload(s) ==
  /\ reloads[s].at = "sent"
  /\ reloads' = [reloads EXCEPT ![s] = [at |-> "answered", status |-> Owed]]
  /\ UNCHANGED <<runs, shownRun, payModal, payCalls, news, openings, escaped,
                 elsewhere, overtaken, payMoves, payLost>>

\* Somebody approves a priced run at the bank itself.
ApproveAtTheBank(q) ==
  /\ PayMove /\ runs[q] = "pending" /\ Owed = "owed"
  /\ runs' = [runs EXCEPT ![q] = "executed"]
  /\ news' = news + 1 /\ elsewhere' = TRUE
  /\ UNCHANGED <<shownRun, payModal, payCalls, reloads, openings, escaped,
                 overtaken, payLost>>

-----------------------------------------------------------------------------
\* What comes back.

\* Going back from paid to owed; being told of the payment puts it right.
Overtakes(status) == overtaken' = (status # "paid" /\ (overtaken \/ shownRun = "paid"))

\* A load; a failed one "offers no button rather than a button that cannot work".
Reloaded(s) ==
  /\ reloads[s].at \in {"answered", "failed"}
  /\ shownRun' = reloads[s].status
  /\ Overtakes(reloads[s].status)
  /\ reloads' = [reloads EXCEPT ![s] = NoReload]
  /\ Drawn(payModal.wanted, shownRun', payCalls)
  /\ UNCHANGED <<runs, news, elsewhere, payMoves, payLost>>

IsDrawn(c) == payModal.opening = c.opening

\* The page takes the status whatever became of the dialog.
Priced(c) ==
  /\ c.kind = "preview"
  /\ IF c.ok
     THEN /\ shownRun' = c.status /\ Overtakes(c.status)
          /\ IF IsDrawn(c)
             THEN /\ payModal' = [payModal EXCEPT !.stage = "ready", !.quote = c.quote]
                  /\ payCalls' = payCalls \ {c} /\ UNCHANGED <<openings, escaped>>
             ELSE Drawn(payModal.wanted, shownRun', payCalls \ {c})
     ELSE /\ payCalls' = payCalls \ {c}
          /\ UNCHANGED <<shownRun, payModal, openings, escaped, overtaken>>
  /\ UNCHANGED reloads

Paid(c) ==
  /\ c.kind = "confirm"
  /\ IF c.ok
     THEN /\ shownRun' = c.status /\ Overtakes(c.status)
          /\ \E s \in PayReloads : reloads[s].at = "idle" /\ StartsReload(s)
          /\ IF IsDrawn(c)
             THEN /\ payModal' = [payModal EXCEPT !.stage = "paid"]
                  /\ payCalls' = payCalls \ {c} /\ UNCHANGED <<openings, escaped>>
             ELSE Drawn(payModal.wanted, shownRun', payCalls \ {c})
     ELSE /\ payModal' = IF IsDrawn(c) THEN [payModal EXCEPT !.stage = "ready"] ELSE payModal
          /\ payCalls' = payCalls \ {c}
          /\ UNCHANGED <<shownRun, reloads, openings, escaped, overtaken>>

PayAnswer(c) ==
  /\ c \in payCalls /\ c.at = "answered"
  /\ Priced(c) \/ Paid(c)
  /\ UNCHANGED <<runs, news, elsewhere, payMoves, payLost>>

\* A notification of the money leaving: the page reads the run again.
HearNews(s) ==
  /\ news > 0 /\ news' = news - 1
  /\ reloads[s].at = "idle" /\ StartsReload(s)
  /\ UNCHANGED <<runs, shownRun, payModal, payCalls, openings, escaped, elsewhere,
                 overtaken, payMoves, payLost>>

\* handleSaved, and a notification of anything else, read it again too.
ReadAgain(s) ==
  /\ PayMove /\ reloads[s].at = "idle" /\ StartsReload(s)
  /\ UNCHANGED <<runs, shownRun, payModal, payCalls, news, openings, escaped, elsewhere,
                 overtaken, payLost>>

\* A request that never arrives, or whose answer does not come back.
LosePay ==
  /\ payLost < MaxPayLost /\ payLost' = payLost + 1
  /\ \/ \E c \in payCalls :
          /\ c.at = "sent" \/ c.ok
          /\ payCalls' = (payCalls \ {c}) \union {[c EXCEPT !.at = "answered", !.ok = FALSE]}
          /\ UNCHANGED <<reloads, overtaken>>
     \/ \E s \in PayReloads :
          /\ reloads[s].at # "idle"
          /\ reloads' = [reloads EXCEPT ![s] = [at |-> "failed", status |-> "none"]]
          /\ overtaken' = (overtaken \/ Owed = "paid") /\ UNCHANGED payCalls
  /\ UNCHANGED <<runs, shownRun, payModal, news, openings, escaped, elsewhere,
                 payMoves>>

\* The page opened on a month not paid yet.
PayInit ==
  /\ runs = [q \in Quotes |-> "none"] /\ shownRun = "none"
  /\ payModal = NoDialogDrawn /\ payCalls = {} /\ news = 0
  /\ LET first == CHOOSE s \in PayReloads : TRUE IN
     reloads = [s \in PayReloads |-> [NoReload EXCEPT !.at = IF s = first THEN "sent" ELSE "idle"]]
  /\ openings = 0 /\ escaped = FALSE /\ elsewhere = FALSE /\ overtaken = FALSE
  /\ payMoves = 0 /\ payLost = 0

PayNext ==
  \/ OpenPay \/ ClosePay \/ Pay \/ SwitchLanguage \/ LosePay
  \/ \E q \in Quotes : ApproveAtTheBank(q)
  \/ \E c \in payCalls : ServePay(c) \/ PayAnswer(c)
  \/ \E s \in PayReloads : ServeReload(s) \/ Reloaded(s) \/ HearNews(s) \/ ReadAgain(s)

-----------------------------------------------------------------------------
PayTypeOK ==
  /\ runs \in [Quotes -> {"none", "pending", "executed"}]
  /\ shownRun \in {"none", "owed", "paid"}
  /\ payModal.stage \in {"pricing", "ready", "paying", "paid"}
  /\ payModal.opening \in 0..openings /\ news \in 0..Cardinality(Quotes)

\* "It happens exactly once per opening" (PayPayrollModal.tsx:43): the bank
\* prices at most one run for each time the dialog is drawn, and the salaries go
\* out once.  Not so when the dialog is closed under a payment, which Escape
\* does and Cancel does not, or a run is approved at the bank while another
\* waits to be: see the README.
PricedOncePerOpening ==
  /\ Cardinality({q \in Quotes : runs[q] # "none"}) <= openings
  /\ ~escaped /\ ~elsewhere => Cardinality(Executed) <= 1

\* "The button has to go away by itself" (usePayrollRun.ts:92): with nothing on
\* its way the page says of the month what the bank does, or nothing at all and
\* then only after a load was lost; and a dialog that says it is paid is right at
\* any time.  Not so once an answer from before the payment came in after it, or
\* a load after the payment was lost, until the page is told again.
PaySettles ==
  /\ payCalls = {} /\ news = 0 /\ (\A s \in PayReloads : reloads[s].at = "idle") =>
       IF shownRun = "none" THEN payLost > 0 ELSE shownRun = Owed \/ overtaken
  /\ payModal.stage = "paid" => Owed = "paid"
=============================================================================
