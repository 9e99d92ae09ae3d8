----------------------------- MODULE PayrollRun -----------------------------
(***************************************************************************)
(* Paying a month's salaries: PayrollRunService (payroll/payroll-run.      *)
(* service.ts) as several HTTP requests run it at once, the bank it calls, *)
(* and the PAYROLL_COMPLETED webhook that comes back (filePayrollRun in    *)
(* bank-integration/bank-webhook.service.ts).                              *)
(*                                                                         *)
(* Every await of the code is a point where another request, a webhook or  *)
(* midnight may come between, so each action is the code from one await to *)
(* the next.  A call that throws, times out or dies with its process just  *)
(* ends: Abandon.                                                          *)
(*                                                                         *)
(* Abstracted: who is on the payroll and for how much (PayrollTeam), the   *)
(* movements and balances of the webhook (BankWebhook), and what a quote   *)
(* says beyond the company and the month it was priced for.                *)
(***************************************************************************)
EXTENDS PayrollCalendar, Sequences

CONSTANTS
  Companies,     \* company ids
  Requests,      \* ids of payroll requests at the bank
  Calls,         \* slots for preview and confirm requests in progress
  Deliveries,    \* slots for webhook requests in progress
  Days,          \* the dates the clock visits, oldest first
  Settings,      \* payday settings a company may choose
  MaxAttempts,   \* deliveries of one event before the bank files it as failed
  MaxLost,       \* bound on deliveries that die or answer 500
  FilingMayFail, \* whether the database may refuse a webhook's payroll row
  None

ASSUME PayrollAssumption ==
  /\ Days \in Seq([month : Nat, day : 1..31]) /\ Len(Days) > 0
  /\ Settings \subseteq PaydaySettings
  /\ MaxAttempts \in Nat \ {0} /\ MaxLost \in Nat
  /\ FilingMayFail \in BOOLEAN
  /\ None \notin Companies /\ None \notin Requests

VARIABLES
  clock,       \* index in Days of today
  payday,      \* payday[c]: Company.paydayDayOfMonth
  payrollRuns, \* the payroll_runs table: rows [company, period, request]
  calls,       \* calls[h]: one preview or confirm in progress
  bank,        \* bank[r]: the bank's record of a payroll request
  orphans,     \* requests whose approval is on its way with nobody waiting
  priced,      \* priced[r]: the period shown to the owner with quote r, or None
  events,      \* events[r]: delivery of r's PAYROLL_COMPLETED event
  deliveries,  \* deliveries[d]: one webhook request in progress
  lost         \* deliveries lost so far

appVars  == <<payday, payrollRuns, calls, deliveries>>
bankVars == <<bank, orphans, events>>
vars     == <<clock, payday, payrollRuns, calls, bank, orphans, priced, events,
              deliveries, lost>>

-----------------------------------------------------------------------------
Clock == 1..Len(Days)

Period(setting, at) == PayrollPeriodFor(setting, Days[at])

\* Every month any of this can be filed under.
Periods == {Period(s, at) : s \in Settings, at \in Clock}

NoCall == [pc |-> "idle", company |-> None, request |-> None, at |-> 1, period |-> None]

Call == [pc : {"idle", "previewing", "pricing", "loaded", "approving", "executed"},
         company : Companies \union {None}, request : Requests \union {None},
         at : Clock, period : Periods \union {None}]

NoRequest == [state |-> "none", company |-> None, at |-> 1, ours |-> TRUE, named |-> TRUE]

BankRequest == [state : {"none", "PENDING", "EXECUTED"},
                company : Companies \union {None}, at : Clock,
                ours : BOOLEAN,    \* whether an account it pays from is connected here
                named : BOOLEAN]   \* whether its event carries the request id

NoDelivery == [pc |-> "idle", request |-> None, period |-> None]

Delivery == [pc : {"idle", "applied", "filing", "filed"}, request : Requests \union {None},
             period : Periods \union {None}]

Event == [state : {"none", "queued", "acked", "failed"}, tries : 0..MaxAttempts]

Row == [company : Companies, period : Periods, request : Requests \union {None}]

Executed(r) == bank[r].state = "EXECUTED"

Paid(c, p) == \E row \in payrollRuns : row.company = c /\ row.period = p

Init ==
  /\ clock = 1
  /\ payday \in [Companies -> Settings]
  /\ payrollRuns = {}
  /\ calls = [h \in Calls |-> NoCall]
  /\ bank = [r \in Requests |-> NoRequest]
  /\ orphans = {}
  /\ priced = [r \in Requests |-> None]
  /\ events = [r \in Requests |-> [state |-> "none", tries |-> 0]]
  /\ deliveries = [d \in Deliveries |-> NoDelivery]
  /\ lost = 0

-----------------------------------------------------------------------------
(* The company and the clock.                                              *)

Midnight ==
  /\ clock < Len(Days)
  /\ clock' = clock + 1
  /\ UNCHANGED <<appVars, bankVars, priced, lost>>

\* CompanySettingsService.update of paydayDayOfMonth.
ChangePayday(c) ==
  /\ \E s \in Settings \ {payday[c]} : payday' = [payday EXCEPT ![c] = s]
  /\ UNCHANGED <<clock, payrollRuns, calls, bankVars, priced, deliveries, lost>>

-----------------------------------------------------------------------------
(* preview: phase one, asking the bank to price the run.                   *)

\* status: the company's row is read, and the month on the table follows.
PreviewContext(h, c) ==
  /\ calls[h].pc = "idle"
  /\ calls' = [calls EXCEPT ![h] =
       [NoCall EXCEPT !.pc = "previewing", !.company = c,
                      !.period = Period(payday[c], clock)]]
  /\ UNCHANGED <<clock, payday, payrollRuns, bankVars, priced, deliveries, lost>>

\* The run on file, if there is one, and the blocker, if there is one, refuse;
\* whether anything blocks depends on tables this module leaves out.
PreviewCheck(h) ==
  /\ calls[h].pc = "previewing"
  /\ \E blocked \in BOOLEAN :
       calls' = [calls EXCEPT ![h] =
         IF Paid(@.company, @.period) \/ blocked
         THEN NoCall
         ELSE [@ EXCEPT !.pc = "pricing"]]
  /\ UNCHANGED <<clock, payday, payrollRuns, bankVars, priced, deliveries, lost>>

\* requestPayroll: the bank opens a request, and the browser gets its quote
\* together with the status it was priced from.
PreviewQuote(h, r) ==
  /\ calls[h].pc = "pricing"
  /\ bank[r].state = "none"
  /\ bank' = [bank EXCEPT ![r] =
       [NoRequest EXCEPT !.state = "PENDING", !.company = calls[h].company]]
  /\ priced' = [priced EXCEPT ![r] = calls[h].period]
  /\ calls' = [calls EXCEPT ![h] = NoCall]
  /\ UNCHANGED <<clock, payday, payrollRuns, orphans, events, deliveries, lost>>

-----------------------------------------------------------------------------
(* confirm: phase two, executing a quote.                                  *)

\* Anyone's quote accepted.
ConfirmLoad_anyCompany(h, c, r) ==
  /\ calls[h].pc = "idle"
  /\ bank[r].state # "none"
  /\ calls' = [calls EXCEPT ![h] =
       [NoCall EXCEPT !.pc = "loaded", !.company = c, !.request = r, !.at = clock]]
  /\ UNCHANGED <<clock, payday, payrollRuns, bankVars, priced, deliveries, lost>>

\* getPayroll, and the check of whose request it is.  A request the bank does
\* not know, or another company's, is a 404 that leaves nothing behind.
ConfirmLoad(h, c, r) ==
  /\ calls[h].pc = "idle"
  /\ bank[r].state # "none"
  /\ bank[r].company = c
  /\ calls' = [calls EXCEPT ![h] =
       [NoCall EXCEPT !.pc = "loaded", !.company = c, !.request = r, !.at = clock]]
  /\ UNCHANGED <<clock, payday, payrollRuns, bankVars, priced, deliveries, lost>>

\* The period left to whoever files.
ConfirmPeriod_later(h) ==
  /\ calls[h].pc = "loaded"
  /\ calls' = [calls EXCEPT ![h].pc = "approving"]
  /\ UNCHANGED <<clock, payday, payrollRuns, bankVars, priced, deliveries, lost>>

\* The period comes from the payday setting of now and the time the call
\* began; then the approval goes out.
ConfirmPeriod(h) ==
  /\ calls[h].pc = "loaded"
  /\ calls' = [calls EXCEPT ![h].pc = "approving",
                            ![h].period = Period(payday[calls[h].company], calls[h].at)]
  /\ UNCHANGED <<clock, payday, payrollRuns, bankVars, priced, deliveries, lost>>

\* External: the bank executes a pending request, once, and owes an event.
ExecutesAtBank(r, approvalsLeft) ==
  /\ bank[r].state = "PENDING"
  /\ bank' = [bank EXCEPT ![r].state = "EXECUTED", ![r].at = clock]
  /\ events' = [events EXCEPT ![r].state = "queued"]
  /\ orphans' = approvalsLeft

BankApproves(h) ==
  /\ calls[h].pc = "approving"
  /\ ExecutesAtBank(calls[h].request, orphans)
  /\ calls' = [calls EXCEPT ![h].pc = "executed"]
  /\ UNCHANGED <<clock, payday, payrollRuns, priced, deliveries, lost>>

\* The bank refuses (not pending any more, no funds, account not active), and
\* the refusal reaches the browser.
BankRefuses(h) ==
  /\ calls[h].pc = "approving"
  /\ calls' = [calls EXCEPT ![h] = NoCall]
  /\ UNCHANGED <<clock, payday, payrollRuns, bankVars, priced, deliveries, lost>>

\* record: files a period as paid, from either direction, once.  A collision on
\* (company, period) or on the request id is success.
Clash(c, p, id) ==
  \E row \in payrollRuns :
    \/ row.company = c /\ row.period = p
    \/ id # None /\ row.request = id

Record(c, p, id) ==
  payrollRuns' = IF Clash(c, p, id)
                 THEN payrollRuns
                 ELSE payrollRuns \union {[company |-> c, period |-> p, request |-> id]}

\* The row written before the bank has answered.
ConfirmRecord_beforeTheAnswer(h) ==
  /\ calls[h].pc \in {"approving", "executed"}
  /\ Record(calls[h].company, calls[h].period, calls[h].request)
  /\ calls' = [calls EXCEPT ![h] = NoCall]
  /\ UNCHANGED <<clock, payday, bankVars, priced, deliveries, lost>>

ConfirmRecord(h) ==
  /\ calls[h].pc = "executed"
  /\ Record(calls[h].company, calls[h].period, calls[h].request)
  /\ calls' = [calls EXCEPT ![h] = NoCall]
  /\ UNCHANGED <<clock, payday, bankVars, priced, deliveries, lost>>

\* The call ends where it stands: the 10 second timeout of BankApiClient, a
\* database error, or the process going away.  An approval already sent goes on
\* without it.
Abandon(h) ==
  /\ calls[h].pc # "idle"
  /\ orphans' = IF calls[h].pc = "approving"
                THEN orphans \union {calls[h].request} ELSE orphans
  /\ calls' = [calls EXCEPT ![h] = NoCall]
  /\ UNCHANGED <<clock, payday, payrollRuns, bank, events, priced, deliveries, lost>>

\* External: an approval nobody waits for is executed after all ...
LateApproval(r) ==
  /\ r \in orphans
  /\ ExecutesAtBank(r, orphans \ {r})
  /\ UNCHANGED <<clock, appVars, priced, lost>>

\* ... or refused, or never arrived.
LateApprovalLost(r) ==
  /\ r \in orphans
  /\ orphans' = orphans \ {r}
  /\ UNCHANGED <<clock, appVars, bank, events, priced, lost>>

\* External: a run started and approved at the bank instead of from here.
BankOwnRun(r, c) ==
  /\ bank[r].state = "none"
  /\ \E ours, named \in BOOLEAN :
       bank' = [bank EXCEPT ![r] = [state |-> "EXECUTED", company |-> c, at |-> clock,
                                    ours |-> ours, named |-> named]]
  /\ events' = [events EXCEPT ![r].state = "queued"]
  /\ UNCHANGED <<clock, appVars, orphans, priced, lost>>

-----------------------------------------------------------------------------
(* The PAYROLL_COMPLETED event on its way back.                            *)

\* The bank delivers, again while it has not been acknowledged, and the
\* movements are written (BankWebhook has that part).
Deliver(d, r) ==
  /\ deliveries[d].pc = "idle"
  /\ events[r].state = "queued" /\ events[r].tries < MaxAttempts
  /\ events' = [events EXCEPT ![r].tries = @ + 1]
  /\ deliveries' = [deliveries EXCEPT ![d] =
       [NoDelivery EXCEPT !.pc = "applied", !.request = r]]
  /\ UNCHANGED <<clock, payday, payrollRuns, calls, bank, orphans, priced, lost>>

\* The month of the day the event is handled.
WebhookPeriod_today(d) ==
  LET r == deliveries[d].request IN
  /\ deliveries[d].pc = "applied"
  /\ deliveries' = [deliveries EXCEPT ![d] =
       IF bank[r].ours
       THEN [@ EXCEPT !.pc = "filing", !.period = Period(payday[bank[r].company], clock)]
       ELSE [@ EXCEPT !.pc = "filed"]]
  /\ UNCHANGED <<clock, payday, payrollRuns, calls, bankVars, priced, lost>>

\* filePayrollRun, only when an account of the event is connected here: the
\* period of the booking time under the payday setting of now.
WebhookPeriod(d) ==
  LET r == deliveries[d].request IN
  /\ deliveries[d].pc = "applied"
  /\ deliveries' = [deliveries EXCEPT ![d] =
       IF bank[r].ours
       THEN [@ EXCEPT !.pc = "filing",
                      !.period = Period(payday[bank[r].company], bank[r].at)]
       ELSE [@ EXCEPT !.pc = "filed"]]
  /\ UNCHANGED <<clock, payday, payrollRuns, calls, bankVars, priced, lost>>

\* The row written only if the bank named the request.
WebhookFile_namedOnly(d) ==
  LET r == deliveries[d].request IN
  /\ deliveries[d].pc = "filing"
  /\ IF bank[r].named THEN Record(bank[r].company, deliveries[d].period, r)
                      ELSE UNCHANGED payrollRuns
  /\ deliveries' = [deliveries EXCEPT ![d].pc = "filed"]
  /\ UNCHANGED <<clock, payday, calls, bankVars, priced, lost>>

\* The row is written under the id the event carries; an error is logged and
\* swallowed.
WebhookFile(d) ==
  LET r == deliveries[d].request IN
  /\ deliveries[d].pc = "filing"
  /\ \/ Record(bank[r].company, deliveries[d].period, IF bank[r].named THEN r ELSE None)
     \/ FilingMayFail /\ UNCHANGED payrollRuns
  /\ deliveries' = [deliveries EXCEPT ![d].pc = "filed"]
  /\ UNCHANGED <<clock, payday, calls, bankVars, priced, lost>>

\* The bank told before the row is written.
WebhookAck_early(d) ==
  /\ deliveries[d].pc \in {"filing", "filed"}
  /\ events' = [events EXCEPT ![deliveries[d].request].state = "acked"]
  /\ deliveries' = [deliveries EXCEPT ![d] = NoDelivery]
  /\ UNCHANGED <<clock, payday, payrollRuns, calls, bank, orphans, priced, lost>>

WebhookAck(d) ==
  /\ deliveries[d].pc = "filed"
  /\ events' = [events EXCEPT ![deliveries[d].request].state = "acked"]
  /\ deliveries' = [deliveries EXCEPT ![d] = NoDelivery]
  /\ UNCHANGED <<clock, payday, payrollRuns, calls, bank, orphans, priced, lost>>

\* A delivery that dies, answers 500 or whose answer is lost: the bank tries
\* again, and files the event as failed after the last attempt.
WebhookLost(d) ==
  LET r == deliveries[d].request IN
  /\ deliveries[d].pc # "idle"
  /\ lost < MaxLost /\ lost' = lost + 1
  /\ deliveries' = [deliveries EXCEPT ![d] = NoDelivery]
  /\ events' = [events EXCEPT ![r].state =
       IF @ = "queued" /\ events[r].tries = MaxAttempts THEN "failed" ELSE @]
  /\ UNCHANGED <<clock, payday, payrollRuns, calls, bank, orphans, priced>>

\* External: someone at the bank replays an event it had given up on.
Replay(r) ==
  /\ events[r].state = "failed"
  /\ events' = [events EXCEPT ![r] = [state |-> "queued", tries |-> 0]]
  /\ UNCHANGED <<clock, appVars, bank, orphans, priced, lost>>

-----------------------------------------------------------------------------
Webhook(d) ==
  \/ \E r \in Requests : Deliver(d, r)
  \/ WebhookPeriod(d) \/ WebhookFile(d) \/ WebhookAck(d) \/ WebhookLost(d)

Preview(h) ==
  \/ \E c \in Companies : PreviewContext(h, c)
  \/ PreviewCheck(h)
  \/ \E r \in Requests : PreviewQuote(h, r)

Confirm(h) ==
  \/ \E c \in Companies, r \in Requests : ConfirmLoad(h, c, r)
  \/ ConfirmPeriod(h) \/ BankApproves(h) \/ BankRefuses(h) \/ ConfirmRecord(h)

Bank ==
  \/ \E r \in Requests : LateApproval(r) \/ LateApprovalLost(r) \/ Replay(r)
  \/ \E r \in Requests, c \in Companies : BankOwnRun(r, c)

Next ==
  \/ Midnight \/ \E c \in Companies : ChangePayday(c)
  \/ \E h \in Calls : Preview(h) \/ Confirm(h) \/ Abandon(h)
  \/ Bank
  \/ \E d \in Deliveries : Webhook(d)

Spec == Init /\ [][Next]_vars

\* The bank delivers what it owes and a delivery that is not lost proceeds;
\* nothing is assumed of the owner's calls, of the clock or of replays.
Fairness ==
  /\ \A r \in Requests : WF_vars(\E d \in Deliveries : Deliver(d, r))
  /\ \A d \in Deliveries : WF_vars(WebhookPeriod(d) \/ WebhookFile(d) \/ WebhookAck(d))

FairSpec == Spec /\ Fairness

-----------------------------------------------------------------------------
TypeOK ==
  /\ clock \in Clock
  /\ payday \in [Companies -> Settings]
  /\ payrollRuns \subseteq Row
  /\ calls \in [Calls -> Call]
  /\ bank \in [Requests -> BankRequest]
  /\ orphans \subseteq Requests
  /\ priced \in [Requests -> Periods \union {None}]
  /\ events \in [Requests -> Event]
  /\ deliveries \in [Deliveries -> Delivery]
  /\ lost \in 0..MaxLost

\* "A row means the salaries for `period` are out the door" (schema.prisma):
\* every row on file is backed by a request the bank executed for the row's
\* own company, whichever of confirm and the webhook wrote it.
FiledMeansExecuted ==
  \A row \in payrollRuns : \E r \in Requests :
    Executed(r) /\ bank[r].company = row.company /\ row.request \in {r, None}

\* record "files a period as paid, from either direction, once"
\* (payroll-run.service.ts:238): confirm, the webhook and its redeliveries never
\* leave two rows for one period or for one request.
FiledOnce ==
  \A one, other \in payrollRuns :
    \/ one = other
    \/ /\ one.company # other.company \/ one.period # other.period
       /\ one.request = None \/ one.request # other.request

\* The months request r may be filed under by its webhook, as the payday is set
\* when it is handled.
MonthsOf(r) == {Period(s, bank[r].at) : s \in Settings}

OnFile(r) ==
  \E row \in payrollRuns :
    row.company = bank[r].company /\ (row.request = r \/ row.period \in MonthsOf(r))

\* An event the bank has been told is handled has left its mark: a row under
\* its own request, or one under the month it would have been filed under.
AckedMeansFiled ==
  \A r \in Requests : events[r].state = "acked" /\ bank[r].ours => OnFile(r)

\* p was the month on the table under some setting on one of the first n dates.
Offered(p, n) == \E s \in Settings, i \in Clock : i <= n /\ p = Period(s, i)

\* Until the bank executed r, the month on the table never moved.
MonthStoodStill(r) ==
  \A p, q \in Periods : Offered(p, bank[r].at) /\ Offered(q, bank[r].at) => p = q

\* A row names "the month the salaries are for" (schema.prisma:712), though
\* confirm and the webhook work it out again, each when it gets there: however
\* late it is written, the month is one that was on the table by the day the
\* bank executed the run, and where that month had not moved by then, the one
\* the owner was quoted.  Where it had, the two may differ: see the README.
FiledAsPriced ==
  \A row \in payrollRuns : row.request # None =>
    /\ Offered(row.period, bank[row.request].at)
    /\ priced[row.request] # None /\ MonthStoodStill(row.request)
         => row.period = priced[row.request]

\* "one payroll per company per month" (schema.prisma:712): no company's
\* salaries leave the account twice for one month.
PaidOncePerPeriod ==
  \A r, q \in Requests :
    r # q /\ Executed(r) /\ Executed(q) /\ bank[r].company = bank[q].company
      => priced[r] = None \/ priced[r] # priced[q]

\* Salaries that left a connected account are eventually on file, though the
\* confirm that started them died: the webhook files what confirm did not.  There
\* are finitely many requests and neither an execution nor a row is ever undone,
\* so that all are filed again and again says of each that it is, and stays so.
ExecutedIsEventuallyFiled ==
  []<>(\A r \in Requests : Executed(r) /\ bank[r].ours => OnFile(r))

-----------------------------------------------------------------------------
\* The component implements its ledger: money moves when the bank executes.
Ledger == INSTANCE PayrollLedger WITH
  moved <- [r \in Requests |-> IF Executed(r) THEN bank[r].company ELSE None],
  filed <- payrollRuns

ImplementsLedger == Ledger!LedgerSpec
=============================================================================
