# BiznisMk: a TLA+ model of payroll, the bank webhook, invoices, the schedule, sign-in and their pages

BiznisMk is a business-management application for Macedonian companies: a
NestJS backend over Postgres (`src/backend`), a React frontend (`src/frontend`),
a bank it calls over HTTP and that calls back with signed webhooks, SMTP, and a
daily cron. This directory holds TLA+ modules of the parts of the program where
order, concurrency and failure matter, on the server and in the browser, the TLC
runs that check them, and proofs that TLAPS checks.

## 1. The system

Every HTTP request is one asynchronous handler; each `await` of a database or
HTTP call is a point where any other request may run, in this process or
another. Postgres runs at READ COMMITTED; one statement, or one `$transaction`,
is atomic, and unique constraints and foreign keys are what the services lean on.
No component keeps state in memory that another relies on, so a crash is a
handler that stops between two awaits.

The browser holds copies: each page asks for what it shows, over requests that
cross, come back late or never, while a person goes on typing, choosing and
closing. What is hard there is which answer is still about what is on screen.

| component (source) | state | operations | what is hard | what makes it correct | modelled |
|---|---|---|---|---|---|
| Payroll calendar (`payroll/payroll-period.ts`, `notifications/notification-schedule.ts`) | none; the payday setting | the month on the table, the next payday, reminder days | months of 28 to 31 days, paydays past their end | button, window and reminder speak of one month | `PayrollCalendar`, `PayrollWindow` |
| Net salary and team (`payroll/net-salary.ts`, `context`, `paymentsFor`) | employees, tax settings | hire, change, dismiss, split a run into payments | rounding per person, empty transfers | a run pays the gross to the deni; a raise never lowers the net | `NetSalary`, `PayrollTeam` |
| Payroll run (`payroll/payroll-run.service.ts`, the bank client) | `payroll_runs`; quotes at the bank | preview, confirm, record; filing by webhook | two tabs, timeouts that execute later, crashes, redelivery, a changed payday | filed once, only if executed, under the month it paid | `PayrollLedger`, `PayrollRun` |
| Bank webhook (`bank-integration/bank-webhook.*`) | `bank_accounts`, `transactions`, notifications; the bank's queue | receive, apply per account, announce, acknowledge | overlapping, lost, retried and replayed deliveries | booked once to the owner, acknowledged only when recorded, balance never back | `BankWebhook` |
| Connecting accounts (`bank-accounts/*`) | `bank_accounts` | check, create with its statement | webhooks during it | nothing booked is missed | partly: `Connect` of `BankWebhook`, the form in `EntryForms`, an account's page in `DetailPages` |
| Invoices (`invoices/*`, `CreateInvoiceModal.tsx`, `InvoiceDetailPage.tsx`) | `invoices`, balances, transactions; one invoice on screen | create, number, change status, settle; price while typing; press a status | two requests, dying between steps, balances replaced by the bank; a page that outlives its invoice | numbers without holes, money moves once, never below zero; buttons are what the server does | `InvoiceBook`, `InvoiceDesk`, `EntryForms`, `DetailPages` |
| Schedule (`schedule/*`, `SchedulePage.tsx`, `ShiftTemplatesModal.tsx`) | `shift_templates`, `schedule_entries`, `schedule_weeks`; a week and its shifts on screen | templates, set, copy, publish, unlock; go to a week, edit in place | reads apart, emails that fail, overlap with publication; answers for a week already left | the snapshot is what people were told; the screen is what is stored | `SchedulePublication`, `WeekGrid`, `ShiftRows` |
| Due reminders (`notifications/due-reminders*`) | notifications with dedupe keys | daily sweep, at start-up too | several processes, restarts, missed days | each reminder once | `DueReminders` |
| Notifications (`notifications/notifications.*`, `useNotifications.ts`) | notifications; the list in the browser | create, list, count, mark, push; load, page, poll, fold in | pushes, polls and pages cross | no row twice, the count catches up | `NotificationFeed`; announcing in `BankWebhook` |
| Sessions and reset (`auth/auth.service.ts`, `password-reset.service.ts`, `profile.service.ts`) | the password, its count and lock, refresh tokens, links | sign in, refresh, log out, lock, reset, change | rotation and counting by requests at once | no guess lost, an old password is out, one successor, a link used once | `Account`, `Sessions`, `Auth` |
| Two-factor (`auth/two-factor/*`) | codes, trusted devices | mail, guess, resend, claim, trust, forget, turn on and off | guesses and resends at once | guesses bounded, a code used once | `TwoFactor`, `Auth`; on screen `CodeStep`, `SecurityPage` |
| The browser's session (`lib/api.ts`, `AuthContext.tsx`) | cookies, who is signed in | call, renew, retry, sign in and out | tabs that renew at once, lost answers | requests refused together share one renewal | `BrowserSession` |
| Transactions and finance (`transactions/*`, `FinancePage.tsx`, `OverviewPage.tsx`) | none; the period and the figures on screen | resolve a period, sum, compare, bucket | ends of months, choices faster than answers | the parts add up; figures are of the period named | `FinancePages` |
| Employees (`employees/*`, `EmployeeFormModal.tsx`) | employees | create, update, remove | vacation balance over two fields | remaining never over total | pay in `PayrollTeam`, the form in `EntryForms` |
| Companies and settings (`companies/*`) | companies | create, payday, names, close | a payday changed during a run | see payroll run | payday in `PayrollRun`, the form in `EntryForms` |
| Mail (`mail/*`) | none | send one, send all | one bad address | the rest go out | `Email` of `SchedulePublication` |
| Audit, rate limit, configuration | lines, counters | append, count | none that another component relies on | – | not modelled |

Interactions: the payroll run calls the bank; the bank calls the webhook; the
webhook writes `payroll_runs`, the movements and the balance, and notifies;
invoices move the same balances; the schedule reads employees and sends mail; the
payday setting is read by the run, the webhook and the reminders, each at its own
moment; the sweep writes through the notifications, whose pushes reach the browser
and make its payroll page read the run again. `PROJECT.json` lists the components,
and under "hazards" what can go wrong at which line and which property watches it.

## 2. The modules

An action is the code from one `await` to the next, with its guards and early
returns. A request in progress is a record in a slot (`calls[h]`, `deliveries[d]`,
`plans[m]`, `publications[p]`, `requests[r]`, `sweeps[s]`) whose `pc` or `at` says
where it is and whose other fields are what it has read so far: state read before
an await and used after it is there as a field, so it may be stale in the model
exactly where it may be in the code. A handler that throws, times out or dies with
its process returns its slot to idle (`Abandon`, `Lost`, `Die`).

- **PayrollCalendar** – dates as months and days; `DaysInMonth`, `PaydayIn`
  (a payday past the end of a month is pulled back), `NextPayday`,
  `PayrollPeriodFor`, `ReminderDue`. Operators and functions only, shared by
  the two modules below.
- **PayrollWindow** – one company's calendar as midnights pass.
- **NetSalary**, **PayrollTeam** – gross to net in integers of deni with
  rounding half up, who is on a period's payroll, the payments of a run, and
  the actions that change the team.
- **PayrollLedger** – the abstract specification: money moves at the bank; a
  period is filed, once, on account of money that moved.
- **PayrollRun** – preview, confirm and record as overlapping requests; the
  bank's quotes, approvals that time out here and execute there, runs started at
  the bank; the webhook that files the run; a clock and payday settings that
  change under them. `Ledger` instantiates `PayrollLedger` with the executed
  requests as the money moved and the table as what is filed.
- **BankWebhook** – deliveries over accounts: find the owned account, read the
  newest booking, write movement by movement, set the balance, announce,
  acknowledge; the bank books, delivers, gives up on attempts that may still
  run (`Unheard`), retries and replays failed events.
- **InvoiceBook** – the abstract specification of the invoices: the next number
  of the year, draft to owed to closed, a payment that moves and books its money
  in one step.
- **InvoiceDesk** – numbering with its retries, a supplier's bill checked then
  written, status changes, settlement: choose an account, then one transaction
  with a claim and a guarded decrement, then the notification; the bank reports
  balances at any moment. `Books` instantiates `InvoiceBook` with what each row
  says: sent and overdue are both owed, and a request in progress is nothing yet.
- **SchedulePublication** – templates, `setEntry` with its three checks,
  `copyPreviousWeek` with its two reads and one transaction, `publish` with its
  parallel reads, the upsert that locks, and one email at a time that arrives
  or fails; unlock; employees whose status changes or who are removed.
- **Account**, **Sessions**, **TwoFactor**, **Auth** – one account: its rows and
  the slots of requests in progress (`Account`); passwords and their lock, the
  rotation of refresh tokens, links, the profile's password (`Sessions`); codes,
  guesses, resends, claims and trusted devices (`TwoFactor`); all of them
  together, with requests that may end anywhere and deadlines that may pass at
  any moment (`Auth`). `history` keeps what the properties are about and the
  code does not store. `late` marks the sessions and devices of requests and
  challenges that a password change overtook.
- **NotificationFeed** – one member's table, the push, and the browser's list
  and count under loads, further pages, polls, pushes, marks and drops.
- **DueReminders** – the sweep of several processes over the days of
  `PayrollWindow`, writing through `NotificationFeed`: the read of what falls
  due, the keys, a row at a time, restarts and half-finished sweeps.

The pages. A page's state is what React holds; a request in flight is a record
that carries what it was sent with; its handler on the server is one step, which
the modules above take apart. Requests and answers may be lost, a bounded number
of times, and the person may do anything the page allows in between.

- **WeekGrid** – the schedule of one manager: the week named, the week shown, the
  picker, and the actions that reload or show their own answer.
- **ShiftRows** – shifts edited in place: a timer and a chain of saves per row,
  ids that arrive with the first save, removals that wait for the chain.
- **FinancePages** – periods, comparison windows and buckets over real months
  (`ResolvePeriod`, `TrendWindow`, `BucketOf`), sums, shares and percentages, and
  the two pages that ask for them.
- **BrowserSession** – the cookies and tabs of one browser: a refused request
  renews the session, once for all that were refused with it, and is sent again.
- **CodeStep** – the sign-in dialog and the boxes of the code, with resends,
  "back", and answers for a challenge already left.
- **SecurityPage** – two-factor on and off in dialogs, codes mailed and mailed
  again, used up and expired, the list of devices.
- **PayDialog** – the payroll button, the dialog that prices and pays, and the
  reloads a notification starts.
- **EntryForms** – seven forms (an account and its company, a further company,
  an employee hired or edited, a bank account, an invoice, a supplier's bill) as
  one: typed into, priced while typing, submitted in one or two requests,
  closed and opened again; and the list behind the form.
- **DetailPages** – the page of one invoice or bank account, which stays mounted
  when a notification leads to another: loads of both in flight, the two reads of
  an account, the two steps of a change of status, changes made by others.

Each `MC…` module gives the constants of its module small values. `MCPages`
chooses one of ten scenes at the start (the team's payroll or one page) and
leaves the variables of the others out of use: the scenes share no state, and one
run explores each of them to the end.

The proofs are in modules of their own, `…Proofs`, over the component they are
about. `NoticeProofs` is about two, the publication of a week and the reminders.
`PagesProofs` extends `MCPages`, whose specification holds the scenes: it has the
team, the rows, the dialog that pays, the browser and the figures, and puts the
scenes together; the other five pages are in `ScreensProofs`.
**DataInduction** has what the proofs need of data and no library lemma gives:
induction over a named set of numbers, the members of a finite set counted off
in their order, what a sum over a finite set is, how it changes and how it
splits by a key, and the calendar's day numbers. The modules that are proved
about have no recursive operator: loops are filters, sets and recursive
functions.

## 3. What the runs check

Runs marked ✗ are expected to violate their property: the code disagrees with
what the repository says (section 6).

| run | properties | bounds |
|---|---|---|
| `payroll_window` | `ReminderMatchesTheButton`, `HandsOverInItsWindow`, `RemindedExactlyOnce`, `PollCatchesUp` | every payday from the 3rd on, or none, for every day from December 2027 to January 2029: a leap February and two turns of the year; two sweeping processes on two of these days; a browser with two calls, pages of one row, two rows of its own, one failure |
| `pages` | `RunPaysGrossExactly`, `RaiseNeverCutsNet`, `ScreensSettle`, `NothingTwice` | see below |
| `payroll_run` | `FiledMeansExecuted`, `FiledAsPriced`, `ImplementsLedger` | two companies, two requests, one call and one delivery slot, the last day of one window and the first of the next, one delivery lost, rows the database may refuse |
| `payroll_run_live` | `AckedMeansFiled`, `ExecutedIsEventuallyFiled` | one company, two attempts, a payday moved between the 15th and the 20th on a day when that moves the month |
| `payroll_run_twice` ✗ | `PaidOncePerPeriod` | two calls in one window |
| `bank_webhook` | `BookedToTheNamedOwner`, `AckedMeansRecorded`, `AnnouncedAtMostOnce`, `BookedIsEventuallyRecorded` | two deliveries at once, two companies, two events on one account, one with two movements and no figure |
| `bank_webhook_serial` | `AckedMeansMirrored`, `BalanceNeverWindsBack` | one delivery at a time, three events, two accounts, two losses, replays in any order |
| `bank_webhook_rewind` ✗ | `BalanceNeverWindsBack` | two deliveries at once |
| `invoices` | `NumberedWithoutHoles`, `PaidMeansMoved`, `NeverOverdrawn`, `BalanceAddsUp`, `ClosedStaysClosed`, `ImplementsBook` | two requests, three invoices, two years, two accounts that cover one bill each, two attempts at a number |
| `schedule` | `SnapshotIsWhatTheyWereTold`, `NobodyIsToldTwice`, `RowsPointAtTemplates` | two employees, one day, one template with two contents, one manager beside one publication, two of each |
| `schedule_locked` ✗ | `LockedWeekStands` | the same, one publication |
| `auth` | `EveryGuessCounts`, `OldPasswordIsOut`, `ForksOnlyInRaces`, `UsedOnce`, `GuessesAreBounded` | two requests at once, in ten mixes of kinds that touch the same rows; two wrong passwords lock, two guesses spend a code; three sessions, two links, two challenges, one device |

The scenes of `pages`: **team** – two people, salaries to 25 deni, three tax
years whose rates round often or whose allowance lies among the salaries.
**grid** – two weeks, two requests in flight, three moves. **rows** – one shift,
three edits, its removal. **finance** – three days (a Sunday after a leap day,
New Year's Day, the last of a long month); a busy book under three choices with
two requests in flight, and, looked at once each, a book of one movement for
every day on which a period can begin or end within two years, and pairs that
compare two periods. **browser** – two tabs, two requests, three moves. **code** –
codes of two digits out of two, two challenges, two wrong guesses, two mails, six
moves. **security** – two devices, two guesses, six clicks. **pay** – two quotes,
two reloads, five moves. **forms** – two figures, two openings, two typings.
**detail** – two invoices or accounts, three moves, one change made elsewhere. In
each one request or answer is lost at most.

`ScreensSettle` says of each page that, once nothing is in flight, it shows what
the server has, and that what it says of itself is so at any moment: the week
under the header, a row marked saved, figures under the name of their period that
add up, a code's boxes and buttons, the devices, the payroll button, the totals of
an invoice, the one in the URL and its buttons. `NothingTwice` says that a shift
is created once, that requests refused together renew once, and that a month is
priced once for each opening of the dialog and paid once. Each scene's conjunct
can fail: besides the mutants of `PROJECT.json`, `Loaded_anyAnswer` (grid),
`KnownId_asDrawn` and `Remove_atOnce` (rows), `BucketOf_sunday` and
`SetPeriod_keepsFlag` (finance), `CodeRefused_keepsDigits` (code),
`TurnedOff_keepsTheList` (security), `SwitchLanguage_pricesAgain` (pay),
`ChangeArrives_noReload` and `NextStatuses_resends` (detail), put in place of the
definitions they follow the name of, make the same run fail.

Every run but those of one property also checks `TypeOK` of its module, once per
module. Why these bounds: a race needs two of a thing (two requests for a number,
two deliveries of an event, an editor and a publisher), staleness needs one
change between a read and its use, and a replay needs one event given up. Each
run has those and one more where a third could matter (three invoices compete
for numbers and money; three events, so that one lies between two). Every
property has a mutant in `PROJECT.json`, a plausible bug in the code, with which
the same run fails. Symmetry is used for safety properties only, on slots, ids
and years the module treats alike.

The bounds stop some behaviours: no more dates, events, edits. Where nothing at
all can then happen the run says `CHECK_DEADLOCK FALSE` (the calendar, the
webhook, which rests when every event is acknowledged, an account and a page on
which nothing more may be asked).

**Fairness.** `FairSpec` of `PayrollRun` and `BankWebhook` assumes that the bank
delivers what it still owes and that a delivery which does not die runs on:
Node schedules a ready continuation, and the bank retries until it is answered
200 or has spent its attempts. Nothing is assumed of owners, of the clock, of
replays or of a confirm that has started; losses are bounded (`MaxLost`),
because with every attempt lost nothing need arrive. The replay of failed events
is left to the bank's operator and is not fair. Sign-in, the feed and the pages
assume no fairness: people may stop, and answers need not come.

**What holds only under a restriction, and which.** `BalanceNeverWindsBack` and
`AckedMeansMirrored` need deliveries one at a time; `bank_webhook_rewind` shows
the former fail without. `FiledAsPriced` holds a row to the month it was priced
for only where that month had not moved by the time the bank executed the run:
priced in one window and confirmed in the next, the row is filed under the next
(section 6). `AckedMeansFiled` and `ExecutedIsEventuallyFiled` need a database
that does not refuse the row (`FilingMayFail = FALSE`), because the code swallows
that error and acknowledges. `ReminderMatchesTheButton` and `HandsOverInItsWindow`
are checked for paydays from the 3rd on (the latter is proved for all).
`SnapshotIsWhatTheyWereTold` and `NobodyIsToldTwice` need one publication of a
week at a time, and speak of everyone whose last email was neither refused nor cut
off by a crash: for those the code itself keeps no record. `OldPasswordIsOut` and
`ForksOnlyInRaces` except the requests that were already past their read when the
password changed or the token rotated (`late`, `raced`). The pages' properties
name theirs in the modules. Four of them end with the next answer that puts the
page right: `outrun` (the grid: an action ended for a week already left, across a
load or without its answer), `docLate` and `strayed` (one invoice or account: the
answer on screen came after a newer load was sent; the newest load is that of a
change made on another page), `overtaken` (the payroll button: an answer from
before the payment came in after it); likewise `failedSince` (the figures' newest
load failed), `behind` (a list's older answer came last), `told` (an invoice
changed and nobody said so) and `swapped` (the code step shows the challenge of a
resend that an earlier step had asked for). The others last: `missed` (the
server's word on a code was lost), `outpaced` (two-factor was turned off while the
devices were being read, or an answer was lost), `crossed` and `unheard` (a
renewal beside another tab's, a login or a logout, or a lost answer), `doubts` and
`unsaved` (a save not heard of, or stopped by closing), `escaped` and `elsewhere`
(a dialog closed under its request, a month paid elsewhere) and `uncertain`
(stored and not heard of). Each is history, set at the moment it speaks of;
section 6 says what the user sees then.

## 4. What is proved

`PayrollRunProofs`, `BankWebhookProofs`, `InvoiceDeskProofs`,
`NoticeProofs`, `AuthProofs`, `ScreensProofs` and `PagesProofs`
prove theorems and lemmas for every value of the constants that meets the module's
`…Assumption`, so for any number of companies, requests, slots, invoices,
employees, days or tabs; `DataInduction` has their lemmas about numbers and sums.
What a theorem assumes besides stands in its statement. Each proof rests on an
inductive invariant (`IInv` unless named otherwise), types included, strengthened
by what a request in progress may rely on; TLC checked each on a small instance
first.

- **NetSalary, PayrollTeam.** `NetNeverFalls`: for any rates and allowance a
  higher gross never has a lower net. A percentage rounded half up grows with its
  amount, and by no more than the amount (`PercentGap`); contributions, allowance
  and tax each keep that. `RaisesPay` follows. `RunsMoveTheGross`: for a finite
  team, any period and any rates, a run's payments add up to the gross of everyone
  on the payroll. Each person's net, contributions and tax add up to their gross,
  and a sum of sums is the sum (`SumPlus`); a charge of nothing is left out of the
  transfer and out of the sum. `RunsPayExactly` adds that every payment sent is
  more than nothing, for rates under one half each: with more, a small salary may
  round to a net of 0, which the code would send. The rates of the program are 10
  % and 28 %.
- **PayrollRun.** `IInv` adds what each step of a call leaves to the next
  (`CallsKnowTheirRequest`: a request marked executed is executed, and of the
  call's company), what the bank knows, and that it owes, delivers and is
  acknowledged only events of executed runs (`EventsAreOwed`). From it:
  `FiledRowsAreExecuted`, `FiledRowsAreUnique`, and `LedgerImplemented`, the step
  simulation of `PayrollLedger` (a bank execution is `Move`, a filed row is
  `File`, everything else stutters). `AcknowledgedRunsAreOnFile` assumes
  `FilingMayFail = FALSE`, as above; it needs that a delivery about to
  acknowledge has left a mark. `DInv` dates what every call, quote and row says:
  a row's month was on the table, under some payday setting, no later than the
  bank executed its request. From it `LateFilingKeepsTheMonth`, the run's
  `FiledAsPriced` for every list of dates and settings: a run is filed for a month
  that was on the table by the time the bank executed it, and for the month it was
  priced for unless that had moved, however late the webhook comes or how often it
  is replayed.
- **BankWebhook.** `IInv` adds whose account a delivery is at, and that what it
  is about to announce is on file, unannounced and nobody else's
  (`FreshIsUnannounced`); without that, announcing once is not inductive. From
  it: `MovementsGoToTheirOwner`, `MovementsAreAnnouncedOnce`,
  `AcknowledgedEventsAreRecorded`. `SerialBalanceNeverWindsBack` assumes one
  delivery slot (`Serial`) and a bank that books in the order of its clock
  (`BookedInOrder`): the guard of `applyToAccount` is right when deliveries do
  not overlap, and the ✗ run shows it is not when they do. `SerialMirrorCatchesUp`,
  under the same two, is the other half: an acknowledged event shows in the stored
  balance, or a later one does. Its invariant `MInv` follows the newest event a
  delivery knows of (`KnowsTheNewest`) and what it has still to show (`WillShow`);
  it needs that accounts stay the company's own once an event is theirs
  (`StillOurs`).
- **InvoiceDesk.** `IInv` adds that a request creating an invoice is alone with
  its id, that the number it holds leaves none out below it, and that a change
  started from an open status. From it: `NumbersHaveNoHoles`,
  `PaidInvoicesMovedOnce`, `AccountsAreNeverOverdrawn`, `OnlyPaidIsAnnounced`,
  `ClosedInvoicesStayClosed`. `BalancesAddUp`, for a finite set of invoices: what
  was settled since the bank's last report is a sum over invoices, to which each
  step adds one of them or none (`SumChanges`), and a report takes the sum back
  to nothing. `BookImplemented` is the step simulation of `InvoiceBook`: it adds
  that the transition a request is about to make was allowed from the status it
  carries (`TransitionsAllowed`), so that nothing is paid unsent, and that a number
  nobody has with none left out below is the next one (`NumbersBelow`).
- **SchedulePublication** (`NoticeProofs`). `Typing` and `NoRowDangles` hold for
  any number of managers and publishers. `TheSnapshotIsWhatWasTold` and
  `UpdatesSayNews` assume `OnePublication`; the invariant `SInv` says that a
  publication in progress compares with the row it will replace, mails what is on
  it, and that whomever it has seen is gone since or knows that row – statuses
  change and people are removed between its reads and its emails.
- **Auth.** For any number of requests, mixes, guesses and rows. `IInv` adds what
  a request may rely on after its reads (`RequestsOK`: the token it is rotating
  was live when read, the password it carries is the one its sign-in began with or
  it is marked late, the link or challenge it works on exists) and what each table
  keeps (`SessionsOK`, `DevicesOK`, `LinksOK`, `ChallengesOK`); without the
  requests' part none of the five properties is inductive, since each is broken by
  a request with a wrong belief one step before. From it: `NoGuessIsLost`,
  `NewPasswordEndsOldSessions`, `TokensRotate`, `SingleUse`, `GuessingIsBounded`.
- **The calendar, DueReminders, NotificationFeed** (`NoticeProofs`), for every
  payday, any stretch of days, any number of sweeping processes, calls in flight
  and rows. `DayNumberOfDate` and `NextDayFollows` show that the day number of a
  date grows by one each midnight, leap years included, and that the next payday
  is the first on or after the day. From this: `TableHandsOverInItsWindow`, for
  every payday from the 1st on, and `ReminderAndButtonAgree`, which assumes that
  settings are none or from the 3rd to the 31st: with the 1st or 2nd it fails
  (section 6). `FeedInv` says that the table has no id twice and that pages, lists
  and answers in flight are stretches of rows without repetition; merging and
  filtering keep that, by counting the kept places off (`NotAmongIs`). `DueInv`
  says that a sweep past its read holds in its queue, or has written, every
  reminder of the day it read (`NothingDropped`), and that a key names one row
  (`OneRowAKey`). From it: `EachReminderOnce`, through crossing sweeps, restarts
  and deaths half-way, `DueTyped`, and `PollsCatchUp`.
- **The pages** (`PagesProofs`, `ScreensProofs`). Three theorems of the
  specification of the scenes, from the conjunction of their invariants
  (`SceneInv`). `PagesDoNothingTwice`: the scenes rows, browser and pay do what they
  are asked once, for any number of rows, edits, tabs, calls, losses, openings and
  any finite set of quotes. `PagesTyped`: the types. `PagesSettle`: each of the nine
  pages, at rest, shows what the server has. At rest is the end of a chain: an
  answer that is still to come, or one that the next answer will bring, or a save
  that the timer has yet to send. Each invariant says which, where none of the
  exceptions named in section 3 stands:
  - *rows.* `RInv`: a row for which the server made a shift knows its id, or the
    answer with it is in the row's chain and the next save waits for it. `SInv`:
    the last save of a row carries what the row reads, the server has what was
    saved last, and a row taken out of the list is gone there, or its removal
    still has a save to wait for.
  - *browser.* `BInv`: until a refresh crosses another tab's, a login or a logout,
    there is one at a time, it carries the token in the jar, and that token is live
    or its successor is on the way; a login's token is nobody else's until its
    answer is in; and with a session in the jar some tab shows it or asks for it.
    `CallersWait`: a refresh has a caller that waits for it, and a tab has one.
  - *pay.* `PInv`: each drawing of the dialog has its one price, asked for or come,
    and while a payment is in flight no other price can come in. `QInv`: once a run
    is executed, the page shows it paid, or a notification or a load that was sent
    since is on its way.
  - *grid.* `GInv`: until an action is outrun, and again from the next load of the
    week named, the newest load is of that week, and the week shown is that one as
    the server has it, or an answer that brings it is in flight.
  - *finance.* `VInv`: the newest request is for what is chosen, is waited for, and
    the figures are its answer. That they add up is proved for any finite book: the
    bars' sums by bucket and the categories' by name are the sums of the window
    (`SumByKey`), every movement of the window has its bar, because the days of the
    months follow each other (`MonthsInOrder`), and the arrow of a change points the
    way the figure went (`ArrowsPointTheirWay`).
  - *code.* `CInv`: the dialog's challenge is the newest, its boxes are full only
    while they are checked, and a challenge passed or out of tries is shown to be, or
    its answer is coming.
  - *security.* `SecInv`: a code's number is that of a mail; the page and the server
    differ on whether two-factor is on only while the answer of the change is on its
    way (`Turned`), and on the devices only while a list is to be read again
    (`ListIsDue`). A code of an earlier mail is not the one that turns it on or off:
    the proof needs the numbers of codes, which the page's module has for it.
  - *forms.* `FInv`: a form has one submission; the totals shown are of what is
    typed, or a price is asked for; a thing is stored once for each opening, and
    what the list lacks is in an answer to come.
  - *detail.* `DInv`: the newest load is of the document of the URL, or a change's;
    the document on screen is the newest load's, or came late; it is what the server
    has, unless the page was not told.

The assumptions on the constants are those a run of the program meets. There is a
last week that can be named, and somewhere for a request to be (`GridCalls`,
`PayReloads`); the calls of a browser and the quotes of a month are finitely many;
challenges are numbered in the order they are made; a book is a finite set of
movements on days of the calendar, with amounts that are not negative, as the bank
sends them (`bank-webhook.types.ts:92`) and settlements book them; days are from
the calendar's second year on, so that there is a year before to compare with;
there is a tax year. What a theorem assumes beyond its module's assumption is in
its statement: a finite team or finitely many invoices where it sums over them,
rates under one half (`RunsPayExactly`), a database that does not refuse a row
(`AcknowledgedRunsAreOnFile`), deliveries one at a time and a bank clock in order
(`Serial`, `BookedInOrder`), one publication at a time (`OnePublication`), paydays
from the 3rd on (`ReminderAndButtonAgree`).

Only model-checked: the liveness properties, since fairness and ENABLED are out of
the prover's reach. Every invariant and action property of a passing run is a
theorem. `MovesTheGross`, `FiledOnce` and `AnnouncedMeansPaid` are proved and not
run: they say less than `RunPaysGrossExactly`, and what `ImplementsLedger` and
`ImplementsBook` cover.

## 5. What is not modelled

The signature check of a webhook and the parsing of its body; prices, lines and
texts of invoices beyond a total; the sums of the week view; the in-app
notifications of a publication, which never fail the request and which nothing
else reads; what a socket carries besides a notification; the text of passwords,
codes and tokens beyond which of them are equal; the company a session is in;
rate limits; audit lines; configuration and start-up. One status, `ON_LEAVE`,
stands for every way of being away, and the days of the schedule are those from
today on, where status counts. Amounts are integers of the smallest unit: the
code's decimals carry at least twenty digits.

Of the browser: the landing page and its previews, charts, icons, menus,
translations, pages that draw one answer, and plain forms (settings, profile,
messages, the forgotten password) keep no state that a second request could find
stale. Validation in data transfer objects, migrations and the texts of emails
decide nothing that order or failure could change. A company switched while its
pages load is left out: every page is mounted anew for the next company.

Of the services: the steps inside the creation of a bank account, the closing of
a company, the vacation balance, two publications at once, and two removals of
shifts at once (`ShiftTemplatesModal.tsx:243` allows one to be asked for while
another runs). They need modules or
steps of their own; the plan has them.

The bank is modelled from how the code uses it (external entries of "map"): it
executes a quote at most once, may execute one after the caller has timed out,
may start runs of its own, and delivers an event until it is answered or its
attempts are spent, replaying failed ones later in any order. People, clocks and
the network are external in the same way.

## 6. Where the code and its documents disagree

Shown by runs, and listed under "findings":

- `payroll_run_twice`: two quotes of one month can both be confirmed; the
  salaries leave twice and one row is filed (`payroll-run.service.ts:221`).
- `bank_webhook_rewind`: two deliveries of one account at once can leave the
  older balance (`bank-webhook.service.ts:185`).
- `schedule_locked`: an entry whose lock check passed is written after the week
  was published and its people emailed (`schedule.service.ts:273`).

Met while modelling, and left without a run of their own:

- A window cannot open two days before a payday on the 1st or 2nd: it would open
  in the month before, and only the current month's and the previous payday are
  looked at (`payroll-period.ts:8` against `:56`).
- The webhook swallows an error while filing a run and the event is acknowledged:
  the bank does not send it again (`bank-webhook.service.ts:100`, beside the retries
  it is meant to lean on).
- `confirm` computes the period when it is called, not when the quote was
  priced: a quote confirmed after the window changed, or after the payday was
  changed, files another month than its owner saw (`payroll-run.service.ts:219`;
  `bank-webhook.service.ts:76` states the intent for the webhook).
- A delivery that dies between writing movements and announcing them announces
  nothing on its retry: all are duplicates then (`bank-webhook.service.ts:34`,
  `:201`).
- The comment on reading the newest booking before writing
  (`bank-webhook.service.ts:118`) holds for one delivery at a time.
- A supplier's bill can be entered twice, by two requests at once or once with
  and once without the tax number (`invoices.service.ts:199`); `InvoiceDesk`
  states it as `BillEnteredOnce`, which the code does not have.
- Leave put in between the read and the write of `copyPreviousWeek` is
  overwritten, and two publications of one week at once both email, the later
  email possibly of the older snapshot (`schedule.service.ts:327`, `:414`).
- Two edits of one employee at once, one of each field, can leave more vacation
  days than the person has: each is checked against the other as it was read
  (`employees.service.ts:118`).

Signing in:

- A refresh in flight across a reset leaves a live session after "every session
  is signed out" (`password-reset.service.ts:79` beside `auth.service.ts:226`);
  a code of a sign-in begun with the old password is still taken; a device may
  be trusted after all were forgotten, and stays if the reset dies before that.
- Two refreshes with one token at once leave two live successors; a lost answer
  makes the next refresh present a token already used, which ends every session.
- With many guesses loaded before the lock, more than the limit are answered and
  the account may lock and mail twice, though the comment at
  `auth.service.ts:130` says otherwise; a right password read before the lock
  unlocks it.
- A resend does not stop a check of the old code that has already read it.

Reminders and the feed:

- "Tomorrow's run picks up anything today's missed"
  (`due-reminders.service.ts:71`) does not hold: a reminder is for its exact day.
  A create that fails ends its sweep; an invoice paid between the read and the
  write is still reminded of.
- A push before an older load's answer is overwritten by it until the next
  load or poll; one for a row already listed still adds one to the count; an
  older poll puts older rows on top; a further page answered after a reload
  leaves a gap (`useNotifications.ts:98`, `:132`, `:188`).
- `markRead` decides whether to tell the server by a flag set inside a state
  update that may not have run yet (`useNotifications.ts:212`): a choice of the
  model.

The pages:

- Schedule: an action in flight when its week is left reloads that week, and its
  load is then the newest, so the answer for the week named is dropped; publishing
  or unlocking shows its answer without looking: the grid may show one week under
  another's name; `lib/schedule.ts:169` says "a slower answer for last week must
  not overwrite this week's".
- Shifts: deleting or closing within the delay after typing drops the edit though
  the row says saved; a create whose answer is lost makes the next edit create a
  second shift; an edit typed while a removal's create fails brings the shift
  back on the server (`ShiftTemplatesModal.tsx:152`).
- Finance: a change is divided by the signed earlier profit, so from a loss to a
  profit is shown as a fall (`transactions.service.ts:82`); after a failed load
  of another period the tiles keep the earlier figures under the new name beside
  the error (`FinancePage.tsx:191`).
- The session: signing out after the access token has expired is answered 401 and
  never renewed, so the cookies stay and a reload is signed in again
  (`AuthContext.tsx:25`, `api.ts:22`); two tabs that renew at once, or a lost
  answer, end every session.
- The code step: "a challenge that has died - expired past resending, or out of
  tries - sends the person back to sign in" (`LoginModal.tsx:127`) holds of tries
  alone: a code past its time is mailed again on the same step, and where a
  challenge can no longer be resent the server answers that it has expired
  (`two-factor.service.ts:128`) and the step stays as it is (`:162`, `:177`). A
  resend answered after "back" opens the step of the earlier challenge again, or
  replaces the next one's; a code checked after its resend costs a guess; a check
  answered after going back signs in all the same.
- Security: a removal whose answer was lost leaves a row that the server no
  longer knows; a list read before turning off and answered after puts forgotten
  devices back; Escape closes a dialog whose buttons wait.
- Paying: Escape closes the dialog under a payment; the button is still there, a
  second opening prices a second run, and confirming it pays again
  (`payroll-run.service.ts:200`
  does not look at what is on file); a failed reload unmounts the
  dialog and pricing starts again; an older load may bring the button back.
- Forms: lists take whichever answer comes last; an answer closes whatever form
  is open by then; a registration not heard of leaves "address taken" on the
  retry; a thing stored and not heard of is stored again where it has no key; an
  invoice's old totals stay up, unmarked, while the new are on their way.
- One invoice, one account: going on to another while the first still loads leaves
  whichever answer comes last (`useInvoices.ts:124`). A change of status is of the
  invoice on screen, and ends in loading the one that was in the URL at the click
  (`InvoiceDetailPage.tsx:17`): on the way from one to the other those differ, so
  the page may keep the old status of the one, or load it over the other; an
  account loaded after an earlier one failed stays "not found". A status that
  another user changed before the click is refused with a message and no reload,
  so the buttons stay: only a change between the server's check and its write
  reloads (`InvoiceDetailPage.tsx:27`).

## 7. Plan

Done: payroll (calendar, team, run, ledger), the webhook, invoices, the schedule,
signing in with two-factor and resets, the reminders and the feed, and the pages
with several requests behind them; twelve runs, eight modules of proofs. Next:

1. **Connecting an account**: the steps of `create` (existing, link, statement,
   write, notify) instead of `Connect`, inside `BankWebhook`'s runs and proofs.
2. **Employees and closing a company**: the vacation balance over two fields
   checked from a read, and what closing leaves behind.
3. **Switching companies**: the company of a session beside the rotation of its
   token.
4. **More proofs**: that the pages refine one abstract screen (what is asked, what
   is shown, what is on its way), on the lines of `GInv`, `VInv` and `DInv`.
