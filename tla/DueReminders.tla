----------------------------- MODULE DueReminders -----------------------------
(***************************************************************************)
(* The daily sweep for what is about to fall due (due-reminders.service.ts,*)
(* due-reminders.ts) over the calendar of PayrollWindow, writing through   *)
(* NotificationFeed.  A sweep runs at seven, at start-up and when asked,   *)
(* in any process, and may stop at any await; a day may pass without one.  *)
(***************************************************************************)
EXTENDS PayrollWindow, NotificationFeed

CONSTANTS Sweepers,       \* processes that sweep
          InvoiceDue,     \* the due date of an unpaid invoice
          InstalmentDue,  \* and of a loan's next instalment
          Scenes          \* bound: stretches of calendar, and who acts in them

ASSUME DueAssumption ==
  /\ IsDate(InvoiceDue) /\ IsDate(InstalmentDue)
  /\ \A s \in Scenes : /\ IsDate(s.first) /\ IsDate(s.last)
                       /\ s.settings \subseteq Settings
                       /\ {s.sweeping, s.watching} \subseteq BOOLEAN

VARIABLES
  scene,   \* the stretch this behaviour is in
  open,    \* what is still unpaid, and whether anybody is on the payroll
  sweeps,  \* each process's sweep
  unwritten   \* history: reminders a sweep that ran to its end left unwritten

dueVars == <<scene, open, sweeps, unwritten>>
allVars == <<today, payday, scene, open, sweeps, unwritten, rows, live, socket, pushed,
             screen, calls, clicks, failed>>

NoSweep == [at |-> "idle", now |-> FirstDay, saw |-> {}, queue |-> <<>>]

-----------------------------------------------------------------------------
\* due-reminders.ts

ReminderHorizonDays == 3

\* The dates worth reading: from today to the furthest reminder.
InHorizon(due, now) == DaysUntil(due, now) \in 0..ReminderHorizonDays

\* reminderDedupeKey: what it is about, when it falls due, how far out.
Key(candidate, now) ==
  [of |-> candidate.of, due |-> candidate.due, away |-> DaysUntil(candidate.due, now)]

\* collectDueReminders: those on one of the day's reminder days, with their keys.
CollectDueReminders(candidates, now) ==
  LET due == Kept(candidates, {i \in DOMAIN candidates : ReminderDue(candidates[i].due, now)})
  IN  [i \in DOMAIN due |-> Key(due[i], now)]

One(of, due) == <<[of |-> of, due |-> due]>>

-----------------------------------------------------------------------------
\* DueRemindersService.run: three reads, then a row at a time.

\* new Date(), and the query for invoices neither paid nor cancelled.
Start(s) ==
  /\ scene.sweeping /\ sweeps[s].at = "idle"
  /\ sweeps' = [sweeps EXCEPT ![s] = [NoSweep EXCEPT !.at = "rest", !.now = today,
                                        !.saw = open \intersect {"invoice"}]]
  /\ UNCHANGED <<today, payday, scene, open, unwritten, feedVars>>

Candidates(saw, now) ==
  LET Falling(of, due) == IF InHorizon(due, now) THEN One(of, due) ELSE <<>>
  IN  (IF "invoice" \in saw THEN Falling("invoice", InvoiceDue) ELSE <<>>)
        \o Falling("creditLine", InstalmentDue)
        \o (IF "team" \in saw /\ payday # NoPayday
            THEN One("company", NextPayday(payday, now)) ELSE <<>>)

\* The instalments, whose dates nothing moves; the paydays of companies that
\* chose one and have somebody active; and what the day makes of them all.
Collect(s) ==
  LET saw == sweeps[s].saw \union (open \intersect {"team"}) IN
  /\ sweeps[s].at = "rest"
  /\ sweeps' = [sweeps EXCEPT ![s].at = "write", ![s].saw = saw,
       ![s].queue = CollectDueReminders(Candidates(saw, sweeps[s].now), sweeps[s].now)]
  /\ UNCHANGED <<today, payday, scene, open, unwritten, feedVars>>

\* The batch given up at the first row already there.
WriteNext_stopsAtTheFirst(s) ==
  LET sweep == sweeps[s] IN
  /\ sweep.at = "write" /\ sweep.queue # <<>>
  /\ Create(Head(sweep.queue))
  /\ sweeps' = [sweeps EXCEPT ![s].queue = IF Written(Head(sweep.queue)) THEN <<>> ELSE Tail(@)]
  /\ UNCHANGED <<today, payday, scene, open, unwritten, live, socket, screen, calls, clicks, failed>>

\* createMany: one create at a time; a row already there is passed over.
WriteNext(s) ==
  LET sweep == sweeps[s] IN
  /\ sweep.at = "write" /\ sweep.queue # <<>>
  /\ Create(Head(sweep.queue))
  /\ sweeps' = [sweeps EXCEPT ![s].queue = Tail(@)]
  /\ UNCHANGED <<today, payday, scene, open, unwritten, live, socket, screen, calls, clicks, failed>>

\* What had to be reminded of on a day, said by the calendar itself.
Falls(of, due, now) ==
  {[of |-> of, due |-> due, away |-> n] :
     n \in {m \in REMINDER_OFFSET_DAYS : DayNumber(due) = DayNumber(now) + m}}

Owed(now, saw) ==
  (IF "invoice" \in saw THEN Falls("invoice", InvoiceDue, now) ELSE {})
    \union Falls("creditLine", InstalmentDue, now)
    \union (IF "team" \in saw /\ payday # NoPayday
            THEN Falls("company", PaydayAfter(now), now) ELSE {})

Finish(s) ==
  LET sweep == sweeps[s] IN
  /\ sweep.at = "write" /\ sweep.queue = <<>>
  /\ unwritten' = unwritten \union {key \in Owed(sweep.now, sweep.saw) : ~Written(key)}
  /\ sweeps' = [sweeps EXCEPT ![s] = NoSweep]
  /\ UNCHANGED <<today, payday, scene, open, feedVars>>

\* A query that fails, logged by runDaily, or the process stopping.
Abort(s) ==
  /\ sweeps[s].at # "idle"
  /\ sweeps' = [sweeps EXCEPT ![s] = NoSweep]
  /\ UNCHANGED <<today, payday, scene, open, unwritten, feedVars>>

-----------------------------------------------------------------------------
\* Around it.

\* The invoice is paid or cancelled; the last active employee leaves.
Close ==
  /\ scene.sweeping
  /\ \E x \in open : open' = open \ {x}
  /\ UNCHANGED <<today, payday, scene, sweeps, unwritten, feedVars>>

\* A movement booked, a week published: a row no key guards.
Announce ==
  /\ scene.watching /\ Len(rows) < MaxRows /\ Create(NoKey)
  /\ UNCHANGED <<today, payday, dueVars, live, socket, screen, calls, clicks, failed>>

\* Bound: a sweep outlives at most one midnight.
DayPasses ==
  /\ today # scene.last /\ Midnight
  /\ \A s \in Sweepers : sweeps[s].at = "idle" \/ sweeps[s].now = today
  /\ UNCHANGED <<dueVars, feedVars>>

Watch == scene.watching /\ FeedNext /\ UNCHANGED <<today, payday, dueVars>>

DueInit ==
  /\ scene \in Scenes /\ today = scene.first /\ payday \in scene.settings
  /\ open = {"invoice", "team"} /\ unwritten = {}
  /\ sweeps = [s \in Sweepers |-> NoSweep]
  /\ FeedInit /\ (~scene.watching => ~live)

Sweep(s) == \/ Start(s) \/ Collect(s) \/ WriteNext(s) \/ Finish(s) \/ Abort(s)

DueNext == DayPasses \/ Close \/ Announce \/ Watch \/ \E s \in Sweepers : Sweep(s)

DueSpec == DueInit /\ [][DueNext]_allVars

-----------------------------------------------------------------------------
DueTypeOK ==
  /\ WindowTypeOK /\ FeedTypeOK
  /\ scene \in Scenes /\ open \subseteq {"invoice", "team"}
  /\ \A s \in Sweepers :
       /\ sweeps[s].at \in {"idle", "rest", "write"}
       /\ IsDate(sweeps[s].now) /\ sweeps[s].saw \subseteq {"invoice", "team"}

\* However many processes sweep, start again or die half-way, one sweep that
\* runs to its end leaves every reminder of its day written, and none is ever
\* written twice ("running the job twice writes nothing the second time",
\* due-reminders.service.ts:24) or, pushed, paged and loaded again, listed twice
\* on the screen.
RemindedExactlyOnce ==
  /\ unwritten = {}
  /\ \A i, j \in DOMAIN rows : rows[i].key = rows[j].key /\ rows[i].key # NoKey => i = j
  /\ NoRowTwice
=============================================================================
