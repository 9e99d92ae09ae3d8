---------------------------- MODULE PayrollWindow ----------------------------
(***************************************************************************)
(* One company's payroll calendar as days go by: which month the "pay      *)
(* salaries" button is about (payrollPeriodFor) and which payday the daily *)
(* reminders speak of (nextPayday).  The payday setting is fixed along a   *)
(* behaviour; PayrollRun lets it change.                                   *)
(***************************************************************************)
EXTENDS PayrollCalendar

CONSTANTS FirstDay,  \* the date a behaviour starts on
          LastDay,   \* bound: the date the clock stops on
          Settings   \* the payday settings considered

ASSUME WindowAssumption ==
  /\ IsDate(FirstDay) /\ IsDate(LastDay)
  /\ FirstDay.month > 0
  /\ Settings \subseteq PaydaySettings

VARIABLES today, payday

windowVars == <<today, payday>>

Midnight ==
  /\ DaysUntil(LastDay, today) > 0
  /\ today' = NextDay(today)
  /\ UNCHANGED payday

-----------------------------------------------------------------------------
WindowTypeOK == IsDate(today) /\ payday \in Settings

OnTheTable == PayrollPeriodFor(payday, today)

\* The period on the table moves only forward, never skips a month, and with a
\* payday configured it is handed over only while the new month's payday is at
\* most two days ahead and not yet past: an unpaid month is never dropped
\* early, and the table never closes in between.
HandsOverInItsWindow ==
  [][ OnTheTable' # OnTheTable =>
        /\ OnTheTable' = OnTheTable + 1
        /\ payday # NoPayday =>
             DaysUntil(PaydayIn(OnTheTable', payday), today')
               \in 0..PAYROLL_WINDOW_DAYS ]_windowVars

\* The days that are paydays: the chosen day, or the last of a month too short
\* to have it.
IsPayday(d) ==
  d.day = payday \/ (d.day = DaysInMonth(d.month) /\ d.day < payday)

DaysFrom(d) ==
  [month : {d.month}, day : d.day..DaysInMonth(d.month)]
    \union [month : {d.month + 1}, day : 1..DaysInMonth(d.month + 1)]

\* The first of them from a day on, looked for day by day.
PaydayAfter(now) ==
  CHOOSE d \in DaysFrom(now) :
    IsPayday(d) /\ \A e \in DaysFrom(now) : IsPayday(e) => DaysUntil(d, e) <= 0

\* The payday reminded of is the nearest one, and the button speaks of the same
\* salaries: "the window opens two days before payday" (payroll-period.ts:8), so
\* from then on its own month is on the table, and three days ahead, the first
\* reminder, still the month before, which is the one an owner can still owe.
ReminderMatchesTheButton ==
  payday # NoPayday =>
    LET next == NextPayday(payday, today)
        away == DaysUntil(next, today)
    IN  /\ next = PaydayAfter(today)
        /\ away \in 0..3 =>
             OnTheTable = IF away <= PAYROLL_WINDOW_DAYS THEN next.month ELSE next.month - 1
=============================================================================
