--------------------------- MODULE PayrollCalendar ---------------------------
(***************************************************************************)
(* The calendar the payroll and the reminders are computed with:           *)
(* notifications/notification-schedule.ts and payroll/payroll-period.ts.   *)
(*                                                                         *)
(* A date is a whole local day, [month |-> m, day |-> d]: m counts months, *)
(* m = 12 * year + month with January as month 0, the way a JavaScript     *)
(* Date numbers and carries them (month -1 of a year is December of the    *)
(* year before).  Everything is an operator or a constant function: no     *)
(* state, nothing recursive, so the theorems may use it.                   *)
(***************************************************************************)
EXTENDS Integers

Lesser(a, b) == IF a < b THEN a ELSE b

Year(m) == m \div 12

LeapYear(y) == y % 4 = 0 /\ (y % 100 # 0 \/ y % 400 = 0)

\* Last day of month m, as a day number.
DaysInMonth(m) ==
  IF m % 12 = 1 THEN IF LeapYear(Year(m)) THEN 29 ELSE 28
  ELSE IF m % 12 \in {3, 5, 8, 10} THEN 30 ELSE 31

Months == Nat

IsDate(d) == d \in [month : Months, day : 1..DaysInMonth(d.month)]

\* Every month given the days of the longest.
NextDay_31(d) ==
  IF d.day = 31
  THEN [month |-> d.month + 1, day |-> 1]
  ELSE [d EXCEPT !.day = @ + 1]

NextDay(d) ==
  IF d.day = DaysInMonth(d.month)
  THEN [month |-> d.month + 1, day |-> 1]
  ELSE [d EXCEPT !.day = @ + 1]

\* Days of a common year that precede each month, January first.
DaysBefore == <<0, 31, 59, 90, 120, 151, 181, 212, 243, 273, 304, 334>>

\* Days from the start of year 0 to a date: what getTime() divided by the
\* milliseconds of a day amounts to at local midnight.
DayNumber(d) ==
  LET y == Year(d.month)
      m == d.month % 12
      leapDays == IF y = 0 THEN 0
                  ELSE ((y - 1) \div 4) - ((y - 1) \div 100) + ((y - 1) \div 400) + 1
  IN  365 * y + leapDays + DaysBefore[m + 1]
        + (IF m > 1 /\ LeapYear(y) THEN 1 ELSE 0) + d.day

\* Whole calendar days from now to target, negative once the date is past.
DaysUntil(target, now) == DayNumber(target) - DayNumber(now)

-----------------------------------------------------------------------------
\* A company's payday setting: a day of the month, or none.
NoPayday == 0
PaydaySettings == {NoPayday} \union 1..31

\* The payday in month m, pulled back to the last day of a short month.
PaydayIn(m, dayOfMonth) ==
  [month |-> m, day |-> Lesser(dayOfMonth, DaysInMonth(m))]

PAYROLL_WINDOW_DAYS == 2

\* The table closed once its payday has passed.
PeriodFrom_closes(dayOfMonth, now) ==
  LET away == DaysUntil(PaydayIn(now.month, dayOfMonth), now)
  IN  IF away < 0 THEN now.month + 1
      ELSE IF away > PAYROLL_WINDOW_DAYS THEN now.month - 1 ELSE now.month

\* The window opened a day late.
PeriodFrom_late(dayOfMonth, now) ==
  IF DaysUntil(PaydayIn(now.month, dayOfMonth), now) >= PAYROLL_WINDOW_DAYS
  THEN now.month - 1
  ELSE now.month

\* The month on the table when a payday is configured: this month's once its
\* window has opened, the month before until then.
PeriodFrom(dayOfMonth, now) ==
  IF DaysUntil(PaydayIn(now.month, dayOfMonth), now) > PAYROLL_WINDOW_DAYS
  THEN now.month - 1
  ELSE now.month

PayrollPeriodFor(setting, now) ==
  IF setting = NoPayday THEN now.month ELSE PeriodFrom(setting, now)

-----------------------------------------------------------------------------
\* The next payday on or after today.
NextPayday(dayOfMonth, now) ==
  LET thisMonth == PaydayIn(now.month, dayOfMonth)
  IN  IF DaysUntil(thisMonth, now) >= 0
      THEN thisMonth
      ELSE PaydayIn(now.month + 1, dayOfMonth)

REMINDER_OFFSET_DAYS == {3, 1, 0}

\* Whether today is a reminder day for target.
ReminderDue(target, now) == DaysUntil(target, now) \in REMINDER_OFFSET_DAYS
=============================================================================
