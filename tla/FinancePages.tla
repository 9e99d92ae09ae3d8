----------------------------- MODULE FinancePages -----------------------------
(***************************************************************************)
(* The figures of the finance page and of the overview: the periods and    *)
(* buckets they are summed by (transactions/finance-period.ts), the sums   *)
(* (transactions.service.ts), and the two pages that ask for them          *)
(* (useFinance.ts, useOverview.ts), whose answers may come back late, out  *)
(* of order or never.  The company's movements stay as they are while a    *)
(* page is open, so an answer is named by the query it answers.            *)
(***************************************************************************)
EXTENDS PayrollCalendar, FiniteSets, FiniteSetsExt

CONSTANTS FinanceDays,   \* days a page may be opened on
          Books,         \* sets of bank movements a company may have
          CustomRanges,  \* [from, to], two dates the manager may enter
          MaxChoices,    \* bound: choices on one page
          MaxLoads       \* bound: requests in flight

\* A movement of the bank, with the half of its day it was booked in.
IsMovement(x) ==
  /\ IsDate([month |-> x.month, day |-> x.day]) /\ {x.late, x.in} \subseteq BOOLEAN
  /\ x.amount \in Nat

ASSUME FinanceAssumption ==
  /\ \A d \in FinanceDays : IsDate(d) /\ d.month >= 12
  /\ \A book \in Books : IsFiniteSet(book) /\ \A x \in book : IsMovement(x)
  /\ MaxChoices \in Nat

VARIABLES
  today,
  booked,          \* the company's movements
  openPage,        \* "finance" or "overview"
  asked,           \* period, custom range and granularity chosen
  loads,           \* requests in flight: [id, query]
  requestId,       \* number of the newest one
  figures,         \* the query of the answer on screen, or Nothing
  isLoading, isTrendLoading, hasFailed, trendOnly,
  failedSince,     \* history: a request failed since that answer
  choices

financeVars == <<today, booked, openPage, asked, loads, requestId, figures, isLoading,
                 isTrendLoading, hasFailed, trendOnly, failedSince, choices>>

NoRange == [from |-> today, to |-> today]
Nothing == [period |-> "none", range |-> NoRange, granularity |-> "none"]

Periods == {"week", "month", "quarter", "year"}
Granularities == {"7d", "30d", "3m", "1y"}

\* The periods the finance page can ask for.
PeriodChoices ==
  {[period |-> p, range |-> NoRange] : p \in Periods}
    \union {[period |-> "custom", range |-> r] : r \in CustomRanges}

OverviewPeriods == {"month", "quarter", "year"}

-----------------------------------------------------------------------------
\* Instants, in half days: a movement of a day is booked before or after the
\* time of day the page is looked at.
Midnight(n) == 2 * n
BookedAt(x) == Midnight(DayNumber(x)) + (IF x.late THEN 1 ELSE 0)
Now == Midnight(DayNumber(today)) + 1

StartOfMonth(m) == DayNumber([month |-> m, day |-> 1])

\* The Monday of day n: day 1, 1 January of year 0, is a Saturday.
StartOfWeek(n) == n - ((n + 4) % 7)

Between(from, to) == {x \in booked : from <= BookedAt(x) /\ BookedAt(x) < to}

\* resolvePeriod: from its start up to now, against the whole one before; a
\* custom one to the end of its last day, against as many days before.
ResolvePeriod(query) ==
  LET of(from, before, to) == [from |-> Midnight(from), before |-> Midnight(before), to |-> to]
      m == today.month
      monday == StartOfWeek(DayNumber(today))
      first == DayNumber(query.range.from)
      end == DayNumber(query.range.to) + 1
      span == IF end > first THEN end - first ELSE 0
  IN  CASE query.period = "week" -> of(monday, monday - 7, Now)
        [] query.period = "month" -> of(StartOfMonth(m), StartOfMonth(m - 1), Now)
        [] query.period = "quarter" ->
             of(StartOfMonth(m - (m % 3)), StartOfMonth(m - (m % 3) - 3), Now)
        [] query.period = "year" -> of(StartOfMonth(m - (m % 12)), StartOfMonth(m - (m % 12) - 12), Now)
        [] query.period = "custom" -> of(first, first - span, Midnight(end))

\* resolveTrendWindow: the starts of the buckets and the day after the last.
TrendWindow(granularity) ==
  LET n == DayNumber(today)
      monday == StartOfWeek(n)
      days(count) == [starts |-> {n - i : i \in 0..(count - 1)}, end |-> n + 1]
  IN  CASE granularity = "7d" -> days(7)
        [] granularity = "30d" -> days(30)
        [] granularity = "3m" -> [starts |-> {monday - 7 * i : i \in 0..12}, end |-> monday + 7]
        [] granularity = "1y" -> [starts |-> {StartOfMonth(today.month - i) : i \in 0..11},
                                  end |-> StartOfMonth(today.month + 1)]

\* getDay() with Sunday taken for the first day of the week.
BucketOf_sunday(x, granularity) ==
  CASE granularity \in {"7d", "30d"} -> DayNumber(x)
    [] granularity = "3m" -> DayNumber(x) - ((DayNumber(x) + 5) % 7)
    [] granularity = "1y" -> StartOfMonth(x.month)

\* bucketKey
BucketOf(x, granularity) ==
  CASE granularity \in {"7d", "30d"} -> DayNumber(x)
    [] granularity = "3m" -> StartOfWeek(DayNumber(x))
    [] granularity = "1y" -> StartOfMonth(x.month)

-----------------------------------------------------------------------------
\* sumDirections
Income(entries) == SumFunction([x \in entries |-> IF x.in THEN x.amount ELSE 0])
Expenses(entries) == SumFunction([x \in entries |-> IF x.in THEN 0 ELSE x.amount])
Profit(entries) == Income(entries) - Expenses(entries)

\* a / b in units of 1 / scale, halves away from zero; nothing when b is zero.
Abs(a) == IF a < 0 THEN -a ELSE a
Rounded(a, b, scale) ==
  IF b = 0 THEN {}
  ELSE LET size == (2 * scale * Abs(a) + Abs(b)) \div (2 * Abs(b))
       IN  {IF a < 0 <=> b < 0 THEN size ELSE -size}

\* percentChange and savingsRate, in tenths of a percent.
PercentChange(current, previous) == Rounded(current - previous, previous, 1000)
SavingsRate(entries) == Rounded(Profit(entries), Income(entries), 1000)

SpendingByCategory(entries) ==
  LET spent(c) == Expenses({x \in entries : x.category = c}) IN
  {[category |-> c, amount |-> spent(c), percent |-> Rounded(spent(c), Expenses(entries), 100)] :
     c \in {x.category : x \in {y \in entries : ~y.in}}}

Summary(query) ==
  LET p == ResolvePeriod(query)
      current == Between(p.from, p.to)
      previous == Between(p.before, p.from)
  IN  [income |-> Income(current), expenses |-> Expenses(current), profit |-> Profit(current),
       savingsRate |-> SavingsRate(current),
       deltas |-> [income |-> PercentChange(Income(current), Income(previous)),
                   expenses |-> PercentChange(Expenses(current), Expenses(previous)),
                   profit |-> PercentChange(Profit(current), Profit(previous)),
                   savingsRatePoints |-> {a - b : a \in SavingsRate(current),
                                                  b \in SavingsRate(previous)}],
       categories |-> SpendingByCategory(current),
       hasData |-> current # {}]

Trend(granularity) ==
  LET window == TrendWindow(granularity)
      first == Min(window.starts)
      entries == Between(Midnight(first), Midnight(window.end))
      bucket(start) == {x \in entries : BucketOf(x, granularity) = start}
  IN  [points |-> [start \in window.starts |->
                     [income |-> Income(bucket(start)), expense |-> Expenses(bucket(start))]],
       hasData |-> entries # {}]

\* The overview's twelve months, by the month's name and without an end.
CashFlow ==
  LET entries == {x \in booked : BookedAt(x) >= Midnight(StartOfMonth(today.month - 11))}
      of(m) == {x \in entries : x.month = m}
  IN  [m \in {today.month - i : i \in 0..11} |->
         [income |-> Income(of(m)), expense |-> Expenses(of(m))]]

-----------------------------------------------------------------------------
\* The two pages.

Choose == choices < MaxChoices /\ choices' = choices + 1

\* load: which control asked decides what is hidden until the answer.
LoadFigures(query) ==
  /\ Cardinality(loads) < MaxLoads
  /\ requestId' = requestId + 1
  /\ loads' = loads \union {[id |-> requestId', query |-> query]}
  /\ IF trendOnly' THEN isTrendLoading' = TRUE /\ UNCHANGED isLoading
                   ELSE isLoading' = TRUE /\ UNCHANGED isTrendLoading
  /\ hasFailed' = FALSE

Settled == UNCHANGED <<loads, requestId, isLoading, isTrendLoading, hasFailed>>

\* What is chosen again loads nothing.
Ask(query) ==
  /\ asked' = query
  /\ IF query # asked THEN LoadFigures(query) ELSE Settled
  /\ UNCHANGED <<today, booked, openPage, figures, failedSince>>

\* The flag left as the last control set it.
SetPeriod_keepsFlag(p) ==
  /\ Choose /\ p \in IF openPage = "finance" THEN Periods ELSE OverviewPeriods
  /\ UNCHANGED trendOnly
  /\ Ask([asked EXCEPT !.period = p, !.range = NoRange])

SetPeriod(p) ==
  /\ Choose /\ p \in IF openPage = "finance" THEN Periods ELSE OverviewPeriods
  /\ trendOnly' = FALSE
  /\ Ask([asked EXCEPT !.period = p, !.range = NoRange])

\* The menu's two dates; the button waits for both.
SetCustomRange(range) ==
  /\ Choose /\ openPage = "finance"
  /\ trendOnly' = FALSE
  /\ Ask([asked EXCEPT !.period = "custom", !.range = range])

SetGranularity(g) ==
  /\ Choose /\ openPage = "finance"
  /\ trendOnly' = TRUE
  /\ Ask([asked EXCEPT !.granularity = g])

\* "Try again", on the card that says the load failed.
Retry ==
  /\ Choose /\ openPage = "finance" /\ hasFailed
  /\ UNCHANGED <<asked, trendOnly>>
  /\ LoadFigures(asked)
  /\ UNCHANGED <<today, booked, openPage, figures, failedSince>>

\* Only the newest request is heard.  The overview falls back to nothing when it
\* fails, the finance page says so and keeps what it had.
FiguresArrive(load, ok) ==
  /\ load \in loads /\ loads' = loads \ {load}
  /\ IF load.id # requestId
     THEN UNCHANGED <<figures, isLoading, isTrendLoading, hasFailed, trendOnly,
                      failedSince>>
     ELSE /\ figures' = IF ok THEN load.query
                        ELSE IF openPage = "overview" THEN Nothing ELSE figures
          /\ isLoading' = FALSE /\ isTrendLoading' = FALSE /\ trendOnly' = FALSE
          /\ hasFailed' = ~ok
          /\ failedSince' = ~ok
  /\ UNCHANGED <<today, booked, openPage, asked, requestId, choices>>

\* The finance page's tiles, and its chart: the figures on screen, behind no
\* skeleton.
TilesShown == openPage = "finance" /\ ~isLoading
ChartShown == TilesShown /\ ~isTrendLoading

\* What the donut says is the whole.
CategoryTotal(categories) == SumFunction([c \in categories |-> c.amount])

FinanceInit ==
  /\ today \in FinanceDays
  /\ booked \in Books
  /\ openPage \in {"finance", "overview"}
  /\ asked = [period |-> "month", range |-> NoRange, granularity |-> "30d"]
  /\ requestId = 1 /\ loads = {[id |-> 1, query |-> asked]}
  /\ figures = Nothing /\ isLoading = TRUE /\ isTrendLoading = FALSE
  /\ hasFailed = FALSE /\ trendOnly = FALSE /\ failedSince = FALSE
  /\ choices \in {0, MaxChoices}

FinanceNext ==
  \/ \E p \in Periods : SetPeriod(p)
  \/ \E range \in CustomRanges : SetCustomRange(range)
  \/ \E g \in Granularities : SetGranularity(g)
  \/ Retry
  \/ \E load \in loads, ok \in BOOLEAN : FiguresArrive(load, ok)

-----------------------------------------------------------------------------
FinanceTypeOK ==
  /\ asked.period \in Periods \union {"custom"} /\ asked.granularity \in Granularities
  /\ \A load \in loads : load.id \in 1..requestId
  /\ choices \in 0..MaxChoices

\* The tiles are shown whenever the period is not loading: they are then the
\* figures of the period named above them, "a slower earlier request must not
\* overwrite a newer answer" (useFinance.ts:79), and the chart that of the pill
\* pressed.  Not so after a request failed: see the README.
FiguresSettle ==
  /\ ~failedSince =>
       /\ TilesShown => figures.period = asked.period /\ figures.range = asked.range
       /\ ChartShown => figures = asked
  /\ loads = {} /\ ~failedSince => figures = asked

\* Whatever is asked for: every movement of the chart's window is in a bucket it
\* draws, the overview's months draw what the yearly chart draws, the categories
\* are all of the spending, and a tile's arrow points the way its figure went.
FiguresAddUp ==
  figures # Nothing /\ requestId = 1 =>
    /\ \A g \in Granularities :
         LET window == TrendWindow(g)
             points == Trend(g).points
             inWindow == {x \in booked : Min(window.starts) <= DayNumber(x)
                                          /\ DayNumber(x) < window.end}
         IN  /\ SumFunction([k \in DOMAIN points |-> points[k].income]) = Income(inWindow)
             /\ SumFunction([k \in DOMAIN points |-> points[k].expense]) = Expenses(inWindow)
    /\ \A m \in DOMAIN CashFlow : CashFlow[m] = Trend("1y").points[StartOfMonth(m)]
    /\ \A query \in PeriodChoices :
         LET s == Summary(query)
             p == ResolvePeriod(query)
             before == Income(Between(p.before, p.from))
         IN  /\ CategoryTotal(s.categories) = s.expenses
             /\ \A change \in s.deltas.income :
                  /\ s.income > before => change >= 0
                  /\ s.income < before => change <= 0
=============================================================================
