-------------------------------- MODULE MCPages --------------------------------
(* One scene a behaviour: a company's payroll, or one page of the browser. The  *)
(* variables of the other scenes are out of use and do not move.                *)
EXTENDS PayrollTeam, WeekGrid, ShiftRows, FinancePages, BrowserSession, CodeStep,
        SecurityPage, PayDialog, EntryForms, DetailPages, TLC

CONSTANTS ana, boris, Off

VARIABLE scene

MCPeople == {ana, boris}
MCSymmetry == Permutations(MCPeople)

\* The 2026 rates with an allowance the salaries cross, and two sets of rates
\* that round on nearly every salary.
MCTaxYears ==
  {[personalAllowanceMonthly |-> 12, incomeTaxRate |-> 1000, contributionsRate |-> 2800],
   [personalAllowanceMonthly |-> 0,  incomeTaxRate |-> 3333, contributionsRate |-> 4999],
   [personalAllowanceMonthly |-> 7,  incomeTaxRate |-> 4999, contributionsRate |-> 1]}

-----------------------------------------------------------------------------
\* Three days the pages are opened on: a Sunday after a leap day, New Year's
\* Day, the last day of a long month.
Day(y, m, d) == [month |-> 12 * y + m - 1, day |-> d]
MCFinanceDays == {Day(2024, 3, 3), Day(2024, 1, 1), Day(2023, 5, 31)}

Movement(date, late, in, amount, c) ==
  [month |-> date.month, day |-> date.day, late |-> late, in |-> in,
   amount |-> amount, category |-> c]

\* A busy book; every book of one movement in two years, on the days where a
\* period can begin or end; and pairs of movements that compare two periods.
BusyBook ==
  {Movement(Day(2024, 3, 3), TRUE, TRUE, 3, "a"), Movement(Day(2024, 2, 29), FALSE, FALSE, 2, "a"),
   Movement(Day(2023, 12, 4), FALSE, FALSE, 1, "b"), Movement(Day(2023, 12, 31), TRUE, TRUE, 2, "a"),
   Movement(Day(2023, 4, 1), FALSE, TRUE, 1, "b")}

LoneBooks ==
  {{Movement(d, late, late, 1, "a")} : late \in BOOLEAN, d \in
     {x \in [month : (12 * 2022 + 3)..(12 * 2024 + 2), day : 1..31] :
        x.day <= DaysInMonth(x.month) /\ (x.month % 3 = 0 \/ x.day \in {1, 2} \union 28..31)}}

PairBooks ==
  {{Movement(Day(2024, 3, 3), FALSE, TRUE, 3, "a"), Movement(d, FALSE, in, amount, c)} :
     d \in {Day(2024, 3, 3), Day(2024, 2, 29), Day(2024, 1, 31), Day(2023, 12, 31), Day(2023, 3, 2)},
     in \in BOOLEAN, amount \in {1, 4}, c \in {"a", "b"}}

MCBooks == {BusyBook} \union LoneBooks \union PairBooks

MCRanges == {[from |-> Day(2024, 2, 28), to |-> Day(2024, 3, 1)],
             [from |-> Day(2024, 3, 1), to |-> Day(2023, 12, 1)]}

\* The manager chooses over the busy book; the other books are looked at once.
FinanceScene ==
  FinanceInit /\ IF booked = BusyBook /\ today = Day(2024, 3, 3) THEN TRUE
                 ELSE choices = MaxChoices /\ openPage = "finance"

-----------------------------------------------------------------------------
NoTeam == team = [e \in People |-> Absent] /\ period = 1
            /\ parameters = (CHOOSE p \in TaxYears : TRUE)
NoGrid == planned = Off /\ named = Off /\ grid = Off /\ newest = Off /\ requests = Off
            /\ gridError = Off /\ outrun = Off /\ moves = Off /\ gridLost = Off
NoRows == rows = Off /\ drawn = Off /\ timers = Off /\ chains = Off /\ saves = Off
            /\ savedIds = Off /\ removals = Off /\ shifts = Off /\ made = Off /\ doubts = Off
            /\ unsaved = Off /\ shut = Off /\ edits = Off /\ rowLost = Off
NoFinance == today = Off /\ booked = Off /\ openPage = Off /\ asked = Off /\ loads = Off
               /\ requestId = Off /\ figures = Off /\ isLoading = Off /\ isTrendLoading = Off
               /\ hasFailed = Off /\ trendOnly = Off /\ failedSince = Off /\ choices = Off
NoBrowser == live = Off /\ issued = Off /\ jar = Off /\ calls = Off /\ renewals = Off
               /\ screen = Off /\ alarmed = Off /\ crossed = Off /\ unheard = Off
               /\ denied = Off /\ tabMoves = Off /\ tabLost = Off
NoCodeStep == challenge = Off /\ modal = Off /\ boxes = Off /\ sent = Off /\ swapped = Off
                /\ missed = Off /\ codeMoves = Off /\ codeLost = Off
NoSecurity == account = Off /\ settings = Off /\ dialog = Off /\ inFlight = Off
                /\ outpaced = Off /\ clicks = Off /\ securityLost = Off
NoPay == runs = Off /\ shownRun = Off /\ payModal = Off /\ payCalls = Off /\ reloads = Off
           /\ news = Off /\ openings = Off /\ escaped = Off /\ elsewhere = Off
           /\ overtaken = Off /\ payMoves = Off /\ payLost = Off
NoForms == formKind = Off /\ member = Off /\ stored = Off /\ form = Off /\ formsOpened = Off
             /\ typings = Off /\ pricer = Off /\ asks = Off /\ listed = Off /\ listLoads = Off
             /\ listNewest = Off /\ pageLeft = Off /\ created = Off /\ verified = Off
             /\ behind = Off /\ uncertain = Off /\ formLost = Off

NoDetail == detailKind = Off /\ shelf = Off /\ pastDue = Off /\ viewed = Off /\ doc = Off
              /\ notFound = Off /\ docLoading = Off /\ updating = Off /\ docError = Off
              /\ docCalls = Off /\ docSent = Off /\ told = Off /\ docLate = Off /\ strayed = Off
              /\ detailMoves = Off /\ elsewhereMoves = Off /\ docLost = Off

\* The invoices, and the accounts, are alike.
DetailScene == DetailInit /\ viewed = CHOOSE i \in Docs : TRUE

MCInit ==
  /\ scene \in {"team", "grid", "rows", "finance", "browser", "code", "security", "pay",
                "forms", "detail"}
  /\ IF scene = "team" THEN Init ELSE NoTeam
  /\ IF scene = "grid" THEN GridInit ELSE NoGrid
  /\ IF scene = "rows" THEN RowsInit ELSE NoRows
  /\ IF scene = "finance" THEN FinanceScene ELSE NoFinance
  /\ IF scene = "browser" THEN BrowserInit ELSE NoBrowser
  /\ IF scene = "code" THEN CodeInit ELSE NoCodeStep
  /\ IF scene = "security" THEN SecurityInit ELSE NoSecurity
  /\ IF scene = "pay" THEN PayInit ELSE NoPay
  /\ IF scene = "forms" THEN FormsInit ELSE NoForms
  /\ IF scene = "detail" THEN DetailScene ELSE NoDetail

TeamOnly == scene = "team" /\ Next
GridOnly == scene = "grid" /\ GridNext
RowsOnly == scene = "rows" /\ RowsNext
FinanceOnly == scene = "finance" /\ FinanceNext
BrowserOnly == scene = "browser" /\ BrowserNext
CodeOnly == scene = "code" /\ CodeNext
SecurityOnly == scene = "security" /\ SecurityNext
PayOnly == scene = "pay" /\ PayNext
FormsOnly == scene = "forms" /\ FormsNext
DetailOnly == scene = "detail" /\ DetailNext

MCNext ==
  /\ \/ TeamOnly \/ (scene # "team" /\ UNCHANGED vars)
  /\ \/ GridOnly \/ (scene # "grid" /\ UNCHANGED gridVars)
  /\ \/ RowsOnly \/ (scene # "rows" /\ UNCHANGED rowVars)
  /\ \/ FinanceOnly \/ (scene # "finance" /\ UNCHANGED financeVars)
  /\ \/ BrowserOnly \/ (scene # "browser" /\ UNCHANGED browserVars)
  /\ \/ CodeOnly \/ (scene # "code" /\ UNCHANGED codeVars)
  /\ \/ SecurityOnly \/ (scene # "security" /\ UNCHANGED securityVars)
  /\ \/ PayOnly \/ (scene # "pay" /\ UNCHANGED payVars)
  /\ \/ FormsOnly \/ (scene # "forms" /\ UNCHANGED formVars)
  /\ \/ DetailOnly \/ (scene # "detail" /\ UNCHANGED detailVars)
  /\ UNCHANGED scene

MCSpec == MCInit /\ [][MCNext]_<<scene, vars, gridVars, rowVars, financeVars, browserVars,
                                 codeVars, securityVars, payVars, formVars, detailVars>>

-----------------------------------------------------------------------------
\* Every scene keeps its types.
PagesTypeOK ==
  /\ TypeOK
  /\ scene = "grid" => GridTypeOK
  /\ scene = "rows" => RowsTypeOK
  /\ scene = "finance" => FinanceTypeOK
  /\ scene = "browser" => BrowserTypeOK
  /\ scene = "code" => CodeTypeOK
  /\ scene = "security" => SecurityTypeOK
  /\ scene = "pay" => PayTypeOK
  /\ scene = "forms" => FormsTypeOK
  /\ scene = "detail" => DetailTypeOK

\* What a page shows once it is at rest is what the server has, and what it says
\* it shows: after dialogs closed under their requests, weeks and periods changed
\* under loads, saves queued behind saves.  Each part names what it leaves out:
\* an answer lost that nothing reads again, or one that came in after a newer
\* one where the page does not tell them apart.
ScreensSettle ==
  /\ scene = "grid" => GridSettles
  /\ scene = "rows" => RowsSettle
  /\ scene = "finance" => FiguresSettle /\ FiguresAddUp
  /\ scene = "code" => CodeStepHolds
  /\ scene = "security" => SecuritySettles
  /\ scene = "pay" => PaySettles
  /\ scene = "forms" => FormsSettle
  /\ scene = "detail" => DetailSettles

\* What a page asks for once is done once: a shift created, a session renewed, a
\* month priced and paid.
NothingTwice ==
  /\ scene = "rows" => OneShiftPerRow
  /\ scene = "browser" => RenewalHolds
  /\ scene = "pay" => PricedOncePerOpening
=============================================================================
