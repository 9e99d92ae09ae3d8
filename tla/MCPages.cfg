SPECIFICATION MCSpec
CONSTANTS
  ana = ana
  boris = boris
  Off = Off
  People <- MCPeople
  StartingSalaries = {1, 13}
  MaxGross = 25
  Horizon = 2
  TaxYears <- MCTaxYears
  Weeks = {1, 2}
  GridCalls = {"c", "d"}
  MaxGridMoves = 3
  MaxGridLost = 1
  Keys = {"k"}
  MaxEdits = 3
  MaxRowLost = 1
  FinanceDays <- MCFinanceDays
  Books <- MCBooks
  CustomRanges <- MCRanges
  MaxChoices = 3
  MaxLoads = 2
  Tabs = {"t", "u"}
  TabCalls = {"c1", "c2"}
  MaxTabMoves = 3
  MaxTabLost = 1
  CodeLength = 2
  Digits = {1, 2}
  Challenges = {1, 2}
  MaxWrong = 2
  MaxMails = 2
  MaxCodeMoves = 6
  MaxCodeLost = 1
  Devices = {"laptop", "phone"}
  MaxTries = 2
  MaxClicks = 6
  MaxSecurityLost = 1
  Quotes = {1, 2}
  PayReloads = {"r", "s"}
  MaxPayMoves = 5
  MaxPayLost = 1
  Figures = {1, 2}
  MaxOpenings = 2
  MaxTypings = 2
  MaxFormLost = 1
  Docs = {"i", "j"}
  MaxDetailMoves = 3
  MaxElsewhere = 1
  MaxDetailLost = 1
SYMMETRY MCSymmetry
INVARIANTS
  PagesTypeOK
  RunPaysGrossExactly
  ScreensSettle
  NothingTwice
PROPERTIES
  RaiseNeverCutsNet
CHECK_DEADLOCK FALSE
