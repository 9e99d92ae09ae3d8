SPECIFICATION DueSpec
CONSTANTS
  FirstDay <- MCFirstDay
  LastDay <- MCLastDay
  Settings <- MCMidMonth
  InvoiceDue <- MCInvoiceDue
  InstalmentDue <- MCInstalmentDue
  Scenes <- MCScenes
  Sweepers = {"p", "q"}
  Calls = {"c", "d"}
  PAGE_SIZE = 1
  MaxRows = 2
  MaxClicks = 1
  MaxFailed = 1
INVARIANTS
  DueTypeOK
  ReminderMatchesTheButton
  RemindedExactlyOnce
PROPERTIES
  HandsOverInItsWindow
  PollCatchesUp
CHECK_DEADLOCK FALSE
