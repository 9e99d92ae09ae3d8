--------------------------- MODULE MCPayrollWindow ---------------------------
(* The calendar over fourteen months around a leap February; sweeps in its    *)
(* last days and the first of March; a browser beside one sweep.              *)
EXTENDS DueReminders

MCFirstDay == [month |-> 12 * 2027 + 11, day |-> 1]
MCLastDay  == [month |-> 12 * 2029 + 0, day |-> 31]

\* A payday late enough in the month for its window to open in the same month.
MCMidMonth == {NoPayday} \union 3..31

MCInvoiceDue    == [month |-> 12 * 2028 + 1, day |-> 29]
MCInstalmentDue == [month |-> 12 * 2028 + 2, day |-> 3]

MCScenes ==
  {[first |-> MCFirstDay, last |-> MCLastDay, settings |-> MCMidMonth,
    sweeping |-> FALSE, watching |-> FALSE],
   [first |-> [month |-> 12 * 2028 + 1, day |-> 28],
    last |-> MCInvoiceDue,
    settings |-> {31}, sweeping |-> TRUE, watching |-> FALSE],
   [first |-> MCInvoiceDue, last |-> MCInvoiceDue, settings |-> {NoPayday},
    sweeping |-> FALSE, watching |-> TRUE]}
=============================================================================
