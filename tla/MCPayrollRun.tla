---------------------------- MODULE MCPayrollRun ----------------------------
(* PayrollRun on small instances.  The dates are chosen around the opening of
   a window: with a payday on the 15th the month changes hands on the 13th. *)
EXTENDS PayrollRun, TLC

CONSTANTS c1, c2, r1, r2, h1, h2, d1, d2

MCSymmetry == Permutations(Requests) \union Permutations(Companies)

April == 12 * 2026 + 3

\* One day that lies in April's window under a payday on the 15th and in March's
\* under one on the 20th.
BetweenPaydays == <<[month |-> April, day |-> 14]>>

\* Two days of one window.
SameWindow == <<[month |-> April, day |-> 5], [month |-> April, day |-> 6]>>

\* The last day of March's window and the first of April's.
AcrossWindows == <<[month |-> April, day |-> 12], [month |-> April, day |-> 13]>>
=============================================================================
