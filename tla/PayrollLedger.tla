---------------------------- MODULE PayrollLedger ----------------------------
(***************************************************************************)
(* What the payroll component promises, without its mechanism.  Money      *)
(* moves at the bank, one request at a time; the company's books file a    *)
(* period as paid, in any order and at any later time, but only on account *)
(* of money that moved for that company, at most one row per period and at *)
(* most one row per named request, and what is on file stays on file.      *)
(***************************************************************************)

CONSTANTS Companies, Requests, Periods, None

VARIABLES moved,   \* moved[r]: the company whose salaries request r paid, or None
          filed    \* rows [company, period, request]; request None: not named

ledgerVars == <<moved, filed>>

LedgerInit == moved = [r \in Requests |-> None] /\ filed = {}

Move(r, c) ==
  /\ moved[r] = None
  /\ moved' = [moved EXCEPT ![r] = c]
  /\ UNCHANGED filed

\* The row's own request paid its company; a row that names no request still
\* needs one that did.
Backed(row) ==
  \E r \in Requests : moved[r] = row.company /\ row.request \in {r, None}

Conflicts(row, other) ==
  \/ row.company = other.company /\ row.period = other.period
  \/ row.request # None /\ row.request = other.request

File(row) ==
  /\ Backed(row)
  /\ \A other \in filed : ~Conflicts(row, other)
  /\ filed' = filed \union {row}
  /\ UNCHANGED moved

LedgerNext ==
  \/ \E r \in Requests, c \in Companies : Move(r, c)
  \/ \E row \in [company : Companies, period : Periods, request : Requests \union {None}] :
       File(row)

LedgerSpec == LedgerInit /\ [][LedgerNext]_ledgerVars
=============================================================================
