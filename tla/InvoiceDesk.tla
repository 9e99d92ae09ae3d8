----------------------------- MODULE InvoiceDesk -----------------------------
(***************************************************************************)
(* The invoices of one company: InvoicesService (invoices/invoices.        *)
(* service.ts) as several requests create invoices and change their        *)
(* status at once, on the tables invoices, bank_accounts and transactions. *)
(*                                                                         *)
(* Each action is the code from one await to the next; a $transaction is   *)
(* one action, which either does all it does or nothing.                   *)
(*                                                                         *)
(* Abstracted: the lines, dates and texts of an invoice; its total, VAT    *)
(* and all, is a number fixed with its id.  Accounts that are not active   *)
(* or in another currency are no candidates and are left out; the others   *)
(* are numbered by age.                                                    *)
(***************************************************************************)
EXTENDS Integers, Functions

CONSTANTS
  Clerks,      \* slots for requests in progress
  Invoices,    \* ids of invoices to come
  Total,       \* Total[i]: the total of invoice i
  Years,       \* years an invoice may be issued in
  Bills,       \* suppliers' bills
  Accounts,    \* the company's accounts in its currency, by age
  Figures,     \* balances the bank may report
  NUMBERING_ATTEMPTS,
  None

ASSUME InvoiceAssumption ==
  /\ Total \in [Invoices -> Nat]
  /\ Accounts \subseteq Nat /\ Figures \subseteq Nat
  /\ NUMBERING_ATTEMPTS \in Nat \ {0}
  /\ None \notin Years \union Bills \union Accounts \union Invoices

VARIABLES
  invoices,     \* invoices[i]: the row of invoice i
  balance,      \* balance[a]: BankAccount.balance
  transactions, \* transactions[a][i]: rows booked on account a for invoice i
  announced,    \* invoices whose settlement has been notified
  reported,     \* reported[a]: the bank's last figure, and the rows here before it
  calls         \* calls[k]: the request in progress in slot k

vars == <<invoices, balance, transactions, announced, reported, calls>>

-----------------------------------------------------------------------------
Status == {"DRAFT", "SENT", "PAID", "OVERDUE", "CANCELLED"}

\* A draft paid without having been sent.
ALLOWED_TRANSITIONS_unsent ==
  {<<"DRAFT", "SENT">>, <<"DRAFT", "PAID">>, <<"DRAFT", "CANCELLED">>, <<"SENT", "PAID">>,
   <<"SENT", "OVERDUE">>, <<"SENT", "CANCELLED">>, <<"OVERDUE", "PAID">>,
   <<"OVERDUE", "CANCELLED">>}

ALLOWED_TRANSITIONS ==
  {<<"DRAFT", "SENT">>, <<"DRAFT", "CANCELLED">>, <<"SENT", "PAID">>,
   <<"SENT", "OVERDUE">>, <<"SENT", "CANCELLED">>, <<"OVERDUE", "PAID">>,
   <<"OVERDUE", "CANCELLED">>}

NoInvoice == [status |-> "none", year |-> None, sequence |-> 0, bill |-> None, edb |-> FALSE]

\* An invoice the company issues has a year and a number in it, a supplier's
\* bill has neither; edb: whether the supplier's tax number was typed in.
Row == {NoInvoice}
  \union [status : Status, year : Years, sequence : Nat \ {0}, bill : {None}, edb : {FALSE}]
  \union [status : Status, year : {None}, sequence : {0}, bill : Bills, edb : BOOLEAN]

NoCall == [pc |-> "idle", invoice |-> None, year |-> None, sequence |-> 0, attempt |-> 0,
           bill |-> None, edb |-> FALSE, from |-> "none", to |-> "none", account |-> None]

Call == [pc : {"idle", "numbering", "retrying", "billing", "changing", "paying",
               "settling", "settled"},
         invoice : Invoices \union {None}, year : Years \union {None}, sequence : Nat,
         attempt : 0..NUMBERING_ATTEMPTS, bill : Bills \union {None}, edb : BOOLEAN,
         from : Status \union {"none"}, to : Status \union {"none"},
         account : Accounts \union {None}]

Incoming(i) == invoices[i].bill # None

\* The counters taken in a year.
Used(y) == {invoices[i].sequence : i \in {j \in Invoices : invoices[j].year = y}}

\* A fresh id: prisma.invoice.create makes one nobody has.
Fresh(i) == invoices[i] = NoInvoice /\ \A k \in Clerks : calls[k].invoice # i

Init ==
  /\ invoices = [i \in Invoices |-> NoInvoice]
  /\ balance \in [Accounts -> Figures]
  /\ transactions = [a \in Accounts |-> [i \in Invoices |-> 0]]
  /\ announced = {}
  /\ reported = [a \in Accounts |-> [figure |-> balance[a], rows |-> transactions[a]]]
  /\ calls = [k \in Clerks |-> NoCall]

Done(k) == calls' = [calls EXCEPT ![k] = NoCall]

Money == <<balance, transactions, announced, reported>>

-----------------------------------------------------------------------------
(* create, for an invoice the company issues: allocateAndCreate.           *)

Issue(k, i, y) ==
  /\ calls[k].pc = "idle" /\ Fresh(i)
  /\ calls' = [calls EXCEPT ![k] =
       [NoCall EXCEPT !.pc = "retrying", !.invoice = i, !.year = y]]
  /\ UNCHANGED <<invoices, Money>>

\* As if the counter ran on over the years.
ReadHighest_everyYear(k) ==
  /\ calls[k].pc = "retrying"
  /\ \E highest \in UNION {Used(y) : y \in Years} \union {0} :
       /\ \A y \in Years : \A n \in Used(y) : n <= highest
       /\ calls' = [calls EXCEPT ![k].pc = "numbering",
                                 ![k].sequence = highest + 1,
                                 ![k].attempt = @ + 1]
  /\ UNCHANGED <<invoices, Money>>

\* The next counter after the highest one of the year.
ReadHighest(k) ==
  /\ calls[k].pc = "retrying"
  /\ \E highest \in Used(calls[k].year) \union {0} :
       /\ \A n \in Used(calls[k].year) : n <= highest
       /\ calls' = [calls EXCEPT ![k].pc = "numbering",
                                 ![k].sequence = highest + 1,
                                 ![k].attempt = @ + 1]
  /\ UNCHANGED <<invoices, Money>>

\* The unique (company, year, sequence) lets one of two through; the other
\* reads again, or gives up after the last attempt.
WriteNumbered(k) ==
  LET call == calls[k] IN
  /\ call.pc = "numbering"
  /\ IF call.sequence \notin Used(call.year)
     THEN /\ invoices' = [invoices EXCEPT ![call.invoice] =
               [NoInvoice EXCEPT !.status = "DRAFT", !.year = call.year,
                                 !.sequence = call.sequence]]
          /\ Done(k)
     ELSE /\ IF call.attempt < NUMBERING_ATTEMPTS
             THEN calls' = [calls EXCEPT ![k].pc = "retrying"]
             ELSE Done(k)
          /\ UNCHANGED invoices
  /\ UNCHANGED Money

-----------------------------------------------------------------------------
(* create, for a supplier's bill.                                          *)

\* The bill is looked for by number and tax number, or by number and name when
\* no tax number was typed: a row without one is not found by it.
Recorded(b, withEdb) ==
  \E i \in Invoices : invoices[i].bill = b /\ (withEdb => invoices[i].edb)

CheckBill(k, i, b, withEdb) ==
  /\ calls[k].pc = "idle" /\ Fresh(i)
  /\ ~Recorded(b, withEdb)
  /\ calls' = [calls EXCEPT ![k] =
       [NoCall EXCEPT !.pc = "billing", !.invoice = i, !.bill = b, !.edb = withEdb]]
  /\ UNCHANGED <<invoices, Money>>

\* A number taken out of the company's own sequence.
WriteBill_numbered(k) ==
  LET call == calls[k] IN
  /\ call.pc = "billing"
  /\ invoices' = [invoices EXCEPT ![call.invoice] =
       [NoInvoice EXCEPT !.status = "DRAFT", !.bill = call.bill, !.edb = call.edb,
                         !.sequence = 1]]
  /\ Done(k)
  /\ UNCHANGED Money

WriteBill(k) ==
  LET call == calls[k] IN
  /\ call.pc = "billing"
  /\ invoices' = [invoices EXCEPT ![call.invoice] =
       [NoInvoice EXCEPT !.status = "DRAFT", !.bill = call.bill, !.edb = call.edb]]
  /\ Done(k)
  /\ UNCHANGED Money

-----------------------------------------------------------------------------
(* updateStatus.                                                           *)

\* The row is read; a transition that is not allowed is a 400.
ReadInvoice(k, i, to) ==
  /\ calls[k].pc = "idle"
  /\ <<invoices[i].status, to>> \in ALLOWED_TRANSITIONS
  /\ calls' = [calls EXCEPT ![k] =
       [NoCall EXCEPT !.pc = IF to = "PAID" THEN "paying" ELSE "changing",
                      !.invoice = i, !.from = invoices[i].status, !.to = to]]
  /\ UNCHANGED <<invoices, Money>>

\* Whatever the status has become.
WriteStatus_unconditional(k) ==
  LET call == calls[k] IN
  /\ call.pc = "changing"
  /\ invoices' = [invoices EXCEPT ![call.invoice].status = call.to]
  /\ Done(k)
  /\ UNCHANGED Money

\* Only from the status the transition was checked against; otherwise a 409.
WriteStatus(k) ==
  LET call == calls[k] IN
  /\ call.pc = "changing"
  /\ invoices' = [invoices EXCEPT ![call.invoice].status =
       IF @ = call.from THEN call.to ELSE @]
  /\ Done(k)
  /\ UNCHANGED Money

\* chooseSettlementAccount: the oldest account for money coming in, the oldest
\* that covers the whole amount for money going out; a 422 when there is none.
Choosable(i) ==
  {a \in Accounts : Incoming(i) => balance[a] >= Total[i]}

ChooseAccount(k) ==
  LET call == calls[k] IN
  /\ call.pc = "paying"
  /\ \/ Choosable(call.invoice) = {} /\ Done(k)
     \/ \E oldest \in Choosable(call.invoice) :
          /\ \A a \in Choosable(call.invoice) : oldest <= a
          /\ calls' = [calls EXCEPT ![k].pc = "settling", ![k].account = oldest]
  /\ UNCHANGED <<invoices, Money>>

-----------------------------------------------------------------------------
(* settle's transaction: claim the invoice, move the balance, book the row.*)

Claims(k) == invoices[calls[k].invoice].status = calls[k].from

Covers(k) == Incoming(calls[k].invoice) => balance[calls[k].account] >= Total[calls[k].invoice]

Signed(i) == IF Incoming(i) THEN -Total[i] ELSE Total[i]

MarkPaid(k) == invoices' = [invoices EXCEPT ![calls[k].invoice].status = "PAID"]

MoveBalance(k) ==
  balance' = [balance EXCEPT ![calls[k].account] = @ + Signed(calls[k].invoice)]

Book(k) ==
  transactions' = [transactions EXCEPT ![calls[k].account][calls[k].invoice] = @ + 1]

Settled(k) == calls' = [calls EXCEPT ![k].pc = "settled"]

\* The claim kept though the money does not move.
Settle_keepsTheClaim(k) ==
  /\ calls[k].pc = "settling"
  /\ IF Claims(k)
     THEN /\ MarkPaid(k) /\ Settled(k)
          /\ IF Covers(k) THEN MoveBalance(k) /\ Book(k)
                          ELSE UNCHANGED <<balance, transactions>>
     ELSE Done(k) /\ UNCHANGED <<invoices, balance, transactions>>
  /\ UNCHANGED <<announced, reported>>

\* No look at the balance when it moves.
Settle_unguarded(k) ==
  /\ calls[k].pc = "settling"
  /\ IF Claims(k)
     THEN MarkPaid(k) /\ MoveBalance(k) /\ Book(k) /\ Settled(k)
     ELSE Done(k) /\ UNCHANGED <<invoices, balance, transactions>>
  /\ UNCHANGED <<announced, reported>>

\* The balance moved ahead of the claim and left there when it fails.
Settle_movesFirst(k) ==
  /\ calls[k].pc = "settling"
  /\ IF Covers(k) THEN MoveBalance(k) ELSE UNCHANGED balance
  /\ IF Claims(k) /\ Covers(k)
     THEN MarkPaid(k) /\ Book(k) /\ Settled(k)
     ELSE Done(k) /\ UNCHANGED <<invoices, transactions>>
  /\ UNCHANGED <<announced, reported>>

\* A status that moved on, or an account that no longer covers the amount,
\* throws, and the transaction leaves nothing behind.
Settle(k) ==
  /\ calls[k].pc = "settling"
  /\ IF Claims(k) /\ Covers(k)
     THEN MarkPaid(k) /\ MoveBalance(k) /\ Book(k) /\ Settled(k)
     ELSE Done(k) /\ UNCHANGED <<invoices, balance, transactions>>
  /\ UNCHANGED <<announced, reported>>

\* The money has moved; the notification comes after the transaction.
Announce(k) ==
  /\ calls[k].pc = "settled"
  /\ announced' = announced \union {calls[k].invoice}
  /\ Done(k)
  /\ UNCHANGED <<invoices, balance, transactions, reported>>

\* A request that dies, or meets a database error, where it stands.
Die(k) ==
  /\ calls[k].pc # "idle"
  /\ Done(k)
  /\ UNCHANGED <<invoices, Money>>

\* bankAccount.update in BankWebhookService.applyToAccount: the bank's figure
\* replaces the balance, at any moment.
BankReports(a, f) ==
  /\ balance' = [balance EXCEPT ![a] = f]
  /\ reported' = [reported EXCEPT ![a] = [figure |-> f, rows |-> transactions[a]]]
  /\ UNCHANGED <<invoices, transactions, announced, calls>>

-----------------------------------------------------------------------------
Create(k) ==
  \/ \E i \in Invoices, y \in Years : Issue(k, i, y)
  \/ ReadHighest(k) \/ WriteNumbered(k)
  \/ \E i \in Invoices, b \in Bills, withEdb \in BOOLEAN : CheckBill(k, i, b, withEdb)
  \/ WriteBill(k)

UpdateStatus(k) ==
  \/ \E i \in Invoices, to \in Status : ReadInvoice(k, i, to)
  \/ WriteStatus(k) \/ ChooseAccount(k) \/ Settle(k) \/ Announce(k)

Next ==
  \/ \E k \in Clerks : Create(k) \/ UpdateStatus(k) \/ Die(k)
  \/ \E a \in Accounts, f \in Figures : BankReports(a, f)

Spec == Init /\ [][Next]_vars

-----------------------------------------------------------------------------
TypeOK ==
  /\ invoices \in [Invoices -> Row]
  /\ balance \in [Accounts -> Int]
  /\ transactions \in [Accounts -> [Invoices -> Nat]]
  /\ announced \subseteq Invoices
  /\ reported \in [Accounts -> [figure : Nat, rows : [Invoices -> Nat]]]
  /\ calls \in [Clerks -> Call]

\* No "hole in the invoices we issue, which is exactly what the tax authority
\* looks for" (create): each year's invoices are numbered 1, 2, 3 ... with no
\* number left out or used twice, however many are numbered at once.
NumberedWithoutHoles ==
  /\ \A i \in Invoices : invoices[i].year # None =>
       1..invoices[i].sequence \subseteq Used(invoices[i].year)
  /\ \A i, j \in Invoices :
       invoices[i].year # None /\ invoices[i].year = invoices[j].year
         /\ invoices[i].sequence = invoices[j].sequence => i = j

\* "An invoice is never marked paid without the money having actually moved"
\* (settle), nor does it move twice or for an invoice that is not paid.
PaidMeansMoved ==
  \A i \in Invoices :
    LET rows == {a \in Accounts : transactions[a][i] > 0} IN
    IF invoices[i].status = "PAID"
    THEN \E a \in Accounts : rows = {a} /\ transactions[a][i] = 1
    ELSE rows = {}

\* "A debit only goes through while the account still covers it" (settle):
\* bills paid at once, and the bank lowering a balance meanwhile, never take an
\* account below zero.
NeverOverdrawn == \A a \in Accounts : balance[a] >= 0

\* What the rows booked on an account since the bank's last figure come to.
SinceReport(a) ==
  [i \in Invoices |-> (transactions[a][i] - reported[a].rows[i]) * Signed(i)]

\* "The balance changes by the amount rather than being overwritten" (settle):
\* a balance is the bank's last figure and the bookings made since, none lost.
BalanceAddsUp ==
  \A a \in Accounts : balance[a] = reported[a].figure + SumFunction(SinceReport(a))

\* Nobody is told of a settlement that did not happen: what is announced, or
\* about to be, is paid.
AnnouncedMeansPaid ==
  \A i \in Invoices :
    i \in announced \/ (\E k \in Clerks : calls[k].pc = "settled" /\ calls[k].invoice = i)
      => invoices[i].status = "PAID"

\* "PAID and CANCELLED are terminal" (invoice-status.ts), for requests that
\* read the status before another one closed the invoice too.
ClosedStaysClosed ==
  [][\A i \in Invoices : invoices[i].status \in {"PAID", "CANCELLED"}
       => invoices'[i] = invoices[i]]_vars

\* "The same number from the same supplier is the same bill entered twice"
\* (create), and is refused.
BillEnteredOnce ==
  \A i, j \in Invoices :
    invoices[i].bill # None /\ invoices[i].bill = invoices[j].bill => i = j

-----------------------------------------------------------------------------
\* The component implements its book: an invoice is in it as its row says, sent
\* or overdue alike, and it is paid when settle's transaction commits.
Standing(status) == IF status \in {"SENT", "OVERDUE"} THEN "OWED" ELSE status

Entry(row) == [standing |-> Standing(row.status), year |-> row.year,
               sequence |-> row.sequence, bill |-> row.bill]

Books == INSTANCE InvoiceBook WITH
  book   <- [i \in Invoices |-> Entry(invoices[i])],
  booked <- {settled \in Accounts \X Invoices : transactions[settled[1]][settled[2]] > 0},
  told   <- announced

ImplementsBook == Books!BookSpec
=============================================================================
