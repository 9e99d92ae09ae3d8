----------------------------- MODULE InvoiceBook -----------------------------
(***************************************************************************)
(* What the invoice component promises, without its requests: a book of    *)
(* invoices, each of which gets the next number of its year when the       *)
(* company issues it, goes one way from draft to owed to closed, and is    *)
(* paid in one step that also moves the money on an account that covers it *)
(* and books it there.  Meanwhile the bank reports balances.               *)
(***************************************************************************)
EXTENDS Integers

CONSTANTS Invoices, Total, Years, Bills, Accounts, Figures, None

VARIABLES
  book,      \* book[i]: where invoice i stands, its year and number, its supplier's bill
  balance,   \* balance[a]: the money on account a
  booked,    \* <<a, i>>: invoice i has been settled on account a
  told       \* invoices whose settlement has been announced

bookVars == <<book, balance, booked, told>>

Blank == [standing |-> "none", year |-> None, sequence |-> 0, bill |-> None]

BookInit ==
  /\ book = [i \in Invoices |-> Blank]
  /\ balance \in [Accounts -> Figures]
  /\ booked = {} /\ told = {}

Numbers(y) == {book[i].sequence : i \in {j \in Invoices : book[j].year = y}}

\* The numbers of the year are 1 to last, and this invoice is the next.
Number(i, y) ==
  /\ book[i] = Blank
  /\ \E last \in Numbers(y) \union {0} :
       /\ Numbers(y) = 1..last
       /\ book' = [book EXCEPT ![i] =
            [standing |-> "DRAFT", year |-> y, sequence |-> last + 1, bill |-> None]]
  /\ UNCHANGED <<balance, booked, told>>

Enter(i, b) ==
  /\ book[i] = Blank
  /\ book' = [book EXCEPT ![i] =
       [standing |-> "DRAFT", year |-> None, sequence |-> 0, bill |-> b]]
  /\ UNCHANGED <<balance, booked, told>>

\* Sent to the client, or called off before it is paid.
Turn(i, to) ==
  /\ <<book[i].standing, to>> \in
       {<<"DRAFT", "OWED">>, <<"DRAFT", "CANCELLED">>, <<"OWED", "CANCELLED">>}
  /\ book' = [book EXCEPT ![i].standing = to]
  /\ UNCHANGED <<balance, booked, told>>

Amount(i) == IF book[i].bill = None THEN Total[i] ELSE -Total[i]

Pay(i, a) ==
  /\ book[i].standing = "OWED"
  /\ balance[a] + Amount(i) >= 0
  /\ book' = [book EXCEPT ![i].standing = "PAID"]
  /\ balance' = [balance EXCEPT ![a] = balance[a] + Amount(i)]
  /\ booked' = booked \union {<<a, i>>}
  /\ UNCHANGED told

Tell(i) ==
  /\ book[i].standing = "PAID"
  /\ told' = told \union {i}
  /\ UNCHANGED <<book, balance, booked>>

Report(a, f) ==
  /\ balance' = [balance EXCEPT ![a] = f]
  /\ UNCHANGED <<book, booked, told>>

\* Most requests change nothing here: they look, are refused or die.  That comes
\* first, where it is soonest seen.
BookNext ==
  \/ UNCHANGED bookVars
  \/ \E i \in Invoices, y \in Years : Number(i, y)
  \/ \E i \in Invoices, b \in Bills : Enter(i, b)
  \/ \E i \in Invoices, to \in {"OWED", "CANCELLED"} : Turn(i, to)
  \/ \E i \in Invoices, a \in Accounts : Pay(i, a)
  \/ \E i \in Invoices : Tell(i)
  \/ \E a \in Accounts, f \in Figures : Report(a, f)

BookSpec == BookInit /\ [][BookNext]_bookVars
=============================================================================
