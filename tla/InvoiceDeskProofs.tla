-------------------------- MODULE InvoiceDeskProofs --------------------------
(***************************************************************************)
(* What holds of InvoiceDesk for any number of requests, invoices, years   *)
(* and accounts.  The invariant is about a request in progress: the        *)
(* invoice it is creating is its own and not on file yet, every number     *)
(* below the one it is about to take is taken, and a request that changes  *)
(* or settles an invoice started from a status that is not closed.  Last,  *)
(* what was settled since the bank's last report is a sum over invoices:   *)
(* each step adds one of them to it, or none.                              *)
(***************************************************************************)
EXTENDS InvoiceDesk, DataInduction, TLAPS

Creating == {"retrying", "numbering", "billing"}

\* A request that creates an invoice is alone with it.
CreatesItsOwn(k) ==
  calls[k].pc \in Creating =>
    /\ calls[k].invoice \in Invoices
    /\ invoices[calls[k].invoice] = NoInvoice
    /\ \A other \in Clerks \ {k} : calls[other].invoice # calls[k].invoice

\* The number it is about to take leaves none out.
NumbersAreTakenBelow(k) ==
  /\ calls[k].pc \in {"retrying", "numbering"} => calls[k].year \in Years
  /\ calls[k].pc = "retrying" => calls[k].attempt < NUMBERING_ATTEMPTS
  /\ calls[k].pc = "numbering" =>
       /\ calls[k].sequence \in Nat \ {0}
       /\ \A n \in 1..(calls[k].sequence - 1) : n \in Used(calls[k].year)
  /\ calls[k].pc = "billing" => calls[k].bill \in Bills

\* A request that changes an invoice started from an open status.
ChangesFromOpen(k) ==
  /\ calls[k].pc \in {"changing", "paying", "settling", "settled"} =>
       /\ calls[k].invoice \in Invoices
       /\ invoices[calls[k].invoice].status # "none"
       /\ calls[k].from \in {"DRAFT", "SENT", "OVERDUE"}
  /\ calls[k].pc = "changing" => calls[k].to \in Status \ {"PAID"}
  /\ calls[k].pc = "settling" => calls[k].account \in Accounts
  /\ calls[k].pc = "settled" => invoices[calls[k].invoice].status = "PAID"

RequestsAreSound ==
  \A k \in Clerks : CreatesItsOwn(k) /\ NumbersAreTakenBelow(k) /\ ChangesFromOpen(k)

AnnouncedArePaid == \A i \in announced : invoices[i].status = "PAID"

IInv ==
  /\ TypeOK
  /\ RequestsAreSound
  /\ NumberedWithoutHoles
  /\ PaidMeansMoved
  /\ NeverOverdrawn
  /\ AnnouncedArePaid

-----------------------------------------------------------------------------
LEMMA NoneIsNothing ==
  None \notin Years /\ None \notin Bills /\ None \notin Accounts /\ None \notin Invoices
  BY InvoiceAssumption

LEMMA TotalTyped == \A i \in Invoices : Total[i] \in Nat
  BY InvoiceAssumption

LEMMA FiguresTyped == \A f \in Figures : f \in Nat
  BY InvoiceAssumption

LEMMA AttemptsTyped == NUMBERING_ATTEMPTS \in Nat \ {0}
  BY InvoiceAssumption

LEMMA NoCallTyped == NoCall \in Call
  BY AttemptsTyped DEF NoCall, Call

LEMMA NoInvoiceTyped == NoInvoice \in Row
  BY DEF Row

LEMMA NoInvoiceFields ==
  NoInvoice \in [status : {"none"}, year : {None}, sequence : {0}, bill : {None}, edb : {FALSE}]
  BY DEF NoInvoice

\* What a row of the table may look like, read off Row.
LEMMA RowFacts ==
  ASSUME NEW row \in Row
  PROVE  /\ row.status \in Status \union {"none"}
         /\ row.year \in Years \union {None}
         /\ row.sequence \in Nat
         /\ row.year # None => row.sequence # 0
         /\ row.status = "none" => row = NoInvoice
  <1>1. CASE row = NoInvoice
    BY <1>1 DEF NoInvoice
  <1>2. CASE row \in [status : Status, year : Years, sequence : Nat \ {0},
                      bill : {None}, edb : {FALSE}]
    BY <1>2 DEF Status
  <1>3. CASE row \in [status : Status, year : {None}, sequence : {0},
                      bill : Bills, edb : BOOLEAN]
    BY <1>3 DEF Status
  <1>4. QED
    BY <1>1, <1>2, <1>3 DEF Row

\* What setting the status of a row leaves alone.
LEMMA RowFields ==
  ASSUME NEW row \in Row, NEW s
  PROVE  /\ [row EXCEPT !.status = s].status = s
         /\ [row EXCEPT !.status = s].year = row.year
         /\ [row EXCEPT !.status = s].sequence = row.sequence
         /\ [row EXCEPT !.status = s].bill = row.bill
         /\ [row EXCEPT !.status = row.status] = row
  BY DEF Row, NoInvoice

\* The counters of a year, one by one.
LEMMA UsedFacts ==
  ASSUME NEW y, NEW n
  PROVE  n \in Used(y) <=> \E i \in Invoices : invoices[i].year = y /\ invoices[i].sequence = n
  BY DEF Used

LEMMA InitEstablishes == Init => IInv
  <1> SUFFICES ASSUME Init PROVE IInv
    OBVIOUS
  <1>1. TypeOK
    <2>1. \A a \in Accounts : balance[a] \in Nat
      BY FiguresTyped DEF Init
    <2>2. balance \in [Accounts -> Int]
      BY <2>1 DEF Init
    <2>3. transactions \in [Accounts -> [Invoices -> Nat]]
      BY DEF Init
    <2>4. reported \in [Accounts -> [figure : Nat, rows : [Invoices -> Nat]]]
      BY <2>1, <2>3 DEF Init
    <2>5. QED
      BY <2>2, <2>3, <2>4, NoInvoiceTyped, NoCallTyped DEF Init, TypeOK
  <1>2. RequestsAreSound
    BY DEF Init, RequestsAreSound, CreatesItsOwn, NumbersAreTakenBelow, ChangesFromOpen,
       NoCall, Creating
  <1>3. NumberedWithoutHoles
    BY DEF Init, NumberedWithoutHoles, NoInvoice
  <1>4. PaidMeansMoved
    BY DEF Init, PaidMeansMoved, NoInvoice
  <1>5. NeverOverdrawn
    BY FiguresTyped DEF Init, NeverOverdrawn
  <1>6. AnnouncedArePaid
    BY DEF Init, AnnouncedArePaid
  <1>7. QED
    BY <1>1, <1>2, <1>3, <1>4, <1>5, <1>6 DEF IInv

-----------------------------------------------------------------------------
\* A step that only moves one request on keeps the invariant when what the
\* request now stands for is sound and nobody else is creating its invoice.
LEMMA OneRequestMoves ==
  ASSUME IInv, NEW k \in Clerks, NEW c \in Call,
         calls' = [calls EXCEPT ![k] = c], UNCHANGED <<invoices, Money>>,
         CreatesItsOwn(k)', NumbersAreTakenBelow(k)', ChangesFromOpen(k)',
         \A other \in Clerks \ {k} :
           calls[other].pc \in Creating => calls[other].invoice # c.invoice
  PROVE  IInv'
  <1> USE DEF IInv, Money
  <1>1. TypeOK'
    BY DEF TypeOK
  <1>2. calls'[k] = c /\ \A other \in Clerks \ {k} : calls'[other] = calls[other]
    BY DEF TypeOK
  <1>3. RequestsAreSound'
    <2> SUFFICES ASSUME NEW l \in Clerks
                 PROVE  (CreatesItsOwn(l) /\ NumbersAreTakenBelow(l) /\ ChangesFromOpen(l))'
      BY DEF RequestsAreSound
    <2>1. CASE l = k
      BY <2>1
    <2>2. CASE l # k
      <3>1. CreatesItsOwn(l) /\ NumbersAreTakenBelow(l) /\ ChangesFromOpen(l)
        BY DEF RequestsAreSound
      <3>2. CreatesItsOwn(l)'
        BY <1>2, <2>2, <3>1 DEF CreatesItsOwn
      <3>3. NumbersAreTakenBelow(l)'
        BY <1>2, <2>2, <3>1 DEF NumbersAreTakenBelow, Used
      <3>4. ChangesFromOpen(l)'
        BY <1>2, <2>2, <3>1 DEF ChangesFromOpen
      <3>5. QED
        BY <3>2, <3>3, <3>4
    <2>3. QED
      BY <2>1, <2>2
  <1>4. NumberedWithoutHoles'
    BY DEF NumberedWithoutHoles, Used
  <1>5. PaidMeansMoved' /\ NeverOverdrawn' /\ AnnouncedArePaid'
    BY DEF PaidMeansMoved, NeverOverdrawn, AnnouncedArePaid
  <1>6. QED
    BY <1>1, <1>3, <1>4, <1>5

LEMMA GivingUpKeeps ==
  ASSUME IInv, NEW k \in Clerks, Done(k), UNCHANGED <<invoices, Money>>
  PROVE  IInv'
  <1>1. calls'[k] = NoCall
    BY DEF IInv, TypeOK, Done
  <1>2. CreatesItsOwn(k)' /\ NumbersAreTakenBelow(k)' /\ ChangesFromOpen(k)'
    BY <1>1 DEF CreatesItsOwn, NumbersAreTakenBelow, ChangesFromOpen, NoCall, Creating
  <1>3. \A other \in Clerks \ {k} :
          calls[other].pc \in Creating => calls[other].invoice # NoCall.invoice
    BY NoneIsNothing DEF IInv, RequestsAreSound, CreatesItsOwn, NoCall
  <1>4. QED
    BY <1>2, <1>3, NoCallTyped, OneRequestMoves DEF Done

LEMMA IssueKeeps ==
  ASSUME IInv, NEW k \in Clerks, NEW i \in Invoices, NEW y \in Years, Issue(k, i, y)
  PROVE  IInv'
  <1> DEFINE c == [NoCall EXCEPT !.pc = "retrying", !.invoice = i, !.year = y]
  <1>1. c \in Call
    BY NoCallTyped DEF Call
  <1>2. calls' = [calls EXCEPT ![k] = c] /\ UNCHANGED <<invoices, Money>>
    BY DEF Issue
  <1>3. calls'[k] = c
    BY <1>2 DEF IInv, TypeOK
  <1>4. c.pc = "retrying" /\ c.invoice = i /\ c.year = y /\ c.attempt < NUMBERING_ATTEMPTS
    BY AttemptsTyped DEF NoCall
  <1>5. \A other \in Clerks \ {k} : calls'[other] = calls[other] /\ calls[other].invoice # i
    BY <1>2 DEF IInv, TypeOK, Issue, Fresh
  <1>6. CreatesItsOwn(k)' /\ NumbersAreTakenBelow(k)' /\ ChangesFromOpen(k)'
    BY <1>2, <1>3, <1>4, <1>5
       DEF CreatesItsOwn, NumbersAreTakenBelow, ChangesFromOpen, Creating, Issue, Fresh
  <1> HIDE DEF c
  <1>7. QED
    BY <1>1, <1>2, <1>4, <1>5, <1>6, OneRequestMoves

LEMMA CheckBillKeeps ==
  ASSUME IInv, NEW k \in Clerks, NEW i \in Invoices, NEW b \in Bills,
         NEW withEdb \in BOOLEAN, CheckBill(k, i, b, withEdb)
  PROVE  IInv'
  <1> DEFINE c == [NoCall EXCEPT !.pc = "billing", !.invoice = i, !.bill = b, !.edb = withEdb]
  <1>1. c \in Call
    BY NoCallTyped DEF Call
  <1>2. calls' = [calls EXCEPT ![k] = c] /\ UNCHANGED <<invoices, Money>>
    BY DEF CheckBill
  <1>3. calls'[k] = c
    BY <1>2 DEF IInv, TypeOK
  <1>4. c.pc = "billing" /\ c.invoice = i /\ c.bill = b
    BY DEF NoCall
  <1>5. \A other \in Clerks \ {k} : calls'[other] = calls[other] /\ calls[other].invoice # i
    BY <1>2 DEF IInv, TypeOK, CheckBill, Fresh
  <1>6. CreatesItsOwn(k)' /\ NumbersAreTakenBelow(k)' /\ ChangesFromOpen(k)'
    BY <1>2, <1>3, <1>4, <1>5
       DEF CreatesItsOwn, NumbersAreTakenBelow, ChangesFromOpen, Creating, CheckBill, Fresh
  <1> HIDE DEF c
  <1>7. QED
    BY <1>1, <1>2, <1>4, <1>5, <1>6, OneRequestMoves

LEMMA ReadHighestKeeps ==
  ASSUME IInv, NEW k \in Clerks, ReadHighest(k)
  PROVE  IInv'
  <1>1. PICK highest \in Used(calls[k].year) \union {0} :
          /\ \A n \in Used(calls[k].year) : n <= highest
          /\ calls' = [calls EXCEPT ![k].pc = "numbering",
                                    ![k].sequence = highest + 1, ![k].attempt = @ + 1]
    BY DEF ReadHighest
  <1> DEFINE c == [calls[k] EXCEPT !.pc = "numbering", !.sequence = highest + 1,
                                   !.attempt = @ + 1]
  <1>2. /\ calls[k] \in Call /\ calls[k].pc = "retrying"
        /\ CreatesItsOwn(k) /\ NumbersAreTakenBelow(k)
    BY DEF IInv, TypeOK, RequestsAreSound, ReadHighest
  <1>3. highest \in Nat
    BY RowFacts, UsedFacts DEF IInv, TypeOK
  <1>4. c \in Call
    <2>1. calls[k].attempt + 1 \in 0..NUMBERING_ATTEMPTS
      BY <1>2, AttemptsTyped DEF NumbersAreTakenBelow, Call
    <2>2. highest + 1 \in Nat
      BY <1>3
    <2>3. c = [calls[k] EXCEPT !.pc = "numbering", !.sequence = highest + 1,
                               !.attempt = calls[k].attempt + 1]
      BY <1>2 DEF Call
    <2> HIDE DEF c
    <2>4. QED
      BY <1>2, <2>1, <2>2, <2>3 DEF Call
  <1>5. calls' = [calls EXCEPT ![k] = c] /\ UNCHANGED <<invoices, Money>>
    BY <1>1 DEF ReadHighest
  <1>6. calls'[k] = c /\ \A other \in Clerks \ {k} : calls'[other] = calls[other]
    BY <1>5 DEF IInv, TypeOK
  <1>7. /\ c.pc = "numbering" /\ c.invoice = calls[k].invoice /\ c.year = calls[k].year
        /\ c.sequence = highest + 1
    BY <1>2 DEF Call
  <1> HIDE DEF c
  <1>8. \A n \in 1..highest : n \in Used(calls[k].year)
    <2>1. CASE highest = 0
      BY <2>1
    <2>2. CASE highest \in Used(calls[k].year)
      <3>1. PICK i \in Invoices :
              invoices[i].year = calls[k].year /\ invoices[i].sequence = highest
        BY <2>2, UsedFacts
      <3>2. invoices[i].year # None
        BY <1>2, <3>1, NoneIsNothing DEF NumbersAreTakenBelow
      <3>3. QED
        BY <3>1, <3>2 DEF IInv, NumberedWithoutHoles
    <2>3. QED
      BY <2>1, <2>2
  <1>9. CreatesItsOwn(k)'
    BY <1>2, <1>5, <1>6, <1>7 DEF CreatesItsOwn, Creating
  <1>10. NumbersAreTakenBelow(k)'
    <2>1. PICK y \in Years : y = calls[k].year
      BY <1>2 DEF NumbersAreTakenBelow
    <2>2. calls'[k].sequence \in Nat \ {0} /\ calls'[k].sequence - 1 = highest
      BY <1>3, <1>6, <1>7
    <2>3. Used(y)' = Used(y)
      BY <1>5 DEF Used
    <2>4. calls'[k].year = y /\ calls'[k].pc = "numbering"
      BY <1>6, <1>7, <2>1
    <2>5. \A n \in 1..(calls'[k].sequence - 1) : n \in Used(y)'
      BY <1>8, <2>1, <2>2, <2>3
    <2>6. QED
      BY <2>2, <2>4, <2>5 DEF NumbersAreTakenBelow, Used
  <1>11. ChangesFromOpen(k)'
    BY <1>6, <1>7 DEF ChangesFromOpen
  <1>12. \A other \in Clerks \ {k} :
           calls[other].pc \in Creating => calls[other].invoice # c.invoice
    BY <1>2, <1>7 DEF CreatesItsOwn, Creating
  <1>13. QED
    BY <1>4, <1>5, <1>9, <1>10, <1>11, <1>12, OneRequestMoves

LEMMA ReadInvoiceKeeps ==
  ASSUME IInv, NEW k \in Clerks, NEW i \in Invoices, NEW to \in Status,
         ReadInvoice(k, i, to)
  PROVE  IInv'
  <1> DEFINE c == [NoCall EXCEPT !.pc = IF to = "PAID" THEN "paying" ELSE "changing",
                                 !.invoice = i, !.from = invoices[i].status, !.to = to]
  <1>1. /\ invoices[i].status \in {"DRAFT", "SENT", "OVERDUE"}
        /\ calls' = [calls EXCEPT ![k] = c] /\ UNCHANGED <<invoices, Money>>
    BY DEF ReadInvoice, ALLOWED_TRANSITIONS
  <1>2. c \in Call
    <2>1. invoices[i].status \in Status
      BY <1>1 DEF Status
    <2>2. (IF to = "PAID" THEN "paying" ELSE "changing") \in {"paying", "changing"}
      OBVIOUS
    <2>3. QED
      BY <2>1, <2>2, NoCallTyped DEF Call
  <1>3. calls'[k] = c
    BY <1>1 DEF IInv, TypeOK
  <1>4. /\ c.pc = IF to = "PAID" THEN "paying" ELSE "changing"
        /\ c.invoice = i /\ c.from = invoices[i].status /\ c.to = to
    BY DEF NoCall
  <1> HIDE DEF c
  <1>5. CreatesItsOwn(k)' /\ NumbersAreTakenBelow(k)'
    BY <1>3, <1>4 DEF CreatesItsOwn, NumbersAreTakenBelow, Creating
  <1>6. ChangesFromOpen(k)'
    BY <1>1, <1>3, <1>4 DEF ChangesFromOpen
  <1>7. \A other \in Clerks \ {k} :
          calls[other].pc \in Creating => calls[other].invoice # c.invoice
    BY <1>1, <1>4 DEF IInv, RequestsAreSound, CreatesItsOwn, NoInvoice
  <1>8. QED
    BY <1>1, <1>2, <1>5, <1>6, <1>7, OneRequestMoves

LEMMA ChooseAccountKeeps ==
  ASSUME IInv, NEW k \in Clerks, ChooseAccount(k)
  PROVE  IInv'
  <1>1. CASE Done(k)
    BY <1>1, GivingUpKeeps DEF ChooseAccount
  <1>2. CASE \E a \in Accounts :
               calls' = [calls EXCEPT ![k].pc = "settling", ![k].account = a]
    <2>1. PICK a \in Accounts :
            calls' = [calls EXCEPT ![k].pc = "settling", ![k].account = a]
      BY <1>2
    <2> DEFINE c == [calls[k] EXCEPT !.pc = "settling", !.account = a]
    <2>2. calls[k] \in Call /\ calls[k].pc = "paying" /\ ChangesFromOpen(k)
      BY DEF IInv, TypeOK, RequestsAreSound, ChooseAccount
    <2>3. c \in Call
      BY <2>2 DEF Call
    <2>4. calls' = [calls EXCEPT ![k] = c] /\ UNCHANGED <<invoices, Money>>
      BY <2>1 DEF ChooseAccount
    <2>5. calls'[k] = c
      BY <2>4 DEF IInv, TypeOK
    <2>6. /\ c.pc = "settling" /\ c.invoice = calls[k].invoice /\ c.account = a
          /\ c.from = calls[k].from
      BY <2>2 DEF Call
    <2> HIDE DEF c
    <2>7. CreatesItsOwn(k)' /\ NumbersAreTakenBelow(k)'
      BY <2>5, <2>6 DEF CreatesItsOwn, NumbersAreTakenBelow, Creating
    <2>8. ChangesFromOpen(k)'
      BY <2>2, <2>4, <2>5, <2>6 DEF ChangesFromOpen
    <2>9. \A other \in Clerks \ {k} :
            calls[other].pc \in Creating => calls[other].invoice # c.invoice
      BY <2>2, <2>6 DEF IInv, RequestsAreSound, CreatesItsOwn, ChangesFromOpen, NoInvoice
    <2>10. QED
      BY <2>3, <2>4, <2>7, <2>8, <2>9, OneRequestMoves
  <1>3. QED
    BY <1>1, <1>2 DEF ChooseAccount, Choosable

-----------------------------------------------------------------------------
\* A new invoice, with the next number of its year or without any.
LEMMA NewInvoiceKeeps ==
  ASSUME IInv, NEW k \in Clerks, NEW i \in Invoices, NEW row \in Row,
         i = calls[k].invoice, calls[k].pc \in Creating,
         invoices' = [invoices EXCEPT ![i] = row], Done(k), UNCHANGED Money,
         row.status = "DRAFT",
         \/ row.year = None
         \/ /\ row.year \in Years /\ row.sequence \in Nat \ {0}
            /\ row.sequence \notin Used(row.year)
            /\ \A n \in 1..(row.sequence - 1) : n \in Used(row.year)
  PROVE  IInv'
  <1> USE DEF IInv, Money
  <1>1. /\ invoices[i] = NoInvoice
        /\ \A other \in Clerks \ {k} : calls[other].invoice # i
    BY DEF RequestsAreSound, CreatesItsOwn
  <1>2. invoices'[i] = row /\ \A j \in Invoices \ {i} : invoices'[j] = invoices[j]
    BY DEF TypeOK
  <1>3. calls'[k] = NoCall /\ \A other \in Clerks \ {k} : calls'[other] = calls[other]
    BY DEF TypeOK, Done
  <1>4. TypeOK'
    BY NoCallTyped DEF TypeOK, Done
  <1>5. ASSUME NEW y \in Years, NEW n \in Used(y) PROVE n \in Used(y)'
    <2>1. PICK j \in Invoices : invoices[j].year = y /\ invoices[j].sequence = n
      BY <1>5, UsedFacts
    <2>2. j # i
      BY <1>1, <2>1, NoneIsNothing DEF NoInvoice
    <2>3. QED
      BY <1>2, <2>1, <2>2 DEF Used
  <1>6. RequestsAreSound'
    <2> SUFFICES ASSUME NEW l \in Clerks
                 PROVE  (CreatesItsOwn(l) /\ NumbersAreTakenBelow(l) /\ ChangesFromOpen(l))'
      BY DEF RequestsAreSound
    <2>1. CASE l = k
      BY <1>3, <2>1
         DEF CreatesItsOwn, NumbersAreTakenBelow, ChangesFromOpen, NoCall, Creating
    <2>2. CASE l # k
      <3>1. CreatesItsOwn(l) /\ NumbersAreTakenBelow(l) /\ ChangesFromOpen(l)
        BY DEF RequestsAreSound
      <3>2. CreatesItsOwn(l)'
        BY <1>1, <1>2, <1>3, <2>2, <3>1, NoneIsNothing DEF CreatesItsOwn, NoCall
      <3>3. NumbersAreTakenBelow(l)'
        <4>1. CASE calls[l].pc = "numbering"
          <5>1. PICK y \in Years : y = calls[l].year
            BY <3>1, <4>1 DEF NumbersAreTakenBelow
          <5>2. \A n \in 1..(calls[l].sequence - 1) : n \in Used(y)'
            BY <1>5, <3>1, <4>1, <5>1 DEF NumbersAreTakenBelow
          <5>3. QED
            BY <1>3, <2>2, <3>1, <4>1, <5>1, <5>2 DEF NumbersAreTakenBelow, Used
        <4>2. CASE calls[l].pc # "numbering"
          BY <1>3, <2>2, <3>1, <4>2 DEF NumbersAreTakenBelow
        <4>3. QED
          BY <4>1, <4>2
      <3>4. ChangesFromOpen(l)'
        BY <1>1, <1>2, <1>3, <2>2, <3>1 DEF ChangesFromOpen
      <3>5. QED
        BY <3>2, <3>3, <3>4
    <2>3. QED
      BY <2>1, <2>2
  <1>7. NumberedWithoutHoles'
    <2>1. ASSUME NEW j \in Invoices, NEW y \in Years, invoices'[j].year = y,
                 NEW n \in 1..invoices'[j].sequence
          PROVE  n \in Used(y)'
      <3>1. CASE j # i
        BY <1>2, <1>5, <2>1, <3>1, NoneIsNothing DEF NumberedWithoutHoles
      <3>2. CASE j = i /\ n # row.sequence
        <4>1. /\ row.year = y /\ y # None
              /\ n \in 1..row.sequence
          BY <1>2, <2>1, <3>2, NoneIsNothing
        <4>2. row.sequence \in Nat \ {0} /\ \A v \in 1..(row.sequence - 1) : v \in Used(y)
          BY <4>1
        <4>3. n \in 1..(row.sequence - 1)
          BY <3>2, <4>1, <4>2
        <4>4. QED
          BY <1>5, <4>2, <4>3
      <3>3. CASE j = i /\ n = row.sequence
        BY <1>2, <2>1, <3>3 DEF Used
      <3>4. QED
        BY <3>1, <3>2, <3>3
    <2>2. ASSUME NEW j \in Invoices, NEW l \in Invoices,
                 invoices'[j].year # None, invoices'[j].year = invoices'[l].year,
                 invoices'[j].sequence = invoices'[l].sequence
          PROVE  j = l
      <3>1. CASE j # i /\ l # i
        BY <1>2, <2>2, <3>1 DEF NumberedWithoutHoles
      <3>2. CASE j = i /\ l # i
        <4>1. row.year # None /\ row.sequence \in Used(row.year)
          BY <1>2, <2>2, <3>2 DEF Used
        <4>2. QED
          BY <4>1
      <3>3. CASE j # i /\ l = i
        <4>1. row.year # None /\ row.sequence \in Used(row.year)
          BY <1>2, <2>2, <3>3 DEF Used
        <4>2. QED
          BY <4>1
      <3>4. QED
        BY <3>1, <3>2, <3>3
    <2>3. \A j \in Invoices : invoices'[j].year # None => invoices'[j].year \in Years
      BY <1>4, RowFacts DEF TypeOK
    <2>4. ASSUME NEW j \in Invoices, invoices'[j].year # None
          PROVE  (1..invoices[j].sequence \subseteq Used(invoices[j].year))'
      <3>1. PICK y \in Years : y = invoices'[j].year
        BY <2>3, <2>4
      <3>2. \A n \in 1..invoices'[j].sequence : n \in Used(y)'
        BY <2>1, <3>1
      <3>3. QED
        BY <3>1, <3>2 DEF Used
    <2>5. QED
      BY <2>2, <2>4 DEF NumberedWithoutHoles
  <1>8. PaidMeansMoved' /\ NeverOverdrawn' /\ AnnouncedArePaid'
    <2>1. PaidMeansMoved'
      BY <1>1, <1>2 DEF PaidMeansMoved, NoInvoice
    <2>2. AnnouncedArePaid'
      BY <1>1, <1>2 DEF AnnouncedArePaid, NoInvoice, TypeOK
    <2>3. QED
      BY <2>1, <2>2 DEF NeverOverdrawn
  <1>9. QED
    BY <1>4, <1>6, <1>7, <1>8

LEMMA WriteNumberedKeeps ==
  ASSUME IInv, NEW k \in Clerks, WriteNumbered(k)
  PROVE  IInv'
  <1>1. /\ calls[k] \in Call /\ calls[k].pc = "numbering"
        /\ CreatesItsOwn(k) /\ NumbersAreTakenBelow(k)
    BY DEF IInv, TypeOK, RequestsAreSound, WriteNumbered
  <1>2. calls[k].invoice \in Invoices /\ calls[k].year \in Years
    BY <1>1 DEF CreatesItsOwn, NumbersAreTakenBelow, Creating
  <1>3. CASE calls[k].sequence \notin Used(calls[k].year)
    <2> DEFINE row == [NoInvoice EXCEPT !.status = "DRAFT", !.year = calls[k].year,
                                        !.sequence = calls[k].sequence]
    <2>1. /\ invoices' = [invoices EXCEPT ![calls[k].invoice] = row]
          /\ Done(k) /\ UNCHANGED Money
      BY <1>3 DEF WriteNumbered
    <2>2. /\ calls[k].sequence \in Nat \ {0}
          /\ \A n \in 1..(calls[k].sequence - 1) : n \in Used(calls[k].year)
      BY <1>1 DEF NumbersAreTakenBelow
    <2>3. /\ row \in Row /\ row.status = "DRAFT"
          /\ row.year = calls[k].year /\ row.sequence = calls[k].sequence
      <3>1. row \in [status : Status, year : Years, sequence : Nat \ {0},
                     bill : {None}, edb : {FALSE}]
        BY <1>2, <2>2, NoInvoiceFields DEF Status
      <3>2. row \in Row
        BY <3>1 DEF Row
      <3>3. QED
        BY <3>2, NoInvoiceFields
    <2> HIDE DEF row
    <2>4. PICK i \in Invoices : i = calls[k].invoice
      BY <1>2
    <2>5. QED
      BY <1>1, <1>2, <1>3, <2>1, <2>2, <2>3, <2>4, NewInvoiceKeeps DEF Creating
  <1>4. CASE Done(k) /\ UNCHANGED invoices
    BY <1>4, GivingUpKeeps DEF WriteNumbered
  <1>5. CASE /\ calls[k].attempt < NUMBERING_ATTEMPTS
             /\ calls' = [calls EXCEPT ![k].pc = "retrying"] /\ UNCHANGED invoices
    <2> DEFINE c == [calls[k] EXCEPT !.pc = "retrying"]
    <2>1. c \in Call
      BY <1>1 DEF Call
    <2>2. calls' = [calls EXCEPT ![k] = c] /\ UNCHANGED <<invoices, Money>>
      BY <1>5 DEF WriteNumbered
    <2>3. calls'[k] = c /\ \A other \in Clerks \ {k} : calls'[other] = calls[other]
      BY <2>2 DEF IInv, TypeOK
    <2>4. /\ c.pc = "retrying" /\ c.invoice = calls[k].invoice /\ c.year = calls[k].year
          /\ c.attempt = calls[k].attempt
      BY <1>1 DEF Call
    <2> HIDE DEF c
    <2>5. CreatesItsOwn(k)'
      BY <1>1, <2>2, <2>3, <2>4 DEF CreatesItsOwn, Creating
    <2>6. NumbersAreTakenBelow(k)' /\ ChangesFromOpen(k)'
      BY <1>2, <1>5, <2>3, <2>4 DEF NumbersAreTakenBelow, ChangesFromOpen
    <2>7. \A other \in Clerks \ {k} :
            calls[other].pc \in Creating => calls[other].invoice # c.invoice
      BY <1>1, <2>4 DEF CreatesItsOwn, Creating
    <2>8. QED
      BY <2>1, <2>2, <2>5, <2>6, <2>7, OneRequestMoves
  <1>6. QED
    BY <1>3, <1>4, <1>5 DEF WriteNumbered

LEMMA WriteBillKeeps ==
  ASSUME IInv, NEW k \in Clerks, WriteBill(k)
  PROVE  IInv'
  <1>1. /\ calls[k] \in Call /\ calls[k].pc = "billing"
        /\ CreatesItsOwn(k) /\ NumbersAreTakenBelow(k)
    BY DEF IInv, TypeOK, RequestsAreSound, WriteBill
  <1> DEFINE row == [NoInvoice EXCEPT !.status = "DRAFT", !.bill = calls[k].bill,
                                      !.edb = calls[k].edb]
  <1>2. calls[k].bill \in Bills /\ calls[k].edb \in BOOLEAN
    BY <1>1 DEF NumbersAreTakenBelow, Call
  <1>3. row \in Row /\ row.status = "DRAFT" /\ row.year = None
    <2>1. row \in [status : Status, year : {None}, sequence : {0}, bill : Bills, edb : BOOLEAN]
      BY <1>2, NoInvoiceFields DEF Status
    <2>2. row \in Row
      BY <2>1 DEF Row
    <2>3. QED
      BY <2>2, NoInvoiceFields
  <1>4. /\ invoices' = [invoices EXCEPT ![calls[k].invoice] = row]
        /\ Done(k) /\ UNCHANGED Money
    BY DEF WriteBill
  <1> HIDE DEF row
  <1>5. PICK i \in Invoices : i = calls[k].invoice
    BY <1>1 DEF CreatesItsOwn, Creating
  <1>6. QED
    BY <1>1, <1>3, <1>4, <1>5, NewInvoiceKeeps DEF Creating

-----------------------------------------------------------------------------
Open == {"DRAFT", "SENT", "OVERDUE"}

\* An open invoice changes its status, and the request that did it ends or goes
\* on to announce it: the requests stay sound and the numbers where they are.
LEMMA StatusMoves ==
  ASSUME IInv, NEW k \in Clerks, NEW i \in Invoices, NEW s \in Status, NEW c \in Call,
         i = calls[k].invoice, invoices[i].status \in Open,
         invoices' = [invoices EXCEPT ![i].status = s],
         calls' = [calls EXCEPT ![k] = c],
         \/ c = NoCall
         \/ c.pc = "settled" /\ c.invoice = i /\ c.from \in Open /\ s = "PAID"
  PROVE  /\ invoices' \in [Invoices -> Row] /\ calls' \in [Clerks -> Call]
         /\ RequestsAreSound' /\ NumberedWithoutHoles'
         /\ invoices'[i].status = s
         /\ \A j \in Invoices : /\ invoices'[j].bill = invoices[j].bill
                                /\ j # i => invoices'[j] = invoices[j]
  <1> USE DEF IInv
  <1>1. invoices \in [Invoices -> Row] /\ calls \in [Clerks -> Call]
    BY DEF TypeOK
  <1>2. [invoices[i] EXCEPT !.status = s] \in Row
    <2>1. invoices[i] \in Row /\ invoices[i] # NoInvoice
      BY <1>1 DEF NoInvoice, Open
    <2>2. CASE invoices[i] \in [status : Status, year : Years, sequence : Nat \ {0},
                                bill : {None}, edb : {FALSE}]
      <3>1. [invoices[i] EXCEPT !.status = s]
              \in [status : Status, year : Years, sequence : Nat \ {0},
                  bill : {None}, edb : {FALSE}]
        BY <2>2
      <3>2. QED
        BY <3>1 DEF Row
    <2>3. CASE invoices[i] \in [status : Status, year : {None}, sequence : {0},
                                bill : Bills, edb : BOOLEAN]
      <3>1. [invoices[i] EXCEPT !.status = s]
              \in [status : Status, year : {None}, sequence : {0}, bill : Bills, edb : BOOLEAN]
        BY <2>3
      <3>2. QED
        BY <3>1 DEF Row
    <2>4. QED
      BY <2>1, <2>2, <2>3 DEF Row
  <1>3. invoices' \in [Invoices -> Row] /\ calls' \in [Clerks -> Call]
    BY <1>1, <1>2
  <1>4. \A j \in Invoices \ {i} : invoices'[j] = invoices[j]
    BY <1>1
  <1>5. /\ invoices'[i].status = s /\ invoices'[i].year = invoices[i].year
        /\ invoices'[i].sequence = invoices[i].sequence
        /\ invoices'[i].bill = invoices[i].bill
    BY <1>1, RowFields
  <1>6. \A j \in Invoices : /\ invoices'[j].year = invoices[j].year
                            /\ invoices'[j].sequence = invoices[j].sequence
                            /\ invoices'[j].bill = invoices[j].bill
    BY <1>4, <1>5
  <1>7. calls'[k] = c /\ \A other \in Clerks \ {k} : calls'[other] = calls[other]
    BY <1>1
  <1>8. \A y \in Years : Used(y)' = Used(y)
    BY <1>6 DEF Used
  <1>9. RequestsAreSound'
    <2> SUFFICES ASSUME NEW l \in Clerks
                 PROVE  (CreatesItsOwn(l) /\ NumbersAreTakenBelow(l) /\ ChangesFromOpen(l))'
      BY DEF RequestsAreSound
    <2>1. CASE l = k
      BY <1>5, <1>7, <2>1
         DEF CreatesItsOwn, NumbersAreTakenBelow, ChangesFromOpen, NoCall, Creating, Open
    <2>2. CASE l # k
      <3>1. CreatesItsOwn(l) /\ NumbersAreTakenBelow(l) /\ ChangesFromOpen(l)
        BY DEF RequestsAreSound
      <3>2. calls[l].pc \in Creating => calls[l].invoice # i
        BY <3>1 DEF CreatesItsOwn, NoInvoice, Open
      <3>3. CreatesItsOwn(l)'
        BY <1>4, <1>7, <2>2, <3>1, <3>2, NoneIsNothing DEF CreatesItsOwn, NoCall
      <3>4. NumbersAreTakenBelow(l)'
        <4>1. CASE calls[l].pc = "numbering"
          <5>1. PICK y \in Years : y = calls[l].year
            BY <3>1, <4>1 DEF NumbersAreTakenBelow
          <5>2. \A n \in 1..(calls[l].sequence - 1) : n \in Used(y)'
            BY <1>8, <3>1, <4>1, <5>1 DEF NumbersAreTakenBelow
          <5>3. QED
            BY <1>7, <2>2, <3>1, <4>1, <5>1, <5>2 DEF NumbersAreTakenBelow, Used
        <4>2. CASE calls[l].pc # "numbering"
          BY <1>7, <2>2, <3>1, <4>2 DEF NumbersAreTakenBelow
        <4>3. QED
          BY <4>1, <4>2
      <3>5. ChangesFromOpen(l)'
        BY <1>4, <1>5, <1>7, <2>2, <3>1 DEF ChangesFromOpen, Open, Status
      <3>6. QED
        BY <3>3, <3>4, <3>5
    <2>3. QED
      BY <2>1, <2>2
  <1>10. NumberedWithoutHoles'
    <2>1. ASSUME NEW j \in Invoices, invoices'[j].year # None
          PROVE  (1..invoices[j].sequence \subseteq Used(invoices[j].year))'
      <3>1. PICK y \in Years : y = invoices[j].year /\ y = invoices'[j].year
        BY <1>1, <1>6, <2>1, RowFacts
      <3>2. 1..invoices'[j].sequence \subseteq Used(y)'
        BY <1>6, <1>8, <2>1, <3>1 DEF NumberedWithoutHoles
      <3>3. QED
        BY <3>1, <3>2 DEF Used
    <2>2. QED
      BY <1>6, <2>1 DEF NumberedWithoutHoles
  <1>11. QED
    BY <1>3, <1>4, <1>5, <1>6, <1>9, <1>10

LEMMA WriteStatusKeeps ==
  ASSUME IInv, NEW k \in Clerks, WriteStatus(k)
  PROVE  IInv'
  <1>1. calls[k].pc = "changing" /\ ChangesFromOpen(k) /\ calls[k] \in Call
    BY DEF IInv, TypeOK, RequestsAreSound, WriteStatus
  <1>2. PICK i \in Invoices : i = calls[k].invoice
    BY <1>1 DEF ChangesFromOpen
  <1>3. CASE invoices[i].status = calls[k].from
    <2>1. PICK s \in Status \ {"PAID"} : s = calls[k].to
      BY <1>1 DEF ChangesFromOpen
    <2>2. invoices' = [invoices EXCEPT ![i].status = s] /\ Done(k) /\ UNCHANGED Money
      BY <1>2, <1>3, <2>1 DEF WriteStatus
    <2>3. invoices[i].status \in Open /\ s \in Status
      BY <1>1, <1>3 DEF ChangesFromOpen, Open
    <2>4. /\ invoices' \in [Invoices -> Row] /\ calls' \in [Clerks -> Call]
          /\ RequestsAreSound' /\ NumberedWithoutHoles'
          /\ invoices'[i].status = s
          /\ \A j \in Invoices \ {i} : invoices'[j] = invoices[j]
      BY ONLY IInv, <1>2, <2>2, <2>3, NoCallTyped, StatusMoves, Zenon DEF Done
    <2>5. TypeOK'
      BY <2>2, <2>4 DEF IInv, TypeOK, Money
    <2>6. PaidMeansMoved'
      BY <2>1, <2>2, <2>3, <2>4 DEF IInv, PaidMeansMoved, Money, Open
    <2>7. AnnouncedArePaid'
      BY <2>2, <2>3, <2>4 DEF IInv, TypeOK, AnnouncedArePaid, Money, Open
    <2>8. NeverOverdrawn'
      BY <2>2 DEF IInv, NeverOverdrawn, Money
    <2>9. QED
      BY <2>4, <2>5, <2>6, <2>7, <2>8 DEF IInv
  <1>4. CASE invoices[i].status # calls[k].from
    <2>1. invoices' = invoices
      <3>1. invoices' = [invoices EXCEPT ![i].status = invoices[i].status]
        BY <1>2, <1>4 DEF WriteStatus
      <3>2. QED
        BY <3>1, RowFields DEF IInv, TypeOK
    <2>2. QED
      BY <2>1, GivingUpKeeps DEF WriteStatus
  <1>5. QED
    BY <1>3, <1>4

\* The transaction of settle, when it commits.
LEMMA CommittedSettlementKeeps ==
  ASSUME IInv, NEW k \in Clerks, Settle(k), Claims(k), Covers(k)
  PROVE  IInv'
  <1>1. /\ calls[k] \in Call /\ calls[k].pc = "settling" /\ ChangesFromOpen(k)
        /\ invoices \in [Invoices -> Row] /\ calls \in [Clerks -> Call]
        /\ balance \in [Accounts -> Int]
        /\ transactions \in [Accounts -> [Invoices -> Nat]]
    BY DEF IInv, TypeOK, RequestsAreSound, Settle
  <1>2. PICK i \in Invoices, a \in Accounts : i = calls[k].invoice /\ a = calls[k].account
    BY <1>1 DEF ChangesFromOpen
  <1>3. invoices[i].status \in Open /\ "PAID" \in Status
    BY <1>1, <1>2 DEF Claims, ChangesFromOpen, Open, Status
  <1> DEFINE c == [calls[k] EXCEPT !.pc = "settled"]
  <1>4. c \in Call
    BY <1>1 DEF Call
  <1>5. c.pc = "settled" /\ c.invoice = i /\ c.from \in Open
    BY <1>1, <1>2 DEF Call, ChangesFromOpen, Open
  <1>6. /\ invoices' = [invoices EXCEPT ![i].status = "PAID"]
        /\ calls' = [calls EXCEPT ![k] = c]
        /\ balance' = [balance EXCEPT ![a] = balance[a] + Signed(i)]
        /\ transactions' = [transactions EXCEPT ![a] =
              [transactions[a] EXCEPT ![i] = transactions[a][i] + 1]]
        /\ UNCHANGED <<announced, reported>>
    BY <1>1, <1>2 DEF Settle, MarkPaid, Settled, MoveBalance, Book
  <1> HIDE DEF c
  <1>7. /\ invoices' \in [Invoices -> Row] /\ calls' \in [Clerks -> Call]
        /\ RequestsAreSound' /\ NumberedWithoutHoles'
        /\ invoices'[i].status = "PAID"
        /\ \A j \in Invoices \ {i} : invoices'[j] = invoices[j]
    BY ONLY IInv, <1>2, <1>3, <1>4, <1>5, <1>6, StatusMoves, Zenon
  <1>8. Signed(i) \in Int /\ balance[a] + Signed(i) \in Int
    BY <1>1, TotalTyped DEF Signed
  <1>9. /\ \A b \in Accounts : transactions'[b] =
             IF b = a THEN [transactions[a] EXCEPT ![i] = transactions[a][i] + 1]
                      ELSE transactions[b]
        /\ \A b \in Accounts, j \in Invoices : transactions'[b][j] =
             IF b = a /\ j = i THEN transactions[a][i] + 1 ELSE transactions[b][j]
    BY <1>1, <1>6
  <1>10. TypeOK'
    <2>1. balance' \in [Accounts -> Int]
      BY <1>1, <1>6, <1>8
    <2>2. transactions' \in [Accounts -> [Invoices -> Nat]]
      <3>1. transactions[a][i] + 1 \in Nat
        BY <1>1
      <3>2. [transactions[a] EXCEPT ![i] = transactions[a][i] + 1] \in [Invoices -> Nat]
        BY <1>1, <3>1
      <3>3. QED
        BY <1>1, <1>6, <3>2
    <2>3. QED
      BY <1>6, <1>7, <2>1, <2>2 DEF IInv, TypeOK
  <1>11. PaidMeansMoved'
    <2>1. \A b \in Accounts : transactions[b][i] = 0
      BY <1>1, <1>3 DEF IInv, PaidMeansMoved, Open
    <2>2. /\ transactions'[a][i] = 1
          /\ \A b \in Accounts \ {a} : transactions'[b][i] = 0
      BY <1>9, <2>1
    <2>3. {b \in Accounts : transactions'[b][i] > 0} = {a}
      BY <2>2
    <2>4. \A j \in Invoices \ {i} : \A b \in Accounts :
            transactions'[b][j] = transactions[b][j]
      BY <1>9
    <2>5. QED
      BY <1>7, <2>2, <2>3, <2>4 DEF IInv, PaidMeansMoved
  <1>12. NeverOverdrawn'
    <2>1. balance[a] + Signed(i) >= 0
      BY <1>1, <1>2, TotalTyped DEF IInv, NeverOverdrawn, Covers, Signed
    <2>2. QED
      BY <1>1, <1>6, <2>1 DEF IInv, NeverOverdrawn
  <1>13. AnnouncedArePaid'
    BY <1>6, <1>7 DEF IInv, TypeOK, AnnouncedArePaid
  <1>14. QED
    BY <1>7, <1>10, <1>11, <1>12, <1>13 DEF IInv

LEMMA SettleKeeps ==
  ASSUME IInv, NEW k \in Clerks, Settle(k)
  PROVE  IInv'
  <1>1. CASE Claims(k) /\ Covers(k)
    BY <1>1, CommittedSettlementKeeps
  <1>2. CASE ~(Claims(k) /\ Covers(k))
    BY <1>2, GivingUpKeeps DEF Settle, Money
  <1>3. QED
    BY <1>1, <1>2

LEMMA AnnounceKeeps ==
  ASSUME IInv, NEW k \in Clerks, Announce(k)
  PROVE  IInv'
  <1>1. PICK i \in Invoices : i = calls[k].invoice /\ invoices[i].status = "PAID"
    BY DEF IInv, RequestsAreSound, ChangesFromOpen, Announce
  <1>2. calls'[k] = NoCall /\ \A other \in Clerks \ {k} : calls'[other] = calls[other]
    BY DEF IInv, TypeOK, Announce, Done
  <1>3. TypeOK'
    BY <1>1, NoCallTyped DEF IInv, TypeOK, Announce, Done
  <1>4. RequestsAreSound'
    <2> SUFFICES ASSUME NEW l \in Clerks
                 PROVE  (CreatesItsOwn(l) /\ NumbersAreTakenBelow(l) /\ ChangesFromOpen(l))'
      BY DEF RequestsAreSound
    <2>1. CASE l = k
      BY <1>2, <2>1
         DEF CreatesItsOwn, NumbersAreTakenBelow, ChangesFromOpen, NoCall, Creating
    <2>2. CASE l # k
      <3>1. CreatesItsOwn(l) /\ NumbersAreTakenBelow(l) /\ ChangesFromOpen(l)
        BY DEF IInv, RequestsAreSound
      <3>2. CreatesItsOwn(l)'
        BY <1>2, <2>2, <3>1, NoneIsNothing DEF CreatesItsOwn, NoCall, Announce
      <3>3. NumbersAreTakenBelow(l)'
        BY <1>2, <2>2, <3>1 DEF NumbersAreTakenBelow, Used, Announce
      <3>4. ChangesFromOpen(l)'
        BY <1>2, <2>2, <3>1 DEF ChangesFromOpen, Announce
      <3>5. QED
        BY <3>2, <3>3, <3>4
    <2>3. QED
      BY <2>1, <2>2
  <1>5. NumberedWithoutHoles'
    BY DEF IInv, NumberedWithoutHoles, Used, Announce
  <1>6. PaidMeansMoved' /\ NeverOverdrawn'
    BY DEF IInv, PaidMeansMoved, NeverOverdrawn, Announce
  <1>7. AnnouncedArePaid'
    BY <1>1 DEF IInv, AnnouncedArePaid, Announce
  <1>8. QED
    BY <1>3, <1>4, <1>5, <1>6, <1>7 DEF IInv

LEMMA BankReportsKeeps ==
  ASSUME IInv, NEW a \in Accounts, NEW f \in Figures, BankReports(a, f)
  PROVE  IInv'
  <1>1. f \in Nat
    BY FiguresTyped
  <1>2. TypeOK'
    BY <1>1 DEF IInv, TypeOK, BankReports
  <1>3. RequestsAreSound'
    BY DEF IInv, RequestsAreSound, CreatesItsOwn, NumbersAreTakenBelow, ChangesFromOpen,
       Used, BankReports
  <1>4. NumberedWithoutHoles' /\ PaidMeansMoved' /\ AnnouncedArePaid'
    BY DEF IInv, NumberedWithoutHoles, Used, PaidMeansMoved, AnnouncedArePaid, BankReports
  <1>5. NeverOverdrawn'
    BY <1>1 DEF IInv, TypeOK, NeverOverdrawn, BankReports
  <1>6. QED
    BY <1>2, <1>3, <1>4, <1>5 DEF IInv

LEMMA StepKeeps == IInv /\ [Next]_vars => IInv'
  <1> SUFFICES ASSUME IInv, [Next]_vars PROVE IInv'
    OBVIOUS
  <1>1. ASSUME NEW k \in Clerks, Create(k) PROVE IInv'
    BY <1>1, IssueKeeps, ReadHighestKeeps, WriteNumberedKeeps, CheckBillKeeps, WriteBillKeeps
       DEF Create
  <1>2. ASSUME NEW k \in Clerks, UpdateStatus(k) PROVE IInv'
    BY <1>2, ReadInvoiceKeeps, WriteStatusKeeps, ChooseAccountKeeps, SettleKeeps, AnnounceKeeps
       DEF UpdateStatus
  <1>3. ASSUME NEW k \in Clerks, Die(k) PROVE IInv'
    BY <1>3, GivingUpKeeps DEF Die
  <1>4. ASSUME NEW a \in Accounts, NEW f \in Figures, BankReports(a, f) PROVE IInv'
    BY <1>4, BankReportsKeeps
  <1>5. CASE UNCHANGED vars
    <2>1. TypeOK' /\ RequestsAreSound'
      BY <1>5 DEF IInv, vars, TypeOK, RequestsAreSound, CreatesItsOwn, NumbersAreTakenBelow,
         ChangesFromOpen, Used
    <2>2. NumberedWithoutHoles' /\ NeverOverdrawn' /\ AnnouncedArePaid'
      BY <1>5 DEF IInv, vars, Used, NumberedWithoutHoles, NeverOverdrawn, AnnouncedArePaid
    <2>3. PaidMeansMoved'
      BY <1>5 DEF IInv, vars, PaidMeansMoved
    <2>4. QED
      BY <2>1, <2>2, <2>3 DEF IInv
  <1>6. QED
    BY <1>1, <1>2, <1>3, <1>4, <1>5 DEF Next

LEMMA Invariance == Spec => []IInv
  BY InitEstablishes, StepKeeps, PTL DEF Spec

-----------------------------------------------------------------------------
\* Rows, balances and requests keep their types; in particular a supplier's
\* bill never takes a number of the company's own.
THEOREM Typing == Spec => []TypeOK
  <1>1. IInv => TypeOK
    BY DEF IInv
  <1>2. QED
    BY <1>1, Invariance, PTL

\* allocateAndCreate leaves no hole in a year's numbers and uses none twice,
\* for any number of requests and of attempts.
THEOREM NumbersHaveNoHoles == Spec => []NumberedWithoutHoles
  <1>1. IInv => NumberedWithoutHoles
    BY DEF IInv
  <1>2. QED
    BY <1>1, Invariance, PTL

\* settle moves the money of a paid invoice once, and of no other.
THEOREM PaidInvoicesMovedOnce == Spec => []PaidMeansMoved
  <1>1. IInv => PaidMeansMoved
    BY DEF IInv
  <1>2. QED
    BY <1>1, Invariance, PTL

\* Settlements never take an account below zero, whatever the bank reports
\* between the choice of the account and the debit.
THEOREM AccountsAreNeverOverdrawn == Spec => []NeverOverdrawn
  <1>1. IInv => NeverOverdrawn
    BY DEF IInv
  <1>2. QED
    BY <1>1, Invariance, PTL

\* Only settlements that happened are announced.
THEOREM OnlyPaidIsAnnounced == Spec => []AnnouncedMeansPaid
  <1>1. IInv => AnnouncedMeansPaid
    BY DEF IInv, RequestsAreSound, ChangesFromOpen, AnnouncedArePaid, AnnouncedMeansPaid
  <1>2. QED
    BY <1>1, Invariance, PTL

\* A request that read the status of an invoice before another one closed it
\* leaves the closed invoice alone.
THEOREM ClosedInvoicesStayClosed == Spec => ClosedStaysClosed
  <1> DEFINE Stays == \A i \in Invoices : invoices[i].status \in {"PAID", "CANCELLED"}
                        => invoices'[i] = invoices[i]
  <1>1. IInv /\ [Next]_vars => [Stays]_vars
    <2> SUFFICES ASSUME IInv, Next, NEW i \in Invoices,
                        invoices[i].status \in {"PAID", "CANCELLED"}
                 PROVE  invoices'[i] = invoices[i]
      BY DEF vars
    <2> USE DEF IInv, TypeOK, RequestsAreSound
    <2>1. ASSUME NEW k \in Clerks, WriteNumbered(k) \/ WriteBill(k)
          PROVE  invoices'[i] = invoices[i]
      BY <2>1 DEF WriteNumbered, WriteBill, CreatesItsOwn, Creating, NoInvoice
    <2>2. ASSUME NEW k \in Clerks, WriteStatus(k) PROVE invoices'[i] = invoices[i]
      <3>1. calls[k].from \in {"DRAFT", "SENT", "OVERDUE"}
        BY <2>2 DEF WriteStatus, ChangesFromOpen
      <3>2. CASE calls[k].invoice # i
        BY <2>2, <3>2 DEF WriteStatus
      <3>3. CASE calls[k].invoice = i
        BY <2>2, <3>1, <3>3, RowFields DEF WriteStatus
      <3>4. QED
        BY <3>2, <3>3
    <2>3. ASSUME NEW k \in Clerks, Settle(k) PROVE invoices'[i] = invoices[i]
      BY <2>3 DEF Settle, Claims, MarkPaid, ChangesFromOpen
    <2>4. ASSUME NEW k \in Clerks,
                 (\E j \in Invoices, y \in Years : Issue(k, j, y)) \/ ReadHighest(k)
                   \/ (\E j \in Invoices, b \in Bills, withEdb \in BOOLEAN :
                         CheckBill(k, j, b, withEdb))
          PROVE  invoices'[i] = invoices[i]
      BY <2>4 DEF Issue, ReadHighest, CheckBill
    <2>5. ASSUME NEW k \in Clerks,
                 (\E j \in Invoices, to \in Status : ReadInvoice(k, j, to))
                   \/ ChooseAccount(k) \/ Announce(k) \/ Die(k)
          PROVE  invoices'[i] = invoices[i]
      BY <2>5 DEF ReadInvoice, ChooseAccount, Announce, Die
    <2>6. ASSUME NEW a \in Accounts, NEW f \in Figures, BankReports(a, f)
          PROVE  invoices'[i] = invoices[i]
      BY <2>6 DEF BankReports
    <2>7. QED
      BY <2>1, <2>2, <2>3, <2>4, <2>5, <2>6 DEF Next, Create, UpdateStatus
  <1>2. QED
    BY <1>1, Invariance, PTL DEF Spec, ClosedStaysClosed

-----------------------------------------------------------------------------
\* The balance and the sum of the bookings.

\* The rows the bank's figure already covers are rows that were there.
CoveredWereBooked ==
  \A a \in Accounts, i \in Invoices : reported[a].rows[i] <= transactions[a][i]

LEMMA SinceTyped ==
  ASSUME IInv, IsFiniteSet(Invoices), NEW a \in Accounts
  PROVE  /\ \A i \in Invoices : SinceReport(a)[i] \in Int
         /\ SumFunction(SinceReport(a)) = SumFunctionOnSet(SinceReport(a), Invoices)
         /\ SumFunction(SinceReport(a)) \in Int
  <1>1. \A i \in Invoices : SinceReport(a)[i] \in Int
    BY TotalTyped DEF IInv, TypeOK, SinceReport, Signed
  <1>2. SumFunction(SinceReport(a)) = SumFunctionOnSet(SinceReport(a), Invoices)
    BY DEF SumFunction, SinceReport
  <1> QED
    BY <1>1, <1>2, SumInt

\* An invoice that is not paid has no row, and none the figure covers.
LEMMA NothingBooked ==
  ASSUME IInv, CoveredWereBooked, NEW i \in Invoices, invoices[i].status # "PAID",
         NEW a \in Accounts
  PROVE  /\ transactions[a][i] = 0 /\ reported[a].rows[i] = 0
         /\ SinceReport(a)[i] = 0
  <1>1. transactions[a][i] = 0
    BY DEF IInv, TypeOK, PaidMeansMoved
  <1>2. reported[a].rows[i] = 0
    BY <1>1 DEF IInv, TypeOK, CoveredWereBooked
  <1>3. Signed(i) \in Int
    BY TotalTyped DEF Signed
  <1> QED
    BY <1>1, <1>2, <1>3 DEF SinceReport

\* Money moves where settle commits and where the bank reports; elsewhere it
\* stays, and only an invoice without a row may change its side.
LEMMA WhereMoneyMoves ==
  ASSUME IInv, [Next]_vars
  PROVE  \/ /\ UNCHANGED <<balance, transactions, reported>>
            /\ \A i \in Invoices : \/ invoices'[i].bill = invoices[i].bill
                                   \/ invoices[i].status # "PAID"
         \/ \E k \in Clerks : Settle(k) /\ Claims(k) /\ Covers(k)
         \/ \E a \in Accounts, f \in Figures : BankReports(a, f)
  <1>1. ASSUME NEW k \in Clerks, WriteNumbered(k) \/ WriteBill(k)
        PROVE  /\ UNCHANGED <<balance, transactions, reported>>
               /\ \A i \in Invoices : \/ invoices'[i] = invoices[i]
                                      \/ invoices[i].status # "PAID"
    <2>1. calls[k].pc \in Creating /\ invoices[calls[k].invoice] = NoInvoice
      BY <1>1 DEF IInv, RequestsAreSound, CreatesItsOwn, WriteNumbered, WriteBill, Creating
    <2>2. \A i \in Invoices : i = calls[k].invoice \/ invoices'[i] = invoices[i]
      BY <1>1 DEF IInv, TypeOK, WriteNumbered, WriteBill
    <2>3. NoInvoice.status # "PAID"
      BY DEF NoInvoice
    <2>4. UNCHANGED <<balance, transactions, reported>>
      BY <1>1 DEF WriteNumbered, WriteBill, Money
    <2> QED
      BY <2>1, <2>2, <2>3, <2>4
  <1>2. ASSUME NEW k \in Clerks, WriteStatus(k)
        PROVE  /\ UNCHANGED <<balance, transactions, reported>>
               /\ \A i \in Invoices : invoices'[i].bill = invoices[i].bill
    <2>1. \A i \in Invoices : \/ invoices'[i] = invoices[i]
                              \/ \E s : invoices'[i] = [invoices[i] EXCEPT !.status = s]
      BY <1>2 DEF IInv, TypeOK, WriteStatus
    <2>2. \A i \in Invoices : invoices[i] \in Row
      BY DEF IInv, TypeOK
    <2> QED
      BY <1>2, <2>1, <2>2, RowFields DEF WriteStatus, Money
  <1>3. ASSUME NEW k \in Clerks, Settle(k), ~(Claims(k) /\ Covers(k))
        PROVE  UNCHANGED <<invoices, balance, transactions, reported>>
    BY <1>3 DEF Settle
  <1> QED
    BY <1>1, <1>2, <1>3
       DEF Next, Create, UpdateStatus, Issue, ReadHighest, CheckBill, ReadInvoice,
           ChooseAccount, Announce, Die, Money, vars

LEMMA SumsStay ==
  ASSUME IInv, CoveredWereBooked, BalanceAddsUp,
         UNCHANGED <<balance, transactions, reported>>,
         \A i \in Invoices : \/ invoices'[i].bill = invoices[i].bill
                             \/ invoices[i].status # "PAID"
  PROVE  CoveredWereBooked' /\ BalanceAddsUp'
  <1>1. CoveredWereBooked'
    BY DEF CoveredWereBooked
  <1>2. ASSUME NEW a \in Accounts
        PROVE  SinceReport(a)' = SinceReport(a)
    <2>1. ASSUME NEW i \in Invoices
          PROVE  (transactions[a][i] - reported[a].rows[i]) * Signed(i)'
                   = (transactions[a][i] - reported[a].rows[i]) * Signed(i)
      <3>1. CASE invoices'[i].bill = invoices[i].bill
        BY <3>1 DEF Signed, Incoming
      <3>2. CASE invoices[i].status # "PAID"
        <4>1. transactions[a][i] - reported[a].rows[i] = 0
          BY <3>2, NothingBooked
        <4>2. Signed(i) \in Int /\ Signed(i)' \in Int
          BY TotalTyped DEF Signed
        <4> QED
          BY <4>1, <4>2
      <3> QED
        BY <2>1, <3>1, <3>2
    <2> QED
      BY <2>1 DEF SinceReport
  <1> QED
    BY <1>1, <1>2 DEF BalanceAddsUp

LEMMA SettlementAddsUp ==
  ASSUME IInv, CoveredWereBooked, BalanceAddsUp, IsFiniteSet(Invoices),
         NEW k \in Clerks, Settle(k), Claims(k), Covers(k)
  PROVE  CoveredWereBooked' /\ BalanceAddsUp'
  <1>1. /\ calls[k].pc = "settling" /\ ChangesFromOpen(k)
        /\ invoices \in [Invoices -> Row]
        /\ balance \in [Accounts -> Int]
        /\ transactions \in [Accounts -> [Invoices -> Nat]]
        /\ reported \in [Accounts -> [figure : Nat, rows : [Invoices -> Nat]]]
    BY DEF IInv, TypeOK, RequestsAreSound, Settle
  <1>2. PICK i \in Invoices, a \in Accounts : i = calls[k].invoice /\ a = calls[k].account
    BY <1>1 DEF ChangesFromOpen
  <1>3. invoices[i].status # "PAID"
    BY <1>1, <1>2 DEF Claims, ChangesFromOpen
  <1>4. /\ invoices' = [invoices EXCEPT ![i].status = "PAID"]
        /\ balance' = [balance EXCEPT ![a] = balance[a] + Signed(i)]
        /\ transactions' = [transactions EXCEPT ![a] =
              [transactions[a] EXCEPT ![i] = transactions[a][i] + 1]]
        /\ reported' = reported
    BY <1>1, <1>2 DEF Settle, MarkPaid, MoveBalance, Book
  <1>5. \A b \in Accounts, j \in Invoices : transactions'[b][j] =
          IF b = a /\ j = i THEN transactions[a][i] + 1 ELSE transactions[b][j]
    BY <1>1, <1>4
  <1>6. CoveredWereBooked'
    BY <1>1, <1>4, <1>5 DEF CoveredWereBooked
  <1>7. \A j \in Invoices : Signed(j)' = Signed(j)
    <2>1. \A j \in Invoices : invoices'[j].bill = invoices[j].bill
      BY <1>1, <1>4, RowFields
    <2> QED
      BY <2>1 DEF Signed, Incoming
  <1>8. Signed(i) \in Int
    BY TotalTyped DEF Signed
  <1>9. SinceReport(a)[i] = 0 /\ SinceReport(a)'[i] = Signed(i)
    <2>1. transactions[a][i] = 0 /\ reported[a].rows[i] = 0 /\ SinceReport(a)[i] = 0
      BY <1>3, NothingBooked
    <2>2. transactions'[a][i] - reported'[a].rows[i] = 1
      BY <1>4, <1>5, <2>1
    <2>3. SinceReport(a)'[i] = (transactions'[a][i] - reported'[a].rows[i]) * Signed(i)'
      BY DEF SinceReport
    <2> QED
      BY <1>7, <1>8, <2>1, <2>2, <2>3
  <1>10. \A b \in Accounts, j \in Invoices :
           b # a \/ j # i => SinceReport(b)'[j] = SinceReport(b)[j]
    BY <1>4, <1>5, <1>7 DEF SinceReport
  <1>11. ASSUME NEW b \in Accounts, b # a
         PROVE  SinceReport(b)' = SinceReport(b)
    BY <1>4, <1>5, <1>7, <1>11 DEF SinceReport
  <1>12. SumFunction(SinceReport(a)') = SumFunction(SinceReport(a)) + Signed(i)
    <2> DEFINE f == SinceReport(a)
               g == SinceReport(a)'
    <2>1. /\ \A j \in Invoices : f[j] \in Int
          /\ SumFunction(f) = SumFunctionOnSet(f, Invoices)
          /\ SumFunction(f) \in Int
      BY SinceTyped
    <2>2. SumFunction(g) = SumFunctionOnSet(g, Invoices)
      BY DEF SumFunction, SinceReport
    <2>3. f[i] = 0 /\ g[i] = Signed(i) /\ \A j \in Invoices \ {i} : f[j] = g[j]
      BY <1>9, <1>10
    <2> HIDE DEF f, g
    <2>4. SumFunctionOnSet(g, Invoices) = SumFunctionOnSet(f, Invoices) + g[i] - f[i]
      BY <1>8, <2>1, <2>3, SumChanges
    <2>5. SumFunction(g) = SumFunction(f) + Signed(i)
      BY <1>8, <2>1, <2>2, <2>3, <2>4
    <2> QED
      BY <2>5 DEF f, g
  <1>13. BalanceAddsUp'
    <2> SUFFICES ASSUME NEW b \in Accounts
                 PROVE  balance'[b] = reported'[b].figure + SumFunction(SinceReport(b)')
      BY DEF BalanceAddsUp
    <2>1. /\ balance[b] = reported[b].figure + SumFunction(SinceReport(b))
          /\ SumFunction(SinceReport(b)) \in Int /\ reported[b].figure \in Int
      BY <1>1, SinceTyped DEF BalanceAddsUp
    <2>2. CASE b = a
      BY <1>1, <1>4, <1>8, <1>12, <2>1, <2>2
    <2>3. CASE b # a
      BY <1>1, <1>4, <1>11, <2>1, <2>3
    <2> QED
      BY <2>2, <2>3
  <1> QED
    BY <1>6, <1>13

LEMMA ReportAddsUp ==
  ASSUME IInv, CoveredWereBooked, BalanceAddsUp, IsFiniteSet(Invoices),
         NEW a \in Accounts, NEW f \in Figures, BankReports(a, f)
  PROVE  CoveredWereBooked' /\ BalanceAddsUp'
  <1>1. /\ balance \in [Accounts -> Int]
        /\ transactions \in [Accounts -> [Invoices -> Nat]]
        /\ reported \in [Accounts -> [figure : Nat, rows : [Invoices -> Nat]]]
    BY DEF IInv, TypeOK
  <1>2. /\ balance' = [balance EXCEPT ![a] = f]
        /\ reported' = [reported EXCEPT ![a] = [figure |-> f, rows |-> transactions[a]]]
        /\ UNCHANGED <<invoices, transactions>>
    BY DEF BankReports
  <1>3. /\ reported'[a] = [figure |-> f, rows |-> transactions[a]] /\ balance'[a] = f
        /\ \A b \in Accounts \ {a} : reported'[b] = reported[b] /\ balance'[b] = balance[b]
    BY <1>1, <1>2
  <1>4. CoveredWereBooked'
    BY <1>1, <1>2, <1>3 DEF CoveredWereBooked
  <1>5. \A i \in Invoices : SinceReport(a)'[i] = 0
    <2>1. \A i \in Invoices : Signed(i)' \in Int
      BY TotalTyped DEF Signed
    <2>2. \A i \in Invoices : transactions'[a][i] - reported'[a].rows[i] = 0
      BY <1>1, <1>2, <1>3
    <2> QED
      BY <2>1, <2>2 DEF SinceReport
  <1>6. SumFunction(SinceReport(a)') = 0
    <2>1. SumFunction(SinceReport(a)') = SumFunctionOnSet(SinceReport(a)', Invoices)
      BY DEF SumFunction, SinceReport
    <2> QED
      BY <1>5, <2>1, SumOfZeros
  <1>7. \A b \in Accounts \ {a} : SinceReport(b)' = SinceReport(b)
    BY <1>2, <1>3 DEF SinceReport, Signed, Incoming
  <1>8. f \in Int
    BY FiguresTyped
  <1> QED
    BY <1>3, <1>4, <1>6, <1>7, <1>8 DEF BalanceAddsUp

\* An account's balance is the bank's last figure and every booking since,
\* however settlements and the bank's reports cross (settle increments the
\* balance it finds and books the row in one transaction).
THEOREM BalancesAddUp ==
  ASSUME IsFiniteSet(Invoices)
  PROVE  Spec => []BalanceAddsUp
  <1>1. Init => CoveredWereBooked /\ BalanceAddsUp
    <2> SUFFICES ASSUME Init PROVE CoveredWereBooked /\ BalanceAddsUp
      OBVIOUS
    <2>1. ASSUME NEW a \in Accounts
          PROVE  /\ balance[a] \in Nat
                 /\ reported[a].figure = balance[a]
                 /\ \A i \in Invoices : transactions[a][i] = 0 /\ reported[a].rows[i] = 0
      BY FiguresTyped DEF Init
    <2>2. CoveredWereBooked
      BY <2>1 DEF CoveredWereBooked
    <2>3. ASSUME NEW a \in Accounts
          PROVE  SumFunction(SinceReport(a)) = 0
      <3>1. \A i \in Invoices : SinceReport(a)[i] = 0
        <4>1. \A i \in Invoices : Signed(i) \in Int
          BY TotalTyped DEF Signed
        <4> QED
          BY <2>1, <4>1 DEF SinceReport
      <3>2. SumFunction(SinceReport(a)) = SumFunctionOnSet(SinceReport(a), Invoices)
        BY DEF SumFunction, SinceReport
      <3> QED
        BY <3>1, <3>2, SumOfZeros
    <2> QED
      BY <2>1, <2>2, <2>3 DEF BalanceAddsUp
  <1>2. IInv /\ (CoveredWereBooked /\ BalanceAddsUp) /\ [Next]_vars
          => (CoveredWereBooked /\ BalanceAddsUp)'
    BY WhereMoneyMoves, SumsStay, SettlementAddsUp, ReportAddsUp
  <1> QED
    BY <1>1, <1>2, Invariance, PTL DEF Spec

-----------------------------------------------------------------------------
(* Refinement of InvoiceBook.                                              *)

\* What a request was checked for when it read the status still holds of the
\* transition it is about to make.
TransitionsAllowed ==
  \A k \in Clerks :
    /\ calls[k].pc = "changing" => <<calls[k].from, calls[k].to>> \in ALLOWED_TRANSITIONS
    /\ calls[k].pc \in {"paying", "settling"} => calls[k].from \in {"SENT", "OVERDUE"}

LEMMA TransitionsStayAllowed == Spec => []TransitionsAllowed
  <1>1. Init => TransitionsAllowed
    BY DEF Init, TransitionsAllowed, NoCall
  <1>2. IInv /\ TransitionsAllowed /\ [Next]_vars => TransitionsAllowed'
    <2> SUFFICES ASSUME TypeOK, TransitionsAllowed, [Next]_vars, NEW k \in Clerks
                 PROVE  /\ calls'[k].pc = "changing" =>
                             <<calls'[k].from, calls'[k].to>> \in ALLOWED_TRANSITIONS
                        /\ calls'[k].pc \in {"paying", "settling"} =>
                             calls'[k].from \in {"SENT", "OVERDUE"}
      BY DEF TransitionsAllowed, IInv
    <2>0. calls \in [Clerks -> Call]
      BY DEF TypeOK
    <2>1. ASSUME NEW l \in Clerks, l # k, Create(l) \/ UpdateStatus(l) \/ Die(l)
          PROVE  calls'[k] = calls[k]
      BY <2>0, <2>1
         DEF Create, UpdateStatus, Die, Issue, ReadHighest, WriteNumbered, CheckBill, WriteBill,
             ReadInvoice, WriteStatus, ChooseAccount, Settle, Announce, Done, Settled
    <2>2. CASE Create(k) \/ Die(k)
      <3>1. CASE ReadHighest(k)
        BY <2>0, <3>1 DEF ReadHighest
      <3>2. CASE WriteNumbered(k)
        BY <2>0, <3>2 DEF WriteNumbered, Done, NoCall, Call
      <3>3. ASSUME NEW i \in Invoices, NEW y \in Years, Issue(k, i, y)
            PROVE  calls'[k].pc = "retrying"
        BY <2>0, <3>3 DEF Issue, NoCall
      <3>4. ASSUME NEW i \in Invoices, NEW b \in Bills, NEW withEdb \in BOOLEAN,
                   CheckBill(k, i, b, withEdb)
            PROVE  calls'[k].pc = "billing"
        BY <2>0, <3>4 DEF CheckBill, NoCall
      <3>5. CASE WriteBill(k) \/ Die(k)
        BY <2>0, <3>5 DEF WriteBill, Die, Done, NoCall
      <3>6. QED
        BY <2>2, <3>1, <3>2, <3>3, <3>4, <3>5 DEF Create
    <2>3. ASSUME NEW i \in Invoices, NEW to \in Status, ReadInvoice(k, i, to)
          PROVE  /\ calls'[k].pc = "changing" =>
                      <<calls'[k].from, calls'[k].to>> \in ALLOWED_TRANSITIONS
                 /\ calls'[k].pc \in {"paying", "settling"} =>
                      calls'[k].from \in {"SENT", "OVERDUE"}
      <3>1. /\ calls'[k].pc = IF to = "PAID" THEN "paying" ELSE "changing"
            /\ calls'[k].from = invoices[i].status /\ calls'[k].to = to
            /\ <<invoices[i].status, to>> \in ALLOWED_TRANSITIONS
        BY <2>0, <2>3 DEF ReadInvoice, NoCall
      <3>2. to = "PAID" => invoices[i].status \in {"SENT", "OVERDUE"}
        BY <3>1 DEF ALLOWED_TRANSITIONS
      <3>3. QED
        BY <3>1, <3>2
    <2>4. CASE ChooseAccount(k)
      <3>1. calls'[k].pc = "idle" \/ (calls'[k].pc = "settling" /\ calls'[k].from = calls[k].from)
        BY <2>0, <2>4 DEF ChooseAccount, Done, NoCall, Call
      <3>2. QED
        BY <2>4, <3>1 DEF ChooseAccount, TransitionsAllowed
    <2>5. CASE WriteStatus(k) \/ Settle(k) \/ Announce(k)
      <3>1. calls'[k].pc \in {"idle", "settled"}
        BY <2>0, <2>5 DEF WriteStatus, Settle, Announce, Done, Settled, NoCall, Call
      <3>2. QED
        BY <3>1
    <2>6. CASE calls' = calls
      BY <2>6 DEF TransitionsAllowed
    <2>7. QED
      BY <2>1, <2>2, <2>3, <2>4, <2>5, <2>6
         DEF Next, UpdateStatus, BankReports, vars, TransitionsAllowed
  <1>3. QED
    BY <1>1, <1>2, Invariance, PTL DEF Spec

LEMMA StandingFacts ==
  /\ Standing("none") = "none" /\ Standing("DRAFT") = "DRAFT" /\ Standing("SENT") = "OWED"
  /\ Standing("OVERDUE") = "OWED" /\ Standing("PAID") = "PAID"
  /\ Standing("CANCELLED") = "CANCELLED"
  BY DEF Standing

\* The book as the rows have it.
BookNow == [i \in Invoices |-> Entry(invoices[i])]

BookedNow == {settled \in Accounts \X Invoices : transactions[settled[1]][settled[2]] > 0}

LEMMA EntryFields ==
  ASSUME NEW row
  PROVE  /\ Entry(row).standing = Standing(row.status) /\ Entry(row).year = row.year
         /\ Entry(row).sequence = row.sequence /\ Entry(row).bill = row.bill
         /\ \A standing : [Entry(row) EXCEPT !.standing = standing]
              = [standing |-> standing, year |-> row.year, sequence |-> row.sequence,
                 bill |-> row.bill]
  BY DEF Entry

\* One row of the table is one entry of the book.
LEMMA OneEntryMoves ==
  ASSUME TypeOK, NEW i \in Invoices, NEW row, invoices' = [invoices EXCEPT ![i] = row]
  PROVE  BookNow' = [BookNow EXCEPT ![i] = Entry(row)]
  <1>1. \A j \in Invoices : invoices'[j] = IF j = i THEN row ELSE invoices[j]
    BY DEF TypeOK
  <1>2. BookNow' = [j \in Invoices |-> Entry(invoices'[j])]
    BY DEF BookNow, Entry
  <1>3. \A j \in Invoices : Entry(invoices'[j]) = IF j = i THEN Entry(row) ELSE Entry(invoices[j])
    BY <1>1
  <1>4. [BookNow EXCEPT ![i] = Entry(row)]
          = [j \in Invoices |-> IF j = i THEN Entry(row) ELSE Entry(invoices[j])]
    BY DEF BookNow
  <1>5. QED
    BY <1>2, <1>3, <1>4

\* The status of one row is the standing of one entry.
LEMMA OneStandingMoves ==
  ASSUME TypeOK, NEW i \in Invoices, NEW s, invoices' = [invoices EXCEPT ![i].status = s]
  PROVE  BookNow' = [BookNow EXCEPT ![i].standing = Standing(s)]
  <1> DEFINE row == [invoices[i] EXCEPT !.status = s]
  <1>1. BookNow' = [BookNow EXCEPT ![i] = Entry(row)]
    BY OneEntryMoves
  <1>2. /\ row.status = s /\ row.year = invoices[i].year
        /\ row.sequence = invoices[i].sequence /\ row.bill = invoices[i].bill
    BY RowFields DEF TypeOK
  <1> HIDE DEF row
  <1>3. Entry(row) = [Entry(invoices[i]) EXCEPT !.standing = Standing(s)]
    BY <1>2, EntryFields DEF Entry
  <1>4. [BookNow EXCEPT ![i].standing = Standing(s)]
          = [BookNow EXCEPT ![i] = [Entry(invoices[i]) EXCEPT !.standing = Standing(s)]]
    BY DEF BookNow
  <1>5. QED
    BY <1>1, <1>3, <1>4

\* A number nobody has, all below it taken, is the next: the numbers of the
\* year are exactly the ones below it.
LEMMA NumbersBelow ==
  ASSUME TypeOK, NumberedWithoutHoles, NEW y \in Years, NEW n \in Nat \ {0},
         n \notin Used(y), \A m \in 1..(n - 1) : m \in Used(y)
  PROVE  Used(y) = 1..(n - 1)
  <1>1. ASSUME NEW m \in Used(y) PROVE m \in 1..(n - 1)
    <2>1. PICK i \in Invoices : invoices[i].year = y /\ invoices[i].sequence = m
      BY <1>1, UsedFacts
    <2>2. invoices[i].year # None
      BY <2>1, NoneIsNothing
    <2>3. m \in Nat \ {0}
      BY <2>1, <2>2, RowFacts DEF TypeOK
    <2>4. 1..m \subseteq Used(y)
      BY <2>1, <2>2 DEF NumberedWithoutHoles
    <2>5. ~(n <= m)
      BY <2>3, <2>4
    <2>6. QED
      BY <2>3, <2>5
  <1>2. QED
    BY <1>1

LEMMA NumbersInTheBook ==
  ASSUME NEW y
  PROVE  {BookNow[i].sequence : i \in {j \in Invoices : BookNow[j].year = y}} = Used(y)
  <1>1. \A i \in Invoices : BookNow[i].sequence = invoices[i].sequence
                            /\ BookNow[i].year = invoices[i].year
    BY EntryFields DEF BookNow
  <1>2. {j \in Invoices : BookNow[j].year = y} = {j \in Invoices : invoices[j].year = y}
    BY <1>1
  <1>3. QED
    BY <1>1, <1>2 DEF Used

LEMMA NumberIsNext ==
  ASSUME IInv, NEW k \in Clerks, WriteNumbered(k)
  PROVE  \/ \E i \in Invoices, y \in Years : Books!Number(i, y)
         \/ UNCHANGED <<invoices, Money>>
  <1>1. /\ calls[k] \in Call /\ calls[k].pc = "numbering"
        /\ CreatesItsOwn(k) /\ NumbersAreTakenBelow(k)
    BY DEF IInv, TypeOK, RequestsAreSound, WriteNumbered
  <1>2. CASE calls[k].sequence \notin Used(calls[k].year)
    <2>1. PICK i \in Invoices, y \in Years, n \in Nat \ {0} :
            /\ i = calls[k].invoice /\ y = calls[k].year /\ n = calls[k].sequence
            /\ invoices[i] = NoInvoice
            /\ \A m \in 1..(n - 1) : m \in Used(y)
      BY <1>1 DEF CreatesItsOwn, NumbersAreTakenBelow, Creating
    <2> DEFINE row == [NoInvoice EXCEPT !.status = "DRAFT", !.year = y, !.sequence = n]
    <2>2. invoices' = [invoices EXCEPT ![i] = row] /\ UNCHANGED Money
      BY <1>2, <2>1 DEF WriteNumbered
    <2>3. /\ row.status = "DRAFT" /\ row.year = y /\ row.sequence = n /\ row.bill = None
      BY NoInvoiceFields
    <2> HIDE DEF row
    <2>4. Entry(row) = [standing |-> "DRAFT", year |-> y, sequence |-> n, bill |-> None]
      BY <2>3, StandingFacts DEF Entry
    <2>5. BookNow' = [BookNow EXCEPT ![i] = Entry(row)]
      BY <2>2, OneEntryMoves DEF IInv
    <2>6. Used(y) = 1..(n - 1)
      BY <1>2, <2>1, NumbersBelow DEF IInv
    <2>7. n - 1 \in Used(y) \union {0} /\ (n - 1) + 1 = n
      BY <2>6
    <2>8. Books!Numbers(y) = Used(y)
      BY NumbersInTheBook DEF Books!Numbers, BookNow
    <2>9. BookNow[i] = Books!Blank
      BY <2>1, EntryFields, StandingFacts, NoInvoiceFields DEF BookNow, Books!Blank, Entry, NoInvoice
    <2>10. Books!Number(i, y)
      BY <2>2, <2>4, <2>5, <2>6, <2>7, <2>8, <2>9 DEF Books!Number, BookNow, Money
    <2>11. QED
      BY <2>10
  <1>3. CASE calls[k].sequence \in Used(calls[k].year)
    BY <1>3 DEF WriteNumbered
  <1>4. QED
    BY <1>2, <1>3

LEMMA BillIsEntered ==
  ASSUME IInv, NEW k \in Clerks, WriteBill(k)
  PROVE  \E i \in Invoices, b \in Bills : Books!Enter(i, b)
  <1>1. /\ calls[k] \in Call /\ calls[k].pc = "billing"
        /\ CreatesItsOwn(k) /\ NumbersAreTakenBelow(k)
    BY DEF IInv, TypeOK, RequestsAreSound, WriteBill
  <1>2. PICK i \in Invoices, b \in Bills :
          i = calls[k].invoice /\ b = calls[k].bill /\ invoices[i] = NoInvoice
    BY <1>1 DEF CreatesItsOwn, NumbersAreTakenBelow, Creating
  <1> DEFINE row == [NoInvoice EXCEPT !.status = "DRAFT", !.bill = b, !.edb = calls[k].edb]
  <1>3. invoices' = [invoices EXCEPT ![i] = row] /\ UNCHANGED Money
    BY <1>2 DEF WriteBill
  <1>4. row.status = "DRAFT" /\ row.year = None /\ row.sequence = 0 /\ row.bill = b
    BY NoInvoiceFields
  <1> HIDE DEF row
  <1>5. Entry(row) = [standing |-> "DRAFT", year |-> None, sequence |-> 0, bill |-> b]
    BY <1>4, StandingFacts DEF Entry
  <1>6. BookNow' = [BookNow EXCEPT ![i] = Entry(row)]
    BY <1>3, OneEntryMoves DEF IInv
  <1>7. BookNow[i] = Books!Blank
    BY <1>2, EntryFields, StandingFacts, NoInvoiceFields DEF BookNow, Books!Blank, Entry, NoInvoice
  <1>8. Books!Enter(i, b)
    BY <1>3, <1>5, <1>6, <1>7 DEF Books!Enter, BookNow, Money
  <1>9. QED
    BY <1>8

LEMMA StatusTurns ==
  ASSUME IInv, TransitionsAllowed, NEW k \in Clerks, WriteStatus(k)
  PROVE  \/ \E i \in Invoices, to \in {"OWED", "CANCELLED"} : Books!Turn(i, to)
         \/ BookNow' = BookNow /\ UNCHANGED Money
  <1>1. /\ calls[k].pc = "changing" /\ ChangesFromOpen(k)
        /\ <<calls[k].from, calls[k].to>> \in ALLOWED_TRANSITIONS
    BY DEF IInv, RequestsAreSound, WriteStatus, TransitionsAllowed
  <1>2. PICK i \in Invoices : i = calls[k].invoice
    BY <1>1 DEF ChangesFromOpen
  <1>3. CASE invoices[i].status = calls[k].from
    <2>1. invoices' = [invoices EXCEPT ![i].status = calls[k].to] /\ UNCHANGED Money
      BY <1>2, <1>3 DEF WriteStatus
    <2>2. BookNow' = [BookNow EXCEPT ![i].standing = Standing(calls[k].to)]
      BY <2>1, OneStandingMoves DEF IInv
    <2>3. BookNow[i].standing = Standing(calls[k].from)
      BY <1>3, EntryFields DEF BookNow
    <2>4. \/ /\ <<Standing(calls[k].from), Standing(calls[k].to)>> \in
                   {<<"DRAFT", "OWED">>, <<"DRAFT", "CANCELLED">>, <<"OWED", "CANCELLED">>}
             /\ Standing(calls[k].to) \in {"OWED", "CANCELLED"}
          \/ Standing(calls[k].from) = Standing(calls[k].to)
      BY <1>1, StandingFacts DEF ALLOWED_TRANSITIONS, ChangesFromOpen, Status
    <2>5. CASE Standing(calls[k].from) = Standing(calls[k].to)
      <3>1. [BookNow EXCEPT ![i].standing = BookNow[i].standing] = BookNow
        BY DEF BookNow, Entry
      <3>2. QED
        BY <2>1, <2>2, <2>3, <2>5, <3>1
    <2>6. CASE Standing(calls[k].from) # Standing(calls[k].to)
      <3>1. PICK to \in {"OWED", "CANCELLED"} :
              /\ to = Standing(calls[k].to)
              /\ <<Standing(calls[k].from), to>> \in
                   {<<"DRAFT", "OWED">>, <<"DRAFT", "CANCELLED">>, <<"OWED", "CANCELLED">>}
        BY <2>4, <2>6
      <3>2. Books!Turn(i, to)
        BY <2>1, <2>2, <2>3, <3>1 DEF Books!Turn, BookNow, Money
      <3>3. QED
        BY <3>2
    <2>7. QED
      BY <2>5, <2>6
  <1>4. CASE invoices[i].status # calls[k].from
    <2>1. invoices' = [invoices EXCEPT ![i].status = invoices[i].status]
      BY <1>2, <1>4 DEF WriteStatus
    <2>2. invoices' = invoices
      BY <2>1, RowFields DEF IInv, TypeOK
    <2>3. QED
      BY <2>2 DEF BookNow, WriteStatus
  <1>5. QED
    BY <1>3, <1>4

LEMMA SettlementPays ==
  ASSUME IInv, TransitionsAllowed, NEW k \in Clerks, Settle(k), Claims(k), Covers(k)
  PROVE  \E i \in Invoices, a \in Accounts : Books!Pay(i, a)
  <1>1. /\ calls[k].pc = "settling" /\ ChangesFromOpen(k)
        /\ calls[k].from \in {"SENT", "OVERDUE"}
        /\ invoices \in [Invoices -> Row] /\ balance \in [Accounts -> Int]
        /\ transactions \in [Accounts -> [Invoices -> Nat]]
    BY DEF IInv, TypeOK, RequestsAreSound, Settle, TransitionsAllowed
  <1>2. PICK i \in Invoices, a \in Accounts : i = calls[k].invoice /\ a = calls[k].account
    BY <1>1 DEF ChangesFromOpen
  <1>3. /\ invoices' = [invoices EXCEPT ![i].status = "PAID"]
        /\ balance' = [balance EXCEPT ![a] = balance[a] + Signed(i)]
        /\ transactions' = [transactions EXCEPT ![a][i] = @ + 1]
        /\ announced' = announced
    BY <1>1, <1>2 DEF Settle, MarkPaid, MoveBalance, Book
  <1>4. BookNow[i].standing = "OWED"
    BY <1>1, <1>2, EntryFields, StandingFacts DEF Claims, BookNow
  <1>5. BookNow' = [BookNow EXCEPT ![i].standing = "PAID"]
    <2>1. TypeOK
      BY DEF IInv
    <2>2. BookNow' = [BookNow EXCEPT ![i].standing = Standing("PAID")]
      BY ONLY <1>3, <2>1, OneStandingMoves
    <2>3. Standing("PAID") = "PAID"
      BY StandingFacts
    <2>4. QED
      BY ONLY <2>2, <2>3
  <1>6. BookNow[i].bill = None <=> ~Incoming(i)
    BY EntryFields DEF BookNow, Incoming
  <1>7. Books!Amount(i) = Signed(i)
    BY <1>6 DEF Books!Amount, Signed, BookNow
  <1>8. balance[a] + Signed(i) >= 0
    BY <1>1, <1>2, TotalTyped DEF IInv, NeverOverdrawn, Covers, Signed
  <1>9. BookedNow' = BookedNow \union {<<a, i>>}
    <2>1. \A b \in Accounts, j \in Invoices : transactions'[b][j] =
             IF b = a /\ j = i THEN transactions[a][i] + 1 ELSE transactions[b][j]
      BY <1>1, <1>3
    <2>2. transactions[a][i] + 1 > 0
      BY <1>1
    <2>3. QED
      BY <2>1, <2>2 DEF BookedNow
  <1>10. Books!Pay(i, a)
    BY <1>3, <1>4, <1>5, <1>7, <1>8, <1>9 DEF Books!Pay, BookNow, BookedNow
  <1>11. QED
    BY <1>10

LEMMA StepsAreInTheBook ==
  ASSUME IInv, TransitionsAllowed, [Next]_vars
  PROVE  [Books!BookNext]_(Books!bookVars)
  <1>1. ASSUME UNCHANGED <<invoices, balance, transactions, announced>>
        PROVE  UNCHANGED Books!bookVars
    BY <1>1 DEF Books!bookVars, Entry
  <1>2. ASSUME NEW k \in Clerks, Create(k) PROVE [Books!BookNext]_(Books!bookVars)
    <2>1. CASE WriteNumbered(k)
      BY <1>1, <2>1, NumberIsNext DEF Books!BookNext, Money
    <2>2. CASE WriteBill(k)
      BY <2>2, BillIsEntered DEF Books!BookNext
    <2>3. QED
      BY <1>1, <1>2, <2>1, <2>2 DEF Create, Issue, ReadHighest, CheckBill, Money
  <1>3. ASSUME NEW k \in Clerks, UpdateStatus(k) PROVE [Books!BookNext]_(Books!bookVars)
    <2>1. CASE WriteStatus(k)
      BY <2>1, StatusTurns DEF Books!BookNext, Books!bookVars, BookNow, Money
    <2>2. CASE Settle(k)
      <3>1. CASE Claims(k) /\ Covers(k)
        BY <2>2, <3>1, SettlementPays DEF Books!BookNext
      <3>2. CASE ~(Claims(k) /\ Covers(k))
        BY <1>1, <2>2, <3>2 DEF Settle
      <3>3. QED
        BY <3>1, <3>2
    <2>3. CASE Announce(k)
      <3>1. PICK i \in Invoices : i = calls[k].invoice /\ invoices[i].status = "PAID"
        BY <2>3 DEF IInv, RequestsAreSound, ChangesFromOpen, Announce
      <3>2. BookNow[i].standing = "PAID"
        BY <3>1, EntryFields, StandingFacts DEF BookNow
      <3>3. BookNow' = BookNow
        BY <2>3 DEF BookNow, Announce, Entry
      <3>4. Books!Tell(i)
        BY <2>3, <3>1, <3>2, <3>3 DEF Books!Tell, BookNow, Announce
      <3>5. QED
        BY <3>4 DEF Books!BookNext
    <2>4. QED
      BY <1>1, <1>3, <2>1, <2>2, <2>3 DEF UpdateStatus, ReadInvoice, ChooseAccount, Money
  <1>4. ASSUME NEW k \in Clerks, Die(k) PROVE [Books!BookNext]_(Books!bookVars)
    BY <1>1, <1>4 DEF Die, Money
  <1>5. ASSUME NEW a \in Accounts, NEW f \in Figures, BankReports(a, f)
        PROVE  [Books!BookNext]_(Books!bookVars)
    <2>1. Books!Report(a, f)
      BY <1>5 DEF BankReports, Books!Report, Entry
    <2>2. QED
      BY <2>1 DEF Books!BookNext
  <1>6. QED
    BY <1>1, <1>2, <1>3, <1>4, <1>5 DEF Next, vars

\* InvoiceDesk implements InvoiceBook: whatever the requests that number, close
\* and settle invoices at once, each invoice takes the next number of its year,
\* goes from draft to owed to closed, and is paid in the step that moves its
\* money.
THEOREM BookImplemented == Spec => ImplementsBook
  <1>1. Init => Books!BookInit
    <2> SUFFICES ASSUME Init PROVE Books!BookInit
      OBVIOUS
    <2>1. BookNow = [i \in Invoices |-> Books!Blank]
      BY StandingFacts DEF Init, BookNow, Entry, NoInvoice, Books!Blank
    <2>2. BookedNow = {}
      BY DEF Init, BookedNow
    <2>3. QED
      BY <2>1, <2>2 DEF Init, BookNow, BookedNow, Books!BookInit
  <1>2. IInv /\ TransitionsAllowed /\ [Next]_vars => [Books!BookNext]_(Books!bookVars)
    BY StepsAreInTheBook
  <1>3. QED
    BY <1>1, <1>2, Invariance, TransitionsStayAllowed, PTL
       DEF Spec, ImplementsBook, Books!BookSpec
=============================================================================
