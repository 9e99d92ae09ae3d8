--------------------------- MODULE PayrollRunProofs ---------------------------
(***************************************************************************)
(* What holds of PayrollRun for every number of companies, requests, calls *)
(* and deliveries, every list of dates and every set of payday settings.   *)
(* FiledMeansExecuted and FiledOnce are not inductive by themselves:       *)
(* CallsKnowTheirRequest says what a confirm in progress may rely on after *)
(* each of its awaits, EventsAreOwed what a webhook may rely on.  DInv     *)
(* dates what calls, quotes and rows say, for the month a run is filed     *)
(* against.                                                                *)
(***************************************************************************)
EXTENDS PayrollRun, TLAPS

\* What each step of a call in progress leaves to the next one.
CallsKnowTheirRequest ==
  \A h \in Calls :
    /\ calls[h].pc # "idle" => calls[h].company \in Companies
    /\ calls[h].pc \in {"previewing", "pricing", "approving", "executed"}
         => calls[h].period \in Periods
    /\ calls[h].pc \in {"loaded", "approving", "executed"} =>
         /\ calls[h].request \in Requests
         /\ bank[calls[h].request].state # "none"
         /\ bank[calls[h].request].company = calls[h].company
    /\ calls[h].pc = "executed" => Executed(calls[h].request)

BankKnowsTheCompany ==
  /\ \A r \in Requests : bank[r].state # "none" => bank[r].company \in Companies
  /\ \A r \in orphans : bank[r].state # "none"

\* The bank owes, delivers and is acknowledged only events of executed runs.
EventsAreOwed ==
  /\ \A r \in Requests : events[r].state # "none" => Executed(r)
  /\ \A d \in Deliveries :
       /\ deliveries[d].pc # "idle" =>
            deliveries[d].request \in Requests /\ Executed(deliveries[d].request)
       /\ deliveries[d].pc = "filing" =>
            deliveries[d].period \in MonthsOf(deliveries[d].request)

IInv ==
  /\ TypeOK
  /\ CallsKnowTheirRequest
  /\ BankKnowsTheCompany
  /\ EventsAreOwed
  /\ FiledMeansExecuted
  /\ FiledOnce

-----------------------------------------------------------------------------
LEMMA PeriodTyped ==
  ASSUME NEW s \in Settings, NEW at \in Clock
  PROVE  Period(s, at) \in Periods
  BY DEF Periods

LEMMA FirstClock == 1 \in Clock /\ \A i \in Clock : i \in Nat
  BY PayrollAssumption DEF Clock

LEMMA NoneIsNobody == None \notin Companies /\ None \notin Requests
  BY PayrollAssumption

\* The records the actions start from have their types.
LEMMA FreshRecords ==
  NoCall \in Call /\ NoRequest \in BankRequest /\ NoDelivery \in Delivery
  BY FirstClock DEF NoCall, Call, NoRequest, BankRequest, NoDelivery, Delivery

LEMMA InitEstablishes == Init => IInv
  <1> SUFFICES ASSUME Init PROVE IInv
    OBVIOUS
  <1> USE FirstClock, FreshRecords DEF Init
  <1>1. TypeOK
    BY PayrollAssumption DEF TypeOK, Event
  <1>2. CallsKnowTheirRequest /\ BankKnowsTheCompany /\ EventsAreOwed
    BY DEF CallsKnowTheirRequest, BankKnowsTheCompany, EventsAreOwed, NoCall, NoRequest,
       NoDelivery
  <1>3. FiledMeansExecuted /\ FiledOnce
    BY DEF FiledMeansExecuted, FiledOnce
  <1>4. QED
    BY <1>1, <1>2, <1>3 DEF IInv

-----------------------------------------------------------------------------
(* Types.                                                                  *)

LEMMA PreviewTypes ==
  ASSUME IInv, NEW h \in Calls, Preview(h)
  PROVE  TypeOK'
  <1> USE FreshRecords DEF IInv, TypeOK
  <1>1. ASSUME NEW c \in Companies, PreviewContext(h, c) PROVE TypeOK'
    <2>1. Period(payday[c], clock) \in Periods
      BY PeriodTyped
    <2>2. [NoCall EXCEPT !.pc = "previewing", !.company = c,
                         !.period = Period(payday[c], clock)] \in Call
      BY <2>1 DEF Call
    <2>3. QED
      BY <1>1, <2>2 DEF PreviewContext, bankVars
  <1>2. CASE PreviewCheck(h)
    <2>1. [calls[h] EXCEPT !.pc = "pricing"] \in Call
      BY DEF Call
    <2>2. QED
      BY <1>2, <2>1 DEF PreviewCheck, bankVars
  <1>3. ASSUME NEW r \in Requests, PreviewQuote(h, r) PROVE TypeOK'
    <2>1. calls[h].company \in Companies /\ calls[h].period \in Periods
      BY <1>3 DEF PreviewQuote, CallsKnowTheirRequest
    <2>2. [NoRequest EXCEPT !.state = "PENDING", !.company = calls[h].company] \in BankRequest
      BY <2>1 DEF BankRequest
    <2>3. QED
      BY <1>3, <2>1, <2>2 DEF PreviewQuote
  <1>4. QED
    BY <1>1, <1>2, <1>3 DEF Preview

\* What the bank's execution of a request does to the types.
LEMMA ExecutionTypes ==
  ASSUME TypeOK, NEW r \in Requests, NEW left \in SUBSET Requests, ExecutesAtBank(r, left)
  PROVE  /\ bank' \in [Requests -> BankRequest]
         /\ events' \in [Requests -> Event]
         /\ orphans' \subseteq Requests
  <1> USE DEF TypeOK
  <1>1. [bank[r] EXCEPT !.state = "EXECUTED", !.at = clock] \in BankRequest
    BY DEF BankRequest
  <1>2. [events[r] EXCEPT !.state = "queued"] \in Event
    BY DEF Event
  <1>3. QED
    BY <1>1, <1>2 DEF ExecutesAtBank

LEMMA RecordTypes ==
  ASSUME payrollRuns \subseteq Row, NEW c \in Companies, NEW p \in Periods,
         NEW id \in Requests \union {None}, Record(c, p, id)
  PROVE  payrollRuns' \subseteq Row
  BY DEF Record, Row

LEMMA ConfirmTypes ==
  ASSUME IInv, NEW h \in Calls, Confirm(h) \/ Abandon(h)
  PROVE  TypeOK'
  <1> USE FreshRecords DEF IInv, TypeOK
  <1>1. ASSUME NEW c \in Companies, NEW r \in Requests, ConfirmLoad(h, c, r) PROVE TypeOK'
    <2>1. [NoCall EXCEPT !.pc = "loaded", !.company = c, !.request = r, !.at = clock] \in Call
      BY DEF Call
    <2>2. QED
      BY <1>1, <2>1 DEF ConfirmLoad, bankVars
  <1>2. CASE ConfirmPeriod(h)
    <2>1. calls[h].company \in Companies /\ calls[h].at \in Clock
      BY <1>2 DEF ConfirmPeriod, CallsKnowTheirRequest, Call
    <2>2. Period(payday[calls[h].company], calls[h].at) \in Periods
      BY <2>1, PeriodTyped
    <2>3. [calls[h] EXCEPT !.pc = "approving",
                           !.period = Period(payday[calls[h].company], calls[h].at)] \in Call
      BY <2>2 DEF Call
    <2>4. QED
      BY <1>2, <2>3 DEF ConfirmPeriod, bankVars
  <1>3. CASE BankApproves(h)
    <2>1. calls[h].request \in Requests
      BY <1>3 DEF BankApproves, CallsKnowTheirRequest
    <2>2. [calls[h] EXCEPT !.pc = "executed"] \in Call
      BY DEF Call
    <2>3. QED
      BY <1>3, <2>1, <2>2, ExecutionTypes DEF BankApproves
  <1>4. CASE BankRefuses(h)
    BY <1>4 DEF BankRefuses, bankVars
  <1>5. CASE ConfirmRecord(h)
    <2>1. /\ calls[h].company \in Companies /\ calls[h].period \in Periods
          /\ calls[h].request \in Requests
      BY <1>5 DEF ConfirmRecord, CallsKnowTheirRequest
    <2>2. payrollRuns' \subseteq Row
      BY <1>5, <2>1, RecordTypes DEF ConfirmRecord
    <2>3. QED
      BY <1>5, <2>2 DEF ConfirmRecord, bankVars
  <1>6. CASE Abandon(h)
    BY <1>6 DEF Abandon, CallsKnowTheirRequest
  <1>7. QED
    BY <1>1, <1>2, <1>3, <1>4, <1>5, <1>6 DEF Confirm

LEMMA BankTypes ==
  ASSUME IInv, Bank
  PROVE  TypeOK'
  <1> USE FreshRecords DEF IInv, TypeOK, appVars
  <1>1. ASSUME NEW r \in Requests, LateApproval(r) PROVE TypeOK'
    BY <1>1, ExecutionTypes DEF LateApproval
  <1>2. ASSUME NEW r \in Requests, LateApprovalLost(r) PROVE TypeOK'
    BY <1>2 DEF LateApprovalLost
  <1>3. ASSUME NEW r \in Requests, Replay(r) PROVE TypeOK'
    BY <1>3, PayrollAssumption DEF Replay, Event
  <1>4. ASSUME NEW r \in Requests, NEW c \in Companies, BankOwnRun(r, c) PROVE TypeOK'
    <2>1. events' \in [Requests -> Event]
      BY <1>4 DEF BankOwnRun, Event
    <2>2. bank' \in [Requests -> BankRequest]
      BY <1>4 DEF BankOwnRun, BankRequest
    <2>3. QED
      BY <1>4, <2>1, <2>2 DEF BankOwnRun
  <1>5. QED
    BY <1>1, <1>2, <1>3, <1>4 DEF Bank

LEMMA WebhookTypes ==
  ASSUME IInv, NEW d \in Deliveries, Webhook(d)
  PROVE  TypeOK'
  <1> USE FreshRecords DEF IInv, TypeOK
  <1> DEFINE r == deliveries[d].request
  <1>1. ASSUME NEW q \in Requests, Deliver(d, q) PROVE TypeOK'
    <2>1. [events[q] EXCEPT !.tries = @ + 1] \in Event
      BY <1>1, PayrollAssumption DEF Deliver, Event
    <2>2. [NoDelivery EXCEPT !.pc = "applied", !.request = q] \in Delivery
      BY DEF Delivery
    <2>3. QED
      BY <1>1, <2>1, <2>2 DEF Deliver
  <1>2. CASE WebhookPeriod(d)
    <2>1. r \in Requests /\ bank[r].company \in Companies /\ bank[r].at \in Clock
      BY <1>2 DEF WebhookPeriod, EventsAreOwed, BankKnowsTheCompany, Executed, BankRequest
    <2>2. Period(payday[bank[r].company], bank[r].at) \in Periods
      BY <2>1, PeriodTyped
    <2>3. /\ [deliveries[d] EXCEPT !.pc = "filed"] \in Delivery
          /\ [deliveries[d] EXCEPT !.pc = "filing",
                !.period = Period(payday[bank[r].company], bank[r].at)] \in Delivery
      BY <2>2 DEF Delivery
    <2>4. QED
      BY <1>2, <2>3 DEF WebhookPeriod, bankVars
  <1>3. CASE WebhookFile(d)
    <2>1. /\ r \in Requests /\ bank[r].company \in Companies
          /\ deliveries[d].period \in Periods
      <3>1. r \in Requests /\ bank[r].company \in Companies
        BY <1>3 DEF WebhookFile, EventsAreOwed, BankKnowsTheCompany, Executed
      <3>2. bank[r].at \in Clock
        BY <3>1 DEF BankRequest
      <3>3. QED
        BY <1>3, <3>1, <3>2, PeriodTyped DEF WebhookFile, EventsAreOwed, MonthsOf
    <2>2. payrollRuns' \subseteq Row
      BY <1>3, <2>1, RecordTypes DEF WebhookFile
    <2>3. [deliveries[d] EXCEPT !.pc = "filed"] \in Delivery
      BY DEF Delivery
    <2>4. QED
      BY <1>3, <2>2, <2>3 DEF WebhookFile, bankVars
  <1>4. CASE WebhookAck(d)
    <2>1. ASSUME NEW q \in Requests
          PROVE  [events[q] EXCEPT !.state = "acked"] \in Event
      BY DEF Event
    <2>2. r \in Requests
      BY <1>4 DEF WebhookAck, EventsAreOwed
    <2>3. QED
      BY <1>4, <2>1, <2>2 DEF WebhookAck
  <1>5. CASE WebhookLost(d)
    <2>1. ASSUME NEW q \in Requests
          PROVE  [events[q] EXCEPT !.state = IF @ = "queued" /\ events[q].tries = MaxAttempts
                                            THEN "failed" ELSE @] \in Event
      BY DEF Event
    <2>2. r \in Requests /\ lost' \in 0..MaxLost
      BY <1>5, PayrollAssumption DEF WebhookLost, EventsAreOwed
    <2>3. QED
      BY <1>5, <2>1, <2>2 DEF WebhookLost
  <1>6. QED
    BY <1>1, <1>2, <1>3, <1>4, <1>5 DEF Webhook

LEMMA TypeStep == IInv /\ [Next]_vars => TypeOK'
  <1> SUFFICES ASSUME IInv, [Next]_vars PROVE TypeOK'
    OBVIOUS
  <1>1. CASE Midnight
    <2>1. clock' \in Clock
      BY <1>1, PayrollAssumption DEF Midnight, IInv, TypeOK, Clock
    <2>2. QED
      BY <1>1, <2>1 DEF Midnight, appVars, bankVars, IInv, TypeOK
  <1>2. ASSUME NEW c \in Companies, ChangePayday(c) PROVE TypeOK'
    BY <1>2 DEF ChangePayday, bankVars, IInv, TypeOK
  <1>3. CASE UNCHANGED vars
    BY <1>3 DEF vars, IInv, TypeOK
  <1>4. QED
    BY <1>1, <1>2, <1>3, PreviewTypes, ConfirmTypes, BankTypes, WebhookTypes DEF Next

-----------------------------------------------------------------------------
(* What the bank knows only grows: an executed request stays executed, for *)
(* the same company and on the same day, and a known one stays known.      *)

BankGrows ==
  \A r \in Requests :
    /\ bank[r].state # "none" =>
         bank'[r].state # "none" /\ bank'[r].company = bank[r].company
    /\ Executed(r) => Executed(r)' /\ bank'[r] = bank[r]

LEMMA BankStep == IInv /\ [Next]_vars => BankGrows
  <1> SUFFICES ASSUME IInv, [Next]_vars PROVE BankGrows
    OBVIOUS
  <1> USE DEF IInv, TypeOK, BankGrows, Executed
  <1>1. ASSUME NEW h \in Calls, Preview(h) PROVE BankGrows
    BY <1>1 DEF Preview, PreviewContext, PreviewCheck, PreviewQuote, bankVars
  <1>2. ASSUME NEW h \in Calls, Confirm(h) \/ Abandon(h) PROVE BankGrows
    <2>1. CASE BankApproves(h)
      BY <2>1 DEF BankApproves, ExecutesAtBank
    <2>2. CASE ~BankApproves(h)
      BY <1>2, <2>2 DEF Confirm, ConfirmLoad, ConfirmPeriod, BankRefuses, ConfirmRecord,
         Abandon, bankVars
    <2>3. QED
      BY <2>1, <2>2
  <1>3. CASE Bank
    <2>1. ASSUME NEW r \in Requests, LateApproval(r) PROVE BankGrows
      BY <2>1 DEF LateApproval, ExecutesAtBank
    <2>2. ASSUME NEW r \in Requests, LateApprovalLost(r) \/ Replay(r) PROVE BankGrows
      BY <2>2 DEF LateApprovalLost, Replay
    <2>3. ASSUME NEW r \in Requests, NEW c \in Companies, BankOwnRun(r, c) PROVE BankGrows
      BY <2>3 DEF BankOwnRun
    <2>4. QED
      BY <1>3, <2>1, <2>2, <2>3 DEF Bank
  <1>4. ASSUME NEW d \in Deliveries, Webhook(d) PROVE BankGrows
    BY <1>4 DEF Webhook, Deliver, WebhookPeriod, WebhookFile, WebhookAck, WebhookLost,
       bankVars
  <1>5. CASE Midnight \/ \E c \in Companies : ChangePayday(c)
    BY <1>5 DEF Midnight, ChangePayday, bankVars
  <1>6. CASE UNCHANGED vars
    BY <1>6 DEF vars
  <1>7. QED
    BY <1>1, <1>2, <1>3, <1>4, <1>5, <1>6 DEF Next

\* A row is only ever added by Record, on account of a request the bank has
\* executed for the row's company, under that request's id or under none.
Files(c, p, r) ==
  /\ Executed(r) /\ bank[r].company = c
  /\ \/ Record(c, p, r)
     \/ Record(c, p, None)

LEMMA OnlyRecordFiles ==
  ASSUME IInv, [Next]_vars
  PROVE  \/ UNCHANGED payrollRuns
         \/ \E c \in Companies, p \in Periods, r \in Requests : Files(c, p, r) /\ UNCHANGED bank
  <1> USE DEF IInv, TypeOK
  <1>1. ASSUME NEW h \in Calls, ConfirmRecord(h)
        PROVE  Files(calls[h].company, calls[h].period, calls[h].request) /\ UNCHANGED bank
               /\ calls[h].company \in Companies /\ calls[h].period \in Periods
               /\ calls[h].request \in Requests
    BY <1>1 DEF ConfirmRecord, Files, CallsKnowTheirRequest, bankVars
  <1>2. ASSUME NEW d \in Deliveries, WebhookFile(d)
        PROVE  \/ UNCHANGED payrollRuns
               \/ \E c \in Companies, p \in Periods, r \in Requests :
                    Files(c, p, r) /\ UNCHANGED bank
    <2> DEFINE r == deliveries[d].request
    <2>1. /\ r \in Requests /\ Executed(r) /\ bank[r].company \in Companies
      BY <1>2 DEF WebhookFile, EventsAreOwed, BankKnowsTheCompany, Executed
    <2>2. deliveries[d].period \in Periods
      <3>1. bank[r].at \in Clock
        BY <2>1 DEF BankRequest
      <3>2. QED
        BY <1>2, <2>1, <3>1, PeriodTyped DEF WebhookFile, EventsAreOwed, MonthsOf
    <2>3. \/ UNCHANGED payrollRuns
          \/ Files(bank[r].company, deliveries[d].period, r)
      BY <1>2, <2>1 DEF WebhookFile, Files
    <2>4. QED
      BY <1>2, <2>1, <2>2, <2>3 DEF WebhookFile, bankVars
  <1>3. CASE \E h \in Calls : Preview(h)
    BY <1>3 DEF Preview, PreviewContext, PreviewCheck, PreviewQuote
  <1>4. ASSUME NEW h \in Calls, Confirm(h) \/ Abandon(h), ~ConfirmRecord(h)
        PROVE  UNCHANGED payrollRuns
    BY <1>4 DEF Confirm, ConfirmLoad, ConfirmPeriod, BankApproves, BankRefuses, Abandon
  <1>5. CASE Bank
    BY <1>5 DEF Bank, LateApproval, LateApprovalLost, Replay, BankOwnRun, appVars
  <1>6. ASSUME NEW d \in Deliveries, Webhook(d), ~WebhookFile(d)
        PROVE  UNCHANGED payrollRuns
    BY <1>6 DEF Webhook, Deliver, WebhookPeriod, WebhookAck, WebhookLost
  <1>7. CASE Midnight \/ \E c \in Companies : ChangePayday(c)
    BY <1>7 DEF Midnight, ChangePayday, appVars
  <1>8. CASE UNCHANGED vars
    BY <1>8 DEF vars
  <1>9. QED
    BY <1>1, <1>2, <1>3, <1>4, <1>5, <1>6, <1>7, <1>8 DEF Next

LEMMA FiledStep == IInv /\ [Next]_vars => FiledMeansExecuted' /\ FiledOnce'
  <1> SUFFICES ASSUME IInv, [Next]_vars PROVE FiledMeansExecuted' /\ FiledOnce'
    OBVIOUS
  <1>1. BankGrows
    BY BankStep
  <1>2. CASE UNCHANGED payrollRuns
    <2>1. FiledOnce'
      BY <1>2 DEF IInv, FiledOnce
    <2>2. FiledMeansExecuted'
      BY <1>1, <1>2 DEF IInv, FiledMeansExecuted, BankGrows
    <2>3. QED
      BY <2>1, <2>2
  <1>3. ASSUME NEW c \in Companies, NEW p \in Periods, NEW r \in Requests,
               Files(c, p, r), UNCHANGED bank
        PROVE  FiledMeansExecuted' /\ FiledOnce'
    <2>1. PICK id \in {r, None} : Record(c, p, id)
      BY <1>3 DEF Files
    <2> DEFINE row == [company |-> c, period |-> p, request |-> id]
    <2>2. CASE Clash(c, p, id)
      BY <1>3, <2>1, <2>2 DEF Record, IInv, FiledOnce, FiledMeansExecuted, Executed
    <2>3. CASE ~Clash(c, p, id)
      <3>1. payrollRuns' = payrollRuns \union {row}
        BY <2>1, <2>3 DEF Record
      <3>2. FiledOnce'
        BY <2>3, <3>1 DEF Clash, IInv, FiledOnce
      <3>3. FiledMeansExecuted'
        BY <1>3, <3>1 DEF Files, IInv, FiledMeansExecuted, Executed
      <3>4. QED
        BY <3>2, <3>3
    <2>4. QED
      BY <2>2, <2>3
  <1>4. QED
    BY <1>2, <1>3, OnlyRecordFiles

-----------------------------------------------------------------------------
(* Calls, the bank's own knowledge, and what is owed.                      *)

LEMMA CallsStep == IInv /\ [Next]_vars => CallsKnowTheirRequest'
  <1> SUFFICES ASSUME IInv, [Next]_vars PROVE CallsKnowTheirRequest'
    OBVIOUS
  <1>0. BankGrows
    BY BankStep
  <1> USE DEF IInv, TypeOK, CallsKnowTheirRequest
  <1>1. ASSUME UNCHANGED calls PROVE CallsKnowTheirRequest'
    BY <1>0, <1>1 DEF BankGrows
  <1>2. ASSUME NEW h \in Calls, Preview(h) PROVE CallsKnowTheirRequest'
    <2>1. ASSUME NEW c \in Companies, PreviewContext(h, c) PROVE CallsKnowTheirRequest'
      BY <2>1, PeriodTyped DEF PreviewContext, NoCall, bankVars, Executed
    <2>2. CASE PreviewCheck(h)
      BY <2>2 DEF PreviewCheck, NoCall, bankVars, Executed
    <2>3. ASSUME NEW r \in Requests, PreviewQuote(h, r) PROVE CallsKnowTheirRequest'
      BY <1>0, <2>3 DEF PreviewQuote, NoCall, BankGrows
    <2>4. QED
      BY <1>2, <2>1, <2>2, <2>3 DEF Preview
  <1>3. ASSUME NEW h \in Calls, Confirm(h) \/ Abandon(h) PROVE CallsKnowTheirRequest'
    <2>1. ASSUME NEW c \in Companies, NEW r \in Requests, ConfirmLoad(h, c, r)
          PROVE  CallsKnowTheirRequest'
      BY <2>1 DEF ConfirmLoad, NoCall, bankVars, Executed
    <2>2. CASE ConfirmPeriod(h)
      <3>1. Period(payday[calls[h].company], calls[h].at) \in Periods
        BY <2>2, PeriodTyped DEF ConfirmPeriod, Call
      <3>2. QED
        BY <2>2, <3>1 DEF ConfirmPeriod, bankVars, Executed
    <2>3. CASE BankApproves(h)
      BY <1>0, <2>3 DEF BankApproves, ExecutesAtBank, BankGrows, Executed
    <2>4. CASE BankRefuses(h) \/ ConfirmRecord(h) \/ Abandon(h)
      BY <1>0, <2>4 DEF BankRefuses, ConfirmRecord, Abandon, NoCall, BankGrows
    <2>5. QED
      BY <1>3, <2>1, <2>2, <2>3, <2>4 DEF Confirm
  <1>4. CASE Bank
    BY <1>1, <1>4 DEF Bank, LateApproval, LateApprovalLost, Replay, BankOwnRun, appVars
  <1>5. ASSUME NEW d \in Deliveries, Webhook(d) PROVE CallsKnowTheirRequest'
    BY <1>1, <1>5 DEF Webhook, Deliver, WebhookPeriod, WebhookFile, WebhookAck, WebhookLost
  <1>6. CASE Midnight \/ \E c \in Companies : ChangePayday(c)
    BY <1>1, <1>6 DEF Midnight, ChangePayday, appVars
  <1>7. CASE UNCHANGED vars
    BY <1>1, <1>7 DEF vars
  <1>8. QED
    BY <1>2, <1>3, <1>4, <1>5, <1>6, <1>7 DEF Next

LEMMA CompanyStep == IInv /\ [Next]_vars => BankKnowsTheCompany'
  <1> SUFFICES ASSUME IInv, [Next]_vars PROVE BankKnowsTheCompany'
    OBVIOUS
  <1> USE DEF IInv, TypeOK, BankKnowsTheCompany
  <1>1. CASE UNCHANGED bank /\ orphans' \subseteq orphans
    BY <1>1
  <1>2. ASSUME NEW h \in Calls, Preview(h) PROVE BankKnowsTheCompany'
    <2>1. ASSUME NEW r \in Requests, PreviewQuote(h, r) PROVE BankKnowsTheCompany'
      BY <2>1 DEF PreviewQuote, NoRequest, CallsKnowTheirRequest
    <2>2. QED
      BY <1>1, <1>2, <2>1 DEF Preview, PreviewContext, PreviewCheck, bankVars
  <1>3. ASSUME NEW h \in Calls, Confirm(h) \/ Abandon(h) PROVE BankKnowsTheCompany'
    <2>1. CASE BankApproves(h)
      BY <2>1 DEF BankApproves, ExecutesAtBank
    <2>2. CASE Abandon(h)
      BY <2>2 DEF Abandon, CallsKnowTheirRequest
    <2>3. CASE ConfirmPeriod(h) \/ BankRefuses(h) \/ ConfirmRecord(h)
      BY <1>1, <2>3 DEF ConfirmPeriod, BankRefuses, ConfirmRecord, bankVars
    <2>4. ASSUME NEW c \in Companies, NEW r \in Requests, ConfirmLoad(h, c, r)
          PROVE  BankKnowsTheCompany'
      BY <1>1, <2>4 DEF ConfirmLoad, bankVars
    <2>5. QED
      BY <1>3, <2>1, <2>2, <2>3, <2>4 DEF Confirm
  <1>4. CASE Bank
    <2>1. ASSUME NEW r \in Requests, LateApproval(r) PROVE BankKnowsTheCompany'
      BY <2>1 DEF LateApproval, ExecutesAtBank
    <2>2. ASSUME NEW r \in Requests, LateApprovalLost(r) \/ Replay(r)
          PROVE  BankKnowsTheCompany'
      BY <1>1, <2>2 DEF LateApprovalLost, Replay
    <2>3. ASSUME NEW r \in Requests, NEW c \in Companies, BankOwnRun(r, c)
          PROVE  BankKnowsTheCompany'
      BY <2>3 DEF BankOwnRun
    <2>4. QED
      BY <1>4, <2>1, <2>2, <2>3 DEF Bank
  <1>5. ASSUME NEW d \in Deliveries, Webhook(d) PROVE BankKnowsTheCompany'
    BY <1>1, <1>5 DEF Webhook, Deliver, WebhookPeriod, WebhookFile, WebhookAck, WebhookLost,
       bankVars
  <1>6. CASE Midnight \/ \E c \in Companies : ChangePayday(c)
    BY <1>1, <1>6 DEF Midnight, ChangePayday, bankVars
  <1>7. CASE UNCHANGED vars
    BY <1>1, <1>7 DEF vars
  <1>8. QED
    BY <1>2, <1>3, <1>4, <1>5, <1>6, <1>7 DEF Next

LEMMA EventsStep == IInv /\ [Next]_vars => EventsAreOwed'
  <1> SUFFICES ASSUME IInv, [Next]_vars PROVE EventsAreOwed'
    OBVIOUS
  <1>0. BankGrows
    BY BankStep
  <1> USE DEF IInv, TypeOK, EventsAreOwed
  <1>1. ASSUME UNCHANGED deliveries,
               \A r \in Requests :
                 events'[r].state # "none" => events[r].state # "none" \/ Executed(r)'
        PROVE  EventsAreOwed'
    BY <1>0, <1>1 DEF BankGrows, MonthsOf
  <1>2. ASSUME NEW h \in Calls, Preview(h) PROVE EventsAreOwed'
    BY <1>1, <1>2 DEF Preview, PreviewContext, PreviewCheck, PreviewQuote, bankVars
  <1>3. ASSUME NEW h \in Calls, Confirm(h) \/ Abandon(h) PROVE EventsAreOwed'
    <2>1. CASE BankApproves(h)
      BY <1>1, <2>1 DEF BankApproves, ExecutesAtBank, Executed
    <2>2. CASE ~BankApproves(h)
      BY <1>1, <1>3, <2>2 DEF Confirm, ConfirmLoad, ConfirmPeriod, BankRefuses,
         ConfirmRecord, Abandon, bankVars
    <2>3. QED
      BY <2>1, <2>2
  <1>4. CASE Bank
    <2>1. ASSUME NEW r \in Requests, LateApproval(r) PROVE EventsAreOwed'
      BY <1>1, <2>1 DEF LateApproval, ExecutesAtBank, Executed, appVars
    <2>2. ASSUME NEW r \in Requests, LateApprovalLost(r) \/ Replay(r) PROVE EventsAreOwed'
      BY <1>1, <2>2 DEF LateApprovalLost, Replay, appVars
    <2>3. ASSUME NEW r \in Requests, NEW c \in Companies, BankOwnRun(r, c)
          PROVE  EventsAreOwed'
      BY <1>1, <2>3 DEF BankOwnRun, Executed, appVars
    <2>4. QED
      BY <1>4, <2>1, <2>2, <2>3 DEF Bank
  <1>5. ASSUME NEW d \in Deliveries, Webhook(d) PROVE EventsAreOwed'
    <2> DEFINE r == deliveries[d].request
    <2>0. UNCHANGED bank
      BY <1>5 DEF Webhook, Deliver, WebhookPeriod, WebhookFile, WebhookAck, WebhookLost,
         bankVars
    <2>1. ASSUME NEW q \in Requests, Deliver(d, q) PROVE EventsAreOwed'
      BY <2>0, <2>1 DEF Deliver, NoDelivery, Executed, MonthsOf
    <2>2. CASE WebhookPeriod(d)
      <3>1. r \in Requests /\ payday[bank[r].company] \in Settings
        BY <2>2 DEF WebhookPeriod, BankKnowsTheCompany, Executed
      <3>2. Period(payday[bank[r].company], bank[r].at) \in MonthsOf(r)
        BY <3>1 DEF MonthsOf
      <3>3. QED
        BY <2>0, <2>2, <3>1, <3>2 DEF WebhookPeriod, bankVars, Executed, MonthsOf
    <2>3. CASE WebhookFile(d)
      BY <2>0, <2>3 DEF WebhookFile, bankVars, Executed, MonthsOf
    <2>4. CASE WebhookAck(d) \/ WebhookLost(d)
      BY <2>0, <2>4 DEF WebhookAck, WebhookLost, NoDelivery, Executed, MonthsOf
    <2>5. QED
      BY <1>5, <2>1, <2>2, <2>3, <2>4 DEF Webhook
  <1>6. CASE Midnight \/ \E c \in Companies : ChangePayday(c)
    BY <1>1, <1>6 DEF Midnight, ChangePayday, appVars, bankVars
  <1>7. CASE UNCHANGED vars
    BY <1>1, <1>7 DEF vars
  <1>8. QED
    BY <1>2, <1>3, <1>4, <1>5, <1>6, <1>7 DEF Next

-----------------------------------------------------------------------------
LEMMA Invariance == Spec => []IInv
  <1>1. IInv /\ [Next]_vars => IInv'
    BY TypeStep, CallsStep, CompanyStep, EventsStep, FiledStep DEF IInv
  <1>2. QED
    BY <1>1, InitEstablishes, PTL DEF Spec

\* Type correctness of PayrollRun.
THEOREM Typing == Spec => []TypeOK
  <1>1. IInv => TypeOK
    BY DEF IInv
  <1>2. QED
    BY <1>1, Invariance, PTL

\* No row without its money: whatever timed out, died or was delivered twice,
\* a period is on file as paid only for a company whose run the bank executed.
THEOREM FiledRowsAreExecuted == Spec => []FiledMeansExecuted
  <1>1. IInv => FiledMeansExecuted
    BY DEF IInv
  <1>2. QED
    BY <1>1, Invariance, PTL

\* One row per period and one per request, whatever confirm, the webhook and
\* its redeliveries do at once and however the payday moves.
THEOREM FiledRowsAreUnique == Spec => []FiledOnce
  <1>1. IInv => FiledOnce
    BY DEF IInv
  <1>2. QED
    BY <1>1, Invariance, PTL

-----------------------------------------------------------------------------
(* Refinement of PayrollLedger.                                            *)

\* The bank executes at most one request in a step, and files nothing by it.
LEMMA OneMovesAtATime ==
  ASSUME IInv, [Next]_vars
  PROVE  \/ \A r \in Requests : (Executed(r)' => Executed(r))
         \/ /\ UNCHANGED payrollRuns
            /\ \E r \in Requests :
                 /\ ~Executed(r) /\ Executed(r)' /\ bank'[r].company \in Companies
                 /\ \A q \in Requests \ {r} : bank'[q] = bank[q]
  <1> USE DEF IInv, TypeOK, Executed
  <1>1. ASSUME NEW h \in Calls, Preview(h) PROVE \A r \in Requests : Executed(r)' => Executed(r)
    <2>1. ASSUME NEW c \in Companies, PreviewContext(h, c) PROVE UNCHANGED bank
      BY <2>1 DEF PreviewContext, bankVars
    <2>2. ASSUME PreviewCheck(h) PROVE UNCHANGED bank
      BY <2>2 DEF PreviewCheck, bankVars
    <2>3. ASSUME NEW r \in Requests, PreviewQuote(h, r)
          PROVE  \A q \in Requests : Executed(q)' => Executed(q)
      <3>1. bank'[r].state = "PENDING"
        BY <2>3 DEF PreviewQuote, NoRequest
      <3>2. \A q \in Requests \ {r} : bank'[q] = bank[q]
        BY <2>3 DEF PreviewQuote
      <3>3. QED
        BY <3>1, <3>2
    <2>4. QED
      BY <1>1, <2>1, <2>2, <2>3 DEF Preview
  <1>2. ASSUME NEW h \in Calls, BankApproves(h)
        PROVE  /\ UNCHANGED payrollRuns
               /\ \E r \in Requests :
                    /\ ~Executed(r) /\ Executed(r)' /\ bank'[r].company \in Companies
                    /\ \A q \in Requests \ {r} : bank'[q] = bank[q]
    <2>1. calls[h].request \in Requests
      BY <1>2 DEF BankApproves, CallsKnowTheirRequest
    <2>2. QED
      BY <1>2, <2>1 DEF BankApproves, ExecutesAtBank, BankKnowsTheCompany, BankRequest
  <1>3. ASSUME NEW h \in Calls, Confirm(h) \/ Abandon(h), ~BankApproves(h)
        PROVE  \A r \in Requests : Executed(r)' => Executed(r)
    BY <1>3 DEF Confirm, ConfirmLoad, ConfirmPeriod, BankRefuses, ConfirmRecord, Abandon,
       bankVars
  <1>4. ASSUME NEW r \in Requests, LateApproval(r)
        PROVE  /\ UNCHANGED payrollRuns /\ ~Executed(r) /\ Executed(r)'
               /\ bank'[r].company \in Companies
               /\ \A q \in Requests \ {r} : bank'[q] = bank[q]
    BY <1>4 DEF LateApproval, ExecutesAtBank, BankKnowsTheCompany, BankRequest, appVars
  <1>5. ASSUME NEW r \in Requests, NEW c \in Companies, BankOwnRun(r, c)
        PROVE  /\ UNCHANGED payrollRuns /\ ~Executed(r) /\ Executed(r)'
               /\ bank'[r].company \in Companies
               /\ \A q \in Requests \ {r} : bank'[q] = bank[q]
    BY <1>5 DEF BankOwnRun, appVars
  <1>6. ASSUME NEW r \in Requests, LateApprovalLost(r) \/ Replay(r)
        PROVE  UNCHANGED bank
    BY <1>6 DEF LateApprovalLost, Replay
  <1>7. ASSUME NEW d \in Deliveries, Webhook(d) PROVE UNCHANGED bank
    BY <1>7 DEF Webhook, Deliver, WebhookPeriod, WebhookFile, WebhookAck, WebhookLost,
       bankVars
  <1>8. CASE Midnight \/ \E c \in Companies : ChangePayday(c)
    BY <1>8 DEF Midnight, ChangePayday, bankVars
  <1>9. CASE UNCHANGED vars
    BY <1>9 DEF vars
  <1>10. CASE Bank
    BY <1>4, <1>5, <1>6, <1>10 DEF Bank
  <1>11. QED
    BY <1>1, <1>2, <1>3, <1>7, <1>8, <1>9, <1>10 DEF Next

\* Every step of PayrollRun moves money, files a row, or does neither as far
\* as the ledger can tell.
LEMMA StepRefines ==
  ASSUME IInv, [Next]_vars
  PROVE  [Ledger!LedgerNext]_(Ledger!ledgerVars)
  <1> DEFINE Moved == [r \in Requests |-> IF Executed(r) THEN bank[r].company ELSE None]
  <1>0. BankGrows
    BY BankStep
  <1>1. CASE UNCHANGED payrollRuns /\ \A r \in Requests : (Executed(r)' => Executed(r))
    <2>1. Moved' = Moved
      BY <1>0, <1>1 DEF BankGrows
    <2>2. QED
      BY <1>1, <2>1 DEF Ledger!ledgerVars
  <1>2. CASE /\ UNCHANGED payrollRuns
             /\ \E r \in Requests :
                  /\ ~Executed(r) /\ Executed(r)' /\ bank'[r].company \in Companies
                  /\ \A q \in Requests \ {r} : bank'[q] = bank[q]
    <2>1. PICK r \in Requests :
            /\ ~Executed(r) /\ Executed(r)' /\ bank'[r].company \in Companies
            /\ \A q \in Requests \ {r} : bank'[q] = bank[q]
      BY <1>2
    <2>2. PICK c \in Companies : c = bank'[r].company
      BY <2>1
    <2>3. Moved[r] = None
      BY <2>1
    <2>4. Moved' = [Moved EXCEPT ![r] = c]
      BY <2>1, <2>2 DEF Executed
    <2>5. Ledger!Move(r, c)
      BY <1>2, <2>3, <2>4 DEF Ledger!Move
    <2>6. QED
      BY <2>5 DEF Ledger!LedgerNext
  <1>3. ASSUME NEW c \in Companies, NEW p \in Periods, NEW r \in Requests,
               Files(c, p, r), UNCHANGED bank, payrollRuns' # payrollRuns
        PROVE  Ledger!LedgerNext
    <2>1. PICK id \in {r, None} : Record(c, p, id)
      BY <1>3 DEF Files
    <2> DEFINE row == [company |-> c, period |-> p, request |-> id]
    <2>2. ~Clash(c, p, id) /\ payrollRuns' = payrollRuns \union {row}
      BY <1>3, <2>1 DEF Record
    <2>3. Moved' = Moved
      BY <1>3 DEF Executed
    <2>4. Ledger!Backed(row)
      BY <1>3, <2>1 DEF Ledger!Backed, Files
    <2>5. \A other \in payrollRuns : ~Ledger!Conflicts(row, other)
      BY <2>2 DEF Clash, Ledger!Conflicts
    <2>6. Ledger!File(row)
      BY <2>2, <2>3, <2>4, <2>5 DEF Ledger!File
    <2>7. row \in [company : Companies, period : Periods, request : Requests \union {None}]
      OBVIOUS
    <2>8. QED
      BY <2>6, <2>7 DEF Ledger!LedgerNext
  <1>4. QED
    BY <1>1, <1>2, <1>3, OneMovesAtATime, OnlyRecordFiles

\* PayrollRun implements PayrollLedger: money moves one request at a time, and
\* what is filed is backed by money that moved, conflicts with nothing on file
\* and stays on file.
THEOREM LedgerImplemented == Spec => ImplementsLedger
  <1>1. Init => Ledger!LedgerInit
    BY DEF Init, Ledger!LedgerInit, Executed, NoRequest
  <1>2. IInv /\ [Next]_vars => [Ledger!LedgerNext]_(Ledger!ledgerVars)
    BY StepRefines
  <1>3. QED
    BY <1>1, <1>2, Invariance, PTL DEF Spec, ImplementsLedger, Ledger!LedgerSpec

-----------------------------------------------------------------------------
(* What an acknowledgement means, for a database that does not refuse rows. *)

\* A delivery that is past filing has left its mark already.
FiledDeliveriesAreOnFile ==
  \A d \in Deliveries :
    deliveries[d].pc = "filed" /\ bank[deliveries[d].request].ours
      => OnFile(deliveries[d].request)

AInv == AckedMeansFiled /\ FiledDeliveriesAreOnFile

LEMMA OnFileIsStable ==
  ASSUME IInv, [Next]_vars, NEW r \in Requests, Executed(r), OnFile(r)
  PROVE  OnFile(r)'
  <1>1. bank'[r] = bank[r]
    BY BankStep DEF BankGrows
  <1>2. payrollRuns \subseteq payrollRuns'
    BY OnlyRecordFiles DEF Files, Record
  <1>3. QED
    BY <1>1, <1>2 DEF OnFile, MonthsOf

\* Whatever record finds or writes for a request is a mark of that request.
LEMMA RecordLeavesAMark ==
  ASSUME IInv, NEW r \in Requests, NEW p \in MonthsOf(r), NEW id \in {r, None},
         Record(bank[r].company, p, id), UNCHANGED bank
  PROVE  OnFile(r)'
  <1>1. CASE \E row \in payrollRuns : row.company = bank[r].company /\ row.period = p
    BY <1>1 DEF Record, Clash, OnFile, MonthsOf
  <1>2. CASE id = r /\ \E row \in payrollRuns : row.request = r
    <2>1. PICK row \in payrollRuns : row.request = r
      BY <1>2
    <2>2. row.company = bank[r].company
      BY <2>1, NoneIsNobody DEF IInv, FiledMeansExecuted
    <2>3. QED
      BY <2>1, <2>2 DEF Record, OnFile, MonthsOf
  <1>3. CASE ~Clash(bank[r].company, p, id)
    <2>1. [company |-> bank[r].company, period |-> p, request |-> id] \in payrollRuns'
      BY <1>3 DEF Record
    <2>2. QED
      BY <2>1 DEF OnFile, MonthsOf
  <1>4. QED
    BY <1>1, <1>2, <1>3, NoneIsNobody DEF Clash

LEMMA AckStep ==
  ASSUME FilingMayFail = FALSE, IInv, AInv, [Next]_vars
  PROVE  AInv'
  <1> USE DEF AInv
  <1>0. /\ \A r \in Requests : Executed(r) => bank'[r] = bank[r]
        /\ \A r \in Requests : Executed(r) /\ OnFile(r) => OnFile(r)'
    BY BankStep, OnFileIsStable DEF BankGrows
  \* Steps that acknowledge nothing and file no delivery.
  <1>1. ASSUME \A r \in Requests : events'[r].state = "acked" => events[r].state = "acked",
               \A d \in Deliveries :
                 deliveries'[d].pc = "filed" => deliveries'[d] = deliveries[d]
        PROVE  AInv'
    <2>1. AckedMeansFiled'
      BY <1>0, <1>1 DEF AckedMeansFiled, IInv, EventsAreOwed
    <2>2. FiledDeliveriesAreOnFile'
      BY <1>0, <1>1 DEF FiledDeliveriesAreOnFile, IInv, EventsAreOwed
    <2>3. QED
      BY <2>1, <2>2
  <1> USE DEF IInv, TypeOK
  <1>2. ASSUME NEW h \in Calls, Preview(h) PROVE AInv'
    BY <1>1, <1>2 DEF Preview, PreviewContext, PreviewCheck, PreviewQuote, bankVars
  <1>3. ASSUME NEW h \in Calls, Confirm(h) \/ Abandon(h) PROVE AInv'
    <2>1. CASE BankApproves(h)
      BY <1>1, <2>1 DEF BankApproves, ExecutesAtBank
    <2>2. CASE ~BankApproves(h)
      BY <1>1, <1>3, <2>2 DEF Confirm, ConfirmLoad, ConfirmPeriod, BankRefuses,
         ConfirmRecord, Abandon, bankVars
    <2>3. QED
      BY <2>1, <2>2
  <1>4. CASE Bank
    <2>1. ASSUME NEW r \in Requests, LateApproval(r) PROVE AInv'
      BY <1>1, <2>1 DEF LateApproval, ExecutesAtBank, appVars
    <2>2. ASSUME NEW r \in Requests, LateApprovalLost(r) \/ Replay(r) PROVE AInv'
      BY <1>1, <2>2 DEF LateApprovalLost, Replay, appVars
    <2>3. ASSUME NEW r \in Requests, NEW c \in Companies, BankOwnRun(r, c) PROVE AInv'
      BY <1>1, <2>3 DEF BankOwnRun, appVars
    <2>4. QED
      BY <1>4, <2>1, <2>2, <2>3 DEF Bank
  <1>5. ASSUME NEW d \in Deliveries, Webhook(d) PROVE AInv'
    <2> DEFINE r == deliveries[d].request
    <2>1. ASSUME NEW q \in Requests, Deliver(d, q) PROVE AInv'
      BY <1>1, <2>1 DEF Deliver, NoDelivery
    <2>2. CASE WebhookPeriod(d)
      <3>1. AckedMeansFiled'
        BY <2>2 DEF WebhookPeriod, bankVars, AckedMeansFiled, OnFile, MonthsOf
      <3>2. FiledDeliveriesAreOnFile'
        BY <2>2 DEF WebhookPeriod, bankVars, FiledDeliveriesAreOnFile, OnFile, MonthsOf
      <3>3. QED
        BY <3>1, <3>2
    <2>3. CASE WebhookFile(d)
      <3>1. r \in Requests /\ deliveries[d].period \in MonthsOf(r)
        BY <2>3 DEF WebhookFile, EventsAreOwed
      <3>2. OnFile(r)'
        BY <2>3, <3>1, RecordLeavesAMark DEF WebhookFile, bankVars
      <3>3. AckedMeansFiled'
        BY <1>0, <2>3 DEF WebhookFile, bankVars, AckedMeansFiled, EventsAreOwed
      <3>4. FiledDeliveriesAreOnFile'
        BY <1>0, <2>3, <3>2 DEF WebhookFile, bankVars, FiledDeliveriesAreOnFile, EventsAreOwed
      <3>5. QED
        BY <3>3, <3>4
    <2>4. CASE WebhookAck(d)
      <3>1. r \in Requests
        BY <2>4 DEF WebhookAck, EventsAreOwed
      <3>2. AckedMeansFiled'
        BY <2>4, <3>1 DEF WebhookAck, AckedMeansFiled, FiledDeliveriesAreOnFile, OnFile, MonthsOf
      <3>3. FiledDeliveriesAreOnFile'
        BY <2>4 DEF WebhookAck, FiledDeliveriesAreOnFile, OnFile, MonthsOf, NoDelivery
      <3>4. QED
        BY <3>2, <3>3
    <2>5. CASE WebhookLost(d)
      BY <1>1, <2>5 DEF WebhookLost, NoDelivery
    <2>6. QED
      BY <1>5, <2>1, <2>2, <2>3, <2>4, <2>5 DEF Webhook
  <1>6. CASE Midnight \/ \E c \in Companies : ChangePayday(c)
    BY <1>1, <1>6 DEF Midnight, ChangePayday, appVars, bankVars
  <1>7. CASE UNCHANGED vars
    BY <1>1, <1>7 DEF vars
  <1>8. QED
    BY <1>2, <1>3, <1>4, <1>5, <1>6, <1>7 DEF Next

\* An acknowledged run is on file: once the bank has been told its event is
\* handled, a connected company's books show the salaries, as long as the
\* database does not refuse the row (its refusal is swallowed).
THEOREM AcknowledgedRunsAreOnFile ==
  ASSUME FilingMayFail = FALSE
  PROVE  Spec => []AckedMeansFiled
  <1>1. Init => AInv
    BY DEF Init, AInv, AckedMeansFiled, FiledDeliveriesAreOnFile, NoDelivery
  <1>2. IInv /\ AInv /\ [Next]_vars => AInv'
    BY AckStep
  <1>3. AInv => AckedMeansFiled
    BY DEF AInv
  <1>4. QED
    BY <1>1, <1>2, <1>3, Invariance, PTL DEF Spec

-----------------------------------------------------------------------------
(* The month on a row.  Confirm reads the payday and the clock again, and   *)
(* the webhook again after it, so the month filed need not be the month     *)
(* priced; what can be said is when they must agree.                        *)

CallsAreDated ==
  \A h \in Calls :
    /\ calls[h].at <= clock
    /\ calls[h].pc \in {"previewing", "pricing", "approving"} => Offered(calls[h].period, clock)
    /\ calls[h].pc = "executed" => Offered(calls[h].period, bank[calls[h].request].at)

QuotesAreDated ==
  \A r \in Requests : priced[r] # None =>
    /\ Executed(r) => Offered(priced[r], bank[r].at)
    /\ ~Executed(r) => Offered(priced[r], clock)

RowsAreDated ==
  \A row \in payrollRuns :
    row.request # None => Executed(row.request) /\ Offered(row.period, bank[row.request].at)

DInv == CallsAreDated /\ QuotesAreDated /\ RowsAreDated

LEMMA ClockTyped ==
  ASSUME TypeOK
  PROVE  /\ clock \in Nat /\ Clock \subseteq Nat
         /\ \A h \in Calls : calls[h].at \in Nat
         /\ \A r \in Requests : bank[r].at \in Nat
  BY FirstClock DEF TypeOK, Call, BankRequest

LEMMA OfferedGrows ==
  ASSUME NEW p, NEW n \in Nat, NEW k \in Nat, n <= k, Offered(p, n)
  PROVE  Offered(p, k)
  <1>1. PICK s \in Settings, i \in Clock : i <= n /\ p = Period(s, i)
    BY DEF Offered
  <1>2. i \in Nat /\ i <= k
    BY <1>1, FirstClock
  <1>3. QED
    BY <1>1, <1>2 DEF Offered

LEMMA ClockStep ==
  ASSUME IInv, [Next]_vars
  PROVE  clock' \in Nat /\ clock <= clock'
  <1>1. clock' = clock \/ clock' = clock + 1
    BY DEF Next, Midnight, ChangePayday, Preview, PreviewContext, PreviewCheck, PreviewQuote,
       Confirm, ConfirmLoad, ConfirmPeriod, BankApproves, BankRefuses, ConfirmRecord, Abandon,
       Bank, LateApproval, LateApprovalLost, Replay, BankOwnRun, Webhook, Deliver,
       WebhookPeriod, WebhookFile, WebhookAck, WebhookLost, vars
  <1>2. QED
    BY <1>1, ClockTyped DEF IInv

\* A request is executed on the day it is, and priced by nothing but a quote.
LEMMA ExecutedToday ==
  ASSUME IInv, [Next]_vars, NEW r \in Requests, ~Executed(r), Executed(r)'
  PROVE  bank'[r].at = clock /\ UNCHANGED priced
  <1> USE DEF IInv, TypeOK, Executed
  <1>1. ASSUME NEW h \in Calls, BankApproves(h) PROVE bank'[r].at = clock /\ UNCHANGED priced
    BY <1>1 DEF BankApproves, ExecutesAtBank, BankRequest
  <1>2. ASSUME NEW q \in Requests, LateApproval(q)
        PROVE  bank'[r].at = clock /\ UNCHANGED priced
    BY <1>2 DEF LateApproval, ExecutesAtBank, BankRequest
  <1>3. ASSUME NEW q \in Requests, NEW c \in Companies, BankOwnRun(q, c)
        PROVE  bank'[r].at = clock /\ UNCHANGED priced
    BY <1>3 DEF BankOwnRun
  <1>4. ASSUME NEW h \in Calls, Confirm(h) \/ Abandon(h), ~BankApproves(h) PROVE UNCHANGED bank
    BY <1>4 DEF Confirm, ConfirmLoad, ConfirmPeriod, BankRefuses, ConfirmRecord, Abandon,
       bankVars
  <1>5. ASSUME NEW h \in Calls, Preview(h) PROVE ~Executed(r)'
    <2>1. ASSUME NEW q \in Requests, PreviewQuote(h, q) PROVE ~Executed(r)'
      BY <2>1 DEF PreviewQuote, NoRequest
    <2>2. QED
      BY <1>5, <2>1 DEF Preview, PreviewContext, PreviewCheck, bankVars
  <1>6. ASSUME NEW q \in Requests, LateApprovalLost(q) \/ Replay(q) PROVE UNCHANGED bank
    BY <1>6 DEF LateApprovalLost, Replay
  <1>7. ASSUME NEW d \in Deliveries, Webhook(d) PROVE UNCHANGED bank
    BY <1>7 DEF Webhook, Deliver, WebhookPeriod, WebhookFile, WebhookAck, WebhookLost, bankVars
  <1>8. CASE Midnight \/ (\E c \in Companies : ChangePayday(c)) \/ UNCHANGED vars
    BY <1>8 DEF Midnight, ChangePayday, bankVars, vars
  <1>9. QED
    BY <1>1, <1>2, <1>3, <1>4, <1>5, <1>6, <1>7, <1>8 DEF Next, Bank

LEMMA PricedByAQuote ==
  ASSUME IInv, [Next]_vars, NEW r \in Requests, priced'[r] # priced[r]
  PROVE  \E h \in Calls : PreviewQuote(h, r)
  <1>1. ASSUME NEW h \in Calls, NEW q \in Requests, PreviewQuote(h, q), q # r PROVE FALSE
    BY <1>1 DEF PreviewQuote, IInv, TypeOK
  <1>2. \E h \in Calls, q \in Requests : PreviewQuote(h, q)
    BY DEF Next, Midnight, ChangePayday, Preview, PreviewContext, PreviewCheck,
       Confirm, ConfirmLoad, ConfirmPeriod, BankApproves, BankRefuses, ConfirmRecord, Abandon,
       Bank, LateApproval, LateApprovalLost, Replay, BankOwnRun, Webhook, Deliver,
       WebhookPeriod, WebhookFile, WebhookAck, WebhookLost, vars
  <1>3. QED
    BY <1>1, <1>2

\* Rows are written by confirm and by the webhook.
LEMMA WhoFiles ==
  ASSUME IInv, [Next]_vars
  PROVE  \/ UNCHANGED payrollRuns
         \/ \E h \in Calls : ConfirmRecord(h)
         \/ \E d \in Deliveries : WebhookFile(d)
  BY DEF Next, Midnight, ChangePayday, Preview, PreviewContext, PreviewCheck, PreviewQuote,
     Confirm, ConfirmLoad, ConfirmPeriod, BankApproves, BankRefuses, Abandon,
     Bank, LateApproval, LateApprovalLost, Replay, BankOwnRun, Webhook, Deliver,
     WebhookPeriod, WebhookAck, WebhookLost, vars, appVars

LEMMA DatedCallsStep ==
  ASSUME IInv, DInv, [Next]_vars
  PROVE  CallsAreDated'
  <1> DEFINE Dated(h) ==
        /\ calls[h].at <= clock
        /\ calls[h].pc \in {"previewing", "pricing", "approving"}
             => Offered(calls[h].period, clock)
        /\ calls[h].pc = "executed" => Offered(calls[h].period, bank[calls[h].request].at)
  <1> SUFFICES ASSUME NEW h \in Calls PROVE Dated(h)'
    BY DEF CallsAreDated
  <1>0. /\ Dated(h) /\ BankGrows /\ clock' \in Nat /\ clock <= clock' /\ clock \in Nat
        /\ calls[h] \in Call /\ calls[h].at \in Nat
        /\ \A p : Offered(p, clock) => Offered(p, clock')
    BY BankStep, ClockStep, ClockTyped, OfferedGrows DEF DInv, CallsAreDated, IInv, TypeOK
  <1> USE DEF IInv, TypeOK
  <1>1. CASE calls'[h] = calls[h]
    <2>1. calls[h].pc = "executed" => bank'[calls[h].request] = bank[calls[h].request]
      BY <1>0 DEF CallsKnowTheirRequest, BankGrows
    <2>2. calls[h].at <= clock'
      BY <1>0
    <2>3. QED
      BY <1>0, <1>1, <2>1, <2>2 DEF Offered
  <1>2. ASSUME calls'[h] = NoCall PROVE Dated(h)'
    <2>1. 1 <= clock'
      BY TypeStep, FirstClock DEF Clock
    <2>2. QED
      BY <1>2, <2>1 DEF NoCall
  <1>3. ASSUME NEW c \in Companies, PreviewContext(h, c) PROVE Dated(h)'
    <2>1. calls'[h] = [NoCall EXCEPT !.pc = "previewing", !.company = c,
                                     !.period = Period(payday[c], clock)]
      BY <1>3 DEF PreviewContext
    <2>2. Offered(Period(payday[c], clock), clock)
      BY <1>0 DEF Offered
    <2>3. 1 <= clock'
      BY TypeStep, FirstClock DEF Clock
    <2>4. QED
      BY <1>0, <2>1, <2>2, <2>3 DEF NoCall
  <1>4. CASE PreviewCheck(h)
    <2>1. calls'[h] = NoCall \/ calls'[h] = [calls[h] EXCEPT !.pc = "pricing"]
      BY <1>4 DEF PreviewCheck
    <2>2. calls[h].pc = "previewing" /\ UNCHANGED clock
      BY <1>4 DEF PreviewCheck
    <2>3. QED
      BY <1>0, <1>2, <2>1, <2>2 DEF Call
  <1>5. ASSUME NEW c \in Companies, NEW r \in Requests, ConfirmLoad(h, c, r) PROVE Dated(h)'
    <2>1. calls'[h] = [NoCall EXCEPT !.pc = "loaded", !.company = c, !.request = r, !.at = clock]
      BY <1>5 DEF ConfirmLoad
    <2>2. calls'[h].pc = "loaded" /\ calls'[h].at = clock
      BY <2>1 DEF NoCall
    <2>3. QED
      BY <1>0, <2>2
  <1>6. CASE ConfirmPeriod(h)
    <2>1. calls[h].pc = "loaded" /\ calls[h].company \in Companies /\ UNCHANGED clock
      BY <1>6 DEF ConfirmPeriod, CallsKnowTheirRequest
    <2>2. PICK p \in Periods : p = Period(payday[calls[h].company], calls[h].at)
      BY <1>0, <2>1, PeriodTyped DEF Call
    <2>3. Offered(p, clock)
      BY <1>0, <2>1, <2>2 DEF Offered, Call
    <2>4. calls'[h] = [calls[h] EXCEPT !.pc = "approving", !.period = p]
      BY <1>6, <2>2 DEF ConfirmPeriod
    <2>5. /\ calls'[h].pc = "approving" /\ calls'[h].period = p
          /\ calls'[h].at = calls[h].at
      BY <1>0, <2>4 DEF Call
    <2>6. QED
      BY <1>0, <2>1, <2>3, <2>5
  <1>7. CASE BankApproves(h)
    <2> DEFINE r == calls[h].request
    <2>1. calls[h].pc = "approving" /\ r \in Requests /\ UNCHANGED clock
      BY <1>7 DEF BankApproves, CallsKnowTheirRequest
    <2>2. bank'[r].at = clock
      BY <1>7, <2>1 DEF BankApproves, ExecutesAtBank, BankRequest
    <2>3. calls'[h] = [calls[h] EXCEPT !.pc = "executed"]
      BY <1>7 DEF BankApproves
    <2>4. /\ calls'[h].pc = "executed" /\ calls'[h].period = calls[h].period
          /\ calls'[h].at = calls[h].at /\ calls'[h].request = r
      BY <1>0, <2>3 DEF Call
    <2>5. QED
      BY <1>0, <2>1, <2>2, <2>4
  <1>8. CASE calls'[h] # calls[h]
    <2>1. \/ Preview(h) \/ Confirm(h) \/ Abandon(h)
      <3>1. ASSUME NEW x \in Calls, Preview(x) \/ Confirm(x) \/ Abandon(x) PROVE x = h
        BY <1>8, <3>1 DEF Preview, PreviewContext, PreviewCheck, PreviewQuote, Confirm,
           ConfirmLoad, ConfirmPeriod, BankApproves, BankRefuses, ConfirmRecord, Abandon
      <3>2. CASE Bank \/ \E d \in Deliveries : Webhook(d)
        BY <1>8, <3>2 DEF Bank, LateApproval, LateApprovalLost, Replay, BankOwnRun, Webhook,
           Deliver, WebhookPeriod, WebhookFile, WebhookAck, WebhookLost, appVars
      <3>3. CASE Midnight \/ (\E c \in Companies : ChangePayday(c)) \/ UNCHANGED vars
        BY <1>8, <3>3 DEF Midnight, ChangePayday, appVars, vars
      <3>4. QED
        BY <3>1, <3>2, <3>3 DEF Next
    <2>2. CASE \/ \E r \in Requests : PreviewQuote(h, r)
               \/ BankRefuses(h) \/ ConfirmRecord(h) \/ Abandon(h)
      BY <1>2, <2>2 DEF PreviewQuote, BankRefuses, ConfirmRecord, Abandon
    <2>3. QED
      BY <1>3, <1>4, <1>5, <1>6, <1>7, <2>1, <2>2 DEF Preview, Confirm
  <1>9. QED
    BY <1>1, <1>8

LEMMA DatedQuotesStep ==
  ASSUME IInv, DInv, [Next]_vars
  PROVE  QuotesAreDated'
  <1> SUFFICES ASSUME NEW r \in Requests, priced'[r] # None
               PROVE  /\ Executed(r)' => Offered(priced'[r], bank'[r].at)
                      /\ ~Executed(r)' => Offered(priced'[r], clock')
    BY DEF QuotesAreDated, Offered
  <1>0. BankGrows /\ clock' \in Nat /\ clock <= clock' /\ clock \in Nat
    BY BankStep, ClockStep, ClockTyped DEF IInv
  <1>1. CASE priced'[r] = priced[r]
    <2>1. CASE Executed(r)
      BY <1>0, <1>1, <2>1 DEF BankGrows, DInv, QuotesAreDated
    <2>2. CASE ~Executed(r)
      <3>1. Offered(priced[r], clock)
        BY <1>1, <2>2 DEF DInv, QuotesAreDated
      <3>2. QED
        BY <1>0, <1>1, <2>2, <3>1, ExecutedToday, OfferedGrows
    <2>3. QED
      BY <2>1, <2>2
  <1>2. CASE priced'[r] # priced[r]
    <2>1. PICK h \in Calls : PreviewQuote(h, r)
      BY <1>2, PricedByAQuote
    <2>2. bank'[r].state = "PENDING" /\ priced'[r] = calls[h].period /\ UNCHANGED clock
      BY <2>1 DEF PreviewQuote, NoRequest, IInv, TypeOK
    <2>3. Offered(calls[h].period, clock)
      BY <2>1 DEF PreviewQuote, DInv, CallsAreDated
    <2>4. QED
      BY <2>2, <2>3 DEF Executed
  <1>3. QED
    BY <1>1, <1>2

LEMMA DatedRowsStep ==
  ASSUME IInv, DInv, [Next]_vars
  PROVE  RowsAreDated'
  <1>0. BankGrows
    BY BankStep
  <1>1. ASSUME NEW row \in payrollRuns, row.request # None
        PROVE  Executed(row.request)' /\ Offered(row.period, bank'[row.request].at)
    <2>1. row.request \in Requests
      BY <1>1 DEF IInv, TypeOK, Row
    <2>2. QED
      BY <1>0, <1>1, <2>1 DEF DInv, RowsAreDated, BankGrows
  \* Whoever files, the month was on the table by the day of the execution.
  <1>2. ASSUME NEW c, NEW p, NEW r \in Requests, NEW id \in {r, None}, Record(c, p, id),
               UNCHANGED bank, Executed(r), Offered(p, bank[r].at)
        PROVE  RowsAreDated'
    <2>1. \A row \in payrollRuns' :
            row \in payrollRuns \/ row = [company |-> c, period |-> p, request |-> id]
      BY <1>2 DEF Record
    <2>2. QED
      BY <1>1, <1>2, <2>1 DEF RowsAreDated, Executed, Offered
  <1>3. ASSUME NEW h \in Calls, ConfirmRecord(h) PROVE RowsAreDated'
    <2> DEFINE r == calls[h].request
    <2>1. /\ r \in Requests /\ Executed(r) /\ Offered(calls[h].period, bank[r].at)
          /\ Record(calls[h].company, calls[h].period, r) /\ UNCHANGED bank
      BY <1>3 DEF ConfirmRecord, IInv, CallsKnowTheirRequest, DInv, CallsAreDated, bankVars
    <2>2. QED
      BY <1>2, <2>1
  <1>4. ASSUME NEW d \in Deliveries, WebhookFile(d) PROVE RowsAreDated'
    <2> DEFINE r == deliveries[d].request
    <2>1. r \in Requests /\ Executed(r) /\ UNCHANGED bank /\ bank[r].at \in Clock
      BY <1>4 DEF WebhookFile, IInv, EventsAreOwed, bankVars, TypeOK, BankRequest
    <2>2. Offered(deliveries[d].period, bank[r].at)
      <3>1. PICK s \in Settings : deliveries[d].period = Period(s, bank[r].at)
        BY <1>4 DEF WebhookFile, IInv, EventsAreOwed, MonthsOf
      <3>2. bank[r].at <= bank[r].at
        BY <2>1, FirstClock
      <3>3. QED
        BY <2>1, <3>1, <3>2 DEF Offered
    <2>3. CASE UNCHANGED payrollRuns
      BY <1>1, <2>3 DEF RowsAreDated, Offered
    <2>4. CASE Record(bank[r].company, deliveries[d].period,
                      IF bank[r].named THEN r ELSE None)
      BY <1>2, <2>1, <2>2, <2>4
    <2>5. QED
      BY <1>4, <2>3, <2>4 DEF WebhookFile
  <1>5. CASE UNCHANGED payrollRuns
    BY <1>1, <1>5 DEF RowsAreDated, Offered
  <1>6. QED
    BY <1>3, <1>4, <1>5, WhoFiles

LEMMA DatedInvariance == Spec => []DInv
  <1>1. Init => DInv
    BY FirstClock DEF Init, DInv, CallsAreDated, QuotesAreDated, RowsAreDated, NoCall
  <1>2. IInv /\ DInv /\ [Next]_vars => DInv'
    BY DatedCallsStep, DatedQuotesStep, DatedRowsStep DEF DInv
  <1>3. QED
    BY <1>1, <1>2, Invariance, PTL DEF Spec

\* However late a run is filed, it is filed under a month that was on the table
\* by the day the bank executed it, and under the month it was priced for unless
\* a window opened or a payday change moved the month before that day: a confirm
\* that died, a late webhook, its retries and its replays do not matter.
THEOREM LateFilingKeepsTheMonth == Spec => []FiledAsPriced
  <1>1. ASSUME IInv, DInv, NEW row \in payrollRuns, row.request # None
        PROVE  /\ Offered(row.period, bank[row.request].at)
               /\ priced[row.request] # None /\ MonthStoodStill(row.request)
                    => row.period = priced[row.request]
    <2>1. row.request \in Requests /\ row.period \in Periods
      BY <1>1 DEF IInv, TypeOK, Row
    <2>2. Executed(row.request) /\ Offered(row.period, bank[row.request].at)
      BY <1>1 DEF DInv, RowsAreDated
    <2>3. priced[row.request] # None
            => /\ priced[row.request] \in Periods
               /\ Offered(priced[row.request], bank[row.request].at)
      BY <1>1, <2>1, <2>2 DEF DInv, QuotesAreDated, IInv, TypeOK
    <2>4. QED
      BY <2>1, <2>2, <2>3 DEF MonthStoodStill
  <1>2. IInv /\ DInv => FiledAsPriced
    BY <1>1 DEF FiledAsPriced
  <1>3. QED
    BY <1>2, Invariance, DatedInvariance, PTL
=============================================================================
