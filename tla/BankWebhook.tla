----------------------------- MODULE BankWebhook -----------------------------
(***************************************************************************)
(* The mirror of the bank's accounts: BankWebhookService.apply             *)
(* (bank-integration/bank-webhook.service.ts), one process per webhook     *)
(* request, over the tables it shares with the others, and the bank that   *)
(* delivers, retries and replays (bank-webhook.controller.ts:30).          *)
(*                                                                         *)
(* Every await of apply is an action boundary.  A movement is written on   *)
(* its own, and whatever is written stays when the delivery dies.          *)
(*                                                                         *)
(* Abstracted: events are numbered in the order the bank booked them and   *)
(* the balance an event carries is the number of the event; the order of   *)
(* an event's accounts and movements is left open; amounts, categories and *)
(* texts are left out, and so is the filing of a payroll run (PayrollRun). *)
(***************************************************************************)
EXTENDS Naturals

CONSTANTS
  Events,       \* events the bank will book, by number: a set of positive numbers
  Accounts,     \* IBANs
  Companies,
  Movements,    \* the bank's transaction ids (externalId)
  Reported,     \* Reported[e][a]: the movements event e carries for account a
  BookedAt,     \* BookedAt[m]: when movement m was booked
  Figureless,   \* events that carry no balance
  Deliveries,   \* slots for webhook requests in progress
  MaxAttempts,  \* deliveries of one event before the bank files it as failed
  MaxLost,      \* bound on deliveries that die, answer 500 or are not waited for
  AnnouncingMayFail, \* whether the database may refuse a notification
  None

ASSUME WebhookAssumption ==
  /\ Events \subseteq Nat \ {0} /\ Figureless \subseteq Events
  /\ Reported \in [Events -> [Accounts -> SUBSET Movements]]
  /\ \A e, f \in Events, a, b \in Accounts :      \* the bank's ids are unique
       Reported[e][a] \intersect Reported[f][b] # {} => e = f /\ a = b
  /\ BookedAt \in [Movements -> Nat \ {0}]
  /\ MaxAttempts \in Nat \ {0} /\ MaxLost \in Nat
  /\ AnnouncingMayFail \in BOOLEAN
  /\ None \notin Companies /\ None \notin Events /\ None \notin Accounts

VARIABLES
  owner,         \* owner[a]: BankAccount.companyId of the account on file, or None
  balance,       \* balance[a]: the event whose figure is stored, 0: the statement's
  transactions,  \* the bank's movements on file: rows [movement, account, company]
  announced,     \* announced[m]: notifications created for movement m
  events,        \* events[e]: what the bank knows of e's delivery
  deliveries,    \* deliveries[d]: one apply in progress
  lost           \* deliveries lost so far

appVars == <<owner, balance, transactions, announced>>
vars == <<owner, balance, transactions, announced, events, deliveries, lost>>

-----------------------------------------------------------------------------
Times == {BookedAt[m] : m \in Movements} \union {0}

NoDelivery == [pc |-> "idle", event |-> None, heard |-> FALSE, todo |-> {},
               account |-> None, company |-> None, latest |-> 0, left |-> {},
               fresh |-> {}]

Delivery ==
  [pc : {"idle", "accounts", "reading", "writing", "balancing", "announcing"},
   event : Events \union {None},
   heard : BOOLEAN,              \* whether the bank still waits for the answer
   todo : SUBSET Accounts,       \* reported accounts not handled yet
   account : Accounts \union {None}, company : Companies \union {None},
   latest : Times,               \* latestOnFile, 0 for null
   left : SUBSET Movements,      \* movements not tried yet
   fresh : SUBSET Movements]     \* written by this delivery, not announced yet

Event == [state : {"unbooked", "queued", "acked", "failed"}, tries : 0..MaxAttempts,
          company : Companies \union {None}, \* the owner the bank names
          ours : SUBSET Accounts]            \* history: on file for that company when booked

Row == [movement : Movements, account : Accounts, company : Companies]

OnFile(m) == \E row \in transactions : row.movement = m

AccountsOf(e) == {a \in Accounts : Reported[e][a] # {}}

\* t is the latest booking time of the movements S; 0 stands for null.
IsNewest(t, S) ==
  IF S = {} THEN t = 0
  ELSE (\E m \in S : BookedAt[m] = t) /\ \A m \in S : BookedAt[m] <= t

Init ==
  /\ owner = [a \in Accounts |-> None]
  /\ balance = [a \in Accounts |-> 0]
  /\ transactions = {}
  /\ announced = [m \in Movements |-> 0]
  /\ events = [e \in Events |-> [state |-> "unbooked", tries |-> 0, company |-> None,
                                 ours |-> {}]]
  /\ deliveries = [d \in Deliveries |-> NoDelivery]
  /\ lost = 0

-----------------------------------------------------------------------------
\* BankAccountsService.create: the account is on file with the statement's
\* balance; the statement's own movements carry no bank id.
Connect(a, c) ==
  /\ owner[a] = None
  /\ owner' = [owner EXCEPT ![a] = c]
  /\ UNCHANGED <<balance, transactions, announced, events, deliveries, lost>>

\* External: the bank books the next event, in order, and names a company as
\* the owner of its accounts, or none.
Book(e) ==
  /\ events[e].state = "unbooked"
  /\ \A f \in Events : f < e => events[f].state # "unbooked"
  /\ \E c \in Companies \union {None} :
       events' = [events EXCEPT ![e] =
         [state |-> "queued", tries |-> 0, company |-> c,
          ours |-> {a \in AccountsOf(e) : c # None /\ owner[a] = c}]]
  /\ UNCHANGED <<appVars, deliveries, lost>>

\* External: a delivery, the first or a retry.  The bank waits for an answer
\* before it tries again, but an attempt it gave up on may still run.
Deliver(d, e) ==
  /\ deliveries[d].pc = "idle"
  /\ events[e].state = "queued" /\ events[e].tries < MaxAttempts
  /\ \A other \in Deliveries : deliveries[other].event = e => ~deliveries[other].heard
  /\ events' = [events EXCEPT ![e].tries = @ + 1]
  /\ deliveries' = [deliveries EXCEPT ![d] =
       [NoDelivery EXCEPT !.pc = "accounts", !.event = e, !.heard = TRUE,
                          !.todo = AccountsOf(e)]]
  /\ UNCHANGED <<appVars, lost>>

-----------------------------------------------------------------------------
(* apply: one account after the other.                                     *)

\* The account booked to whoever has it on file.
OwnedAccount_anyCompany(d, a) ==
  /\ deliveries[d].pc = "accounts"
  /\ a \in deliveries[d].todo
  /\ deliveries' = [deliveries EXCEPT ![d] =
       IF owner[a] # None
       THEN [@ EXCEPT !.pc = "reading", !.account = a, !.company = owner[a],
                      !.todo = deliveries[d].todo \ {a}]
       ELSE [@ EXCEPT !.todo = deliveries[d].todo \ {a}]]
  /\ UNCHANGED <<appVars, events, lost>>

\* The check that the account is on file dropped.
OwnedAccount_unconnected(d, a) ==
  /\ deliveries[d].pc = "accounts"
  /\ a \in deliveries[d].todo
  /\ deliveries' = [deliveries EXCEPT ![d] =
       IF owner[a] = events[deliveries[d].event].company
       THEN [@ EXCEPT !.pc = "reading", !.account = a, !.company = owner[a],
                      !.todo = deliveries[d].todo \ {a}]
       ELSE [@ EXCEPT !.todo = deliveries[d].todo \ {a}]]
  /\ UNCHANGED <<appVars, events, lost>>

\* ownedAccount: an account nobody connected, or on file for a company the
\* bank does not name, is skipped.
OwnedAccount(d, a) ==
  /\ deliveries[d].pc = "accounts"
  /\ a \in deliveries[d].todo
  /\ deliveries' = [deliveries EXCEPT ![d] =
       IF owner[a] # None /\ owner[a] = events[deliveries[d].event].company
       THEN [@ EXCEPT !.pc = "reading", !.account = a, !.company = owner[a],
                      !.todo = deliveries[d].todo \ {a}]
       ELSE [@ EXCEPT !.todo = deliveries[d].todo \ {a}]]
  /\ UNCHANGED <<appVars, events, lost>>

\* latestBankBooking, before anything of this event is written.
ReadLatest(d) ==
  LET a == deliveries[d].account IN
  /\ deliveries[d].pc = "reading"
  /\ \E t \in Times :
       /\ IsNewest(t, {m \in Movements : \E row \in transactions :
                                           row.movement = m /\ row.account = a})
       /\ deliveries' = [deliveries EXCEPT
            ![d].pc = "writing", ![d].latest = t,
            ![d].left = Reported[deliveries[d].event][a]]
  /\ UNCHANGED <<appVars, events, lost>>

\* A collision taken for a failure: the delivery answers 500.
WriteMovement_collides(d, m) ==
  /\ deliveries[d].pc = "writing" /\ m \in deliveries[d].left
  /\ IF OnFile(m)
     THEN /\ deliveries' = [deliveries EXCEPT ![d] = NoDelivery]
          /\ UNCHANGED transactions
     ELSE /\ transactions' = transactions \union
               {[movement |-> m, account |-> deliveries[d].account,
                 company |-> deliveries[d].company]}
          /\ deliveries' = [deliveries EXCEPT
               ![d].left = @ \ {m}, ![d].fresh = @ \union {m},
               ![d].pc = IF deliveries[d].left = {m} THEN "balancing" ELSE @]
  /\ UNCHANGED <<owner, balance, announced, events, lost>>

\* Duplicates kept on the list of what to announce.
WriteMovement_announcesAll(d, m) ==
  /\ deliveries[d].pc = "writing" /\ m \in deliveries[d].left
  /\ transactions' =
       IF OnFile(m) THEN transactions
       ELSE transactions \union {[movement |-> m, account |-> deliveries[d].account,
                                  company |-> deliveries[d].company]}
  /\ deliveries' = [deliveries EXCEPT
       ![d].left = @ \ {m}, ![d].fresh = @ \union {m},
       ![d].pc = IF deliveries[d].left = {m} THEN "balancing" ELSE @]
  /\ UNCHANGED <<owner, balance, announced, events, lost>>

\* transaction.create: a movement already on file is an earlier delivery of
\* the same event, and only counted.
WriteMovement(d, m) ==
  /\ deliveries[d].pc = "writing" /\ m \in deliveries[d].left
  /\ transactions' =
       IF OnFile(m) THEN transactions
       ELSE transactions \union {[movement |-> m, account |-> deliveries[d].account,
                                  company |-> deliveries[d].company]}
  /\ deliveries' = [deliveries EXCEPT
       ![d].left = @ \ {m},
       ![d].fresh = IF OnFile(m) THEN @ ELSE @ \union {m},
       ![d].pc = IF deliveries[d].left = {m} THEN "balancing" ELSE @]
  /\ UNCHANGED <<owner, balance, announced, events, lost>>

\* Every figure taken as it comes.
Stale_never(d) == FALSE

\* A figure as old as the newest movement on file refused as well.
Stale_orEqual(d) ==
  \A m \in Reported[deliveries[d].event][deliveries[d].account] :
    BookedAt[m] <= deliveries[d].latest

\* The newest movement of the event is older than what was on file when its
\* delivery looked.
Stale(d) ==
  \A m \in Reported[deliveries[d].event][deliveries[d].account] :
    BookedAt[m] < deliveries[d].latest

\* The balance is the bank's figure, unless the event carries none or is stale.
SetBalance(d) ==
  /\ deliveries[d].pc = "balancing"
  /\ balance' =
       IF deliveries[d].event \in Figureless \/ Stale(d) THEN balance
       ELSE [balance EXCEPT ![deliveries[d].account] = deliveries[d].event]
  /\ deliveries' = [deliveries EXCEPT
       ![d].pc = IF deliveries[d].fresh = {} THEN "accounts" ELSE "announcing"]
  /\ UNCHANGED <<owner, transactions, announced, events, lost>>

\* transactionsRecorded: one notification for each movement that was written.
Announce(d, m) ==
  /\ deliveries[d].pc = "announcing" /\ m \in deliveries[d].fresh
  /\ announced' = [announced EXCEPT ![m] = @ + 1]
  /\ deliveries' = [deliveries EXCEPT
       ![d].fresh = @ \ {m},
       ![d].pc = IF deliveries[d].fresh = {m} THEN "accounts" ELSE @]
  /\ UNCHANGED <<owner, balance, transactions, events, lost>>

\* The first notification refused ends the list; the error is swallowed.
AnnounceFails(d) ==
  /\ AnnouncingMayFail
  /\ deliveries[d].pc = "announcing"
  /\ deliveries' = [deliveries EXCEPT ![d].fresh = {}, ![d].pc = "accounts"]
  /\ UNCHANGED <<appVars, events, lost>>

-----------------------------------------------------------------------------
\* The bank told before the accounts are done.
Acknowledge_early(d) ==
  /\ deliveries[d].pc \in {"accounts", "reading"}
  /\ events' = [events EXCEPT ![deliveries[d].event].state =
       IF deliveries[d].heard THEN "acked" ELSE @]
  /\ deliveries' = [deliveries EXCEPT ![d] = NoDelivery]
  /\ UNCHANGED <<appVars, lost>>

\* 200, which a bank that stopped waiting does not hear.
Acknowledge(d) ==
  /\ deliveries[d].pc = "accounts" /\ deliveries[d].todo = {}
  /\ events' = [events EXCEPT ![deliveries[d].event].state =
       IF deliveries[d].heard THEN "acked" ELSE @]
  /\ deliveries' = [deliveries EXCEPT ![d] = NoDelivery]
  /\ UNCHANGED <<appVars, lost>>

\* External: after the last attempt the bank files the event as failed.
Missed(e) ==
  IF events[e].state = "queued" /\ events[e].tries = MaxAttempts
  THEN [events EXCEPT ![e].state = "failed"]
  ELSE events

\* The delivery dies where it stands: a database error, which answers 500, or
\* the process going away.
Lost(d) ==
  /\ deliveries[d].pc # "idle"
  /\ lost < MaxLost /\ lost' = lost + 1
  /\ events' = IF deliveries[d].heard THEN Missed(deliveries[d].event) ELSE events
  /\ deliveries' = [deliveries EXCEPT ![d] = NoDelivery]
  /\ UNCHANGED appVars

\* External: the bank stops waiting for a delivery that is still running.
Unheard(d) ==
  /\ deliveries[d].heard
  /\ lost < MaxLost /\ lost' = lost + 1
  /\ events' = Missed(deliveries[d].event)
  /\ deliveries' = [deliveries EXCEPT ![d].heard = FALSE]
  /\ UNCHANGED appVars

\* External: someone at the bank replays an event it had given up on.
Replay(e) ==
  /\ events[e].state = "failed"
  /\ events' = [events EXCEPT ![e].state = "queued", ![e].tries = 0]
  /\ UNCHANGED <<appVars, deliveries, lost>>

-----------------------------------------------------------------------------
Apply(d) ==
  \/ \E a \in Accounts : OwnedAccount(d, a)
  \/ ReadLatest(d)
  \/ \E m \in Movements : WriteMovement(d, m) \/ Announce(d, m)
  \/ SetBalance(d) \/ AnnounceFails(d) \/ Acknowledge(d)

Next ==
  \/ \E a \in Accounts, c \in Companies : Connect(a, c)
  \/ \E e \in Events : Book(e) \/ Replay(e)
  \/ \E d \in Deliveries, e \in Events : Deliver(d, e)
  \/ \E d \in Deliveries : Apply(d) \/ Lost(d) \/ Unheard(d)

Spec == Init /\ [][Next]_vars

\* The bank delivers what it owes and a delivery that does not die runs on.
Fairness ==
  /\ \A e \in Events : WF_vars(\E d \in Deliveries : Deliver(d, e))
  /\ \A d \in Deliveries : WF_vars(Apply(d))

FairSpec == Spec /\ Fairness

-----------------------------------------------------------------------------
TypeOK ==
  /\ owner \in [Accounts -> Companies \union {None}]
  /\ balance \in [Accounts -> Events \union {0}]
  /\ transactions \subseteq Row
  /\ announced \in [Movements -> Nat]
  /\ events \in [Events -> Event]
  /\ deliveries \in [Deliveries -> Delivery]
  /\ lost \in 0..MaxLost

\* A movement is booked once, on the account the bank reported it for, to the
\* company that has the account on file and that the bank names as its owner:
\* "never booked to a company that may not own it" (ownedAccount).
BookedToTheNamedOwner ==
  /\ \A row \in transactions :
       /\ row.company = owner[row.account]
       /\ \E e \in Events : /\ row.movement \in Reported[e][row.account]
                            /\ row.company = events[e].company
  /\ \A one, other \in transactions : one.movement = other.movement => one = other

\* "A redelivered deposit must not notify the company a second time", and
\* nothing is announced that is not on file, however deliveries of the same
\* event overlap, die and are retried.
AnnouncedAtMostOnce ==
  \A m \in Movements : announced[m] <= 1 /\ (announced[m] = 1 => OnFile(m))

\* What the bank has been told is handled is on file: every movement the event
\* carries for an account that was connected when it was booked.
AckedMeansRecorded ==
  \A e \in Events :
    events[e].state = "acked" => \A a \in events[e].ours : \A m \in Reported[e][a] : OnFile(m)

\* The bank's clock: what it books later on an account it books at a later time.
BookedInOrder ==
  \A e, f \in Events, a \in Accounts : e < f =>
    \A m \in Reported[e][a], n \in Reported[f][a] : BookedAt[m] < BookedAt[n]

\* The stored balance never goes back to an earlier event's: a replay "must not
\* wind the account backwards past movements that landed since" (applyToAccount).
BalanceNeverWindsBack == [][\A a \in Accounts : balance'[a] >= balance[a]]_vars

\* The mirror catches up: when an event is acknowledged, the account shows its
\* balance or a later one, or the bank still owes a later event that will set
\* it (or sent one without a balance), whatever died in between.
AckedMeansMirrored ==
  \A e \in Events \ Figureless : events[e].state = "acked" =>
    \A a \in events[e].ours :
      \/ balance[a] >= e
      \/ \E f \in Events : /\ f > e /\ a \in AccountsOf(f)
                           /\ f \in Figureless \/ events[f].state \in {"queued", "failed"}

\* What the bank booked on a connected account is eventually on file, though
\* deliveries die or collide, as long as the bank has not given the event up.
BookedIsEventuallyRecorded ==
  \A e \in Events :
    events[e].ours # {} ~> \A a \in events[e].ours : \A m \in Reported[e][a] : OnFile(m)
=============================================================================
