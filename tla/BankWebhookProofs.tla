-------------------------- MODULE BankWebhookProofs ---------------------------
(***************************************************************************)
(* What holds of BankWebhook for any number of accounts, events and        *)
(* deliveries, overlapping in any way.  The invariant is about a delivery  *)
(* in progress: whom it books for (DeliveriesAreOwned), which of its       *)
(* movements nobody has announced (FreshIsUnannounced), what it has left   *)
(* to do (KeepsItsPlace) and what it saw of the balance (SawTheBalance).   *)
(* That the mirror catches up needs more, MInv: which event is the newest  *)
(* a delivery knows of, and that it will show it or one after it.          *)
(***************************************************************************)
EXTENDS BankWebhook, TLAPS

AtAnAccount == {"reading", "writing", "balancing", "announcing"}

\* Whose account a delivery is at, and that the bank still names that company.
Owned(d) ==
  /\ deliveries[d].pc = "idle" => deliveries[d].fresh = {} /\ ~deliveries[d].heard
  /\ deliveries[d].pc # "idle" =>
       /\ deliveries[d].event \in Events
       /\ events[deliveries[d].event].state # "unbooked"
  /\ deliveries[d].pc \in AtAnAccount =>
       /\ deliveries[d].account \in Accounts /\ deliveries[d].company \in Companies
       /\ deliveries[d].company = owner[deliveries[d].account]
       /\ deliveries[d].company = events[deliveries[d].event].company
  /\ deliveries[d].pc = "writing" =>
       deliveries[d].left \subseteq Reported[deliveries[d].event][deliveries[d].account]

DeliveriesAreOwned == \A d \in Deliveries : Owned(d)

EventsKnowTheirAccounts ==
  \A e \in Events :
    /\ events[e].state = "unbooked" => events[e].company = None /\ events[e].ours = {}
    /\ \A a \in events[e].ours : owner[a] # None /\ owner[a] = events[e].company

\* What a delivery is about to announce is on file, unannounced, and no other
\* delivery's to announce.
FreshIsUnannounced ==
  \A d \in Deliveries : \A m \in deliveries[d].fresh :
    /\ OnFile(m) /\ announced[m] = 0
    /\ \A other \in Deliveries \ {d} : m \notin deliveries[other].fresh

IInv ==
  /\ TypeOK
  /\ DeliveriesAreOwned
  /\ EventsKnowTheirAccounts
  /\ FreshIsUnannounced
  /\ BookedToTheNamedOwner
  /\ AnnouncedAtMostOnce

-----------------------------------------------------------------------------
LEMMA NoneIsNothing == None \notin Companies /\ None \notin Events /\ None \notin Accounts
  BY WebhookAssumption

LEMMA BoundsTyped == MaxAttempts \in Nat \ {0} /\ MaxLost \in Nat
  BY WebhookAssumption

LEMMA ReportedTyped ==
  ASSUME NEW e \in Events, NEW a \in Accounts
  PROVE  Reported[e][a] \subseteq Movements
  <1>1. Reported \in [Events -> [Accounts -> SUBSET Movements]]
    BY WebhookAssumption
  <1>2. QED
    BY <1>1

LEMMA MovementsAreOneEvents ==
  ASSUME NEW e \in Events, NEW f \in Events, NEW a \in Accounts, NEW b \in Accounts,
         NEW m \in Reported[e][a], m \in Reported[f][b]
  PROVE  e = f /\ a = b
  BY WebhookAssumption

LEMMA NoDeliveryTyped == NoDelivery \in Delivery
  BY DEF NoDelivery, Delivery, Times

LEMMA InitEstablishes == Init => IInv
  <1> SUFFICES ASSUME Init PROVE IInv
    OBVIOUS
  <1> USE DEF Init
  <1>1. TypeOK
    BY NoDeliveryTyped, BoundsTyped DEF TypeOK, Event
  <1>2. DeliveriesAreOwned /\ EventsKnowTheirAccounts /\ FreshIsUnannounced
    BY DEF DeliveriesAreOwned, Owned, EventsKnowTheirAccounts, FreshIsUnannounced,
       NoDelivery, AtAnAccount
  <1>3. BookedToTheNamedOwner /\ AnnouncedAtMostOnce
    BY DEF BookedToTheNamedOwner, AnnouncedAtMostOnce
  <1>4. QED
    BY <1>1, <1>2, <1>3 DEF IInv

-----------------------------------------------------------------------------
(* Types.                                                                  *)

LEMMA MissedTyped ==
  ASSUME TypeOK, NEW e \in Events
  PROVE  Missed(e) \in [Events -> Event]
  <1>1. [events[e] EXCEPT !.state = "failed"] \in Event
    BY DEF TypeOK, Event
  <1>2. QED
    BY <1>1 DEF Missed, TypeOK

LEMMA ApplyTypes ==
  ASSUME IInv, NEW d \in Deliveries, Apply(d)
  PROVE  TypeOK'
  <1> USE DEF IInv, TypeOK, appVars
  <1> DEFINE D == deliveries[d]
  <1>0. D \in Delivery
    OBVIOUS
  <1>1. ASSUME NEW a \in Accounts, OwnedAccount(d, a) PROVE TypeOK'
    <2>1. [D EXCEPT !.todo = D.todo \ {a}] \in Delivery
      BY <1>0 DEF Delivery
    <2>2. ASSUME owner[a] # None
          PROVE  [D EXCEPT !.pc = "reading", !.account = a, !.company = owner[a],
                           !.todo = D.todo \ {a}] \in Delivery
      <3>1. owner[a] \in Companies
        BY <2>2
      <3>2. QED
        BY <1>0, <3>1 DEF Delivery
    <2>3. deliveries' \in [Deliveries -> Delivery]
      BY <1>1, <2>1, <2>2 DEF OwnedAccount
    <2>4. QED
      BY <1>1, <2>3 DEF OwnedAccount
  <1>2. CASE ReadLatest(d)
    <2>1. D.event \in Events /\ D.account \in Accounts
      BY <1>2 DEF ReadLatest, DeliveriesAreOwned, Owned, AtAnAccount
    <2>2. Reported[D.event][D.account] \in SUBSET Movements
      BY <2>1, ReportedTyped
    <2>3. ASSUME NEW t \in Times
          PROVE  [D EXCEPT !.pc = "writing", !.latest = t,
                           !.left = Reported[D.event][D.account]] \in Delivery
      BY <1>0, <2>2 DEF Delivery
    <2>4. QED
      BY <1>2, <2>3 DEF ReadLatest
  <1>3. ASSUME NEW m \in Movements, WriteMovement(d, m) PROVE TypeOK'
    <2>1. /\ D.account \in Accounts /\ D.company \in Companies
      BY <1>3 DEF WriteMovement, DeliveriesAreOwned, Owned, AtAnAccount
    <2>2. transactions' \subseteq Row
      BY <1>3, <2>1 DEF WriteMovement, Row
    <2>3. [D EXCEPT !.left = D.left \ {m},
                    !.fresh = IF OnFile(m) THEN D.fresh ELSE D.fresh \union {m},
                    !.pc = IF D.left = {m} THEN "balancing" ELSE D.pc] \in Delivery
      BY <1>0 DEF Delivery
    <2>4. QED
      BY <1>3, <2>2, <2>3 DEF WriteMovement
  <1>4. ASSUME NEW m \in Movements, Announce(d, m) PROVE TypeOK'
    <2>1. [D EXCEPT !.fresh = D.fresh \ {m},
                    !.pc = IF D.fresh = {m} THEN "accounts" ELSE D.pc] \in Delivery
      BY <1>0 DEF Delivery
    <2>2. announced' \in [Movements -> Nat]
      BY <1>4 DEF Announce
    <2>3. QED
      BY <1>4, <2>1, <2>2 DEF Announce
  <1>5. CASE SetBalance(d)
    <2>1. D.event \in Events
      BY <1>5 DEF SetBalance, DeliveriesAreOwned, Owned
    <2>2. balance' \in [Accounts -> Events \union {0}]
      BY <1>5, <2>1 DEF SetBalance
    <2>3. [D EXCEPT !.pc = IF D.fresh = {} THEN "accounts" ELSE "announcing"] \in Delivery
      BY <1>0 DEF Delivery
    <2>4. QED
      BY <1>5, <2>2, <2>3 DEF SetBalance
  <1>6. CASE AnnounceFails(d)
    <2>1. [D EXCEPT !.fresh = {}, !.pc = "accounts"] \in Delivery
      BY <1>0 DEF Delivery
    <2>2. QED
      BY <1>6, <2>1 DEF AnnounceFails
  <1>7. CASE Acknowledge(d)
    <2>1. D.event \in Events
      BY <1>7 DEF Acknowledge, DeliveriesAreOwned, Owned
    <2>2. [events[D.event] EXCEPT !.state = IF D.heard THEN "acked" ELSE @] \in Event
      BY <2>1 DEF Event
    <2>3. QED
      BY <1>7, <2>1, <2>2, NoDeliveryTyped DEF Acknowledge
  <1>8. QED
    BY <1>1, <1>2, <1>3, <1>4, <1>5, <1>6, <1>7 DEF Apply

LEMMA TypeStep == IInv /\ [Next]_vars => TypeOK'
  <1> SUFFICES ASSUME IInv, [Next]_vars PROVE TypeOK'
    OBVIOUS
  <1> USE DEF IInv, TypeOK, appVars
  <1>1. ASSUME NEW a \in Accounts, NEW c \in Companies, Connect(a, c) PROVE TypeOK'
    BY <1>1 DEF Connect
  <1>2. ASSUME NEW e \in Events, Book(e) PROVE TypeOK'
    <2>1. ASSUME NEW c \in Companies \union {None}
          PROVE  [state |-> "queued", tries |-> 0, company |-> c,
                  ours |-> {a \in AccountsOf(e) : c # None /\ owner[a] = c}] \in Event
      BY BoundsTyped DEF Event, AccountsOf
    <2>2. QED
      BY <1>2, <2>1 DEF Book
  <1>3. ASSUME NEW d \in Deliveries, NEW e \in Events, Deliver(d, e) PROVE TypeOK'
    <2>1. [events[e] EXCEPT !.tries = @ + 1] \in Event
      BY <1>3, BoundsTyped DEF Deliver, Event
    <2>2. [NoDelivery EXCEPT !.pc = "accounts", !.event = e, !.heard = TRUE,
                             !.todo = AccountsOf(e)] \in Delivery
      BY NoDeliveryTyped DEF Delivery, AccountsOf
    <2>3. QED
      BY <1>3, <2>1, <2>2 DEF Deliver
  <1>4. ASSUME NEW d \in Deliveries, Lost(d) \/ Unheard(d) PROVE TypeOK'
    <2>1. deliveries[d].event \in Events
      BY <1>4 DEF Lost, Unheard, DeliveriesAreOwned, Owned
    <2>2. events' \in [Events -> Event]
      BY <1>4, <2>1, MissedTyped DEF Lost, Unheard
    <2>3. [deliveries[d] EXCEPT !.heard = FALSE] \in Delivery
      BY DEF Delivery
    <2>4. lost' \in 0..MaxLost
      BY <1>4, BoundsTyped DEF Lost, Unheard
    <2>5. QED
      BY <1>4, <2>2, <2>3, <2>4, NoDeliveryTyped DEF Lost, Unheard
  <1>5. ASSUME NEW e \in Events, Replay(e) PROVE TypeOK'
    <2>1. [events[e] EXCEPT !.state = "queued", !.tries = 0] \in Event
      <3>1. events[e] \in Event /\ 0 \in 0..MaxAttempts
        BY BoundsTyped
      <3>2. QED
        BY <3>1 DEF Event
    <2>2. QED
      BY <1>5, <2>1 DEF Replay
  <1>6. CASE UNCHANGED vars
    BY <1>6 DEF vars
  <1>7. QED
    BY <1>1, <1>2, <1>3, <1>4, <1>5, <1>6, ApplyTypes DEF Next

-----------------------------------------------------------------------------
(* What only grows: an account keeps its company, a booked event what the  *)
(* bank said of it, a movement stays on file.                              *)

LEMMA HistoryStays ==
  ASSUME IInv, [Next]_vars
  PROVE  /\ \A a \in Accounts : owner[a] # None => owner'[a] = owner[a]
         /\ \A e \in Events : events[e].state # "unbooked" =>
              /\ events'[e].state # "unbooked"
              /\ events'[e].company = events[e].company
              /\ events'[e].ours = events[e].ours
         /\ transactions \subseteq transactions'
  <1> USE DEF IInv, TypeOK, appVars
  <1>1. ASSUME NEW a \in Accounts, NEW c \in Companies, Connect(a, c)
        PROVE  /\ \A b \in Accounts : owner[b] # None => owner'[b] = owner[b]
               /\ UNCHANGED <<events, transactions>>
    BY <1>1 DEF Connect
  <1>2. ASSUME NEW e \in Events, Book(e)
        PROVE  /\ UNCHANGED <<owner, transactions>>
               /\ \A f \in Events : events[f].state # "unbooked" => events'[f] = events[f]
    BY <1>2 DEF Book
  <1> DEFINE SameBookings ==
        \A f \in Events : events[f].state # "unbooked" =>
          /\ events'[f].state # "unbooked"
          /\ events'[f].company = events[f].company
          /\ events'[f].ours = events[f].ours
  <1>3. ASSUME NEW d \in Deliveries, NEW e \in Events, Deliver(d, e)
        PROVE  UNCHANGED <<owner, transactions>> /\ SameBookings
    BY <1>3 DEF Deliver, Event
  <1>4. ASSUME NEW d \in Deliveries, Lost(d) \/ Unheard(d)
        PROVE  UNCHANGED <<owner, transactions>> /\ SameBookings
    BY <1>4 DEF Lost, Unheard, Missed, Event
  <1>5. ASSUME NEW e \in Events, Replay(e)
        PROVE  UNCHANGED <<owner, transactions>> /\ SameBookings
    BY <1>5 DEF Replay, Event
  <1>6. ASSUME NEW d \in Deliveries, Apply(d)
        PROVE  UNCHANGED owner /\ SameBookings /\ transactions \subseteq transactions'
    <2>1. CASE Acknowledge(d)
      BY <2>1 DEF Acknowledge, Event
    <2>2. ASSUME NEW m \in Movements, WriteMovement(d, m)
          PROVE  UNCHANGED <<owner, events>> /\ transactions \subseteq transactions'
      BY <2>2 DEF WriteMovement
    <2>3. ASSUME NEW m \in Movements, Announce(d, m)
          PROVE  UNCHANGED <<owner, events, transactions>>
      BY <2>3 DEF Announce
    <2>4. ASSUME NEW a \in Accounts, OwnedAccount(d, a)
          PROVE  UNCHANGED <<owner, events, transactions>>
      BY <2>4 DEF OwnedAccount
    <2>5. CASE ReadLatest(d) \/ SetBalance(d) \/ AnnounceFails(d)
      BY <2>5 DEF ReadLatest, SetBalance, AnnounceFails
    <2>6. QED
      BY <1>6, <2>1, <2>2, <2>3, <2>4, <2>5 DEF Apply
  <1>7. CASE UNCHANGED vars
    BY <1>7 DEF vars
  <1>8. QED
    BY <1>1, <1>2, <1>3, <1>4, <1>5, <1>6, <1>7 DEF Next

Moves(d) == Apply(d) \/ Lost(d) \/ Unheard(d) \/ \E e \in Events : Deliver(d, e)

\* Every step moves one delivery at most.
LEMMA OneDeliveryAtATime ==
  ASSUME IInv, [Next]_vars, NEW x \in Deliveries, deliveries'[x] # deliveries[x]
  PROVE  Moves(x) /\ \A other \in Deliveries \ {x} : deliveries'[other] = deliveries[other]
  <1> USE DEF IInv, TypeOK
  <1>1. ASSUME NEW d \in Deliveries, Moves(d)
        PROVE  \A other \in Deliveries \ {d} : deliveries'[other] = deliveries[other]
    BY <1>1 DEF Moves, Apply, OwnedAccount, ReadLatest, WriteMovement, SetBalance, Announce,
       AnnounceFails, Acknowledge, Lost, Unheard, Deliver
  <1>2. \E d \in Deliveries : Moves(d)
    BY DEF Next, Connect, Book, Replay, vars, Moves
  <1>3. QED
    BY <1>1, <1>2

\* A delivery that does not move keeps what it knows.
LEMMA OwnedStays ==
  ASSUME IInv, [Next]_vars, NEW d \in Deliveries, deliveries'[d] = deliveries[d]
  PROVE  Owned(d)'
  <1>1. Owned(d)
    BY DEF IInv, DeliveriesAreOwned
  <1>2. deliveries[d].pc \in AtAnAccount => deliveries[d].pc # "idle"
    BY DEF AtAnAccount
  <1>3. QED
    BY <1>1, <1>2, HistoryStays, NoneIsNothing DEF Owned

LEMMA OwnedStep == IInv /\ [Next]_vars => DeliveriesAreOwned'
  <1> SUFFICES ASSUME IInv, [Next]_vars, NEW x \in Deliveries, deliveries'[x] # deliveries[x]
               PROVE  Owned(x)'
    BY OwnedStays DEF DeliveriesAreOwned
  <1> USE DEF IInv, TypeOK, AtAnAccount, appVars
  <1>0. Owned(x)
    BY DEF DeliveriesAreOwned
  <1>1. ASSUME NEW e \in Events, Deliver(x, e) PROVE Owned(x)'
    <2>1. deliveries'[x] = [NoDelivery EXCEPT !.pc = "accounts", !.event = e, !.heard = TRUE,
                                              !.todo = AccountsOf(e)]
      BY <1>1 DEF Deliver
    <2>2. events'[e].state # "unbooked"
      BY <1>1, HistoryStays DEF Deliver
    <2>3. QED
      BY <2>1, <2>2 DEF Owned, NoDelivery
  <1>2. ASSUME NEW a \in Accounts, OwnedAccount(x, a) PROVE Owned(x)'
    <2>1. UNCHANGED <<owner, events>>
      BY <1>2 DEF OwnedAccount
    <2>2. CASE owner[a] # None /\ owner[a] = events[deliveries[x].event].company
      <3>1. owner[a] \in Companies
        BY <2>2
      <3>2. deliveries'[x] = [deliveries[x] EXCEPT !.pc = "reading", !.account = a,
                !.company = owner[a], !.todo = deliveries[x].todo \ {a}]
        BY <1>2, <2>2 DEF OwnedAccount
      <3>3. QED
        BY <1>0, <1>2, <2>1, <2>2, <3>1, <3>2 DEF Owned, OwnedAccount, Delivery
    <2>3. CASE ~(owner[a] # None /\ owner[a] = events[deliveries[x].event].company)
      <3>1. deliveries'[x] = [deliveries[x] EXCEPT !.todo = deliveries[x].todo \ {a}]
        BY <1>2, <2>3 DEF OwnedAccount
      <3>2. QED
        BY <1>0, <1>2, <2>1, <3>1 DEF Owned, OwnedAccount, Delivery
    <2>4. QED
      BY <2>2, <2>3
  <1>3. CASE ReadLatest(x)
    BY <1>0, <1>3 DEF Owned, ReadLatest, Delivery
  <1>4. ASSUME NEW m \in Movements, WriteMovement(x, m) PROVE Owned(x)'
    <2>1. UNCHANGED <<owner, events>>
      BY <1>4 DEF WriteMovement
    <2>2. deliveries[x].pc = "writing"
      BY <1>4 DEF WriteMovement
    <2>3. PICK fresh \in SUBSET Movements :
            deliveries'[x] = [deliveries[x] EXCEPT !.left = deliveries[x].left \ {m},
              !.fresh = fresh,
              !.pc = IF deliveries[x].left = {m} THEN "balancing" ELSE deliveries[x].pc]
      BY <1>4 DEF WriteMovement, Delivery
    <2>4. QED
      BY <1>0, <2>1, <2>2, <2>3 DEF Owned, Delivery
  <1>5. CASE SetBalance(x) \/ AnnounceFails(x)
    BY <1>0, <1>5 DEF Owned, SetBalance, AnnounceFails, Delivery
  <1>6. ASSUME NEW m \in Movements, Announce(x, m) PROVE Owned(x)'
    BY <1>0, <1>6 DEF Owned, Announce, Delivery
  <1>7. CASE Acknowledge(x) \/ Lost(x)
    BY <1>7 DEF Owned, Acknowledge, Lost, NoDelivery
  <1>8. CASE Unheard(x)
    <2>1. deliveries'[x] = [deliveries[x] EXCEPT !.heard = FALSE]
      BY <1>8 DEF Unheard
    <2>2. deliveries[x].pc # "idle"
      BY <1>0, <1>8 DEF Unheard, Owned
    <2>3. QED
      BY <1>0, <1>8, <2>1, <2>2, HistoryStays DEF Owned, Unheard, Delivery
  <1>9. Moves(x)
    BY OneDeliveryAtATime
  <1>10. QED
    BY <1>1, <1>2, <1>3, <1>4, <1>5, <1>6, <1>7, <1>8, <1>9 DEF Moves, Apply

\* Nothing but Book touches an event the bank has not booked yet.
LEMMA OnlyBookBooks ==
  ASSUME IInv, [Next]_vars, NEW e \in Events, events[e].state = "unbooked", ~Book(e)
  PROVE  events'[e] = events[e]
  <1> USE DEF IInv, TypeOK, appVars
  <1>1. ASSUME NEW d \in Deliveries, Moves(d) PROVE events'[e] = events[e]
    <2>1. deliveries[d].pc # "idle" => deliveries[d].event \in Events \ {e}
      BY DEF DeliveriesAreOwned, Owned
    <2>2. CASE Apply(d)
      BY <2>1, <2>2 DEF Apply, OwnedAccount, ReadLatest, WriteMovement, SetBalance,
         Announce, AnnounceFails, Acknowledge
    <2>3. CASE Lost(d)
      BY <2>1, <2>3 DEF Lost, Missed
    <2>4. CASE Unheard(d)
      <3>1. deliveries[d].pc # "idle"
        BY <2>4 DEF Unheard, DeliveriesAreOwned, Owned
      <3>2. QED
        BY <2>1, <2>4, <3>1 DEF Unheard, Missed
    <2>5. CASE \E f \in Events : Deliver(d, f)
      BY <2>5 DEF Deliver
    <2>6. QED
      BY <1>1, <2>2, <2>3, <2>4, <2>5 DEF Moves
  <1>2. CASE \E f \in Events : Book(f) \/ Replay(f)
    BY <1>2 DEF Book, Replay
  <1>3. CASE (\E a \in Accounts, c \in Companies : Connect(a, c)) \/ UNCHANGED vars
    BY <1>3 DEF Connect, vars
  <1>4. QED
    BY <1>1, <1>2, <1>3 DEF Next, Moves

LEMMA EventsStep == IInv /\ [Next]_vars => EventsKnowTheirAccounts'
  <1> SUFFICES ASSUME IInv, [Next]_vars, NEW e \in Events
               PROVE  /\ events'[e].state = "unbooked" =>
                           events'[e].company = None /\ events'[e].ours = {}
                      /\ \A a \in events'[e].ours : owner'[a] # None /\ owner'[a] = events'[e].company
    BY DEF EventsKnowTheirAccounts
  <1> USE DEF IInv, TypeOK, appVars
  <1>1. /\ events[e].state = "unbooked" => events[e].company = None /\ events[e].ours = {}
        /\ \A a \in events[e].ours : owner[a] # None /\ owner[a] = events[e].company
        /\ events[e].ours \subseteq Accounts
    BY DEF EventsKnowTheirAccounts, Event
  <1>2. CASE events[e].state # "unbooked"
    BY <1>1, <1>2, HistoryStays
  <1>3. CASE Book(e)
    <2>1. PICK c \in Companies \union {None} :
            events' = [events EXCEPT ![e] =
              [state |-> "queued", tries |-> 0, company |-> c,
               ours |-> {a \in AccountsOf(e) : c # None /\ owner[a] = c}]]
      BY <1>3 DEF Book
    <2>2. QED
      BY <1>3, <2>1 DEF Book
  <1>4. CASE events[e].state = "unbooked" /\ ~Book(e)
    <2>1. events'[e] = events[e]
      BY <1>4, OnlyBookBooks
    <2>2. QED
      BY <1>1, <1>4, <2>1
  <1>5. QED
    BY <1>2, <1>3, <1>4

-----------------------------------------------------------------------------
(* Rows and announcements.                                                 *)

LEMMA OnFileStays ==
  ASSUME IInv, [Next]_vars, NEW m, OnFile(m)
  PROVE  OnFile(m)'
  BY HistoryStays DEF OnFile

\* A row is only ever added by WriteMovement.
LEMMA OnlyWriteMovementBooks ==
  ASSUME IInv, [Next]_vars
  PROVE  \/ UNCHANGED transactions
         \/ \E d \in Deliveries, m \in Movements : WriteMovement(d, m)
  <1>1. ASSUME NEW d \in Deliveries, Moves(d),
               ~\E m \in Movements : WriteMovement(d, m)
        PROVE  UNCHANGED transactions
    BY <1>1 DEF Moves, Apply, OwnedAccount, ReadLatest, SetBalance, Announce, AnnounceFails,
       Acknowledge, Lost, Unheard, Deliver, appVars
  <1>2. CASE \/ \E a \in Accounts, c \in Companies : Connect(a, c)
             \/ \E e \in Events : Book(e) \/ Replay(e)
             \/ UNCHANGED vars
    BY <1>2 DEF Connect, Book, Replay, vars, appVars
  <1>3. QED
    BY <1>1, <1>2 DEF Next, Moves

LEMMA BookedStep == IInv /\ [Next]_vars => BookedToTheNamedOwner'
  <1> SUFFICES ASSUME IInv, [Next]_vars PROVE BookedToTheNamedOwner'
    OBVIOUS
  <1> DEFINE Right(row) ==
        /\ row.company = owner[row.account]
        /\ \E e \in Events : /\ row.movement \in Reported[e][row.account]
                             /\ row.company = events[e].company
  <1>1. ASSUME NEW row \in Row, Right(row) PROVE Right(row)'
    <2>1. row.company \in Companies /\ row.account \in Accounts
      BY <1>1 DEF Row
    <2>2. owner'[row.account] = owner[row.account]
      BY <1>1, <2>1, NoneIsNothing, HistoryStays
    <2>3. PICK e \in Events : row.movement \in Reported[e][row.account]
                              /\ row.company = events[e].company
      BY <1>1
    <2>4. events[e].state # "unbooked"
      BY <2>1, <2>3, NoneIsNothing DEF IInv, EventsKnowTheirAccounts
    <2>5. events'[e].company = events[e].company
      BY <2>4, HistoryStays
    <2>6. QED
      BY <1>1, <2>2, <2>3, <2>5
  <1>2. \A row \in transactions : Right(row)'
    BY <1>1 DEF IInv, TypeOK, BookedToTheNamedOwner
  <1>3. CASE UNCHANGED transactions
    BY <1>2, <1>3 DEF BookedToTheNamedOwner, IInv
  <1>4. ASSUME NEW d \in Deliveries, NEW m \in Movements, WriteMovement(d, m)
        PROVE  BookedToTheNamedOwner'
    <2>1. CASE OnFile(m)
      BY <1>3, <1>4, <2>1 DEF WriteMovement
    <2>2. CASE ~OnFile(m)
      <3>1. /\ deliveries[d].event \in Events /\ deliveries[d].account \in Accounts
            /\ deliveries[d].company \in Companies
            /\ deliveries[d].company = owner[deliveries[d].account]
            /\ deliveries[d].company = events[deliveries[d].event].company
            /\ m \in Reported[deliveries[d].event][deliveries[d].account]
        BY <1>4 DEF WriteMovement, IInv, DeliveriesAreOwned, Owned, AtAnAccount
      <3>2. PICK new \in Row : new = [movement |-> m, account |-> deliveries[d].account,
                                      company |-> deliveries[d].company]
        BY <3>1 DEF Row
      <3>3. transactions' = transactions \union {new} /\ Right(new)'
        BY <1>4, <2>2, <3>1, <3>2 DEF WriteMovement
      <3>4. \A row \in transactions : row.movement # m
        BY <2>2 DEF OnFile
      <3>5. \A row \in transactions' : Right(row)'
        BY <1>2, <3>3
      <3>6. \A one, other \in transactions' : one.movement = other.movement => one = other
        BY <3>2, <3>3, <3>4 DEF BookedToTheNamedOwner, IInv
      <3>7. QED
        BY <3>5, <3>6 DEF BookedToTheNamedOwner
    <2>3. QED
      BY <2>1, <2>2
  <1>5. QED
    BY <1>3, <1>4, OnlyWriteMovementBooks

LEMMA AnnouncedStep ==
  IInv /\ [Next]_vars => FreshIsUnannounced' /\ AnnouncedAtMostOnce'
  <1> SUFFICES ASSUME IInv, [Next]_vars PROVE FreshIsUnannounced' /\ AnnouncedAtMostOnce'
    OBVIOUS
  <1> USE DEF IInv, TypeOK
  <1>0. /\ \A m \in Movements : OnFile(m) => OnFile(m)'
        /\ \A d \in Deliveries : deliveries[d].fresh \in SUBSET Movements
    BY OnFileStays DEF Delivery
  \* Nothing announced, and nobody's list longer.
  <1>1. ASSUME UNCHANGED announced,
               \A d \in Deliveries : deliveries'[d].fresh \subseteq deliveries[d].fresh
        PROVE  FreshIsUnannounced' /\ AnnouncedAtMostOnce'
    <2>1. FreshIsUnannounced'
      BY <1>0, <1>1 DEF FreshIsUnannounced
    <2>2. AnnouncedAtMostOnce'
      BY <1>0, <1>1 DEF AnnouncedAtMostOnce
    <2>3. QED
      BY <2>1, <2>2
  <1>2. ASSUME NEW d \in Deliveries, NEW m \in Movements, WriteMovement(d, m)
        PROVE  FreshIsUnannounced' /\ AnnouncedAtMostOnce'
    <2>1. CASE OnFile(m)
      <3>1. /\ UNCHANGED announced
            /\ deliveries'[d].fresh = deliveries[d].fresh
            /\ \A other \in Deliveries \ {d} : deliveries'[other] = deliveries[other]
        BY <1>2, <2>1 DEF WriteMovement, Delivery
      <3>2. QED
        BY <1>1, <3>1
    <2>2. CASE ~OnFile(m)
      <3>1. /\ announced[m] = 0
            /\ \A other \in Deliveries : m \notin deliveries[other].fresh
        BY <2>2 DEF AnnouncedAtMostOnce, FreshIsUnannounced
      <3>2. /\ UNCHANGED announced
            /\ deliveries'[d].fresh = deliveries[d].fresh \union {m}
            /\ \A other \in Deliveries \ {d} : deliveries'[other] = deliveries[other]
            /\ OnFile(m)'
        <4>1. UNCHANGED announced /\ OnFile(m)'
          <5>1. PICK row : row.movement = m /\ transactions' = transactions \union {row}
            BY <1>2, <2>2 DEF WriteMovement
          <5>2. QED
            BY <1>2, <5>1 DEF WriteMovement, OnFile
        <4>2. /\ deliveries'[d].fresh = deliveries[d].fresh \union {m}
              /\ \A other \in Deliveries \ {d} : deliveries'[other] = deliveries[other]
          BY <1>2, <2>2 DEF WriteMovement, Delivery
        <4>3. QED
          BY <4>1, <4>2
      <3>3. FreshIsUnannounced'
        BY <1>0, <3>1, <3>2 DEF FreshIsUnannounced
      <3>4. AnnouncedAtMostOnce'
        BY <1>0, <3>2 DEF AnnouncedAtMostOnce
      <3>5. QED
        BY <3>3, <3>4
    <2>3. QED
      BY <2>1, <2>2
  <1>3. ASSUME NEW d \in Deliveries, NEW m \in Movements, Announce(d, m)
        PROVE  FreshIsUnannounced' /\ AnnouncedAtMostOnce'
    <2>1. /\ m \in deliveries[d].fresh /\ OnFile(m) /\ announced[m] = 0
          /\ \A other \in Deliveries \ {d} : m \notin deliveries[other].fresh
      BY <1>3 DEF Announce, FreshIsUnannounced
    <2>2. /\ announced' = [announced EXCEPT ![m] = 1]
          /\ deliveries'[d].fresh = deliveries[d].fresh \ {m}
          /\ \A other \in Deliveries \ {d} : deliveries'[other] = deliveries[other]
      BY <1>3, <2>1 DEF Announce, Delivery
    <2>3. FreshIsUnannounced'
      BY <1>0, <2>1, <2>2 DEF FreshIsUnannounced
    <2>4. AnnouncedAtMostOnce'
      BY <1>0, <2>1, <2>2 DEF AnnouncedAtMostOnce
    <2>5. QED
      BY <2>3, <2>4
  <1>4. ASSUME NEW d \in Deliveries, Moves(d),
               ~\E m \in Movements : WriteMovement(d, m) \/ Announce(d, m)
        PROVE  FreshIsUnannounced' /\ AnnouncedAtMostOnce'
    <2>1. UNCHANGED announced
      BY <1>4 DEF Moves, Apply, OwnedAccount, ReadLatest, SetBalance, AnnounceFails,
         Acknowledge, Lost, Unheard, Deliver, appVars
    <2>2. deliveries'[d].fresh \subseteq deliveries[d].fresh
      <3>0. deliveries[d] \in Delivery
        OBVIOUS
      <3>1. ASSUME NEW a \in Accounts, OwnedAccount(d, a)
            PROVE  deliveries'[d].fresh = deliveries[d].fresh
        <4>1. \/ deliveries'[d] = [deliveries[d] EXCEPT !.todo = deliveries[d].todo \ {a}]
              \/ deliveries'[d] = [deliveries[d] EXCEPT !.pc = "reading", !.account = a,
                    !.company = owner[a], !.todo = deliveries[d].todo \ {a}]
          BY <3>1 DEF OwnedAccount
        <4>2. QED
          BY <3>0, <4>1 DEF Delivery
      <3>2. CASE ReadLatest(d)
        <4>1. PICK t \in Times :
                deliveries'[d] = [deliveries[d] EXCEPT !.pc = "writing", !.latest = t,
                  !.left = Reported[deliveries[d].event][deliveries[d].account]]
          BY <3>2 DEF ReadLatest
        <4>2. QED
          BY <3>0, <4>1 DEF Delivery
      <3>3. CASE SetBalance(d) \/ AnnounceFails(d)
        BY <3>0, <3>3 DEF SetBalance, AnnounceFails, Delivery
      <3>4. CASE Unheard(d)
        BY <3>0, <3>4 DEF Unheard, Delivery
      <3>5. CASE Acknowledge(d) \/ Lost(d)
        BY <3>5 DEF Acknowledge, Lost, NoDelivery
      <3>6. ASSUME NEW e \in Events, Deliver(d, e) PROVE deliveries'[d].fresh = {}
        BY <3>6 DEF Deliver, NoDelivery
      <3>7. QED
        BY <1>4, <3>1, <3>2, <3>3, <3>4, <3>5, <3>6 DEF Moves, Apply
    <2>3. \A other \in Deliveries \ {d} : deliveries'[other] = deliveries[other]
      BY <1>4 DEF Moves, Apply, OwnedAccount, ReadLatest, SetBalance, AnnounceFails,
         Acknowledge, Lost, Unheard, Deliver
    <2>4. QED
      BY <1>1, <2>1, <2>2, <2>3
  <1>5. CASE \/ \E a \in Accounts, c \in Companies : Connect(a, c)
             \/ \E e \in Events : Book(e) \/ Replay(e)
             \/ UNCHANGED vars
    BY <1>1, <1>5 DEF Connect, Book, Replay, vars, appVars
  <1>6. QED
    BY <1>2, <1>3, <1>4, <1>5 DEF Next, Moves

-----------------------------------------------------------------------------
LEMMA Invariance == Spec => []IInv
  <1>1. IInv /\ [Next]_vars => IInv'
    BY TypeStep, OwnedStep, EventsStep, BookedStep, AnnouncedStep DEF IInv
  <1>2. QED
    BY <1>1, InitEstablishes, PTL DEF Spec

\* Type correctness of BankWebhook.
THEOREM Typing == Spec => []TypeOK
  <1>1. IInv => TypeOK
    BY DEF IInv
  <1>2. QED
    BY <1>1, Invariance, PTL

\* Every movement is booked once, on the account the bank reported it for, to
\* the company that has the account on file and that the bank names.
THEOREM MovementsGoToTheirOwner == Spec => []BookedToTheNamedOwner
  <1>1. IInv => BookedToTheNamedOwner
    BY DEF IInv
  <1>2. QED
    BY <1>1, Invariance, PTL

\* No movement is announced twice, or before it is on file, however many
\* deliveries of its event overlap, die and are retried.
THEOREM MovementsAreAnnouncedOnce == Spec => []AnnouncedAtMostOnce
  <1>1. IInv => AnnouncedAtMostOnce
    BY DEF IInv
  <1>2. QED
    BY <1>1, Invariance, PTL

-----------------------------------------------------------------------------
(* What an acknowledgement means.                                          *)

\* Every account a delivery is answerable for is ahead of it, behind it with
\* all its movements on file, or the one it is at.
KeepsItsPlace(d) ==
  deliveries[d].pc # "idle" =>
    \A a \in events[deliveries[d].event].ours :
      \/ a \in deliveries[d].todo
      \/ \A m \in Reported[deliveries[d].event][a] : OnFile(m)
      \/ a = deliveries[d].account /\ deliveries[d].pc = "reading"
      \/ /\ a = deliveries[d].account /\ deliveries[d].pc = "writing"
         /\ \A m \in Reported[deliveries[d].event][a] \ deliveries[d].left : OnFile(m)

AInv == AckedMeansRecorded /\ \A d \in Deliveries : KeepsItsPlace(d)

LEMMA WrittenIsOnFile ==
  ASSUME IInv, [Next]_vars, NEW d \in Deliveries, NEW m \in Movements, WriteMovement(d, m)
  PROVE  OnFile(m)'
  <1>1. CASE OnFile(m)
    BY <1>1, OnFileStays
  <1>2. CASE ~OnFile(m)
    <2>1. PICK row : row.movement = m /\ transactions' = transactions \union {row}
      BY <1>2 DEF WriteMovement
    <2>2. row \in transactions'
      BY <2>1
    <2>3. QED
      BY <2>1, <2>2 DEF OnFile
  <1>3. QED
    BY <1>1, <1>2

LEMMA PlaceStays ==
  ASSUME IInv, [Next]_vars, NEW d \in Deliveries, KeepsItsPlace(d),
         deliveries'[d] = deliveries[d]
  PROVE  KeepsItsPlace(d)'
  <1>1. deliveries[d].pc # "idle" =>
          /\ deliveries[d].event \in Events
          /\ events'[deliveries[d].event].ours = events[deliveries[d].event].ours
    BY HistoryStays DEF IInv, DeliveriesAreOwned, Owned
  <1>2. QED
    BY <1>1, OnFileStays DEF KeepsItsPlace

LEMMA PlaceStep ==
  ASSUME IInv, AInv, [Next]_vars, NEW x \in Deliveries
  PROVE  KeepsItsPlace(x)'
  <1> SUFFICES ASSUME deliveries'[x] # deliveries[x] PROVE KeepsItsPlace(x)'
    BY PlaceStays DEF AInv
  <1> DEFINE D == deliveries[x]
             e == deliveries[x].event
  <1>0. D \in Delivery /\ Owned(x) /\ KeepsItsPlace(x)
    BY DEF IInv, TypeOK, DeliveriesAreOwned, AInv
  <1>1. D.pc # "idle" => e \in Events /\ events'[e].ours = events[e].ours
    BY <1>0, HistoryStays DEF Owned
  <1>2. ASSUME NEW f \in Events, Deliver(x, f) PROVE KeepsItsPlace(x)'
    <2>1. /\ deliveries'[x].event = f /\ deliveries'[x].todo = AccountsOf(f)
      BY <1>2 DEF Deliver, NoDelivery, IInv, TypeOK
    <2>2. events'[f].ours \subseteq Accounts
      BY TypeStep DEF TypeOK, Event
    <2>3. QED
      BY <2>1, <2>2 DEF KeepsItsPlace, AccountsOf
  <1>3. ASSUME NEW a \in Accounts, OwnedAccount(x, a) PROVE KeepsItsPlace(x)'
    <2>1. D.pc = "accounts" /\ a \in D.todo /\ e \in Events
      BY <1>0, <1>3 DEF OwnedAccount, Owned
    <2>2. CASE owner[a] # None /\ owner[a] = events[e].company
      <3>1. deliveries'[x] = [D EXCEPT !.pc = "reading", !.account = a,
                                       !.company = owner[a], !.todo = D.todo \ {a}]
        BY <1>3, <2>2 DEF OwnedAccount, IInv, TypeOK
      <3>2. /\ deliveries'[x].pc = "reading" /\ deliveries'[x].account = a
            /\ deliveries'[x].todo = D.todo \ {a} /\ deliveries'[x].event = e
        BY <1>0, <3>1 DEF Delivery
      <3>3. QED
        BY <1>0, <1>1, <2>1, <3>2, OnFileStays DEF KeepsItsPlace
    <2>3. CASE ~(owner[a] # None /\ owner[a] = events[e].company)
      <3>1. deliveries'[x] = [D EXCEPT !.todo = D.todo \ {a}]
        BY <1>3, <2>3 DEF OwnedAccount, IInv, TypeOK
      <3>2. /\ deliveries'[x].pc = "accounts"
            /\ deliveries'[x].todo = D.todo \ {a} /\ deliveries'[x].event = e
        BY <1>0, <2>1, <3>1 DEF Delivery
      <3>3. a \notin events[e].ours
        BY <2>1, <2>3 DEF IInv, EventsKnowTheirAccounts
      <3>4. QED
        BY <1>0, <1>1, <2>1, <3>2, <3>3, OnFileStays DEF KeepsItsPlace
    <2>4. QED
      BY <2>2, <2>3
  <1>4. CASE ReadLatest(x)
    <2>1. PICK t \in Times :
            deliveries'[x] = [D EXCEPT !.pc = "writing", !.latest = t,
                                       !.left = Reported[e][D.account]]
      BY <1>4 DEF ReadLatest, IInv, TypeOK
    <2>2. /\ deliveries'[x].pc = "writing" /\ deliveries'[x].left = Reported[e][D.account]
          /\ deliveries'[x].todo = D.todo /\ deliveries'[x].event = e
          /\ deliveries'[x].account = D.account
      BY <1>0, <2>1 DEF Delivery
    <2>3. D.pc = "reading"
      BY <1>4 DEF ReadLatest
    <2>4. QED
      BY <1>0, <1>1, <2>2, <2>3, OnFileStays DEF KeepsItsPlace
  <1>5. ASSUME NEW m \in Movements, WriteMovement(x, m) PROVE KeepsItsPlace(x)'
    <2>1. PICK fresh \in SUBSET Movements :
            deliveries'[x] = [D EXCEPT !.left = D.left \ {m}, !.fresh = fresh,
                                       !.pc = IF D.left = {m} THEN "balancing" ELSE D.pc]
      BY <1>0, <1>5 DEF WriteMovement, Delivery, IInv, TypeOK
    <2>2. D.pc = "writing"
      BY <1>5 DEF WriteMovement
    <2>3. PICK pc \in {"balancing", "writing"} :
            /\ pc = "balancing" => D.left = {m}
            /\ deliveries'[x] = [D EXCEPT !.left = D.left \ {m}, !.fresh = fresh, !.pc = pc]
      BY <2>1, <2>2
    <2>4. /\ deliveries'[x].pc \in {"balancing", "writing"}
          /\ deliveries'[x].pc = "balancing" => D.left = {m}
          /\ deliveries'[x].left = D.left \ {m}
          /\ deliveries'[x].todo = D.todo /\ deliveries'[x].event = e
          /\ deliveries'[x].account = D.account
      BY <1>0, <2>3 DEF Delivery
    <2>5. OnFile(m)'
      BY <1>5, WrittenIsOnFile
    <2>6. QED
      BY <1>0, <1>1, <2>2, <2>4, <2>5, OnFileStays DEF KeepsItsPlace
  <1>6. CASE SetBalance(x) \/ AnnounceFails(x) \/ \E m \in Movements : Announce(x, m)
    <2>1. PICK fresh \in SUBSET Movements, pc \in {"accounts", "announcing"} :
            deliveries'[x] = [D EXCEPT !.fresh = fresh, !.pc = pc]
      <3>1. CASE SetBalance(x)
        BY <1>0, <3>1 DEF SetBalance, Delivery, IInv, TypeOK
      <3>2. CASE AnnounceFails(x)
        BY <1>0, <3>2 DEF AnnounceFails, Delivery, IInv, TypeOK
      <3>3. ASSUME NEW m \in Movements, Announce(x, m)
            PROVE  \E fresh \in SUBSET Movements, pc \in {"accounts", "announcing"} :
                     deliveries'[x] = [D EXCEPT !.fresh = fresh, !.pc = pc]
        BY <1>0, <3>3 DEF Announce, Delivery, IInv, TypeOK
      <3>4. QED
        BY <1>6, <3>1, <3>2, <3>3
    <2>2. /\ deliveries'[x].todo = D.todo /\ deliveries'[x].event = e
          /\ D.pc \in {"balancing", "announcing"}
      BY <1>0, <1>6, <2>1 DEF SetBalance, AnnounceFails, Announce, Delivery
    <2>3. QED
      BY <1>0, <1>1, <2>2, OnFileStays DEF KeepsItsPlace
  <1>7. CASE Acknowledge(x) \/ Lost(x)
    BY <1>7 DEF Acknowledge, Lost, NoDelivery, KeepsItsPlace, IInv, TypeOK
  <1>8. CASE Unheard(x)
    <2>1. deliveries'[x] = [D EXCEPT !.heard = FALSE]
      BY <1>8 DEF Unheard, IInv, TypeOK
    <2>2. /\ deliveries'[x].pc = D.pc /\ deliveries'[x].left = D.left
          /\ deliveries'[x].todo = D.todo /\ deliveries'[x].event = e
          /\ deliveries'[x].account = D.account
      BY <1>0, <2>1 DEF Delivery
    <2>3. QED
      BY <1>0, <1>1, <2>2, OnFileStays DEF KeepsItsPlace
  <1>9. Moves(x)
    BY OneDeliveryAtATime
  <1>10. QED
    BY <1>2, <1>3, <1>4, <1>5, <1>6, <1>7, <1>8, <1>9 DEF Moves, Apply

\* Only Acknowledge tells the bank that an event is handled.
LEMMA OnlyAcknowledgeAcks ==
  ASSUME IInv, [Next]_vars, NEW e \in Events,
         events'[e].state = "acked", events[e].state # "acked"
  PROVE  \E d \in Deliveries : Acknowledge(d) /\ deliveries[d].event = e
  <1> USE DEF IInv, TypeOK
  <1>1. ASSUME NEW d \in Deliveries, Acknowledge(d), deliveries[d].event # e PROVE FALSE
    BY <1>1 DEF Acknowledge
  <1>2. ASSUME NEW d \in Deliveries, Moves(d), ~Acknowledge(d) PROVE FALSE
    <2>1. CASE Lost(d) \/ Unheard(d)
      BY <2>1 DEF Lost, Unheard, Missed, Event
    <2>2. ASSUME NEW f \in Events, Deliver(d, f) PROVE FALSE
      BY <2>2 DEF Deliver, Event
    <2>3. CASE Apply(d)
      BY <1>2, <2>3 DEF Apply, OwnedAccount, ReadLatest, WriteMovement, SetBalance, Announce,
         AnnounceFails
    <2>4. QED
      BY <1>2, <2>1, <2>2, <2>3 DEF Moves
  <1>3. ASSUME NEW f \in Events, Book(f) \/ Replay(f) PROVE FALSE
    BY <1>3 DEF Book, Replay, Event
  <1>4. CASE (\E a \in Accounts, c \in Companies : Connect(a, c)) \/ UNCHANGED vars
    BY <1>4 DEF Connect, vars
  <1>5. QED
    BY <1>1, <1>2, <1>3, <1>4 DEF Next, Moves

LEMMA AckStep == IInv /\ AInv /\ [Next]_vars => AInv'
  <1> SUFFICES ASSUME IInv, AInv, [Next]_vars PROVE AckedMeansRecorded'
    BY PlaceStep DEF AInv
  <1>1. ASSUME NEW e \in Events, events'[e].state = "acked", events[e].state = "acked"
        PROVE  \A a \in events'[e].ours : \A m \in Reported[e][a] : OnFile(m)'
    <2>1. events'[e].ours = events[e].ours
      BY <1>1, HistoryStays
    <2>2. QED
      BY <1>1, <2>1, OnFileStays DEF AInv, AckedMeansRecorded
  <1>2. ASSUME NEW e \in Events, events'[e].state = "acked", events[e].state # "acked"
        PROVE  \A a \in events'[e].ours : \A m \in Reported[e][a] : OnFile(m)'
    <2>1. PICK d \in Deliveries : Acknowledge(d) /\ deliveries[d].event = e
      BY <1>2, OnlyAcknowledgeAcks
    <2>2. deliveries[d].pc = "accounts" /\ deliveries[d].todo = {}
      BY <2>1 DEF Acknowledge
    <2>3. \A a \in events[e].ours : \A m \in Reported[e][a] : OnFile(m)
      BY <2>1, <2>2 DEF AInv, KeepsItsPlace
    <2>4. events'[e].ours = events[e].ours
      BY <2>1, <2>2, HistoryStays DEF IInv, DeliveriesAreOwned, Owned
    <2>5. QED
      BY <2>3, <2>4, OnFileStays
  <1>3. QED
    BY <1>1, <1>2 DEF AckedMeansRecorded

\* An acknowledged event is on file, for every account that was connected when
\* it was booked: what the bank is told is handled is never owed again.
THEOREM AcknowledgedEventsAreRecorded == Spec => []AckedMeansRecorded
  <1>1. Init => AInv
    BY DEF Init, AInv, AckedMeansRecorded, KeepsItsPlace, NoDelivery
  <1>2. AInv => AckedMeansRecorded
    BY DEF AInv
  <1>3. QED
    BY <1>1, <1>2, AckStep, Invariance, PTL DEF Spec

-----------------------------------------------------------------------------
(* The balance, when deliveries come one at a time.                        *)

\* The event whose figure is stored has a movement on file, a delivery that is
\* writing has seen it, and one that sets the balance has written its own.
BalanceIsExplained ==
  \A a \in Accounts : balance[a] # 0 => \E m \in Reported[balance[a]][a] : OnFile(m)

SawTheBalance(d) ==
  deliveries[d].pc \in {"writing", "balancing"} /\ balance[deliveries[d].account] # 0 =>
    \E m \in Reported[balance[deliveries[d].account]][deliveries[d].account] :
      BookedAt[m] <= deliveries[d].latest

HasWritten(d) ==
  deliveries[d].pc = "balancing" =>
    \E m \in Reported[deliveries[d].event][deliveries[d].account] : OnFile(m)

BInv == BalanceIsExplained /\ \A d \in Deliveries : SawTheBalance(d) /\ HasWritten(d)

Serial == \A d, x \in Deliveries : d = x

LEMMA TimesTyped ==
  /\ BookedAt \in [Movements -> Nat]
  /\ \A e \in Events \union {0} : e \in Nat
  <1>1. BookedAt \in [Movements -> Nat] /\ Events \subseteq Nat
    BY WebhookAssumption
  <1>2. QED
    BY <1>1

\* What a delivery reads covers every movement on file for its account.
LEMMA ReadCovers ==
  ASSUME IInv, NEW d \in Deliveries, ReadLatest(d), NEW f \in Events,
         NEW m \in Reported[f][deliveries[d].account], OnFile(m)
  PROVE  BookedAt[m] <= deliveries'[d].latest
  <1> DEFINE a == deliveries[d].account
  <1>1. a \in Accounts /\ deliveries[d] \in Delivery
    BY DEF ReadLatest, IInv, TypeOK, DeliveriesAreOwned, Owned, AtAnAccount
  <1>2. m \in Movements
    BY <1>1, ReportedTyped
  <1>3. PICK row \in transactions : row.movement = m
    BY DEF OnFile
  <1>4. row \in Row /\ \E e \in Events : m \in Reported[e][row.account]
    BY <1>3 DEF IInv, TypeOK, BookedToTheNamedOwner
  <1>5. row.account = a
    BY <1>1, <1>4, MovementsAreOneEvents DEF Row
  <1>6. PICK t \in Times :
          /\ IsNewest(t, {n \in Movements : \E r \in transactions :
                                              r.movement = n /\ r.account = a})
          /\ deliveries' = [deliveries EXCEPT ![d].pc = "writing", ![d].latest = t,
               ![d].left = Reported[deliveries[d].event][a]]
    BY DEF ReadLatest
  <1>7. BookedAt[m] <= t
    BY <1>2, <1>3, <1>5, <1>6 DEF IsNewest
  <1>8. deliveries'[d].latest = t
    <2>1. deliveries'[d] = [deliveries[d] EXCEPT !.pc = "writing", !.latest = t,
                              !.left = Reported[deliveries[d].event][a]]
      BY <1>6 DEF IInv, TypeOK
    <2>2. QED
      BY <1>1, <2>1 DEF Delivery
  <1>9. QED
    BY <1>7, <1>8

\* A figure that is taken is not older than the one it replaces.
LEMMA FigureMovesForward ==
  ASSUME IInv, BInv, BookedInOrder, NEW d \in Deliveries, SetBalance(d), ~Stale(d)
  PROVE  deliveries[d].event >= balance[deliveries[d].account]
  <1> DEFINE a == deliveries[d].account
             e == deliveries[d].event
             b == balance[a]
  <1>1. /\ a \in Accounts /\ e \in Events /\ b \in Events \union {0}
        /\ deliveries[d].latest \in Nat /\ deliveries[d].pc = "balancing"
    <2>1. deliveries[d].pc = "balancing" /\ deliveries[d] \in Delivery
      BY DEF SetBalance, IInv, TypeOK
    <2>2. a \in Accounts /\ e \in Events
      BY <2>1 DEF IInv, DeliveriesAreOwned, Owned, AtAnAccount
    <2>3. Times \subseteq Nat
      BY TimesTyped DEF Times
    <2>4. QED
      BY <2>1, <2>2, <2>3 DEF Delivery, IInv, TypeOK
  <1>2. CASE b = 0
    BY <1>1, <1>2, TimesTyped
  <1>3. CASE b # 0
    <2>1. PICK m \in Reported[b][a] : BookedAt[m] <= deliveries[d].latest
      BY <1>1, <1>3 DEF BInv, SawTheBalance
    <2>2. PICK n \in Reported[e][a] : ~(BookedAt[n] < deliveries[d].latest)
      BY DEF Stale
    <2>3. m \in Movements /\ n \in Movements
      BY <1>1, <1>3, ReportedTyped
    <2>4. BookedAt[m] <= BookedAt[n]
      BY <1>1, <2>1, <2>2, <2>3, TimesTyped
    <2>5. ~(e < b)
      <3>1. b \in Events
        BY <1>1, <1>3
      <3>2. BookedAt[m] \in Nat /\ BookedAt[n] \in Nat
        BY <2>3, TimesTyped
      <3>3. e < b => BookedAt[n] < BookedAt[m]
        BY <1>1, <2>1, <2>2, <3>1 DEF BookedInOrder
      <3>4. QED
        BY <2>4, <3>2, <3>3
    <2>6. QED
      BY <1>1, <2>5, TimesTyped
  <1>4. QED
    BY <1>2, <1>3

\* Only SetBalance writes the balance.
LEMMA OnlySetBalanceMovesIt ==
  ASSUME IInv, [Next]_vars
  PROVE  UNCHANGED balance \/ \E d \in Deliveries : SetBalance(d)
  <1>1. ASSUME NEW d \in Deliveries, Moves(d), ~SetBalance(d) PROVE UNCHANGED balance
    BY <1>1 DEF Moves, Apply, OwnedAccount, ReadLatest, WriteMovement, Announce, AnnounceFails,
       Acknowledge, Lost, Unheard, Deliver, appVars
  <1>2. CASE \/ \E a \in Accounts, c \in Companies : Connect(a, c)
             \/ \E e \in Events : Book(e) \/ Replay(e)
             \/ UNCHANGED vars
    BY <1>2 DEF Connect, Book, Replay, vars, appVars
  <1>3. QED
    BY <1>1, <1>2 DEF Next, Moves

\* Where the other actions leave a delivery.
LEMMA ElsewherePc ==
  ASSUME IInv, [Next]_vars, NEW x \in Deliveries, deliveries'[x] # deliveries[x],
         ~ReadLatest(x), ~Unheard(x), ~\E m \in Movements : WriteMovement(x, m)
  PROVE  deliveries'[x].pc \in {"idle", "accounts", "reading", "announcing"}
  <1>0. deliveries[x] \in Delivery
    BY DEF IInv, TypeOK
  <1>1. ASSUME NEW f \in Events, Deliver(x, f) PROVE deliveries'[x].pc = "accounts"
    BY <1>1 DEF Deliver, NoDelivery, IInv, TypeOK
  <1>2. ASSUME NEW a \in Accounts, OwnedAccount(x, a)
        PROVE  deliveries'[x].pc \in {"accounts", "reading"}
    <2>1. \/ deliveries'[x] = [deliveries[x] EXCEPT !.todo = deliveries[x].todo \ {a}]
          \/ deliveries'[x] = [deliveries[x] EXCEPT !.pc = "reading", !.account = a,
                !.company = owner[a], !.todo = deliveries[x].todo \ {a}]
      BY <1>2 DEF OwnedAccount, IInv, TypeOK
    <2>2. deliveries[x].pc = "accounts"
      BY <1>2 DEF OwnedAccount
    <2>3. QED
      BY <1>0, <2>1, <2>2 DEF Delivery
  <1>3. CASE SetBalance(x) \/ AnnounceFails(x)
    BY <1>0, <1>3 DEF SetBalance, AnnounceFails, Delivery, IInv, TypeOK
  <1>4. ASSUME NEW m \in Movements, Announce(x, m)
        PROVE  deliveries'[x].pc \in {"accounts", "announcing"}
    BY <1>0, <1>4 DEF Announce, Delivery, IInv, TypeOK
  <1>5. CASE Acknowledge(x) \/ Lost(x)
    BY <1>5 DEF Acknowledge, Lost, NoDelivery, IInv, TypeOK
  <1>6. QED
    BY <1>1, <1>2, <1>3, <1>4, <1>5, OneDeliveryAtATime DEF Moves, Apply

\* A delivery past its read keeps the balance it saw, and one that is setting
\* the balance has written: what a step that leaves the balance alone does.
LEMMA PastTheReadStep ==
  ASSUME IInv, BInv, [Next]_vars, UNCHANGED balance, NEW x \in Deliveries
  PROVE  SawTheBalance(x)' /\ HasWritten(x)'
  <1> DEFINE D == deliveries[x]
  <1>0. D \in Delivery /\ Owned(x) /\ SawTheBalance(x) /\ HasWritten(x)
    BY DEF IInv, TypeOK, DeliveriesAreOwned, BInv
  <1>1. CASE deliveries'[x] = D
    BY <1>0, <1>1, OnFileStays DEF SawTheBalance, HasWritten
  <1>2. CASE ReadLatest(x)
    <2>1. PICK t \in Times :
            deliveries'[x] = [D EXCEPT !.pc = "writing", !.latest = t,
                                       !.left = Reported[D.event][D.account]]
      BY <1>2 DEF ReadLatest, IInv, TypeOK
    <2>2. deliveries'[x].pc = "writing" /\ deliveries'[x].account = D.account
      BY <1>0, <2>1 DEF Delivery
    <2>3. D.account \in Accounts /\ balance[D.account] \in Events \union {0}
      BY <1>0, <1>2 DEF ReadLatest, Owned, AtAnAccount, IInv, TypeOK
    <2>4. ASSUME balance[D.account] # 0
          PROVE  \E m \in Reported[balance[D.account]][D.account] :
                   BookedAt[m] <= deliveries'[x].latest
      <3>1. PICK m \in Reported[balance[D.account]][D.account] : OnFile(m)
        BY <2>3, <2>4 DEF BInv, BalanceIsExplained
      <3>2. QED
        BY <1>2, <2>3, <2>4, <3>1, ReadCovers
    <2>5. QED
      BY <2>2, <2>4 DEF SawTheBalance, HasWritten
  <1>3. ASSUME NEW m \in Movements, WriteMovement(x, m)
        PROVE  SawTheBalance(x)' /\ HasWritten(x)'
    <2>1. PICK fresh \in SUBSET Movements, pc \in {"balancing", "writing"} :
            deliveries'[x] = [D EXCEPT !.left = D.left \ {m}, !.fresh = fresh, !.pc = pc]
      <3>1. PICK fresh \in SUBSET Movements :
              deliveries'[x] = [D EXCEPT !.left = D.left \ {m}, !.fresh = fresh,
                                         !.pc = IF D.left = {m} THEN "balancing" ELSE D.pc]
        BY <1>0, <1>3 DEF WriteMovement, Delivery, IInv, TypeOK
      <3>2. D.pc = "writing"
        BY <1>3 DEF WriteMovement
      <3>3. QED
        BY <3>1, <3>2
    <2>2. /\ deliveries'[x].event = D.event /\ deliveries'[x].account = D.account
          /\ deliveries'[x].latest = D.latest
      BY <1>0, <2>1 DEF Delivery
    <2>3. D.pc = "writing" /\ m \in Reported[D.event][D.account]
      BY <1>0, <1>3 DEF WriteMovement, Owned
    <2>4. OnFile(m)'
      BY <1>3, WrittenIsOnFile
    <2>5. QED
      BY <1>0, <2>2, <2>3, <2>4 DEF SawTheBalance, HasWritten
  <1>4. ASSUME deliveries'[x] # D, ~ReadLatest(x), ~\E m \in Movements : WriteMovement(x, m)
        PROVE  SawTheBalance(x)' /\ HasWritten(x)'
    <2>1. CASE Unheard(x)
      <3>1. deliveries'[x] = [D EXCEPT !.heard = FALSE]
        BY <2>1 DEF Unheard, IInv, TypeOK
      <3>2. /\ deliveries'[x].pc = D.pc /\ deliveries'[x].event = D.event
            /\ deliveries'[x].account = D.account /\ deliveries'[x].latest = D.latest
        BY <1>0, <3>1 DEF Delivery
      <3>3. QED
        BY <1>0, <3>2, OnFileStays DEF SawTheBalance, HasWritten
    <2>2. CASE ~Unheard(x)
      <3>1. deliveries'[x].pc \in {"idle", "accounts", "reading", "announcing"}
        BY <1>0, <1>4, <2>2, ElsewherePc
      <3>2. QED
        BY <3>1 DEF SawTheBalance, HasWritten
    <2>3. QED
      BY <2>1, <2>2
  <1>5. QED
    BY <1>1, <1>2, <1>3, <1>4

\* With deliveries one at a time, and a bank whose clock follows the order it
\* books in, no step takes a stored balance back to an earlier event's.
LEMMA BalanceStep ==
  ASSUME IInv, BInv, [Next]_vars, Serial, BookedInOrder
  PROVE  BInv' /\ \A a \in Accounts : balance'[a] >= balance[a]
  <1>0. \A a \in Accounts : balance[a] \in Nat
    BY TimesTyped DEF IInv, TypeOK
  <1>1. CASE UNCHANGED balance
    <2>1. BalanceIsExplained'
      BY <1>1, OnFileStays DEF BInv, BalanceIsExplained
    <2>2. QED
      BY <1>0, <1>1, <2>1, PastTheReadStep DEF BInv
  <1>2. ASSUME NEW d \in Deliveries, SetBalance(d), ~UNCHANGED balance
        PROVE  BInv' /\ \A a \in Accounts : balance'[a] >= balance[a]
    <2> DEFINE D == deliveries[d]
    <2>1. /\ D.pc = "balancing" /\ D \in Delivery
          /\ D.account \in Accounts /\ D.event \in Events
      BY <1>2 DEF SetBalance, IInv, TypeOK, DeliveriesAreOwned, Owned, AtAnAccount
    <2>2. ~Stale(d) /\ balance' = [balance EXCEPT ![D.account] = D.event]
      BY <1>2 DEF SetBalance
    <2>3. D.event >= balance[D.account]
      BY <1>2, <2>2, FigureMovesForward
    <2>4. \A a \in Accounts : balance'[a] >= balance[a]
      BY <1>0, <2>1, <2>2, <2>3 DEF IInv, TypeOK
    <2>5. BalanceIsExplained'
      <3>1. \E m \in Reported[D.event][D.account] : OnFile(m)
        BY <2>1 DEF BInv, HasWritten
      <3>2. \A a \in Accounts : balance'[a] = IF a = D.account THEN D.event ELSE balance[a]
        BY <2>1, <2>2 DEF IInv, TypeOK
      <3>3. QED
        BY <3>1, <3>2, OnFileStays DEF BInv, BalanceIsExplained
    <2>6. \A x \in Deliveries : SawTheBalance(x)' /\ HasWritten(x)'
      <3>1. deliveries'[d].pc \in {"accounts", "announcing"}
        BY <1>2, <2>1 DEF SetBalance, Delivery, IInv, TypeOK
      <3>2. QED
        BY <3>1 DEF Serial, SawTheBalance, HasWritten
    <2>7. QED
      BY <2>4, <2>5, <2>6 DEF BInv
  <1>3. QED
    BY <1>1, <1>2, OnlySetBalanceMovesIt

\* The rewind guard of applyToAccount is enough when deliveries do not overlap
\* (MCBankWebhookRewind shows them overlapping): redelivered or out of order,
\* an event never winds the balance back.
THEOREM SerialBalanceNeverWindsBack ==
  ASSUME Serial, BookedInOrder
  PROVE  Spec => BalanceNeverWindsBack
  <1>1. Init => BInv
    BY DEF Init, BInv, BalanceIsExplained, SawTheBalance, HasWritten, NoDelivery
  <1>2. IInv /\ BInv /\ [Next]_vars => BInv' /\ [\A a \in Accounts : balance'[a] >= balance[a]]_vars
    BY BalanceStep
  <1>3. QED
    BY <1>1, <1>2, Invariance, PTL DEF Spec, BalanceNeverWindsBack

-----------------------------------------------------------------------------
(* The mirror.  An acknowledged event that never set the balance was stale: *)
(* a movement of a later event was on file, and that event answers for the *)
(* account in its turn (Shows), down to one the bank still owes.            *)

\* The balance of the account is e's or a later event's, or the bank owes it a
\* later event that was booked for the company that has it.
Owes(f) == f \in Figureless \/ events[f].state \in {"queued", "failed"}

Shows(e, a) ==
  balance[a] >= e \/ \E f \in Events : f > e /\ a \in events[f].ours /\ Owes(f)

BookedInTurn ==
  \A e, f \in Events : e < f /\ events[f].state # "unbooked" => events[e].state # "unbooked"

\* An account that was a company's when one event was booked is still its when
\* a later one is.
StillOurs ==
  \A e \in Events : \A a \in events[e].ours :
    /\ a \in AccountsOf(e)
    /\ \A f \in Events : e < f /\ a \in AccountsOf(f) /\ events[f].company = owner[a]
                          => a \in events[f].ours

\* What a delivery read is the time of a movement on file.
KnowsTheNewest(d) ==
  deliveries[d].pc \in {"writing", "balancing"} /\ deliveries[d].latest # 0 =>
    \E row \in transactions : /\ row.account = deliveries[d].account
                              /\ BookedAt[row.movement] = deliveries[d].latest

\* Every account a delivery is answerable for is ahead of it, the one it is at,
\* or shows the event's figure.
WillShow(d) ==
  \A e \in Events \ Figureless : deliveries[d].pc # "idle" /\ deliveries[d].event = e =>
    \A a \in events[e].ours :
      \/ a \in deliveries[d].todo
      \/ /\ a = deliveries[d].account
         /\ deliveries[d].pc \in {"reading", "writing", "balancing"}
      \/ Shows(e, a)

AckedShow ==
  \A e \in Events \ Figureless : events[e].state = "acked" =>
    \A a \in events[e].ours : Shows(e, a)

MInv ==
  /\ BookedInTurn /\ StillOurs /\ AckedShow
  /\ \A d \in Deliveries : KnowsTheNewest(d) /\ WillShow(d)

\* An event with an account to answer for has been booked.
LEMMA OursAreBooked ==
  ASSUME IInv, NEW e \in Events, NEW a \in events[e].ours
  PROVE  events[e].state # "unbooked" /\ a \in Accounts /\ owner[a] # None
         /\ owner[a] = events[e].company
  BY DEF IInv, TypeOK, Event, EventsKnowTheirAccounts

LEMMA InTurnStep ==
  ASSUME IInv, MInv, [Next]_vars
  PROVE  BookedInTurn'
  <1> SUFFICES ASSUME NEW e \in Events, NEW f \in Events, e < f,
                      events'[f].state # "unbooked"
               PROVE  events'[e].state # "unbooked"
    BY DEF BookedInTurn
  <1>1. CASE events[f].state # "unbooked"
    BY <1>1, HistoryStays DEF MInv, BookedInTurn
  <1>2. CASE events[f].state = "unbooked"
    <2>1. Book(f)
      BY <1>2, OnlyBookBooks
    <2>2. events[e].state # "unbooked"
      BY <2>1 DEF Book
    <2>3. QED
      BY <2>2, HistoryStays
  <1>3. QED
    BY <1>1, <1>2

LEMMA StillOursStep ==
  ASSUME IInv, MInv, [Next]_vars
  PROVE  StillOurs'
  <1> SUFFICES ASSUME NEW e \in Events, NEW a \in events'[e].ours
               PROVE  /\ a \in AccountsOf(e)
                      /\ \A f \in Events : e < f /\ a \in AccountsOf(f)
                                              /\ events'[f].company = owner'[a]
                                            => a \in events'[f].ours
    BY DEF StillOurs, AccountsOf
  <1>1. CASE events[e].state # "unbooked"
    <2>1. a \in events[e].ours /\ a \in Accounts /\ owner'[a] = owner[a] /\ owner[a] # None
      BY <1>1, HistoryStays, OursAreBooked
    <2>2. ASSUME NEW f \in Events, e < f, a \in AccountsOf(f), events'[f].company = owner'[a]
          PROVE  a \in events'[f].ours
      <3>1. CASE events[f].state # "unbooked"
        BY <2>1, <2>2, <3>1, HistoryStays DEF MInv, StillOurs
      <3>2. CASE events[f].state = "unbooked" /\ Book(f)
        <4>1. PICK c \in Companies \union {None} :
                events' = [events EXCEPT ![f] =
                  [state |-> "queued", tries |-> 0, company |-> c,
                   ours |-> {b \in AccountsOf(f) : c # None /\ owner[b] = c}]]
          BY <3>2 DEF Book
        <4>2. /\ events'[f].company = c
              /\ events'[f].ours = {b \in AccountsOf(f) : c # None /\ owner[b] = c}
          BY <4>1 DEF IInv, TypeOK
        <4>3. QED
          BY <2>1, <2>2, <4>2
      <3>3. CASE events[f].state = "unbooked" /\ ~Book(f)
        <4>1. events'[f].company = None
          BY <3>3, OnlyBookBooks DEF IInv, EventsKnowTheirAccounts
        <4>2. QED
          BY <2>1, <2>2, <4>1
      <3>4. QED
        BY <3>1, <3>2, <3>3
    <2>3. QED
      BY <2>1, <2>2 DEF MInv, StillOurs
  <1>2. CASE events[e].state = "unbooked"
    <2>1. Book(e)
      <3>1. events[e].ours = {}
        BY <1>2 DEF IInv, EventsKnowTheirAccounts
      <3>2. QED
        BY <1>2, <3>1, OnlyBookBooks
    <2>2. PICK c \in Companies \union {None} :
            events' = [events EXCEPT ![e] =
              [state |-> "queued", tries |-> 0, company |-> c,
               ours |-> {b \in AccountsOf(e) : c # None /\ owner[b] = c}]]
      BY <2>1 DEF Book
    <2>3. a \in AccountsOf(e) /\ owner[a] = c /\ c # None /\ UNCHANGED owner
      BY <2>1, <2>2 DEF Book, appVars, IInv, TypeOK
    <2>4. ASSUME NEW f \in Events, e < f PROVE events'[f].company = None
      <3>1. events[f].state = "unbooked"
        BY <1>2, <2>4 DEF MInv, BookedInTurn
      <3>2. f # e
        BY <2>4, TimesTyped
      <3>3. events'[f] = events[f]
        BY <2>2, <3>2 DEF IInv, TypeOK
      <3>4. QED
        BY <3>1, <3>3 DEF IInv, EventsKnowTheirAccounts
    <2>5. QED
      BY <2>3, <2>4
  <1>3. QED
    BY <1>1, <1>2

\* What the bank owes it goes on owing until a delivery is acknowledged.
LEMMA OwedStays ==
  ASSUME IInv, [Next]_vars, NEW f \in Events, Owes(f)
  PROVE  Owes(f)' \/ \E d \in Deliveries : Acknowledge(d) /\ deliveries[d].event = f
  <1>1. CASE f \in Figureless
    BY <1>1 DEF Owes
  <1>2. CASE events[f].state \in {"queued", "failed"}
    <2>1. events'[f].state # "unbooked" /\ events'[f] \in Event
      BY <1>2, HistoryStays, TypeStep DEF TypeOK
    <2>2. CASE events'[f].state \in {"queued", "failed"}
      BY <2>2 DEF Owes
    <2>3. CASE events'[f].state = "acked"
      BY <1>2, <2>3, OnlyAcknowledgeAcks
    <2>4. QED
      BY <2>1, <2>2, <2>3 DEF Event
  <1>3. QED
    BY <1>1, <1>2 DEF Owes

LEMMA ShowsStays ==
  ASSUME IInv, MInv, [Next]_vars, \A b \in Accounts : balance'[b] >= balance[b],
         NEW e \in Events, NEW a \in Accounts, Shows(e, a)
  PROVE  Shows(e, a)'
  <1>0. /\ balance[a] \in Nat /\ balance'[a] \in Nat /\ Events \subseteq Nat
        /\ balance'[a] >= balance[a]
    BY TypeStep, TimesTyped DEF IInv, TypeOK
  <1>1. CASE balance[a] >= e
    BY <1>0, <1>1 DEF Shows
  <1>2. ASSUME NEW f \in Events, f > e, a \in events[f].ours, Owes(f)
        PROVE  Shows(e, a)'
    <2>1. a \in events'[f].ours
      BY <1>2, OursAreBooked, HistoryStays
    <2>2. CASE Owes(f)'
      BY <1>2, <2>1, <2>2 DEF Shows
    <2>3. ASSUME ~Owes(f)', NEW d \in Deliveries, Acknowledge(d), deliveries[d].event = f
          PROVE  Shows(e, a)'
      <3>1. f \notin Figureless
        BY <2>3 DEF Owes
      <3>2. Shows(f, a)
        BY <1>2, <2>3, <3>1 DEF Acknowledge, MInv, WillShow
      <3>3. CASE balance[a] >= f
        <4>1. balance'[a] >= e
          BY <1>0, <1>2, <3>3
        <4>2. QED
          BY <4>1 DEF Shows
      <3>4. ASSUME NEW g \in Events, g > f, a \in events[g].ours, Owes(g)
            PROVE  Shows(e, a)'
        <4>1. g # f /\ g > e
          BY <1>0, <1>2, <3>4
        <4>2. events'[g] = events[g]
          BY <2>3, <4>1 DEF Acknowledge, IInv, TypeOK
        <4>3. QED
          BY <3>4, <4>1, <4>2 DEF Shows, Owes
      <3>5. QED
        BY <3>2, <3>3, <3>4 DEF Shows
    <2>4. QED
      BY <1>2, <2>2, <2>3, OwedStays
  <1>3. QED
    BY <1>1, <1>2 DEF Shows

LEMMA NewestStep ==
  ASSUME IInv, MInv, [Next]_vars, NEW x \in Deliveries
  PROVE  KnowsTheNewest(x)'
  <1> DEFINE D == deliveries[x]
  <1>0. D \in Delivery /\ Owned(x) /\ KnowsTheNewest(x) /\ transactions \subseteq transactions'
    BY HistoryStays DEF IInv, TypeOK, DeliveriesAreOwned, MInv
  <1>1. CASE deliveries'[x] = D
    BY <1>0, <1>1 DEF KnowsTheNewest
  <1>2. CASE ReadLatest(x)
    <2>1. PICK t \in Times :
            /\ IsNewest(t, {n \in Movements : \E r \in transactions :
                                                r.movement = n /\ r.account = D.account})
            /\ deliveries' = [deliveries EXCEPT ![x].pc = "writing", ![x].latest = t,
                 ![x].left = Reported[D.event][D.account]]
      BY <1>2 DEF ReadLatest
    <2>2. deliveries'[x].latest = t /\ deliveries'[x].account = D.account
      <3>1. deliveries'[x] = [D EXCEPT !.pc = "writing", !.latest = t,
                                       !.left = Reported[D.event][D.account]]
        BY <2>1 DEF IInv, TypeOK
      <3>2. QED
        BY <1>0, <3>1 DEF Delivery
    <2>3. ASSUME t # 0
          PROVE  \E row \in transactions : row.account = D.account /\ BookedAt[row.movement] = t
      BY <2>1, <2>3 DEF IsNewest
    <2>4. QED
      BY <1>0, <2>2, <2>3 DEF KnowsTheNewest
  <1>3. ASSUME NEW m \in Movements, WriteMovement(x, m) PROVE KnowsTheNewest(x)'
    <2>1. PICK fresh \in SUBSET Movements, pc \in {"balancing", "writing"} :
            deliveries'[x] = [D EXCEPT !.left = D.left \ {m}, !.fresh = fresh, !.pc = pc]
      <3>1. PICK fresh \in SUBSET Movements :
              deliveries'[x] = [D EXCEPT !.left = D.left \ {m}, !.fresh = fresh,
                                         !.pc = IF D.left = {m} THEN "balancing" ELSE D.pc]
        BY <1>0, <1>3 DEF WriteMovement, Delivery, IInv, TypeOK
      <3>2. D.pc = "writing"
        BY <1>3 DEF WriteMovement
      <3>3. QED
        BY <3>1, <3>2
    <2>2. deliveries'[x].account = D.account /\ deliveries'[x].latest = D.latest
      BY <1>0, <2>1 DEF Delivery
    <2>3. D.pc = "writing"
      BY <1>3 DEF WriteMovement
    <2>4. QED
      BY <1>0, <2>2, <2>3 DEF KnowsTheNewest
  <1>4. CASE Unheard(x)
    <2>1. deliveries'[x] = [D EXCEPT !.heard = FALSE]
      BY <1>4 DEF Unheard, IInv, TypeOK
    <2>2. /\ deliveries'[x].pc = D.pc /\ deliveries'[x].account = D.account
          /\ deliveries'[x].latest = D.latest
      BY <1>0, <2>1 DEF Delivery
    <2>3. QED
      BY <1>0, <2>2 DEF KnowsTheNewest
  <1>5. ASSUME deliveries'[x] # D, ~ReadLatest(x), ~Unheard(x),
               ~\E m \in Movements : WriteMovement(x, m)
        PROVE  KnowsTheNewest(x)'
    BY <1>5, ElsewherePc DEF KnowsTheNewest
  <1>6. QED
    BY <1>1, <1>2, <1>3, <1>4, <1>5

\* A figure is refused only because the bank has booked later ones on the
\* account, and those are on file or still owed.
LEMMA StaleShows ==
  ASSUME IInv, MInv, BookedInOrder, NEW d \in Deliveries, deliveries[d].pc = "balancing",
         Stale(d), deliveries[d].account \in events[deliveries[d].event].ours
  PROVE  Shows(deliveries[d].event, deliveries[d].account)
  <1> DEFINE D == deliveries[d]
             a == deliveries[d].account
             e == deliveries[d].event
  <1>1. e \in Events /\ a \in Accounts /\ D \in Delivery /\ owner[a] # None
    BY OursAreBooked DEF IInv, TypeOK, DeliveriesAreOwned, Owned, AtAnAccount
  <1>2. PICK m \in Reported[e][a] : BookedAt[m] < D.latest
    BY <1>1 DEF MInv, StillOurs, AccountsOf, Stale
  <1>3. m \in Movements /\ BookedAt[m] \in Nat
    BY <1>1, <1>2, ReportedTyped, TimesTyped
  <1>4. D.latest # 0
    BY <1>2, <1>3
  <1>5. PICK row \in transactions : row.account = a /\ BookedAt[row.movement] = D.latest
    BY <1>4 DEF MInv, KnowsTheNewest
  <1>6. PICK f \in Events : row.movement \in Reported[f][a] /\ owner[a] = events[f].company
    BY <1>5 DEF IInv, BookedToTheNamedOwner
  <1>7. row.movement \in Movements /\ BookedAt[row.movement] \in Nat
    BY <1>1, <1>6, ReportedTyped, TimesTyped
  <1>8. f > e
    <2>1. e \in Nat /\ f \in Nat
      BY <1>1, TimesTyped
    <2>2. ~(f < e)
      BY <1>1, <1>2, <1>3, <1>5, <1>6, <1>7 DEF BookedInOrder
    <2>3. f # e
      <3>1. f = e => BookedAt[row.movement] < D.latest
        BY <1>6 DEF Stale
      <3>2. QED
        BY <1>5, <1>7, <3>1
    <2>4. QED
      BY <2>1, <2>2, <2>3
  <1>9. a \in events[f].ours
    BY <1>1, <1>6, <1>8 DEF MInv, StillOurs, AccountsOf
  <1>10. CASE Owes(f)
    BY <1>8, <1>9, <1>10 DEF Shows
  <1>11. CASE ~Owes(f)
    <2>1. f \notin Figureless /\ events[f].state = "acked"
      BY <1>9, <1>11, OursAreBooked DEF Owes, IInv, TypeOK, Event
    <2>2. Shows(f, a)
      BY <1>9, <2>1 DEF MInv, AckedShow
    <2>3. balance[a] \in Nat /\ e \in Nat /\ f \in Nat
      BY <1>1, TimesTyped DEF IInv, TypeOK
    <2>4. CASE balance[a] >= f
      <3>1. balance[a] >= e
        BY <1>8, <2>3, <2>4
      <3>2. QED
        BY <3>1 DEF Shows
    <2>5. ASSUME NEW g \in Events, g > f, a \in events[g].ours, Owes(g)
          PROVE  Shows(e, a)
      <3>1. g > e
        BY <1>8, <2>3, <2>5, TimesTyped
      <3>2. QED
        BY <2>5, <3>1 DEF Shows
    <2>6. QED
      BY <2>2, <2>4, <2>5 DEF Shows
  <1>12. QED
    BY <1>10, <1>11

LEMMA WillShowStep ==
  ASSUME IInv, MInv, [Next]_vars, BookedInOrder,
         \A b \in Accounts : balance'[b] >= balance[b], NEW x \in Deliveries
  PROVE  WillShow(x)'
  <1> DEFINE D == deliveries[x]
             e == deliveries[x].event
  <1>0. D \in Delivery /\ Owned(x) /\ WillShow(x)
    BY DEF IInv, TypeOK, DeliveriesAreOwned, MInv
  <1>1. D.pc # "idle" => e \in Events /\ events'[e].ours = events[e].ours
    BY <1>0, HistoryStays DEF Owned
  <1>2. ASSUME NEW f \in Events, NEW a \in events[f].ours, Shows(f, a) PROVE Shows(f, a)'
    BY <1>2, OursAreBooked, ShowsStays
  <1>3. CASE deliveries'[x] = D
    BY <1>0, <1>1, <1>2, <1>3 DEF WillShow
  <1>4. ASSUME NEW f \in Events, Deliver(x, f) PROVE WillShow(x)'
    <2>1. deliveries'[x].event = f /\ deliveries'[x].todo = AccountsOf(f)
      BY <1>4 DEF Deliver, NoDelivery, IInv, TypeOK
    <2>2. events'[f].ours \subseteq AccountsOf(f)
      BY StillOursStep DEF StillOurs, AccountsOf
    <2>3. QED
      BY <2>1, <2>2 DEF WillShow
  <1>5. ASSUME NEW a \in Accounts, OwnedAccount(x, a) PROVE WillShow(x)'
    <2>1. D.pc = "accounts" /\ e \in Events
      BY <1>0, <1>5 DEF OwnedAccount, Owned
    <2>2. CASE owner[a] # None /\ owner[a] = events[e].company
      <3>1. deliveries'[x] = [D EXCEPT !.pc = "reading", !.account = a,
                                       !.company = owner[a], !.todo = D.todo \ {a}]
        BY <1>5, <2>2 DEF OwnedAccount, IInv, TypeOK
      <3>2. /\ deliveries'[x].pc = "reading" /\ deliveries'[x].account = a
            /\ deliveries'[x].todo = D.todo \ {a} /\ deliveries'[x].event = e
        BY <1>0, <3>1 DEF Delivery
      <3>3. QED
        BY <1>0, <1>1, <1>2, <2>1, <3>2 DEF WillShow
    <2>3. CASE ~(owner[a] # None /\ owner[a] = events[e].company)
      <3>1. deliveries'[x] = [D EXCEPT !.todo = D.todo \ {a}]
        BY <1>5, <2>3 DEF OwnedAccount, IInv, TypeOK
      <3>2. deliveries'[x].todo = D.todo \ {a} /\ deliveries'[x].event = e
        BY <1>0, <3>1 DEF Delivery
      <3>3. a \notin events[e].ours
        BY <2>1, <2>3 DEF IInv, EventsKnowTheirAccounts
      <3>4. QED
        BY <1>0, <1>1, <1>2, <2>1, <3>2, <3>3 DEF WillShow
    <2>4. QED
      BY <2>2, <2>3
  \* At an account, up to its balance.
  <1>6. ASSUME D.pc \in {"reading", "writing"}, deliveries'[x].pc \in {"writing", "balancing"},
               deliveries'[x].todo = D.todo, deliveries'[x].event = e,
               deliveries'[x].account = D.account
        PROVE  WillShow(x)'
    BY <1>0, <1>1, <1>2, <1>6 DEF WillShow
  <1>7. CASE ReadLatest(x)
    <2>1. PICK t \in Times :
            deliveries'[x] = [D EXCEPT !.pc = "writing", !.latest = t,
                                       !.left = Reported[e][D.account]]
      BY <1>7 DEF ReadLatest, IInv, TypeOK
    <2>2. /\ deliveries'[x].pc = "writing" /\ deliveries'[x].todo = D.todo
          /\ deliveries'[x].event = e /\ deliveries'[x].account = D.account
      BY <1>0, <2>1 DEF Delivery
    <2>3. QED
      BY <1>6, <1>7, <2>2 DEF ReadLatest
  <1>8. ASSUME NEW m \in Movements, WriteMovement(x, m) PROVE WillShow(x)'
    <2>1. D.pc = "writing"
      BY <1>8 DEF WriteMovement
    <2>2. PICK fresh \in SUBSET Movements, pc \in {"balancing", "writing"} :
            deliveries'[x] = [D EXCEPT !.left = D.left \ {m}, !.fresh = fresh, !.pc = pc]
      <3>1. PICK fresh \in SUBSET Movements :
              deliveries'[x] = [D EXCEPT !.left = D.left \ {m}, !.fresh = fresh,
                                         !.pc = IF D.left = {m} THEN "balancing" ELSE D.pc]
        BY <1>0, <1>8 DEF WriteMovement, Delivery, IInv, TypeOK
      <3>2. QED
        BY <2>1, <3>1
    <2>3. /\ deliveries'[x].pc \in {"writing", "balancing"} /\ deliveries'[x].todo = D.todo
          /\ deliveries'[x].event = e /\ deliveries'[x].account = D.account
      BY <1>0, <2>2 DEF Delivery
    <2>4. QED
      BY <1>6, <2>1, <2>3
  <1>9. CASE SetBalance(x)
    <2>1. D.pc = "balancing" /\ e \in Events /\ D.account \in Accounts
      BY <1>0, <1>9 DEF SetBalance, Owned, AtAnAccount
    <2>2. deliveries'[x].todo = D.todo /\ deliveries'[x].event = e
      BY <1>0, <1>9 DEF SetBalance, Delivery, IInv, TypeOK
    <2>3. ASSUME NEW f \in Events \ Figureless, f = e,
                 NEW a \in events[f].ours, a = D.account
          PROVE  Shows(f, a)'
      <3>1. CASE Stale(x)
        BY <1>2, <2>1, <2>3, <3>1, StaleShows
      <3>2. CASE ~Stale(x)
        <4>1. balance'[a] = f
          BY <1>9, <2>1, <2>3, <3>2 DEF SetBalance, IInv, TypeOK
        <4>2. balance'[a] >= f
          BY <2>1, <4>1, TimesTyped
        <4>3. QED
          BY <4>2 DEF Shows
      <3>3. QED
        BY <3>1, <3>2
    <2>4. QED
      BY <1>0, <1>1, <1>2, <2>1, <2>2, <2>3 DEF WillShow
  <1>10. CASE AnnounceFails(x) \/ \E m \in Movements : Announce(x, m)
    <2>1. D.pc = "announcing"
      BY <1>10 DEF AnnounceFails, Announce
    <2>2. PICK fresh \in SUBSET Movements, pc \in {"accounts", "announcing"} :
            deliveries'[x] = [D EXCEPT !.fresh = fresh, !.pc = pc]
      <3>1. CASE AnnounceFails(x)
        BY <1>0, <3>1 DEF AnnounceFails, Delivery, IInv, TypeOK
      <3>2. ASSUME NEW m \in Movements, Announce(x, m)
            PROVE  \E fresh \in SUBSET Movements, pc \in {"accounts", "announcing"} :
                     deliveries'[x] = [D EXCEPT !.fresh = fresh, !.pc = pc]
        BY <1>0, <3>2 DEF Announce, Delivery, IInv, TypeOK
      <3>3. QED
        BY <1>10, <3>1, <3>2
    <2>3. deliveries'[x].todo = D.todo /\ deliveries'[x].event = e
      BY <1>0, <2>2 DEF Delivery
    <2>4. QED
      BY <1>0, <1>1, <1>2, <2>1, <2>3 DEF WillShow
  <1>11. CASE Acknowledge(x) \/ Lost(x)
    BY <1>11 DEF Acknowledge, Lost, NoDelivery, WillShow, IInv, TypeOK
  <1>12. CASE Unheard(x)
    <2>1. deliveries'[x] = [D EXCEPT !.heard = FALSE]
      BY <1>12 DEF Unheard, IInv, TypeOK
    <2>2. /\ deliveries'[x].pc = D.pc /\ deliveries'[x].todo = D.todo
          /\ deliveries'[x].event = e /\ deliveries'[x].account = D.account
      BY <1>0, <2>1 DEF Delivery
    <2>3. QED
      BY <1>0, <1>1, <1>2, <2>2 DEF WillShow
  <1>13. CASE deliveries'[x] # D
    <2>1. Moves(x)
      BY <1>13, OneDeliveryAtATime
    <2>2. QED
      BY <1>4, <1>5, <1>7, <1>8, <1>9, <1>10, <1>11, <1>12, <2>1 DEF Moves, Apply
  <1>14. QED
    BY <1>3, <1>13

LEMMA AckedShowStep ==
  ASSUME IInv, MInv, [Next]_vars, \A b \in Accounts : balance'[b] >= balance[b]
  PROVE  AckedShow'
  <1> SUFFICES ASSUME NEW e \in Events \ Figureless, events'[e].state = "acked",
                      NEW a \in events'[e].ours
               PROVE  Shows(e, a)'
    BY DEF AckedShow
  <1>1. CASE events[e].state = "acked"
    <2>1. a \in events[e].ours
      BY <1>1, HistoryStays
    <2>2. Shows(e, a) /\ a \in Accounts
      BY <1>1, <2>1, OursAreBooked DEF MInv, AckedShow
    <2>3. QED
      BY <2>2, ShowsStays
  <1>2. CASE events[e].state # "acked"
    <2>1. PICK d \in Deliveries : Acknowledge(d) /\ deliveries[d].event = e
      BY <1>2, OnlyAcknowledgeAcks
    <2>2. deliveries[d].pc = "accounts" /\ deliveries[d].todo = {}
      BY <2>1 DEF Acknowledge
    <2>3. a \in events[e].ours
      BY <2>1, <2>2, HistoryStays DEF IInv, DeliveriesAreOwned, Owned
    <2>4. Shows(e, a) /\ a \in Accounts
      BY <2>1, <2>2, <2>3, OursAreBooked DEF MInv, WillShow
    <2>5. QED
      BY <2>4, ShowsStays
  <1>3. QED
    BY <1>1, <1>2

\* With deliveries one at a time, an acknowledged event shows in the balance of
\* every account that was connected when it was booked, or a later event does,
\* or will, whatever was redelivered, out of order or died.
THEOREM SerialMirrorCatchesUp ==
  ASSUME Serial, BookedInOrder
  PROVE  Spec => []AckedMeansMirrored
  <1>1. Init => BInv /\ MInv
    <2>1. Init => BInv
      BY DEF Init, BInv, BalanceIsExplained, SawTheBalance, HasWritten, NoDelivery
    <2>2. Init => MInv
      BY DEF Init, MInv, BookedInTurn, StillOurs, AckedShow, KnowsTheNewest, WillShow,
         NoDelivery
    <2>3. QED
      BY <2>1, <2>2
  <1>2. IInv /\ BInv /\ MInv /\ [Next]_vars => BInv' /\ MInv'
    <2> SUFFICES ASSUME IInv, BInv, MInv, [Next]_vars PROVE BInv' /\ MInv'
      OBVIOUS
    <2>1. BInv' /\ \A a \in Accounts : balance'[a] >= balance[a]
      BY BalanceStep
    <2>2. BookedInTurn' /\ StillOurs'
      BY InTurnStep, StillOursStep
    <2>3. AckedShow'
      BY <2>1, AckedShowStep
    <2>4. \A x \in Deliveries : KnowsTheNewest(x)' /\ WillShow(x)'
      BY <2>1, NewestStep, WillShowStep
    <2>5. QED
      BY <2>1, <2>2, <2>3, <2>4 DEF MInv
  <1>3. MInv => AckedMeansMirrored
    BY DEF MInv, AckedShow, StillOurs, Shows, Owes, AckedMeansMirrored
  <1>4. QED
    BY <1>1, <1>2, <1>3, Invariance, PTL DEF Spec
=============================================================================
